-------------------------- MODULE ServiceLinkProofs --------------------------
(***************************************************************************)
(* That the road between the UI and tacky loses nobody's call and mixes up  *)
(* none, for any number of connections, UI processes and requests, and      *)
(* whatever order the service's threads run in.                             *)
(***************************************************************************)
EXTENDS ServiceLink, Queues

Toks == 1..MaxAsk

\* The answers a connection may be sent for a token.
Reply(c, t) == {f \in Frame : f.gen = c /\ f.tok = t}

\* Where a call of the connected UI can be on its way: in the socket, in the token
\* map, in the queue, in the writer's hand, in the socket on its way back.
InUp(t) == Some(up[conn], {t})
InMap(t) == \E e \in pending : e.gen = conn /\ e.tok = t
InQueue(t) == Some(queue, Reply(conn, t))
InHand(t) == held # <<>> /\ held[1] \in Reply(conn, t)
InDown(t) == Some(down[conn], Reply(conn, t))

-----------------------------------------------------------------------------
(* The invariant.                                                           *)

\* A connection waits to be accepted, is accepted, and then has a reader: it is at
\* one of these, its service end open until the client is closed or the reader ends.
Threads ==
    /\ \A i \in 1..Len(backlog) :
          /\ backlog[i] \in srvOpen /\ reader[backlog[i]] = "none"
          /\ backlog[i] <= conns /\ backlog[i] # accepted
    /\ \A i, j \in 1..Len(backlog) : backlog[i] = backlog[j] => i = j
    /\ accepted # 0 =>
          accepted \in srvOpen /\ reader[accepted] = "none" /\ accepted <= conns
    /\ client # 0 => client \in srvOpen /\ reader[client] # "none"
    /\ \A c \in Conns : reader[c] = "sending" => up[c] # <<>>
    /\ \A c \in Conns : reader[c] # "none" => c <= conns

\* What belongs to a connection is marked as its own, all the way.
Marked(f, c) == f.gen # ANY => f.gen = c /\ f.call = <<lifeOf[c], f.tok>>

\* An event carries no token; an answer is the answer to the call it names.
Own(f) ==
    /\ f.gen = ANY => f.tok = 0
    /\ f.gen # ANY => f.tok \in Toks /\ f.gen <= conns /\ Marked(f, f.gen)

\* tacky's numbers are never used twice, and a number and a request that share
\* theirs are of one call.
MapLabels ==
    /\ \A e \in pending : e.gen <= conns
    /\ \A e, f \in pending : e.ours = f.ours => e = f
    /\ \A e \in pending : e.gen # SELF => e.tok \in Toks
    /\ \A r \in working : r.ours \in 1..(nextOurs - 1)
    /\ \A r \in working : \A e \in pending :
          e.ours = r.ours /\ e.gen # SELF => r.call = <<lifeOf[e.gen], e.tok>>

QueueLabels == \A i \in 1..Len(queue) : Own(queue[i])

HandLabels == held # <<>> => Own(held[1]) /\ Marked(held[1], held[2]) /\ held[2] <= conns

DownLabels ==
    \A c \in Conns : \A i \in 1..Len(down[c]) : Own(down[c][i]) /\ Marked(down[c][i], c)

\* Nothing is on a connection that is still to be made.
Unused == \A c \in Conns : c > conns => up[c] = <<>> /\ down[c] = <<>>

Labels == MapLabels /\ QueueLabels /\ HandLabels /\ DownLabels /\ Unused

\* The UI's own books: a token is out or unsent, and was asked for.
Books ==
    /\ inflight \cup unsent \subseteq 1..(next - 1)
    /\ inflight \cap unsent = {}
    /\ \A a \in asked : a[1] < life \/ (a[1] = life /\ a[2] < next)
    /\ asked \subseteq (1..MaxLife) \X (1..MaxAsk)
    /\ conn # 0 => conn <= conns /\ lifeOf[conn] = life

\* A call of the connected UI is not twice at any place ...
Single(t) ==
    /\ Once(up[conn], {t}) /\ Once(queue, Reply(conn, t)) /\ Once(down[conn], Reply(conn, t))
    /\ \A e, f \in pending : e.gen = conn /\ e.tok = t /\ f.gen = conn /\ f.tok = t => e = f

\* ... nor at two of them, and is waited for wherever it is.
Alone(t) ==
    /\ Single(t)
    /\ InUp(t) => ~InMap(t) /\ ~InQueue(t) /\ ~InHand(t) /\ ~InDown(t)
    /\ InMap(t) => ~InQueue(t) /\ ~InHand(t) /\ ~InDown(t)
    /\ InQueue(t) => ~InHand(t) /\ ~InDown(t)
    /\ InHand(t) => ~InDown(t)
    /\ InUp(t) \/ InMap(t) \/ InQueue(t) \/ InHand(t) \/ InDown(t) => t \in inflight

Calls == conn # 0 => \A t \in Toks : Alone(t)

Inv == TypeOK /\ NothingOwedToTheGone /\ Threads /\ Labels /\ Books /\ Calls

-----------------------------------------------------------------------------
(* One connection, one place in the service.                                *)

\* The accept loop's queue, after a newcomer and after its head is accepted.
LEMMA BacklogSteps ==
    ASSUME Inv
    PROVE  /\ backlog \in Seq(Conns) /\ conns \in Nat /\ MaxConn \in Nat
           /\ \A i \in 1..Len(backlog) :
                 backlog[i] \in Conns /\ backlog[i] # client /\ backlog[i] # 0
           /\ client \in 0..MaxConn /\ accepted \in 0..MaxConn
           /\ accepted # 0 => accepted # client
<1>1. /\ backlog \in Seq(Conns) /\ conns \in 0..MaxConn /\ MaxConn \in Nat
      /\ client \in 0..MaxConn /\ accepted \in 0..MaxConn
      BY ServiceLinkAssumption DEF ServiceLinkAssumption, Inv, TypeOK, UiOK, SocketsOK, RouterOK, MapOK
<1>2. \A i \in 1..Len(backlog) : backlog[i] \in Conns
      BY <1>1, ElementOfSeq
<1>3. \A i \in 1..Len(backlog) : backlog[i] # 0
      BY <1>1, <1>2 DEF Conns
<1>4. \A i \in 1..Len(backlog) : backlog[i] # client
      BY <1>3 DEF Inv, Threads
<1>5. accepted # 0 => accepted # client
      BY DEF Inv, Threads
<1> QED BY <1>1, <1>2, <1>3, <1>4, <1>5

LEMMA AcceptThreads ==
    ASSUME Inv, UiConnect \/ AcceptClose \/ AcceptSet
    PROVE  Threads'
<1> USE DEF Conns
<1>1. CASE UiConnect
      <2>1. /\ conns' = conns + 1 /\ conns' \in Conns
            /\ backlog' = Append(backlog, conns')
            BY <1>1, BacklogSteps DEF UiConnect
      <2>2. /\ Len(backlog') = Len(backlog) + 1 /\ Len(backlog) \in Nat
            /\ \A i \in 1..Len(backlog') :
                  backlog'[i] = IF i <= Len(backlog) THEN backlog[i] ELSE conns'
            BY <2>1, BacklogSteps, AppendKeeps
      <2>3. reader[conns'] = "none"
            BY <2>1, BacklogSteps DEF Inv, Threads, TypeOK, UiOK, SocketsOK, RouterOK, MapOK
      <2>4. \A i \in 1..Len(backlog') :
               /\ backlog'[i] \in srvOpen' /\ reader[backlog'[i]] = "none"
               /\ backlog'[i] <= conns' /\ backlog'[i] # accepted
            BY <1>1, <2>1, <2>2, <2>3, BacklogSteps DEF Inv, Threads, UiConnect
      <2>5. \A i, j \in 1..Len(backlog') : backlog'[i] = backlog'[j] => i = j
            BY <2>1, <2>2, BacklogSteps DEF Inv, Threads
      <2>6. \A c \in Conns : reader[c] # "none" => c <= conns'
            BY <2>1, BacklogSteps DEF Inv, Threads
      <2> QED BY <1>1, <2>1, <2>4, <2>5, <2>6, BacklogSteps DEF Inv, Threads, UiConnect
<1>2. CASE AcceptClose
      <2>1. /\ accepted = 0 /\ accepted' = backlog[1] /\ backlog' = Tail(backlog)
            /\ Len(backlog') = Len(backlog) - 1 /\ Len(backlog) \in Nat \ {0}
            /\ \A i \in 1..Len(backlog') : backlog'[i] = backlog[i + 1]
            BY <1>2, BacklogSteps, TailKeeps DEF AcceptClose
      <2>2. client' = 0 /\ srvOpen' = srvOpen \ {client} /\ UNCHANGED <<reader, conns, up>>
            BY <1>2 DEF AcceptClose, CloseClient
      <2>3. \A i \in 1..Len(backlog') : i + 1 \in 1..Len(backlog) /\ i + 1 # 1
            BY <2>1
      <2>4. 1 \in 1..Len(backlog)
            BY <2>1
      <2> QED BY <2>1, <2>2, <2>3, <2>4, BacklogSteps DEF Inv, Threads
<1>3. CASE AcceptSet
      <2>1. /\ client' = accepted /\ accepted' = 0 /\ accepted \in Conns
            /\ reader' = [reader EXCEPT ![accepted] = "reading"]
            /\ UNCHANGED <<backlog, conns, srvOpen, up>>
            BY <1>3, BacklogSteps DEF AcceptSet, sockVars
      <2>2. /\ reader'[accepted] = "reading"
            /\ \A c \in Conns : c # accepted => reader'[c] = reader[c]
            BY <2>1 DEF Inv, TypeOK, UiOK, SocketsOK, RouterOK, MapOK
      <2> QED BY <2>1, <2>2, BacklogSteps DEF Inv, Threads
<1> QED BY <1>1, <1>2, <1>3

LEMMA ReaderThreads ==
    ASSUME Inv, NEW c \in Conns, ReaderTake(c) \/ ReaderSend(c) \/ ReaderEnd(c)
    PROVE  Threads'
<1>1. /\ reader \in [Conns -> {"none", "reading", "sending", "done"}]
      /\ up \in [Conns -> Seq(Toks)]
      BY DEF Inv, TypeOK, UiOK, SocketsOK, RouterOK, MapOK, Toks
<1>2. /\ reader[c] \in {"reading", "sending"} /\ reader'[c] # "none"
      /\ UNCHANGED <<backlog, accepted, conns>>
      /\ \A d \in Conns : d # c => reader'[d] = reader[d] /\ up'[d] = up[d]
      BY <1>1 DEF ReaderTake, ReaderSend, ReaderEnd
<1>3. /\ client' \in {client, 0} /\ srvOpen' \in {srvOpen, srvOpen \ {c}}
      /\ srvOpen' # srvOpen => client' # c
      BY BacklogSteps DEF ReaderTake, ReaderSend, ReaderEnd, Conns
<1>4. \A i \in 1..Len(backlog) : backlog[i] # c
      BY <1>2 DEF Inv, Threads
<1>5. accepted # 0 => accepted # c
      BY <1>2 DEF Inv, Threads
<1>6. reader'[c] = "sending" => up'[c] # <<>>
      BY <1>1 DEF ReaderTake, ReaderSend, ReaderEnd
<1>7. \A d \in Conns : reader'[d] = "sending" => up'[d] # <<>>
      BY <1>2, <1>6 DEF Inv, Threads
<1>8. \A d \in Conns : reader'[d] # "none" => d <= conns'
      BY <1>2 DEF Inv, Threads
<1>9. /\ \A i \in 1..Len(backlog) : backlog[i] \in srvOpen' /\ reader'[backlog[i]] = "none"
      /\ accepted # 0 => accepted \in srvOpen' /\ reader'[accepted] = "none"
      <2>1. \A x : x \in srvOpen /\ x # c => x \in srvOpen'
            BY <1>3
      <2>2. \A i \in 1..Len(backlog) :
               backlog[i] \in srvOpen' /\ reader'[backlog[i]] = "none"
            BY <1>2, <1>4, <2>1, BacklogSteps DEF Inv, Threads
      <2>3. accepted # 0 => accepted \in srvOpen' /\ reader'[accepted] = "none"
            BY <1>2, <1>5, <2>1, BacklogSteps DEF Inv, Threads, Conns
      <2> QED BY <2>2, <2>3
<1>10. client' # 0 => client' \in srvOpen' /\ reader'[client'] # "none"
      BY <1>2, <1>3, BacklogSteps DEF Inv, Threads, Conns
<1> QED BY <1>2, <1>7, <1>8, <1>9, <1>10 DEF Inv, Threads

LEMMA ThreadsStep == ASSUME Inv, Next PROVE Threads'
<1>1. CASE UiConnect \/ AcceptClose \/ AcceptSet
      BY <1>1, AcceptThreads
<1>2. CASE Ask
      <2>1. UNCHANGED <<backlog, accepted, conns, client, reader, srvOpen>>
            BY <1>2 DEF Ask
      <2>2. \A c \in Conns : up[c] # <<>> => up'[c] # <<>>
            <3>1. CASE up' = up
                  BY <3>1
            <3>2. CASE up' = [up EXCEPT ![conn] = Append(@, next)]
                  <4>1. up \in [Conns -> Seq(Toks)] /\ next \in Toks
                        BY <1>2, ServiceLinkAssumption
                           DEF Ask, Inv, TypeOK, UiOK, SocketsOK, RouterOK, MapOK, Toks, ServiceLinkAssumption
                  <4>2. \A c \in Conns : Append(up[c], next) # <<>>
                        BY <4>1, AppendProperties
                  <4> QED BY <3>2, <4>1, <4>2
            <3> QED BY <1>2, <3>1, <3>2 DEF Ask
      <2> QED BY <2>1, <2>2 DEF Inv, Threads
<1>3. CASE UiRead \/ UiDrop \/ UiDie \/ \E tok \in unsent : FailUnsent(tok)
      BY <1>3 DEF UiRead, UiDrop, UiDie, FailUnsent, sockVars, Inv, Threads
<1>4. CASE Readers
      BY <1>4, ReaderThreads DEF Readers
<1>5. CASE WriterTake \/ WriterWrite
      BY <1>5 DEF WriterTake, WriterWrite, sockVars, Inv, Threads
<1>6. CASE WriterFail
      <2>1. /\ client' = 0 /\ srvOpen' = srvOpen \ {client}
            /\ UNCHANGED <<backlog, accepted, conns, reader, up>>
            BY <1>6 DEF WriterFail, CloseClient
      <2> QED BY <2>1, BacklogSteps DEF Inv, Threads
<1>7. CASE Tacky
      BY <1>7 DEF Tacky, TackyAnswer, TackyEvent, SelfRequest, sockVars, Inv, Threads
<1> QED BY <1>1, <1>2, <1>3, <1>4, <1>5, <1>6, <1>7 DEF Next, Ui, Writer

\* A reader's end takes with it what its connection was owed, and what it still
\* sends on it is owed again (FrameRouter::readLoop, TokenMap::forget).
LEMMA OwedStep == ASSUME Inv, Next PROVE NothingOwedToTheGone'
<1>1. ASSUME NEW c \in Conns, ReaderTake(c) \/ ReaderSend(c) \/ ReaderEnd(c)
      PROVE  NothingOwedToTheGone'
      <2>1. /\ \A e \in pending : e.gen \in 0..MaxConn
            /\ reader \in [Conns -> {"none", "reading", "sending", "done"}]
            BY DEF Inv, TypeOK, UiOK, SocketsOK, RouterOK, MapOK
      <2>2. CASE ReaderTake(c)
            <3>1. \A d \in Conns : reader[d] \in {"reading", "sending"}
                                 => reader'[d] \in {"reading", "sending"}
                  BY <2>1, <2>2 DEF ReaderTake
            <3>2. \A e \in pending : e.gen # SELF => e.gen \in Conns
                  BY <2>1, ServiceLinkAssumption DEF Conns, SELF, ServiceLinkAssumption
            <3>3. pending' = pending
                  BY <2>2 DEF ReaderTake, mapVars
            <3> QED BY <3>1, <3>2, <3>3 DEF Inv, NothingOwedToTheGone
      <2>3. CASE ReaderSend(c)
            BY <2>1, <2>3 DEF ReaderSend, Outbound, Inv, NothingOwedToTheGone, Conns, SELF
      <2>4. CASE ReaderEnd(c)
            BY <2>1, <2>4 DEF ReaderEnd, Without, Inv, NothingOwedToTheGone, Conns, SELF
      <2> QED BY <1>1, <2>2, <2>3, <2>4
<1>2. CASE AcceptSet
      <2>1. /\ reader' = [reader EXCEPT ![accepted] = "reading"] /\ pending' = pending
            /\ \A e \in pending : e.gen \in 0..MaxConn
            /\ reader \in [Conns -> {"none", "reading", "sending", "done"}]
            BY <1>2 DEF AcceptSet, mapVars, Inv, TypeOK, UiOK, SocketsOK, RouterOK, MapOK
      <2> QED BY <2>1 DEF Inv, NothingOwedToTheGone, Conns, SELF
<1>3. CASE AcceptClose \/ WriterFail
      BY <1>3 DEF AcceptClose, WriterFail, CloseClient, Without, Inv, NothingOwedToTheGone
<1>4. CASE Ui
      BY <1>4 DEF Ui, UiConnect, Ask, UiRead, UiDrop, UiDie, FailUnsent, mapVars, Inv,
                  NothingOwedToTheGone
<1>5. CASE WriterTake \/ WriterWrite
      BY <1>5 DEF WriterTake, WriterWrite, mapVars, Inv, NothingOwedToTheGone
<1>6. CASE Tacky
      BY <1>6 DEF Tacky, TackyAnswer, TackyEvent, SelfRequest, Outbound, mapVars, Inv,
                  NothingOwedToTheGone
<1> QED BY <1>1, <1>2, <1>3, <1>4, <1>5, <1>6 DEF Next, Readers, Writer

\* What the UI has out was asked by it, under a number it has used.
LEMMA BooksStep == ASSUME Inv, Next PROVE Books'
<1>1. /\ life \in 1..MaxLife /\ next \in 1..(MaxAsk + 1) /\ conns \in 0..MaxConn
      /\ MaxLife \in Nat /\ MaxAsk \in Nat /\ MaxConn \in Nat
      /\ \A a \in asked : a[1] \in 1..MaxLife /\ a[2] \in 1..MaxAsk
      /\ lifeOf \in [Conns -> 0..MaxLife]
      BY ServiceLinkAssumption DEF ServiceLinkAssumption, Inv, TypeOK, UiOK, SocketsOK, RouterOK, MapOK, Books
<1>2. CASE UiConnect
      BY <1>1, <1>2 DEF UiConnect, Inv, Books, Conns
<1>3. CASE Ask
      <2>1. /\ next \in 1..MaxAsk /\ next' = next + 1 /\ asked' = asked \cup {<<life, next>>}
            /\ UNCHANGED <<life, conn, conns, lifeOf>>
            /\ \/ inflight' = inflight \cup {next} /\ unsent' = unsent
               \/ inflight' = inflight /\ unsent' = unsent \cup {next}
            BY <1>1, <1>3 DEF Ask, Call
      <2>2. inflight' \cup unsent' \subseteq 1..(next' - 1) /\ inflight' \cap unsent' = {}
            BY <1>1, <2>1 DEF Inv, Books
      <2>3. \A a \in asked' : a[1] < life' \/ (a[1] = life' /\ a[2] < next')
            BY <1>1, <2>1 DEF Inv, Books
      <2>4. asked' \subseteq (1..MaxLife) \X (1..MaxAsk)
            BY <1>1, <2>1 DEF Inv, Books
      <2> QED BY <2>1, <2>2, <2>3, <2>4 DEF Inv, Books
<1>4. CASE UiDie
      <2>1. \A a \in asked : a[1] < life + 1
            BY <1>1 DEF Inv, Books
      <2> QED BY <1>1, <1>4, <2>1 DEF UiDie, Inv, Books
<1>5. CASE UiRead \/ UiDrop \/ \E tok \in unsent : FailUnsent(tok)
      BY <1>5 DEF UiRead, UiDrop, FailUnsent, sockVars, Inv, Books
<1>6. CASE AcceptClose \/ AcceptSet \/ Readers
      BY <1>6 DEF AcceptClose, AcceptSet, Readers, ReaderTake, ReaderSend, ReaderEnd, uiVars,
                  sockVars, Inv, Books
<1>7. CASE Writer \/ Tacky
      BY <1>7 DEF Writer, WriterTake, WriterWrite, WriterFail, Tacky, TackyAnswer, TackyEvent,
                  SelfRequest, uiVars, sockVars, Inv, Books
<1> QED BY <1>2, <1>3, <1>4, <1>5, <1>6, <1>7 DEF Next, Ui

-----------------------------------------------------------------------------
(* The types.                                                               *)

LEMMA Bounds ==
    ASSUME Inv
    PROVE  /\ MaxConn \in Nat /\ MaxLife \in Nat \ {0} /\ MaxAsk \in Nat /\ MaxSelf \in Nat
           /\ Cap \in Nat \ {0} /\ conns \in Nat /\ conn \in Nat /\ nextOurs \in Nat \ {0}
           /\ up \in [Conns -> Seq(Toks)] /\ down \in [Conns -> Seq(Frame)]
           /\ queue \in Seq(Frame) /\ lifeOf \in [Conns -> 0..MaxLife]
           /\ \A e \in pending : e.gen \in 0..MaxConn /\ e.ours \in 1..(nextOurs - 1)
           /\ conn # 0 => conn \in Conns
<1>1. TypeOK
      BY DEF Inv
<1>2. /\ MaxConn \in Nat /\ MaxLife \in Nat \ {0} /\ MaxAsk \in Nat /\ MaxSelf \in Nat
      /\ Cap \in Nat \ {0}
      BY ServiceLinkAssumption DEF ServiceLinkAssumption
<1>3. /\ conns \in Nat /\ conn \in Nat /\ nextOurs \in Nat \ {0}
      /\ conn # 0 => conn \in Conns
      BY <1>1, <1>2 DEF TypeOK, UiOK, SocketsOK, RouterOK, MapOK, Conns
<1>4. /\ up \in [Conns -> Seq(Toks)] /\ down \in [Conns -> Seq(Frame)]
      /\ queue \in Seq(Frame) /\ lifeOf \in [Conns -> 0..MaxLife]
      BY <1>1 DEF TypeOK, UiOK, SocketsOK, RouterOK, MapOK, Toks
<1>5. \A e \in pending : e.gen \in 0..MaxConn /\ e.ours \in 1..(nextOurs - 1)
      BY <1>1 DEF TypeOK, UiOK, SocketsOK, RouterOK, MapOK
<1> QED BY <1>2, <1>3, <1>4, <1>5

\* A frame in a reader's hand is still the head of its socket.
LEMMA SentToken ==
    ASSUME Inv, NEW c \in Conns, reader[c] = "sending"
    PROVE  /\ up[c] # <<>> /\ Head(up[c]) \in Toks /\ Tail(up[c]) \in Seq(Toks)
           /\ c <= conns
<1>1. up[c] \in Seq(Toks) /\ up[c] # <<>> /\ c <= conns
      BY Bounds DEF Inv, Threads
<1> QED BY <1>1, HeadTailProperties

\* What is owed to a connection is answered under its own mark.
LEMMA OwedFrame ==
    ASSUME Inv, NEW r \in working, NEW e \in Owed(r), e.gen # SELF
    PROVE  /\ [gen |-> e.gen, tok |-> e.tok, call |-> r.call] \in Frame
           /\ Own([gen |-> e.gen, tok |-> e.tok, call |-> r.call])
           /\ e.gen \in Conns /\ e.tok \in Toks
<1>1. /\ e \in pending /\ e.ours = r.ours /\ e.gen \in Conns /\ e.gen <= conns
      /\ e.tok \in Toks
      BY Bounds DEF Owed, Inv, Labels, MapLabels, Conns, SELF
<1>2. r.call = <<lifeOf[e.gen], e.tok>> /\ lifeOf[e.gen] \in 0..MaxLife
      BY <1>1, Bounds DEF Inv, Labels, MapLabels
<1>3. r.call \in (0..MaxLife) \X (0..MaxAsk) /\ e.tok \in 0..MaxAsk
      BY <1>1, <1>2, Bounds DEF Toks
<1>4. e.gen # ANY
      BY <1>1, Bounds DEF Conns, ANY
<1> QED BY <1>1, <1>2, <1>3, <1>4 DEF Frame, Own, Marked

LEMMA EventFrame == ASSUME Inv PROVE Event \in Frame /\ Own(Event)
BY Bounds DEF Event, Frame, Own, ANY

LEMMA Offered ==
    ASSUME Inv, NEW f \in Frame, Own(f), Offer(f)
    PROVE  /\ queue' \in Seq(Frame) /\ Len(queue') <= Cap
           /\ \A i \in 1..Len(queue') : Own(queue'[i])
<1>1. CASE Len(queue) < Cap
      <2>1. /\ queue' = Append(queue, f) /\ Len(queue') = Len(queue) + 1 /\ Len(queue) \in Nat
            /\ queue' \in Seq(Frame)
            /\ \A i \in 1..Len(queue') : queue'[i] = IF i <= Len(queue) THEN queue[i] ELSE f
            BY <1>1, Bounds, AppendKeeps DEF Offer
      <2> QED BY <1>1, <2>1, Bounds DEF Inv, Labels, QueueLabels
<1>2. CASE ~(Len(queue) < Cap)
      BY <1>2, Bounds DEF Offer, Inv, Labels, QueueLabels, TypeOK, UiOK, SocketsOK, RouterOK, MapOK
<1> QED BY <1>1, <1>2

\* What tacky's thread leaves in the queue is of one piece with the rest
\* (FrameRouter::onFrame).
LEMMA QueueStep ==
    ASSUME Inv, Tacky
    PROVE  /\ queue' \in Seq(Frame) /\ Len(queue') <= Cap
           /\ \A i \in 1..Len(queue') : Own(queue'[i])
<1>1. CASE queue' = queue
      BY <1>1, Bounds DEF Inv, TypeOK, RouterOK, Labels, QueueLabels
<1>2. CASE TackyEvent
      BY <1>2, EventFrame, Offered DEF TackyEvent
<1>3. ASSUME NEW r \in working, TackyAnswer(r), queue' # queue
      PROVE  /\ queue' \in Seq(Frame) /\ Len(queue') <= Cap
             /\ \A i \in 1..Len(queue') : Own(queue'[i])
      <2>1. PICK e \in Owed(r) : Offer([gen |-> e.gen, tok |-> e.tok, call |-> r.call])
            BY <1>3 DEF TackyAnswer
      <2>2. e.gen # SELF
            BY <1>3, <2>1 DEF TackyAnswer, Owed, Inv, Labels, MapLabels
      <2> QED BY <2>1, <2>2, OwedFrame, Offered
<1> QED BY <1>1, <1>2, <1>3 DEF Tacky, SelfRequest

\* Nothing but the UI's own steps moves its books.
LEMMA OthersLeaveUi == ASSUME Next, ~Ui PROVE UNCHANGED uiVars
BY DEF Next, AcceptClose, AcceptSet, Readers, ReaderTake, ReaderSend, ReaderEnd, Writer,
       WriterTake, WriterWrite, WriterFail, Tacky, TackyAnswer, TackyEvent, SelfRequest

LEMMA UiStep == ASSUME Inv, Next PROVE UiOK'
<1> USE DEF UiOK
<1>1. UiOK /\ MaxAsk \in Nat /\ MaxLife \in Nat
      BY Bounds DEF Inv, TypeOK
<1>2. CASE UiConnect
      <2>1. conns' \in 0..MaxConn
            BY <1>2, Bounds DEF UiConnect
      <2> QED BY <1>1, <1>2, <2>1 DEF UiConnect
<1>3. CASE Ask
      <2>1. next \in 1..MaxAsk /\ next' \in 1..(MaxAsk + 1)
            BY <1>1, <1>3 DEF Ask
      <2>2. inflight' \subseteq 1..MaxAsk /\ unsent' \subseteq 1..MaxAsk
            BY <1>1, <1>3, <2>1 DEF Ask
      <2> QED BY <1>1, <1>3, <2>1, <2>2 DEF Ask
<1>4. CASE UiRead \/ UiDrop \/ UiDie \/ \E tok \in unsent : FailUnsent(tok)
      <2>1. /\ inflight' \subseteq inflight /\ unsent' \subseteq unsent
            /\ conn' \in {conn, 0} /\ next' \in {next, 1}
            BY <1>4 DEF UiRead, UiDrop, UiDie, FailUnsent
      <2>2. life' \in 1..MaxLife
            BY <1>1, <1>4 DEF UiRead, UiDrop, UiDie, FailUnsent
      <2>3. conn' \in 0..MaxConn /\ next' \in 1..(MaxAsk + 1)
            BY <1>1, <2>1, Bounds
      <2> QED BY <1>1, <2>1, <2>2, <2>3
<1>5. CASE UNCHANGED uiVars
      BY <1>1, <1>5 DEF uiVars
<1> QED BY <1>2, <1>3, <1>4, <1>5, OthersLeaveUi DEF Next, Ui

LEMMA SocketsStep == ASSUME Inv, Next PROVE SocketsOK'
<1> USE Bounds DEF SocketsOK
<1>1. SocketsOK
      BY DEF Inv, TypeOK
<1>2. CASE UiConnect
      <2>1. conns' \in Conns /\ conns' \in 0..MaxConn /\ life \in 0..MaxLife
            BY <1>1, <1>2 DEF UiConnect, Conns, Inv, TypeOK, UiOK
      <2>2. lifeOf' \in [Conns -> 0..MaxLife]
            BY <1>1, <1>2, <2>1 DEF UiConnect
      <2> QED BY <1>1, <1>2, <2>1, <2>2 DEF UiConnect
<1>3. CASE Ask
      <2>1. next \in Toks
            BY <1>3 DEF Ask, Inv, TypeOK, UiOK, Toks
      <2>2. \A c \in Conns : Append(up[c], next) \in Seq(Toks)
            BY <2>1, AppendProperties
      <2>3. up' \in [Conns -> Seq(Toks)]
            BY <1>3, <2>2 DEF Ask
      <2> QED BY <1>1, <1>3, <2>3 DEF Ask, Toks
<1>4. CASE UiRead
      <2>1. conn \in Conns /\ down[conn] \in Seq(Frame) /\ down[conn] # <<>>
            BY <1>4 DEF UiRead
      <2>2. Tail(down[conn]) \in Seq(Frame)
            BY <2>1, HeadTailProperties
      <2>3. down' \in [Conns -> Seq(Frame)]
            BY <1>4, <2>1, <2>2 DEF UiRead
      <2> QED BY <1>1, <1>4, <2>3 DEF UiRead
<1>5. CASE UiDrop \/ UiDie \/ \E tok \in unsent : FailUnsent(tok)
      BY <1>1, <1>5 DEF UiDrop, UiDie, FailUnsent, sockVars
<1>6. CASE AcceptClose \/ WriterFail
      BY <1>1, <1>6 DEF AcceptClose, WriterFail, CloseClient
<1>7. ASSUME NEW c \in Conns, ReaderTake(c) \/ ReaderSend(c) \/ ReaderEnd(c)
      PROVE  SocketsOK'
      <2>1. up' # up => up' = [up EXCEPT ![c] = Tail(@)] /\ up[c] # <<>>
            BY <1>7, SentToken DEF ReaderTake, ReaderSend, ReaderEnd
      <2>2. up[c] # <<>> => Tail(up[c]) \in Seq(Toks)
            BY HeadTailProperties
      <2>3. up' \in [Conns -> Seq(Toks)]
            BY <2>1, <2>2
      <2> QED BY <1>1, <1>7, <2>3 DEF ReaderTake, ReaderSend, ReaderEnd, Toks
<1>8. CASE WriterWrite
      <2>1. held[2] \in Conns /\ held[1] \in Frame
            BY <1>8 DEF WriterWrite, Inv, TypeOK, RouterOK
      <2>2. Append(down[held[2]], held[1]) \in Seq(Frame)
            BY <2>1, AppendProperties
      <2>3. down' \in [Conns -> Seq(Frame)]
            BY <1>8, <2>2 DEF WriterWrite
      <2> QED BY <1>1, <1>8, <2>3 DEF WriterWrite
<1>9. CASE AcceptSet \/ WriterTake \/ Tacky
      BY <1>1, <1>9 DEF AcceptSet, WriterTake, Tacky, TackyAnswer, TackyEvent, SelfRequest,
                        sockVars
<1> QED BY <1>2, <1>3, <1>4, <1>5, <1>6, <1>7, <1>8, <1>9 DEF Next, Ui, Readers, Writer

LEMMA RouterStep == ASSUME Inv, Next PROVE RouterOK'
<1> USE DEF RouterOK
<1>1. RouterOK
      BY DEF Inv, TypeOK
<1>2. CASE UiConnect
      <2>1. conns' \in Conns
            BY <1>2, Bounds DEF UiConnect, Conns
      <2>2. backlog' \in Seq(Conns)
            BY <1>1, <1>2, <2>1, AppendProperties DEF UiConnect
      <2> QED BY <1>1, <1>2, <2>2 DEF UiConnect
<1>3. CASE Ask \/ UiRead \/ UiDrop \/ UiDie \/ \E tok \in unsent : FailUnsent(tok)
      BY <1>1, <1>3 DEF Ask, UiRead, UiDrop, UiDie, FailUnsent
<1>4. CASE AcceptClose
      <2>1. accepted' \in Conns /\ backlog' \in Seq(Conns)
            BY <1>1, <1>4, HeadTailProperties DEF AcceptClose
      <2>2. MaxConn \in Nat /\ Conns \subseteq 0..MaxConn /\ 0 \in 0..MaxConn
            BY Bounds DEF Conns
      <2>3. client' = 0
            BY <1>4 DEF AcceptClose, CloseClient
      <2>4. UNCHANGED <<reader, queue, held>>
            BY <1>4 DEF AcceptClose
      <2> QED BY <1>1, <2>1, <2>2, <2>3, <2>4
<1>5. CASE AcceptSet
      <2>1. accepted \in Conns /\ 0 \in 0..MaxConn
            BY <1>1, <1>5, Bounds DEF AcceptSet, Conns
      <2>2. reader' \in [Conns -> {"none", "reading", "sending", "done"}]
            BY <1>1, <1>5, <2>1 DEF AcceptSet
      <2> QED BY <1>1, <1>5, <2>1, <2>2 DEF AcceptSet
<1>6. ASSUME NEW c \in Conns, ReaderTake(c) \/ ReaderSend(c) \/ ReaderEnd(c)
      PROVE  RouterOK'
      <2>1. reader' \in [Conns -> {"none", "reading", "sending", "done"}]
            BY <1>1, <1>6 DEF ReaderTake, ReaderSend, ReaderEnd
      <2>2. client' \in 0..MaxConn
            BY <1>1, <1>6, Bounds DEF ReaderTake, ReaderSend, ReaderEnd
      <2> QED BY <1>1, <1>6, <2>1, <2>2 DEF ReaderTake, ReaderSend, ReaderEnd
<1>7. CASE WriterTake
      <2>1. queue # <<>> /\ queue \in Seq(Frame)
            BY <1>1, <1>7 DEF WriterTake
      <2>2. /\ Head(queue) \in Frame /\ Tail(queue) \in Seq(Frame)
            /\ Len(Tail(queue)) = Len(queue) - 1 /\ Len(queue) \in Nat
            BY <2>1, TailKeeps
      <2>3. Len(Tail(queue)) <= Cap
            BY <1>1, <2>2, Bounds
      <2>4. client # 0 => client \in Conns
            BY <1>1, Bounds DEF Conns
      <2>5. held' = <<>> \/ held' \in Frame \X Conns
            BY <1>7, <2>2, <2>4 DEF WriterTake
      <2> QED BY <1>1, <1>7, <2>2, <2>3, <2>5 DEF WriterTake
<1>8. CASE WriterWrite \/ WriterFail
      <2>1. held' = <<>> /\ client' \in {client, 0}
            BY <1>8 DEF WriterWrite, WriterFail, CloseClient
      <2>2. client' \in 0..MaxConn
            BY <1>1, <2>1, Bounds
      <2> QED BY <1>1, <1>8, <2>1, <2>2 DEF WriterWrite, WriterFail
<1>9. CASE Tacky
      <2>1. UNCHANGED <<backlog, accepted, client, reader, held>>
            BY <1>9 DEF Tacky, TackyAnswer, TackyEvent, SelfRequest
      <2> QED BY <1>1, <1>9, <2>1, QueueStep
<1> QED BY <1>2, <1>3, <1>4, <1>5, <1>6, <1>7, <1>8, <1>9 DEF Next, Ui, Readers, Writer

LEMMA MapStep == ASSUME Inv, Next PROVE MapOK'
<1> USE DEF MapOK
<1>1. MapOK
      BY DEF Inv, TypeOK
<1>2. ASSUME NEW gen \in 0..MaxConn, NEW tok \in 1..(MaxAsk + MaxSelf), NEW call,
             Outbound(tok, gen, call), events' \in 0..MaxEvents, selfs' \in 0..MaxSelf
      PROVE  MapOK'
      <2>1. nextOurs \in Nat \ {0} /\ nextOurs' = nextOurs + 1
            BY <1>1, <1>2 DEF Outbound
      <2>2. [ours |-> nextOurs, gen |-> gen, tok |-> tok]
               \in [ours : 1..(nextOurs' - 1), gen : 0..MaxConn, tok : 1..(MaxAsk + MaxSelf)]
            BY <2>1
      <2>3. \A e \in pending :
               e \in [ours : 1..(nextOurs' - 1), gen : 0..MaxConn, tok : 1..(MaxAsk + MaxSelf)]
            BY <1>1, <2>1
      <2> QED BY <1>2, <2>1, <2>2, <2>3 DEF Outbound
<1>3. ASSUME NEW c \in Conns, ReaderSend(c)
      PROVE  MapOK'
      <2>1. Head(up[c]) \in 1..(MaxAsk + MaxSelf) /\ c \in 0..MaxConn
            <3>1. reader[c] = "sending"
                  BY <1>3 DEF ReaderSend
            <3>2. Head(up[c]) \in Toks
                  BY <3>1, SentToken
            <3> QED BY <3>2, Bounds DEF Toks, Conns
      <2> QED BY <1>1, <1>2, <1>3, <2>1 DEF ReaderSend
<1>4. CASE SelfRequest
      <2>1. selfs' \in 0..MaxSelf /\ selfs' \in 1..(MaxAsk + MaxSelf) /\ SELF \in 0..MaxConn
            BY <1>1, <1>4, Bounds DEF SelfRequest, SELF
      <2> QED BY <1>1, <1>2, <1>4, <2>1 DEF SelfRequest
<1>5. CASE TackyEvent
      BY <1>1, <1>5, ServiceLinkAssumption DEF TackyEvent, mapVars, ServiceLinkAssumption
<1>6. ASSUME NEW r \in working, TackyAnswer(r) PROVE MapOK'
      BY <1>1, <1>6 DEF TackyAnswer
<1>7. ASSUME NEW c \in Conns, ReaderTake(c) \/ ReaderEnd(c) PROVE MapOK'
      BY <1>1, <1>7 DEF ReaderTake, ReaderEnd, Without, mapVars
<1>8. CASE AcceptClose \/ AcceptSet \/ Writer
      BY <1>1, <1>8 DEF AcceptClose, AcceptSet, Writer, WriterTake, WriterWrite, WriterFail,
                        CloseClient, Without, mapVars
<1>9. CASE Ui
      BY <1>1, <1>9 DEF Ui, UiConnect, Ask, UiRead, UiDrop, UiDie, FailUnsent, mapVars
<1> QED BY <1>3, <1>4, <1>5, <1>6, <1>7, <1>8, <1>9 DEF Next, Readers, Tacky

LEMMA TypeStep == ASSUME Inv, Next PROVE TypeOK'
BY UiStep, SocketsStep, RouterStep, MapStep DEF TypeOK

-----------------------------------------------------------------------------
(* Whose a frame is.                                                        *)

\* A new connection changes the mark of none before it.
LEMMA MarksStay ==
    ASSUME Inv, UNCHANGED <<conns, lifeOf>> \/ UiConnect
    PROVE  /\ \A f \in Frame : Own(f) => Own(f)'
           /\ \A f \in Frame, c \in Conns : c <= conns /\ Marked(f, c) => Marked(f, c)'
           /\ \A c \in 0..MaxConn : c <= conns => c <= conns'
           /\ \A c \in Conns : c <= conns => lifeOf'[c] = lifeOf[c]
<1>1. CASE UNCHANGED <<conns, lifeOf>>
      BY <1>1 DEF Own, Marked
<1>2. CASE UiConnect
      <2>1. conns \in Nat /\ conns' = conns + 1 /\ lifeOf \in [Conns -> 0..MaxLife]
            BY <1>2, Bounds DEF UiConnect
      <2>2. \A c \in Conns : c <= conns => c <= conns' /\ lifeOf'[c] = lifeOf[c]
            BY <1>2, <2>1, Bounds DEF UiConnect, Conns
      <2>3. \A f \in Frame : f.gen # ANY => f.gen \in Conns
            BY DEF Frame
      <2>4. \A c \in 0..MaxConn : c <= conns => c <= conns'
            BY <2>1
      <2> QED BY <2>1, <2>2, <2>3, <2>4 DEF Own, Marked
<1> QED BY <1>1, <1>2

\* Every step leaves the connections made, or makes one.
LEMMA ConnsStep == ASSUME Next PROVE UNCHANGED <<conns, lifeOf>> \/ UiConnect
BY DEF Next, Ui, Ask, UiRead, UiDrop, UiDie, FailUnsent, AcceptClose, AcceptSet, Readers,
       ReaderTake, ReaderSend, ReaderEnd, Writer, WriterTake, WriterWrite, WriterFail,
       Tacky, TackyAnswer, TackyEvent, SelfRequest, sockVars

\* The frames that wait, wherever they do, are of their types.
LEMMA FramesTyped ==
    ASSUME Inv
    PROVE  /\ \A i \in 1..Len(queue) : queue[i] \in Frame
           /\ held # <<>> => held[1] \in Frame /\ held[2] \in Conns
           /\ \A c \in Conns : \A i \in 1..Len(down[c]) : down[c][i] \in Frame
<1>1. queue \in Seq(Frame) /\ \A c \in Conns : down[c] \in Seq(Frame)
      BY Bounds
<1>2. held # <<>> => held[1] \in Frame /\ held[2] \in Conns
      BY DEF Inv, TypeOK, RouterOK
<1> QED BY <1>1, <1>2, ElementOfSeq

LEMMA MapLabelsStep == ASSUME Inv, Next PROVE MapLabels'
<1> USE DEF MapLabels
<1>1. MapLabels
      BY DEF Inv, Labels
<1>2. \A e \in pending : e.gen # SELF => e.gen \in Conns
      BY Bounds DEF Conns, SELF
<1>3. /\ \A c \in 0..MaxConn : c <= conns => c <= conns'
      /\ \A c \in Conns : c <= conns => lifeOf'[c] = lifeOf[c]
      BY MarksStay, ConnsStep
<1>4. ASSUME pending' \subseteq pending, working' \subseteq working, nextOurs' = nextOurs
      PROVE  MapLabels'
      BY <1>1, <1>2, <1>3, <1>4, Bounds
<1>5. ASSUME NEW gen \in 0..MaxConn, NEW tok, NEW call, Outbound(tok, gen, call),
             gen <= conns, UNCHANGED <<conns, lifeOf>>,
             gen # SELF => tok \in Toks /\ call = <<lifeOf[gen], tok>>
      PROVE  MapLabels'
      <2> DEFINE new == [ours |-> nextOurs, gen |-> gen, tok |-> tok]
      <2>1. /\ nextOurs \in Nat \ {0} /\ nextOurs' = nextOurs + 1
            /\ pending' = pending \cup {new}
            /\ working' = working \cup {[ours |-> nextOurs, call |-> call]}
            /\ \A e \in pending : e.ours # nextOurs
            BY <1>5, Bounds DEF Outbound
      <2>2. \A r \in working : r.ours # nextOurs /\ r.ours \in 1..(nextOurs' - 1)
            BY <1>1, <2>1
      <2>3. \A e \in pending' : e.gen <= conns'
            BY <1>1, <1>5, <2>1
      <2>4. \A e, f \in pending' : e.ours = f.ours => e = f
            BY <1>1, <2>1
      <2>5. \A e \in pending' : e.gen # SELF => e.tok \in Toks
            BY <1>1, <1>5, <2>1
      <2>6. \A r \in working' : r.ours \in 1..(nextOurs' - 1)
            BY <2>1, <2>2
      <2>7. ASSUME NEW r \in working', NEW e \in pending', e.ours = r.ours, e.gen # SELF
            PROVE  r.call = <<lifeOf'[e.gen], e.tok>>
            BY <1>1, <1>5, <2>1, <2>2, <2>7
      <2> QED BY <2>3, <2>4, <2>5, <2>6, <2>7
<1>6. ASSUME NEW c \in Conns, ReaderSend(c) PROVE MapLabels'
      <2>1. reader[c] = "sending" /\ UNCHANGED <<conns, lifeOf>>
            BY <1>6 DEF ReaderSend
      <2>2. Head(up[c]) \in Toks /\ c <= conns /\ c \in 0..MaxConn
            BY <2>1, SentToken, Bounds DEF Conns
      <2> QED BY <1>5, <1>6, <2>1, <2>2 DEF ReaderSend
<1>7. CASE SelfRequest
      <2>1. SELF \in 0..MaxConn /\ SELF <= conns
            BY Bounds DEF SELF
      <2> QED BY <1>5, <1>7, <2>1 DEF SelfRequest, sockVars
<1>8. CASE Ui \/ AcceptClose \/ AcceptSet \/ Writer
      BY <1>4, <1>8 DEF Ui, UiConnect, Ask, UiRead, UiDrop, UiDie, FailUnsent, AcceptClose,
            AcceptSet, Writer, WriterTake, WriterWrite, WriterFail, CloseClient, Without,
            mapVars
<1>9. ASSUME NEW c \in Conns, ReaderTake(c) \/ ReaderEnd(c) PROVE MapLabels'
      BY <1>4, <1>9 DEF ReaderTake, ReaderEnd, Without, mapVars
<1>10. CASE (\E r \in working : TackyAnswer(r)) \/ TackyEvent
      BY <1>4, <1>10 DEF TackyAnswer, TackyEvent, mapVars
<1> QED BY <1>6, <1>7, <1>8, <1>9, <1>10 DEF Next, Readers, Tacky

LEMMA QueueLabelsStep == ASSUME Inv, Next PROVE QueueLabels'
<1> USE DEF QueueLabels
<1>1. /\ \A i \in 1..Len(queue) : queue[i] \in Frame /\ Own(queue[i])
      /\ \A f \in Frame : Own(f) => Own(f)'
      BY FramesTyped, MarksStay, ConnsStep DEF Inv, Labels
<1>2. CASE queue' = queue
      BY <1>1, <1>2
<1>3. CASE Tacky
      <2>1. UNCHANGED <<conns, lifeOf>>
            BY <1>3 DEF Tacky, TackyAnswer, TackyEvent, SelfRequest, sockVars
      <2> QED BY <1>3, <2>1, QueueStep DEF Own, Marked
<1>4. CASE WriterTake
      <2>1. queue # <<>> /\ queue' = Tail(queue) /\ queue \in Seq(Frame)
            BY <1>4, Bounds DEF WriterTake
      <2>2. /\ Len(queue') = Len(queue) - 1 /\ Len(queue) \in Nat
            /\ \A i \in 1..Len(queue') : queue'[i] = queue[i + 1]
            BY <2>1, TailKeeps
      <2>3. \A i \in 1..Len(queue') : i + 1 \in 1..Len(queue)
            BY <2>2
      <2> QED BY <1>1, <2>2, <2>3
<1> QED BY <1>2, <1>3, <1>4
        DEF Next, Ui, UiConnect, Ask, UiRead, UiDrop, UiDie, FailUnsent, AcceptClose, AcceptSet,
            Readers, ReaderTake, ReaderSend, ReaderEnd, Writer, WriterWrite, WriterFail

LEMMA HandLabelsStep == ASSUME Inv, Next PROVE HandLabels'
<1> USE DEF HandLabels
<1>1. /\ \A f \in Frame : Own(f) => Own(f)'
      /\ \A f \in Frame, c \in Conns : c <= conns /\ Marked(f, c) => Marked(f, c)'
      /\ \A c \in 0..MaxConn : c <= conns => c <= conns'
      BY MarksStay, ConnsStep
<1>2. CASE held' = <<>>
      BY <1>2
<1>3. CASE held' = held
      <2>1. held # <<>> => held[1] \in Frame /\ held[2] \in Conns /\ held[2] \in 0..MaxConn
            BY FramesTyped, Bounds DEF Conns
      <2> QED BY <1>1, <1>3, <2>1 DEF Inv, Labels
<1>4. CASE WriterTake /\ held' # held
      <2>1. /\ held' = <<Head(queue), client>> /\ client # 0 /\ queue # <<>>
            /\ Head(queue).gen \in {ANY, client} /\ queue \in Seq(Frame)
            /\ UNCHANGED <<conns, lifeOf>>
            BY <1>4, Bounds DEF WriterTake, sockVars
      <2>2. Head(queue) = queue[1] /\ 1 \in 1..Len(queue)
            BY <2>1, TailKeeps
      <2>3. Own(Head(queue)) /\ Marked(Head(queue), client)
            BY <2>1, <2>2 DEF Inv, Labels, QueueLabels, Own, Marked
      <2>4. client \in Conns /\ client <= conns
            BY <2>1, BacklogSteps DEF Inv, Threads, Conns
      <2> QED BY <2>1, <2>3, <2>4 DEF Own, Marked
<1> QED BY <1>2, <1>3, <1>4
        DEF Next, Ui, UiConnect, Ask, UiRead, UiDrop, UiDie, FailUnsent, AcceptClose, AcceptSet,
            Readers, ReaderTake, ReaderSend, ReaderEnd, Writer, WriterWrite, WriterFail,
            Tacky, TackyAnswer, TackyEvent, SelfRequest

LEMMA DownLabelsStep == ASSUME Inv, Next PROVE DownLabels'
<1> USE DEF DownLabels
<1>1. /\ \A c \in Conns : \A i \in 1..Len(down[c]) :
            down[c][i] \in Frame /\ Own(down[c][i]) /\ Marked(down[c][i], c) /\ c <= conns
      /\ \A f \in Frame : Own(f) => Own(f)'
      /\ \A f \in Frame, c \in Conns : c <= conns /\ Marked(f, c) => Marked(f, c)'
      <2>1. \A c \in Conns : \A i \in 1..Len(down[c]) : c <= conns
            BY Bounds, EmptySeq DEF Conns, Inv, Labels, Unused
      <2> QED BY <2>1, FramesTyped, MarksStay, ConnsStep DEF Inv, Labels
<1>2. CASE down' = down
      BY <1>1, <1>2
<1>3. CASE UiRead
      <2>1. /\ down' = [down EXCEPT ![conn] = Tail(@)] /\ conn \in Conns
            /\ down[conn] # <<>> /\ down[conn] \in Seq(Frame)
            BY <1>3, Bounds DEF UiRead
      <2>2. /\ down'[conn] = Tail(down[conn]) /\ \A c \in Conns : c # conn => down'[c] = down[c]
            BY <2>1, Bounds
      <2>3. /\ Len(down'[conn]) = Len(down[conn]) - 1 /\ Len(down[conn]) \in Nat
            /\ \A i \in 1..Len(down'[conn]) : down'[conn][i] = down[conn][i + 1]
            <3>1. /\ Len(Tail(down[conn])) = Len(down[conn]) - 1 /\ Len(down[conn]) \in Nat
                  /\ \A i \in 1..Len(Tail(down[conn])) :
                        Tail(down[conn])[i] = down[conn][i + 1]
                  BY <2>1, TailKeeps
            <3> QED BY <2>2, <3>1
      <2>4. \A i \in 1..Len(down'[conn]) : i + 1 \in 1..Len(down[conn])
            BY <2>3
      <2> QED BY <1>1, <2>1, <2>2, <2>3, <2>4
<1>4. CASE WriterWrite
      <2> DEFINE c == held[2]
      <2>1. /\ down' = [down EXCEPT ![c] = Append(@, held[1])] /\ c \in Conns
            /\ held[1] \in Frame /\ down[c] \in Seq(Frame) /\ UNCHANGED <<conns, lifeOf>>
            BY <1>4, Bounds, FramesTyped DEF WriterWrite
      <2>2. /\ down'[c] = Append(down[c], held[1])
            /\ \A d \in Conns : d # c => down'[d] = down[d]
            BY <2>1, Bounds
      <2>3. /\ Len(down'[c]) = Len(down[c]) + 1 /\ Len(down[c]) \in Nat
            /\ \A i \in 1..Len(down'[c]) :
                  down'[c][i] = IF i <= Len(down[c]) THEN down[c][i] ELSE held[1]
            BY <2>1, <2>2, AppendKeeps
      <2>4. Own(held[1]) /\ Marked(held[1], c) /\ c <= conns
            BY <1>4 DEF WriterWrite, Inv, Labels, HandLabels
      <2>5. \A i \in 1..Len(down'[c]) :
               /\ down'[c][i] \in Frame /\ Own(down'[c][i]) /\ Marked(down'[c][i], c)
            BY <1>1, <2>1, <2>3, <2>4
      <2> QED BY <1>1, <2>1, <2>2, <2>5 DEF Own, Marked
<1> QED BY <1>2, <1>3, <1>4
        DEF Next, Ui, UiConnect, Ask, UiDrop, UiDie, FailUnsent, AcceptClose, AcceptSet,
            Readers, ReaderTake, ReaderSend, ReaderEnd, Writer, WriterTake, WriterFail,
            Tacky, TackyAnswer, TackyEvent, SelfRequest, sockVars

\* Only a connection that was made is written to.
LEMMA UnusedStep == ASSUME Inv, Next PROVE Unused'
<1> USE DEF Unused
<1>1. Unused
      BY DEF Inv, Labels
<1>2. CASE Ask
      <2>1. conn # 0 => conn <= conns /\ conn \in Conns
            BY Bounds DEF Inv, Books
      <2>2. \A c \in Conns : c > conns => up'[c] = up[c]
            BY <1>2, <2>1, Bounds DEF Ask
      <2> QED BY <1>1, <1>2, <2>2 DEF Ask
<1>3. CASE UiConnect
      <2>1. \A c : c \in Conns /\ c > conns' => c > conns
            BY <1>3, Bounds DEF UiConnect, Conns
      <2> QED BY <1>1, <1>3, <2>1 DEF UiConnect
<1>4. CASE UiRead
      <2>1. conn <= conns /\ conn \in Conns
            BY <1>4, Bounds DEF UiRead, Inv, Books
      <2>2. \A c \in Conns : c > conns => down'[c] = down[c]
            BY <1>4, <2>1, Bounds DEF UiRead
      <2> QED BY <1>1, <1>4, <2>2 DEF UiRead
<1>5. ASSUME NEW c \in Conns, ReaderTake(c) \/ ReaderSend(c) \/ ReaderEnd(c)
      PROVE  Unused'
      <2>1. c <= conns
            BY <1>5 DEF ReaderTake, ReaderSend, ReaderEnd, Inv, Threads
      <2>2. \A d \in Conns : d > conns => up'[d] = up[d]
            <3>1. \A d \in Conns : d > conns => d # c
                  BY <2>1, Bounds DEF Conns
            <3>2. up' = up \/ up' = [up EXCEPT ![c] = Tail(@)]
                  BY <1>5 DEF ReaderTake, ReaderSend, ReaderEnd
            <3> QED BY <3>1, <3>2, Bounds
      <2> QED BY <1>1, <1>5, <2>2 DEF ReaderTake, ReaderSend, ReaderEnd
<1>6. CASE WriterWrite
      <2>1. held[2] <= conns /\ held[2] \in Conns
            BY <1>6, FramesTyped DEF WriterWrite, Inv, Labels, HandLabels
      <2>2. \A d \in Conns : d > conns => down'[d] = down[d]
            BY <1>6, <2>1, Bounds DEF WriterWrite, Conns
      <2> QED BY <1>1, <1>6, <2>2 DEF WriterWrite
<1>7. CASE UiDrop \/ UiDie \/ (\E tok \in unsent : FailUnsent(tok)) \/ AcceptClose \/ AcceptSet
      BY <1>1, <1>7 DEF UiDrop, UiDie, FailUnsent, AcceptClose, AcceptSet, sockVars
<1>8. CASE WriterTake \/ WriterFail \/ Tacky
      BY <1>1, <1>8 DEF WriterTake, WriterFail, Tacky, TackyAnswer, TackyEvent, SelfRequest,
                        sockVars
<1> QED BY <1>2, <1>3, <1>4, <1>5, <1>6, <1>7, <1>8 DEF Next, Ui, Readers, Writer

LEMMA LabelsStep == ASSUME Inv, Next PROVE Labels'
BY MapLabelsStep, QueueLabelsStep, HandLabelsStep, DownLabelsStep, UnusedStep DEF Labels

-----------------------------------------------------------------------------
(* One call, one place.                                                     *)

\* What a step leaves alone keeps the calls it has.
LEMMA Untouched ==
    ASSUME conn' = conn, NEW t \in Toks
    PROVE  /\ up' = up \/ up'[conn] = up[conn] =>
                 (InUp(t)' <=> InUp(t)) /\ (Once(up[conn], {t}) => Once(up[conn], {t})')
           /\ pending' \subseteq pending => (InMap(t)' => InMap(t))
           /\ queue' = queue =>
                 /\ InQueue(t)' <=> InQueue(t)
                 /\ Once(queue, Reply(conn, t)) => Once(queue, Reply(conn, t))'
           /\ held' = held \/ held' = <<>> => (InHand(t)' => InHand(t))
           /\ down' = down \/ down'[conn] = down[conn] =>
                 /\ InDown(t)' <=> InDown(t)
                 /\ Once(down[conn], Reply(conn, t)) => Once(down[conn], Reply(conn, t))'
BY DEF InUp, InMap, InQueue, InHand, InDown, Some, Once, Reply

\* A step that only takes away.
LEMMA Fewer ==
    ASSUME Inv, conn' = conn, conn \in Conns, inflight \subseteq inflight',
           up' = up \/ \E c \in Conns : up[c] # <<>> /\ up' = [up EXCEPT ![c] = Tail(@)],
           pending' \subseteq pending, held' = held \/ held' = <<>>,
           UNCHANGED <<queue, down>>
    PROVE  Calls'
<1> SUFFICES ASSUME NEW t \in Toks PROVE Alone(t)'
    BY DEF Calls
<1>1. Alone(t)
      BY Bounds DEF Inv, Calls, Conns
<1>2. /\ InUp(t)' => InUp(t)
      /\ Once(up[conn], {t})'
      <2>1. up[conn] \in Seq(Toks)
            BY Bounds
      <2>2. CASE up'[conn] = up[conn]
            BY <1>1, <2>2, Untouched DEF Alone, Single
      <2>3. CASE up[conn] # <<>> /\ up'[conn] = Tail(up[conn])
            <3>1. /\ Some(Tail(up[conn]), {t}) => Some(up[conn], {t})
                  /\ Once(up[conn], {t}) => Once(Tail(up[conn]), {t})
                  BY <2>1, <2>3, TailKeeps
            <3> QED BY <1>1, <2>3, <3>1 DEF Alone, Single, InUp
      <2>4. up'[conn] = up[conn] \/ (up[conn] # <<>> /\ up'[conn] = Tail(up[conn]))
            BY Bounds
      <2> QED BY <2>2, <2>3, <2>4
<1>3. /\ InMap(t)' => InMap(t)
      /\ (InQueue(t)' <=> InQueue(t)) /\ (InDown(t)' <=> InDown(t))
      /\ InHand(t)' => InHand(t)
      /\ Once(queue, Reply(conn, t))' /\ Once(down[conn], Reply(conn, t))'
      BY <1>1, Untouched DEF Alone, Single
<1>4. \A e, f \in pending' :
         e.gen = conn /\ e.tok = t /\ f.gen = conn /\ f.tok = t => e = f
      BY <1>1 DEF Alone, Single
<1> QED BY <1>1, <1>2, <1>3, <1>4 DEF Alone, Single

\* The UI's steps: a new connection carries nothing, a new token is nowhere yet, and
\* an answer that is read was the only trace of its call (TackyBackend::request and
\* deliver, TokenMap's tokens being the UI's own).
LEMMA ConnectCalls == ASSUME Inv, UiConnect PROVE Calls'
<1>1. conn' = conns + 1 /\ conn' \in Conns /\ conn' > conns /\ conns \in Nat
      BY Bounds DEF UiConnect, Conns
<1>2. UNCHANGED <<up, down, queue, held, pending>>
      BY DEF UiConnect, mapVars
<1>3. up[conn'] = <<>> /\ down[conn'] = <<>>
      BY <1>1 DEF Inv, Labels, Unused
<1>4. \A e \in pending : e.gen # conn'
      BY <1>1, Bounds DEF Inv, Labels, MapLabels
<1>5. \A f \in Frame : Own(f) => f.gen # conn'
      BY <1>1 DEF Own, Conns, ANY
<1> SUFFICES ASSUME NEW t \in Toks PROVE Alone(t)'
    BY DEF Calls
<1>6. ~InUp(t)' /\ ~InDown(t)' /\ Once(up[conn], {t})' /\ Once(down[conn], Reply(conn, t))'
      BY <1>2, <1>3 DEF InUp, InDown, Some, Once
<1>7. ~InMap(t)'
      BY <1>2, <1>4 DEF InMap
<1>8. ~InQueue(t)' /\ Once(queue, Reply(conn, t))'
      BY <1>2, <1>5, FramesTyped DEF InQueue, Reply, Some, Once, Inv, Labels, QueueLabels
<1>9. ~InHand(t)'
      BY <1>2, <1>5, FramesTyped DEF InHand, Reply, Inv, Labels, HandLabels
<1> QED BY <1>2, <1>4, <1>6, <1>7, <1>8, <1>9 DEF Alone, Single

LEMMA AskCalls == ASSUME Inv, Ask PROVE Calls'
<1> SUFFICES ASSUME conn # 0, NEW t \in Toks PROVE Alone(t)'
    BY DEF Calls, Ask
<1>1. /\ conn' = conn /\ conn \in Conns /\ next \in Toks
      /\ inflight' = inflight \cup {next}
      /\ up' = IF conn \in srvOpen THEN [up EXCEPT ![conn] = Append(@, next)] ELSE up
      /\ UNCHANGED <<pending, queue, held, down>>
      <2>1. next \in Toks
            BY Bounds DEF Ask, Inv, TypeOK, UiOK, Toks
      <2> QED BY <2>1, Bounds DEF Ask, mapVars
<1>2. Alone(t) /\ next \notin inflight
      BY <1>1, Bounds DEF Inv, Calls, Books
<1>3. /\ InUp(t)' => InUp(t) \/ t = next
      /\ Once(up[conn], {t})'
      <2>1. CASE up' = up
            BY <1>1, <1>2, <2>1, Untouched DEF Alone, Single
      <2>2. CASE up'[conn] = Append(up[conn], next)
            <3>1. /\ Some(Append(up[conn], next), {t}) <=> Some(up[conn], {t}) \/ next \in {t}
                  /\ Once(up[conn], {t}) /\ (next \in {t} => ~Some(up[conn], {t}))
                        => Once(Append(up[conn], next), {t})
                  BY <1>1, Bounds, AppendKeeps
            <3> QED BY <1>1, <1>2, <2>2, <3>1 DEF Alone, Single, InUp
      <2> QED BY <1>1, <2>1, <2>2, Bounds
<1>4. /\ InMap(t)' => InMap(t)
      /\ (InQueue(t)' <=> InQueue(t)) /\ (InDown(t)' <=> InDown(t))
      /\ InHand(t)' => InHand(t)
      /\ Once(queue, Reply(conn, t))' /\ Once(down[conn], Reply(conn, t))'
      BY <1>1, <1>2, Untouched DEF Alone, Single
<1> QED BY <1>1, <1>2, <1>3, <1>4 DEF Alone, Single

\* An answer on the UI's connection is to a call it waits for.
LEMMA ReadHead ==
    ASSUME Inv, UiRead, Head(down[conn]).tok # 0
    PROVE  /\ Head(down[conn]).tok \in Toks
           /\ Head(down[conn]) \in Reply(conn, Head(down[conn]).tok)
           /\ Head(down[conn]).call = Call(Head(down[conn]).tok)
           /\ InDown(Head(down[conn]).tok)
           /\ Head(down[conn]).tok \in inflight
<1> DEFINE f == Head(down[conn])
<1>1. /\ conn \in Conns /\ conn # 0 /\ down[conn] \in Seq(Frame) /\ down[conn] # <<>>
      BY Bounds DEF UiRead
<1>2. f = down[conn][1] /\ 1 \in 1..Len(down[conn]) /\ f \in Frame
      BY <1>1, TailKeeps
<1>3. Own(f) /\ Marked(f, conn)
      BY <1>1, <1>2 DEF Inv, Labels, DownLabels
<1>4. f.tok \in Toks /\ f.gen = conn /\ f.call = <<life, f.tok>>
      BY <1>1, <1>3 DEF Own, Marked, Inv, Books
<1>5. f \in Reply(conn, f.tok)
      BY <1>2, <1>4 DEF Reply
<1>6. InDown(f.tok)
      BY <1>2, <1>5 DEF InDown, Some
<1> QED BY <1>1, <1>4, <1>5, <1>6 DEF Inv, Calls, Alone, Call

LEMMA ReadCalls == ASSUME Inv, UiRead PROVE Calls'
<1> DEFINE f == Head(down[conn])
<1> SUFFICES ASSUME NEW t \in Toks PROVE Alone(t)'
    BY DEF Calls
<1>1. /\ conn' = conn /\ conn \in Conns /\ conn # 0 /\ down[conn] \in Seq(Frame)
      /\ down[conn] # <<>> /\ down'[conn] = Tail(down[conn])
      /\ inflight' = inflight \ {f.tok} /\ UNCHANGED <<up, pending, queue, held>>
      BY Bounds DEF UiRead, mapVars
<1>2. Alone(t)
      BY <1>1 DEF Inv, Calls
<1>3. /\ InUp(t)' <=> InUp(t)
      /\ InMap(t)' => InMap(t)
      /\ InQueue(t)' <=> InQueue(t)
      /\ InHand(t)' => InHand(t)
      /\ Once(up[conn], {t})' /\ Once(queue, Reply(conn, t))'
      BY <1>1, <1>2, Untouched DEF Alone, Single
<1>4. /\ InDown(t)' => InDown(t) /\ f \notin Reply(conn, t)
      /\ Once(down[conn], Reply(conn, t))'
      <2>1. /\ Some(Tail(down[conn]), Reply(conn, t)) => Some(down[conn], Reply(conn, t))
            /\ Once(down[conn], Reply(conn, t)) => Once(Tail(down[conn]), Reply(conn, t))
            /\ Once(down[conn], Reply(conn, t)) /\ f \in Reply(conn, t)
                  => ~Some(Tail(down[conn]), Reply(conn, t))
            BY <1>1, TailKeeps
      <2> QED BY <1>1, <1>2, <2>1 DEF Alone, Single, InDown, Reply
<1>5. t = f.tok => InDown(t) /\ f \in Reply(conn, t)
      <2>1. t # 0
            BY DEF Toks
      <2> QED BY <2>1, ReadHead
<1> QED BY <1>1, <1>2, <1>3, <1>4, <1>5 DEF Alone, Single

\* The service's steps hand a call on: from the socket to the token map, from there
\* to the queue, to the writer, and to the socket back (FrameRouter::dispatchFromUi,
\* onFrame and writeLoop).
LEMMA SendCalls == ASSUME Inv, NEW c \in Conns, ReaderSend(c) PROVE Calls'
<1> DEFINE tok == Head(up[c])
<1> SUFFICES ASSUME conn # 0, NEW t \in Toks PROVE Alone(t)'
    BY DEF Calls, ReaderSend, uiVars
<1>1. /\ conn' = conn /\ conn \in Conns /\ inflight' = inflight
      /\ up' = [up EXCEPT ![c] = Tail(@)]
      /\ pending' = pending \cup {[ours |-> nextOurs, gen |-> c, tok |-> tok]}
      /\ UNCHANGED <<queue, held, down>>
      BY Bounds DEF ReaderSend, Outbound, uiVars
<1>2. up[c] # <<>> /\ up[c] \in Seq(Toks) /\ up[conn] \in Seq(Toks)
      BY <1>1, Bounds, SentToken DEF ReaderSend
<1>3. Alone(t)
      BY DEF Inv, Calls
<1>4. /\ (InQueue(t)' <=> InQueue(t)) /\ (InDown(t)' <=> InDown(t))
      /\ InHand(t)' => InHand(t)
      /\ Once(queue, Reply(conn, t))' /\ Once(down[conn], Reply(conn, t))'
      BY <1>1, <1>3, Untouched DEF Alone, Single
<1>5. CASE c = conn /\ tok = t
      <2>1. up'[conn] = Tail(up[conn])
            BY <1>1, <1>5, Bounds
      <2>2. /\ Once(up[conn], {t}) => Once(Tail(up[conn]), {t})
            /\ Once(up[conn], {t}) => ~Some(Tail(up[conn]), {t})
            /\ Some(up[conn], {t})
            BY <1>2, <1>5, TailKeeps
      <2>3. InUp(t) /\ ~InUp(t)' /\ Once(up[conn], {t})'
            BY <1>1, <1>3, <2>1, <2>2 DEF Alone, Single, InUp
      <2>4. \A e, f \in pending' :
               e.gen = conn /\ e.tok = t /\ f.gen = conn /\ f.tok = t => e = f
            BY <1>1, <1>3, <2>3 DEF Alone, InMap
      <2> QED BY <1>1, <1>3, <1>4, <2>3, <2>4 DEF Alone, Single
<1>6. CASE ~(c = conn /\ tok = t)
      <2>1. /\ InUp(t)' => InUp(t)
            /\ Once(up[conn], {t})'
            <3>1. CASE c = conn
                  <4>1. /\ Once(up[conn], {t}) => Once(Tail(up[conn]), {t})
                        /\ Some(Tail(up[conn]), {t}) => Some(up[conn], {t})
                        BY <1>2, <3>1, TailKeeps
                  <4> QED BY <1>1, <1>3, <3>1, <4>1, Bounds DEF Alone, Single, InUp
            <3>2. CASE c # conn
                  BY <1>1, <1>3, <3>2, Bounds, Untouched DEF Alone, Single
            <3> QED BY <3>1, <3>2
      <2>2. InMap(t)' => InMap(t)
            BY <1>1, <1>6 DEF InMap
      <2>3. \A e, f \in pending' :
               e.gen = conn /\ e.tok = t /\ f.gen = conn /\ f.tok = t => e = f
            BY <1>1, <1>3, <1>6 DEF Alone, Single
      <2> QED BY <1>1, <1>3, <1>4, <2>1, <2>2, <2>3 DEF Alone, Single
<1> QED BY <1>5, <1>6

\* What the queue takes is there once, if it was nowhere in the queue before.
LEMMA OfferOnce ==
    ASSUME Inv, NEW f \in Frame, Offer(f), conn' = conn, NEW t \in Toks,
           Once(queue, Reply(conn, t)), f \in Reply(conn, t) => ~InQueue(t)
    PROVE  /\ InQueue(t)' => InQueue(t) \/ f \in Reply(conn, t)
           /\ Once(queue, Reply(conn, t))'
<1>1. CASE queue' = Append(queue, f)
      <2>1. /\ Some(Append(queue, f), Reply(conn, t)) <=>
                  Some(queue, Reply(conn, t)) \/ f \in Reply(conn, t)
            /\ Once(queue, Reply(conn, t)) /\
                  (f \in Reply(conn, t) => ~Some(queue, Reply(conn, t)))
                  => Once(Append(queue, f), Reply(conn, t))
            BY Bounds, AppendKeeps
      <2> QED BY <1>1, <2>1 DEF InQueue, Reply
<1>2. CASE queue' = queue
      BY <1>2, Untouched
<1> QED BY <1>1, <1>2 DEF Offer

LEMMA AnswerCalls == ASSUME Inv, NEW r \in working, TackyAnswer(r) PROVE Calls'
<1> SUFFICES ASSUME conn # 0, NEW t \in Toks PROVE Alone(t)'
    BY DEF Calls, TackyAnswer, uiVars
<1>1. /\ conn' = conn /\ conn \in Conns /\ inflight' = inflight
      /\ pending' = pending \ Owed(r) /\ UNCHANGED <<up, held, down>>
      BY Bounds DEF TackyAnswer, uiVars, sockVars
<1>2. Alone(t)
      BY DEF Inv, Calls
<1>3. /\ (InUp(t)' <=> InUp(t)) /\ (InDown(t)' <=> InDown(t))
      /\ InHand(t)' => InHand(t)
      /\ InMap(t)' => InMap(t)
      /\ Once(up[conn], {t})' /\ Once(down[conn], Reply(conn, t))'
      BY <1>1, <1>2, Untouched DEF Alone, Single
<1>4. \A e, f \in pending' :
         e.gen = conn /\ e.tok = t /\ f.gen = conn /\ f.tok = t => e = f
      BY <1>1, <1>2 DEF Alone, Single
<1>5. CASE queue' = queue
      BY <1>1, <1>2, <1>3, <1>4, <1>5, Untouched DEF Alone, Single
<1>6. CASE queue' # queue
      <2>1. PICK e \in Owed(r) : Offer([gen |-> e.gen, tok |-> e.tok, call |-> r.call])
            BY <1>6 DEF TackyAnswer
      <2> DEFINE f == [gen |-> e.gen, tok |-> e.tok, call |-> r.call]
      <2>2. e.gen # SELF
            BY <1>6, <2>1 DEF TackyAnswer, Owed, Inv, Labels, MapLabels
      <2>3. f \in Frame /\ e \in pending
            BY <2>2, OwedFrame DEF Owed
      <2>4. f \in Reply(conn, t) => e.gen = conn /\ e.tok = t /\ InMap(t) /\ ~InMap(t)'
            <3>1. ASSUME f \in Reply(conn, t)
                  PROVE  e.gen = conn /\ e.tok = t
                  BY <3>1 DEF Reply
            <3>2. ASSUME e.gen = conn, e.tok = t
                  PROVE  InMap(t) /\ ~InMap(t)'
                  BY <1>1, <1>2, <2>3, <3>2 DEF InMap, Alone, Single
            <3> QED BY <3>1, <3>2
      <2>5. f \in Reply(conn, t) => ~InQueue(t)
            BY <1>2, <2>4 DEF Alone
      <2>6. /\ InQueue(t)' => InQueue(t) \/ f \in Reply(conn, t)
            /\ Once(queue, Reply(conn, t))'
            BY <1>1, <1>2, <2>1, <2>3, <2>5, OfferOnce DEF Alone, Single
      <2> QED BY <1>1, <1>2, <1>3, <1>4, <2>4, <2>6 DEF Alone, Single
<1> QED BY <1>5, <1>6

\* Neither an event nor the service's own request is anybody's call.
LEMMA EventCalls == ASSUME Inv, TackyEvent \/ SelfRequest PROVE Calls'
<1> SUFFICES ASSUME conn # 0, NEW t \in Toks PROVE Alone(t)'
    BY DEF Calls, TackyEvent, SelfRequest, uiVars
<1>1. /\ conn' = conn /\ conn \in Conns /\ inflight' = inflight /\ UNCHANGED <<up, held, down>>
      BY Bounds DEF TackyEvent, SelfRequest, uiVars, sockVars
<1>2. Alone(t)
      BY DEF Inv, Calls
<1>3. /\ (InUp(t)' <=> InUp(t)) /\ (InDown(t)' <=> InDown(t))
      /\ InHand(t)' => InHand(t)
      /\ Once(up[conn], {t})' /\ Once(down[conn], Reply(conn, t))'
      BY <1>1, <1>2, Untouched DEF Alone, Single
<1>4. /\ InQueue(t)' => InQueue(t)
      /\ Once(queue, Reply(conn, t))'
      <2>1. CASE TackyEvent
            <3>1. Event \in Frame /\ Event \notin Reply(conn, t)
                  BY <1>1, EventFrame DEF Reply, Event, Conns, ANY
            <3> QED BY <1>1, <1>2, <2>1, <3>1, OfferOnce DEF TackyEvent, Alone, Single
      <2>2. CASE SelfRequest
            BY <1>1, <1>2, <2>2, Untouched DEF SelfRequest, Alone, Single
      <2> QED BY <2>1, <2>2
<1>5. /\ InMap(t)' => InMap(t)
      /\ \A e, f \in pending' :
            e.gen = conn /\ e.tok = t /\ f.gen = conn /\ f.tok = t => e = f
      <2>1. CASE TackyEvent
            BY <1>1, <1>2, <2>1 DEF TackyEvent, mapVars, InMap, Alone, Single
      <2>2. CASE SelfRequest
            BY <1>1, <1>2, <2>2 DEF SelfRequest, Outbound, InMap, Alone, Single, SELF, Conns
      <2> QED BY <2>1, <2>2
<1> QED BY <1>1, <1>2, <1>3, <1>4, <1>5 DEF Alone, Single

LEMMA TakeCalls == ASSUME Inv, WriterTake PROVE Calls'
<1> SUFFICES ASSUME conn # 0, NEW t \in Toks PROVE Alone(t)'
    BY DEF Calls, WriterTake, uiVars
<1>1. /\ conn' = conn /\ inflight' = inflight /\ held = <<>> /\ queue # <<>>
      /\ queue' = Tail(queue) /\ queue \in Seq(Frame) /\ UNCHANGED <<up, pending, down>>
      /\ held' \in {<<>>, <<Head(queue), client>>}
      BY Bounds DEF WriterTake, uiVars, sockVars, mapVars
<1>2. Alone(t)
      BY DEF Inv, Calls
<1>3. /\ (InUp(t)' <=> InUp(t)) /\ (InDown(t)' <=> InDown(t))
      /\ InMap(t)' => InMap(t)
      /\ Once(up[conn], {t})' /\ Once(down[conn], Reply(conn, t))'
      BY <1>1, <1>2, Untouched DEF Alone, Single
<1>4. InHand(t)' => Head(queue) \in Reply(conn, t)
      BY <1>1 DEF InHand, Reply
<1>5. /\ InQueue(t)' => InQueue(t) /\ Head(queue) \notin Reply(conn, t)
      /\ Head(queue) \in Reply(conn, t) => InQueue(t)
      /\ Once(queue, Reply(conn, t))'
      <2>1. /\ Some(Tail(queue), Reply(conn, t)) => Some(queue, Reply(conn, t))
            /\ Head(queue) \in Reply(conn, t) => Some(queue, Reply(conn, t))
            /\ Once(queue, Reply(conn, t)) => Once(Tail(queue), Reply(conn, t))
            /\ Once(queue, Reply(conn, t)) /\ Head(queue) \in Reply(conn, t)
                  => ~Some(Tail(queue), Reply(conn, t))
            BY <1>1, TailKeeps
      <2> QED BY <1>1, <1>2, <2>1 DEF Alone, Single, InQueue, Reply
<1> QED BY <1>1, <1>2, <1>3, <1>4, <1>5 DEF Alone, Single

LEMMA WriteCalls == ASSUME Inv, WriterWrite PROVE Calls'
<1> DEFINE c == held[2]
<1> SUFFICES ASSUME conn # 0, NEW t \in Toks PROVE Alone(t)'
    BY DEF Calls, WriterWrite, uiVars
<1>1. /\ conn' = conn /\ conn \in Conns /\ inflight' = inflight /\ held # <<>> /\ held' = <<>>
      /\ down' = [down EXCEPT ![c] = Append(@, held[1])]
      /\ held[1] \in Frame /\ c \in Conns /\ Marked(held[1], c)
      /\ UNCHANGED <<up, pending, queue>>
      BY Bounds, FramesTyped DEF WriterWrite, uiVars, mapVars, Inv, Labels, HandLabels
<1>2. Alone(t)
      BY DEF Inv, Calls
<1>3. /\ (InUp(t)' <=> InUp(t)) /\ (InQueue(t)' <=> InQueue(t))
      /\ InMap(t)' => InMap(t)
      /\ Once(up[conn], {t})' /\ Once(queue, Reply(conn, t))'
      BY <1>1, <1>2, Untouched DEF Alone, Single
<1>4. ~InHand(t)'
      BY <1>1 DEF InHand
<1>5. held[1] \in Reply(conn, t) => c = conn /\ InHand(t)
      BY <1>1 DEF Reply, Marked, InHand, Conns, ANY
<1>6. /\ InDown(t)' => InDown(t) \/ InHand(t)
      /\ Once(down[conn], Reply(conn, t))'
      <2>1. CASE c = conn
            <3>1. /\ Some(Append(down[conn], held[1]), Reply(conn, t)) <=>
                        Some(down[conn], Reply(conn, t)) \/ held[1] \in Reply(conn, t)
                  /\ Once(down[conn], Reply(conn, t)) /\
                        (held[1] \in Reply(conn, t) => ~Some(down[conn], Reply(conn, t)))
                        => Once(Append(down[conn], held[1]), Reply(conn, t))
                  BY <1>1, Bounds, AppendKeeps
            <3>2. down'[conn] = Append(down[conn], held[1])
                  BY <1>1, <2>1, Bounds
            <3> QED BY <1>1, <1>2, <1>5, <3>1, <3>2 DEF Alone, Single, InDown, Reply
      <2>2. CASE c # conn
            BY <1>1, <1>2, <2>2, Bounds, Untouched DEF Alone, Single
      <2> QED BY <2>1, <2>2
<1> QED BY <1>1, <1>2, <1>3, <1>4, <1>6 DEF Alone, Single

LEMMA CallsStep == ASSUME Inv, Next PROVE Calls'
<1>1. CASE UiDrop \/ UiDie
      BY <1>1 DEF UiDrop, UiDie, Calls
<1>2. ASSUME conn # 0,
             \/ \E tok \in unsent : FailUnsent(tok)
             \/ AcceptClose \/ AcceptSet \/ WriterFail
             \/ \E c \in Conns : ReaderTake(c) \/ ReaderEnd(c)
      PROVE  Calls'
      <2>1. /\ conn' = conn /\ conn \in Conns /\ inflight' = inflight
            /\ pending' \subseteq pending /\ (held' = held \/ held' = <<>>)
            /\ UNCHANGED <<queue, down>>
            BY <1>2, Bounds DEF FailUnsent, AcceptClose, AcceptSet, WriterFail, ReaderTake,
               ReaderEnd, CloseClient, Without, uiVars, sockVars, mapVars
      <2>2. up' = up \/ \E c \in Conns : up[c] # <<>> /\ up' = [up EXCEPT ![c] = Tail(@)]
            BY <1>2 DEF FailUnsent, AcceptClose, AcceptSet, WriterFail, ReaderTake, ReaderEnd,
               sockVars
      <2> QED BY <2>1, <2>2, Fewer
<1>3. CASE conn = 0 /\ ~UiConnect
      <2>1. conn' = 0
            BY <1>3, OthersLeaveUi DEF Ui, Ask, UiRead, UiDrop, UiDie, FailUnsent, uiVars
      <2> QED BY <2>1 DEF Calls
<1> QED BY <1>1, <1>2, <1>3, ConnectCalls, AskCalls, ReadCalls, SendCalls, AnswerCalls,
           EventCalls, TakeCalls, WriteCalls DEF Next, Ui, Readers, Writer, Tacky

-----------------------------------------------------------------------------
(* The theorems.                                                            *)

LEMMA Initially == Init => Inv
<1> SUFFICES ASSUME Init PROVE Inv
    OBVIOUS
<1> USE ServiceLinkAssumption DEF Init, ServiceLinkAssumption
<1>1. TypeOK
      BY DEF TypeOK, UiOK, SocketsOK, RouterOK, MapOK
<1>2. NothingOwedToTheGone /\ Threads /\ Calls
      BY DEF NothingOwedToTheGone, Threads, Calls
<1>3. Labels
      BY DEF Labels, MapLabels, QueueLabels, HandLabels, DownLabels, Unused
<1>4. Books
      BY DEF Books
<1> QED BY <1>1, <1>2, <1>3, <1>4 DEF Inv

LEMMA Stuttering == ASSUME Inv, UNCHANGED vars PROVE Inv'
<1> USE DEF vars, uiVars, sockVars, mapVars, Inv
<1>1. TypeOK' /\ NothingOwedToTheGone'
      BY DEF TypeOK, UiOK, SocketsOK, RouterOK, MapOK, NothingOwedToTheGone
<1>2. Threads' /\ Books'
      BY DEF Threads, Books
<1>3. Labels'
      BY DEF Labels, MapLabels, QueueLabels, HandLabels, DownLabels, Unused, Own, Marked
<1>4. Calls'
      BY DEF Calls, Alone, Single, InUp, InMap, InQueue, InHand, InDown, Some, Once, Reply
<1> QED BY <1>1, <1>2, <1>3, <1>4

LEMMA Always == Spec => []Inv
<1>1. Inv /\ [Next]_vars => Inv'
      <2>1. CASE Next
            BY <2>1, TypeStep, OwedStep, ThreadsStep, LabelsStep, BooksStep, CallsStep DEF Inv
      <2>2. CASE UNCHANGED vars
            BY <2>2, Stuttering
      <2> QED BY <2>1, <2>2
<1> QED BY <1>1, Initially, PTL DEF Spec

\* Whatever connections come and go, nothing is owed to one that is over, and every
\* frame and record keeps to its type (FrameRouter's client and readers, TokenMap).
THEOREM LinkStaysTrue == Spec => []LinkTrue
<1>1. Inv => LinkTrue
      BY DEF Inv, LinkTrue
<1> QED BY <1>1, Always, PTL

\* A client is displaced by a newcomer, by its own end, or by a write that failed:
\* never by a reader that had been displaced before (FrameRouter::readLoop).
THEOREM ReplacementIsSafe == Spec => ReplacementStays
<1>1. ASSUME Inv, Next, client # 0, client' = 0
      PROVE  client \notin uiOpen \/ accepted' # 0 \/ (held # <<>> /\ held' = <<>>)
      <2>1. CASE AcceptClose
            <3>1. backlog \in Seq(Conns) /\ backlog # <<>> /\ accepted' = Head(backlog)
                  BY <1>1, <2>1, BacklogSteps DEF AcceptClose
            <3>2. Head(backlog) \in Conns
                  BY <3>1, TailKeeps
            <3> QED BY <3>1, <3>2 DEF Conns
      <2>2. CASE AcceptSet
            BY <1>1, <2>2 DEF AcceptSet
      <2>3. CASE Readers
            <3>1. PICK c \in Conns : ReaderEnd(c)
                  BY <1>1, <2>3 DEF Readers, ReaderTake, ReaderSend
            <3>2. client = c /\ client \in srvOpen
                  BY <1>1, <3>1 DEF ReaderEnd, Inv, Threads
            <3> QED BY <3>1, <3>2 DEF ReaderEnd
      <2>4. CASE WriterFail
            BY <2>4 DEF WriterFail
      <2>5. CASE Ui \/ WriterTake \/ WriterWrite \/ Tacky
            BY <1>1, <2>5 DEF Ui, UiConnect, Ask, UiRead, UiDrop, UiDie, FailUnsent,
               WriterTake, WriterWrite, Tacky, TackyAnswer, TackyEvent, SelfRequest
      <2> QED BY <1>1, <2>1, <2>2, <2>3, <2>4, <2>5 DEF Next, Writer
<1>2. Inv /\ [Next]_vars =>
         [client # 0 /\ client' = 0 =>
            client \notin uiOpen \/ accepted' # 0 \/ (held # <<>> /\ held' = <<>>)]_vars
      BY <1>1
<1> QED BY <1>2, Always, PTL DEF Spec, ReplacementStays

\* What TackyBackend promises its callers is kept over any number of connections and
\* UI processes, whose tokens all start at 1: a call is answered once, by its own
\* answer, or fails once.
THEOREM CallsAnsweredOnce == Spec => AnsweredOnce
<1> DEFINE Open == {Call(t) : t \in inflight \cup unsent}
<1>1. Init => C!Init
      BY DEF Init, C!Init
<1>2. ASSUME Inv, Next PROVE C!Next \/ UNCHANGED C!vars
      <2>1. CASE Ask
            <3>1. /\ next \in Toks /\ life \in 1..MaxLife /\ life' = life
                  /\ inflight' \cup unsent' = inflight \cup unsent \cup {next}
                  /\ asked' = asked \cup {Call(next)} /\ answers' = answers
                  BY <1>2, <2>1, Bounds DEF Ask, Inv, TypeOK, UiOK, Toks
            <3>2. Call(next) \notin asked
                  BY <1>2, <3>1 DEF Inv, Books, Call, Toks
            <3>3. Open' = Open \cup {Call(next)}
                  BY <3>1 DEF Call
            <3>4. Call(next) \in (1..MaxLife) \X (1..MaxAsk)
                  BY <3>1 DEF Call, Toks
            <3> QED BY <3>1, <3>2, <3>3, <3>4 DEF C!Next, C!Ask
      <2>2. CASE UiRead /\ Head(down[conn]).tok # 0
            <3> DEFINE t == Head(down[conn]).tok
            <3>1. /\ t \in inflight /\ t \in Toks /\ Head(down[conn]).call = Call(t)
                  BY <1>2, <2>2, ReadHead
            <3>2. /\ inflight' = inflight \ {t} /\ t \notin unsent
                  /\ answers' = answers \cup {<<Call(t), Call(t)>>}
                  /\ UNCHANGED <<life, unsent, asked>>
                  BY <1>2, <2>2, <3>1 DEF UiRead, Inv, Books
            <3>3. Open' = Open \ {Call(t)}
                  BY <3>1, <3>2 DEF Call
            <3>4. Call(t) \in Open /\ Call(t) \in (1..MaxLife) \X (1..MaxAsk)
                  BY <1>2, <3>1 DEF Call, Toks, Inv, TypeOK, UiOK
            <3> QED BY <3>2, <3>3, <3>4 DEF C!Next, C!Answer
      <2>3. CASE UiRead /\ Head(down[conn]).tok = 0
            <3>1. 0 \notin inflight
                  BY <1>2, Bounds DEF Inv, TypeOK, UiOK
            <3>2. inflight' = inflight \ {0} /\ UNCHANGED <<life, unsent, asked, answers>>
                  BY <2>3 DEF UiRead
            <3> QED BY <3>1, <3>2 DEF C!vars, Call
      <2>4. ASSUME NEW G \in SUBSET Open, Open' = Open \ G, UNCHANGED <<asked, answers>>
            PROVE  C!Next \/ UNCHANGED C!vars
            <3>1. CASE G = {}
                  BY <2>4, <3>1 DEF C!vars
            <3>2. CASE G # {}
                  <4>1. C!Fail(G)
                        BY <2>4, <3>2 DEF C!Fail
                  <4> QED BY <4>1 DEF C!Next
            <3> QED BY <3>1, <3>2
      <2>5. CASE UiDrop
            <3>1. Open' = Open \ {Call(t) : t \in inflight}
                  BY <1>2, <2>5 DEF UiDrop, Call, Inv, Books
            <3> QED BY <2>4, <2>5, <3>1 DEF UiDrop
      <2>6. CASE UiDie
            <3>1. Open' = Open \ Open
                  BY <2>6 DEF UiDie
            <3> QED BY <2>4, <2>6, <3>1 DEF UiDie
      <2>7. ASSUME NEW tok \in unsent, FailUnsent(tok) PROVE C!Next \/ UNCHANGED C!vars
            <3>1. Open' = Open \ {Call(tok)}
                  BY <1>2, <2>7 DEF FailUnsent, Call, Inv, Books
            <3> QED BY <2>4, <2>7, <3>1 DEF FailUnsent
      <2>8. CASE UiConnect
            BY <2>8 DEF UiConnect, C!vars, Call
      <2>9. CASE UNCHANGED uiVars
            BY <2>9 DEF uiVars, C!vars, Call
      <2> QED BY <1>2, <2>1, <2>2, <2>3, <2>5, <2>6, <2>7, <2>8, <2>9, OthersLeaveUi DEF Ui
<1>3. Inv /\ [Next]_vars => [C!Next]_C!vars
      <2>1. UNCHANGED vars => UNCHANGED C!vars
            BY DEF vars, uiVars, C!vars, Call
      <2> QED BY <1>2, <2>1
<1> QED BY <1>1, <1>3, Always, PTL DEF Spec, AnsweredOnce, C!Spec
=============================================================================
