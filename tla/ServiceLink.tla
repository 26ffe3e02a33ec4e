---------------------------- MODULE ServiceLink -----------------------------
(***************************************************************************)
(* The road between the UI process and tacky on Android: TackyBackend over *)
(* a SocketTransport at one end, FrameRouter and its TokenMap in the       *)
(* service process at the other, tacky behind it.                          *)
(*                                                                         *)
(* The UI process may be killed and start again, counting its tokens from  *)
(* 1; the service and tacky live on.  In the service an accept thread, a   *)
(* reader per connection, one writer and tacky's own thread share the      *)
(* current client, the token map and a bounded queue.                      *)
(*                                                                         *)
(* A connection is the number the accept loop gives it (Conn.gen): the     *)
(* kernel's backlog is first come, first served.  A frame is a token and,  *)
(* as history, the call it belongs to.  Notifies change nothing here.      *)
(***************************************************************************)
EXTENDS Integers, Sequences, FiniteSets

CONSTANTS
    Cap,        \* slots of FrameRouter.outbound (1024 in the code)
    SockBuf,    \* frames the kernel holds for a UI that does not read
    MaxConn,    \* bound: connections made
    MaxLife,    \* bound: UI processes started
    MaxAsk,     \* bound: requests of one UI process
    MaxEvents,  \* bound: events tacky emits
    MaxSelf     \* bound: the service's own requests

ASSUME ServiceLinkAssumption ==
    /\ Cap \in Nat \ {0} /\ SockBuf \in Nat \ {0}
    /\ MaxConn \in Nat /\ MaxLife \in Nat \ {0} /\ MaxAsk \in Nat
    /\ MaxEvents \in Nat /\ MaxSelf \in Nat

Conns == 1..MaxConn
SELF == 0       \* FrameRouter.SELF
ANY == -1       \* TokenMap.ANY
Event == [gen |-> ANY, tok |-> 0, call |-> <<0, 0>>]

VARIABLES
    \* TackyBackend and SocketTransport
    life,       \* which UI process this is
    conn,       \* its connection, or 0 (SocketTransport::isConnected)
    next,       \* m_nextToken
    inflight,   \* m_inflight's tokens
    unsent,     \* tokens whose error waits in the event loop
    \* the sockets
    conns,      \* connections made so far
    lifeOf,     \* whose each one is
    uiOpen,     \* connections whose UI end is open
    srvOpen,    \* connections whose service end is open
    up, down,   \* what each holds, towards the service and towards the UI
    \* FrameRouter
    backlog,    \* connections not accepted
    accepted,   \* the one between closeClient and client.set, or 0
    client,     \* the attached UI, or 0
    reader,     \* per connection: "none", "reading", "sending" (its head frame), "done"
    queue,      \* outbound
    held,       \* the writer's frame and the connection it has picked, or <<>>
    \* TokenMap
    nextOurs,   \* next
    pending,    \* entries: [ours, gen, tok]
    \* tacky
    working,    \* requests it has: [ours, call]
    events, selfs,
    \* history
    asked, answers

uiVars == <<life, conn, next, inflight, unsent, asked, answers>>
sockVars == <<conns, lifeOf, uiOpen, srvOpen, up, down>>
mapVars == <<nextOurs, pending, working>>
vars == <<uiVars, sockVars, backlog, accepted, client, reader, queue, held, mapVars,
          events, selfs>>

Call(tok) == <<life, tok>>

-----------------------------------------------------------------------------
(* TokenMap.                                                                *)

\* Mutant: the UI's own token is passed on.
OutboundSame(tok, gen, call) ==
    /\ pending' = {e \in pending : e.ours # tok}
                  \cup {[ours |-> tok, gen |-> gen, tok |-> tok]}
    /\ working' = working \cup {[ours |-> tok, call |-> call]}
    /\ UNCHANGED nextOurs

\* outbound: the request goes on under a number never used before.
Outbound(tok, gen, call) ==
    /\ pending' = pending \cup {[ours |-> nextOurs, gen |-> gen, tok |-> tok]}
    /\ working' = working \cup {[ours |-> nextOurs, call |-> call]}
    /\ nextOurs' = nextOurs + 1

\* inbound: whose a reply is; none, if nobody is waiting for it any more.
Owed(r) == {e \in pending : e.ours = r.ours}

\* forget, for every connection of G.
Without(G) == {e \in pending : e.gen \notin G}

\* closeClient: whoever is attached by now, it is dropped with what it is owed.
CloseClient ==
    /\ client' = 0
    /\ pending' = Without({client} \ {0})
    /\ srvOpen' = srvOpen \ {client}

-----------------------------------------------------------------------------
(* The UI process.                                                          *)

Init ==
    /\ life = 1 /\ conn = 0 /\ next = 1 /\ inflight = {} /\ unsent = {}
    /\ conns = 0 /\ lifeOf = [c \in Conns |-> 0]
    /\ uiOpen = {} /\ srvOpen = {}
    /\ up = [c \in Conns |-> <<>>] /\ down = [c \in Conns |-> <<>>]
    /\ backlog = <<>> /\ accepted = 0 /\ client = 0
    /\ reader = [c \in Conns |-> "none"]
    /\ queue = <<>> /\ held = <<>>
    /\ nextOurs = 1 /\ pending = {} /\ working = {}
    /\ events = 0 /\ selfs = 0
    /\ asked = {} /\ answers = {}

\* connectToService: the kernel completes it before the service accepts.
UiConnect ==
    /\ conn = 0 /\ conns < MaxConn
    /\ conns' = conns + 1 /\ conn' = conns'
    /\ lifeOf' = [lifeOf EXCEPT ![conns'] = life]
    /\ uiOpen' = uiOpen \cup {conns'} /\ srvOpen' = srvOpen \cup {conns'}
    /\ backlog' = Append(backlog, conns')
    /\ UNCHANGED <<life, next, inflight, unsent, asked, answers, up, down, accepted,
                   client, reader, queue, held, mapVars, events, selfs>>

\* Mutant: a request that could not be sent is not reported.
AskSilent ==
    /\ next <= MaxAsk
    /\ next' = next + 1
    /\ asked' = asked \cup {Call(next)}
    /\ inflight' = inflight \cup {next}
    /\ up' = IF conn \in srvOpen THEN [up EXCEPT ![conn] = Append(@, next)] ELSE up
    /\ UNCHANGED <<life, conn, answers, unsent, conns, lifeOf, uiOpen, srvOpen, down,
                   backlog, accepted, client, reader, queue, held, mapVars, events, selfs>>

\* request: written to the socket, or an error is queued.  What is written to a
\* socket the service has closed is lost; the UI has yet to notice.
Ask ==
    /\ next <= MaxAsk
    /\ next' = next + 1
    /\ asked' = asked \cup {Call(next)}
    /\ IF conn # 0
       THEN /\ inflight' = inflight \cup {next}
            /\ up' = IF conn \in srvOpen THEN [up EXCEPT ![conn] = Append(@, next)] ELSE up
            /\ UNCHANGED unsent
       ELSE /\ unsent' = unsent \cup {next}
            /\ UNCHANGED <<inflight, up>>
    /\ UNCHANGED <<life, conn, answers, conns, lifeOf, uiOpen, srvOpen, down, backlog,
                   accepted, client, reader, queue, held, mapVars, events, selfs>>

\* The queued error reaches the caller.
FailUnsent(tok) ==
    /\ unsent' = unsent \ {tok}
    /\ UNCHANGED <<life, conn, next, inflight, asked, answers, sockVars, backlog, accepted,
                   client, reader, queue, held, mapVars, events, selfs>>

\* deliver: a reply reaches the caller, or an event the models.
UiRead ==
    /\ conn # 0 /\ down[conn] # <<>>
    /\ LET f == Head(down[conn])
       IN /\ inflight' = inflight \ {f.tok}
          /\ answers' = IF f.tok = 0 THEN answers
                        ELSE answers \cup {<<Call(f.tok), f.call>>}
    /\ down' = [down EXCEPT ![conn] = Tail(@)]
    /\ UNCHANGED <<life, conn, next, unsent, asked, conns, lifeOf, uiOpen, srvOpen, up,
                   backlog, accepted, client, reader, queue, held, mapVars, events, selfs>>

\* onDisconnected: the service closed the socket; every call out fails.
UiDrop ==
    /\ conn # 0 /\ conn \notin srvOpen
    /\ conn' = 0 /\ inflight' = {}
    /\ uiOpen' = uiOpen \ {conn}
    /\ UNCHANGED <<life, next, unsent, asked, answers, conns, lifeOf, srvOpen, up, down,
                   backlog, accepted, client, reader, queue, held, mapVars, events, selfs>>

\* Android kills the UI process; the next one starts afresh.
UiDie ==
    /\ life < MaxLife
    /\ life' = life + 1
    /\ conn' = 0 /\ next' = 1 /\ inflight' = {} /\ unsent' = {}
    /\ uiOpen' = uiOpen \ {conn}
    /\ UNCHANGED <<asked, answers, conns, lifeOf, srvOpen, up, down, backlog, accepted,
                   client, reader, queue, held, mapVars, events, selfs>>

-----------------------------------------------------------------------------
(* The accept loop and the readers.                                         *)

\* The newcomer wins: whoever is attached is closed first ...
AcceptClose ==
    /\ accepted = 0 /\ backlog # <<>>
    /\ accepted' = Head(backlog) /\ backlog' = Tail(backlog)
    /\ CloseClient
    /\ UNCHANGED <<uiVars, conns, lifeOf, uiOpen, up, down, reader, queue, held, nextOurs,
                   working, events, selfs>>

\* ... and then it is attached.
AcceptSet ==
    /\ accepted # 0
    /\ client' = accepted /\ accepted' = 0
    /\ reader' = [reader EXCEPT ![accepted] = "reading"]
    /\ UNCHANGED <<uiVars, sockVars, backlog, queue, held, mapVars, events, selfs>>

\* dispatchFromUi's test: a displaced reader drops what it still drains.
ReaderTake(c) ==
    /\ reader[c] = "reading" /\ c \in srvOpen /\ up[c] # <<>>
    /\ IF client = c
       THEN reader' = [reader EXCEPT ![c] = "sending"] /\ UNCHANGED up
       ELSE up' = [up EXCEPT ![c] = Tail(@)] /\ UNCHANGED reader
    /\ UNCHANGED <<uiVars, conns, lifeOf, uiOpen, srvOpen, down, backlog, accepted, client,
                   queue, held, mapVars, events, selfs>>

\* The frame that passed it goes to tacky, the client replaced meanwhile or not.
ReaderSend(c) ==
    /\ reader[c] = "sending"
    /\ Outbound(Head(up[c]), c, <<lifeOf[c], Head(up[c])>>)
    /\ up' = [up EXCEPT ![c] = Tail(@)]
    /\ reader' = [reader EXCEPT ![c] = "reading"]
    /\ UNCHANGED <<uiVars, conns, lifeOf, uiOpen, srvOpen, down, backlog, accepted, client,
                   queue, held, events, selfs>>

\* Mutant: what the connection was owed is left in the map.
ReaderEndOwing(c) ==
    /\ reader[c] = "reading"
    /\ c \notin srvOpen \/ (c \notin uiOpen /\ up[c] = <<>>)
    /\ client' = IF client = c THEN 0 ELSE client
    /\ srvOpen' = srvOpen \ {c}
    /\ reader' = [reader EXCEPT ![c] = "done"]
    /\ UNCHANGED <<uiVars, conns, lifeOf, uiOpen, up, down, backlog, accepted, queue, held,
                   mapVars, events, selfs>>

\* Mutant: a displaced reader clears its replacement.
ReaderEndClears(c) ==
    /\ reader[c] = "reading"
    /\ c \notin srvOpen \/ (c \notin uiOpen /\ up[c] = <<>>)
    /\ client' = 0
    /\ pending' = Without({c})
    /\ srvOpen' = srvOpen \ {c}
    /\ reader' = [reader EXCEPT ![c] = "done"]
    /\ UNCHANGED <<uiVars, conns, lifeOf, uiOpen, up, down, backlog, accepted, queue, held,
                   nextOurs, working, events, selfs>>

\* End of stream, or the socket closed under it: the current client is only
\* cleared if it is still this one.
ReaderEnd(c) ==
    /\ reader[c] = "reading"
    /\ c \notin srvOpen \/ (c \notin uiOpen /\ up[c] = <<>>)
    /\ client' = IF client = c THEN 0 ELSE client
    /\ pending' = Without({c})
    /\ srvOpen' = srvOpen \ {c}
    /\ reader' = [reader EXCEPT ![c] = "done"]
    /\ UNCHANGED <<uiVars, conns, lifeOf, uiOpen, up, down, backlog, accepted, queue, held,
                   nextOurs, working, events, selfs>>

-----------------------------------------------------------------------------
(* tacky's thread and the writer.                                           *)

\* offer: a full queue drops the frame.
Offer(f) == queue' = IF Len(queue) < Cap THEN Append(queue, f) ELSE queue

\* onFrame, for a reply: to whom it is owed, or to nobody.
TackyAnswer(r) ==
    /\ working' = working \ {r}
    /\ pending' = pending \ Owed(r)
    /\ IF \E e \in Owed(r) : e.gen # SELF
       THEN \E e \in Owed(r) : Offer([gen |-> e.gen, tok |-> e.tok, call |-> r.call])
       ELSE UNCHANGED queue
    /\ UNCHANGED <<uiVars, sockVars, backlog, accepted, client, reader, held, nextOurs,
                   events, selfs>>

TackyEvent ==
    /\ events < MaxEvents
    /\ events' = events + 1
    /\ Offer(Event)
    /\ UNCHANGED <<uiVars, sockVars, backlog, accepted, client, reader, held, mapVars, selfs>>

\* The service's own request, answered on its reply thread.
SelfRequest ==
    /\ selfs < MaxSelf
    /\ selfs' = selfs + 1
    /\ Outbound(selfs', SELF, <<0, selfs'>>)
    /\ UNCHANGED <<uiVars, sockVars, backlog, accepted, client, reader, queue, held, events>>

\* The writer takes a frame and picks its connection; nobody attached, or a reply
\* of another connection: it is dropped.
WriterTake ==
    /\ held = <<>> /\ queue # <<>>
    /\ queue' = Tail(queue)
    /\ held' = IF client # 0 /\ Head(queue).gen \in {ANY, client}
               THEN <<Head(queue), client>> ELSE held
    /\ UNCHANGED <<uiVars, sockVars, backlog, accepted, client, reader, mapVars, events, selfs>>

\* The write blocks while the UI does not read.
WriterWrite ==
    /\ held # <<>>
    /\ LET c == held[2]
       IN /\ c \in srvOpen /\ c \in uiOpen
          /\ Len(down[c]) < SockBuf
          /\ down' = [down EXCEPT ![c] = Append(@, held[1])]
    /\ held' = <<>>
    /\ UNCHANGED <<uiVars, conns, lifeOf, uiOpen, srvOpen, up, backlog, accepted, client,
                   reader, queue, mapVars, events, selfs>>

\* The picked socket is closed, at either end: the client of now is dropped.
WriterFail ==
    /\ held # <<>>
    /\ held[2] \notin srvOpen \cap uiOpen
    /\ held' = <<>>
    /\ CloseClient
    /\ UNCHANGED <<uiVars, conns, lifeOf, uiOpen, up, down, backlog, accepted, reader, queue,
                   nextOurs, working, events, selfs>>

-----------------------------------------------------------------------------
Ui ==
    \/ UiConnect \/ Ask \/ UiRead \/ UiDrop \/ UiDie
    \/ \E tok \in unsent : FailUnsent(tok)

Readers == \E c \in Conns : ReaderTake(c) \/ ReaderSend(c) \/ ReaderEnd(c)

Writer == WriterTake \/ WriterWrite \/ WriterFail

Tacky == (\E r \in working : TackyAnswer(r)) \/ TackyEvent \/ SelfRequest

Next == Ui \/ AcceptClose \/ AcceptSet \/ Readers \/ Writer \/ Tacky

Spec == Init /\ [][Next]_vars

\* Every thread of the service runs, tacky answers what it has, and a live UI
\* process turns its event loop and reads its socket.
Fairness ==
    /\ WF_vars(AcceptClose) /\ WF_vars(AcceptSet)
    /\ \A c \in Conns : WF_vars(ReaderTake(c) \/ ReaderSend(c) \/ ReaderEnd(c))
    /\ WF_vars(Writer)
    /\ WF_vars(\E r \in working : TackyAnswer(r))
    /\ WF_vars(UiRead) /\ WF_vars(UiDrop)
    /\ \A t \in 1..MaxAsk : WF_vars(t \in unsent /\ FailUnsent(t))

LiveSpec == Spec /\ Fairness

-----------------------------------------------------------------------------
(* Properties.                                                              *)

Frame == [gen : {ANY} \cup Conns, tok : 0..MaxAsk, call : (0..MaxLife) \X (0..MaxAsk)]

UiOK ==
    /\ life \in 1..MaxLife /\ conn \in 0..MaxConn /\ next \in 1..(MaxAsk + 1)
    /\ inflight \subseteq 1..MaxAsk /\ unsent \subseteq 1..MaxAsk

SocketsOK ==
    /\ conns \in 0..MaxConn /\ lifeOf \in [Conns -> 0..MaxLife]
    /\ uiOpen \subseteq Conns /\ srvOpen \subseteq Conns
    /\ up \in [Conns -> Seq(1..MaxAsk)] /\ down \in [Conns -> Seq(Frame)]

RouterOK ==
    /\ backlog \in Seq(Conns) /\ accepted \in 0..MaxConn /\ client \in 0..MaxConn
    /\ reader \in [Conns -> {"none", "reading", "sending", "done"}]
    /\ queue \in Seq(Frame) /\ Len(queue) <= Cap
    /\ held = <<>> \/ held \in Frame \X Conns

MapOK ==
    /\ nextOurs \in Nat \ {0} /\ events \in 0..MaxEvents /\ selfs \in 0..MaxSelf
    /\ pending \subseteq [ours : 1..(nextOurs - 1), gen : 0..MaxConn,
                          tok : 1..(MaxAsk + MaxSelf)]

\* The types of both ends' records and of every frame between them.
TypeOK == UiOK /\ SocketsOK /\ RouterOK /\ MapOK

\* Every call of a UI process is answered by its own answer or failed, at most
\* once, whatever connections come and go and however often tokens restart at 1.
C == INSTANCE Requests WITH
       Ids <- (1..MaxLife) \X (1..MaxAsk),
       open <- {Call(t) : t \in inflight \cup unsent}
AnsweredOnce == C!Spec

\* A connection that is over leaves nothing in the token map, even if its reader
\* had a frame in hand when it was displaced.
NothingOwedToTheGone ==
    \A e \in pending : e.gen # SELF => reader[e.gen] \in {"reading", "sending"}

\* Every record keeps to its type, and the token map to the connections there are.
LinkTrue == TypeOK /\ NothingOwedToTheGone

\* Every call is answered or failed in the end, those of a newcomer that a writer's
\* failure takes down included, while the queue has room for all there is: a reply
\* that was dropped for want of it has a caller that waits until the link goes.
EveryRequestSettles ==
    \A t \in 1..MaxAsk : t \in inflight \cup unsent ~> t \notin inflight \cup unsent

\* "a displaced reader must not clear its replacement": beyond that, only the
\* writer, failing on another connection's socket, ever closes a live client.
ReplacementStays ==
    [][client # 0 /\ client' = 0 =>
         client \notin uiOpen \/ accepted' # 0 \/ (held # <<>> /\ held' = <<>>)]_vars
=============================================================================
