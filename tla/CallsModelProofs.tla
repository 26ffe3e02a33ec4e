-------------------------- MODULE CallsModelProofs --------------------------
(***************************************************************************)
(* Proofs about CallsModel, for every value of its constants: the rows say *)
(* of tacky's calls what is so, and only ever move forward, through lost    *)
(* links, dead processes, lists that are late, and a user who hangs up and  *)
(* dismisses in between.                                                    *)
(***************************************************************************)
EXTENDS CallsModel, Queues

\* The frames towards tacky ...
Orders == [kind : {"start"}, call : Placed] \cup [kind : {"accept", "reject", "hangup"}, call : Calls]
Asks == [kind : {"list", "pull"}, acc : Accounts]
TackyFrames == Orders \cup Asks

\* ... and towards the UI.
EventNames == {"Outgoing", "Incoming", "Ringing", "Active", "Ended", "Failed", "Verified"}
Events == [kind : {"event"}, name : EventNames, call : Calls, flag : BOOLEAN]
Edges == [kind : {"connected"}, acc : Accounts]
Snapshot == [raw : Live, verified : BOOLEAN]
Lists ==
    {f \in [kind : {"list"}, acc : Accounts, rows : UNION {[S -> Snapshot] : S \in SUBSET Calls}] :
        \A c \in DOMAIN f.rows : AccountOf[c] = f.acc}
UiFrames == Events \cup Edges \cup Lists

\* What a frame is to a call.
About(f, c) == f.kind = "event" /\ f.call = c
Names(f, c) == f.kind = "list" /\ c \in DOMAIN f.rows
Begins(f, c) == About(f, c) /\ f.name \in {"Incoming", "Outgoing"}
Finishes(f, c) == About(f, c) /\ f.name \in {"Ended", "Failed"}
Raises(f, c, p) == About(f, c) /\ ((f.name = "Ringing" /\ p <= 1) \/ f.name = "Active")
Tears(f, c) == f.kind \in {"reject", "hangup"} /\ f.call = c

\* A list is under way to tacky; the last list on its way back, which is the one
\* that will count.
Unlisted(acc) == ListsOf(toTacky, acc) = {}
Latest(acc, i) ==
    /\ Unlisted(acc)
    /\ i \in ListsOf(toUi, acc) /\ \A j \in ListsOf(toUi, acc) : j <= i

Tells(i, c) == Latest(AccountOf[c], i) /\ Names(toUi[i], c)
Brings(i, c) == Begins(toUi[i], c) \/ Tells(i, c)

\* A list will be asked for, when all of this has been handled; or is.
PullOut(acc) == \E i \in 1..Len(toTacky) : toTacky[i].kind = "pull" /\ toTacky[i].acc = acc
EdgeOut(acc) == \E i \in 1..Len(toUi) : toUi[i].kind = "connected" /\ toUi[i].acc = acc
WillAsk(acc) == ~up \/ acc \notin online \/ PullOut(acc) \/ EdgeOut(acc)
Fetching(acc) == WillAsk(acc) \/ ~Unlisted(acc)

\* The end of a call is on its way, after place i; its hangup is, before place j.
OverAfter(i, c) == \E k \in 1..Len(toUi) : k > i /\ Finishes(toUi[k], c)
TornBy(j, c) == \E i \in 1..Len(toTacky) : i < j /\ Tears(toTacky[i], c)

-----------------------------------------------------------------------------
(* The invariant, of one call.                                              *)

\* What the row, the user and tacky have to do with each other.
Sessions(c) ==
    /\ c \in DOMAIN calls \cup torn \cup cleared => session[c] # "none" /\ c \notin Legs
    /\ session[c] = "none" => ~trust[c]
    /\ session[c] = "ringing" => c \notin Placed
    /\ session[c] \in {"proposed", "alerted"} => c \in Placed
    /\ c \in cleared => c \in torn \/ session[c] = "over"
    /\ c \in DOMAIN calls =>
          /\ c \notin dismissed
          /\ calls[c].state = "incoming" => c \notin Placed
          /\ isTerminal(calls[c].state) => c \in torn \/ session[c] = "over"

\* A call's first word is its first, its last comes after whatever would show it.
Words(c) ==
    \A i \in 1..Len(toUi) :
       /\ About(toUi[i], c) \/ Names(toUi[i], c) => session[c] # "none"
       /\ Begins(toUi[i], c) =>
             /\ c \notin Legs /\ (toUi[i].name = "Incoming" => c \notin Placed)
             /\ c \notin DOMAIN calls \cup cleared \cup torn
             /\ \A k \in 1..Len(toUi) : k < i => ~About(toUi[k], c) /\ ~Names(toUi[k], c)
       /\ Finishes(toUi[i], c) => session[c] = "over"
       /\ Names(toUi[i], c) /\ toUi[i].rows[c].raw = "ringing" => c \notin Placed
       /\ c \notin Legs /\ (Begins(toUi[i], c) \/ Names(toUi[i], c)) /\ session[c] = "over"
             => OverAfter(i, c)

\* What a list that counts does not name, and would end, is over.
Spared(c) ==
    c \in DOMAIN calls =>
       \A i \in 1..Len(toUi) :
          /\ Latest(AccountOf[c], i) /\ calls[c].seq <= listing[AccountOf[c]]
          /\ c \notin DOMAIN toUi[i].rows
          => session[c] = "over"

\* A call in flight is shown, or will be.
Wanted(c) ==
    c \notin Legs \cup torn /\ session[c] \in Live /\ ~Fetching(AccountOf[c])
Shown(c) == Wanted(c) => c \in DOMAIN calls \/ \E i \in 1..Len(toUi) : Brings(i, c)

\* As far as it has come, where that is announced.
Reaches(c, p) ==
    \/ c \in DOMAIN calls /\ p <= progress(calls[c].state)
    \/ \E k \in 1..Len(toUi) :
          Raises(toUi[k], c, p) /\ (c \in DOMAIN calls \/ \E j \in 1..Len(toUi) : j < k /\ Brings(j, c))
    \/ \E k \in 1..Len(toUi) : Tells(k, c) /\ p <= progress(snapshotState(toUi[k].rows[c].raw))
Progressed(c) ==
    Wanted(c) /\ session[c] \in {"alerted", "active"} =>
       Reaches(c, progress(snapshotState(session[c])))

\* A row of a call that is over will be ended: by the call's own last word, or by a
\* list that does not name it.
Passing(c) ==
    c \in DOMAIN calls /\ ~isTerminal(calls[c].state) /\ session[c] = "over" =>
       \/ OverAfter(0, c) \/ WillAsk(AccountOf[c])
       \/ /\ AccountOf[c] \in DOMAIN listing /\ calls[c].seq <= listing[AccountOf[c]]
          /\ \/ ~Unlisted(AccountOf[c])
             \/ \E i \in 1..Len(toUi) : Latest(AccountOf[c], i) /\ c \notin DOMAIN toUi[i].rows

\* The last that is said of the trust in its key is so.
Verdict(i, c) == (About(toUi[i], c) /\ toUi[i].name = "Verified") \/ Tells(i, c)
Says(i, c) == IF toUi[i].kind = "list" THEN toUi[i].rows[c].verified ELSE toUi[i].flag
Trusted(c) ==
    c \notin Legs /\ session[c] \in Live /\ ~Fetching(AccountOf[c]) =>
       /\ \A i \in 1..Len(toUi) :
             Verdict(i, c) /\ (\A k \in 1..Len(toUi) : k > i => ~Verdict(k, c))
             => Says(i, c) = trust[c]
       /\ (\A i \in 1..Len(toUi) : ~Verdict(i, c)) =>
             /\ c \in DOMAIN calls => calls[c].verified = trust[c]
             /\ \A i \in 1..Len(toUi) : Begins(toUi[i], c) => ~trust[c]

\* What the user hung up, tacky will; and what is gone from the screen is not on any
\* list that was not made before, nor will be.
Torn(c) == drops = 0 /\ c \in torn => session[c] = "over" \/ TornBy(Len(toTacky) + 1, c)
Unnamed(c) == \A i \in 1..Len(toUi) : ~Names(toUi[i], c)
ListsTooLate(c) == \A j \in ListsOf(toTacky, AccountOf[c]) : TornBy(j, c)
Hidden(c) ==
    drops = 0 /\ c \in cleared \ DOMAIN calls =>
       c \in dismissed \/ (Unnamed(c) /\ (session[c] = "over" \/ ListsTooLate(c)))

\* That no row is ended too soon and none comes back; that what is so will be shown.
Core(c) == Sessions(c) /\ Words(c) /\ Spared(c) /\ Torn(c) /\ Hidden(c)
Bright(c) == Shown(c) /\ Progressed(c) /\ Passing(c) /\ Trusted(c)

-----------------------------------------------------------------------------
(* The invariant.                                                           *)

\* On a lost link nothing is under way; on one that never was lost, all is.
Wired ==
    /\ toUi \in Seq(UiFrames) /\ toTacky \in Seq(TackyFrames)
    /\ ~up => toUi = <<>> /\ toTacky = <<>>
    /\ drops = 0 => up

\* A list under way is one that is waited for.
Awaited == \A acc \in Accounts : ~Unlisted(acc) \/ ListsOf(toUi, acc) # {} => acc \in DOMAIN listing

Safe == TypeOK /\ Wired /\ Awaited /\ \A c \in Calls : Core(c)
Inv == Safe /\ \A c \in Calls : Bright(c)

-----------------------------------------------------------------------------
(* Frames, and the places they are at.                                      *)

LEMMA UiFields ==
    ASSUME NEW f \in UiFrames
    PROVE  /\ f.kind \in {"event", "connected", "list"}
           /\ f.kind = "event" => f \in Events
           /\ f.kind = "connected" => f.acc \in Accounts
           /\ f.kind = "list" => /\ f \in Lists /\ f.acc \in Accounts /\ DOMAIN f.rows \subseteq Calls
                                 /\ \A c \in DOMAIN f.rows : AccountOf[c] = f.acc /\ f.rows[c] \in Snapshot
<1>1. CASE f \in Events \cup Edges
      BY <1>1 DEF Events, Edges
<1>2. CASE f \in Lists
      <2>1. /\ f.kind = "list" /\ f.acc \in Accounts
            /\ \A c \in DOMAIN f.rows : AccountOf[c] = f.acc
            BY <1>2 DEF Lists
      <2>2. PICK S \in SUBSET Calls : f.rows \in [S -> Snapshot]
            BY <1>2 DEF Lists
      <2> QED BY <1>2, <2>1, <2>2
<1> QED BY <1>1, <1>2 DEF UiFrames


\* What appending to a queue and taking from it do to its places.
LEMMA Longer ==
    ASSUME NEW S, NEW s \in Seq(S), NEW x \in S
    PROVE  /\ s \o <<x>> \in Seq(S) /\ Len(s \o <<x>>) = Len(s) + 1 /\ Len(s) \in Nat
           /\ \A i \in 1..Len(s) : (s \o <<x>>)[i] = s[i]
           /\ (s \o <<x>>)[Len(s) + 1] = x
           /\ Append(s, x) = s \o <<x>>
BY AppendIsConcat, AppendProperties, LenProperties

LEMMA Shorter ==
    ASSUME NEW S, NEW s \in Seq(S), s # <<>>
    PROVE  /\ Tail(s) \in Seq(S) /\ Len(Tail(s)) = Len(s) - 1 /\ Len(s) \in Nat \ {0}
           /\ Head(s) \in S /\ Head(s) = s[1] /\ 1 \in 1..Len(s)
           /\ \A i \in 1..Len(Tail(s)) : Tail(s)[i] = s[i + 1] /\ i + 1 \in 2..Len(s)
           /\ \A i \in 2..Len(s) : i - 1 \in 1..Len(Tail(s)) /\ Tail(s)[i - 1] = s[i]
<1>1. /\ Tail(s) \in Seq(S) /\ Len(Tail(s)) = Len(s) - 1 /\ Len(s) \in Nat \ {0}
      /\ Head(s) \in S /\ Head(s) = s[1]
      /\ \A i \in 1..Len(Tail(s)) : Tail(s)[i] = s[i + 1]
      BY HeadTailProperties, EmptySeq
<1>2. \A i \in 1..Len(Tail(s)) : i + 1 \in 2..Len(s)
      BY <1>1
<1>3. ASSUME NEW i \in 2..Len(s)
      PROVE  i - 1 \in 1..Len(Tail(s)) /\ Tail(s)[i - 1] = s[i]
      <2>1. i - 1 \in 1..Len(Tail(s)) /\ (i - 1) + 1 = i
            BY <1>1
      <2> QED BY <1>1, <2>1
<1> QED BY <1>1, <1>2, <1>3

LEMMA TackyFields ==
    ASSUME NEW f \in TackyFrames
    PROVE  /\ f.kind \in {"start", "accept", "reject", "hangup", "list", "pull"}
           /\ f.kind \in {"list", "pull"} => f.acc \in Accounts
           /\ f.kind \notin {"list", "pull"} => f.call \in Calls
           /\ f.kind = "start" => f.call \in Placed
BY CallsAssumption DEF TackyFrames, Orders, Asks

\* The list that counts, as frames are sent and taken.
LEMMA LatestSent ==
    ASSUME Wired, NEW acc, NEW f \in UiFrames, toUi' = toUi \o <<f>>
    PROVE  /\ f.kind = "list" /\ f.acc = acc =>
                 \A i \in 1..Len(toUi') :
                    Latest(acc, i)' <=> Unlisted(acc)' /\ i = Len(toUi) + 1
           /\ ~(f.kind = "list" /\ f.acc = acc) /\ (Unlisted(acc)' <=> Unlisted(acc)) =>
                 \A i \in 1..Len(toUi') :
                    Latest(acc, i)' <=> Latest(acc, i) /\ i \in 1..Len(toUi)
<1> DEFINE n == Len(toUi)
<1>1. /\ n \in Nat /\ Len(toUi') = n + 1
      /\ \A i \in 1..n : toUi'[i] = toUi[i]
      /\ toUi'[n + 1] = f
      BY Longer DEF Wired
<1>2. CASE f.kind = "list" /\ f.acc = acc
      <2>1. n + 1 \in ListsOf(toUi', acc) /\ \A j \in ListsOf(toUi', acc) : j \in 1..(n + 1)
            BY <1>1, <1>2 DEF ListsOf
      <2> QED BY <1>1, <1>2, <2>1 DEF Latest
<1>3. CASE ~(f.kind = "list" /\ f.acc = acc) /\ (Unlisted(acc)' <=> Unlisted(acc))
      <2>1. ListsOf(toUi', acc) = ListsOf(toUi, acc)
            BY <1>1, <1>3 DEF ListsOf
      <2> QED BY <1>1, <1>3, <2>1 DEF Latest, ListsOf
<1> QED BY <1>2, <1>3

LEMMA LatestTaken ==
    ASSUME Wired, NEW acc, toUi # <<>>, toUi' = Tail(toUi), Unlisted(acc)' <=> Unlisted(acc)
    PROVE  \A i \in 1..Len(toUi') : Latest(acc, i)' <=> Latest(acc, i + 1)
<1>1. /\ Len(toUi') = Len(toUi) - 1 /\ Len(toUi) \in Nat \ {0}
      /\ \A i \in 1..Len(toUi') : toUi'[i] = toUi[i + 1] /\ i + 1 \in 2..Len(toUi)
      /\ \A i \in 2..Len(toUi) : i - 1 \in 1..Len(toUi') /\ toUi'[i - 1] = toUi[i]
      BY Shorter DEF Wired
<1>2. /\ \A i \in 1..Len(toUi') : i \in ListsOf(toUi', acc) <=> i + 1 \in ListsOf(toUi, acc)
      /\ \A i \in 2..Len(toUi) : i - 1 \in ListsOf(toUi', acc) <=> i \in ListsOf(toUi, acc)
      BY <1>1 DEF ListsOf
<1>3. ListsOf(toUi', acc) \subseteq 1..Len(toUi') /\ ListsOf(toUi, acc) \subseteq 1..Len(toUi)
      BY DEF ListsOf
<1> SUFFICES ASSUME NEW i \in 1..Len(toUi')
             PROVE  Latest(acc, i)' <=> Latest(acc, i + 1)
    OBVIOUS
<1>4. ASSUME Latest(acc, i)', NEW j \in ListsOf(toUi, acc)  PROVE j <= i + 1
      BY <1>1, <1>2, <1>3, <1>4 DEF Latest
<1>5. ASSUME Latest(acc, i + 1), NEW j \in ListsOf(toUi', acc)  PROVE j <= i
      BY <1>1, <1>2, <1>3, <1>5 DEF Latest
<1> QED BY <1>2, <1>4, <1>5 DEF Latest

-----------------------------------------------------------------------------
(* The parts of the invariant, as frames are sent and taken.                *)

\* What a step may do to a call's session, and what of the call the screen remembers.
Lasts(c) ==
    /\ session[c] # "none" => session'[c] # "none"
    /\ session[c] = "over" => session'[c] = "over"
    /\ session'[c] = "none" => ~trust'[c]
    /\ session'[c] = "ringing" => c \notin Placed
    /\ session'[c] \in {"proposed", "alerted"} => c \in Placed
Seen(c) == c \in DOMAIN calls \cup cleared \cup torn

\* A frame that may be sent about a call.
Fitting(f, c) ==
    /\ About(f, c) \/ Names(f, c) => session'[c] # "none"
    /\ Begins(f, c) => /\ session[c] = "none" /\ session'[c] # "over" /\ ~Seen(c)
                       /\ c \notin Legs /\ (f.name = "Incoming" => c \notin Placed)
    /\ Finishes(f, c) => session'[c] = "over"
    /\ Names(f, c) => /\ f.rows[c].raw = "ringing" => c \notin Placed
                      /\ c \notin Legs => session'[c] # "over"
    /\ session'[c] = "over" => session[c] = "over" \/ c \in Legs \/ Finishes(f, c)

LEMMA WordsSent ==
    ASSUME Wired, NEW c \in Calls, Words(c), Lasts(c), Seen(c)' => Seen(c),
           NEW f \in UiFrames, toUi' = toUi \o <<f>>, Fitting(f, c)
    PROVE  Words(c)'
<1> DEFINE n == Len(toUi)
<1>1. /\ n \in Nat /\ Len(toUi') = n + 1
      /\ \A i \in 1..n : toUi'[i] = toUi[i]
      /\ toUi'[n + 1] = f
      BY Longer DEF Wired
<1>2. \A i \in 1..n : OverAfter(i, c) => OverAfter(i, c)'
      BY <1>1 DEF OverAfter
<1>3. Finishes(f, c) => \A i \in 1..n : OverAfter(i, c)'
      BY <1>1 DEF OverAfter
<1> SUFFICES ASSUME NEW i \in 1..Len(toUi')
             PROVE  /\ About(toUi'[i], c) \/ Names(toUi'[i], c) => session'[c] # "none"
                    /\ Begins(toUi'[i], c) =>
                          /\ c \notin Legs /\ (toUi'[i].name = "Incoming" => c \notin Placed)
                          /\ c \notin DOMAIN calls' \cup cleared' \cup torn'
                          /\ \A k \in 1..Len(toUi') :
                                k < i => ~About(toUi'[k], c) /\ ~Names(toUi'[k], c)
                    /\ Finishes(toUi'[i], c) => session'[c] = "over"
                    /\ Names(toUi'[i], c) /\ toUi'[i].rows[c].raw = "ringing" => c \notin Placed
                    /\ c \notin Legs /\ (Begins(toUi'[i], c) \/ Names(toUi'[i], c))
                          /\ session'[c] = "over" => OverAfter(i, c)'
    BY DEF Words
<1>4. CASE i \in 1..n
      <2>1. toUi'[i] = toUi[i] /\ \A k \in 1..Len(toUi') : k < i => k \in 1..n /\ toUi'[k] = toUi[k]
            BY <1>1, <1>4
      <2>2. session'[c] = "over" => session[c] = "over" \/ c \in Legs \/ OverAfter(i, c)'
            BY <1>3, <1>4 DEF Fitting
      <2> QED BY <1>2, <1>4, <2>1, <2>2 DEF Words, Lasts, Seen
<1>5. CASE i = n + 1
      <2>1. Begins(f, c) => \A k \in 1..n : ~About(toUi[k], c) /\ ~Names(toUi[k], c)
            BY DEF Words, Fitting
      <2>2. Begins(f, c) => \A k \in 1..Len(toUi') :
               k < i => ~About(toUi'[k], c) /\ ~Names(toUi'[k], c)
            BY <1>1, <1>5, <2>1
      <2> QED BY <1>1, <1>5, <2>2 DEF Fitting, Seen
<1> QED BY <1>1, <1>4, <1>5

LEMMA WordsStay ==
    ASSUME NEW c \in Calls, Words(c), Lasts(c), Seen(c)' => Seen(c), toUi' = toUi,
           session'[c] = "over" => session[c] = "over" \/ c \in Legs
    PROVE  Words(c)'
<1>1. \A i : OverAfter(i, c)' <=> OverAfter(i, c)
      BY DEF OverAfter
<1> QED BY <1>1 DEF Words, Lasts, Seen

LEMMA WordsTaken ==
    ASSUME Wired, NEW c \in Calls, Words(c), session'[c] = session[c],
           toUi # <<>>, toUi' = Tail(toUi),
           Seen(c)' => Seen(c) \/ About(Head(toUi), c) \/ Names(Head(toUi), c)
    PROVE  Words(c)'
<1>1. /\ Len(toUi') = Len(toUi) - 1 /\ Len(toUi) \in Nat \ {0} /\ Head(toUi) = toUi[1]
      /\ \A i \in 1..Len(toUi') : toUi'[i] = toUi[i + 1] /\ i + 1 \in 2..Len(toUi)
      /\ \A i \in 2..Len(toUi) : i - 1 \in 1..Len(toUi') /\ toUi'[i - 1] = toUi[i]
      BY Shorter DEF Wired
<1>2. ASSUME NEW i \in 1..Len(toUi'), OverAfter(i + 1, c)
      PROVE  OverAfter(i, c)'
      <2>1. PICK k \in 1..Len(toUi) : k > i + 1 /\ Finishes(toUi[k], c)
            BY <1>2 DEF OverAfter
      <2>2. k - 1 \in 1..Len(toUi') /\ toUi'[k - 1] = toUi[k] /\ k - 1 > i
            BY <1>1, <2>1
      <2> QED BY <2>1, <2>2 DEF OverAfter
<1> SUFFICES ASSUME NEW i \in 1..Len(toUi')
             PROVE  /\ About(toUi'[i], c) \/ Names(toUi'[i], c) => session'[c] # "none"
                    /\ Begins(toUi'[i], c) =>
                          /\ c \notin Legs /\ (toUi'[i].name = "Incoming" => c \notin Placed)
                          /\ c \notin DOMAIN calls' \cup cleared' \cup torn'
                          /\ \A k \in 1..Len(toUi') :
                                k < i => ~About(toUi'[k], c) /\ ~Names(toUi'[k], c)
                    /\ Finishes(toUi'[i], c) => session'[c] = "over"
                    /\ Names(toUi'[i], c) /\ toUi'[i].rows[c].raw = "ringing" => c \notin Placed
                    /\ c \notin Legs /\ (Begins(toUi'[i], c) \/ Names(toUi'[i], c))
                          /\ session'[c] = "over" => OverAfter(i, c)'
    BY DEF Words
<1>3. toUi'[i] = toUi[i + 1] /\ i + 1 \in 2..Len(toUi) /\ i + 1 \in 1..Len(toUi)
      BY <1>1
<1>4. ASSUME Begins(toUi[i + 1], c)
      PROVE  /\ \A k \in 1..Len(toUi') : k < i => ~About(toUi'[k], c) /\ ~Names(toUi'[k], c)
             /\ ~About(Head(toUi), c) /\ ~Names(Head(toUi), c)
      <2>1. \A k \in 1..Len(toUi) : k < i + 1 => ~About(toUi[k], c) /\ ~Names(toUi[k], c)
            BY <1>3, <1>4 DEF Words
      <2>2. \A k \in 1..Len(toUi') :
               k < i => k + 1 \in 1..Len(toUi) /\ k + 1 < i + 1 /\ toUi'[k] = toUi[k + 1]
            BY <1>1
      <2>3. 1 \in 1..Len(toUi) /\ 1 < i + 1
            BY <1>1
      <2> QED BY <1>1, <2>1, <2>2, <2>3
<1> QED BY <1>2, <1>3, <1>4 DEF Words, Seen

\* A row that was there before, of an age it had, or none.
Old(c) ==
    c \in DOMAIN calls' =>
       /\ c \in DOMAIN calls /\ calls'[c].seq = calls[c].seq
       /\ (AccountOf[c] \in DOMAIN listing /\ AccountOf[c] \in DOMAIN listing'
             => listing'[AccountOf[c]] = listing[AccountOf[c]])

LEMMA SparedSent ==
    ASSUME Wired, Awaited, Awaited', NEW c \in Calls, AccountOf[c] \in Accounts,
           Spared(c), Lasts(c), Old(c),
           NEW f \in UiFrames, toUi' = toUi \o <<f>>,
           IF f.kind = "list" /\ f.acc = AccountOf[c]
           THEN c \in DOMAIN f.rows \/ c \notin DOMAIN calls \/ session'[c] = "over"
           ELSE Unlisted(AccountOf[c])' <=> Unlisted(AccountOf[c])
    PROVE  Spared(c)'
<1> DEFINE acc == AccountOf[c]
           n == Len(toUi)
<1>1. /\ n \in Nat /\ Len(toUi') = n + 1
      /\ \A i \in 1..n : toUi'[i] = toUi[i]
      /\ toUi'[n + 1] = f
      BY Longer DEF Wired
<1> SUFFICES ASSUME c \in DOMAIN calls', NEW i \in 1..Len(toUi'), Latest(acc, i)',
                    calls'[c].seq <= listing'[acc], c \notin DOMAIN toUi'[i].rows
             PROVE  session'[c] = "over"
    BY DEF Spared
<1>2. CASE f.kind = "list" /\ f.acc = acc
      <2>1. i = n + 1
            BY <1>2, LatestSent
      <2> QED BY <1>1, <1>2, <2>1 DEF Old
<1>3. CASE ~(f.kind = "list" /\ f.acc = acc)
      <2>1. Latest(acc, i) /\ i \in 1..n
            BY <1>3, LatestSent
      <2>2. acc \in DOMAIN listing /\ acc \in DOMAIN listing'
            BY <2>1 DEF Latest, Awaited
      <2> QED BY <1>1, <2>1, <2>2 DEF Old, Spared, Lasts
<1> QED BY <1>2, <1>3

LEMMA SparedStays ==
    ASSUME Awaited, Awaited', NEW c \in Calls, AccountOf[c] \in Accounts,
           Spared(c), Lasts(c), Old(c), toUi' = toUi,
           Unlisted(AccountOf[c])' => Unlisted(AccountOf[c])
    PROVE  Spared(c)'
<1> DEFINE acc == AccountOf[c]
<1> SUFFICES ASSUME c \in DOMAIN calls', NEW i \in 1..Len(toUi'), Latest(acc, i)',
                    calls'[c].seq <= listing'[acc], c \notin DOMAIN toUi'[i].rows
             PROVE  session'[c] = "over"
    BY DEF Spared
<1>1. Latest(acc, i) /\ i \in 1..Len(toUi)
      BY DEF Latest
<1>2. acc \in DOMAIN listing /\ acc \in DOMAIN listing'
      BY <1>1 DEF Latest, Awaited
<1> QED BY <1>1, <1>2 DEF Old, Spared, Lasts

\* As a frame is taken, a row may be new that no list now out could end.
LEMMA SparedTaken ==
    ASSUME Wired, Awaited, Awaited', NEW c \in Calls, AccountOf[c] \in Accounts,
           Spared(c), session'[c] = session[c],
           toUi # <<>>, toUi' = Tail(toUi),
           Unlisted(AccountOf[c])' <=> Unlisted(AccountOf[c]),
           \/ Old(c)
           \/ AccountOf[c] \in DOMAIN listing' => calls'[c].seq > listing'[AccountOf[c]],
           c \in DOMAIN calls' => calls'[c].seq \in Nat,
           \A acc \in DOMAIN listing' : listing'[acc] \in Nat
    PROVE  Spared(c)'
<1> DEFINE acc == AccountOf[c]
<1> SUFFICES ASSUME c \in DOMAIN calls', NEW i \in 1..Len(toUi'), Latest(acc, i)',
                    calls'[c].seq <= listing'[acc], c \notin DOMAIN toUi'[i].rows
             PROVE  session'[c] = "over"
    BY DEF Spared
<1>1. toUi'[i] = toUi[i + 1] /\ i + 1 \in 1..Len(toUi)
      BY Shorter DEF Wired
<1>2. Latest(acc, i + 1)
      BY LatestTaken
<1>3. acc \in DOMAIN listing /\ acc \in DOMAIN listing'
      BY <1>2 DEF Latest, Awaited
<1>4. Old(c)
      BY <1>3
<1> QED BY <1>1, <1>2, <1>3, <1>4 DEF Old, Spared

\* Where no list of its account counts, a row is spared; with nothing under way the
\* words are in order.
LEMMA NoList ==
    ASSUME NEW c \in Calls, ~Unlisted(AccountOf[c])' \/ ListsOf(toUi, AccountOf[c])' = {}
    PROVE  Spared(c)'
BY DEF Spared, Latest

LEMMA EmptyWire ==
    ASSUME NEW c \in Calls, toUi' = <<>>
    PROVE  Words(c)' /\ Spared(c)'
<1>1. Len(toUi') = 0
      OBVIOUS
<1> QED BY <1>1 DEF Words, Spared

\* The orders and the lists that are asked for, as they are sent and taken.
LEMMA OrdersSent ==
    ASSUME Wired, NEW c \in Calls, NEW g \in TackyFrames, toTacky' = toTacky \o <<g>>
    PROVE  /\ TornBy(Len(toTacky) + 1, c) \/ Tears(g, c) => TornBy(Len(toTacky) + 1, c)'
           /\ ListsTooLate(c) /\ (g.kind = "list" /\ g.acc = AccountOf[c]
                                     => TornBy(Len(toTacky) + 1, c)) => ListsTooLate(c)'
           /\ \A acc : Unlisted(acc)' <=> Unlisted(acc) /\ ~(g.kind = "list" /\ g.acc = acc)
<1> DEFINE n == Len(toTacky)
<1>1. /\ n \in Nat /\ Len(toTacky') = n + 1
      /\ \A i \in 1..n : toTacky'[i] = toTacky[i]
      /\ toTacky'[n + 1] = g
      BY Longer DEF Wired
<1>2. TornBy(n + 1, c) \/ Tears(g, c) => TornBy(Len(toTacky) + 1, c)'
      BY <1>1 DEF TornBy
<1>3. \A j : TornBy(j, c) => TornBy(j, c)'
      BY <1>1 DEF TornBy
<1>4. \A acc : /\ \A j \in ListsOf(toTacky', acc) :
                     j \in ListsOf(toTacky, acc) \/ (j = n + 1 /\ g.kind = "list" /\ g.acc = acc)
               /\ \A j \in ListsOf(toTacky, acc) : j \in ListsOf(toTacky', acc)
               /\ g.kind = "list" /\ g.acc = acc => n + 1 \in ListsOf(toTacky', acc)
      BY <1>1 DEF ListsOf
<1>5. ListsTooLate(c) /\ (g.kind = "list" /\ g.acc = AccountOf[c] => TornBy(n + 1, c))
         => ListsTooLate(c)'
      BY <1>3, <1>4 DEF ListsTooLate
<1>6. \A acc : Unlisted(acc)' <=> Unlisted(acc) /\ ~(g.kind = "list" /\ g.acc = acc)
      BY <1>4 DEF Unlisted
<1> QED BY <1>2, <1>5, <1>6

LEMMA OrdersTaken ==
    ASSUME Wired, NEW c \in Calls, toTacky # <<>>, toTacky' = Tail(toTacky)
    PROVE  /\ TornBy(Len(toTacky) + 1, c) => Tears(Head(toTacky), c) \/ TornBy(Len(toTacky) + 1, c)'
           /\ ListsTooLate(c) =>
                 /\ Tears(Head(toTacky), c) \/ ListsTooLate(c)'
                 /\ ~(Head(toTacky).kind = "list" /\ Head(toTacky).acc = AccountOf[c])
           /\ \A acc : IF Head(toTacky).kind = "list" /\ Head(toTacky).acc = acc
                       THEN ~Unlisted(acc) ELSE Unlisted(acc)' <=> Unlisted(acc)
<1> DEFINE n == Len(toTacky)
<1>1. /\ Len(toTacky') = n - 1 /\ n \in Nat \ {0} /\ Head(toTacky) = toTacky[1]
      /\ \A i \in 1..Len(toTacky') : toTacky'[i] = toTacky[i + 1] /\ i + 1 \in 2..n
      /\ \A i \in 2..n : i - 1 \in 1..Len(toTacky') /\ toTacky'[i - 1] = toTacky[i]
      /\ 1 \in 1..n
      BY Shorter DEF Wired
<1>2. ASSUME NEW j \in 1..(n + 1), TornBy(j, c), ~Tears(Head(toTacky), c)
      PROVE  TornBy(j - 1, c)'
      <2>1. PICK i \in 1..n : i < j /\ Tears(toTacky[i], c)
            BY <1>2 DEF TornBy
      <2>2. i \in 2..n /\ i - 1 < j - 1
            BY <1>1, <1>2, <2>1
      <2>3. i - 1 \in 1..Len(toTacky') /\ Tears(toTacky'[i - 1], c)
            BY <1>1, <2>1, <2>2
      <2> QED BY <2>2, <2>3 DEF TornBy
<1>3. TornBy(n + 1, c) => Tears(Head(toTacky), c) \/ TornBy(Len(toTacky) + 1, c)'
      <2>1. n + 1 \in 1..(n + 1) /\ (n + 1) - 1 = n /\ n = Len(toTacky') + 1
            BY <1>1
      <2>2. TornBy(n + 1, c) => Tears(Head(toTacky), c)
               \/ \E i \in 1..Len(toTacky') : i < n /\ Tears(toTacky'[i], c)
            BY <1>2, <2>1 DEF TornBy
      <2> QED BY <2>1, <2>2 DEF TornBy
<1>4. \A acc : /\ \A j \in ListsOf(toTacky', acc) :
                     j \in 1..Len(toTacky') /\ j + 1 \in ListsOf(toTacky, acc)
               /\ \A j \in ListsOf(toTacky, acc) :
                     \/ j = 1 /\ Head(toTacky).kind = "list" /\ Head(toTacky).acc = acc
                     \/ j - 1 \in ListsOf(toTacky', acc)
               /\ Head(toTacky).kind = "list" /\ Head(toTacky).acc = acc
                     => 1 \in ListsOf(toTacky, acc)
      <2>1. \A acc : /\ \A j \in ListsOf(toTacky', acc) :
                           j \in 1..Len(toTacky') /\ j + 1 \in ListsOf(toTacky, acc)
                     /\ Head(toTacky).kind = "list" /\ Head(toTacky).acc = acc
                           => 1 \in ListsOf(toTacky, acc)
            BY <1>1 DEF ListsOf
      <2>2. ASSUME NEW acc, NEW j \in ListsOf(toTacky, acc)
            PROVE  \/ j = 1 /\ Head(toTacky).kind = "list" /\ Head(toTacky).acc = acc
                   \/ j - 1 \in ListsOf(toTacky', acc)
            <3>1. j \in 1..n /\ (j # 1 => j \in 2..n)
                  BY <1>1 DEF ListsOf
            <3> QED BY <1>1, <3>1 DEF ListsOf
      <2> QED BY <2>1, <2>2
<1>5. ASSUME ListsTooLate(c)
      PROVE  /\ Tears(Head(toTacky), c) \/ ListsTooLate(c)'
             /\ ~(Head(toTacky).kind = "list" /\ Head(toTacky).acc = AccountOf[c])
      <2>1. ASSUME ~Tears(Head(toTacky), c), NEW j \in ListsOf(toTacky', AccountOf[c])
            PROVE  TornBy(j, c)'
            <3>1. TornBy(j + 1, c) /\ j + 1 \in 1..(n + 1) /\ (j + 1) - 1 = j
                  BY <1>1, <1>4, <1>5 DEF ListsTooLate
            <3> QED BY <1>2, <2>1, <3>1
      <2>2. ~TornBy(1, c)
            BY <1>1 DEF TornBy
      <2> QED BY <1>4, <1>5, <2>1, <2>2 DEF ListsTooLate
<1>6. \A acc : IF Head(toTacky).kind = "list" /\ Head(toTacky).acc = acc
               THEN ~Unlisted(acc) ELSE Unlisted(acc)' <=> Unlisted(acc)
      BY <1>4 DEF Unlisted
<1> QED BY <1>3, <1>5, <1>6

LEMMA OrdersStay ==
    ASSUME NEW c \in Calls, toTacky' = toTacky
    PROVE  /\ TornBy(Len(toTacky) + 1, c) => TornBy(Len(toTacky) + 1, c)'
           /\ ListsTooLate(c) => ListsTooLate(c)'
           /\ \A acc : Unlisted(acc)' <=> Unlisted(acc)
BY DEF TornBy, ListsTooLate, Unlisted

\* No list names the call, as lists are sent and taken.
LEMMA UnnamedKept ==
    ASSUME Wired, NEW c \in Calls, Unnamed(c),
           \/ toUi' = toUi
           \/ toUi # <<>> /\ toUi' = Tail(toUi)
           \/ \E f \in UiFrames : toUi' = toUi \o <<f>> /\ ~Names(f, c)
    PROVE  Unnamed(c)'
<1>1. CASE toUi' = toUi
      BY <1>1 DEF Unnamed
<1>2. CASE toUi # <<>> /\ toUi' = Tail(toUi)
      <2>1. \A i \in 1..Len(toUi') : toUi'[i] = toUi[i + 1] /\ i + 1 \in 1..Len(toUi)
            BY <1>2, Shorter DEF Wired
      <2> QED BY <2>1 DEF Unnamed
<1>3. ASSUME NEW f \in UiFrames, toUi' = toUi \o <<f>>, ~Names(f, c)
      PROVE  Unnamed(c)'
      <2>1. /\ Len(toUi) \in Nat /\ Len(toUi') = Len(toUi) + 1
            /\ \A i \in 1..Len(toUi) : toUi'[i] = toUi[i]
            /\ toUi'[Len(toUi) + 1] = f
            BY <1>3, Longer DEF Wired
      <2>2. \A i \in 1..Len(toUi') : i \in 1..Len(toUi) \/ i = Len(toUi) + 1
            BY <2>1
      <2> QED BY <1>3, <2>1, <2>2 DEF Unnamed
<1> QED BY <1>1, <1>2, <1>3

-----------------------------------------------------------------------------
(* The rows, as events and lists change them.                               *)

LEMMA StateSet ==
    ASSUME NEW rs, \A d \in DOMAIN rs : rs[d] \in Call, NEW c, NEW s \in States
    PROVE  /\ DOMAIN setState(rs, c, s) = DOMAIN rs
           /\ \A d \in DOMAIN rs : d # c => setState(rs, c, s)[d] = rs[d]
           /\ c \in DOMAIN rs =>
                 /\ setState(rs, c, s)[c] \in Call
                 /\ setState(rs, c, s)[c].seq = rs[c].seq
                 /\ setState(rs, c, s)[c].verified = rs[c].verified
                 /\ setState(rs, c, s)[c].state =
                       IF isTerminal(rs[c].state) /\ ~isTerminal(s) THEN rs[c].state ELSE s
<1> DEFINE new == [rs EXCEPT ![c].state = s]
<1>1. /\ DOMAIN new = DOMAIN rs
      /\ \A d \in DOMAIN rs : d # c => new[d] = rs[d]
      OBVIOUS
<1>2. ASSUME c \in DOMAIN rs
      PROVE  /\ new[c] \in Call /\ new[c].seq = rs[c].seq /\ new[c].verified = rs[c].verified
             /\ new[c].state = s
      <2>1. new[c] = [rs[c] EXCEPT !.state = s] /\ rs[c] \in Call
            BY <1>2
      <2> HIDE DEF new
      <2> QED BY <2>1 DEF Call
<1> HIDE DEF new
<1>3. setState(rs, c, s) =
         IF c \notin DOMAIN rs \/ (isTerminal(rs[c].state) /\ ~isTerminal(s)) THEN rs ELSE new
      BY DEF setState, new
<1> QED BY <1>1, <1>2, <1>3

\* What an event does to the row it is about: the state it comes to, and its trust.
StateAfter(e, s) ==
    CASE e.name = "Ringing" -> IF s = "calling" THEN "ringing" ELSE s
      [] e.name = "Active" -> IF isTerminal(s) THEN s ELSE "active"
      [] e.name = "Ended" -> "ended"
      [] e.name = "Failed" -> "failed"
      [] OTHER -> s

LEMMA EventRows ==
    ASSUME TypeOK, NEW e \in Events,
           calls' = handleEvent([calls |-> calls, seq |-> mseq], e).calls,
           mseq' = handleEvent([calls |-> calls, seq |-> mseq], e).seq
    PROVE  IF e.name \in {"Incoming", "Outgoing"} /\ e.call \notin DOMAIN calls
           THEN /\ DOMAIN calls' = DOMAIN calls \cup {e.call} /\ mseq' = mseq + 1
                /\ \A c \in DOMAIN calls : calls'[c] = calls[c]
                /\ calls'[e.call] = NewCall(IF e.name = "Incoming" THEN "incoming" ELSE "calling",
                                            FALSE, FALSE, mseq + 1)
           ELSE /\ DOMAIN calls' = DOMAIN calls /\ mseq' = mseq
                /\ \A c \in DOMAIN calls : c # e.call => calls'[c] = calls[c]
                /\ e.call \in DOMAIN calls =>
                      /\ calls'[e.call] \in Call
                      /\ calls'[e.call].seq = calls[e.call].seq
                      /\ calls'[e.call].state = StateAfter(e, calls[e.call].state)
                      /\ calls'[e.call].verified =
                            IF e.name = "Verified" THEN e.flag ELSE calls[e.call].verified
<1> DEFINE c == e.call
           m == [calls |-> calls, seq |-> mseq]
<1>1. /\ m.calls = calls /\ m.seq = mseq
      /\ \A new : [m EXCEPT !.calls = new].calls = new /\ [m EXCEPT !.calls = new].seq = mseq
      OBVIOUS
<1>2. /\ e.name \in EventNames /\ e.flag \in BOOLEAN /\ c \in Calls
      /\ \A d \in DOMAIN calls : calls[d] \in Call
      /\ {"ended", "failed", "active", "ringing"} \subseteq States
      BY DEF Events, TypeOK, States
<1> HIDE DEF m, c
<1>3. CASE e.name \in {"Incoming", "Outgoing"}
      <2> DEFINE s == IF e.name = "Incoming" THEN "incoming" ELSE "calling"
      <2>1. handleEvent(m, e) = insertCall(m, c, s, FALSE, FALSE)
            BY <1>3 DEF handleEvent, c
      <2> HIDE DEF s
      <2>2. CASE c \in DOMAIN calls
            <3>1. calls' = calls /\ mseq' = mseq
                  BY <1>1, <2>1, <2>2 DEF insertCall, m
            <3> QED BY <1>2, <1>3, <2>2, <3>1 DEF StateAfter, c
      <2>3. CASE c \notin DOMAIN calls
            <3>1. /\ calls' = With(calls, c, NewCall(s, FALSE, FALSE, mseq + 1))
                  /\ mseq' = mseq + 1
                  <4>1. handleEvent(m, e) =
                           [calls |-> With(m.calls, c, NewCall(s, FALSE, FALSE, m.seq + 1)),
                            seq |-> m.seq + 1]
                        BY <1>1, <2>1, <2>3 DEF insertCall
                  <4>2. /\ handleEvent(m, e).calls = With(m.calls, c, NewCall(s, FALSE, FALSE, m.seq + 1))
                        /\ handleEvent(m, e).seq = m.seq + 1
                        BY <4>1
                  <4>3. calls' = handleEvent(m, e).calls /\ mseq' = handleEvent(m, e).seq
                        BY DEF m
                  <4> QED BY <1>1, <4>2, <4>3
            <3>2. /\ DOMAIN calls' = DOMAIN calls \cup {c}
                  /\ \A d \in DOMAIN calls : calls'[d] = calls[d]
                  /\ calls'[c] = NewCall(s, FALSE, FALSE, mseq + 1)
                  BY <2>3, <3>1 DEF With
            <3> QED BY <1>3, <2>3, <3>1, <3>2 DEF c, s
      <2> QED BY <2>2, <2>3
<1>4. CASE e.name = "Ringing"
      <2> DEFINE new == IF c \in DOMAIN calls /\ calls[c].state = "calling"
                        THEN setState(calls, c, "ringing") ELSE calls
      <2>1. handleEvent(m, e) = [m EXCEPT !.calls = new]
            BY <1>1, <1>4 DEF handleEvent, c
      <2>2. calls' = new /\ mseq' = mseq
            BY <1>1, <2>1 DEF m
      <2> QED BY <1>2, <1>4, <2>2, StateSet DEF StateAfter, isTerminal, c
<1>5. CASE e.name = "Active"
      <2> DEFINE timed == IF c \in DOMAIN calls THEN [calls EXCEPT ![c].since = TRUE] ELSE calls
                 new == setState(timed, c, "active")
      <2>1. handleEvent(m, e) = [m EXCEPT !.calls = new]
            BY <1>1, <1>5 DEF handleEvent, c
      <2>2. calls' = new /\ mseq' = mseq
            BY <1>1, <2>1 DEF m
      <2>3. /\ DOMAIN timed = DOMAIN calls
            /\ \A d \in DOMAIN calls : d # c => timed[d] = calls[d]
            OBVIOUS
      <2>4. ASSUME c \in DOMAIN calls
            PROVE  /\ timed[c] \in Call /\ timed[c].seq = calls[c].seq
                   /\ timed[c].verified = calls[c].verified /\ timed[c].state = calls[c].state
            <3>1. timed[c] = [calls[c] EXCEPT !.since = TRUE] /\ calls[c] \in Call
                  BY <1>2, <2>4
            <3> HIDE DEF timed
            <3> QED BY <3>1 DEF Call
      <2> HIDE DEF timed
      <2>5. \A d \in DOMAIN timed : timed[d] \in Call
            BY <1>2, <2>3, <2>4
      <2>6. /\ DOMAIN new = DOMAIN timed
            /\ \A d \in DOMAIN timed : d # c => new[d] = timed[d]
            /\ c \in DOMAIN timed =>
                 /\ new[c] \in Call /\ new[c].seq = timed[c].seq
                 /\ new[c].verified = timed[c].verified
                 /\ new[c].state = IF isTerminal(timed[c].state) THEN timed[c].state ELSE "active"
            BY <1>2, <2>5, StateSet DEF isTerminal
      <2> HIDE DEF new
      <2> QED BY <1>5, <2>2, <2>3, <2>4, <2>6 DEF StateAfter, c
<1>6. CASE e.name \in {"Ended", "Failed"}
      <2> DEFINE s == IF e.name = "Ended" THEN "ended" ELSE "failed"
      <2>1. handleEvent(m, e) = [m EXCEPT !.calls = setState(calls, c, s)]
            BY <1>1, <1>6 DEF handleEvent, c
      <2>2. calls' = setState(calls, c, s) /\ mseq' = mseq
            BY <1>1, <2>1 DEF m
      <2>3. s \in States /\ isTerminal(s)
            BY <1>2, <1>6 DEF isTerminal
      <2> HIDE DEF s
      <2>4. StateAfter(e, calls[c].state) = s
            BY <1>6 DEF StateAfter, s
      <2>5. /\ DOMAIN calls' = DOMAIN calls
            /\ \A d \in DOMAIN calls : d # c => calls'[d] = calls[d]
            /\ c \in DOMAIN calls =>
                  /\ calls'[c] \in Call /\ calls'[c].seq = calls[c].seq
                  /\ calls'[c].verified = calls[c].verified /\ calls'[c].state = s
            BY <1>2, <2>2, <2>3, StateSet
      <2> QED BY <1>6, <2>2, <2>4, <2>5 DEF c
<1>7. CASE e.name = "Verified"
      <2>1. handleEvent(m, e) = [m EXCEPT !.calls = setVerification(calls, c, e.flag)]
            BY <1>1, <1>7 DEF handleEvent, c
      <2>2. calls' = setVerification(calls, c, e.flag) /\ mseq' = mseq
            BY <1>1, <2>1 DEF m
      <2>3. CASE c \in DOMAIN calls
            <3>1. calls' = [calls EXCEPT ![c].verified = e.flag]
                  BY <2>2, <2>3 DEF setVerification
            <3>2. /\ DOMAIN calls' = DOMAIN calls
                  /\ \A d \in DOMAIN calls : d # c => calls'[d] = calls[d]
                  /\ calls'[c] = [calls[c] EXCEPT !.verified = e.flag] /\ calls[c] \in Call
                  BY <1>2, <2>3, <3>1
            <3>3. /\ calls'[c] \in Call /\ calls'[c].seq = calls[c].seq
                  /\ calls'[c].state = calls[c].state /\ calls'[c].verified = e.flag
                  BY <1>2, <3>2 DEF Call
            <3> QED BY <1>7, <2>2, <2>3, <3>2, <3>3 DEF StateAfter, c
      <2>4. CASE c \notin DOMAIN calls
            BY <1>7, <2>2, <2>4 DEF setVerification, c
      <2> QED BY <2>3, <2>4
<1> QED BY <1>2, <1>3, <1>4, <1>5, <1>6, <1>7 DEF EventNames

LEMMA Numbered ==
    ASSUME NEW S, IsFiniteSet(S)
    PROVE  /\ Cardinality(S) \in Nat
           /\ Order(S) \in [S -> 1..Cardinality(S)]
           /\ \A c, d \in S : Order(S)[c] = Order(S)[d] => c = d
<1>1. Cardinality(S) \in Nat /\ ExistsBijection(1..Cardinality(S), S)
      BY FS_CardinalityType
<1>2. PICK f \in [S -> 1..Cardinality(S)] : IsInjective(f)
      <2>1. PICK f : f \in Bijection(S, 1..Cardinality(S))
            BY <1>1, Fun_ExistsBijSymmetric DEF ExistsBijection
      <2> QED BY <2>1 DEF Bijection, Injection
<1>3. Order(S) \in [S -> 1..Cardinality(S)] /\ IsInjective(Order(S))
      BY <1>2 DEF Order
<1> QED BY <1>1, <1>3 DEF IsInjective

LEMMA SnapshotWords ==
    /\ \A raw \in Live : snapshotState(raw) \in States /\ ~isTerminal(snapshotState(raw))
    /\ \A raw : Since(raw) \in BOOLEAN
    /\ \A s \in States : progress(s) \in 0..4 /\ (progress(s) = 4 <=> isTerminal(s))
BY DEF Live, States, snapshotState, Since, isTerminal, progress

\* Whether a list, asked for when m_seq was asOf, ends a row.
Ends1(c, acc, list, asOf) ==
    AccountOf[c] = acc /\ calls[c].seq <= asOf /\ c \notin Known(list) /\ ~isTerminal(calls[c].state)

LEMMA SnapshotRows ==
    ASSUME TypeOK, NEW list, DOMAIN list \subseteq Calls, \A c \in DOMAIN list : list[c] \in Snapshot,
           NEW hidden, NEW acc, NEW asOf \in 0..mseq,
           calls' = applySnapshot([calls |-> calls, seq |-> mseq], hidden, acc, list, asOf).calls,
           mseq' = applySnapshot([calls |-> calls, seq |-> mseq], hidden, acc, list, asOf).seq
    PROVE  /\ DOMAIN calls' = DOMAIN calls \cup Told(list, hidden)
           /\ mseq' \in Nat /\ mseq <= mseq'
           /\ \A c \in Told(list, hidden) \ DOMAIN calls :
                 /\ calls'[c] \in Call /\ calls'[c].seq \in (mseq + 1)..mseq'
                 /\ calls'[c].state = snapshotState(list[c].raw)
                 /\ calls'[c].verified = list[c].verified
           /\ \A c, d \in Told(list, hidden) \ DOMAIN calls : calls'[c].seq = calls'[d].seq => c = d
           /\ \A c \in Told(list, hidden) \cap DOMAIN calls :
                 /\ calls'[c] \in Call /\ calls'[c].seq = calls[c].seq
                 /\ calls'[c].state =
                       IF isTerminal(calls[c].state)
                          \/ progress(snapshotState(list[c].raw)) <= progress(calls[c].state)
                       THEN calls[c].state ELSE snapshotState(list[c].raw)
                 /\ calls'[c].verified = list[c].verified
           /\ \A c \in DOMAIN calls \ Told(list, hidden) :
                 /\ calls'[c] \in Call /\ calls'[c].seq = calls[c].seq
                 /\ calls'[c].state = IF Ends1(c, acc, list, asOf) THEN "ended" ELSE calls[c].state
                 /\ calls'[c].verified = calls[c].verified
<1> DEFINE m == [calls |-> calls, seq |-> mseq]
           told == Told(list, hidden)
           new == told \ DOMAIN calls
           rows == [c \in DOMAIN calls \cup new |->
                      CASE c \in new -> NewCall(snapshotState(list[c].raw), Since(list[c].raw),
                                                list[c].verified, mseq + Order(new)[c])
                        [] c \in told \ new -> Reconcile(calls[c], list[c])
                        [] OTHER -> calls[c]]
           gone == Gone(rows, acc, list, asOf)
<1>1. /\ ApplyRows(list, hidden, m).calls = rows
      /\ ApplyRows(list, hidden, m).seq = mseq + Cardinality(new)
      <2>1. m.calls = calls /\ m.seq = mseq
            OBVIOUS
      <2> HIDE DEF m
      <2>2. ApplyRows(list, hidden, m) = [calls |-> rows, seq |-> mseq + Cardinality(new)]
            BY <2>1 DEF ApplyRows
      <2> HIDE DEF rows, new
      <2> QED BY <2>2
<1>2. calls' = EndAll(rows, gone) /\ mseq' = mseq + Cardinality(new)
      <2> HIDE DEF m
      <2>1. applySnapshot(m, hidden, acc, list, asOf) =
               [ApplyRows(list, hidden, m) EXCEPT
                   !.calls = EndAll(ApplyRows(list, hidden, m).calls,
                                    Gone(ApplyRows(list, hidden, m).calls, acc, list, asOf))]
            BY DEF applySnapshot
      <2>2. ApplyRows(list, hidden, m) = [calls |-> rows, seq |-> mseq + Cardinality(new)]
            <3>1. m.calls = calls /\ m.seq = mseq
                  BY DEF m
            <3> QED BY <3>1 DEF ApplyRows
      <2> HIDE DEF rows, new
      <2>3. \A x, y, z : /\ [[calls |-> x, seq |-> y] EXCEPT !.calls = z].calls = z
                         /\ [[calls |-> x, seq |-> y] EXCEPT !.calls = z].seq = y
            OBVIOUS
      <2>4. /\ applySnapshot(m, hidden, acc, list, asOf).calls = EndAll(rows, gone)
            /\ applySnapshot(m, hidden, acc, list, asOf).seq = mseq + Cardinality(new)
            BY <1>1, <2>1, <2>2, <2>3
      <2> QED BY <2>4 DEF m
<1>3. /\ new \subseteq Calls /\ told \subseteq DOMAIN list /\ told \subseteq Known(list)
      /\ \A c \in DOMAIN list : list[c].raw \in Live /\ list[c].verified \in BOOLEAN
      /\ \A c \in DOMAIN calls : calls[c] \in Call /\ calls[c].seq \in Nat
      /\ mseq \in Nat /\ asOf \in Nat /\ asOf <= mseq
      <2>1. told \subseteq DOMAIN list /\ told \subseteq Known(list)
            BY DEF Told, Known
      <2>2. \A c \in DOMAIN list : list[c].raw \in Live /\ list[c].verified \in BOOLEAN
            BY DEF Snapshot
      <2>3. \A c \in DOMAIN calls : calls[c] \in Call /\ calls[c].seq \in Nat
            BY DEF TypeOK, Call
      <2> QED BY <2>1, <2>2, <2>3 DEF TypeOK
<1>4. /\ Cardinality(new) \in Nat
      /\ \A c \in new : Order(new)[c] \in 1..Cardinality(new)
      /\ \A c, d \in new : Order(new)[c] = Order(new)[d] => c = d
      <2>1. IsFiniteSet(new)
            BY <1>3, FS_Subset, CallsAssumption
      <2> HIDE DEF new
      <2> QED BY <2>1, Numbered
<1>5. /\ DOMAIN rows = DOMAIN calls \cup new
      /\ \A c \in new : rows[c] = NewCall(snapshotState(list[c].raw), Since(list[c].raw),
                                          list[c].verified, mseq + Order(new)[c])
      /\ \A c \in told \ new : rows[c] = Reconcile(calls[c], list[c])
      /\ \A c \in DOMAIN calls \ told : rows[c] = calls[c]
      OBVIOUS
<1>6. /\ DOMAIN calls' = DOMAIN rows
      /\ \A c \in DOMAIN rows : c \notin gone => calls'[c] = rows[c]
      /\ \A c \in gone : calls'[c] = [rows[c] EXCEPT !.state = "ended"]
      BY <1>2 DEF EndAll, Gone
<1>7. \A c \in DOMAIN rows : c \in gone <=> /\ AccountOf[c] = acc /\ rows[c].seq <= asOf
                                           /\ c \notin Known(list) /\ ~isTerminal(rows[c].state)
      BY DEF Gone
<1>8. \A c \in told : c \notin gone
      BY <1>3 DEF Gone
<1> HIDE DEF rows, gone, new, told
<1>9. ASSUME NEW c \in new
      PROVE  /\ calls'[c] \in Call /\ calls'[c].seq = mseq + Order(new)[c]
             /\ calls'[c].seq \in (mseq + 1)..mseq'
             /\ calls'[c].state = snapshotState(list[c].raw)
             /\ calls'[c].verified = list[c].verified
      <2>1. c \in told /\ c \in DOMAIN list
            BY <1>3 DEF new
      <2>2. calls'[c] = NewCall(snapshotState(list[c].raw), Since(list[c].raw),
                                list[c].verified, mseq + Order(new)[c])
            BY <1>5, <1>6, <1>8, <2>1
      <2>3. /\ snapshotState(list[c].raw) \in States /\ Since(list[c].raw) \in BOOLEAN
            /\ list[c].verified \in BOOLEAN /\ mseq + Order(new)[c] \in Nat
            BY <1>3, <1>4, <2>1, SnapshotWords
      <2>4. mseq + Order(new)[c] \in (mseq + 1)..mseq'
            BY <1>2, <1>3, <1>4
      <2> QED BY <2>2, <2>3, <2>4 DEF NewCall, Call
<1>10. \A c, d \in new : calls'[c].seq = calls'[d].seq => c = d
      BY <1>3, <1>4, <1>9
<1>11. ASSUME NEW c \in told \ new
       PROVE  /\ calls'[c] \in Call /\ calls'[c].seq = calls[c].seq
              /\ calls'[c].state =
                    IF isTerminal(calls[c].state)
                       \/ progress(snapshotState(list[c].raw)) <= progress(calls[c].state)
                    THEN calls[c].state ELSE snapshotState(list[c].raw)
              /\ calls'[c].verified = list[c].verified
      <2>1. c \in told /\ c \in DOMAIN list /\ c \in DOMAIN calls
            BY <1>3 DEF new
      <2>2. calls'[c] = Reconcile(calls[c], list[c])
            BY <1>5, <1>6, <1>8, <2>1
      <2>3. /\ snapshotState(list[c].raw) \in States /\ list[c].verified \in BOOLEAN
            /\ calls[c] \in Call
            BY <1>3, <2>1, SnapshotWords
      <2> QED BY <2>2, <2>3 DEF Reconcile, Call
<1>12. ASSUME NEW c \in DOMAIN calls \ told
       PROVE  /\ calls'[c] \in Call /\ calls'[c].seq = calls[c].seq
              /\ calls'[c].state = IF Ends1(c, acc, list, asOf) THEN "ended" ELSE calls[c].state
              /\ calls'[c].verified = calls[c].verified
      <2>1. rows[c] = calls[c] /\ c \in DOMAIN rows /\ calls[c] \in Call
            BY <1>3, <1>5
      <2>2. c \in gone <=> Ends1(c, acc, list, asOf)
            BY <1>7, <2>1 DEF Ends1
      <2>3. CASE c \in gone
            <3>1. calls'[c] = [calls[c] EXCEPT !.state = "ended"] /\ "ended" \in States
                  BY <1>6, <2>1, <2>3 DEF States
            <3> QED BY <2>1, <2>2, <2>3, <3>1 DEF Call
      <2>4. CASE c \notin gone
            BY <1>6, <2>1, <2>2, <2>4
      <2> QED BY <2>3, <2>4
<1>13. mseq' \in Nat /\ mseq <= mseq'
       BY <1>2, <1>3, <1>4
<1>14. DOMAIN calls' = DOMAIN calls \cup told
       BY <1>5, <1>6 DEF new
<1> QED BY <1>9, <1>10, <1>11, <1>12, <1>13, <1>14 DEF new, told

-----------------------------------------------------------------------------
(* What tacky does of a call, of its own accord or as it is told.           *)

EventOf(name, c, flag) == [kind |-> "event", name |-> name, call |-> c, flag |-> flag]
Sends(f) == toUi' = Push(toUi, up, <<f>>)
Announced(c, s, name) ==
    session' = [session EXCEPT ![c] = s] /\ trust' = trust /\ Sends(EventOf(name, c, FALSE))
Unannounced(c, s) == session' = [session EXCEPT ![c] = s] /\ trust' = trust /\ toUi' = toUi

Deed(c) ==
    \/ session[c] = "none" /\ c \notin Placed \cup Legs /\ Announced(c, "ringing", "Incoming")
    \/ session[c] = "none" /\ c \in Placed /\ Announced(c, "proposed", "Outgoing")
    \/ session[c] = "none" /\ c \in Legs /\ Unannounced(c, "connecting")
    \/ session[c] = "proposed" /\ Announced(c, "alerted", "Ringing")
    \/ session[c] \in {"proposed", "alerted", "ringing"} /\ Unannounced(c, "connecting")
    \/ session[c] \in {"connecting", "lost"} /\ c \notin Legs /\ Announced(c, "active", "Active")
    \/ session[c] \in {"connecting", "lost"} /\ c \in Legs /\ Unannounced(c, "active")
    \/ session[c] = "active" /\ Unannounced(c, "lost")
    \/ session[c] \in Live /\ \E name \in {"Ended", "Failed"} : Announced(c, "over", name)
    \/ session[c] \in Live /\ c \in Legs /\ Unannounced(c, "over")
    \/ /\ session[c] \in Live /\ session' = session /\ trust' = [trust EXCEPT ![c] = ~@]
       /\ Sends(EventOf("Verified", c, ~trust[c]))

\* Frames are sent while the link is up.
LEMMA SendsWhat ==
    ASSUME Wired, NEW f, Sends(f)
    PROVE  (up /\ toUi' = toUi \o <<f>>) \/ (~up /\ toUi' = toUi /\ toUi = <<>>)
BY DEF Sends, Push, Wired

LEMMA OwnDeeds ==
    ASSUME NEW d \in Calls, TackyMoves(d)
    PROVE  Deed(d) /\ UNCHANGED <<ui, up, toTacky, spent, online>>
<1>1. UNCHANGED <<ui, up, toTacky, spent, online>>
      BY DEF TackyMoves, SessionMoves, tacky
<1>2. Deed(d)
      BY DEF TackyMoves, SessionMoves, Deed, Announced, Unannounced, Sends, EventOf, Emit
<1> QED BY <1>1, <1>2

\* An order carried out, a list that is asked for, the state of an account, and an
\* order that comes too late.
Obeys(g) ==
    /\ g.kind \in {"start", "accept", "reject", "hangup"} /\ Deed(g.call)
    /\ g.kind \in {"reject", "hangup"} => session'[g.call] = "over"
TellsList(g) ==
    /\ g.kind = "list" /\ UNCHANGED <<session, trust>>
    /\ toUi' = toUi \o <<[kind |-> "list", acc |-> g.acc, rows |-> Listed(g.acc)]>>
TellsState(g) ==
    /\ g.kind = "pull" /\ UNCHANGED <<session, trust>>
    /\ toUi' = IF g.acc \in online THEN toUi \o <<[kind |-> "connected", acc |-> g.acc]>> ELSE toUi
Ignores(g) ==
    /\ g.kind \in {"start", "accept", "reject", "hangup"} /\ UNCHANGED <<session, trust, toUi>>
    /\ g.kind \in {"reject", "hangup"} => session[g.call] \notin Live

LEMMA ToldDeeds ==
    ASSUME TypeOK, Wired, TackyTakes
    PROVE  /\ toTacky # <<>> /\ toTacky' = Tail(toTacky) /\ Head(toTacky) \in TackyFrames
           /\ UNCHANGED <<ui, up, spent, online>>
           /\ \/ Obeys(Head(toTacky)) \/ TellsList(Head(toTacky))
              \/ TellsState(Head(toTacky)) \/ Ignores(Head(toTacky))
<1> DEFINE g == Head(toTacky)
<1>1. /\ toTacky # <<>> /\ toTacky' = Tail(toTacky)
      /\ UNCHANGED <<ui, up, spent>>
      BY DEF TackyTakes
<1>2. g \in TackyFrames
      BY <1>1, Shorter DEF Wired
<1>3. /\ g.kind = "start" => g.call \in Placed
      /\ g.kind \in {"start", "accept", "reject", "hangup"} => g.call \in Calls
      /\ g.kind \in {"start", "accept", "reject", "hangup", "list", "pull"}
      BY <1>2, TackyFields
<1> HIDE DEF g
<1>4. \/ /\ g.kind = "start" /\ session[g.call] = "none" /\ AccountOf[g.call] \in online
         /\ SessionMoves(g.call, "proposed") /\ Emit("Outgoing", g.call, FALSE)
      \/ /\ g.kind = "accept" /\ session[g.call] = "ringing"
         /\ SessionMoves(g.call, "connecting") /\ UNCHANGED toUi
      \/ /\ g.kind \in {"reject", "hangup"} /\ session[g.call] \in Live
         /\ SessionMoves(g.call, "over") /\ Emit("Ended", g.call, FALSE)
      \/ /\ g.kind = "list"
         /\ toUi' = toUi \o <<[kind |-> "list", acc |-> g.acc, rows |-> Listed(g.acc)]>>
         /\ UNCHANGED tacky
      \/ /\ g.kind = "pull"
         /\ toUi' = IF g.acc \in online
                    THEN toUi \o <<[kind |-> "connected", acc |-> g.acc]>> ELSE toUi
         /\ UNCHANGED tacky
      \/ /\ \/ g.kind = "start"
            \/ g.kind = "accept"
            \/ g.kind \in {"reject", "hangup"} /\ session[g.call] \notin Live
         /\ UNCHANGED <<tacky, toUi>>
      BY DEF TackyTakes, g
<1>5. UNCHANGED online /\ (Obeys(g) \/ TellsList(g) \/ TellsState(g) \/ Ignores(g))
      <2>1. CASE /\ g.kind = "start" /\ session[g.call] = "none"
                 /\ SessionMoves(g.call, "proposed") /\ Emit("Outgoing", g.call, FALSE)
            BY <1>3, <2>1 DEF Obeys, Deed, Announced, SessionMoves, Emit, Sends, EventOf
      <2>2. CASE /\ g.kind = "accept" /\ session[g.call] = "ringing"
                 /\ SessionMoves(g.call, "connecting") /\ UNCHANGED toUi
            BY <1>3, <2>2 DEF Obeys, Deed, Unannounced, SessionMoves
      <2>3. CASE /\ g.kind \in {"reject", "hangup"} /\ session[g.call] \in Live
                 /\ SessionMoves(g.call, "over") /\ Emit("Ended", g.call, FALSE)
            <3>1. g.call \in Calls /\ session'[g.call] = "over"
                  BY <1>3, <2>3 DEF SessionMoves, TypeOK
            <3>2. Deed(g.call)
                  BY <2>3 DEF Deed, Announced, SessionMoves, Emit, Sends, EventOf
            <3> QED BY <2>3, <3>1, <3>2 DEF Obeys, SessionMoves
      <2>4. CASE /\ g.kind = "list"
                 /\ toUi' = toUi \o <<[kind |-> "list", acc |-> g.acc, rows |-> Listed(g.acc)]>>
                 /\ UNCHANGED tacky
            BY <2>4 DEF TellsList, tacky
      <2>5. CASE /\ g.kind = "pull"
                 /\ toUi' = IF g.acc \in online
                            THEN toUi \o <<[kind |-> "connected", acc |-> g.acc]>> ELSE toUi
                 /\ UNCHANGED tacky
            BY <2>5 DEF TellsState, tacky
      <2>6. CASE /\ \/ g.kind = "start"
                    \/ g.kind = "accept"
                    \/ g.kind \in {"reject", "hangup"} /\ session[g.call] \notin Live
                 /\ UNCHANGED <<tacky, toUi>>
            BY <2>6 DEF Ignores, tacky
      <2> QED BY <1>4, <2>1, <2>2, <2>3, <2>4, <2>5, <2>6
<1> QED BY <1>1, <1>2, <1>5 DEF g

\* What a deed comes to: the session and the trust of the one call, and a frame that
\* fits, or none.
Fresh(c) ==
    /\ session[c] = "none" => ~trust[c] /\ ~Seen(c)
    /\ session[c] = "ringing" => c \notin Placed
    /\ session[c] \in {"proposed", "alerted"} => c \in Placed

LEMMA DeedDone ==
    ASSUME TypeOK, NEW d \in Calls, Fresh(d), Deed(d)
    PROVE  /\ session' \in [Calls -> Live \cup {"none", "over"}] /\ trust' \in [Calls -> BOOLEAN]
           /\ \A c \in Calls : c # d => session'[c] = session[c] /\ trust'[c] = trust[c]
           /\ Lasts(d)
           /\ \/ toUi' = toUi /\ (session'[d] = "over" => session[d] = "over" \/ d \in Legs)
              \/ \E f \in Events : f.call = d /\ Sends(f) /\ Fitting(f, d)
<1>1. session \in [Calls -> Live \cup {"none", "over"}] /\ trust \in [Calls -> BOOLEAN]
      BY DEF TypeOK
<1>2. ASSUME NEW s \in Live \cup {"over"}, session' = [session EXCEPT ![d] = s], trust' = trust
      PROVE  /\ session' \in [Calls -> Live \cup {"none", "over"}] /\ trust' \in [Calls -> BOOLEAN]
             /\ \A c \in Calls : c # d => session'[c] = session[c] /\ trust'[c] = trust[c]
             /\ session'[d] = s
      BY <1>1, <1>2
<1>3. ASSUME NEW name \in EventNames, NEW flag \in BOOLEAN
      PROVE  /\ EventOf(name, d, flag) \in Events
             /\ EventOf(name, d, flag).kind = "event" /\ EventOf(name, d, flag).name = name
             /\ EventOf(name, d, flag).call = d
      BY DEF EventOf, Events
<1>4. \A s \in Live \cup {"over"} : s # "none"
      BY DEF Live
<1>5. CASE session[d] = "none" /\ d \notin Placed \cup Legs /\ Announced(d, "ringing", "Incoming")
      BY <1>2, <1>3, <1>5 DEF Announced, Lasts, Fitting, Fresh, About, Names, Begins, Finishes,
                              Live, EventNames
<1>6. CASE session[d] = "none" /\ d \in Placed /\ Announced(d, "proposed", "Outgoing")
      BY <1>2, <1>3, <1>6, CallsAssumption
         DEF Announced, Lasts, Fitting, Fresh, About, Names, Begins, Finishes, Live, EventNames
<1>7. CASE session[d] = "none" /\ d \in Legs /\ Unannounced(d, "connecting")
      BY <1>2, <1>7 DEF Unannounced, Lasts, Live
<1>8. CASE session[d] = "proposed" /\ Announced(d, "alerted", "Ringing")
      BY <1>2, <1>3, <1>8
         DEF Announced, Lasts, Fitting, Fresh, About, Names, Begins, Finishes, Live, EventNames
<1>9. CASE session[d] \in {"proposed", "alerted", "ringing"} /\ Unannounced(d, "connecting")
      BY <1>2, <1>9 DEF Unannounced, Lasts, Live
<1>10. CASE session[d] \in {"connecting", "lost"} /\ d \notin Legs /\ Announced(d, "active", "Active")
       BY <1>2, <1>3, <1>10
          DEF Announced, Lasts, Fitting, Fresh, About, Names, Begins, Finishes, Live, EventNames
<1>11. CASE session[d] \in {"connecting", "lost"} /\ d \in Legs /\ Unannounced(d, "active")
       BY <1>2, <1>11 DEF Unannounced, Lasts, Live
<1>12. CASE session[d] = "active" /\ Unannounced(d, "lost")
       BY <1>2, <1>12 DEF Unannounced, Lasts, Live
<1>13. CASE session[d] \in Live /\ \E name \in {"Ended", "Failed"} : Announced(d, "over", name)
       <2>1. PICK name \in {"Ended", "Failed"} : Announced(d, "over", name)
             BY <1>13
       <2> QED BY <1>2, <1>3, <2>1
               DEF Announced, Lasts, Fitting, About, Names, Begins, Finishes, EventNames
<1>14. CASE session[d] \in Live /\ d \in Legs /\ Unannounced(d, "over")
       BY <1>2, <1>14 DEF Unannounced, Lasts
<1>15. CASE /\ session[d] \in Live /\ session' = session /\ trust' = [trust EXCEPT ![d] = ~@]
            /\ Sends(EventOf("Verified", d, ~trust[d]))
       <2>1. /\ trust' \in [Calls -> BOOLEAN] /\ (~trust[d]) \in BOOLEAN
             /\ \A c \in Calls : c # d => trust'[c] = trust[c]
             <3>1. (~trust[d]) \in BOOLEAN
                   BY <1>1
             <3>2. \A v \in BOOLEAN : /\ [trust EXCEPT ![d] = v] \in [Calls -> BOOLEAN]
                                      /\ \A c \in Calls : c # d => [trust EXCEPT ![d] = v][c] = trust[c]
                   BY <1>1
             <3> QED BY <1>15, <3>1, <3>2, Zenon
       <2>2. session[d] # "none" /\ session[d] # "over"
             BY <1>15 DEF Live
       <2>3. Lasts(d)
             BY <1>15, <2>2 DEF Lasts, Fresh
       <2>4. Fitting(EventOf("Verified", d, ~trust[d]), d)
             BY <1>3, <1>15, <2>1, <2>2
                DEF Fitting, About, Names, Begins, Finishes, EventNames
       <2> QED BY <1>1, <1>3, <1>15, <2>1, <2>3, <2>4 DEF EventNames
<1> QED BY <1>5, <1>6, <1>7, <1>8, <1>9, <1>10, <1>11, <1>12, <1>13, <1>14, <1>15 DEF Deed

-----------------------------------------------------------------------------
(* Types.                                                                   *)

RowsOK ==
    /\ DOMAIN calls \subseteq Calls /\ mseq \in Nat
    /\ \A c \in DOMAIN calls : calls[c] \in Call /\ calls[c].seq \in 1..mseq
    /\ \A c, d \in DOMAIN calls : calls[c].seq = calls[d].seq => c = d
    /\ DOMAIN listing \subseteq Accounts
    /\ \A acc \in DOMAIN listing : listing[acc] \in 0..mseq
UserOK ==
    /\ dismissed \subseteq Calls /\ prompt \subseteq Calls /\ torn \subseteq Calls
    /\ dismissed \subseteq cleared /\ cleared \subseteq Calls
TackyOK ==
    /\ session \in [Calls -> Live \cup {"none", "over"}] /\ trust \in [Calls -> BOOLEAN]
    /\ online \subseteq Accounts /\ up \in BOOLEAN /\ drops \in 0..MaxDrop /\ offs \in 0..MaxOff

LEMMA TypeParts ==
    /\ TypeOK <=> RowsOK /\ UserOK /\ TackyOK
    /\ TypeOK' <=> RowsOK' /\ UserOK' /\ TackyOK'
BY DEF TypeOK, RowsOK, UserOK, TackyOK

LEMMA SameRows ==
    ASSUME RowsOK, DOMAIN calls' \subseteq DOMAIN calls, mseq' = mseq, DOMAIN listing' \subseteq DOMAIN listing,
           \A c \in DOMAIN calls' : calls'[c] \in Call /\ calls'[c].seq = calls[c].seq,
           \A acc \in DOMAIN listing' : listing'[acc] = listing[acc]
    PROVE  RowsOK'
BY DEF RowsOK

\* The event at the head, the edge, the list.
LEMMA HeadOf ==
    ASSUME Wired, toUi # <<>>
    PROVE  /\ Head(toUi) \in UiFrames /\ Head(toUi) = toUi[1] /\ 1 \in 1..Len(toUi)
           /\ Head(toUi).kind = "event" => Head(toUi) \in Events
           /\ Head(toUi).kind = "connected" => Head(toUi).acc \in Accounts
           /\ Head(toUi).kind = "list" =>
                 /\ Head(toUi).acc \in Accounts /\ DOMAIN Head(toUi).rows \subseteq Calls
                 /\ \A c \in DOMAIN Head(toUi).rows :
                       AccountOf[c] = Head(toUi).acc /\ Head(toUi).rows[c] \in Snapshot
BY Shorter, UiFields DEF Wired

\* The list that counts is handled.
ListTaken(f) ==
    /\ calls' = applySnapshot([calls |-> calls, seq |-> mseq], dismissed,
                              f.acc, f.rows, listing[f.acc]).calls
    /\ mseq' = applySnapshot([calls |-> calls, seq |-> mseq], dismissed,
                             f.acc, f.rows, listing[f.acc]).seq
    /\ listing' = [a \in DOMAIN listing \ {f.acc} |-> listing[a]]
    /\ dismissed' = {c \in dismissed : AccountOf[c] # f.acc}
    /\ f.acc \in DOMAIN listing /\ ListsOf(toUi, f.acc) = {1} /\ Unlisted(f.acc)

\* What the list that counts makes of the rows.
LEMMA ListRows ==
    ASSUME TypeOK, Wired, toUi # <<>>, Head(toUi).kind = "list", ListTaken(Head(toUi))
    PROVE  LET f == Head(toUi)
               told == Told(f.rows, dismissed)
           IN /\ DOMAIN calls' = DOMAIN calls \cup told
              /\ mseq' \in Nat /\ mseq <= mseq'
              /\ \A c \in told \ DOMAIN calls :
                    /\ calls'[c] \in Call /\ calls'[c].seq \in (mseq + 1)..mseq'
                    /\ calls'[c].state = snapshotState(f.rows[c].raw)
                    /\ calls'[c].verified = f.rows[c].verified
              /\ \A c, d \in told \ DOMAIN calls : calls'[c].seq = calls'[d].seq => c = d
              /\ \A c \in told \cap DOMAIN calls :
                    /\ calls'[c] \in Call /\ calls'[c].seq = calls[c].seq
                    /\ calls'[c].state =
                          IF isTerminal(calls[c].state)
                             \/ progress(snapshotState(f.rows[c].raw)) <= progress(calls[c].state)
                          THEN calls[c].state ELSE snapshotState(f.rows[c].raw)
                    /\ calls'[c].verified = f.rows[c].verified
              /\ \A c \in DOMAIN calls \ told :
                    /\ calls'[c] \in Call /\ calls'[c].seq = calls[c].seq
                    /\ calls'[c].state =
                          IF Ends1(c, f.acc, f.rows, listing[f.acc]) THEN "ended" ELSE calls[c].state
                    /\ calls'[c].verified = calls[c].verified
<1> DEFINE f == Head(toUi)
<1>1. /\ DOMAIN f.rows \subseteq Calls
      /\ \A c \in DOMAIN f.rows : f.rows[c] \in Snapshot
      BY HeadOf
<1>2. /\ calls' = applySnapshot([calls |-> calls, seq |-> mseq], dismissed,
                                f.acc, f.rows, listing[f.acc]).calls
      /\ mseq' = applySnapshot([calls |-> calls, seq |-> mseq], dismissed,
                               f.acc, f.rows, listing[f.acc]).seq
      /\ f.acc \in DOMAIN listing
      BY DEF ListTaken
<1>3. listing[f.acc] \in 0..mseq
      BY <1>2 DEF TypeOK
<1> HIDE DEF f
<1>4. /\ DOMAIN calls' = DOMAIN calls \cup Told(f.rows, dismissed)
      /\ mseq' \in Nat /\ mseq <= mseq'
      /\ \A c \in Told(f.rows, dismissed) \ DOMAIN calls :
            /\ calls'[c] \in Call /\ calls'[c].seq \in (mseq + 1)..mseq'
            /\ calls'[c].state = snapshotState(f.rows[c].raw)
            /\ calls'[c].verified = f.rows[c].verified
      /\ \A c, d \in Told(f.rows, dismissed) \ DOMAIN calls : calls'[c].seq = calls'[d].seq => c = d
      BY <1>1, <1>2, <1>3, SnapshotRows
<1>5. /\ \A c \in Told(f.rows, dismissed) \cap DOMAIN calls :
            /\ calls'[c] \in Call /\ calls'[c].seq = calls[c].seq
            /\ calls'[c].state =
                  IF isTerminal(calls[c].state)
                     \/ progress(snapshotState(f.rows[c].raw)) <= progress(calls[c].state)
                  THEN calls[c].state ELSE snapshotState(f.rows[c].raw)
            /\ calls'[c].verified = f.rows[c].verified
      /\ \A c \in DOMAIN calls \ Told(f.rows, dismissed) :
            /\ calls'[c] \in Call /\ calls'[c].seq = calls[c].seq
            /\ calls'[c].state =
                  IF Ends1(c, f.acc, f.rows, listing[f.acc]) THEN "ended" ELSE calls[c].state
            /\ calls'[c].verified = calls[c].verified
      BY <1>1, <1>2, <1>3, SnapshotRows
<1> QED BY <1>4, <1>5 DEF f

\* The four things the handling of a frame may be.
LEMMA HandlesWhat ==
    ASSUME Handles
    PROVE  /\ toUi # <<>> /\ toUi' = Tail(toUi)
           /\ UNCHANGED <<prompt, torn, cleared, tacky, up, spent>>
           /\ \/ /\ Head(toUi).kind = "event" /\ UNCHANGED <<listing, dismissed, toTacky>>
                 /\ calls' = handleEvent([calls |-> calls, seq |-> mseq], Head(toUi)).calls
                 /\ mseq' = handleEvent([calls |-> calls, seq |-> mseq], Head(toUi)).seq
              \/ /\ Head(toUi).kind = "connected" /\ UNCHANGED <<calls, mseq, dismissed>>
                 /\ toTacky' = toTacky \o <<[kind |-> "list", acc |-> Head(toUi).acc]>>
                 /\ listing' = [a \in DOMAIN listing \cup {Head(toUi).acc} |->
                                  IF a = Head(toUi).acc THEN mseq ELSE listing[a]]
              \/ Head(toUi).kind = "list" /\ ListTaken(Head(toUi)) /\ toTacky' = toTacky
              \/ /\ Head(toUi).kind = "list" /\ UNCHANGED <<calls, mseq, listing, dismissed, toTacky>>
                 /\ ~Newest(Head(toUi).acc)
<1>1. CASE OnEvent
      BY <1>1 DEF OnEvent, Receive
<1>2. CASE refreshFor
      BY <1>2, AppendIsConcat DEF refreshFor, Receive
<1>3. CASE handleResult
      BY <1>3 DEF handleResult, Receive, ListTaken, Newest, Unlisted
<1> QED BY <1>1, <1>2, <1>3 DEF Handles

\* Whichever it is, the rows are well formed after it.
LEMMA RowsTyped ==
    ASSUME TypeOK, Wired, Handles
    PROVE  RowsOK' /\ UserOK' /\ mseq' \in Nat /\ mseq <= mseq'
<1> DEFINE f == Head(toUi)
<1>1. /\ RowsOK /\ UserOK /\ mseq \in Nat
      /\ toUi # <<>> /\ UNCHANGED <<prompt, torn, cleared>>
      BY TypeParts, HandlesWhat DEF RowsOK
<1>2. CASE /\ f.kind = "event" /\ UNCHANGED <<listing, dismissed>>
           /\ calls' = handleEvent([calls |-> calls, seq |-> mseq], f).calls
           /\ mseq' = handleEvent([calls |-> calls, seq |-> mseq], f).seq
      <2>1. f \in Events
            BY <1>1, <1>2, HeadOf
      <2> HIDE DEF f
      <2>2. CASE f.name \in {"Incoming", "Outgoing"} /\ f.call \notin DOMAIN calls
            <3>1. /\ DOMAIN calls' = DOMAIN calls \cup {f.call} /\ mseq' = mseq + 1
                  /\ \A c \in DOMAIN calls : calls'[c] = calls[c]
                  /\ calls'[f.call] = NewCall(IF f.name = "Incoming" THEN "incoming" ELSE "calling",
                                              FALSE, FALSE, mseq + 1)
                  BY <1>2, <2>1, <2>2, EventRows
            <3>2. /\ f.call \in Calls /\ calls'[f.call] \in Call /\ calls'[f.call].seq = mseq + 1
                  BY <1>1, <2>1, <3>1 DEF Events, NewCall, Call, States
            <3>3. RowsOK'
                  BY <1>1, <1>2, <3>1, <3>2 DEF RowsOK
            <3> QED BY <1>1, <1>2, <3>1, <3>3 DEF UserOK
      <2>3. CASE ~(f.name \in {"Incoming", "Outgoing"} /\ f.call \notin DOMAIN calls)
            <3>1. /\ DOMAIN calls' = DOMAIN calls /\ mseq' = mseq
                  /\ \A c \in DOMAIN calls : c # f.call => calls'[c] = calls[c]
                  /\ f.call \in DOMAIN calls =>
                        calls'[f.call] \in Call /\ calls'[f.call].seq = calls[f.call].seq
                  BY <1>2, <2>1, <2>3, EventRows
            <3>2. RowsOK'
                  BY <1>1, <1>2, <3>1, SameRows DEF RowsOK
            <3> QED BY <1>1, <1>2, <3>1, <3>2 DEF UserOK
      <2> QED BY <2>2, <2>3
<1>3. CASE /\ f.kind = "connected" /\ UNCHANGED <<calls, mseq, dismissed>>
           /\ listing' = [a \in DOMAIN listing \cup {f.acc} |->
                            IF a = f.acc THEN mseq ELSE listing[a]]
      <2>1. f.acc \in Accounts
            BY <1>1, <1>3, HeadOf
      <2> HIDE DEF f
      <2>2. RowsOK'
            BY <1>1, <1>3, <2>1 DEF RowsOK
      <2> QED BY <1>1, <1>3, <2>2 DEF UserOK
<1>4. CASE f.kind = "list" /\ ListTaken(f)
      <2>1. DOMAIN f.rows \subseteq Calls
            BY <1>1, <1>4, HeadOf
      <2>2. /\ DOMAIN calls' = DOMAIN calls \cup Told(f.rows, dismissed)
            /\ mseq' \in Nat /\ mseq <= mseq'
            /\ \A c \in Told(f.rows, dismissed) \ DOMAIN calls :
                  calls'[c] \in Call /\ calls'[c].seq \in (mseq + 1)..mseq'
            /\ \A c, d \in Told(f.rows, dismissed) \ DOMAIN calls :
                  calls'[c].seq = calls'[d].seq => c = d
            /\ \A c \in Told(f.rows, dismissed) \cap DOMAIN calls :
                  calls'[c] \in Call /\ calls'[c].seq = calls[c].seq
            /\ \A c \in DOMAIN calls \ Told(f.rows, dismissed) :
                  calls'[c] \in Call /\ calls'[c].seq = calls[c].seq
            BY <1>1, <1>4, ListRows
      <2> HIDE DEF f
      <2>3. \A c \in DOMAIN calls : calls'[c] \in Call /\ calls'[c].seq = calls[c].seq
            BY <2>2
      <2>4. /\ DOMAIN calls' \subseteq Calls
            /\ \A c \in DOMAIN calls' : calls'[c] \in Call /\ calls'[c].seq \in 1..mseq'
            BY <1>1, <2>1, <2>2, <2>3 DEF RowsOK, Told, Known
      <2>5. \A c, d \in DOMAIN calls' : calls'[c].seq = calls'[d].seq => c = d
            BY <1>1, <2>2, <2>3 DEF RowsOK
      <2>6. /\ DOMAIN listing' \subseteq Accounts
            /\ \A acc \in DOMAIN listing' : listing'[acc] \in 0..mseq'
            BY <1>1, <1>4, <2>2 DEF RowsOK, ListTaken
      <2>7. UserOK'
            BY <1>1, <1>4 DEF UserOK, ListTaken
      <2> QED BY <2>2, <2>4, <2>5, <2>6, <2>7 DEF RowsOK
<1>5. CASE UNCHANGED <<calls, mseq, listing, dismissed>>
      BY <1>1, <1>5 DEF RowsOK, UserOK
<1> QED BY <1>2, <1>3, <1>4, <1>5, HandlesWhat

LEMMA SetAsSeq ==
    ASSUME NEW S, IsFiniteSet(S)
    PROVE  /\ SetToSeq(S) \in Seq(S)
           /\ \A x \in S : \E i \in 1..Len(SetToSeq(S)) : SetToSeq(S)[i] = x
<1>1. Cardinality(S) \in Nat /\ ExistsBijection(1..Cardinality(S), S)
      BY FS_CardinalityType
<1>2. PICK f \in [1..Cardinality(S) -> S] : IsInjective(f)
      BY <1>1 DEF ExistsBijection, Bijection, Injection
<1> DEFINE q == SetToSeq(S)
<1>3. q \in [1..Cardinality(S) -> S] /\ IsInjective(q)
      BY <1>2 DEF SetToSeq
<1> HIDE DEF q
<1>4. q \in Injection(1..Cardinality(S), S)
      BY <1>3 DEF Injection
<1>5. IsFiniteSet(1..Cardinality(S)) /\ Cardinality(1..Cardinality(S)) = Cardinality(S)
      BY <1>1, FS_Interval
<1>6. q \in Surjection(1..Cardinality(S), S)
      BY <1>4, <1>5, FS_Injection
<1>7. q \in Seq(S) /\ Len(q) = Cardinality(S)
      BY <1>1, <1>3
<1> QED BY <1>6, <1>7 DEF Surjection, q

Pulls == {[kind |-> "pull", acc |-> a] : a \in Accounts}

LEMMA PullsOut ==
    ASSUME toTacky' = SetToSeq(Pulls)
    PROVE  /\ toTacky' \in Seq(TackyFrames)
           /\ \A i \in 1..Len(toTacky') : toTacky'[i].kind = "pull"
           /\ \A acc \in Accounts : PullOut(acc)'
<1> DEFINE f == [a \in Accounts |-> [kind |-> "pull", acc |-> a]]
<1>1. f \in Surjection(Accounts, Pulls)
      BY Fun_IsSurj DEF Pulls
<1>2. IsFiniteSet(Pulls)
      BY <1>1, FS_Surjection, CallsAssumption
<1>3. /\ toTacky' \in Seq(Pulls)
      /\ \A x \in Pulls : \E i \in 1..Len(toTacky') : toTacky'[i] = x
      BY <1>2, SetAsSeq
<1>4. Pulls \subseteq TackyFrames /\ \A x \in Pulls : x.kind = "pull"
      BY DEF Pulls, TackyFrames, Asks
<1>5. toTacky' \in Seq(TackyFrames)
      BY <1>3, <1>4
<1>6. \A i \in 1..Len(toTacky') : toTacky'[i] \in Pulls
      BY <1>3
<1>7. ASSUME NEW acc \in Accounts PROVE PullOut(acc)'
      <2>1. [kind |-> "pull", acc |-> acc] \in Pulls
            BY DEF Pulls
      <2>2. PICK i \in 1..Len(toTacky') : toTacky'[i] = [kind |-> "pull", acc |-> acc]
            BY <1>3, <2>1
      <2> QED BY <2>2 DEF PullOut
<1> QED BY <1>4, <1>5, <1>6, <1>7

LEMMA ListOf ==
    ASSUME TypeOK, NEW acc \in Accounts
    PROVE  /\ [kind |-> "list", acc |-> acc, rows |-> Listed(acc)] \in UiFrames
           /\ DOMAIN Listed(acc) = {c \in Calls : AccountOf[c] = acc /\ session[c] \in Live}
           /\ \A c \in DOMAIN Listed(acc) :
                 Listed(acc)[c].raw = session[c] /\ Listed(acc)[c].verified = trust[c]
<1> DEFINE S == {c \in Calls : AccountOf[c] = acc /\ session[c] \in Live}
           rows == Listed(acc)
           f == [kind |-> "list", acc |-> acc, rows |-> rows]
<1>1. /\ DOMAIN rows = S /\ rows = [c \in S |-> [raw |-> session[c], verified |-> trust[c]]]
      BY DEF Listed
<1>2. \A c \in S : [raw |-> session[c], verified |-> trust[c]] \in Snapshot
      BY DEF TypeOK, Snapshot
<1>3. rows \in [S -> Snapshot] /\ S \in SUBSET Calls
      BY <1>1, <1>2
<1> HIDE DEF rows
<1>4. f \in [kind : {"list"}, acc : Accounts, rows : UNION {[T -> Snapshot] : T \in SUBSET Calls}]
      BY <1>3
<1>5. \A c \in DOMAIN f.rows : AccountOf[c] = f.acc
      BY <1>1
<1>6. f \in UiFrames
      BY <1>4, <1>5 DEF UiFrames, Lists
<1> QED BY <1>1, <1>6 DEF rows

EdgeOf(acc) == [kind |-> "connected", acc |-> acc]

LEMMA EdgeFrame ==
    ASSUME NEW acc \in Accounts
    PROVE  EdgeOf(acc) \in UiFrames /\ EdgeOf(acc).kind = "connected" /\ EdgeOf(acc).acc = acc
BY DEF EdgeOf, UiFrames, Edges

\* Every step keeps the types, and what is known of the wires.
LEMMA TypeStep ==
    ASSUME TypeOK, Wired, \A c \in Calls : Fresh(c), Next
    PROVE  TypeOK' /\ Wired'
<1>1. /\ RowsOK /\ UserOK /\ TackyOK
      /\ toUi \in Seq(UiFrames) /\ toTacky \in Seq(TackyFrames)
      /\ ~up => toUi = <<>> /\ toTacky = <<>>
      /\ drops = 0 => up
      BY TypeParts DEF Wired
<1>2. ASSUME NEW f \in UiFrames
      PROVE  toUi \o <<f>> \in Seq(UiFrames)
      BY <1>1, Longer
<1>3. ASSUME NEW g \in TackyFrames
      PROVE  /\ toTacky \o <<g>> \in Seq(TackyFrames)
             /\ Push(toTacky, up, <<g>>) \in Seq(TackyFrames)
             /\ ~up => Push(toTacky, up, <<g>>) = toTacky
      BY <1>1, Longer DEF Push
<1>4. /\ \A c \in Calls, k \in {"accept", "reject", "hangup"} : [kind |-> k, call |-> c] \in TackyFrames
      /\ \A c \in Placed : [kind |-> "start", call |-> c] \in TackyFrames
      /\ \A acc \in Accounts : [kind |-> "list", acc |-> acc] \in TackyFrames
      BY DEF TackyFrames, Orders, Asks
<1>5. UNCHANGED <<calls, mseq, listing>> => RowsOK'
      BY <1>1 DEF RowsOK
<1>6. UNCHANGED <<session, trust, online, up, spent>> => TackyOK'
      BY <1>1 DEF TackyOK, spent
<1>7. ASSUME NEW c \in Calls, start(c)  PROVE TypeOK' /\ Wired'
      <2>1. UNCHANGED <<ui, tacky, up, toUi, spent>> /\ c \in Placed
            /\ toTacky' = Push(toTacky, up, <<[kind |-> "start", call |-> c]>>)
            BY <1>7 DEF start, Notify
      <2>2. RowsOK' /\ UserOK' /\ TackyOK'
            BY <1>1, <1>5, <1>6, <2>1 DEF ui, tacky, UserOK
      <2> QED BY <1>1, <1>3, <1>4, <2>1, <2>2, TypeParts DEF Wired, spent
<1>8. ASSUME NEW c \in Calls, accept(c) \/ Denied(c)  PROVE TypeOK' /\ Wired'
      <2>1. /\ UNCHANGED <<calls, mseq, listing, dismissed, torn, cleared, tacky, up, toTacky, toUi, spent>>
            /\ prompt' \subseteq prompt \cup {c}
            BY <1>8 DEF accept, Denied
      <2>2. RowsOK' /\ UserOK' /\ TackyOK'
            BY <1>1, <1>5, <1>6, <2>1 DEF tacky, UserOK
      <2> QED BY <1>1, <2>1, <2>2, TypeParts DEF Wired, spent
<1>9. ASSUME NEW c \in Calls, NEW s \in States, calls' = setState(calls, c, s),
             UNCHANGED <<mseq, listing>>
      PROVE  RowsOK'
      <2>1. /\ DOMAIN calls' = DOMAIN calls
            /\ \A d \in DOMAIN calls : calls'[d] \in Call /\ calls'[d].seq = calls[d].seq
            BY <1>1, <1>9, StateSet DEF RowsOK
      <2> QED BY <1>1, <1>9, <2>1, SameRows
<1>10. ASSUME NEW c \in Calls, Granted(c)  PROVE TypeOK' /\ Wired'
      <2>1. /\ UNCHANGED <<mseq, listing, dismissed, torn, cleared, tacky, up, toUi, spent>>
            /\ prompt' = prompt \ {c}
            /\ \/ UNCHANGED <<toTacky, calls>>
               \/ /\ toTacky' = Push(toTacky, up, <<[kind |-> "accept", call |-> c]>>)
                  /\ calls' = setState(calls, c, "connecting")
            BY <1>10 DEF Granted, Notify
      <2>2. RowsOK'
            BY <1>5, <1>9, <2>1 DEF States
      <2>3. UserOK' /\ TackyOK'
            BY <1>1, <1>6, <2>1 DEF tacky, UserOK
      <2>4. toTacky' \in Seq(TackyFrames) /\ (~up => toTacky' = toTacky)
            BY <1>1, <1>3, <1>4, <2>1
      <2> QED BY <1>1, <2>1, <2>2, <2>3, <2>4, TypeParts DEF Wired, spent
<1>11. ASSUME NEW c \in Calls, hangup(c)  PROVE TypeOK' /\ Wired'
      <2>1. /\ UNCHANGED <<mseq, listing, dismissed, prompt, cleared, tacky, up, toUi, spent>>
            /\ calls' = setState(calls, c, "ended") /\ torn' = torn \cup {c}
            /\ \E k \in {"reject", "hangup"} :
                  toTacky' = Push(toTacky, up, <<[kind |-> k, call |-> c]>>)
            BY <1>11 DEF hangup, Notify
      <2>2. RowsOK'
            BY <1>9, <2>1 DEF States
      <2>3. UserOK' /\ TackyOK'
            BY <1>1, <1>6, <2>1 DEF tacky, UserOK
      <2>4. toTacky' \in Seq(TackyFrames) /\ (~up => toTacky' = toTacky)
            BY <1>1, <1>3, <1>4, <2>1
      <2> QED BY <1>1, <2>1, <2>2, <2>3, <2>4, TypeParts DEF Wired, spent
<1>12. ASSUME NEW c \in Calls, dismiss(c)  PROVE TypeOK' /\ Wired'
      <2>1. /\ UNCHANGED <<mseq, listing, prompt, torn, tacky, up, toTacky, toUi, spent>>
            /\ dismissed' = dismissed \cup {c} /\ cleared' = cleared \cup {c}
            /\ DOMAIN calls' = DOMAIN calls \ {c}
            /\ \A d \in DOMAIN calls' : calls'[d] = calls[d]
            BY <1>12 DEF dismiss
      <2>2. RowsOK'
            BY <1>1, <2>1, SameRows DEF RowsOK
      <2>3. UserOK' /\ TackyOK'
            BY <1>1, <1>6, <2>1 DEF tacky, UserOK
      <2> QED BY <1>1, <2>1, <2>2, <2>3, TypeParts DEF Wired, spent
<1>13. ASSUME Handles  PROVE TypeOK' /\ Wired'
      <2>1. /\ toUi # <<>> /\ toUi' = Tail(toUi) /\ UNCHANGED <<tacky, up, spent>>
            /\ toTacky' = toTacky \/ (/\ Head(toUi).kind = "connected"
                                      /\ toTacky' = toTacky \o <<[kind |-> "list", acc |-> Head(toUi).acc]>>)
            BY <1>13, HandlesWhat
      <2>2. RowsOK' /\ UserOK' /\ TackyOK'
            BY <1>6, <1>13, <2>1, RowsTyped DEF tacky
      <2>3. toUi' \in Seq(UiFrames) /\ toTacky' \in Seq(TackyFrames) /\ up
            BY <1>1, <1>3, <1>4, <2>1, Shorter, HeadOf
      <2> QED BY <1>1, <2>1, <2>2, <2>3, TypeParts DEF Wired, spent
<1>14. ASSUME NEW d \in Calls, Deed(d), UNCHANGED <<ui, online, up, spent>>
       PROVE  TypeOK' /\ toUi' \in Seq(UiFrames) /\ (~up => toUi' = <<>>)
      <2>1. session' \in [Calls -> Live \cup {"none", "over"}] /\ trust' \in [Calls -> BOOLEAN]
            BY <1>14, DeedDone
      <2>2. RowsOK' /\ UserOK' /\ TackyOK'
            BY <1>1, <1>5, <1>14, <2>1 DEF ui, UserOK, TackyOK, spent
      <2>3. toUi' = toUi \/ \E f \in Events : Sends(f)
            BY <1>14, DeedDone
      <2>4. Events \subseteq UiFrames
            BY DEF UiFrames
      <2> QED BY <1>1, <1>2, <2>2, <2>3, <2>4, TypeParts, SendsWhat
<1>15. ASSUME NEW d \in Calls, TackyMoves(d)  PROVE TypeOK' /\ Wired'
      <2>1. TypeOK' /\ toUi' \in Seq(UiFrames) /\ (~up => toUi' = <<>>)
            BY <1>14, <1>15, OwnDeeds
      <2> QED BY <1>1, <1>15, <2>1, OwnDeeds DEF Wired, spent
<1>16. ASSUME TackyTakes  PROVE TypeOK' /\ Wired'
      <2> DEFINE g == Head(toTacky)
      <2>1. /\ toTacky # <<>> /\ toTacky' = Tail(toTacky) /\ g \in TackyFrames
            /\ UNCHANGED <<ui, up, spent, online>>
            /\ Obeys(g) \/ TellsList(g) \/ TellsState(g) \/ Ignores(g)
            BY <1>16, ToldDeeds
      <2>2. up /\ toTacky' \in Seq(TackyFrames)
            BY <1>1, <2>1, Shorter
      <2>3. /\ g.kind \in {"list", "pull"} => g.acc \in Accounts
            /\ g.kind \in {"start", "accept", "reject", "hangup"} => g.call \in Calls
            BY <2>1, TackyFields
      <2> HIDE DEF g
      <2>4. UNCHANGED <<session, trust>> => TypeOK'
            BY <1>1, <1>5, <1>6, <2>1, TypeParts DEF ui, UserOK, spent
      <2>5. TypeOK' /\ toUi' \in Seq(UiFrames)
            <3>1. CASE Obeys(g)
                  BY <1>14, <2>1, <2>3, <3>1 DEF Obeys
            <3>2. CASE TellsList(g)
                  BY <1>2, <2>3, <2>4, <3>2, ListOf DEF TellsList
            <3>3. CASE TellsState(g)
                  BY <1>1, <1>2, <2>3, <2>4, <3>3, EdgeFrame DEF TellsState, EdgeOf
            <3>4. CASE Ignores(g)
                  BY <1>1, <2>4, <3>4 DEF Ignores
            <3> QED BY <2>1, <3>1, <3>2, <3>3, <3>4
      <2> QED BY <1>1, <2>1, <2>2, <2>5 DEF Wired, spent
<1>17. ASSUME NEW acc \in Accounts, Connect(acc) \/ Disconnect(acc)  PROVE TypeOK' /\ Wired'
      <2>1. /\ UNCHANGED <<ui, session, trust, up, toTacky, drops>>
            /\ online' \subseteq online \cup {acc} /\ offs' \in {offs, offs + 1}
            /\ offs' # offs => offs < MaxOff
            /\ toUi' = toUi \/ Sends(EdgeOf(acc))
            BY <1>17 DEF Connect, Disconnect, Sends, EdgeOf, spent
      <2>2. RowsOK' /\ UserOK' /\ TackyOK'
            BY <1>1, <1>5, <2>1, CallsAssumption DEF ui, UserOK, TackyOK
      <2>3. toUi' \in Seq(UiFrames) /\ (~up => toUi' = <<>>)
            BY <1>1, <1>2, <2>1, EdgeFrame, SendsWhat
      <2> QED BY <1>1, <2>1, <2>2, <2>3, TypeParts DEF Wired
<1>18. ASSUME Drop \/ UiDies \/ TackyDies  PROVE TypeOK' /\ Wired'
      <2>1. /\ up' = FALSE /\ drops' = drops + 1 /\ drops < MaxDrop /\ UNCHANGED offs
            /\ toTacky' = <<>> /\ toUi' = <<>>
            BY <1>18 DEF Drop, UiDies, TackyDies
      <2>2. RowsOK' /\ UserOK'
            BY <1>1, <1>18 DEF Drop, UiDies, TackyDies, RowsOK, UserOK
      <2>3. drops' \in 0..MaxDrop /\ offs' \in 0..MaxOff /\ up' \in BOOLEAN
            <3>1. drops \in 0..MaxDrop /\ offs \in 0..MaxOff /\ MaxDrop \in Nat
                  BY <1>1, CallsAssumption DEF TackyOK
            <3>2. drops' = drops + 1 /\ drops < MaxDrop /\ offs' = offs /\ up' = FALSE
                  BY <2>1
            <3>3. drops' \in 0..MaxDrop
                  BY <3>1, <3>2
            <3> QED BY <3>1, <3>2, <3>3
      <2>4. /\ session' \in [Calls -> Live \cup {"none", "over"}] /\ trust' \in [Calls -> BOOLEAN]
            /\ online' \subseteq Accounts
            <3>1. CASE Drop \/ UiDies
                  BY <1>1, <3>1 DEF Drop, UiDies, TackyOK, tacky
            <3>2. CASE TackyDies
                  <4>1. /\ session' = [c \in Calls |-> IF session[c] \in Live THEN "over" ELSE session[c]]
                        /\ online' = {} /\ trust' = trust
                        BY <3>2 DEF TackyDies
                  <4>2. \A c \in Calls : session[c] \in Live \cup {"none", "over"}
                        BY <1>1 DEF TackyOK
                  <4>3. session' \in [Calls -> Live \cup {"none", "over"}]
                        BY <4>1, <4>2
                  <4> QED BY <1>1, <4>1, <4>3 DEF TackyOK
            <3> QED BY <1>18, <3>1, <3>2
      <2>6. TackyOK'
            BY <2>3, <2>4 DEF TackyOK
      <2> QED BY <1>1, <2>1, <2>2, <2>6, TypeParts, CallsAssumption DEF Wired, TackyOK
<1>19. ASSUME Attach  PROVE TypeOK' /\ Wired'
      <2>1. /\ ~up /\ up' = TRUE /\ UNCHANGED <<ui, tacky, toUi, spent>>
            /\ toTacky' = SetToSeq(Pulls)
            BY <1>19 DEF Attach, Pulls
      <2>2. RowsOK' /\ UserOK' /\ TackyOK'
            BY <1>1, <1>5, <2>1 DEF ui, UserOK, TackyOK, tacky, spent
      <2> QED BY <1>1, <2>1, <2>2, TypeParts, PullsOut DEF Wired, spent
<1> QED BY <1>7, <1>8, <1>10, <1>11, <1>12, <1>13, <1>15, <1>16, <1>17, <1>18, <1>19 DEF Next

-----------------------------------------------------------------------------
(* A list under way is one that is waited for.                              *)

LEMMA ListsSent ==
    ASSUME Wired, NEW f \in UiFrames, toUi' = toUi \o <<f>>, NEW acc
    PROVE  ListsOf(toUi', acc) # {} <=> ListsOf(toUi, acc) # {} \/ (f.kind = "list" /\ f.acc = acc)
<1>1. /\ Len(toUi) \in Nat /\ Len(toUi') = Len(toUi) + 1
      /\ \A i \in 1..Len(toUi) : toUi'[i] = toUi[i]
      /\ toUi'[Len(toUi) + 1] = f
      BY Longer DEF Wired
<1>2. ASSUME NEW i \in ListsOf(toUi, acc)  PROVE i \in ListsOf(toUi', acc)
      BY <1>1 DEF ListsOf
<1>3. ASSUME NEW i \in ListsOf(toUi', acc)
      PROVE  i \in ListsOf(toUi, acc) \/ (f.kind = "list" /\ f.acc = acc)
      BY <1>1 DEF ListsOf
<1>4. f.kind = "list" /\ f.acc = acc => Len(toUi) + 1 \in ListsOf(toUi', acc)
      BY <1>1 DEF ListsOf
<1> QED BY <1>2, <1>3, <1>4

LEMMA ListsTaken ==
    ASSUME Wired, toUi # <<>>, toUi' = Tail(toUi), NEW acc
    PROVE  /\ ListsOf(toUi', acc) # {} => ListsOf(toUi, acc) # {}
           /\ ListsOf(toUi, acc) = {1} => ListsOf(toUi', acc) = {}
<1>1. \A i \in 1..Len(toUi') : toUi'[i] = toUi[i + 1] /\ i + 1 \in 2..Len(toUi)
      BY Shorter DEF Wired
<1>2. \A i \in ListsOf(toUi', acc) : i + 1 \in ListsOf(toUi, acc) /\ i + 1 # 1
      BY <1>1 DEF ListsOf
<1> QED BY <1>2

LEMMA NoPlaces ==
    /\ toUi' = <<>> => \A acc : ListsOf(toUi', acc) = {}
    /\ toTacky' = <<>> => \A acc : Unlisted(acc)'
BY DEF Unlisted, ListsOf

\* And that a list under way is waited for.
LEMMA AwaitedStep ==
    ASSUME TypeOK, Wired, Awaited, \A c \in Calls : Fresh(c), Next
    PROVE  Awaited'
<1>1. ASSUME UNCHANGED <<listing, toUi>>,
             toTacky' = toTacky \/ \E g \in TackyFrames : g.kind # "list" /\ toTacky' = toTacky \o <<g>>
      PROVE  Awaited'
      <2>1. \A acc \in Accounts : Unlisted(acc)' <=> Unlisted(acc)
            <3>1. CASE toTacky' = toTacky
                  BY <3>1 DEF Unlisted
            <3>2. ASSUME NEW g \in TackyFrames, g.kind # "list", toTacky' = toTacky \o <<g>>
                  PROVE  \A acc \in Accounts : Unlisted(acc)' <=> Unlisted(acc)
                  <4>2. Len(toTacky) \in Nat /\ Len(toTacky') = Len(toTacky) + 1
                        /\ (\A i \in 1..Len(toTacky) : toTacky'[i] = toTacky[i])
                        /\ toTacky'[Len(toTacky) + 1] = g
                        BY <3>2, Longer DEF Wired
                  <4>3. \A acc : ListsOf(toTacky', acc) = ListsOf(toTacky, acc)
                        BY <3>2, <4>2 DEF ListsOf
                  <4> QED BY <4>3 DEF Unlisted
            <3> QED BY <1>1, <3>1, <3>2
      <2> QED BY <1>1, <2>1 DEF Awaited
<1>2. ASSUME UNCHANGED <<listing>>, toTacky' = toTacky \/ (toTacky # <<>> /\ toTacky' = Tail(toTacky)),
             \/ toUi' = toUi
             \/ toUi # <<>> /\ toUi' = Tail(toUi)
             \/ \E f \in UiFrames :
                   toUi' = toUi \o <<f>> /\ (f.kind = "list" => ~Unlisted(f.acc))
      PROVE  Awaited'
      <2>1. \A acc \in Accounts : ~Unlisted(acc)' => ~Unlisted(acc)
            <3>1. CASE toTacky' = toTacky
                  BY <3>1 DEF Unlisted
            <3>2. CASE toTacky # <<>> /\ toTacky' = Tail(toTacky)
                  <4>1. \A i \in 1..Len(toTacky') : toTacky'[i] = toTacky[i + 1] /\ i + 1 \in 1..Len(toTacky)
                        BY <3>2, Shorter DEF Wired
                  <4>2. \A acc : \A i \in ListsOf(toTacky', acc) : i + 1 \in ListsOf(toTacky, acc)
                        BY <4>1 DEF ListsOf
                  <4> QED BY <4>2 DEF Unlisted
            <3> QED BY <1>2, <3>1, <3>2
      <2>2. \A acc \in Accounts : ListsOf(toUi', acc) # {} => ListsOf(toUi, acc) # {} \/ ~Unlisted(acc)
            <3>1. CASE toUi' = toUi
                  BY <3>1
            <3>2. CASE toUi # <<>> /\ toUi' = Tail(toUi)
                  BY <3>2, ListsTaken
            <3>3. ASSUME NEW f \in UiFrames, toUi' = toUi \o <<f>>, f.kind = "list" => ~Unlisted(f.acc)
                  PROVE  \A acc \in Accounts :
                            ListsOf(toUi', acc) # {} => ListsOf(toUi, acc) # {} \/ ~Unlisted(acc)
                  BY <3>3, ListsSent
            <3> QED BY <1>2, <3>1, <3>2, <3>3
      <2> QED BY <1>2, <2>1, <2>2 DEF Awaited
<1>3. /\ \A c \in Calls, k \in {"accept", "reject", "hangup"} : [kind |-> k, call |-> c] \in TackyFrames
      /\ \A c \in Placed : [kind |-> "start", call |-> c] \in TackyFrames
      BY DEF TackyFrames, Orders
<1>4. ASSUME NEW c \in Calls, start(c) \/ accept(c) \/ Granted(c) \/ Denied(c) \/ hangup(c) \/ dismiss(c)
      PROVE  Awaited'
      <2>1. UNCHANGED <<listing, toUi>>
            BY <1>4 DEF start, accept, Granted, Denied, hangup, dismiss, ui
      <2>2. toTacky' = toTacky \/ \E g \in TackyFrames : g.kind # "list" /\ toTacky' = toTacky \o <<g>>
            <3>1. \/ toTacky' = toTacky
                  \/ \E k \in {"accept", "reject", "hangup"} :
                        toTacky' = Push(toTacky, up, <<[kind |-> k, call |-> c]>>)
                  \/ c \in Placed /\ toTacky' = Push(toTacky, up, <<[kind |-> "start", call |-> c]>>)
                  BY <1>4 DEF start, accept, Granted, Denied, hangup, dismiss, Notify
            <3> QED BY <1>3, <3>1 DEF Push
      <2> QED BY <1>1, <2>1, <2>2
<1>5. ASSUME NEW d \in Calls, Deed(d)
      PROVE  toUi' = toUi \/ \E f \in UiFrames : toUi' = toUi \o <<f>> /\ f.kind # "list"
      <2>1. toUi' = toUi \/ \E f \in Events : Sends(f)
            BY <1>5, DeedDone
      <2>2. \A f \in Events : f \in UiFrames /\ f.kind # "list"
            BY DEF UiFrames, Events
      <2> QED BY <2>1, <2>2, SendsWhat
<1>6. ASSUME NEW d \in Calls, TackyMoves(d)  PROVE Awaited'
      <2>1. Deed(d) /\ UNCHANGED <<listing, toTacky>>
            BY <1>6, OwnDeeds DEF ui
      <2> QED BY <1>2, <1>5, <2>1
<1>7. ASSUME TackyTakes  PROVE Awaited'
      <2> DEFINE g == Head(toTacky)
      <2>1. /\ toTacky # <<>> /\ toTacky' = Tail(toTacky) /\ g \in TackyFrames
            /\ UNCHANGED listing
            /\ Obeys(g) \/ TellsList(g) \/ TellsState(g) \/ Ignores(g)
            BY <1>7, ToldDeeds DEF ui
      <2>2. /\ g.kind \in {"list", "pull"} => g.acc \in Accounts
            /\ g.kind \in {"start", "accept", "reject", "hangup"} => g.call \in Calls
            BY <2>1, TackyFields
      <2>3. g.kind = "list" => ~Unlisted(g.acc)
            BY <2>1, Shorter DEF Wired, Unlisted, ListsOf
      <2> HIDE DEF g
      <2>4. CASE Obeys(g)
            BY <1>2, <1>5, <2>1, <2>2, <2>4 DEF Obeys
      <2>5. CASE TellsList(g)
            <3>1. \E f \in UiFrames : toUi' = toUi \o <<f>> /\ f.kind = "list" /\ f.acc = g.acc
                  BY <2>2, <2>5, ListOf DEF TellsList
            <3>2. g.kind = "list"
                  BY <2>5 DEF TellsList
            <3> QED BY <1>2, <2>1, <2>3, <3>1, <3>2
      <2>6. CASE TellsState(g)
            <3>1. toUi' = toUi \/ toUi' = toUi \o <<EdgeOf(g.acc)>>
                  BY <2>6 DEF TellsState, EdgeOf
            <3>2. EdgeOf(g.acc) \in UiFrames /\ EdgeOf(g.acc).kind # "list"
                  BY <2>2, <2>6, EdgeFrame DEF TellsState
            <3> QED BY <1>2, <2>1, <3>1, <3>2
      <2>7. CASE Ignores(g)
            BY <1>2, <2>1, <2>7 DEF Ignores
      <2> QED BY <2>1, <2>4, <2>5, <2>6, <2>7
<1>8. ASSUME NEW acc \in Accounts, Connect(acc) \/ Disconnect(acc)  PROVE Awaited'
      <2>1. UNCHANGED <<listing, toTacky>> /\ (toUi' = toUi \/ Sends(EdgeOf(acc)))
            BY <1>8 DEF Connect, Disconnect, Sends, EdgeOf, ui
      <2>2. EdgeOf(acc) \in UiFrames /\ EdgeOf(acc).kind # "list"
            BY EdgeFrame
      <2>3. toUi' = toUi \/ toUi' = toUi \o <<EdgeOf(acc)>>
            BY <2>1, SendsWhat
      <2> QED BY <1>2, <2>1, <2>2, <2>3
<1>9. ASSUME Drop \/ UiDies \/ TackyDies  PROVE Awaited'
      <2>1. toTacky' = <<>> /\ toUi' = <<>>
            BY <1>9 DEF Drop, UiDies, TackyDies
      <2> QED BY <2>1, NoPlaces DEF Awaited
<1>10. ASSUME Attach  PROVE Awaited'
      <2>1. ~up /\ toUi' = <<>> /\ toTacky' = SetToSeq(Pulls)
            BY <1>10 DEF Attach, Pulls, Wired
      <2>2. \A acc : Unlisted(acc)'
            BY <2>1, PullsOut DEF Unlisted, ListsOf
      <2> QED BY <2>1, <2>2, NoPlaces DEF Awaited
<1>11. ASSUME Handles  PROVE Awaited'
      <2> DEFINE f == Head(toUi)
      <2>1. /\ toUi # <<>> /\ toUi' = Tail(toUi)
            /\ \/ UNCHANGED <<listing, toTacky>>
               \/ /\ f.kind = "connected"
                  /\ toTacky' = toTacky \o <<[kind |-> "list", acc |-> f.acc]>>
                  /\ listing' = [a \in DOMAIN listing \cup {f.acc} |->
                                   IF a = f.acc THEN mseq ELSE listing[a]]
               \/ /\ toTacky' = toTacky /\ DOMAIN listing' = DOMAIN listing \ {f.acc}
                  /\ ListsOf(toUi, f.acc) = {1} /\ Unlisted(f.acc)
            BY <1>11, HandlesWhat DEF ListTaken
      <2>2. f.kind = "connected" => f.acc \in Accounts
            BY <2>1, HeadOf
      <2> HIDE DEF f
      <2>3. CASE UNCHANGED <<listing, toTacky>>
            BY <1>2, <2>1, <2>3
      <2>4. CASE /\ f.kind = "connected"
                 /\ toTacky' = toTacky \o <<[kind |-> "list", acc |-> f.acc]>>
                 /\ DOMAIN listing' = DOMAIN listing \cup {f.acc}
            <3> DEFINE g == [kind |-> "list", acc |-> f.acc]
            <3>1. g \in TackyFrames /\ g.acc = f.acc
                  BY <2>2, <2>4 DEF TackyFrames, Asks
            <3> HIDE DEF g
            <3>2. /\ Len(toTacky) \in Nat /\ Len(toTacky') = Len(toTacky) + 1
                  /\ \A i \in 1..Len(toTacky) : toTacky'[i] = toTacky[i]
                  /\ toTacky'[Len(toTacky) + 1] = g
                  BY <2>4, <3>1, Longer DEF Wired, g
            <3>3. \A acc : acc # f.acc => (ListsOf(toTacky', acc) # {} => ListsOf(toTacky, acc) # {})
                  BY <3>1, <3>2 DEF ListsOf
            <3>4. \A acc : ListsOf(toUi', acc) # {} => ListsOf(toUi, acc) # {}
                  BY <2>1, ListsTaken
            <3> QED BY <2>4, <3>3, <3>4 DEF Awaited, Unlisted
      <2>5. CASE /\ toTacky' = toTacky /\ DOMAIN listing' = DOMAIN listing \ {f.acc}
                 /\ ListsOf(toUi, f.acc) = {1} /\ Unlisted(f.acc)
            <3>1. ListsOf(toUi', f.acc) = {} /\ \A acc : ListsOf(toUi', acc) # {} => ListsOf(toUi, acc) # {}
                  BY <2>1, <2>5, ListsTaken
            <3>2. \A acc : Unlisted(acc)' <=> Unlisted(acc)
                  BY <2>5 DEF Unlisted
            <3> QED BY <2>5, <3>1, <3>2 DEF Awaited
      <2> QED BY <2>1, <2>3, <2>4, <2>5
<1> QED BY <1>4, <1>6, <1>7, <1>8, <1>9, <1>10, <1>11 DEF Next

-----------------------------------------------------------------------------
(* That no row is ended too soon, and that none comes back.                 *)

LEMMA Freshness ==
    ASSUME NEW c \in Calls, Sessions(c)
    PROVE  /\ Fresh(c)
           /\ session'[c] = session[c] /\ trust'[c] = trust[c] => Lasts(c)
BY DEF Sessions, Fresh, Seen, Lasts

\* What the user does: the screen changes, and an order may be sent.
Touched(c) ==
    /\ c \in DOMAIN calls' =>
          /\ c \in DOMAIN calls /\ calls'[c].seq = calls[c].seq
          /\ c \in dismissed' => c \in dismissed
          /\ calls'[c].state = "incoming" => calls[c].state = "incoming"
          /\ isTerminal(calls'[c].state) => isTerminal(calls[c].state) \/ c \in torn'
    /\ c \in DOMAIN calls \ DOMAIN calls' => c \in dismissed'
    /\ c \in torn => c \in torn'
    /\ c \in torn' \ torn => c \in DOMAIN calls /\ (up => TornBy(Len(toTacky) + 1, c)')
    /\ c \in cleared' \ cleared => c \in DOMAIN calls /\ isTerminal(calls[c].state) /\ c \in dismissed'
    /\ c \in dismissed => c \in dismissed'

LEMMA TouchedCore ==
    ASSUME Wired, Awaited, Awaited', NEW c \in Calls, Core(c),
           UNCHANGED <<session, trust, toUi, drops, up, listing>>,
           toTacky' = toTacky \/ \E g \in TackyFrames : g.kind # "list" /\ toTacky' = toTacky \o <<g>>,
           Touched(c)
    PROVE  Core(c)'
<1>1. /\ TornBy(Len(toTacky) + 1, c) => TornBy(Len(toTacky) + 1, c)'
      /\ ListsTooLate(c) => ListsTooLate(c)'
      /\ \A acc : Unlisted(acc)' <=> Unlisted(acc)
      BY OrdersStay, OrdersSent
<1>2. Lasts(c)
      BY Freshness DEF Core
<1>3. Seen(c)' => Seen(c)
      BY DEF Touched, Seen
<1>4. Sessions(c)'
      BY DEF Core, Sessions, Touched, Seen
<1>5. Words(c)'
      BY <1>2, <1>3, WordsStay DEF Core
<1>6. Spared(c)'
      <2>1. Old(c) /\ AccountOf[c] \in Accounts
            BY CallsAssumption DEF Old, Touched
      <2> QED BY <1>1, <1>2, <2>1, SparedStays DEF Core
<1>7. Torn(c)'
      BY <1>1 DEF Core, Torn, Touched, Wired
<1>8. Hidden(c)'
      <2>1. Unnamed(c)' <=> Unnamed(c)
            BY DEF Unnamed
      <2> QED BY <1>1, <2>1 DEF Core, Hidden, Touched
<1> QED BY <1>4, <1>5, <1>6, <1>7, <1>8 DEF Core

\* A frame that may be sent, to what is under way already.
Welcome(f, c) ==
    /\ f \in UiFrames /\ Fitting(f, c)
    /\ f.kind = "list" => Head(toTacky).kind = "list" /\ Head(toTacky).acc = f.acc
                          /\ toTacky # <<>> /\ toTacky' = Tail(toTacky)
    /\ f.kind = "list" /\ f.acc = AccountOf[c] =>
          c \in DOMAIN f.rows \/ c \notin DOMAIN calls \/ session'[c] = "over"
    /\ Names(f, c) => f.acc = AccountOf[c] /\ session[c] # "over"

LEMMA ToldCore ==
    ASSUME Wired, Awaited, Awaited', NEW c \in Calls, Core(c), Lasts(c),
           UNCHANGED <<ui, drops>>,
           \/ toTacky' = toTacky
           \/ /\ toTacky # <<>> /\ toTacky' = Tail(toTacky)
              /\ Tears(Head(toTacky), c) => session'[c] \notin Live,
           \/ /\ toUi' = toUi /\ (session'[c] = "over" => session[c] = "over" \/ c \in Legs)
              /\ toTacky' = toTacky \/ Head(toTacky).kind # "list"
           \/ \E f : /\ toUi' = toUi \o <<f>> /\ Welcome(f, c)
                     /\ \/ toTacky' = toTacky \/ Head(toTacky).kind # "list"
                        \/ f.kind = "list",
           session'[c] \in Live \cup {"none", "over"}
    PROVE  Core(c)'
<1>1. AccountOf[c] \in Accounts /\ Old(c) /\ (Seen(c)' => Seen(c))
      BY CallsAssumption DEF Old, Seen, ui
<1>2. Sessions(c)'
      BY DEF Core, Sessions, Lasts, ui
<1>3. /\ TornBy(Len(toTacky) + 1, c) => session'[c] \notin Live \/ TornBy(Len(toTacky) + 1, c)'
      /\ ListsTooLate(c) => session'[c] \notin Live \/ ListsTooLate(c)'
      /\ toTacky' = toTacky \/ Head(toTacky).kind # "list" => \A acc : Unlisted(acc)' <=> Unlisted(acc)
      BY OrdersStay, OrdersTaken
<1>4. c \in torn \cup cleared => session'[c] \in Live \cup {"over"}
      BY DEF Core, Sessions, Lasts
<1>5. Torn(c)'
      BY <1>3, <1>4 DEF Core, Torn, Lasts, ui
<1>6. CASE /\ toUi' = toUi /\ (session'[c] = "over" => session[c] = "over" \/ c \in Legs)
           /\ toTacky' = toTacky \/ Head(toTacky).kind # "list"
      <2>1. Words(c)'
            BY <1>1, <1>6, WordsStay DEF Core
      <2>2. Spared(c)'
            BY <1>1, <1>3, <1>6, SparedStays DEF Core
      <2>3. Unnamed(c) => Unnamed(c)'
            BY <1>6 DEF Unnamed
      <2>4. Hidden(c)'
            BY <1>3, <1>4, <2>3 DEF Core, Hidden, Lasts, ui
      <2> QED BY <1>2, <1>5, <2>1, <2>2, <2>4 DEF Core
<1>7. ASSUME NEW f, toUi' = toUi \o <<f>>, Welcome(f, c),
             toTacky' = toTacky \/ Head(toTacky).kind # "list" \/ f.kind = "list"
      PROVE  Core(c)'
      <2>1. f \in UiFrames /\ Fitting(f, c)
            BY <1>7 DEF Welcome
      <2>2. Words(c)'
            BY <1>1, <1>7, <2>1, WordsSent DEF Core
      <2>3. IF f.kind = "list" /\ f.acc = AccountOf[c]
            THEN c \in DOMAIN f.rows \/ c \notin DOMAIN calls \/ session'[c] = "over"
            ELSE Unlisted(AccountOf[c])' <=> Unlisted(AccountOf[c])
            <3>1. CASE f.kind = "list" /\ f.acc # AccountOf[c]
                  BY <1>7, <3>1, OrdersTaken DEF Welcome
            <3>2. CASE f.kind = "list" /\ f.acc = AccountOf[c]
                  BY <1>7, <3>2 DEF Welcome
            <3>3. CASE f.kind # "list"
                  BY <1>3, <1>7, <3>3
            <3> QED BY <3>1, <3>2, <3>3
      <2>4. Spared(c)'
            BY <1>1, <1>7, <2>1, <2>3, SparedSent DEF Core
      <2>5. Unnamed(c) /\ ~Names(f, c) => Unnamed(c)'
            BY <1>7, <2>1, UnnamedKept
      <2>6. Names(f, c) => session[c] # "over" /\ ~ListsTooLate(c)
            BY <1>7, OrdersTaken DEF Welcome, Names
      <2>7. Hidden(c)'
            BY <1>3, <1>4, <2>5, <2>6 DEF Core, Hidden, Lasts, ui
      <2> QED BY <1>2, <1>5, <2>2, <2>4, <2>7 DEF Core
<1> QED BY <1>6, <1>7

LEMMA EventCore ==
    ASSUME TypeOK, TypeOK', Wired, Awaited, Awaited', NEW c \in Calls, Core(c),
           Handles, Head(toUi).kind = "event",
           UNCHANGED <<listing, dismissed, toTacky>>,
           calls' = handleEvent([calls |-> calls, seq |-> mseq], Head(toUi)).calls,
           mseq' = handleEvent([calls |-> calls, seq |-> mseq], Head(toUi)).seq
    PROVE  Core(c)'
<1> DEFINE e == Head(toUi)
<1>1. /\ toUi # <<>> /\ toUi' = Tail(toUi)
      /\ UNCHANGED <<prompt, torn, cleared, session, trust, online, up, drops>>
      BY HandlesWhat DEF tacky, spent
<1>2. e \in Events /\ e = toUi[1] /\ 1 \in 1..Len(toUi)
      BY <1>1, HeadOf
<1>3. /\ e.name \in EventNames /\ e.kind = "event"
      /\ ~Names(e, c) /\ (About(e, c) <=> e.call = c)
      /\ DOMAIN calls \subseteq Calls /\ mseq \in Nat
      /\ \A acc \in DOMAIN listing : listing[acc] \in 0..mseq
      /\ dismissed \subseteq cleared
      BY <1>2 DEF Events, Names, About, TypeOK
<1>4. /\ About(e, c) => session[c] # "none"
      /\ Begins(e, c) => c \notin Legs /\ (e.name = "Incoming" => c \notin Placed) /\ ~Seen(c)
      /\ Finishes(e, c) => session[c] = "over"
      BY <1>2 DEF Core, Words, Seen
<1> HIDE DEF e
\* The row of the call, after.
<1>5. \/ /\ Begins(e, c) /\ c \notin DOMAIN calls /\ c \in DOMAIN calls'
         /\ calls'[c].seq = mseq + 1
         /\ calls'[c].state = IF e.name = "Incoming" THEN "incoming" ELSE "calling"
      \/ /\ About(e, c) /\ c \in DOMAIN calls /\ c \in DOMAIN calls'
         /\ calls'[c].seq = calls[c].seq /\ calls'[c].state = StateAfter(e, calls[c].state)
      \/ /\ c \in DOMAIN calls' <=> c \in DOMAIN calls
         /\ c \in DOMAIN calls => calls'[c] = calls[c]
      <2>1. CASE e.name \in {"Incoming", "Outgoing"} /\ e.call \notin DOMAIN calls
            <3>1. /\ DOMAIN calls' = DOMAIN calls \cup {e.call}
                  /\ \A d \in DOMAIN calls : calls'[d] = calls[d]
                  /\ calls'[e.call] = NewCall(IF e.name = "Incoming" THEN "incoming" ELSE "calling",
                                              FALSE, FALSE, mseq + 1)
                  BY <1>2, <2>1, EventRows DEF e
            <3> QED BY <1>3, <2>1, <3>1 DEF Begins, NewCall
      <2>2. CASE ~(e.name \in {"Incoming", "Outgoing"} /\ e.call \notin DOMAIN calls)
            <3>1. /\ DOMAIN calls' = DOMAIN calls
                  /\ \A d \in DOMAIN calls : d # e.call => calls'[d] = calls[d]
                  /\ e.call \in DOMAIN calls =>
                        /\ calls'[e.call].seq = calls[e.call].seq
                        /\ calls'[e.call].state = StateAfter(e, calls[e.call].state)
                  BY <1>2, <2>2, EventRows DEF e
            <3> QED BY <1>3, <3>1
      <2> QED BY <2>1, <2>2
<1>6. \A s : /\ StateAfter(e, s) = "incoming" => s = "incoming"
             /\ isTerminal(StateAfter(e, s)) => isTerminal(s) \/ e.name \in {"Ended", "Failed"}
      BY <1>3 DEF StateAfter, isTerminal, EventNames
<1>7. Sessions(c)'
      <2>1. ~isTerminal("incoming") /\ ~isTerminal("calling")
            BY DEF isTerminal
      <2>2. CASE /\ Begins(e, c) /\ c \notin DOMAIN calls /\ c \in DOMAIN calls'
                 /\ calls'[c].state = IF e.name = "Incoming" THEN "incoming" ELSE "calling"
            BY <1>1, <1>3, <1>4, <2>1, <2>2 DEF Core, Sessions, Seen, Begins
      <2>3. CASE /\ About(e, c) /\ c \in DOMAIN calls /\ c \in DOMAIN calls'
                 /\ calls'[c].state = StateAfter(e, calls[c].state)
            BY <1>1, <1>4, <1>6, <2>3 DEF Core, Sessions, Finishes
      <2>4. CASE /\ c \in DOMAIN calls' <=> c \in DOMAIN calls
                 /\ c \in DOMAIN calls => calls'[c] = calls[c]
            BY <1>1, <2>4 DEF Core, Sessions
      <2> QED BY <1>5, <2>2, <2>3, <2>4
<1>8. Words(c)'
      <2>1. Seen(c)' => Seen(c) \/ About(e, c)
            BY <1>1, <1>5 DEF Seen, Begins
      <2> QED BY <1>1, <2>1, WordsTaken DEF Core, e
<1>9. Spared(c)'
      <2>1. \/ Old(c)
            \/ AccountOf[c] \in DOMAIN listing' => calls'[c].seq > listing'[AccountOf[c]]
            BY <1>3, <1>5 DEF Old
      <2>2. Unlisted(AccountOf[c])' <=> Unlisted(AccountOf[c])
            BY OrdersStay
      <2>3. /\ c \in DOMAIN calls' => calls'[c].seq \in Nat
            /\ \A acc \in DOMAIN listing' : listing'[acc] \in Nat
            BY DEF TypeOK
      <2> QED BY <1>1, <2>1, <2>2, <2>3, CallsAssumption, SparedTaken DEF Core
<1>10. Torn(c)'
       BY <1>1, OrdersStay DEF Core, Torn
<1>11. Hidden(c)'
       <2>1. Unnamed(c) => Unnamed(c)'
             BY <1>1, UnnamedKept
       <2> QED BY <1>1, <1>5, <2>1, OrdersStay DEF Core, Hidden
<1> QED BY <1>7, <1>8, <1>9, <1>10, <1>11 DEF Core

\* The list is asked for again.
LEMMA EdgeCore ==
    ASSUME TypeOK, TypeOK', Wired, Awaited, Awaited', NEW c \in Calls, Core(c),
           Handles, Head(toUi).kind = "connected", UNCHANGED <<calls, mseq, dismissed>>,
           toTacky' = toTacky \o <<[kind |-> "list", acc |-> Head(toUi).acc]>>,
           listing' = [a \in DOMAIN listing \cup {Head(toUi).acc} |->
                         IF a = Head(toUi).acc THEN mseq ELSE listing[a]]
    PROVE  Core(c)'
<1> DEFINE acc == Head(toUi).acc
           g == [kind |-> "list", acc |-> acc]
<1>1. /\ toUi # <<>> /\ toUi' = Tail(toUi)
      /\ UNCHANGED <<prompt, torn, cleared, session, trust, online, up, drops>>
      BY HandlesWhat DEF tacky, spent
<1>2. acc \in Accounts
      BY <1>1, HeadOf
<1>3. g \in TackyFrames /\ g.kind = "list" /\ g.acc = acc /\ toTacky' = toTacky \o <<g>>
      BY <1>2 DEF TackyFrames, Asks
<1> HIDE DEF acc, g
<1>4. Sessions(c)'
      BY <1>1 DEF Core, Sessions
<1>5. Words(c)'
      BY <1>1, WordsTaken DEF Core, Seen
<1>6. /\ TornBy(Len(toTacky) + 1, c) => TornBy(Len(toTacky) + 1, c)'
      /\ ListsTooLate(c) /\ (acc = AccountOf[c] => TornBy(Len(toTacky) + 1, c)) => ListsTooLate(c)'
      /\ \A a : Unlisted(a)' <=> Unlisted(a) /\ acc # a
      BY <1>3, OrdersSent
<1>7. Spared(c)'
      <2>1. CASE acc = AccountOf[c]
            BY <1>6, <2>1, NoList
      <2>2. CASE acc # AccountOf[c]
            <3>1. Old(c)
                  BY <2>2 DEF Old, acc
            <3>2. /\ c \in DOMAIN calls' => calls'[c].seq \in Nat
                  /\ \A a \in DOMAIN listing' : listing'[a] \in Nat
                  BY DEF TypeOK
            <3> QED BY <1>1, <1>6, <2>2, <3>1, <3>2, CallsAssumption, SparedTaken DEF Core
      <2> QED BY <2>1, <2>2
<1>8. Torn(c)'
      BY <1>1, <1>6 DEF Core, Torn
<1>9. Hidden(c)'
      <2>1. Unnamed(c) => Unnamed(c)'
            BY <1>1, UnnamedKept
      <2>2. drops = 0 /\ c \in cleared => session[c] = "over" \/ TornBy(Len(toTacky) + 1, c)
            BY DEF Core, Sessions, Torn
      <2> QED BY <1>1, <1>6, <2>1, <2>2 DEF Core, Hidden
<1> QED BY <1>4, <1>5, <1>7, <1>8, <1>9 DEF Core

\* The list that counts is handled.
LEMMA ListCore ==
    ASSUME TypeOK, TypeOK', Wired, Wired', Awaited, Awaited', NEW c \in Calls, Core(c),
           Handles, Head(toUi).kind = "list", ListTaken(Head(toUi)), toTacky' = toTacky
    PROVE  Core(c)'
<1> DEFINE f == Head(toUi)
           acc == f.acc
           told == Told(f.rows, dismissed)
<1>1. /\ toUi # <<>> /\ toUi' = Tail(toUi)
      /\ UNCHANGED <<prompt, torn, cleared, session, trust, online, up, drops>>
      BY HandlesWhat DEF tacky, spent
<1>2. /\ f = toUi[1] /\ 1 \in 1..Len(toUi) /\ acc \in Accounts /\ DOMAIN f.rows \subseteq Calls
      /\ \A d \in DOMAIN f.rows : AccountOf[d] = acc /\ f.rows[d] \in Snapshot
      BY <1>1, HeadOf
<1>3. /\ listing' = [a \in DOMAIN listing \ {acc} |-> listing[a]]
      /\ dismissed' = {d \in dismissed : AccountOf[d] # acc}
      /\ acc \in DOMAIN listing /\ ListsOf(toUi, acc) = {1} /\ Unlisted(acc)
      BY DEF ListTaken
<1>4. /\ DOMAIN calls' = DOMAIN calls \cup told
      /\ \A d \in told \ DOMAIN calls : calls'[d].state = snapshotState(f.rows[d].raw)
      /\ \A d \in told \cap DOMAIN calls :
            /\ calls'[d].seq = calls[d].seq
            /\ calls'[d].state =
                  IF isTerminal(calls[d].state)
                     \/ progress(snapshotState(f.rows[d].raw)) <= progress(calls[d].state)
                  THEN calls[d].state ELSE snapshotState(f.rows[d].raw)
      /\ \A d \in DOMAIN calls \ told :
            /\ calls'[d].seq = calls[d].seq
            /\ calls'[d].state = IF Ends1(d, acc, f.rows, listing[acc]) THEN "ended" ELSE calls[d].state
      BY <1>1, ListRows
<1>5. c \in told => c \in DOMAIN f.rows /\ c \notin Legs /\ c \notin dismissed /\ AccountOf[c] = acc
      BY <1>2 DEF Told, Known
<1>6. Names(f, c) <=> c \in DOMAIN f.rows
      BY DEF Names
<1>7. c \in DOMAIN f.rows =>
         /\ session[c] # "none" /\ f.rows[c].raw \in Live
         /\ f.rows[c].raw = "ringing" => c \notin Placed
      BY <1>2, <1>6 DEF Core, Words, Snapshot
\* The list ends a call that is over.
<1>8. c \in DOMAIN calls \ told /\ Ends1(c, acc, f.rows, listing[acc]) => session[c] = "over"
      <2> SUFFICES ASSUME c \in DOMAIN calls \ told, Ends1(c, acc, f.rows, listing[acc])
                   PROVE  session[c] = "over"
          OBVIOUS
      <2>1. c \notin Legs
            BY DEF Core, Sessions
      <2>2. AccountOf[c] = acc /\ calls[c].seq <= listing[acc] /\ c \notin DOMAIN f.rows
            BY <2>1 DEF Ends1, Known
      <2>3. Latest(acc, 1)
            BY <1>3 DEF Latest
      <2> QED BY <1>2, <2>2, <2>3 DEF Core, Spared
<1> HIDE DEF f, told, acc
<1>9. \A raw \in Live : /\ ~isTerminal(snapshotState(raw))
                        /\ snapshotState(raw) = "incoming" => raw = "ringing" /\ progress(snapshotState(raw)) = 0
      BY DEF Live, snapshotState, isTerminal, progress
<1>10. c \in DOMAIN calls' =>
          /\ session[c] # "none" /\ c \notin Legs /\ c \notin dismissed'
          /\ calls'[c].state = "incoming" => c \notin Placed
          /\ isTerminal(calls'[c].state) => c \in torn \/ session[c] = "over"
       <2>1. CASE c \in told \ DOMAIN calls
             BY <1>3, <1>4, <1>5, <1>7, <1>9, <2>1
       <2>2. CASE c \in told \cap DOMAIN calls
             <3>1. calls'[c].state = calls[c].state \/ calls'[c].state = snapshotState(f.rows[c].raw)
                   BY <1>4, <2>2
             <3> QED BY <1>3, <1>5, <1>7, <1>9, <2>2, <3>1 DEF Core, Sessions
       <2>3. CASE c \in DOMAIN calls \ told
             <3>1. calls'[c].state = calls[c].state \/ (calls'[c].state = "ended" /\ session[c] = "over")
                   BY <1>4, <1>8, <2>3
             <3> QED BY <1>3, <2>3, <3>1 DEF Core, Sessions
       <2> QED BY <1>4, <2>1, <2>2, <2>3
<1>11. Sessions(c)'
       BY <1>1, <1>10 DEF Core, Sessions
<1>12. Words(c)'
       <2>1. Seen(c)' => Seen(c) \/ Names(Head(toUi), c)
             BY <1>1, <1>4, <1>5, <1>6 DEF Seen, f
       <2> QED BY <1>1, <2>1, WordsTaken DEF Core
<1>13. ListsOf(toUi', acc) = {} /\ \A a : Unlisted(a)' <=> Unlisted(a)
       BY <1>1, <1>3, ListsTaken, OrdersStay
<1>14. Spared(c)'
       <2>1. CASE AccountOf[c] = acc
             BY <1>13, <2>1, NoList
       <2>2. CASE AccountOf[c] # acc
             <3>1. Old(c)
                   BY <1>3, <1>4, <1>5, <2>2 DEF Old
             <3>2. /\ c \in DOMAIN calls' => calls'[c].seq \in Nat
                   /\ \A a \in DOMAIN listing' : listing'[a] \in Nat
                   BY DEF TypeOK
             <3> QED BY <1>1, <1>13, <3>1, <3>2, CallsAssumption, SparedTaken DEF Core
       <2> QED BY <2>1, <2>2
<1>15. Torn(c)'
       BY <1>1, OrdersStay DEF Core, Torn
<1>16. Hidden(c)'
       <2>1. CASE AccountOf[c] = acc
             <3>1. ListsTooLate(c)'
                   BY <1>3, <1>13, <2>1 DEF ListsTooLate, Unlisted
             <3>2. Unnamed(c)'
                   <4>1. \A i \in 1..Len(toUi') : toUi'[i] \in UiFrames
                         BY DEF Wired
                   <4>2. \A i \in 1..Len(toUi') : Names(toUi'[i], c) => i \in ListsOf(toUi', acc)
                         BY <2>1, <4>1, UiFields DEF Names, ListsOf
                   <4> QED BY <1>13, <4>2 DEF Unnamed
             <3> QED BY <3>1, <3>2 DEF Hidden
       <2>2. CASE AccountOf[c] # acc
             <3>1. Unnamed(c) => Unnamed(c)'
                   BY <1>1, UnnamedKept
             <3> QED BY <1>1, <1>3, <1>4, <2>2, <3>1, OrdersStay DEF Core, Hidden
       <2> QED BY <2>1, <2>2
<1> QED BY <1>11, <1>12, <1>14, <1>15, <1>16 DEF Core

\* A list that no longer counts is handled.
LEMMA OldListCore ==
    ASSUME TypeOK, Wired, Awaited, Awaited', NEW c \in Calls, Core(c), Handles,
           UNCHANGED <<calls, mseq, listing, dismissed, toTacky>>
    PROVE  Core(c)'
<1>1. /\ toUi # <<>> /\ toUi' = Tail(toUi)
      /\ UNCHANGED <<prompt, torn, cleared, session, trust, online, up, drops>>
      BY HandlesWhat DEF tacky, spent
<1>2. Sessions(c)'
      BY <1>1 DEF Core, Sessions
<1>3. Words(c)'
      BY <1>1, WordsTaken DEF Core, Seen
<1>4. Spared(c)'
      <2>1. Old(c) /\ (Unlisted(AccountOf[c])' <=> Unlisted(AccountOf[c]))
            BY OrdersStay DEF Old
      <2>2. /\ c \in DOMAIN calls' => calls'[c].seq \in Nat
            /\ \A a \in DOMAIN listing' : listing'[a] \in Nat
            BY DEF TypeOK
      <2> QED BY <1>1, <2>1, <2>2, CallsAssumption, SparedTaken DEF Core
<1>5. Torn(c)'
      BY <1>1, OrdersStay DEF Core, Torn
<1>6. Hidden(c)'
      <2>1. Unnamed(c) => Unnamed(c)'
            BY <1>1, UnnamedKept
      <2> QED BY <1>1, <2>1, OrdersStay DEF Core, Hidden
<1> QED BY <1>2, <1>3, <1>4, <1>5, <1>6 DEF Core

\* Something becomes of a call, in tacky.
LEMMA DeedCore ==
    ASSUME TypeOK, Wired, Awaited, Awaited', NEW d \in Calls, Deed(d), UNCHANGED <<ui, drops>>,
           NEW c \in Calls, Core(c), Core(d),
           \/ toTacky' = toTacky
           \/ /\ toTacky # <<>> /\ toTacky' = Tail(toTacky) /\ Head(toTacky).kind # "list"
              /\ Tears(Head(toTacky), c) => session'[c] \notin Live
    PROVE  Core(c)'
<1>1. /\ session' \in [Calls -> Live \cup {"none", "over"}]
      /\ c # d => session'[c] = session[c] /\ trust'[c] = trust[c]
      /\ Lasts(d)
      /\ \/ toUi' = toUi /\ (session'[d] = "over" => session[d] = "over" \/ d \in Legs)
         \/ \E f \in Events : f.call = d /\ Sends(f) /\ Fitting(f, d)
      BY DeedDone, Freshness DEF Core
<1>2. Lasts(c)
      BY <1>1, Freshness DEF Core
<1>3. session'[c] \in Live \cup {"none", "over"}
      BY <1>1
<1>4. CASE toUi' = toUi /\ (session'[d] = "over" => session[d] = "over" \/ d \in Legs)
      <2>1. session'[c] = "over" => session[c] = "over" \/ c \in Legs
            BY <1>1, <1>4
      <2> QED BY <1>2, <1>3, <1>4, <2>1, ToldCore
<1>5. ASSUME NEW f \in Events, f.call = d, Sends(f), Fitting(f, d)
      PROVE  Core(c)'
      <2>1. f.kind = "event" /\ f \in UiFrames
            BY DEF Events, UiFrames
      <2>2. Fitting(f, c)
            <3>1. CASE c = d
                  BY <1>5, <3>1
            <3>2. CASE c # d
                  BY <1>1, <1>5, <2>1, <3>2 DEF Fitting, About, Names, Begins, Finishes
            <3> QED BY <3>1, <3>2
      <2>3. Welcome(f, c)
            BY <2>1, <2>2 DEF Welcome, Names
      <2>4. CASE toUi' = toUi \o <<f>>
            BY <1>2, <1>3, <2>3, <2>4, ToldCore
      <2>5. CASE toUi' = toUi /\ toUi = <<>>
            <3>1. ~up
                  <4>1. up => toUi' = toUi \o <<f>>
                        BY <1>5 DEF Sends, Push
                  <4>2. Len(toUi \o <<f>>) = Len(toUi) + 1 /\ Len(toUi) \in Nat
                        BY <2>1, Longer DEF Wired
                  <4> QED BY <2>5, <4>1, <4>2
            <3>2. toTacky = <<>> /\ drops # 0 /\ toTacky' = toTacky
                  BY <3>1 DEF Wired
            <3>3. Words(c)' /\ Spared(c)'
                  BY <2>5, EmptyWire
            <3>4. Sessions(c)'
                  BY <1>2 DEF Core, Sessions, Lasts, ui
            <3> QED BY <3>2, <3>3, <3>4 DEF Core, Torn, Hidden
      <2> QED BY <1>5, <2>4, <2>5, SendsWhat
<1> QED BY <1>1, <1>4, <1>5

\* tacky answers a list.
LEMMA ListCoreTold ==
    ASSUME TypeOK, Wired, Awaited, Awaited', TackyTakes, TellsList(Head(toTacky)),
           NEW c \in Calls, Core(c)
    PROVE  Core(c)'
<1> DEFINE g == Head(toTacky)
           f == [kind |-> "list", acc |-> g.acc, rows |-> Listed(g.acc)]
<1>1. /\ toTacky # <<>> /\ toTacky' = Tail(toTacky) /\ g \in TackyFrames
      /\ UNCHANGED <<ui, drops>> /\ g.kind = "list" /\ UNCHANGED <<session, trust>>
      /\ toUi' = toUi \o <<f>> /\ g.acc \in Accounts
      BY ToldDeeds, TackyFields DEF TellsList, spent
<1>2. /\ f \in UiFrames /\ f.kind = "list" /\ f.acc = g.acc /\ f.rows = Listed(g.acc)
      /\ DOMAIN f.rows = {d \in Calls : AccountOf[d] = g.acc /\ session[d] \in Live}
      /\ \A d \in DOMAIN f.rows : f.rows[d].raw = session[d]
      BY <1>1, ListOf
<1> HIDE DEF f, g
<1>3. Lasts(c) /\ session'[c] = session[c] /\ session[c] \in Live \cup {"none", "over"}
      BY <1>1, Freshness DEF Core, TypeOK
<1>4. "none" \notin Live /\ "over" \notin Live
      BY DEF Live
<1>5. /\ ~About(f, c) /\ ~Begins(f, c) /\ ~Finishes(f, c)
      /\ Names(f, c) <=> AccountOf[c] = f.acc /\ session[c] \in Live
      BY <1>2 DEF About, Begins, Finishes, Names
<1>6. Fitting(f, c)
      BY <1>2, <1>3, <1>4, <1>5 DEF Fitting, Core, Sessions, Names
<1>7. f.acc = AccountOf[c] => c \in DOMAIN f.rows \/ c \notin DOMAIN calls \/ session'[c] = "over"
      BY <1>2, <1>3 DEF Core, Sessions
<1>8. Welcome(f, c)
      BY <1>1, <1>2, <1>4, <1>5, <1>6, <1>7 DEF Welcome, g
<1>9. ~Tears(Head(toTacky), c)
      BY <1>1 DEF Tears, g
<1> QED BY <1>1, <1>2, <1>3, <1>8, <1>9, ToldCore

\* A connected edge is sent, or nothing.
LEMMA QuietCore ==
    ASSUME Wired, Awaited, Awaited', NEW c \in Calls, Core(c), TypeOK,
           UNCHANGED <<ui, drops, session, trust>>,
           \/ toTacky' = toTacky
           \/ /\ toTacky # <<>> /\ toTacky' = Tail(toTacky) /\ Head(toTacky).kind # "list"
              /\ Tears(Head(toTacky), c) => session[c] \notin Live,
           toUi' = toUi \/ \E acc \in Accounts : toUi' = toUi \o <<EdgeOf(acc)>>
    PROVE  Core(c)'
<1>1. Lasts(c) /\ session'[c] \in Live \cup {"none", "over"}
      BY Freshness DEF Core, TypeOK
<1>2. CASE toUi' = toUi
      BY <1>1, <1>2, ToldCore
<1>3. ASSUME NEW acc \in Accounts, toUi' = toUi \o <<EdgeOf(acc)>>  PROVE Core(c)'
      <2>1. EdgeOf(acc) \in UiFrames /\ EdgeOf(acc).kind = "connected"
            BY EdgeFrame
      <2>2. Welcome(EdgeOf(acc), c)
            BY <2>1 DEF Welcome, Fitting, About, Names, Begins, Finishes
      <2> QED BY <1>1, <1>3, <2>2, ToldCore
<1> QED BY <1>2, <1>3

\* What was under way is lost.
LEMMA LostCore ==
    ASSUME TypeOK, TypeOK', Drop \/ UiDies \/ TackyDies, NEW c \in Calls, Core(c)
    PROVE  Core(c)'
<1>1. toUi' = <<>> /\ drops' = drops + 1 /\ drops \in Nat
      BY DEF Drop, UiDies, TackyDies, TypeOK
<1>2. Words(c)' /\ Spared(c)'
      BY <1>1, EmptyWire
<1>3. Torn(c)' /\ Hidden(c)'
      BY <1>1 DEF Torn, Hidden
<1>4. Sessions(c)'
      <2>1. CASE Drop
            BY <2>1 DEF Drop, Core, Sessions, tacky
      <2>2. CASE UiDies
            BY <2>2 DEF UiDies, Core, Sessions, tacky
      <2>3. CASE TackyDies
            <3>1. /\ UNCHANGED <<calls, torn, cleared, dismissed, trust>>
                  /\ session'[c] = IF session[c] \in Live THEN "over" ELSE session[c]
                  BY <2>3 DEF TackyDies
            <3>2. "none" \notin Live /\ "over" # "none" /\ "ringing" \in Live /\ "proposed" \in Live
                  /\ "alerted" \in Live
                  BY DEF Live
            <3> QED BY <3>1, <3>2 DEF Core, Sessions
      <2> QED BY <2>1, <2>2, <2>3
<1> QED BY <1>2, <1>3, <1>4 DEF Core

\* The user does something.
LEMMA UserCore ==
    ASSUME TypeOK, TypeOK', Wired, Awaited, Awaited', NEW d \in Calls,
           start(d) \/ accept(d) \/ Granted(d) \/ Denied(d) \/ hangup(d) \/ dismiss(d),
           NEW c \in Calls, Core(c)
    PROVE  Core(c)'
<1>1. UNCHANGED <<session, trust, toUi, drops, up, listing>>
      BY DEF start, accept, Granted, Denied, hangup, dismiss, tacky, spent, ui
<1>2. /\ \A k \in {"accept", "reject", "hangup"} : [kind |-> k, call |-> d] \in TackyFrames
      /\ d \in Placed => [kind |-> "start", call |-> d] \in TackyFrames
      BY DEF TackyFrames, Orders
<1>3. toTacky' = toTacky \/ \E g \in TackyFrames : g.kind # "list" /\ toTacky' = toTacky \o <<g>>
      <2>1. \/ toTacky' = toTacky
            \/ \E k \in {"accept", "reject", "hangup"} :
                  toTacky' = Push(toTacky, up, <<[kind |-> k, call |-> d]>>)
            \/ d \in Placed /\ toTacky' = Push(toTacky, up, <<[kind |-> "start", call |-> d]>>)
            BY DEF start, accept, Granted, Denied, hangup, dismiss, Notify
      <2> QED BY <1>2, <2>1 DEF Push
<1>4. \A e \in DOMAIN calls : calls[e] \in Call
      BY DEF TypeOK
<1>5. Touched(c)
      <2>1. CASE start(d) \/ accept(d) \/ Denied(d)
            BY <2>1 DEF start, accept, Denied, Touched, ui
      <2>2. CASE Granted(d)
            <3>1. UNCHANGED <<dismissed, torn, cleared>>
                  BY <2>2 DEF Granted
            <3>2. CASE calls' = calls
                  BY <3>1, <3>2 DEF Touched
            <3>3. CASE calls' = setState(calls, d, "connecting")
                  <4>1. /\ DOMAIN calls' = DOMAIN calls
                        /\ \A e \in DOMAIN calls : calls'[e].seq = calls[e].seq
                        /\ \A e \in DOMAIN calls :
                              calls'[e].state = calls[e].state \/ calls'[e].state = "connecting"
                        <5>1. /\ DOMAIN calls' = DOMAIN calls
                              /\ \A e \in DOMAIN calls : e # d => calls'[e] = calls[e]
                              /\ d \in DOMAIN calls =>
                                    /\ calls'[d].seq = calls[d].seq
                                    /\ calls'[d].state = calls[d].state \/ calls'[d].state = "connecting"
                              BY <1>4, <3>3, StateSet DEF States
                        <5> QED BY <5>1
                  <4> QED BY <3>1, <4>1 DEF Touched, isTerminal
            <3> QED BY <2>2, <3>2, <3>3 DEF Granted
      <2>3. CASE hangup(d)
            <3>1. /\ UNCHANGED <<dismissed, cleared>> /\ torn' = torn \cup {d} /\ d \in DOMAIN calls
                  /\ calls' = setState(calls, d, "ended")
                  BY <2>3 DEF hangup
            <3>2. /\ DOMAIN calls' = DOMAIN calls
                  /\ \A e \in DOMAIN calls : calls'[e].seq = calls[e].seq
                  /\ \A e \in DOMAIN calls : e # d => calls'[e] = calls[e]
                  /\ calls'[d].state = "ended"
                  BY <1>4, <3>1, StateSet DEF States, isTerminal
            <3>3. up => TornBy(Len(toTacky) + 1, d)'
                  <4>1. PICK k \in {"reject", "hangup"} :
                           toTacky' = Push(toTacky, up, <<[kind |-> k, call |-> d]>>)
                        BY <2>3 DEF hangup, Notify
                  <4> DEFINE g == [kind |-> k, call |-> d]
                  <4>2. g \in TackyFrames /\ Tears(g, d)
                        BY <1>2, <4>1 DEF Tears
                  <4>3. up => toTacky' = toTacky \o <<g>>
                        BY <4>1 DEF Push
                  <4> HIDE DEF g
                  <4> QED BY <4>2, <4>3, OrdersSent
            <3> QED BY <3>1, <3>2, <3>3 DEF Touched
      <2>4. CASE dismiss(d)
            <3>1. /\ UNCHANGED torn /\ dismissed' = dismissed \cup {d} /\ cleared' = cleared \cup {d}
                  /\ DOMAIN calls' = DOMAIN calls \ {d} /\ d \in DOMAIN calls
                  /\ isTerminal(calls[d].state)
                  /\ \A e \in DOMAIN calls' : calls'[e] = calls[e]
                  BY <2>4 DEF dismiss
            <3> QED BY <3>1 DEF Touched
      <2> QED BY <2>1, <2>2, <2>3, <2>4
<1> QED BY <1>1, <1>3, <1>5, TouchedCore

\* Every step.
LEMMA CoreStep ==
    ASSUME TypeOK, TypeOK', Wired, Wired', Awaited, Awaited', \A c \in Calls : Core(c), Next,
           NEW c \in Calls
    PROVE  Core(c)'
<1>1. ASSUME NEW d \in Calls,
             start(d) \/ accept(d) \/ Granted(d) \/ Denied(d) \/ hangup(d) \/ dismiss(d)
      PROVE  Core(c)'
      BY <1>1, UserCore
<1>2. ASSUME Handles  PROVE Core(c)'
      <2>1. CASE /\ Head(toUi).kind = "event" /\ UNCHANGED <<listing, dismissed, toTacky>>
                 /\ calls' = handleEvent([calls |-> calls, seq |-> mseq], Head(toUi)).calls
                 /\ mseq' = handleEvent([calls |-> calls, seq |-> mseq], Head(toUi)).seq
            BY <1>2, <2>1, EventCore
      <2>2. CASE /\ Head(toUi).kind = "connected" /\ UNCHANGED <<calls, mseq, dismissed>>
                 /\ toTacky' = toTacky \o <<[kind |-> "list", acc |-> Head(toUi).acc]>>
                 /\ listing' = [a \in DOMAIN listing \cup {Head(toUi).acc} |->
                                  IF a = Head(toUi).acc THEN mseq ELSE listing[a]]
            BY <1>2, <2>2, EdgeCore
      <2>3. CASE Head(toUi).kind = "list" /\ ListTaken(Head(toUi)) /\ toTacky' = toTacky
            BY <1>2, <2>3, ListCore
      <2>4. CASE UNCHANGED <<calls, mseq, listing, dismissed, toTacky>>
            BY <1>2, <2>4, OldListCore
      <2> QED BY <1>2, <2>1, <2>2, <2>3, <2>4, HandlesWhat
<1>3. ASSUME NEW d \in Calls, TackyMoves(d)  PROVE Core(c)'
      <2>1. Deed(d) /\ UNCHANGED <<ui, drops, toTacky>>
            BY <1>3, OwnDeeds DEF spent
      <2> QED BY <2>1, DeedCore
<1>4. ASSUME TackyTakes  PROVE Core(c)'
      <2> DEFINE g == Head(toTacky)
      <2>1. /\ toTacky # <<>> /\ toTacky' = Tail(toTacky) /\ g \in TackyFrames
            /\ UNCHANGED <<ui, drops>>
            /\ Obeys(g) \/ TellsList(g) \/ TellsState(g) \/ Ignores(g)
            BY <1>4, ToldDeeds DEF spent
      <2>2. /\ g.kind \in {"list", "pull"} => g.acc \in Accounts
            /\ g.kind \in {"start", "accept", "reject", "hangup"} => g.call \in Calls
            BY <2>1, TackyFields
      <2>3. CASE Obeys(g)
            <3>1. Tears(g, c) => session'[c] \notin Live
                  BY <2>3 DEF Obeys, Tears, Live
            <3>2. g.kind # "list" /\ g.call \in Calls /\ Deed(g.call)
                  BY <2>2, <2>3 DEF Obeys
            <3> QED BY <2>1, <3>1, <3>2, DeedCore
      <2>4. CASE TellsList(g)
            BY <1>4, <2>4, ListCoreTold
      <2>5. CASE TellsState(g)
            <3>1. /\ g.kind = "pull" /\ UNCHANGED <<session, trust>> /\ g.acc \in Accounts
                  /\ toUi' = toUi \/ toUi' = toUi \o <<EdgeOf(g.acc)>>
                  BY <2>2, <2>5 DEF TellsState, EdgeOf
            <3>2. ~Tears(g, c)
                  BY <3>1 DEF Tears
            <3> QED BY <2>1, <3>1, <3>2, QuietCore
      <2>6. CASE Ignores(g)
            <3>1. Tears(g, c) => session[c] \notin Live
                  BY <2>6 DEF Ignores, Tears
            <3>2. g.kind # "list" /\ UNCHANGED <<session, trust, toUi>>
                  BY <2>6 DEF Ignores
            <3> QED BY <2>1, <3>1, <3>2, QuietCore
      <2> QED BY <2>1, <2>3, <2>4, <2>5, <2>6
<1>5. ASSUME NEW acc \in Accounts, Connect(acc) \/ Disconnect(acc)  PROVE Core(c)'
      <2>1. /\ UNCHANGED <<ui, session, trust, toTacky, drops>>
            /\ toUi' = toUi \/ Sends(EdgeOf(acc))
            BY <1>5 DEF Connect, Disconnect, Sends, EdgeOf, spent
      <2>2. toUi' = toUi \/ toUi' = toUi \o <<EdgeOf(acc)>>
            BY <2>1, SendsWhat
      <2> QED BY <2>1, <2>2, QuietCore
<1>6. ASSUME Drop \/ UiDies \/ TackyDies  PROVE Core(c)'
      BY <1>6, LostCore
<1>7. ASSUME Attach  PROVE Core(c)'
      <2>1. ~up /\ UNCHANGED <<ui, tacky, spent>> /\ toUi' = <<>>
            BY <1>7 DEF Attach, Wired
      <2>2. drops' # 0
            BY <2>1 DEF Wired, spent
      <2>3. Sessions(c)'
            BY <2>1 DEF Core, Sessions, ui, tacky
      <2> QED BY <2>1, <2>2, <2>3, EmptyWire DEF Core, Torn, Hidden
<1> QED BY <1>1, <1>2, <1>3, <1>4, <1>5, <1>6, <1>7 DEF Next

-----------------------------------------------------------------------------
(* Rows move forward.                                                       *)

LEMMA SafeInit == Init => Safe
<1> SUFFICES ASSUME Init PROVE Safe
    OBVIOUS
<1>1. /\ DOMAIN calls = {} /\ DOMAIN listing = {} /\ mseq = 0
      /\ dismissed = {} /\ prompt = {} /\ torn = {} /\ cleared = {}
      /\ session = [c \in Calls |-> "none"] /\ trust = [c \in Calls |-> FALSE]
      /\ online = {} /\ up = TRUE /\ toTacky = <<>> /\ toUi = <<>> /\ drops = 0 /\ offs = 0
      BY DEF Init
<1>2. TypeOK
      BY <1>1, CallsAssumption DEF TypeOK
<1>3. Wired
      BY <1>1, EmptySeq DEF Wired
<1>4. Awaited
      BY <1>1 DEF Awaited, Unlisted, ListsOf
<1>5. ASSUME NEW c \in Calls  PROVE Core(c)
      <2>1. session[c] = "none" /\ ~trust[c] /\ Len(toUi) = 0
            BY <1>1
      <2> QED BY <1>1, <2>1 DEF Core, Sessions, Words, Spared, Torn, Hidden
<1> QED BY <1>2, <1>3, <1>4, <1>5 DEF Safe

LEMMA SafeStep == Safe /\ [Next]_vars => Safe'
<1> SUFFICES ASSUME Safe, [Next]_vars PROVE Safe'
    OBVIOUS
<1>1. CASE Next
      <2>1. \A c \in Calls : Fresh(c)
            BY Freshness DEF Safe, Core
      <2>2. TypeOK' /\ Wired' /\ Awaited'
            BY <1>1, <2>1, TypeStep, AwaitedStep DEF Safe
      <2>3. \A c \in Calls : Core(c)'
            BY <1>1, <2>2, CoreStep DEF Safe
      <2> QED BY <2>2, <2>3 DEF Safe
<1>2. CASE UNCHANGED vars
      <2>1. /\ calls' = calls /\ mseq' = mseq /\ listing' = listing /\ dismissed' = dismissed
            /\ prompt' = prompt /\ torn' = torn /\ cleared' = cleared /\ session' = session
            /\ trust' = trust /\ online' = online /\ up' = up /\ toTacky' = toTacky
            /\ toUi' = toUi /\ drops' = drops /\ offs' = offs
            BY <1>2 DEF vars, ui, tacky, spent
      <2>2. TypeOK'
            BY <2>1 DEF Safe, TypeOK
      <2>3. Wired'
            BY <2>1 DEF Safe, Wired
      <2>4. Awaited'
            BY <2>1 DEF Safe, Awaited, Unlisted
      <2>5. ASSUME NEW c \in Calls  PROVE Core(c)'
            <3>1. Core(c)
                  BY DEF Safe
            <3>2. Sessions(c)'
                  BY <2>1, <3>1 DEF Core, Sessions
            <3>3. Words(c)'
                  BY <2>1, <3>1 DEF Core, Words, OverAfter
            <3>4. Spared(c)'
                  BY <2>1, <3>1 DEF Core, Spared, Latest, Unlisted
            <3>5. Torn(c)' /\ Hidden(c)'
                  BY <2>1, <3>1 DEF Core, Torn, Hidden, TornBy, Unnamed, ListsTooLate
            <3> QED BY <3>2, <3>3, <3>4, <3>5 DEF Core
      <2> QED BY <2>2, <2>3, <2>4, <2>5 DEF Safe
<1> QED BY <1>1, <1>2

\* At every time, of every call: a row shown as over is of a call that is over or hung
\* up, what is under way says nothing of a call before its first word or after its
\* last, no list that will count leaves out a row it would end too soon, and what was
\* hung up or dismissed here is not brought back (CallsModel::handleEvent,
\* applySnapshot, hangup, dismiss).
THEOREM SafeAlways == Spec => []Safe
<1> QED BY SafeInit, SafeStep, PTL DEF Spec

\* No step takes a row back.
LEMMA NoStepBack ==
    ASSUME Safe, Next
    PROVE  \A c \in DOMAIN calls \cap DOMAIN calls' :
              progress(calls[c].state) <= progress(calls'[c].state)
<1>1. /\ \A c \in DOMAIN calls : calls[c] \in Call
      /\ \A s \in States : progress(s) \in 0..4 /\ (progress(s) = 4 <=> isTerminal(s))
      /\ \A c \in DOMAIN calls : calls[c].state \in States
      BY SnapshotWords DEF Safe, TypeOK, Call
<1> SUFFICES ASSUME NEW c \in DOMAIN calls, c \in DOMAIN calls'
             PROVE  progress(calls[c].state) <= progress(calls'[c].state)
    OBVIOUS
<1>2. progress(calls[c].state) \in 0..4
      BY <1>1
<1>3. CASE calls' = calls
      BY <1>2, <1>3
<1>4. ASSUME NEW d \in Calls,
             start(d) \/ accept(d) \/ Granted(d) \/ Denied(d) \/ hangup(d) \/ dismiss(d)
      PROVE  progress(calls[c].state) <= progress(calls'[c].state)
      <2>1. \/ calls' = calls
            \/ calls[d].state = "incoming" /\ calls' = setState(calls, d, "connecting")
            \/ calls' = setState(calls, d, "ended")
            \/ calls' = [e \in DOMAIN calls \ {d} |-> calls[e]]
            BY <1>4 DEF start, accept, Granted, Denied, hangup, dismiss, ui
      <2>2. CASE calls[d].state = "incoming" /\ calls' = setState(calls, d, "connecting")
            <3>1. calls'[c] = calls[c] \/ (c = d /\ calls'[c].state = "connecting")
                  BY <1>1, <2>2, StateSet DEF States, isTerminal
            <3> QED BY <1>2, <2>2, <3>1 DEF progress
      <2>3. CASE calls' = setState(calls, d, "ended")
            <3>1. calls'[c] = calls[c] \/ calls'[c].state = "ended"
                  BY <1>1, <2>3, StateSet DEF States, isTerminal
            <3> QED BY <1>2, <3>1 DEF progress
      <2>4. CASE calls' = [e \in DOMAIN calls \ {d} |-> calls[e]]
            BY <1>2, <2>4
      <2> QED BY <1>3, <2>1, <2>2, <2>3, <2>4
<1>5. ASSUME Handles
      PROVE  progress(calls[c].state) <= progress(calls'[c].state)
      <2> DEFINE f == Head(toUi)
      <2>1. toUi # <<>> /\ TypeOK /\ Wired
            BY <1>5, HandlesWhat DEF Safe
      <2>2. CASE /\ f.kind = "event"
                 /\ calls' = handleEvent([calls |-> calls, seq |-> mseq], f).calls
                 /\ mseq' = handleEvent([calls |-> calls, seq |-> mseq], f).seq
            <3>1. f \in Events
                  BY <2>1, <2>2, HeadOf
            <3> HIDE DEF f
            <3>2. calls'[c] = calls[c] \/ calls'[c].state = StateAfter(f, calls[c].state)
                  BY <2>1, <2>2, <3>1, EventRows
            <3>3. progress(calls[c].state) <= progress(StateAfter(f, calls[c].state))
                  BY <1>1, <1>2 DEF StateAfter, progress, States, isTerminal
            <3> QED BY <1>2, <3>2, <3>3
      <2>3. CASE f.kind = "list" /\ ListTaken(f)
            <3>1. /\ DOMAIN f.rows \subseteq Calls /\ \A d \in DOMAIN f.rows : f.rows[d] \in Snapshot
                  BY <2>1, <2>3, HeadOf
            <3>2. \/ calls'[c].state = calls[c].state \/ calls'[c].state = "ended"
                  \/ /\ calls'[c].state = snapshotState(f.rows[c].raw)
                     /\ c \in Told(f.rows, dismissed)
                     /\ ~(progress(snapshotState(f.rows[c].raw)) <= progress(calls[c].state))
                  BY <2>1, <2>3, ListRows
            <3> HIDE DEF f
            <3>3. c \in Told(f.rows, dismissed) => c \in DOMAIN f.rows
                  BY DEF Told, Known
            <3>4. c \in DOMAIN f.rows => progress(snapshotState(f.rows[c].raw)) \in 0..4
                  BY <1>1, <3>1, SnapshotWords DEF Snapshot
            <3>5. progress("ended") = 4
                  BY DEF progress
            <3> QED BY <1>2, <3>2, <3>3, <3>4, <3>5
      <2> QED BY <1>3, <1>5, <2>2, <2>3, HandlesWhat
<1>6. CASE \/ \E d \in Calls : TackyMoves(d)
           \/ \E acc \in Accounts : Connect(acc) \/ Disconnect(acc)
           \/ TackyTakes
           \/ Drop \/ Attach \/ TackyDies
      <2>1. calls' = calls
            BY <1>6 DEF TackyMoves, Connect, Disconnect, TackyTakes, Drop, Attach, TackyDies, ui
      <2> QED BY <1>3, <2>1
<1>7. CASE UiDies
      BY <1>7 DEF UiDies
<1> QED BY <1>4, <1>5, <1>6, <1>7 DEF Next

\* None that was dismissed comes back, as long as the link holds.
LEMMA NoneComesBack ==
    ASSUME Safe, Next, drops' = 0, NEW c \in cleared \cap cleared', c \notin DOMAIN calls
    PROVE  c \notin DOMAIN calls'
<1>1. c \in Calls /\ drops \in Nat /\ Core(c) /\ Seen(c)
      BY DEF Safe, TypeOK, Seen
<1>2. ASSUME NEW d \in Calls,
             start(d) \/ accept(d) \/ Granted(d) \/ Denied(d) \/ hangup(d) \/ dismiss(d)
      PROVE  c \notin DOMAIN calls'
      <2>1. \/ calls' = calls
            \/ \E s \in {"connecting", "ended"} : calls' = setState(calls, d, s)
            \/ calls' = [e \in DOMAIN calls \ {d} |-> calls[e]]
            BY <1>2 DEF start, accept, Granted, Denied, hangup, dismiss, ui
      <2>2. \A s : DOMAIN setState(calls, d, s) = DOMAIN calls
            BY DEF setState
      <2> QED BY <2>1, <2>2
<1>3. ASSUME Handles
      PROVE  c \notin DOMAIN calls'
      <2> DEFINE f == Head(toUi)
      <2>1. toUi # <<>> /\ TypeOK /\ Wired /\ drops = 0 /\ f = toUi[1] /\ 1 \in 1..Len(toUi)
            BY <1>3, HandlesWhat, HeadOf DEF Safe, spent
      <2>2. CASE /\ f.kind = "event"
                 /\ calls' = handleEvent([calls |-> calls, seq |-> mseq], f).calls
                 /\ mseq' = handleEvent([calls |-> calls, seq |-> mseq], f).seq
            <3>1. f \in Events
                  BY <2>1, <2>2, HeadOf
            <3>2. ~Begins(f, c)
                  BY <1>1, <2>1 DEF Core, Words, Seen
            <3> HIDE DEF f
            <3>3. \/ DOMAIN calls' = DOMAIN calls
                  \/ DOMAIN calls' = DOMAIN calls \cup {f.call} /\ f.name \in {"Incoming", "Outgoing"}
                  BY <2>1, <2>2, <3>1, EventRows
            <3> QED BY <2>2, <3>2, <3>3 DEF Begins, About
      <2>3. CASE f.kind = "list" /\ ListTaken(f)
            <3>1. c \in dismissed \/ ~Names(f, c)
                  BY <1>1, <2>1 DEF Core, Hidden, Unnamed
            <3>2. DOMAIN calls' = DOMAIN calls \cup Told(f.rows, dismissed)
                  BY <2>1, <2>3, ListRows
            <3> HIDE DEF f
            <3> QED BY <2>3, <3>1, <3>2 DEF Told, Known, Names
      <2>4. CASE calls' = calls
            BY <2>4
      <2> QED BY <1>3, <2>2, <2>3, <2>4, HandlesWhat
<1>4. CASE \/ \E d \in Calls : TackyMoves(d)
           \/ \E acc \in Accounts : Connect(acc) \/ Disconnect(acc)
           \/ TackyTakes
           \/ Attach
      BY <1>4 DEF TackyMoves, Connect, Disconnect, TackyTakes, Attach, ui
<1>5. CASE Drop \/ UiDies \/ TackyDies
      BY <1>1, <1>5 DEF Drop, UiDies, TackyDies
<1> QED BY <1>2, <1>3, <1>4, <1>5 DEF Next

\* A row only ever moves forward, and one the user is done with does not come back
\* while the link holds (CallsModel::setState, applySnapshot).
THEOREM RowsMoveForward == Spec => ForwardOnly
<1>1. ASSUME Safe, [Next]_vars
      PROVE  [/\ \A c \in DOMAIN calls \cap DOMAIN calls' :
                   progress(calls[c].state) <= progress(calls'[c].state)
              /\ drops' = 0 =>
                   \A c \in (cleared \cap cleared') \ DOMAIN calls : c \notin DOMAIN calls']_vars
      BY <1>1, NoStepBack, NoneComesBack
<1> QED BY <1>1, SafeAlways, PTL DEF Spec, ForwardOnly

-----------------------------------------------------------------------------
(* That what is so will be shown.                                           *)

\* Where everything is asked for again, or is being asked.
LEMMA Asking ==
    ASSUME NEW c \in Calls, WillAsk(AccountOf[c])'
    PROVE  Bright(c)'
BY DEF Bright, Shown, Progressed, Passing, Trusted, Wanted, Fetching

\* What is at a place, after a frame is sent, and after one is taken.
LEMMA SentPlaces ==
    ASSUME Wired, NEW c \in Calls, NEW f \in UiFrames, toUi' = toUi \o <<f>>,
           Unlisted(AccountOf[c])' <=> Unlisted(AccountOf[c]),
           ~(f.kind = "list" /\ f.acc = AccountOf[c])
    PROVE  /\ Len(toUi) \in Nat /\ Len(toUi') = Len(toUi) + 1
           /\ \A i \in 1..Len(toUi) :
                 /\ i \in 1..Len(toUi') /\ toUi'[i] = toUi[i]
                 /\ Latest(AccountOf[c], i)' <=> Latest(AccountOf[c], i)
                 /\ Tells(i, c)' <=> Tells(i, c)
                 /\ Brings(i, c)' <=> Brings(i, c)
                 /\ Verdict(i, c)' <=> Verdict(i, c)
                 /\ Says(i, c)' = Says(i, c)
           /\ \A i \in 1..Len(toUi') : i \in 1..Len(toUi) \/ i = Len(toUi) + 1
           /\ Len(toUi) + 1 \in 1..Len(toUi') /\ toUi'[Len(toUi) + 1] = f
           /\ \A i \in 1..Len(toUi') : i = Len(toUi) + 1 =>
                 /\ ~Tells(i, c)' /\ (Brings(i, c)' <=> Begins(f, c))
                 /\ (Verdict(i, c)' <=> About(f, c) /\ f.name = "Verified")
                 /\ f.kind # "list" => Says(i, c)' = f.flag
<1>1. /\ Len(toUi) \in Nat /\ Len(toUi') = Len(toUi) + 1
      /\ \A i \in 1..Len(toUi) : toUi'[i] = toUi[i] /\ i \in 1..Len(toUi')
      /\ toUi'[Len(toUi) + 1] = f
      /\ Len(toUi) + 1 \in 1..Len(toUi')
      BY Longer DEF Wired
<1>2. \A i \in 1..Len(toUi') :
         Latest(AccountOf[c], i)' <=> Latest(AccountOf[c], i) /\ i \in 1..Len(toUi)
      BY LatestSent
<1>3. \A i \in 1..Len(toUi) : Tells(i, c)' <=> Tells(i, c)
      BY <1>1, <1>2 DEF Tells
<1>4. \A i \in 1..Len(toUi) : /\ Brings(i, c)' <=> Brings(i, c)
                              /\ Verdict(i, c)' <=> Verdict(i, c)
                              /\ Says(i, c)' = Says(i, c)
      BY <1>1, <1>3 DEF Brings, Verdict, Says
<1>6. \A i \in 1..Len(toUi') : i = Len(toUi) + 1 =>
         /\ ~Tells(i, c)' /\ (Brings(i, c)' <=> Begins(f, c))
         /\ (Verdict(i, c)' <=> About(f, c) /\ f.name = "Verified")
         /\ f.kind # "list" => Says(i, c)' = f.flag
      BY <1>1, <1>2 DEF Tells, Brings, Verdict, Says
<1>7. \A i \in 1..Len(toUi') : i \in 1..Len(toUi) \/ i = Len(toUi) + 1
      BY <1>1
<1> QED BY <1>1, <1>2, <1>3, <1>4, <1>6, <1>7

LEMMA TakenPlaces ==
    ASSUME Wired, NEW c \in Calls, toUi # <<>>, toUi' = Tail(toUi),
           Unlisted(AccountOf[c])' <=> Unlisted(AccountOf[c])
    PROVE  /\ Len(toUi') = Len(toUi) - 1 /\ Len(toUi) \in Nat \ {0}
           /\ Head(toUi) = toUi[1] /\ 1 \in 1..Len(toUi)
           /\ \A i \in 1..Len(toUi') :
                 /\ i + 1 \in 2..Len(toUi) /\ i + 1 \in 1..Len(toUi) /\ toUi'[i] = toUi[i + 1]
                 /\ Latest(AccountOf[c], i)' <=> Latest(AccountOf[c], i + 1)
                 /\ Tells(i, c)' <=> Tells(i + 1, c)
                 /\ Brings(i, c)' <=> Brings(i + 1, c)
                 /\ Verdict(i, c)' <=> Verdict(i + 1, c)
                 /\ Says(i, c)' = Says(i + 1, c)
           /\ \A i \in 1..Len(toUi) :
                 i = 1 \/ (i - 1 \in 1..Len(toUi') /\ (i - 1) + 1 = i)
<1>1. /\ Len(toUi') = Len(toUi) - 1 /\ Len(toUi) \in Nat \ {0} /\ Head(toUi) = toUi[1]
      /\ 1 \in 1..Len(toUi)
      /\ \A i \in 1..Len(toUi') : toUi'[i] = toUi[i + 1] /\ i + 1 \in 2..Len(toUi)
      BY Shorter DEF Wired
<1>2. \A i \in 1..Len(toUi') : Latest(AccountOf[c], i)' <=> Latest(AccountOf[c], i + 1)
      BY LatestTaken
<1>3. \A i \in 1..Len(toUi') : Tells(i, c)' <=> Tells(i + 1, c)
      BY <1>1, <1>2 DEF Tells
<1>4. \A i \in 1..Len(toUi') : /\ Brings(i, c)' <=> Brings(i + 1, c)
                               /\ Verdict(i, c)' <=> Verdict(i + 1, c)
                               /\ Says(i, c)' = Says(i + 1, c)
      BY <1>1, <1>3 DEF Brings, Verdict, Says
<1>5. \A i \in 1..Len(toUi) : i = 1 \/ (i - 1 \in 1..Len(toUi') /\ (i - 1) + 1 = i)
      BY <1>1
<1>6. \A i \in 1..Len(toUi') : i + 1 \in 1..Len(toUi)
      BY <1>1
<1> QED BY <1>1, <1>2, <1>3, <1>4, <1>5, <1>6

\* What is asked for again stays so, whatever else is sent and taken.
LEMMA StillAsks ==
    ASSUME Wired, NEW acc, up' = up, acc \notin online => acc \notin online',
           \/ toUi' = toUi
           \/ \E f \in UiFrames : toUi' = toUi \o <<f>>
           \/ /\ toUi # <<>> /\ toUi' = Tail(toUi)
              /\ ~(Head(toUi).kind = "connected" /\ Head(toUi).acc = acc),
           \/ toTacky' = toTacky
           \/ \E g \in TackyFrames : toTacky' = toTacky \o <<g>>
           \/ /\ toTacky # <<>> /\ toTacky' = Tail(toTacky)
              /\ ~(Head(toTacky).kind = "pull" /\ Head(toTacky).acc = acc)
    PROVE  WillAsk(acc) => WillAsk(acc)'
<1>1. EdgeOut(acc) => EdgeOut(acc)'
      <2> SUFFICES ASSUME NEW i \in 1..Len(toUi), toUi[i].kind = "connected", toUi[i].acc = acc
                   PROVE  EdgeOut(acc)'
          BY DEF EdgeOut
      <2>1. CASE toUi' = toUi
            BY <2>1 DEF EdgeOut
      <2>2. ASSUME NEW f \in UiFrames, toUi' = toUi \o <<f>>  PROVE EdgeOut(acc)'
            <3>1. i \in 1..Len(toUi') /\ toUi'[i] = toUi[i]
                  BY <2>2, Longer DEF Wired
            <3> QED BY <3>1 DEF EdgeOut
      <2>3. CASE /\ toUi # <<>> /\ toUi' = Tail(toUi)
                 /\ ~(Head(toUi).kind = "connected" /\ Head(toUi).acc = acc)
            <3>1. i # 1
                  BY <2>3, Shorter DEF Wired
            <3>2. i - 1 \in 1..Len(toUi') /\ toUi'[i - 1] = toUi[i]
                  BY <2>3, <3>1, Shorter DEF Wired
            <3> QED BY <3>2 DEF EdgeOut
      <2> QED BY <2>1, <2>2, <2>3
<1>2. PullOut(acc) => PullOut(acc)'
      <2> SUFFICES ASSUME NEW i \in 1..Len(toTacky), toTacky[i].kind = "pull", toTacky[i].acc = acc
                   PROVE  PullOut(acc)'
          BY DEF PullOut
      <2>1. CASE toTacky' = toTacky
            BY <2>1 DEF PullOut
      <2>2. ASSUME NEW g \in TackyFrames, toTacky' = toTacky \o <<g>>  PROVE PullOut(acc)'
            <3>1. i \in 1..Len(toTacky') /\ toTacky'[i] = toTacky[i]
                  BY <2>2, Longer DEF Wired
            <3> QED BY <3>1 DEF PullOut
      <2>3. CASE /\ toTacky # <<>> /\ toTacky' = Tail(toTacky)
                 /\ ~(Head(toTacky).kind = "pull" /\ Head(toTacky).acc = acc)
            <3>1. i # 1
                  BY <2>3, Shorter DEF Wired
            <3>2. i - 1 \in 1..Len(toTacky') /\ toTacky'[i - 1] = toTacky[i]
                  BY <2>3, <3>1, Shorter DEF Wired
            <3> QED BY <3>2 DEF PullOut
      <2> QED BY <2>1, <2>2, <2>3
<1> QED BY <1>1, <1>2 DEF WillAsk

\* Nothing of what an account is asked for has changed.
Steady(acc) == (WillAsk(acc) => WillAsk(acc)') /\ (Unlisted(acc)' <=> Unlisted(acc))

LEMMA SteadyFetch ==
    ASSUME NEW acc, Steady(acc)
    PROVE  Fetching(acc) => Fetching(acc)'
BY DEF Steady, Fetching

\* What tacky does of a call, as the frame it sends tells of it ...
Tale(f, c) ==
    c \notin Legs =>
       /\ session'[c] \in Live /\ session[c] \notin Live => Begins(f, c)
       /\ session'[c] \in {"alerted", "active"} /\ session'[c] # session[c] =>
             session[c] \in Live /\ Raises(f, c, progress(snapshotState(session'[c])))
       /\ session'[c] = "over" /\ session[c] # "over" => Finishes(f, c)
       /\ About(f, c) /\ f.name = "Verified" => f.flag = trust'[c]
       /\ trust'[c] # trust[c] => About(f, c) /\ f.name = "Verified"
       /\ Begins(f, c) => ~trust'[c] /\ session[c] = "none"

\* ... and where it sends none.
Mute(c) ==
    c \notin Legs =>
       /\ session'[c] \in Live => session[c] \in Live
       /\ session'[c] \in {"alerted", "active"} => session'[c] = session[c]
       /\ session'[c] = "over" => session[c] = "over"
       /\ trust'[c] = trust[c]

\* How far a call is that is alerted, or active.
LEMMA HowFar == progress(snapshotState("alerted")) = 1 /\ progress(snapshotState("active")) = 3
BY DEF progress, snapshotState

LEMMA FarEnough ==
    ASSUME NEW c
    PROVE  /\ Progressed(c) <=>
                 (Wanted(c) => /\ session[c] = "alerted" => Reaches(c, 1)
                               /\ session[c] = "active" => Reaches(c, 3))
           /\ Progressed(c)' <=>
                 (Wanted(c)' => /\ session'[c] = "alerted" => Reaches(c, 1)'
                                /\ session'[c] = "active" => Reaches(c, 3)')
BY HowFar DEF Progressed, Reaches

LEMMA BrightSent ==
    ASSUME Wired, NEW c \in Calls, Core(c), Bright(c), Lasts(c), UNCHANGED ui, Steady(AccountOf[c]),
           session[c] \in Live \cup {"none", "over"},
           NEW f \in UiFrames, toUi' = toUi \o <<f>>, ~(f.kind = "list" /\ f.acc = AccountOf[c]),
           Tale(f, c)
    PROVE  Bright(c)'
<1> DEFINE acc == AccountOf[c]
           n == Len(toUi)
<1>1. /\ n \in Nat /\ Len(toUi') = n + 1
      /\ \A i \in 1..n :
            /\ i \in 1..Len(toUi') /\ toUi'[i] = toUi[i]
            /\ Latest(acc, i)' <=> Latest(acc, i)
            /\ Tells(i, c)' <=> Tells(i, c)
            /\ Brings(i, c)' <=> Brings(i, c)
            /\ Verdict(i, c)' <=> Verdict(i, c)
            /\ Says(i, c)' = Says(i, c)
      /\ \A i \in 1..Len(toUi') : i \in 1..n \/ i = n + 1
      /\ n + 1 \in 1..Len(toUi') /\ toUi'[n + 1] = f
      /\ \A i \in 1..Len(toUi') : i = n + 1 =>
            /\ ~Tells(i, c)' /\ (Brings(i, c)' <=> Begins(f, c))
            /\ (Verdict(i, c)' <=> About(f, c) /\ f.name = "Verified")
            /\ f.kind # "list" => Says(i, c)' = f.flag
      BY SentPlaces DEF Steady
<1>2. /\ Fetching(acc) => Fetching(acc)'
      /\ calls' = calls /\ torn' = torn /\ listing' = listing
      BY SteadyFetch DEF ui
<1>3. Wanted(c)' => Wanted(c) \/ (session[c] = "none" /\ Begins(f, c))
      BY <1>2 DEF Wanted, Tale, Lasts, Live
<1>4. Shown(c)'
      <2>1. CASE ~Wanted(c)'
            BY <2>1 DEF Shown
      <2>2. CASE Wanted(c) /\ c \in DOMAIN calls
            BY <1>2, <2>2 DEF Shown
      <2>3. ASSUME NEW i \in 1..n, Brings(i, c)  PROVE Shown(c)'
            BY <1>1, <2>3 DEF Shown
      <2>4. CASE Begins(f, c)
            BY <1>1, <2>4 DEF Shown
      <2> QED BY <1>3, <2>1, <2>2, <2>3, <2>4 DEF Bright, Shown
<1>5. ASSUME NEW p, Reaches(c, p)  PROVE Reaches(c, p)'
      <2>1. CASE c \in DOMAIN calls /\ p <= progress(calls[c].state)
            BY <1>2, <2>1 DEF Reaches
      <2>2. ASSUME NEW k \in 1..n, Raises(toUi[k], c, p),
                   c \in DOMAIN calls \/ \E j \in 1..n : j < k /\ Brings(j, c)
            PROVE  Reaches(c, p)'
            <3>1. k \in 1..Len(toUi') /\ Raises(toUi'[k], c, p)
                  BY <1>1, <2>2
            <3>2. c \in DOMAIN calls' \/ \E j \in 1..Len(toUi') : j < k /\ Brings(j, c)'
                  BY <1>1, <1>2, <2>2
            <3> QED BY <3>1, <3>2 DEF Reaches
      <2>3. ASSUME NEW k \in 1..n, Tells(k, c), p <= progress(snapshotState(toUi[k].rows[c].raw))
            PROVE  Reaches(c, p)'
            BY <1>1, <2>3 DEF Reaches
      <2> QED BY <1>5, <2>1, <2>2, <2>3 DEF Reaches
<1>6. Progressed(c)'
      <2>1. ASSUME Wanted(c)', NEW s \in {"alerted", "active"}, session'[c] = s, NEW p \in {1, 3},
                   p = progress(snapshotState(s))
            PROVE  Reaches(c, p)'
            <3>1. c \notin Legs
                  BY <2>1 DEF Wanted
            <3>2. CASE session[c] = s
                  <4>1. Wanted(c)
                        BY <1>2, <2>1, <3>2 DEF Wanted, Live
                  <4>2. Reaches(c, p)
                        BY <2>1, <3>2, <4>1, FarEnough, HowFar DEF Bright
                  <4> QED BY <1>5, <4>2
            <3>3. CASE session[c] # s
                  <4>1. session[c] \in Live /\ Raises(f, c, p)
                        BY <2>1, <3>1, <3>3 DEF Tale
                  <4>2. Wanted(c)
                        BY <1>2, <2>1, <4>1 DEF Wanted
                  <4>3. c \in DOMAIN calls' \/ \E j \in 1..Len(toUi') : j < n + 1 /\ Brings(j, c)'
                        BY <1>1, <1>2, <4>2 DEF Bright, Shown
                  <4> QED BY <1>1, <4>1, <4>3 DEF Reaches
            <3> QED BY <3>2, <3>3
      <2> QED BY <2>1, FarEnough, HowFar
<1>7. Passing(c)'
      <2> SUFFICES ASSUME c \in DOMAIN calls', ~isTerminal(calls'[c].state), session'[c] = "over"
                   PROVE  \/ OverAfter(0, c)' \/ WillAsk(acc)'
                          \/ /\ acc \in DOMAIN listing' /\ calls'[c].seq <= listing'[acc]
                             /\ \/ ~Unlisted(acc)'
                                \/ \E i \in 1..Len(toUi') : Latest(acc, i)' /\ c \notin DOMAIN toUi'[i].rows
          BY DEF Passing
      <2>1. CASE session[c] # "over"
            <3>1. c \notin Legs
                  BY <1>2 DEF Core, Sessions
            <3>2. Finishes(f, c) /\ n + 1 > 0
                  BY <1>1, <2>1, <3>1 DEF Tale
            <3> QED BY <1>1, <3>2 DEF OverAfter
      <2>2. CASE session[c] = "over"
            <3>1. \/ OverAfter(0, c) \/ WillAsk(acc)
                  \/ /\ acc \in DOMAIN listing /\ calls[c].seq <= listing[acc]
                     /\ \/ ~Unlisted(acc)
                        \/ \E i \in 1..n : Latest(acc, i) /\ c \notin DOMAIN toUi[i].rows
                  BY <1>2, <2>2 DEF Bright, Passing
            <3>2. OverAfter(0, c) => OverAfter(0, c)'
                  BY <1>1 DEF OverAfter
            <3> QED BY <1>1, <1>2, <3>1, <3>2 DEF Steady
      <2> QED BY <2>1, <2>2
<1>8. Trusted(c)'
      <2> SUFFICES ASSUME c \notin Legs, session'[c] \in Live, ~Fetching(acc)'
                   PROVE  /\ \A i \in 1..Len(toUi') :
                                Verdict(i, c)' /\ (\A k \in 1..Len(toUi') : k > i => ~Verdict(k, c)')
                                => Says(i, c)' = trust'[c]
                          /\ (\A i \in 1..Len(toUi') : ~Verdict(i, c)') =>
                                /\ c \in DOMAIN calls' => calls'[c].verified = trust'[c]
                                /\ \A i \in 1..Len(toUi') : Begins(toUi'[i], c) => ~trust'[c]
          BY DEF Trusted
      <2>1. ~Fetching(acc)
            BY <1>2
      \* Nothing has been said of the call before, or its trust is told.
      <2>2. /\ \A i \in 1..n :
                  Verdict(i, c) /\ (\A k \in 1..n : k > i => ~Verdict(k, c)) => Says(i, c) = trust[c]
            /\ (\A i \in 1..n : ~Verdict(i, c)) =>
                  /\ c \in DOMAIN calls => calls[c].verified = trust[c]
                  /\ \A i \in 1..n : Begins(toUi[i], c) => ~trust[c]
            <3>1. CASE session[c] \in Live
                  BY <2>1, <3>1 DEF Bright, Trusted
            <3>2. CASE session[c] \notin Live
                  <4>1. session[c] = "none"
                        BY <3>2 DEF Lasts, Live
                  <4>2. \A i \in 1..n : ~About(toUi[i], c) /\ ~Names(toUi[i], c)
                        BY <4>1 DEF Core, Words
                  <4>3. \A i \in 1..n : ~Verdict(i, c) /\ ~Begins(toUi[i], c)
                        BY <4>2 DEF Verdict, Tells, Begins
                  <4>4. c \notin DOMAIN calls
                        BY <4>1 DEF Core, Sessions
                  <4> QED BY <4>3, <4>4
            <3> QED BY <3>1, <3>2
      <2>3. ASSUME NEW i \in 1..Len(toUi'), Verdict(i, c)',
                   \A k \in 1..Len(toUi') : k > i => ~Verdict(k, c)'
            PROVE  Says(i, c)' = trust'[c]
            <3>1. CASE i = n + 1
                  <4>1. About(f, c) /\ f.name = "Verified" /\ f.kind # "list"
                        BY <1>1, <2>3, <3>1 DEF About
                  <4> QED BY <1>1, <3>1, <4>1 DEF Tale
            <3>2. CASE i \in 1..n
                  <4>1. n + 1 > i
                        BY <1>1, <3>2
                  <4>2. ~(About(f, c) /\ f.name = "Verified")
                        BY <1>1, <2>3, <4>1
                  <4>3. trust'[c] = trust[c]
                        BY <4>2 DEF Tale
                  <4>4. Verdict(i, c) /\ \A k \in 1..n : k > i => ~Verdict(k, c)
                        BY <1>1, <2>3, <3>2
                  <4> QED BY <1>1, <2>2, <3>2, <4>3, <4>4
            <3> QED BY <1>1, <3>1, <3>2
      <2>4. ASSUME \A i \in 1..Len(toUi') : ~Verdict(i, c)'
            PROVE  /\ c \in DOMAIN calls' => calls'[c].verified = trust'[c]
                   /\ \A i \in 1..Len(toUi') : Begins(toUi'[i], c) => ~trust'[c]
            <3>1. ~(About(f, c) /\ f.name = "Verified") /\ \A i \in 1..n : ~Verdict(i, c)
                  BY <1>1, <2>4
            <3>2. trust'[c] = trust[c]
                  BY <3>1 DEF Tale
            <3>3. Begins(f, c) => ~trust'[c]
                  BY DEF Tale
            <3> QED BY <1>1, <1>2, <2>2, <3>1, <3>2, <3>3
      <2> QED BY <2>3, <2>4
<1> QED BY <1>4, <1>6, <1>7, <1>8 DEF Bright

\* What the user does to a row, and what goes on without a frame to the UI.
Kept(c) ==
    /\ c \in DOMAIN calls' =>
          /\ c \in DOMAIN calls /\ calls'[c].seq = calls[c].seq
          /\ calls'[c].verified = calls[c].verified
          /\ progress(calls[c].state) <= progress(calls'[c].state)
    /\ c \in DOMAIN calls \ DOMAIN calls' => isTerminal(calls[c].state)
    /\ torn \subseteq torn'

LEMMA BrightStay ==
    ASSUME TypeOK, TypeOK', NEW c \in Calls, Core(c), Bright(c), Steady(AccountOf[c]),
           toUi' = toUi, listing' = listing, Kept(c), Mute(c)
    PROVE  Bright(c)'
<1> DEFINE acc == AccountOf[c]
<1>1. /\ 1..Len(toUi') = 1..Len(toUi) /\ \A i \in 1..Len(toUi) : toUi'[i] = toUi[i]
      /\ \A i \in 1..Len(toUi) : /\ Latest(acc, i)' <=> Latest(acc, i)
                                 /\ Tells(i, c)' <=> Tells(i, c)
                                 /\ Brings(i, c)' <=> Brings(i, c)
                                 /\ Verdict(i, c)' <=> Verdict(i, c)
                                 /\ Says(i, c)' = Says(i, c)
      /\ OverAfter(0, c)' <=> OverAfter(0, c)
      <2>1. \A i \in 1..Len(toUi) : Latest(acc, i)' <=> Latest(acc, i)
            BY DEF Steady, Latest
      <2>2. \A i \in 1..Len(toUi) : Tells(i, c)' <=> Tells(i, c)
            BY <2>1 DEF Tells
      <2>3. \A i \in 1..Len(toUi) : /\ Brings(i, c)' <=> Brings(i, c)
                                    /\ Verdict(i, c)' <=> Verdict(i, c)
                                    /\ Says(i, c)' = Says(i, c)
            BY <2>2 DEF Brings, Verdict, Says
      <2>4. OverAfter(0, c)' <=> OverAfter(0, c)
            BY DEF OverAfter
      <2> QED BY <2>1, <2>2, <2>3, <2>4
<1>2. Fetching(acc) => Fetching(acc)'
      BY SteadyFetch
<1>3. Wanted(c)' => Wanted(c) /\ (c \in DOMAIN calls => c \in DOMAIN calls')
      <2>1. Wanted(c)' => Wanted(c)
            BY <1>2 DEF Wanted, Mute, Kept
      <2>2. Wanted(c) /\ c \in DOMAIN calls => ~isTerminal(calls[c].state)
            BY DEF Wanted, Core, Sessions, Live
      <2> QED BY <2>1, <2>2 DEF Kept
<1>4. Shown(c)'
      BY <1>1, <1>3 DEF Bright, Shown
<1>5. c \in DOMAIN calls' => /\ progress(calls[c].state) \in 0..4 /\ progress(calls'[c].state) \in 0..4
                             /\ isTerminal(calls[c].state) => isTerminal(calls'[c].state)
      <2> SUFFICES ASSUME c \in DOMAIN calls'
                   PROVE  /\ progress(calls[c].state) \in 0..4 /\ progress(calls'[c].state) \in 0..4
                          /\ isTerminal(calls[c].state) => isTerminal(calls'[c].state)
          OBVIOUS
      <2>1. calls[c].state \in States /\ calls'[c].state \in States
            BY DEF TypeOK, Call, Kept
      <2>2. /\ progress(calls[c].state) \in 0..4 /\ progress(calls'[c].state) \in 0..4
            /\ progress(calls[c].state) = 4 <=> isTerminal(calls[c].state)
            /\ progress(calls'[c].state) = 4 <=> isTerminal(calls'[c].state)
            BY <2>1, SnapshotWords
      <2> QED BY <2>2 DEF Kept
<1>6. ASSUME Wanted(c)', NEW p \in {1, 3}, Reaches(c, p)  PROVE Reaches(c, p)'
      <2>1. CASE c \in DOMAIN calls /\ p <= progress(calls[c].state)
            <3>1. c \in DOMAIN calls' /\ p <= progress(calls'[c].state)
                  BY <1>3, <1>5, <1>6, <2>1 DEF Kept
            <3> QED BY <3>1 DEF Reaches
      <2>2. ASSUME NEW k \in 1..Len(toUi), Raises(toUi[k], c, p),
                   c \in DOMAIN calls \/ \E j \in 1..Len(toUi) : j < k /\ Brings(j, c)
            PROVE  Reaches(c, p)'
            BY <1>1, <1>3, <1>6, <2>2 DEF Reaches
      <2>3. ASSUME NEW k \in 1..Len(toUi), Tells(k, c), p <= progress(snapshotState(toUi[k].rows[c].raw))
            PROVE  Reaches(c, p)'
            BY <1>1, <2>3 DEF Reaches
      <2> QED BY <1>6, <2>1, <2>2, <2>3 DEF Reaches
<1>7. Progressed(c)'
      <2>1. ASSUME Wanted(c)', NEW s \in {"alerted", "active"}, session'[c] = s, NEW p \in {1, 3},
                   p = progress(snapshotState(s))
            PROVE  Reaches(c, p)'
            <3>1. c \notin Legs
                  BY <2>1 DEF Wanted
            <3>2. Wanted(c) /\ session[c] = s
                  BY <1>3, <2>1, <3>1 DEF Mute
            <3>3. Reaches(c, p)
                  BY <2>1, <3>2, FarEnough, HowFar DEF Bright
            <3> QED BY <1>6, <2>1, <3>3
      <2> QED BY <2>1, FarEnough, HowFar
<1>8. Passing(c)'
      <2> SUFFICES ASSUME c \in DOMAIN calls', ~isTerminal(calls'[c].state), session'[c] = "over"
                   PROVE  \/ OverAfter(0, c)' \/ WillAsk(acc)'
                          \/ /\ acc \in DOMAIN listing' /\ calls'[c].seq <= listing'[acc]
                             /\ \/ ~Unlisted(acc)'
                                \/ \E i \in 1..Len(toUi') : Latest(acc, i)' /\ c \notin DOMAIN toUi'[i].rows
          BY DEF Passing
      <2>1. c \in DOMAIN calls /\ ~isTerminal(calls[c].state) /\ calls'[c].seq = calls[c].seq
            BY <1>5 DEF Kept
      <2>2. session[c] = "over"
            BY <2>1 DEF Mute, Core, Sessions
      <2> QED BY <1>1, <2>1, <2>2 DEF Bright, Passing, Steady
<1>9. Trusted(c)'
      <2> SUFFICES ASSUME c \notin Legs, session'[c] \in Live, ~Fetching(acc)'
                   PROVE  /\ \A i \in 1..Len(toUi') :
                                Verdict(i, c)' /\ (\A k \in 1..Len(toUi') : k > i => ~Verdict(k, c)')
                                => Says(i, c)' = trust'[c]
                          /\ (\A i \in 1..Len(toUi') : ~Verdict(i, c)') =>
                                /\ c \in DOMAIN calls' => calls'[c].verified = trust'[c]
                                /\ \A i \in 1..Len(toUi') : Begins(toUi'[i], c) => ~trust'[c]
          BY DEF Trusted
      <2>1. session[c] \in Live /\ ~Fetching(acc) /\ trust'[c] = trust[c]
            BY <1>2 DEF Mute
      <2> QED BY <1>1, <2>1 DEF Bright, Trusted, Kept
<1> QED BY <1>4, <1>7, <1>8, <1>9 DEF Bright

\* A frame is handled that is no list that counts for the account: what it is to the
\* row of the call.
Moved(c) ==
    LET f == Head(toUi)
    IN /\ c \in DOMAIN calls =>
             /\ c \in DOMAIN calls' /\ calls'[c].seq = calls[c].seq
             /\ progress(calls[c].state) <= progress(calls'[c].state)
             /\ calls'[c].verified =
                   IF About(f, c) /\ f.name = "Verified" THEN f.flag ELSE calls[c].verified
             /\ Finishes(f, c) => isTerminal(calls'[c].state)
             /\ \A p \in {1, 3} :
                   (Raises(f, c, p) /\ calls[c].state # "incoming") \/ Raises(f, c, 3)
                   => p <= progress(calls'[c].state)
       /\ c \in DOMAIN calls' \ DOMAIN calls => Begins(f, c) /\ ~calls'[c].verified
       /\ Begins(f, c) => c \in DOMAIN calls'

LEMMA BrightTaken ==
    ASSUME TypeOK, TypeOK', Wired, NEW c \in Calls, Core(c), Bright(c), Steady(AccountOf[c]),
           UNCHANGED <<session, trust, torn>>,
           toUi # <<>>, toUi' = Tail(toUi), ~Latest(AccountOf[c], 1),
           AccountOf[c] \in DOMAIN listing =>
              AccountOf[c] \in DOMAIN listing' /\ listing'[AccountOf[c]] = listing[AccountOf[c]],
           Moved(c)
    PROVE  Bright(c)'
<1> DEFINE acc == AccountOf[c]
           f == Head(toUi)
<1>1. /\ Len(toUi') = Len(toUi) - 1 /\ Len(toUi) \in Nat \ {0}
      /\ f = toUi[1] /\ 1 \in 1..Len(toUi)
      /\ \A i \in 1..Len(toUi') :
            /\ i + 1 \in 2..Len(toUi) /\ i + 1 \in 1..Len(toUi) /\ toUi'[i] = toUi[i + 1]
            /\ Latest(acc, i)' <=> Latest(acc, i + 1)
            /\ Tells(i, c)' <=> Tells(i + 1, c)
            /\ Brings(i, c)' <=> Brings(i + 1, c)
            /\ Verdict(i, c)' <=> Verdict(i + 1, c)
            /\ Says(i, c)' = Says(i + 1, c)
      /\ \A i \in 1..Len(toUi) :
            i = 1 \/ (i - 1 \in 1..Len(toUi') /\ (i - 1) + 1 = i)
      BY TakenPlaces DEF Steady
<1>2. /\ ~Tells(1, c) /\ (Brings(1, c) <=> Begins(f, c))
      /\ Verdict(1, c) <=> About(f, c) /\ f.name = "Verified"
      /\ About(f, c) => Says(1, c) = f.flag
      BY <1>1 DEF Tells, Brings, Verdict, Says, About
<1>3. /\ Fetching(acc) => Fetching(acc)'
      /\ Wanted(c)' => Wanted(c)
      BY SteadyFetch DEF Wanted
<1> HIDE DEF f
<1>4. /\ c \in DOMAIN calls =>
            /\ c \in DOMAIN calls' /\ calls'[c].seq = calls[c].seq
            /\ progress(calls[c].state) <= progress(calls'[c].state)
            /\ calls'[c].verified =
                  IF About(f, c) /\ f.name = "Verified" THEN f.flag ELSE calls[c].verified
            /\ Finishes(f, c) => isTerminal(calls'[c].state)
            /\ \A p \in {1, 3} :
                  (Raises(f, c, p) /\ calls[c].state # "incoming") \/ Raises(f, c, 3)
                  => p <= progress(calls'[c].state)
      /\ c \in DOMAIN calls' \ DOMAIN calls => Begins(f, c) /\ ~calls'[c].verified
      /\ Begins(f, c) => c \in DOMAIN calls'
      BY DEF Moved, f
<1>5. c \in DOMAIN calls => /\ progress(calls[c].state) \in 0..4 /\ progress(calls'[c].state) \in 0..4
                            /\ isTerminal(calls[c].state) => isTerminal(calls'[c].state)
      <2> SUFFICES ASSUME c \in DOMAIN calls
                   PROVE  /\ progress(calls[c].state) \in 0..4 /\ progress(calls'[c].state) \in 0..4
                          /\ isTerminal(calls[c].state) => isTerminal(calls'[c].state)
          OBVIOUS
      <2>1. calls[c].state \in States /\ calls'[c].state \in States
            BY <1>4 DEF TypeOK, Call
      <2>2. /\ progress(calls[c].state) \in 0..4 /\ progress(calls'[c].state) \in 0..4
            /\ progress(calls[c].state) = 4 <=> isTerminal(calls[c].state)
            /\ progress(calls'[c].state) = 4 <=> isTerminal(calls'[c].state)
            BY <2>1, SnapshotWords
      <2> QED BY <1>4, <2>2
\* Where a row was to come from, the row is there or has still to come.
<1>6. ASSUME NEW j \in 1..Len(toUi), Brings(j, c)
      PROVE  c \in DOMAIN calls' \/ (j # 1 /\ j - 1 \in 1..Len(toUi') /\ Brings(j - 1, c)')
      <2>1. CASE j = 1
            BY <1>2, <1>4, <1>6, <2>1
      <2>2. CASE j # 1
            BY <1>1, <1>6, <2>2
      <2> QED BY <2>1, <2>2
<1>7. Shown(c)'
      <2> SUFFICES ASSUME Wanted(c)'
                   PROVE  c \in DOMAIN calls' \/ \E i \in 1..Len(toUi') : Brings(i, c)'
          BY DEF Shown
      <2>1. c \in DOMAIN calls \/ \E i \in 1..Len(toUi) : Brings(i, c)
            BY <1>3 DEF Bright, Shown
      <2> QED BY <1>4, <1>6, <2>1
<1>8. ASSUME NEW p \in {1, 3}, Reaches(c, p), p = 1 => c \in Placed
      PROVE  Reaches(c, p)'
      <2>1. CASE c \in DOMAIN calls /\ p <= progress(calls[c].state)
            <3>1. c \in DOMAIN calls' /\ p <= progress(calls'[c].state)
                  BY <1>4, <1>5, <2>1
            <3> QED BY <3>1 DEF Reaches
      <2>2. ASSUME NEW k \in 1..Len(toUi), Raises(toUi[k], c, p),
                   c \in DOMAIN calls \/ \E j \in 1..Len(toUi) : j < k /\ Brings(j, c)
            PROVE  Reaches(c, p)'
            <3>1. CASE k = 1
                  <4>1. c \in DOMAIN calls /\ Raises(f, c, p)
                        BY <1>1, <2>2, <3>1
                  <4>2. p = 1 => calls[c].state # "incoming"
                        BY <1>8, <4>1 DEF Core, Sessions
                  <4>3. p <= progress(calls'[c].state) /\ c \in DOMAIN calls'
                        BY <1>4, <4>1, <4>2
                  <4> QED BY <4>3 DEF Reaches
            <3>2. CASE k # 1
                  <4>1. k - 1 \in 1..Len(toUi') /\ Raises(toUi'[k - 1], c, p)
                        <5>1. k - 1 \in 1..Len(toUi') /\ (k - 1) + 1 = k
                              BY <1>1, <3>2
                        <5> QED BY <1>1, <2>2, <5>1
                  <4>2. c \in DOMAIN calls' \/ \E j \in 1..Len(toUi') : j < k - 1 /\ Brings(j, c)'
                        <5>1. CASE c \in DOMAIN calls
                              BY <1>4, <5>1
                        <5>2. ASSUME NEW j \in 1..Len(toUi), j < k, Brings(j, c)
                              PROVE  c \in DOMAIN calls' \/ \E i \in 1..Len(toUi') : i < k - 1 /\ Brings(i, c)'
                              <6>1. j - 1 < k - 1
                                    BY <1>1, <5>2
                              <6> QED BY <1>6, <5>2, <6>1
                        <5> QED BY <2>2, <5>1, <5>2
                  <4> QED BY <4>1, <4>2 DEF Reaches
            <3> QED BY <3>1, <3>2
      <2>3. ASSUME NEW k \in 1..Len(toUi), Tells(k, c), p <= progress(snapshotState(toUi[k].rows[c].raw))
            PROVE  Reaches(c, p)'
            <3>1. k # 1
                  BY <1>2, <2>3
            <3>2. k - 1 \in 1..Len(toUi') /\ (k - 1) + 1 = k
                  BY <1>1, <3>1
            <3>3. Tells(k - 1, c)' /\ toUi'[k - 1] = toUi[k]
                  BY <1>1, <2>3, <3>2
            <3> QED BY <2>3, <3>2, <3>3 DEF Reaches
      <2> QED BY <1>8, <2>1, <2>2, <2>3 DEF Reaches
<1>9. Progressed(c)'
      <2>1. session[c] = "alerted" => c \in Placed
            BY DEF Core, Sessions
      <2>2. ASSUME Wanted(c)', session'[c] = "alerted"  PROVE Reaches(c, 1)'
            BY <1>3, <1>8, <2>1, <2>2, FarEnough DEF Bright
      <2>3. ASSUME Wanted(c)', session'[c] = "active"  PROVE Reaches(c, 3)'
            BY <1>3, <1>8, <2>3, FarEnough DEF Bright
      <2> QED BY <2>2, <2>3, FarEnough
<1>10. Passing(c)'
       <2> SUFFICES ASSUME c \in DOMAIN calls', ~isTerminal(calls'[c].state), session[c] = "over"
                    PROVE  \/ OverAfter(0, c)' \/ WillAsk(acc)'
                           \/ /\ acc \in DOMAIN listing' /\ calls'[c].seq <= listing'[acc]
                              /\ \/ ~Unlisted(acc)'
                                 \/ \E i \in 1..Len(toUi') : Latest(acc, i)' /\ c \notin DOMAIN toUi'[i].rows
           BY DEF Passing
       <2>1. ASSUME NEW k \in 2..Len(toUi), Finishes(toUi[k], c)  PROVE OverAfter(0, c)'
             <3>1. k - 1 \in 1..Len(toUi') /\ (k - 1) + 1 = k /\ k - 1 > 0
                   BY <1>1
             <3>2. Finishes(toUi'[k - 1], c)
                   BY <1>1, <2>1, <3>1
             <3> QED BY <3>1, <3>2 DEF OverAfter
       <2>2. CASE c \notin DOMAIN calls
             <3>1. Begins(toUi[1], c) /\ c \notin Legs
                   BY <1>1, <1>4, <2>2 DEF Core, Words
             <3>2. OverAfter(1, c)
                   BY <1>1, <3>1 DEF Core, Words
             <3>3. PICK k \in 1..Len(toUi) : k > 1 /\ Finishes(toUi[k], c)
                   BY <3>2 DEF OverAfter
             <3>4. k \in 2..Len(toUi)
                   BY <1>1, <3>3
             <3> QED BY <2>1, <3>3, <3>4
       <2>3. CASE c \in DOMAIN calls
             <3>1. /\ ~isTerminal(calls[c].state) /\ calls'[c].seq = calls[c].seq
                   /\ ~Finishes(f, c)
                   BY <1>4, <1>5, <2>3
             <3>2. \/ OverAfter(0, c) \/ WillAsk(acc)
                   \/ /\ acc \in DOMAIN listing /\ calls[c].seq <= listing[acc]
                      /\ \/ ~Unlisted(acc)
                         \/ \E i \in 1..Len(toUi) : Latest(acc, i) /\ c \notin DOMAIN toUi[i].rows
                   BY <2>3, <3>1 DEF Bright, Passing
             <3>3. CASE OverAfter(0, c)
                   <4>1. PICK k \in 1..Len(toUi) : Finishes(toUi[k], c)
                         BY <3>3 DEF OverAfter
                   <4>2. k \in 2..Len(toUi)
                         BY <1>1, <3>1, <4>1
                   <4> QED BY <2>1, <4>1, <4>2
             <3>4. CASE WillAsk(acc)
                   BY <3>4 DEF Steady
             <3>5. CASE /\ acc \in DOMAIN listing /\ calls[c].seq <= listing[acc]
                        /\ ~Unlisted(acc)
                   BY <3>1, <3>5 DEF Steady
             <3>6. ASSUME acc \in DOMAIN listing, calls[c].seq <= listing[acc],
                          NEW i \in 1..Len(toUi), Latest(acc, i), c \notin DOMAIN toUi[i].rows
                   PROVE  /\ acc \in DOMAIN listing' /\ calls'[c].seq <= listing'[acc]
                          /\ \E j \in 1..Len(toUi') : Latest(acc, j)' /\ c \notin DOMAIN toUi'[j].rows
                   <4>1. i # 1
                         BY <3>6
                   <4>2. i - 1 \in 1..Len(toUi') /\ (i - 1) + 1 = i
                         BY <1>1, <4>1
                   <4>3. Latest(acc, i - 1)' /\ toUi'[i - 1] = toUi[i]
                         BY <1>1, <3>6, <4>2
                   <4> QED BY <3>1, <3>6, <4>2, <4>3
             <3> QED BY <3>2, <3>3, <3>4, <3>5, <3>6
       <2> QED BY <2>2, <2>3
<1>11. Trusted(c)'
       <2> SUFFICES ASSUME c \notin Legs, session[c] \in Live, ~Fetching(acc)'
                    PROVE  /\ \A i \in 1..Len(toUi') :
                                 Verdict(i, c)' /\ (\A k \in 1..Len(toUi') : k > i => ~Verdict(k, c)')
                                 => Says(i, c)' = trust[c]
                           /\ (\A i \in 1..Len(toUi') : ~Verdict(i, c)') =>
                                 /\ c \in DOMAIN calls' => calls'[c].verified = trust[c]
                                 /\ \A i \in 1..Len(toUi') : Begins(toUi'[i], c) => ~trust[c]
           BY DEF Trusted
       <2>1. /\ \A i \in 1..Len(toUi) :
                   Verdict(i, c) /\ (\A k \in 1..Len(toUi) : k > i => ~Verdict(k, c))
                   => Says(i, c) = trust[c]
             /\ (\A i \in 1..Len(toUi) : ~Verdict(i, c)) =>
                   /\ c \in DOMAIN calls => calls[c].verified = trust[c]
                   /\ \A i \in 1..Len(toUi) : Begins(toUi[i], c) => ~trust[c]
             BY <1>3 DEF Bright, Trusted
       <2>2. ASSUME NEW i \in 1..Len(toUi'), Verdict(i, c)',
                    \A k \in 1..Len(toUi') : k > i => ~Verdict(k, c)'
             PROVE  Says(i, c)' = trust[c]
             <3>1. \A k \in 1..Len(toUi) : k > i + 1 => ~Verdict(k, c)
                   <4> SUFFICES ASSUME NEW k \in 1..Len(toUi), k > i + 1
                                PROVE  ~Verdict(k, c)
                       OBVIOUS
                   <4>1. k - 1 \in 1..Len(toUi') /\ (k - 1) + 1 = k /\ k - 1 > i
                         BY <1>1
                   <4> QED BY <1>1, <2>2, <4>1
             <3> QED BY <1>1, <2>1, <2>2, <3>1
       <2>3. ASSUME \A i \in 1..Len(toUi') : ~Verdict(i, c)'
             PROVE  /\ c \in DOMAIN calls' => calls'[c].verified = trust[c]
                    /\ \A i \in 1..Len(toUi') : Begins(toUi'[i], c) => ~trust[c]
             <3>1. \A k \in 1..Len(toUi) : k > 1 => ~Verdict(k, c)
                   <4> SUFFICES ASSUME NEW k \in 1..Len(toUi), k > 1
                                PROVE  ~Verdict(k, c)
                       OBVIOUS
                   <4>1. k - 1 \in 1..Len(toUi') /\ (k - 1) + 1 = k
                         BY <1>1
                   <4>2. ~Verdict(k - 1, c)'
                         BY <2>3, <4>1
                   <4>3. Verdict(k - 1, c)' <=> Verdict((k - 1) + 1, c)
                         BY <1>1, <4>1
                   <4> QED BY <4>1, <4>2, <4>3
             <3>2. CASE Verdict(1, c)
                   <4>1. About(f, c) /\ f.name = "Verified" /\ f.flag = trust[c]
                         BY <1>1, <1>2, <2>1, <3>1, <3>2
                   <4>2. ~Begins(f, c)
                         BY <4>1 DEF Begins
                   <4>3. ASSUME NEW i \in 1..Len(toUi'), Begins(toUi'[i], c)  PROVE FALSE
                         <5>1. Begins(toUi[i + 1], c) /\ i + 1 \in 1..Len(toUi) /\ 1 < i + 1
                               BY <1>1, <4>3
                         <5> QED BY <1>1, <4>1, <5>1 DEF Core, Words
                   <4> QED BY <1>4, <4>1, <4>2, <4>3
             <3>3. CASE ~Verdict(1, c)
                   <4>1. \A i \in 1..Len(toUi) : ~Verdict(i, c)
                         BY <1>1, <3>1, <3>3
                   <4>2. /\ c \in DOMAIN calls => calls[c].verified = trust[c]
                         /\ \A i \in 1..Len(toUi) : Begins(toUi[i], c) => ~trust[c]
                         BY <2>1, <4>1
                   <4>3. ~(About(f, c) /\ f.name = "Verified")
                         BY <1>2, <3>3
                   <4>4. c \in DOMAIN calls' => calls'[c].verified = trust[c]
                         <5>1. CASE c \in DOMAIN calls
                               BY <1>4, <4>2, <4>3, <5>1
                         <5>2. CASE c \in DOMAIN calls' \ DOMAIN calls
                               <6>1. ~calls'[c].verified /\ Begins(toUi[1], c)
                                     BY <1>1, <1>4, <5>2
                               <6>2. ~trust[c]
                                     BY <1>1, <4>2, <6>1
                               <6>3. calls'[c].verified \in BOOLEAN /\ trust[c] \in BOOLEAN
                                     BY <5>2 DEF TypeOK, Call
                               <6> QED BY <6>1, <6>2, <6>3
                         <5> QED BY <5>1, <5>2
                   <4> QED BY <1>1, <4>2, <4>4
             <3> QED BY <3>2, <3>3
       <2> QED BY <2>2, <2>3
<1> QED BY <1>7, <1>9, <1>10, <1>11 DEF Bright

\* The list that counts is handled.
LEMMA BrightListed ==
    ASSUME Safe, TypeOK', NEW c \in Calls, Bright(c), Steady(AccountOf[c]),
           UNCHANGED <<session, trust, torn>>,
           toUi # <<>>, toUi' = Tail(toUi), Head(toUi).kind = "list",
           ListTaken(Head(toUi)), Head(toUi).acc = AccountOf[c],
           \A d \in DOMAIN calls \cap DOMAIN calls' :
              progress(calls[d].state) <= progress(calls'[d].state)
    PROVE  Bright(c)'
<1> DEFINE acc == AccountOf[c]
           f == Head(toUi)
           told == Told(f.rows, dismissed)
<1>1. /\ Len(toUi') = Len(toUi) - 1 /\ Len(toUi) \in Nat \ {0}
      /\ f = toUi[1] /\ 1 \in 1..Len(toUi)
      /\ \A i \in 1..Len(toUi') :
            /\ i + 1 \in 2..Len(toUi) /\ i + 1 \in 1..Len(toUi) /\ toUi'[i] = toUi[i + 1]
            /\ Tells(i, c)' <=> Tells(i + 1, c)
            /\ Brings(i, c)' <=> Brings(i + 1, c)
            /\ Verdict(i, c)' <=> Verdict(i + 1, c)
            /\ Says(i, c)' = Says(i + 1, c)
      /\ \A i \in 1..Len(toUi) :
            i = 1 \/ (i - 1 \in 1..Len(toUi') /\ (i - 1) + 1 = i)
      BY TakenPlaces DEF Steady, Safe
<1>2. /\ TypeOK /\ Wired /\ Core(c)
      /\ f.acc = acc /\ f.kind = "list" /\ acc \in DOMAIN listing
      /\ ListsOf(toUi, acc) = {1} /\ Unlisted(acc)
      BY DEF Safe, ListTaken
<1>3. /\ Latest(acc, 1) /\ \A i \in 1..Len(toUi) : Latest(acc, i) => i = 1
      /\ Tells(1, c) <=> c \in DOMAIN f.rows
      /\ \A i \in 1..Len(toUi) : Tells(i, c) => i = 1
      <2>1. Latest(acc, 1) /\ \A i \in 1..Len(toUi) : Latest(acc, i) => i = 1
            BY <1>2 DEF Latest
      <2> QED BY <1>1, <1>2, <2>1 DEF Tells, Names
<1>4. /\ Fetching(acc) => Fetching(acc)'
      /\ Wanted(c)' => Wanted(c)
      BY SteadyFetch DEF Wanted
<1>5. /\ DOMAIN calls' = DOMAIN calls \cup told
      /\ c \in told \ DOMAIN calls =>
            /\ calls'[c].state = snapshotState(f.rows[c].raw)
            /\ calls'[c].verified = f.rows[c].verified
      /\ c \in told \cap DOMAIN calls =>
            /\ calls'[c].state =
                  IF isTerminal(calls[c].state)
                     \/ progress(snapshotState(f.rows[c].raw)) <= progress(calls[c].state)
                  THEN calls[c].state ELSE snapshotState(f.rows[c].raw)
            /\ calls'[c].verified = f.rows[c].verified
      /\ c \in DOMAIN calls \ told =>
            /\ calls'[c].seq = calls[c].seq
            /\ calls'[c].state = IF Ends1(c, acc, f.rows, listing[acc]) THEN "ended" ELSE calls[c].state
            /\ calls'[c].verified = calls[c].verified
      BY <1>2, ListRows
<1>6. /\ c \in told <=> c \in DOMAIN f.rows /\ c \notin Legs /\ c \notin dismissed
      /\ c \in DOMAIN f.rows => f.rows[c] \in Snapshot
      <2>1. c \in DOMAIN f.rows => f.rows[c] \in Snapshot
            BY <1>2, HeadOf
      <2> QED BY <2>1 DEF Told, Known
<1>7. c \notin Legs /\ session[c] \in Live /\ c \notin torn => c \notin dismissed
      BY <1>2 DEF TypeOK, Core, Sessions, Live
<1> HIDE DEF f, told
<1>8. c \in DOMAIN calls => /\ progress(calls[c].state) \in 0..4 /\ progress(calls'[c].state) \in 0..4
                            /\ progress(calls[c].state) <= progress(calls'[c].state)
                            /\ isTerminal(calls[c].state) <=> progress(calls[c].state) = 4
                            /\ isTerminal(calls'[c].state) <=> progress(calls'[c].state) = 4
      <2> SUFFICES ASSUME c \in DOMAIN calls
                   PROVE  /\ progress(calls[c].state) \in 0..4 /\ progress(calls'[c].state) \in 0..4
                          /\ progress(calls[c].state) <= progress(calls'[c].state)
                          /\ isTerminal(calls[c].state) <=> progress(calls[c].state) = 4
                          /\ isTerminal(calls'[c].state) <=> progress(calls'[c].state) = 4
          OBVIOUS
      <2>1. calls[c].state \in States /\ calls'[c].state \in States /\ c \in DOMAIN calls'
            BY <1>2, <1>5 DEF TypeOK, Call
      <2> QED BY <2>1, SnapshotWords
\* Where a row was to come from, it has come, or has still to.
<1>9. ASSUME Wanted(c), NEW j \in 1..Len(toUi), Brings(j, c)
      PROVE  c \in DOMAIN calls' \/ (j # 1 /\ j - 1 \in 1..Len(toUi') /\ Brings(j - 1, c)')
      <2>1. CASE Tells(j, c)
            <3>1. c \in DOMAIN f.rows
                  BY <1>3, <2>1
            <3> QED BY <1>5, <1>6, <1>7, <1>9, <3>1 DEF Wanted
      <2>2. CASE Begins(toUi[j], c)
            <3>1. j # 1
                  BY <1>1, <1>2, <2>2 DEF Begins, About
            <3> QED BY <1>1, <1>9, <3>1
      <2> QED BY <1>9, <2>1, <2>2 DEF Brings
<1>10. Shown(c)'
       <2> SUFFICES ASSUME Wanted(c)'
                    PROVE  c \in DOMAIN calls' \/ \E i \in 1..Len(toUi') : Brings(i, c)'
           BY DEF Shown
       <2>1. c \in DOMAIN calls \/ \E i \in 1..Len(toUi) : Brings(i, c)
             BY <1>4 DEF Bright, Shown
       <2> QED BY <1>4, <1>5, <1>9, <2>1
<1>11. ASSUME Wanted(c), NEW p \in {1, 3}, Reaches(c, p)
       PROVE  Reaches(c, p)'
       <2>1. CASE c \in DOMAIN calls /\ p <= progress(calls[c].state)
             <3>1. c \in DOMAIN calls' /\ p <= progress(calls'[c].state)
                   BY <1>5, <1>8, <2>1
             <3> QED BY <3>1 DEF Reaches
       <2>2. ASSUME NEW k \in 1..Len(toUi), Raises(toUi[k], c, p),
                    c \in DOMAIN calls \/ \E j \in 1..Len(toUi) : j < k /\ Brings(j, c)
             PROVE  Reaches(c, p)'
             <3>1. k # 1
                   BY <1>1, <1>2, <2>2 DEF Raises, About
             <3>2. k - 1 \in 1..Len(toUi') /\ (k - 1) + 1 = k
                   BY <1>1, <3>1
             <3>3. Raises(toUi'[k - 1], c, p)
                   BY <1>1, <2>2, <3>2
             <3>4. c \in DOMAIN calls' \/ \E j \in 1..Len(toUi') : j < k - 1 /\ Brings(j, c)'
                   <4>1. CASE c \in DOMAIN calls
                         BY <1>5, <4>1
                   <4>2. ASSUME NEW j \in 1..Len(toUi), j < k, Brings(j, c)
                         PROVE  c \in DOMAIN calls' \/ \E i \in 1..Len(toUi') : i < k - 1 /\ Brings(i, c)'
                         <5>1. j - 1 < k - 1
                               BY <1>1, <4>2
                         <5> QED BY <1>9, <1>11, <4>2, <5>1
                   <4> QED BY <2>2, <4>1, <4>2
             <3> QED BY <3>2, <3>3, <3>4 DEF Reaches
       <2>3. ASSUME NEW k \in 1..Len(toUi), Tells(k, c), p <= progress(snapshotState(toUi[k].rows[c].raw))
             PROVE  Reaches(c, p)'
             <3>1. c \in DOMAIN f.rows /\ p <= progress(snapshotState(f.rows[c].raw))
                   BY <1>1, <1>3, <2>3
             <3>2. c \in told /\ c \in DOMAIN calls'
                   BY <1>5, <1>6, <1>7, <1>11, <3>1 DEF Wanted
             <3>3. progress(snapshotState(f.rows[c].raw)) \in 0..4
                   BY <1>6, <3>1, SnapshotWords DEF Snapshot
             <3>4. p <= progress(calls'[c].state)
                   BY <1>5, <1>8, <3>1, <3>2, <3>3
             <3> QED BY <3>2, <3>4 DEF Reaches
       <2> QED BY <1>11, <2>1, <2>2, <2>3 DEF Reaches
<1>12. Progressed(c)'
       <2>1. ASSUME Wanted(c)', session'[c] = "alerted"  PROVE Reaches(c, 1)'
             BY <1>4, <1>11, <2>1, FarEnough DEF Bright
       <2>2. ASSUME Wanted(c)', session'[c] = "active"  PROVE Reaches(c, 3)'
             BY <1>4, <1>11, <2>2, FarEnough DEF Bright
       <2> QED BY <2>1, <2>2, FarEnough
<1>13. Passing(c)'
       <2> SUFFICES ASSUME c \in DOMAIN calls', ~isTerminal(calls'[c].state), session[c] = "over"
                    PROVE  OverAfter(0, c)' \/ WillAsk(acc)'
           BY DEF Passing
       <2>1. ASSUME NEW k \in 2..Len(toUi), Finishes(toUi[k], c)  PROVE OverAfter(0, c)'
             <3>1. k - 1 \in 1..Len(toUi') /\ (k - 1) + 1 = k /\ k - 1 > 0
                   BY <1>1
             <3>2. Finishes(toUi'[k - 1], c)
                   BY <1>1, <2>1, <3>1
             <3> QED BY <3>1, <3>2 DEF OverAfter
       <2>2. CASE c \in told
             <3>1. Names(toUi[1], c) /\ c \notin Legs
                   BY <1>1, <1>2, <1>6, <2>2 DEF Names
             <3>2. OverAfter(1, c)
                   BY <1>1, <1>2, <3>1 DEF Core, Words
             <3>3. PICK k \in 1..Len(toUi) : k > 1 /\ Finishes(toUi[k], c)
                   BY <3>2 DEF OverAfter
             <3>4. k \in 2..Len(toUi)
                   BY <1>1, <3>3
             <3> QED BY <2>1, <3>3, <3>4
       <2>3. CASE c \notin told
             <3>1. c \in DOMAIN calls /\ ~Ends1(c, acc, f.rows, listing[acc]) /\ ~isTerminal(calls[c].state)
                   <4>1. c \in DOMAIN calls /\ isTerminal("ended")
                         BY <1>5, <2>3 DEF isTerminal
                   <4> QED BY <1>5, <2>3, <4>1
             <3>2. \/ OverAfter(0, c) \/ WillAsk(acc)
                   \/ /\ calls[c].seq <= listing[acc]
                      /\ \E i \in 1..Len(toUi) : Latest(acc, i) /\ c \notin DOMAIN toUi[i].rows
                   BY <1>2, <3>1 DEF Bright, Passing
             <3>3. CASE OverAfter(0, c)
                   <4>1. PICK k \in 1..Len(toUi) : Finishes(toUi[k], c)
                         BY <3>3 DEF OverAfter
                   <4>2. k # 1
                         BY <1>1, <1>2, <4>1 DEF Finishes, About
                   <4>3. k \in 2..Len(toUi)
                         BY <1>1, <4>2
                   <4> QED BY <2>1, <4>1, <4>3
             <3>4. ASSUME calls[c].seq <= listing[acc],
                          NEW i \in 1..Len(toUi), Latest(acc, i), c \notin DOMAIN toUi[i].rows
                   PROVE  FALSE
                   <4>1. c \notin DOMAIN f.rows
                         BY <1>1, <1>3, <3>4
                   <4> QED BY <3>1, <3>4, <4>1 DEF Ends1, Known
             <3> QED BY <3>2, <3>3, <3>4 DEF Steady
       <2> QED BY <2>2, <2>3
<1>14. Trusted(c)'
       <2> SUFFICES ASSUME c \notin Legs, session[c] \in Live, ~Fetching(acc)'
                    PROVE  /\ \A i \in 1..Len(toUi') :
                                 Verdict(i, c)' /\ (\A k \in 1..Len(toUi') : k > i => ~Verdict(k, c)')
                                 => Says(i, c)' = trust[c]
                           /\ (\A i \in 1..Len(toUi') : ~Verdict(i, c)') =>
                                 /\ c \in DOMAIN calls' => calls'[c].verified = trust[c]
                                 /\ \A i \in 1..Len(toUi') : Begins(toUi'[i], c) => ~trust[c]
           BY DEF Trusted
       <2>1. /\ \A i \in 1..Len(toUi) :
                   Verdict(i, c) /\ (\A k \in 1..Len(toUi) : k > i => ~Verdict(k, c))
                   => Says(i, c) = trust[c]
             /\ (\A i \in 1..Len(toUi) : ~Verdict(i, c)) =>
                   /\ c \in DOMAIN calls => calls[c].verified = trust[c]
                   /\ \A i \in 1..Len(toUi) : Begins(toUi[i], c) => ~trust[c]
             BY <1>4 DEF Bright, Trusted
       <2>2. /\ Verdict(1, c) <=> c \in DOMAIN f.rows
             /\ Says(1, c) = f.rows[c].verified
             BY <1>1, <1>2, <1>3 DEF Verdict, About, Says
       <2>3. ASSUME NEW i \in 1..Len(toUi'), Verdict(i, c)',
                    \A k \in 1..Len(toUi') : k > i => ~Verdict(k, c)'
             PROVE  Says(i, c)' = trust[c]
             <3>1. \A k \in 1..Len(toUi) : k > i + 1 => ~Verdict(k, c)
                   <4> SUFFICES ASSUME NEW k \in 1..Len(toUi), k > i + 1
                                PROVE  ~Verdict(k, c)
                       OBVIOUS
                   <4>1. k - 1 \in 1..Len(toUi') /\ (k - 1) + 1 = k /\ k - 1 > i
                         BY <1>1
                   <4> QED BY <1>1, <2>3, <4>1
             <3> QED BY <1>1, <2>1, <2>3, <3>1
       <2>4. ASSUME \A i \in 1..Len(toUi') : ~Verdict(i, c)'
             PROVE  /\ c \in DOMAIN calls' => calls'[c].verified = trust[c]
                    /\ \A i \in 1..Len(toUi') : Begins(toUi'[i], c) => ~trust[c]
             <3>1. \A k \in 1..Len(toUi) : k > 1 => ~Verdict(k, c)
                   <4> SUFFICES ASSUME NEW k \in 1..Len(toUi), k > 1
                                PROVE  ~Verdict(k, c)
                       OBVIOUS
                   <4>1. k - 1 \in 1..Len(toUi') /\ (k - 1) + 1 = k
                         BY <1>1
                   <4>2. ~Verdict(k - 1, c)'
                         BY <2>4, <4>1
                   <4>3. Verdict(k - 1, c)' <=> Verdict((k - 1) + 1, c)
                         BY <1>1, <4>1
                   <4> QED BY <4>1, <4>2, <4>3
             <3>2. CASE c \in DOMAIN f.rows
                   <4>1. f.rows[c].verified = trust[c]
                         BY <1>1, <2>1, <2>2, <3>1, <3>2
                   <4>2. c \in DOMAIN calls' => c \in told
                         <5>1. c \in DOMAIN calls => c \notin dismissed
                               BY <1>2 DEF Core, Sessions
                         <5> QED BY <1>5, <1>6, <3>2, <5>1
                   <4>3. ASSUME NEW i \in 1..Len(toUi'), Begins(toUi'[i], c)  PROVE FALSE
                         <5>1. Begins(toUi[i + 1], c) /\ i + 1 \in 1..Len(toUi) /\ 1 < i + 1
                               BY <1>1, <4>3
                         <5>2. Names(toUi[1], c)
                               BY <1>1, <1>2, <3>2 DEF Names
                         <5> QED BY <1>1, <1>2, <5>1, <5>2 DEF Core, Words
                   <4> QED BY <1>5, <4>1, <4>2, <4>3
             <3>3. CASE c \notin DOMAIN f.rows
                   <4>1. \A i \in 1..Len(toUi) : ~Verdict(i, c)
                         BY <1>1, <2>2, <3>1, <3>3
                   <4>2. /\ c \in DOMAIN calls => calls[c].verified = trust[c]
                         /\ \A i \in 1..Len(toUi) : Begins(toUi[i], c) => ~trust[c]
                         BY <2>1, <4>1
                   <4> QED BY <1>1, <1>5, <1>6, <3>3, <4>2
             <3> QED BY <3>2, <3>3
       <2> QED BY <2>3, <2>4
<1> QED BY <1>10, <1>12, <1>13, <1>14 DEF Bright

\* A list is asked for: whatever is there is old enough for it.
LEMMA BrightAsked ==
    ASSUME TypeOK, NEW c \in Calls, UNCHANGED <<calls, mseq>>, ~Unlisted(AccountOf[c])',
           AccountOf[c] \in DOMAIN listing', listing'[AccountOf[c]] = mseq
    PROVE  Bright(c)'
<1>1. c \in DOMAIN calls' => calls'[c].seq <= listing'[AccountOf[c]]
      <2>1. c \in DOMAIN calls => calls[c].seq \in 1..mseq
            BY DEF TypeOK
      <2> QED BY <2>1
<1>2. Passing(c)'
      BY <1>1 DEF Passing
<1>3. Fetching(AccountOf[c])'
      BY DEF Fetching
<1> QED BY <1>2, <1>3 DEF Bright, Shown, Progressed, Trusted, Wanted

\* It is made: whatever is so is on it.
LEMMA BrightTold ==
    ASSUME Safe, Wired', NEW c \in Calls, Bright(c), UNCHANGED <<ui, session, trust, up, online>>,
           toTacky # <<>>, toTacky' = Tail(toTacky),
           Head(toTacky).kind = "list", Head(toTacky).acc = AccountOf[c],
           toUi' = toUi \o <<[kind |-> "list", acc |-> AccountOf[c], rows |-> Listed(AccountOf[c])]>>
    PROVE  Bright(c)'
<1> DEFINE acc == AccountOf[c]
           n == Len(toUi)
           f == [kind |-> "list", acc |-> acc, rows |-> Listed(acc)]
<1>1. acc \in Accounts /\ TypeOK /\ Wired /\ Core(c)
      BY CallsAssumption DEF Safe
<1>2. /\ f \in UiFrames /\ f.kind = "list" /\ f.acc = acc /\ f.rows = Listed(acc)
      /\ DOMAIN f.rows = {d \in Calls : AccountOf[d] = acc /\ session[d] \in Live}
      /\ \A d \in DOMAIN f.rows : f.rows[d].raw = session[d]
      /\ c \in DOMAIN f.rows => f.rows[c].verified = trust[c]
      <2>1. c \in DOMAIN Listed(acc) => Listed(acc)[c].verified = trust[c]
            BY DEF Listed
      <2> QED BY <1>1, <2>1, ListOf
<1> HIDE DEF f
<1>3. toUi' = toUi \o <<f>>
      BY DEF f
<1>4. /\ n \in Nat /\ Len(toUi') = n + 1 /\ n + 1 \in 1..Len(toUi')
      /\ \A i \in 1..n : toUi'[i] = toUi[i] /\ i \in 1..Len(toUi')
      /\ toUi'[n + 1] = f
      BY <1>1, <1>2, <1>3, Longer DEF Wired
<1>5. PICK m \in 1..Len(toUi') : m = n + 1
      BY <1>4
<1>6. toUi'[m] = f /\ \A i \in 1..Len(toUi') : i <= m
      BY <1>4, <1>5
<1>7. WillAsk(acc) => WillAsk(acc)'
      BY <1>1, <1>2, <1>3, StillAsks
<1>8. Unlisted(acc)' => Latest(acc, m)'
      BY <1>1, <1>2, <1>3, <1>5, LatestSent
<1>9. c \in DOMAIN f.rows <=> session[c] \in Live
      BY <1>2
<1>10. session[c] \in Live /\ Unlisted(acc)' => Tells(m, c)'
       BY <1>2, <1>6, <1>8, <1>9 DEF Tells, Names
<1>11. Wanted(c)' => Tells(m, c)' /\ session[c] \in Live
       BY <1>10 DEF Wanted, Fetching
<1>12. Shown(c)'
       BY <1>5, <1>11 DEF Shown, Brings
<1>13. ASSUME Wanted(c)', NEW p \in {1, 3}, p = progress(snapshotState(session[c]))
       PROVE  Reaches(c, p)'
       <2>1. p <= progress(snapshotState(toUi'[m].rows[c].raw))
             BY <1>2, <1>6, <1>9, <1>11, <1>13
       <2> QED BY <1>5, <1>11, <1>13, <2>1 DEF Reaches
<1>14. Progressed(c)'
       BY <1>13, FarEnough, HowFar
<1>15. Passing(c)'
       <2> SUFFICES ASSUME c \in DOMAIN calls, ~isTerminal(calls[c].state), session[c] = "over"
                    PROVE  \/ OverAfter(0, c)' \/ WillAsk(acc)'
                           \/ /\ acc \in DOMAIN listing /\ calls[c].seq <= listing[acc]
                              /\ \/ ~Unlisted(acc)'
                                 \/ \E i \in 1..Len(toUi') : Latest(acc, i)' /\ c \notin DOMAIN toUi'[i].rows
           BY DEF Passing, ui
       <2>1. \/ OverAfter(0, c) \/ WillAsk(acc)
             \/ acc \in DOMAIN listing /\ calls[c].seq <= listing[acc]
             BY DEF Bright, Passing
       <2>2. OverAfter(0, c) => OverAfter(0, c)'
             BY <1>4 DEF OverAfter
       <2>3. c \notin DOMAIN f.rows
             BY <1>9 DEF Live
       <2> QED BY <1>6, <1>5, <1>7, <1>8, <2>1, <2>2, <2>3
<1>16. Trusted(c)'
       <2> SUFFICES ASSUME c \notin Legs, session[c] \in Live, ~Fetching(acc)'
                    PROVE  /\ \A i \in 1..Len(toUi') :
                                 Verdict(i, c)' /\ (\A k \in 1..Len(toUi') : k > i => ~Verdict(k, c)')
                                 => Says(i, c)' = trust[c]
                           /\ ~(\A i \in 1..Len(toUi') : ~Verdict(i, c)')
           BY DEF Trusted
       <2>1. Verdict(m, c)'
             BY <1>10 DEF Verdict, Fetching
       <2>2. Says(m, c)' = trust[c]
             BY <1>2, <1>6, <1>9 DEF Says
       <2>3. ASSUME NEW i \in 1..Len(toUi'), Verdict(i, c)',
                    \A k \in 1..Len(toUi') : k > i => ~Verdict(k, c)'
             PROVE  Says(i, c)' = trust[c]
             <3>1. i = m
                   <4>1. i <= m /\ ~(m > i) /\ i \in Nat /\ m \in Nat
                         BY <1>5, <1>6, <2>1, <2>3
                   <4> QED BY <4>1
             <3> QED BY <2>2, <3>1
       <2> QED BY <1>5, <2>1, <2>3
<1> QED BY <1>12, <1>14, <1>15, <1>16 DEF Bright

\* What is said of a deed, or is not.
LEMMA DeedTold ==
    ASSUME TypeOK, Wired, up, NEW d \in Calls, Fresh(d), Deed(d), NEW c \in Calls
    PROVE  \/ toUi' = toUi /\ Mute(c)
           \/ \E f \in Events : toUi' = toUi \o <<f>> /\ Tale(f, c)
<1>1. session \in [Calls -> Live \cup {"none", "over"}] /\ trust \in [Calls -> BOOLEAN]
      BY DEF TypeOK
<1>2. CASE c # d
      <2>1. session'[c] = session[c] /\ trust'[c] = trust[c]
            BY <1>2, DeedDone
      <2>2. CASE toUi' = toUi
            BY <2>1, <2>2 DEF Mute
      <2>3. ASSUME NEW f \in Events, f.call = d, Sends(f)
            PROVE  \E g \in Events : toUi' = toUi \o <<g>> /\ Tale(g, c)
            <3>1. toUi' = toUi \o <<f>>
                  BY <2>3 DEF Sends, Push
            <3>2. ~About(f, c) /\ ~Begins(f, c)
                  BY <1>2, <2>3 DEF About, Begins
            <3>3. Tale(f, c)
                  BY <2>1, <3>2 DEF Tale
            <3> QED BY <3>1, <3>3
      <2> QED BY <2>2, <2>3, DeedDone
<1>3. CASE c = d
      <2>1. ASSUME NEW name \in EventNames, NEW flag \in BOOLEAN, Sends(EventOf(name, c, flag))
            PROVE  \E f \in Events : /\ f.kind = "event" /\ f.name = name /\ f.call = c /\ f.flag = flag
                                     /\ toUi' = toUi \o <<f>>
            <3> DEFINE f == EventOf(name, c, flag)
            <3>1. f \in Events /\ f.kind = "event" /\ f.name = name /\ f.call = c /\ f.flag = flag
                  BY DEF EventOf, Events
            <3>2. toUi' = toUi \o <<f>>
                  BY <2>1 DEF Sends, Push
            <3> HIDE DEF f
            <3> QED BY <3>1, <3>2
      <2>2. ASSUME NEW s, session' = [session EXCEPT ![d] = s], trust' = trust
            PROVE  session'[c] = s /\ trust'[c] = trust[c]
            BY <1>1, <1>3, <2>2
      <2>3. /\ session[c] = "none" => ~trust[c]
            /\ {"Incoming", "Outgoing", "Ringing", "Active", "Ended", "Failed", "Verified"} = EventNames
            BY <1>3 DEF Fresh, EventNames
      <2>4. ASSUME NEW s, NEW name \in EventNames, Announced(d, s, name)
            PROVE  /\ session'[c] = s /\ trust'[c] = trust[c]
                   /\ \E f \in Events : f.kind = "event" /\ f.name = name /\ f.call = c /\ toUi' = toUi \o <<f>>
            BY <1>3, <2>1, <2>2, <2>4 DEF Announced
      <2>5. CASE session[d] = "none" /\ d \notin Placed \cup Legs /\ Announced(d, "ringing", "Incoming")
            <3>1. PICK f \in Events : f.kind = "event" /\ f.name = "Incoming" /\ f.call = c /\ toUi' = toUi \o <<f>>
                  BY <2>3, <2>4, <2>5
            <3>2. session'[c] = "ringing" /\ trust'[c] = trust[c]
                  BY <2>3, <2>4, <2>5
            <3>3. Tale(f, c)
                  BY <1>3, <2>3, <2>5, <3>1, <3>2 DEF Tale, About, Begins
            <3> QED BY <3>1, <3>3
      <2>6. CASE session[d] = "none" /\ d \in Placed /\ Announced(d, "proposed", "Outgoing")
            <3>1. PICK f \in Events : f.kind = "event" /\ f.name = "Outgoing" /\ f.call = c /\ toUi' = toUi \o <<f>>
                  BY <2>3, <2>4, <2>6
            <3>2. session'[c] = "proposed" /\ trust'[c] = trust[c]
                  BY <2>3, <2>4, <2>6
            <3>3. Tale(f, c)
                  BY <1>3, <2>3, <2>6, <3>1, <3>2 DEF Tale, About, Begins
            <3> QED BY <3>1, <3>3
      <2>7. CASE session[d] = "none" /\ d \in Legs /\ Unannounced(d, "connecting")
            BY <1>3, <2>7 DEF Unannounced, Mute
      <2>8. CASE session[d] = "proposed" /\ Announced(d, "alerted", "Ringing")
            <3>1. PICK f \in Events : f.kind = "event" /\ f.name = "Ringing" /\ f.call = c /\ toUi' = toUi \o <<f>>
                  BY <2>3, <2>4, <2>8
            <3>2. session'[c] = "alerted" /\ trust'[c] = trust[c] /\ session[c] = "proposed"
                  BY <1>3, <2>3, <2>4, <2>8
            <3>3. Raises(f, c, 1) /\ ~Begins(f, c)
                  BY <3>1 DEF Raises, About, Begins
            <3>4. Tale(f, c)
                  BY <3>1, <3>2, <3>3, HowFar DEF Tale, Live
            <3> QED BY <3>1, <3>4
      <2>9. CASE session[d] \in {"proposed", "alerted", "ringing"} /\ Unannounced(d, "connecting")
            BY <1>3, <2>2, <2>9 DEF Unannounced, Mute, Live
      <2>10. CASE session[d] \in {"connecting", "lost"} /\ d \notin Legs /\ Announced(d, "active", "Active")
             <3>1. PICK f \in Events : f.kind = "event" /\ f.name = "Active" /\ f.call = c /\ toUi' = toUi \o <<f>>
                   BY <2>3, <2>4, <2>10
             <3>2. session'[c] = "active" /\ trust'[c] = trust[c] /\ session[c] \in {"connecting", "lost"}
                   BY <1>3, <2>3, <2>4, <2>10
             <3>3. (\A p : Raises(f, c, p)) /\ ~Begins(f, c)
                   BY <3>1 DEF Raises, About, Begins
             <3>4. Tale(f, c)
                   BY <3>1, <3>2, <3>3 DEF Tale, Live
             <3> QED BY <3>1, <3>4
      <2>11. CASE session[d] \in {"connecting", "lost"} /\ d \in Legs /\ Unannounced(d, "active")
             BY <1>3, <2>11 DEF Unannounced, Mute
      <2>12. CASE session[d] = "active" /\ Unannounced(d, "lost")
             BY <1>3, <2>2, <2>12 DEF Unannounced, Mute, Live
      <2>13. ASSUME session[d] \in Live, NEW name \in {"Ended", "Failed"}, Announced(d, "over", name)
             PROVE  \E f \in Events : toUi' = toUi \o <<f>> /\ Tale(f, c)
             <3>1. name \in EventNames
                   BY <2>3, <2>13
             <3>2. PICK f \in Events : f.kind = "event" /\ f.name = name /\ f.call = c /\ toUi' = toUi \o <<f>>
                   BY <2>4, <2>13, <3>1
             <3>3. session'[c] = "over" /\ trust'[c] = trust[c] /\ "over" \notin Live
                   BY <2>2, <2>13 DEF Announced, Live
             <3>4. Finishes(f, c) /\ ~Begins(f, c) /\ f.name # "Verified"
                   BY <2>13, <3>2 DEF Finishes, Begins, About
             <3>5. Tale(f, c)
                   BY <3>3, <3>4 DEF Tale
             <3> QED BY <3>2, <3>5
      <2>14. CASE session[d] \in Live /\ d \in Legs /\ Unannounced(d, "over")
             BY <1>3, <2>14 DEF Unannounced, Mute
      <2>15. CASE /\ session[d] \in Live /\ session' = session /\ trust' = [trust EXCEPT ![d] = ~@]
                  /\ Sends(EventOf("Verified", d, ~trust[d]))
             <3>1. (~trust[c]) \in BOOLEAN /\ trust'[c] = ~trust[c]
                   <4>1. (~trust[c]) \in BOOLEAN
                         BY <1>1
                   <4>2. \A v \in BOOLEAN : [trust EXCEPT ![c] = v][c] = v
                         BY <1>1
                   <4>3. trust' = [trust EXCEPT ![c] = ~trust[c]]
                         BY <1>3, <2>15
                   <4> QED BY <4>1, <4>2, <4>3, Zenon
             <3>2. session[c] \in Live /\ session'[c] = session[c]
                   BY <1>3, <2>15
             <3>3. \A v \in BOOLEAN : Sends(EventOf("Verified", c, v)) =>
                      \E f \in Events : /\ f.kind = "event" /\ f.name = "Verified" /\ f.call = c /\ f.flag = v
                                        /\ toUi' = toUi \o <<f>>
                   BY <2>1, <2>3
             <3>4. Sends(EventOf("Verified", c, ~trust[c]))
                   BY <1>3, <2>15
             <3>5. PICK f \in Events : /\ f.kind = "event" /\ f.name = "Verified" /\ f.call = c
                                       /\ f.flag = ~trust[c] /\ toUi' = toUi \o <<f>>
                   BY <3>1, <3>3, <3>4, Zenon
             <3>6. About(f, c) /\ ~Begins(f, c)
                   BY <3>5 DEF About, Begins
             <3>7. f.flag = trust'[c]
                   BY <3>1, <3>5, Zenon
             <3>8. Tale(f, c)
                   BY <3>2, <3>5, <3>6, <3>7 DEF Tale
             <3> QED BY <3>5, <3>8
      <2> QED BY <2>5, <2>6, <2>7, <2>8, <2>9, <2>10, <2>11, <2>12, <2>13, <2>14, <2>15 DEF Deed
<1> QED BY <1>2, <1>3

\* The rows stay as they are.
LEMMA KeptSame ==
    ASSUME TypeOK, NEW c, UNCHANGED ui
    PROVE  Kept(c)
<1>1. c \in DOMAIN calls => progress(calls[c].state) \in 0..4
      BY SnapshotWords DEF TypeOK, Call
<1>2. calls' = calls /\ torn' = torn
      BY DEF ui
<1> QED BY <1>1, <1>2 DEF Kept

\* Something becomes of a call, announced or not.
LEMMA BrightDeed ==
    ASSUME Safe, TypeOK', NEW d \in Calls, Deed(d), UNCHANGED <<ui, up, online>>,
           NEW c \in Calls, Bright(c),
           \/ toTacky' = toTacky
           \/ toTacky # <<>> /\ toTacky' = Tail(toTacky) /\ Head(toTacky).kind \notin {"list", "pull"}
    PROVE  Bright(c)'
<1>1. TypeOK /\ Wired /\ Core(c) /\ Core(d)
      BY DEF Safe
<1>2. Fresh(d) /\ session[c] \in Live \cup {"none", "over"}
      BY <1>1, Freshness DEF Core, TypeOK
<1>3. Lasts(c)
      <2>1. CASE c = d
            BY <1>1, <1>2, <2>1, DeedDone
      <2>2. CASE c # d
            BY <1>1, <1>2, <2>2, DeedDone, Freshness DEF Core
      <2> QED BY <2>1, <2>2
<1>4. Unlisted(AccountOf[c])' <=> Unlisted(AccountOf[c])
      BY <1>1, OrdersStay, OrdersTaken
<1>5. CASE ~up
      BY <1>5, Asking DEF WillAsk
<1>6. CASE up
      <2>1. CASE toUi' = toUi /\ Mute(c)
            <3>1. Steady(AccountOf[c])
                  BY <1>1, <1>4, <2>1, StillAsks DEF Steady
            <3>2. Kept(c)
                  BY <1>1, KeptSame
            <3> QED BY <1>1, <2>1, <3>1, <3>2, BrightStay DEF ui
      <2>2. ASSUME NEW f \in Events, toUi' = toUi \o <<f>>, Tale(f, c)
            PROVE  Bright(c)'
            <3>1. f \in UiFrames /\ f.kind = "event"
                  BY DEF UiFrames, Events
            <3>2. Steady(AccountOf[c])
                  BY <1>1, <1>4, <2>2, <3>1, StillAsks DEF Steady
            <3> QED BY <1>1, <1>2, <1>3, <2>2, <3>1, <3>2, BrightSent
      <2> QED BY <1>1, <1>2, <1>6, <2>1, <2>2, DeedTold
<1> QED BY <1>5, <1>6

\* A connected edge sent for another account; or nothing at all.
LEMMA BrightQuiet ==
    ASSUME Safe, TypeOK', NEW c \in Calls, Bright(c), UNCHANGED <<ui, session, trust, up>>,
           AccountOf[c] \notin online => AccountOf[c] \notin online',
           \/ toTacky' = toTacky
           \/ /\ toTacky # <<>> /\ toTacky' = Tail(toTacky) /\ Head(toTacky).kind # "list"
              /\ ~(Head(toTacky).kind = "pull" /\ Head(toTacky).acc = AccountOf[c]),
           \/ toUi' = toUi
           \/ \E acc \in Accounts : toUi' = toUi \o <<EdgeOf(acc)>>
    PROVE  Bright(c)'
<1>1. TypeOK /\ Wired /\ Core(c)
      BY DEF Safe
<1>2. Unlisted(AccountOf[c])' <=> Unlisted(AccountOf[c])
      BY <1>1, OrdersStay, OrdersTaken
<1>3. Lasts(c) /\ session[c] \in Live \cup {"none", "over"}
      BY <1>1, Freshness DEF Core, TypeOK
<1>4. CASE toUi' = toUi
      <2>1. Steady(AccountOf[c])
            BY <1>1, <1>2, <1>4, StillAsks DEF Steady
      <2>2. Kept(c) /\ Mute(c)
            BY <1>1, KeptSame DEF Mute
      <2> QED BY <1>1, <1>4, <2>1, <2>2, BrightStay DEF ui
<1>5. ASSUME NEW acc \in Accounts, toUi' = toUi \o <<EdgeOf(acc)>>
      PROVE  Bright(c)'
      <2>1. EdgeOf(acc) \in UiFrames /\ EdgeOf(acc).kind = "connected"
            BY EdgeFrame
      <2>2. Steady(AccountOf[c])
            BY <1>1, <1>2, <1>5, <2>1, StillAsks DEF Steady
      <2>3. Tale(EdgeOf(acc), c)
            BY <2>1 DEF Tale, About, Begins
      <2> QED BY <1>1, <1>3, <1>5, <2>1, <2>2, <2>3, BrightSent
<1> QED BY <1>4, <1>5

\* tacky takes a frame.
LEMMA BrightTaking ==
    ASSUME Safe, TypeOK', Wired', TackyTakes, NEW c \in Calls, Bright(c)
    PROVE  Bright(c)'
<1> DEFINE g == Head(toTacky)
           acc == AccountOf[c]
<1>1. TypeOK /\ Wired
      BY DEF Safe
<1>2. /\ toTacky # <<>> /\ toTacky' = Tail(toTacky) /\ g \in TackyFrames
      /\ UNCHANGED <<ui, up, online>>
      /\ Obeys(g) \/ TellsList(g) \/ TellsState(g) \/ Ignores(g)
      BY <1>1, ToldDeeds
<1>3. /\ g.kind \in {"list", "pull"} => g.acc \in Accounts
      /\ g.kind \in {"start", "accept", "reject", "hangup"} => g.call \in Calls
      BY <1>2, TackyFields
<1>4. CASE Obeys(g)
      <2>1. g.call \in Calls /\ Deed(g.call) /\ g.kind \notin {"list", "pull"}
            BY <1>3, <1>4 DEF Obeys
      <2> QED BY <1>2, <2>1, BrightDeed
<1>5. CASE TellsList(g)
      <2>1. /\ g.kind = "list" /\ UNCHANGED <<session, trust>>
            /\ toUi' = toUi \o <<[kind |-> "list", acc |-> g.acc, rows |-> Listed(g.acc)]>>
            BY <1>5 DEF TellsList
      <2>2. CASE g.acc = acc
            BY <1>2, <2>1, <2>2, BrightTold
      <2>3. CASE g.acc # acc
            <3> DEFINE f == [kind |-> "list", acc |-> g.acc, rows |-> Listed(g.acc)]
            <3>1. f \in UiFrames /\ f.kind = "list" /\ f.acc = g.acc
                  BY <1>1, <1>3, <2>1, ListOf
            <3>2. toUi' = toUi \o <<f>>
                  BY <2>1
            <3> HIDE DEF f
            <3>3. Unlisted(acc)' <=> Unlisted(acc)
                  BY <1>1, <1>2, <2>3, OrdersTaken
            <3>4. Steady(acc)
                  BY <1>1, <1>2, <2>1, <3>1, <3>2, <3>3, StillAsks DEF Steady
            <3>5. Tale(f, c)
                  BY <2>1, <3>1 DEF Tale, About, Begins
            <3>6. Lasts(c) /\ session[c] \in Live \cup {"none", "over"} /\ Core(c)
                  BY <1>1, <2>1, Freshness DEF Safe, Core, TypeOK
            <3> QED BY <1>1, <1>2, <2>3, <3>1, <3>2, <3>4, <3>5, <3>6, BrightSent
      <2> QED BY <2>2, <2>3
<1>6. CASE TellsState(g)
      <2>1. /\ g.kind = "pull" /\ UNCHANGED <<session, trust>> /\ g.acc \in Accounts
            /\ toUi' = IF g.acc \in online THEN toUi \o <<EdgeOf(g.acc)>> ELSE toUi
            BY <1>3, <1>6 DEF TellsState, EdgeOf
      <2>2. CASE g.acc = acc
            <3>1. CASE acc \in online
                  <4>1. /\ EdgeOf(acc) \in UiFrames /\ EdgeOf(acc).kind = "connected" /\ EdgeOf(acc).acc = acc
                        BY <2>1, <2>2, EdgeFrame DEF EdgeOf
                  <4>2. Len(toUi) + 1 \in 1..Len(toUi') /\ toUi'[Len(toUi) + 1] = EdgeOf(acc)
                        BY <1>1, <2>1, <2>2, <3>1, <4>1, Longer DEF Wired
                  <4>3. EdgeOut(acc)'
                        BY <4>1, <4>2 DEF EdgeOut
                  <4> QED BY <4>3, Asking DEF WillAsk
            <3>2. CASE acc \notin online
                  BY <1>2, <3>2, Asking DEF WillAsk
            <3> QED BY <3>1, <3>2
      <2>3. CASE g.acc # acc
            BY <1>2, <2>1, <2>3, BrightQuiet
      <2> QED BY <2>2, <2>3
<1>7. CASE Ignores(g)
      <2>1. g.kind \notin {"list", "pull"} /\ UNCHANGED <<session, trust, toUi>>
            BY <1>7 DEF Ignores
      <2> QED BY <1>2, <2>1, BrightQuiet
<1> QED BY <1>2, <1>4, <1>5, <1>6, <1>7

\* The user has done something.
LEMMA BrightUser ==
    ASSUME Safe, TypeOK', Next, NEW d \in Calls,
           start(d) \/ accept(d) \/ Granted(d) \/ Denied(d) \/ hangup(d) \/ dismiss(d),
           NEW c \in Calls, Bright(c)
    PROVE  Bright(c)'
<1>1. /\ UNCHANGED <<session, trust, online, toUi, up, listing>>
      /\ TypeOK /\ Wired /\ Core(c)
      BY DEF start, accept, Granted, Denied, hangup, dismiss, tacky, spent, ui, Safe
<1>2. /\ \A k \in {"accept", "reject", "hangup"} : [kind |-> k, call |-> d] \in TackyFrames
      /\ d \in Placed => [kind |-> "start", call |-> d] \in TackyFrames
      BY DEF TackyFrames, Orders
<1>3. toTacky' = toTacky \/ \E g \in TackyFrames : g.kind # "list" /\ toTacky' = toTacky \o <<g>>
      <2>1. \/ toTacky' = toTacky
            \/ \E k \in {"accept", "reject", "hangup"} :
                  toTacky' = Push(toTacky, up, <<[kind |-> k, call |-> d]>>)
            \/ d \in Placed /\ toTacky' = Push(toTacky, up, <<[kind |-> "start", call |-> d]>>)
            BY DEF start, accept, Granted, Denied, hangup, dismiss, Notify
      <2> QED BY <1>2, <2>1 DEF Push
<1>4. Unlisted(AccountOf[c])' <=> Unlisted(AccountOf[c])
      BY <1>1, <1>3, OrdersStay, OrdersSent
<1>5. Steady(AccountOf[c])
      BY <1>1, <1>3, <1>4, StillAsks DEF Steady
<1>6. \A e \in DOMAIN calls : calls[e] \in Call
      BY <1>1 DEF TypeOK
<1>7. /\ torn \subseteq torn'
      /\ c \in DOMAIN calls' => /\ c \in DOMAIN calls /\ calls'[c].seq = calls[c].seq
                                /\ calls'[c].verified = calls[c].verified
      /\ c \in DOMAIN calls \ DOMAIN calls' => isTerminal(calls[c].state)
      <2>1. CASE start(d) \/ accept(d) \/ Denied(d)
            BY <2>1 DEF start, accept, Denied, ui
      <2>2. CASE Granted(d)
            <3>1. torn' = torn /\ (calls' = calls \/ calls' = setState(calls, d, "connecting"))
                  BY <2>2 DEF Granted
            <3> QED BY <1>6, <3>1, StateSet DEF States
      <2>3. CASE hangup(d)
            <3>1. torn' = torn \cup {d} /\ calls' = setState(calls, d, "ended")
                  BY <2>3 DEF hangup
            <3> QED BY <1>6, <3>1, StateSet DEF States
      <2>4. CASE dismiss(d)
            BY <2>4 DEF dismiss
      <2> QED BY <2>1, <2>2, <2>3, <2>4
<1>8. Kept(c)
      BY <1>7, NoStepBack DEF Kept
<1>9. Mute(c)
      BY <1>1 DEF Mute
<1> QED BY <1>1, <1>5, <1>8, <1>9, BrightStay

\* An event is handled.
LEMMA EventMoves ==
    ASSUME Safe, Next, NEW c \in Calls, toUi # <<>>, Head(toUi).kind = "event",
           calls' = handleEvent([calls |-> calls, seq |-> mseq], Head(toUi)).calls,
           mseq' = handleEvent([calls |-> calls, seq |-> mseq], Head(toUi)).seq
    PROVE  Moved(c)
<1> DEFINE f == Head(toUi)
<1>1. TypeOK /\ f \in Events
      BY HeadOf DEF Safe
<1>2. /\ calls' = handleEvent([calls |-> calls, seq |-> mseq], f).calls
      /\ mseq' = handleEvent([calls |-> calls, seq |-> mseq], f).seq
      OBVIOUS
<1>3. c \in DOMAIN calls' /\ c \in DOMAIN calls => progress(calls[c].state) <= progress(calls'[c].state)
      BY NoStepBack
<1>4. f.kind = "event" /\ f.name \in EventNames
      BY <1>1 DEF Events
<1> HIDE DEF f
<1>5. CASE f.call # c
      <2>1. /\ c \in DOMAIN calls' <=> c \in DOMAIN calls
            /\ c \in DOMAIN calls => calls'[c] = calls[c]
            BY <1>1, <1>2, <1>5, EventRows
      <2> QED BY <1>3, <1>5, <2>1 DEF Moved, About, Begins, Finishes, Raises, f
<1>6. CASE f.call = c /\ c \notin DOMAIN calls
      <2>1. c \in DOMAIN calls' => f.name \in {"Incoming", "Outgoing"} /\ ~calls'[c].verified
            <3>1. CASE f.name \in {"Incoming", "Outgoing"}
                  <4>1. calls'[c] = NewCall(IF f.name = "Incoming" THEN "incoming" ELSE "calling",
                                            FALSE, FALSE, mseq + 1)
                        BY <1>1, <1>2, <1>6, <3>1, EventRows
                  <4>2. calls'[c].verified = FALSE
                        BY <4>1 DEF NewCall
                  <4> QED BY <3>1, <4>2
            <3>2. CASE f.name \notin {"Incoming", "Outgoing"}
                  BY <1>1, <1>2, <1>6, <3>2, EventRows
            <3> QED BY <3>1, <3>2
      <2>2. f.name \in {"Incoming", "Outgoing"} => c \in DOMAIN calls'
            BY <1>1, <1>2, <1>6, EventRows
      <2> QED BY <1>4, <1>6, <2>1, <2>2 DEF Moved, About, Begins, f
<1>7. CASE f.call = c /\ c \in DOMAIN calls
      <2>1. /\ c \in DOMAIN calls' /\ calls'[c].seq = calls[c].seq
            /\ calls'[c].state = StateAfter(f, calls[c].state)
            /\ calls'[c].verified = IF f.name = "Verified" THEN f.flag ELSE calls[c].verified
            BY <1>1, <1>2, <1>7, EventRows
      <2>2. calls[c].state \in States
            BY <1>1, <1>7 DEF TypeOK, Call
      <2>3. Finishes(f, c) => isTerminal(calls'[c].state)
            BY <2>1 DEF Finishes, StateAfter, isTerminal
      <2>4. /\ f.name = "Ringing" /\ calls[c].state # "incoming" => 1 <= progress(calls'[c].state)
            /\ f.name = "Active" => 3 <= progress(calls'[c].state)
            BY <2>1, <2>2 DEF StateAfter, progress, isTerminal, States
      <2>5. ASSUME NEW p \in {1, 3}, (Raises(f, c, p) /\ calls[c].state # "incoming") \/ Raises(f, c, 3)
            PROVE  p <= progress(calls'[c].state)
            <3>1. f.name = "Active" \/ (f.name = "Ringing" /\ p = 1 /\ calls[c].state # "incoming")
                  BY <2>5 DEF Raises
            <3>2. progress(calls'[c].state) \in 0..4
                  BY <2>1, <2>2 DEF StateAfter, progress, isTerminal, States
            <3> QED BY <2>4, <2>5, <3>1, <3>2
      <2>6. About(f, c)
            BY <1>4, <1>7 DEF About
      <2> QED BY <1>3, <1>7, <2>1, <2>3, <2>5, <2>6 DEF Moved, Begins, f
<1> QED BY <1>5, <1>6, <1>7

\* A frame that is none of its own changes nothing of a call.
LEMMA SameMoves ==
    ASSUME TypeOK, NEW c \in Calls, ~About(Head(toUi), c),
           c \in DOMAIN calls' <=> c \in DOMAIN calls,
           c \in DOMAIN calls => /\ calls'[c].seq = calls[c].seq /\ calls'[c].state = calls[c].state
                                 /\ calls'[c].verified = calls[c].verified
    PROVE  Moved(c)
<1>1. c \in DOMAIN calls => progress(calls[c].state) \in 0..4
      BY SnapshotWords DEF TypeOK, Call
<1> QED BY <1>1 DEF Moved, Begins, Finishes, Raises

\* A list of another account is handled.
LEMMA OtherListMoves ==
    ASSUME Safe, NEW c \in Calls, toUi # <<>>, Head(toUi).kind = "list", ListTaken(Head(toUi)),
           Head(toUi).acc # AccountOf[c]
    PROVE  Moved(c)
<1> DEFINE f == Head(toUi)
           told == Told(f.rows, dismissed)
<1>1. TypeOK /\ Wired /\ \A d \in DOMAIN f.rows : AccountOf[d] = f.acc
      BY HeadOf DEF Safe
<1>2. c \notin told
      BY <1>1 DEF Told, Known
<1>3. /\ DOMAIN calls' = DOMAIN calls \cup told
      /\ \A d \in DOMAIN calls \ told :
            /\ calls'[d].seq = calls[d].seq
            /\ calls'[d].state = IF Ends1(d, f.acc, f.rows, listing[f.acc]) THEN "ended" ELSE calls[d].state
            /\ calls'[d].verified = calls[d].verified
      BY <1>1, ListRows
<1>4. ~Ends1(c, f.acc, f.rows, listing[f.acc])
      BY DEF Ends1
<1>5. ~About(f, c)
      BY DEF About
<1> QED BY <1>1, <1>2, <1>3, <1>4, <1>5, SameMoves

\* The UI handles a frame.
LEMMA BrightHandling ==
    ASSUME Safe, TypeOK', Next, Handles, NEW c \in Calls, Bright(c)
    PROVE  Bright(c)'
<1> DEFINE acc == AccountOf[c]
           f == Head(toUi)
<1>1. /\ TypeOK /\ Wired /\ Awaited /\ Core(c) /\ acc \in Accounts
      /\ toUi # <<>> /\ toUi' = Tail(toUi) /\ UNCHANGED <<session, trust, torn, up, online>>
      BY HandlesWhat, CallsAssumption DEF Safe, tacky
<1>2. /\ f = toUi[1] /\ f \in UiFrames /\ 1 \in 1..Len(toUi)
      /\ Latest(acc, 1) => f.kind = "list" /\ f.acc = acc
      BY <1>1, HeadOf DEF Latest, ListsOf
<1>3. CASE /\ f.kind = "event" /\ UNCHANGED <<listing, dismissed, toTacky>>
           /\ calls' = handleEvent([calls |-> calls, seq |-> mseq], f).calls
           /\ mseq' = handleEvent([calls |-> calls, seq |-> mseq], f).seq
      <2>1. Steady(acc)
            BY <1>1, <1>3, StillAsks, OrdersStay DEF Steady
      <2>2. Moved(c)
            BY <1>1, <1>3, EventMoves
      <2> QED BY <1>1, <1>2, <1>3, <2>1, <2>2, BrightTaken
<1>4. CASE /\ f.kind = "connected" /\ UNCHANGED <<calls, mseq, dismissed>>
           /\ toTacky' = toTacky \o <<[kind |-> "list", acc |-> f.acc]>>
           /\ listing' = [a \in DOMAIN listing \cup {f.acc} |-> IF a = f.acc THEN mseq ELSE listing[a]]
      <2> DEFINE g == [kind |-> "list", acc |-> f.acc]
      <2>1. f.acc \in Accounts
            BY <1>1, <1>4, HeadOf
      <2>2. g \in TackyFrames /\ g.kind = "list" /\ g.acc = f.acc /\ toTacky' = toTacky \o <<g>>
            BY <1>4, <2>1 DEF TackyFrames, Asks
      <2> HIDE DEF g
      <2>3. \A a : Unlisted(a)' <=> Unlisted(a) /\ ~(g.kind = "list" /\ g.acc = a)
            BY <1>1, <2>2, OrdersSent
      <2>4. CASE f.acc = acc
            <3>1. ~Unlisted(acc)'
                  BY <2>2, <2>3, <2>4
            <3>2. acc \in DOMAIN listing' /\ listing'[acc] = mseq
                  BY <1>4, <2>4
            <3> QED BY <1>1, <1>4, <3>1, <3>2, BrightAsked
      <2>5. CASE f.acc # acc
            <3>1. Steady(acc)
                  BY <1>1, <1>2, <2>2, <2>3, <2>5, StillAsks DEF Steady
            <3>2. Moved(c)
                  <4>1. ~About(f, c)
                        BY <1>4 DEF About
                  <4> QED BY <1>1, <1>4, <4>1, SameMoves
            <3>3. acc \in DOMAIN listing => acc \in DOMAIN listing' /\ listing'[acc] = listing[acc]
                  BY <1>4, <2>5
            <3> QED BY <1>1, <1>2, <1>4, <3>1, <3>2, <3>3, BrightTaken
      <2> QED BY <2>4, <2>5
<1>5. CASE f.kind = "list" /\ ListTaken(f) /\ toTacky' = toTacky
      <2>1. Steady(acc)
            BY <1>1, <1>5, StillAsks, OrdersStay DEF Steady
      <2>2. CASE f.acc = acc
            BY <1>1, <1>5, <2>1, <2>2, NoStepBack, BrightListed
      <2>3. CASE f.acc # acc
            <3>1. Moved(c)
                  BY <1>1, <1>5, <2>3, OtherListMoves
            <3>2. acc \in DOMAIN listing => acc \in DOMAIN listing' /\ listing'[acc] = listing[acc]
                  BY <1>5, <2>3 DEF ListTaken
            <3> QED BY <1>1, <1>2, <2>1, <2>3, <3>1, <3>2, BrightTaken
      <2> QED BY <2>2, <2>3
<1>6. CASE /\ f.kind = "list" /\ UNCHANGED <<calls, mseq, listing, dismissed, toTacky>>
           /\ ~Newest(f.acc)
      <2>1. Steady(acc)
            BY <1>1, <1>6, StillAsks, OrdersStay DEF Steady
      <2>2. ASSUME Latest(acc, 1)  PROVE FALSE
            <3>1. f.acc = acc /\ Unlisted(acc) /\ 1 \in ListsOf(toUi, acc)
                  BY <1>2, <2>2 DEF Latest
            <3>2. acc \in DOMAIN listing
                  BY <1>1, <3>1 DEF Awaited
            <3>3. \A j \in ListsOf(toUi, acc) : j = 1
                  BY <1>1, <2>2 DEF Latest, ListsOf, Wired
            <3> QED BY <1>6, <3>1, <3>2, <3>3 DEF Newest, Unlisted
      <2>3. ~About(f, c)
            BY <1>6 DEF About
      <2>4. Moved(c)
            BY <1>1, <1>6, <2>3, SameMoves
      <2> QED BY <1>1, <1>6, <2>1, <2>2, <2>4, BrightTaken
<1> QED BY <1>3, <1>4, <1>5, <1>6, HandlesWhat

\* Every step keeps what will be shown in sight.
LEMMA BrightStep ==
    ASSUME Safe, Safe', Next, NEW c \in Calls, Bright(c)
    PROVE  Bright(c)'
<1> DEFINE acc == AccountOf[c]
<1>1. /\ TypeOK /\ TypeOK' /\ Wired /\ Wired' /\ acc \in Accounts
      BY CallsAssumption DEF Safe
<1>2. ASSUME NEW d \in Calls,
             start(d) \/ accept(d) \/ Granted(d) \/ Denied(d) \/ hangup(d) \/ dismiss(d)
      PROVE  Bright(c)'
      BY <1>1, <1>2, BrightUser
<1>3. CASE Handles
      BY <1>1, <1>3, BrightHandling
<1>4. ASSUME NEW d \in Calls, TackyMoves(d)  PROVE Bright(c)'
      <2>1. Deed(d) /\ UNCHANGED <<ui, up, toTacky>>
            BY <1>4, OwnDeeds
      <2>2. UNCHANGED online
            BY <1>4 DEF TackyMoves, SessionMoves
      <2> QED BY <1>1, <2>1, <2>2, BrightDeed
<1>5. CASE TackyTakes
      BY <1>1, <1>5, BrightTaking
<1>6. ASSUME NEW a \in Accounts, Connect(a)  PROVE Bright(c)'
      <2>1. /\ UNCHANGED <<ui, session, trust, toTacky, up>> /\ online' = online \cup {a}
            /\ Sends(EdgeOf(a))
            BY <1>6 DEF Connect, Sends, EdgeOf
      <2>2. CASE ~up
            BY <2>1, <2>2, Asking DEF WillAsk
      <2>3. CASE up
            <3>1. toUi' = toUi \o <<EdgeOf(a)>>
                  BY <2>1, <2>3 DEF Sends, Push
            <3>2. CASE a = acc
                  <4>1. EdgeOf(acc) \in UiFrames /\ EdgeOf(acc).kind = "connected" /\ EdgeOf(acc).acc = acc
                        BY <1>1, EdgeFrame
                  <4>2. Len(toUi) + 1 \in 1..Len(toUi') /\ toUi'[Len(toUi) + 1] = EdgeOf(acc)
                        BY <1>1, <3>1, <3>2, <4>1, Longer DEF Wired
                  <4>3. EdgeOut(acc)'
                        BY <4>1, <4>2 DEF EdgeOut
                  <4> QED BY <4>3, Asking DEF WillAsk
            <3>3. CASE a # acc
                  BY <1>1, <2>1, <3>1, <3>3, BrightQuiet
            <3> QED BY <3>2, <3>3
      <2> QED BY <1>1, <2>2, <2>3 DEF TypeOK
<1>7. ASSUME NEW a \in Accounts, Disconnect(a)  PROVE Bright(c)'
      <2>1. UNCHANGED <<ui, session, trust, toTacky, toUi, up>> /\ online' = online \ {a}
            BY <1>7 DEF Disconnect
      <2> QED BY <1>1, <2>1, BrightQuiet
<1>8. CASE Drop \/ UiDies \/ TackyDies
      <2>1. ~up'
            BY <1>8 DEF Drop, UiDies, TackyDies
      <2> QED BY <2>1, Asking DEF WillAsk
<1>9. CASE Attach
      <2>1. toTacky' = SetToSeq(Pulls)
            BY <1>9 DEF Attach, Pulls
      <2>2. PullOut(acc)'
            BY <1>1, <2>1, PullsOut
      <2> QED BY <2>2, Asking DEF WillAsk
<1> QED BY <1>2, <1>3, <1>4, <1>5, <1>6, <1>7, <1>8, <1>9 DEF Next

\* There is nothing to show at first.
LEMMA BrightInit ==
    ASSUME Init, NEW c \in Calls
    PROVE  Bright(c)
<1>1. DOMAIN calls = {} /\ session[c] = "none" /\ "none" \notin Live \cup {"over"}
      BY DEF Init, Live
<1> QED BY <1>1 DEF Bright, Shown, Progressed, Passing, Trusted, Wanted

\* Nor does it change when nothing does.
LEMMA BrightPause ==
    ASSUME UNCHANGED vars, TypeOK, NEW c \in Calls, Core(c), Bright(c)
    PROVE  Bright(c)'
<1>1. UNCHANGED <<ui, session, trust, online, up, toTacky, toUi>>
      BY DEF vars, tacky
<1>2. Steady(AccountOf[c])
      BY <1>1, OrdersStay DEF Steady, WillAsk, PullOut, EdgeOut
<1>3. TypeOK'
      BY DEF TypeOK, vars, ui, tacky, spent
<1>4. Kept(c) /\ Mute(c)
      BY <1>1, KeptSame DEF Mute
<1> QED BY <1>1, <1>2, <1>3, <1>4, BrightStay DEF ui

\* And, while an account is not about to be asked for its calls again: a call in flight
\* has a row or one is on its way, as far as it has come; the row of a call that is
\* over will be ended; and the last word on its trust is true (CallsModel::refreshFor,
\* handleResult).
THEOREM InvAlways == Spec => []Inv
<1>1. Init => Inv
      BY SafeInit, BrightInit DEF Inv
<1>2. Inv /\ [Next]_vars => Inv'
      <2> SUFFICES ASSUME Inv, [Next]_vars  PROVE Inv'
          OBVIOUS
      <2>1. Safe /\ Safe' /\ \A c \in Calls : Bright(c)
            BY SafeStep DEF Inv
      <2>2. CASE Next
            BY <2>1, <2>2, BrightStep DEF Inv
      <2>3. CASE UNCHANGED vars
            BY <2>1, <2>3, BrightPause DEF Inv, Safe
      <2> QED BY <2>1, <2>2, <2>3
<1> QED BY <1>1, <1>2, PTL DEF Spec

\* With nothing under way, what is on its way is there.
LEMMA RowsFollow == Inv => RowsTrue
<1> SUFFICES ASSUME Inv  PROVE RowsTrue
    OBVIOUS
<1>1. TypeOK /\ Wired /\ \A c \in Calls : Core(c) /\ Bright(c)
      BY DEF Inv, Safe
<1>2. /\ DOMAIN calls \subseteq Calls /\ torn \subseteq Calls /\ session \in [Calls -> Live \cup {"none", "over"}]
      /\ \A c \in DOMAIN calls : calls[c].state \in States
      BY <1>1 DEF TypeOK, Call
<1>3. EndedIsOver
      BY <1>1, <1>2 DEF EndedIsOver, Core, Sessions
<1>4. ASSUME Quiet, NEW c \in Calls
      PROVE  /\ ~Fetching(AccountOf[c]) /\ ~OverAfter(0, c) /\ 1..Len(toUi) = {} /\ 1..Len(toTacky) = {}
             /\ ~TornBy(Len(toTacky) + 1, c)
      <2>1. 1..Len(toUi) = {} /\ 1..Len(toTacky) = {}
            BY <1>4 DEF Quiet
      <2>2. up /\ AccountOf[c] \in online
            BY <1>4, CallsAssumption DEF Quiet
      <2> QED BY <2>1, <2>2 DEF Fetching, WillAsk, PullOut, EdgeOut, Unlisted, ListsOf, OverAfter, TornBy
<1>5. MirrorsTacky
      <2> SUFFICES ASSUME Quiet
                   PROVE  /\ \A c \in Calls \ (Legs \cup torn) : session[c] \in Live =>
                                /\ c \in DOMAIN calls /\ ~isTerminal(calls[c].state)
                                /\ session[c] \in {"alerted", "active"} =>
                                     progress(snapshotState(session[c])) <= progress(calls[c].state)
                          /\ \A c \in DOMAIN calls :
                                ~isTerminal(calls[c].state) => c \notin Legs /\ session[c] \in Live
          BY DEF MirrorsTacky
      <2>1. ASSUME NEW c \in Calls \ (Legs \cup torn), session[c] \in Live
            PROVE  /\ c \in DOMAIN calls /\ ~isTerminal(calls[c].state)
                   /\ session[c] \in {"alerted", "active"} =>
                        progress(snapshotState(session[c])) <= progress(calls[c].state)
            <3>1. Wanted(c)
                  BY <1>4, <2>1 DEF Wanted
            <3>2. c \in DOMAIN calls
                  BY <1>1, <1>4, <3>1 DEF Bright, Shown
            <3>3. ~isTerminal(calls[c].state)
                  BY <1>1, <2>1, <3>2 DEF Core, Sessions, Live
            <3>4. session[c] \in {"alerted", "active"} =>
                     progress(snapshotState(session[c])) <= progress(calls[c].state)
                  BY <1>1, <1>4, <3>1 DEF Bright, Progressed, Reaches
            <3> QED BY <3>2, <3>3, <3>4
      <2>2. ASSUME NEW c \in DOMAIN calls, ~isTerminal(calls[c].state)
            PROVE  c \notin Legs /\ session[c] \in Live
            <3>1. c \in Calls /\ c \notin Legs /\ session[c] # "none"
                  BY <1>1, <1>2 DEF Core, Sessions
            <3>2. session[c] # "over"
                  BY <1>1, <1>4, <2>2, <3>1 DEF Bright, Passing, Fetching
            <3> QED BY <1>2, <3>1, <3>2
      <2> QED BY <2>1, <2>2
<1>6. TrustShown
      <2> SUFFICES ASSUME Quiet, NEW c \in DOMAIN calls, session[c] \in Live
                   PROVE  calls[c].verified = trust[c]
          BY DEF TrustShown
      <2>1. c \in Calls /\ c \notin Legs
            BY <1>1, <1>2 DEF Core, Sessions
      <2> QED BY <1>1, <1>4, <2>1 DEF Bright, Trusted
<1>7. HangupEnds
      BY <1>1, <1>2, <1>4 DEF HangupEnds, Core, Torn, Live
<1> QED BY <1>1, <1>3, <1>5, <1>6, <1>7 DEF RowsTrue

\* The rows say of tacky's calls what is so once nothing is under way, whatever links
\* dropped and processes died before: which calls there are, how far they are, whose
\* key they are under; and never call one over that the user has not hung up and that
\* is not (CallsModel, against the sessions of tacky).
THEOREM RowsStayTrue == Spec => []RowsTrue
<1> QED BY InvAlways, RowsFollow, PTL
=============================================================================
