----------------------------- MODULE CallsModel -----------------------------
(***************************************************************************)
(* The list of voice calls a UI shows (CallsModel): a cache of the call     *)
(* sessions tacky holds, kept by the events tacky sends and mended by       *)
(* `calls list`.  Frames in each direction keep their order; a link that    *)
(* drops loses the frames under way, and those sent while it is down.       *)
(***************************************************************************)
EXTENDS Naturals, FiniteSets, Sequences, SequencesExt, Functions

CONSTANTS
    Calls,          \* every session there may be, an account's end of one each
    Accounts,
    AccountOf,      \* [Calls -> Accounts]
    Placed,         \* the calls that go out from here; the others come in
    Legs,           \* sessions that are legs of a group call
    Keyed,          \* calls the trust in whose key may move
    Room,           \* frames under way in a direction (bound)
    MaxDrop,        \* times the link drops or a process dies (bound)
    MaxOff          \* times an account loses its server (bound)

ASSUME CallsAssumption ==
    /\ IsFiniteSet(Calls) /\ IsFiniteSet(Accounts)
    /\ AccountOf \in [Calls -> Accounts]
    /\ Placed \subseteq Calls /\ Legs \subseteq Calls \ Placed /\ Keyed \subseteq Calls
    /\ Room \in Nat \ {0} /\ MaxDrop \in Nat /\ MaxOff \in Nat

VARIABLES
    \* CallsModel, in the UI process
    calls,          \* m_calls: the rows, by call
    mseq,           \* m_seq
    listing,        \* m_listTokens: account -> m_seq when the last list went out
    dismissed,      \* m_dismissed
    prompt,         \* calls accepted whose microphone prompt is still open
    torn,           \* calls the user hung up or rejected (history)
    cleared,        \* calls whose row was dismissed in this process (history)
    \* tacky
    session,        \* what tacky has of each call
    trust,          \* the peer's key is one we encrypt to
    online,         \* accounts that are connected
    \* the link, and what is spent of the bounds
    up, toTacky, toUi, drops, offs

ui == <<calls, mseq, listing, dismissed, prompt, torn, cleared>>
tacky == <<session, trust, online>>
spent == <<drops, offs>>
vars == <<ui, tacky, up, toTacky, toUi, spent>>

States == {"calling", "ringing", "incoming", "connecting", "active", "ended", "failed"}
\* tacky's: "alerted" is proposed with peer_ringing, "lost" is connecting again
\* after having been active.
Live == {"proposed", "alerted", "ringing", "connecting", "active", "lost"}
Since(raw) == raw \in {"active", "lost"}
Call == [state : States, seq : Nat, since : BOOLEAN, verified : BOOLEAN]

isTerminal(s) == s \in {"ended", "failed"}

progress(s) ==
    CASE s \in {"incoming", "calling"} -> 0
      [] s = "ringing" -> 1
      [] s = "connecting" -> 2
      [] s = "active" -> 3
      [] OTHER -> 4

\* tacky's word for a session as ours.
snapshotState(raw) ==
    CASE raw = "ringing" -> "incoming"
      [] raw = "proposed" -> "calling"
      [] raw = "alerted" -> "ringing"
      [] raw = "active" -> "active"
      [] OTHER -> "connecting"

----------------------------------------------------------------------------
(* The rows.                                                                *)

NewCall(s, since, verified, n) == [state |-> s, seq |-> n, since |-> since, verified |-> verified]

With(rs, c, r) == [d \in DOMAIN rs \cup {c} |-> IF d = c THEN r ELSE rs[d]]

\* insertCall: rows and m_seq together, as most callers go on from both.
insertCall(m, c, s, since, verified) ==
    IF c \in DOMAIN m.calls THEN m
    ELSE [calls |-> With(m.calls, c, NewCall(s, since, verified, m.seq + 1)), seq |-> m.seq + 1]

\* Terminal is final.
setState(rs, c, s) ==
    IF c \notin DOMAIN rs \/ (isTerminal(rs[c].state) /\ ~isTerminal(s)) THEN rs
    ELSE [rs EXCEPT ![c].state = s]

setVerification(rs, c, v) == IF c \in DOMAIN rs THEN [rs EXCEPT ![c].verified = v] ELSE rs

\* What an event does to the rows.
handleEvent(m, e) ==
    LET c == e.call
        rs == m.calls
        OnRows(new) == [m EXCEPT !.calls = new]
    IN CASE e.name = "Outgoing" -> insertCall(m, c, "calling", FALSE, FALSE)
         [] e.name = "Incoming" -> insertCall(m, c, "incoming", FALSE, FALSE)
         [] e.name = "Ringing" ->
              OnRows(IF c \in DOMAIN rs /\ rs[c].state = "calling"
                     THEN setState(rs, c, "ringing") ELSE rs)
         [] e.name = "Active" ->
              OnRows(setState(IF c \in DOMAIN rs THEN [rs EXCEPT ![c].since = TRUE] ELSE rs,
                              c, "active"))
         [] e.name = "Ended" -> OnRows(setState(rs, c, "ended"))
         [] e.name = "Failed" -> OnRows(setState(rs, c, "failed"))
         [] e.name = "Verified" -> OnRows(setVerification(rs, c, e.flag))
         [] OTHER -> m

\* The calls a list tells of: the legs are the group call's window's.
Known(list) == {c \in DOMAIN list : c \notin Legs}

\* As a bug would have it: trust held to forward-only as the state is
ReconcileForward(r, told) ==
    IF isTerminal(r.state) \/ progress(snapshotState(told.raw)) <= progress(r.state)
    THEN r
    ELSE [r EXCEPT !.verified = told.verified, !.state = snapshotState(told.raw)]

\* As a bug would have it: the snapshot's state taken as it is
ReconcileAsTold(r, told) ==
    [r EXCEPT !.verified = told.verified, !.state = snapshotState(told.raw)]

\* A row the list names: trust is taken as it is, the state forward only.
Reconcile(r, told) ==
    [r EXCEPT !.verified = told.verified,
              !.state = IF isTerminal(@) \/ progress(snapshotState(told.raw)) <= progress(@)
                        THEN @ ELSE snapshotState(told.raw)]

\* A numbering of the rows that are new, in the order the list gives them.
Order(S) == CHOOSE f \in [S -> 1..Cardinality(S)] : IsInjective(f)

Told(list, hidden) == Known(list) \ hidden

\* Every row the list names, but for the dismissed: a new one or reconciled.
ApplyRows(list, hidden, m) ==
    LET told == Told(list, hidden)
        new == told \ DOMAIN m.calls
    IN [calls |-> [c \in DOMAIN m.calls \cup new |->
                     CASE c \in new -> NewCall(snapshotState(list[c].raw), Since(list[c].raw),
                                               list[c].verified, m.seq + Order(new)[c])
                       [] c \in told \ new -> Reconcile(m.calls[c], list[c])
                       [] OTHER -> m.calls[c]],
        seq |-> m.seq + Cardinality(new)]

\* As a bug would have it: the rows of every account compared with one account's list
GoneAnyAccount(rs, acc, list, asOf) ==
    {c \in DOMAIN rs : /\ rs[c].seq <= asOf /\ c \notin Known(list) /\ ~isTerminal(rs[c].state)}

\* Rows of the account no younger than the request that the list does not name.
Gone(rs, acc, list, asOf) ==
    {c \in DOMAIN rs : /\ AccountOf[c] = acc /\ rs[c].seq <= asOf
                       /\ c \notin Known(list) /\ ~isTerminal(rs[c].state)}

EndAll(rs, S) == [c \in DOMAIN rs |-> IF c \in S THEN [rs[c] EXCEPT !.state = "ended"] ELSE rs[c]]

applySnapshot(m, hidden, acc, list, asOf) ==
    LET told == ApplyRows(list, hidden, m)
    IN [told EXCEPT !.calls = EndAll(@, Gone(@, acc, list, asOf))]

----------------------------------------------------------------------------
(* The link.                                                                *)

Push(q, on, fs) == IF on THEN q \o fs ELSE q

\* A frame from the UI is dropped while the link is down (TackyBackend.notify).
Notify(method, c) == toTacky' = Push(toTacky, up, <<[kind |-> method, call |-> c]>>)

\* tacky emits; the service drops what no UI is there to read.
Emit(name, c, flag) ==
    toUi' = Push(toUi, up, <<[kind |-> "event", name |-> name, call |-> c, flag |-> flag]>>)

Fits == Len(toUi) < Room /\ Len(toTacky) < Room

Init ==
    /\ calls = [c \in {} |-> {}] /\ mseq = 0 /\ listing = [a \in {} |-> 0]
    /\ dismissed = {} /\ prompt = {} /\ torn = {} /\ cleared = {}
    /\ session = [c \in Calls |-> "none"] /\ trust = [c \in Calls |-> FALSE]
    /\ online = {}
    /\ up = TRUE /\ toTacky = <<>> /\ toUi = <<>> /\ drops = 0 /\ offs = 0

----------------------------------------------------------------------------
(* The user.                                                                *)

start(c) ==
    /\ c \in Placed /\ session[c] = "none" /\ Fits
    /\ ~\E i \in 1..Len(toTacky) : toTacky[i] = [kind |-> "start", call |-> c]
    /\ Notify("start", c)
    /\ UNCHANGED <<ui, tacky, up, toUi, spent>>

\* accept: the prompt is put up; the call may be over when it is answered.
accept(c) ==
    /\ c \in DOMAIN calls /\ calls[c].state = "incoming"
    /\ prompt' = prompt \cup {c}
    /\ UNCHANGED <<calls, mseq, listing, dismissed, torn, cleared, tacky, up, toTacky, toUi, spent>>

Granted(c) ==
    /\ c \in prompt /\ Fits
    /\ prompt' = prompt \ {c}
    /\ IF c \in DOMAIN calls /\ calls[c].state = "incoming"
       THEN Notify("accept", c) /\ calls' = setState(calls, c, "connecting")
       ELSE UNCHANGED <<toTacky, calls>>
    /\ UNCHANGED <<mseq, listing, dismissed, torn, cleared, tacky, up, toUi, spent>>

Denied(c) ==
    /\ c \in prompt /\ prompt' = prompt \ {c}
    /\ UNCHANGED <<calls, mseq, listing, dismissed, torn, cleared, tacky, up, toTacky, toUi, spent>>

\* reject and hangup, which differ in the method only.  The row is ended at once.
hangup(c) ==
    /\ c \in DOMAIN calls /\ ~isTerminal(calls[c].state) /\ Fits
    /\ Notify(IF calls[c].state = "incoming" THEN "reject" ELSE "hangup", c)
    /\ calls' = setState(calls, c, "ended")
    /\ torn' = torn \cup {c}
    /\ UNCHANGED <<mseq, listing, dismissed, prompt, cleared, tacky, up, toUi, spent>>

\* The window of a finished call is done with it.
dismiss(c) ==
    /\ c \in DOMAIN calls /\ isTerminal(calls[c].state)
    /\ dismissed' = dismissed \cup {c} /\ cleared' = cleared \cup {c}
    /\ calls' = [d \in DOMAIN calls \ {c} |-> calls[d]]
    /\ UNCHANGED <<mseq, listing, prompt, torn, tacky, up, toTacky, toUi, spent>>

----------------------------------------------------------------------------
(* Frames that reach the UI.                                                *)

Receive(kind) ==
    /\ toUi # <<>> /\ Head(toUi).kind = kind /\ toUi' = Tail(toUi)
    /\ UNCHANGED <<prompt, torn, cleared, tacky, up, spent>>

OnEvent ==
    /\ Receive("event")
    /\ LET m == handleEvent([calls |-> calls, seq |-> mseq], Head(toUi))
       IN calls' = m.calls /\ mseq' = m.seq
    /\ UNCHANGED <<listing, dismissed, toTacky>>

\* As a bug would have it: nothing asked when an account connects
refreshForNothing ==
    Receive("connected") /\ UNCHANGED <<calls, mseq, dismissed, listing, toTacky>>

\* An account has connected, or was connected when it was asked: ask for its
\* calls.  A list still out for it no longer counts.
refreshFor ==
    /\ Receive("connected")
    /\ LET acc == Head(toUi).acc
       IN /\ toTacky' = Append(toTacky, [kind |-> "list", acc |-> acc])
          /\ listing' = [a \in DOMAIN listing \cup {acc} |-> IF a = acc THEN mseq ELSE listing[a]]
    /\ UNCHANGED <<calls, mseq, dismissed>>

ListsOf(q, acc) == {i \in 1..Len(q) : q[i].kind = "list" /\ q[i].acc = acc}

\* The token tells the newest list of an account from older ones; frames keep
\* their order, so it is the one with none behind it.
Newest(acc) ==
    acc \in DOMAIN listing /\ ListsOf(toUi, acc) = {1} /\ ListsOf(toTacky, acc) = {}

handleResult ==
    /\ Receive("list")
    /\ LET acc == Head(toUi).acc
       IN IF Newest(acc)
          THEN /\ LET m == applySnapshot([calls |-> calls, seq |-> mseq], dismissed,
                                         acc, Head(toUi).rows, listing[acc])
                  IN calls' = m.calls /\ mseq' = m.seq
               /\ listing' = [a \in DOMAIN listing \ {acc} |-> listing[a]]
               /\ dismissed' = {c \in dismissed : AccountOf[c] # acc}
          ELSE UNCHANGED <<calls, mseq, listing, dismissed>>
    /\ UNCHANGED toTacky

----------------------------------------------------------------------------
(* tacky, from how this code uses it: the sessions, and the frames it takes. *)

SessionMoves(c, s) == session' = [session EXCEPT ![c] = s] /\ UNCHANGED <<trust, online>>

TackyMoves(c) ==
    /\ Fits
    /\ UNCHANGED <<ui, up, toTacky, spent>>
    /\ \/ /\ c \notin Placed \cup Legs /\ session[c] = "none"
          /\ AccountOf[c] \in online
          /\ SessionMoves(c, "ringing") /\ Emit("Incoming", c, FALSE)
       \/ /\ c \in Legs /\ session[c] = "none" /\ AccountOf[c] \in online
          /\ SessionMoves(c, "connecting") /\ UNCHANGED toUi
       \/ /\ session[c] = "proposed"
          /\ SessionMoves(c, "alerted") /\ Emit("Ringing", c, FALSE)
       \/ /\ session[c] \in {"proposed", "alerted"}
          /\ SessionMoves(c, "connecting") /\ UNCHANGED toUi
       \/ /\ session[c] \in {"connecting", "lost"}
          /\ SessionMoves(c, "active")
          /\ IF c \in Legs THEN UNCHANGED toUi ELSE Emit("Active", c, FALSE)
       \/ /\ session[c] = "active"      \* ICE lost consent; the call carries on
          /\ SessionMoves(c, "lost") /\ UNCHANGED toUi
       \/ /\ session[c] \in Live
          /\ SessionMoves(c, "over")
          /\ IF c \in Legs THEN UNCHANGED toUi
             ELSE \E name \in {"Ended", "Failed"} : Emit(name, c, FALSE)
       \/ /\ c \in Keyed /\ session[c] \in Live
          /\ trust' = [trust EXCEPT ![c] = ~@] /\ UNCHANGED <<session, online>>
          /\ Emit("Verified", c, ~trust[c])

Connect(acc) ==
    /\ acc \notin online /\ Fits
    /\ online' = online \cup {acc}
    /\ toUi' = Push(toUi, up, <<[kind |-> "connected", acc |-> acc]>>)
    /\ UNCHANGED <<ui, session, trust, up, toTacky, spent>>

Disconnect(acc) ==
    /\ acc \in online /\ offs < MaxOff
    /\ online' = online \ {acc} /\ offs' = offs + 1
    /\ UNCHANGED <<ui, session, trust, up, toTacky, toUi, drops>>

Listed(acc) ==
    [c \in {d \in Calls : AccountOf[d] = acc /\ session[d] \in Live} |->
        [raw |-> session[c], verified |-> trust[c]]]

TackyTakes ==
    /\ toTacky # <<>> /\ Len(toUi) < Room
    /\ toTacky' = Tail(toTacky)
    /\ UNCHANGED <<ui, up, spent>>
    /\ LET f == Head(toTacky)
       IN \/ /\ f.kind = "start" /\ session[f.call] = "none" /\ AccountOf[f.call] \in online
             /\ SessionMoves(f.call, "proposed") /\ Emit("Outgoing", f.call, FALSE)
          \/ /\ f.kind = "accept" /\ session[f.call] = "ringing"
             /\ SessionMoves(f.call, "connecting") /\ UNCHANGED toUi
          \/ /\ f.kind \in {"reject", "hangup"} /\ session[f.call] \in Live
             /\ SessionMoves(f.call, "over") /\ Emit("Ended", f.call, FALSE)
          \/ /\ f.kind = "list"
             /\ toUi' = toUi \o <<[kind |-> "list", acc |-> f.acc, rows |-> Listed(f.acc)]>>
             /\ UNCHANGED tacky
          \/ /\ f.kind = "pull"
             /\ toUi' = IF f.acc \in online
                        THEN toUi \o <<[kind |-> "connected", acc |-> f.acc]>> ELSE toUi
             /\ UNCHANGED tacky
          \/ /\ \/ f.kind = "start" /\ (session[f.call] # "none" \/ AccountOf[f.call] \notin online)
                \/ f.kind = "accept" /\ session[f.call] # "ringing"
                \/ f.kind \in {"reject", "hangup"} /\ session[f.call] \notin Live
             /\ UNCHANGED <<tacky, toUi>>

----------------------------------------------------------------------------
(* The link drops and comes back; either process may die.                   *)

\* The lists that were out fail and are forgotten (handleError).
Drop ==
    /\ up /\ drops < MaxDrop
    /\ up' = FALSE /\ drops' = drops + 1
    /\ toTacky' = <<>> /\ toUi' = <<>> /\ listing' = [a \in {} |-> 0]
    /\ UNCHANGED <<calls, mseq, dismissed, prompt, torn, cleared, tacky, offs>>

\* Every account's state is pulled once the list of accounts is back.
Attach ==
    /\ ~up /\ up' = TRUE
    /\ toTacky' = SetToSeq({[kind |-> "pull", acc |-> a] : a \in Accounts})
    /\ UNCHANGED <<ui, tacky, toUi, spent>>

UiDies ==
    /\ drops < MaxDrop /\ drops' = drops + 1
    /\ up' = FALSE /\ toTacky' = <<>> /\ toUi' = <<>>
    /\ calls' = [c \in {} |-> {}] /\ mseq' = 0 /\ listing' = [a \in {} |-> 0]
    /\ dismissed' = {} /\ prompt' = {} /\ torn' = {} /\ cleared' = {}
    /\ UNCHANGED <<tacky, offs>>

\* The service, tacky with it: its calls end and it tells nobody.
TackyDies ==
    /\ drops < MaxDrop /\ drops' = drops + 1
    /\ up' = FALSE /\ toTacky' = <<>> /\ toUi' = <<>> /\ listing' = [a \in {} |-> 0]
    /\ session' = [c \in Calls |-> IF session[c] \in Live THEN "over" ELSE session[c]]
    /\ online' = {}
    /\ UNCHANGED <<calls, mseq, dismissed, prompt, torn, cleared, trust, offs>>

\* The UI's loop, with the frame that is first.
Handles == OnEvent \/ refreshFor \/ handleResult

Next ==
    \/ \E c \in Calls : start(c) \/ accept(c) \/ Granted(c) \/ Denied(c) \/ hangup(c) \/ dismiss(c)
    \/ Handles
    \/ \E c \in Calls : TackyMoves(c)
    \/ \E acc \in Accounts : Connect(acc) \/ Disconnect(acc)
    \/ TackyTakes
    \/ Drop \/ Attach \/ UiDies \/ TackyDies

Spec == Init /\ [][Next]_vars

\* The threads run, the frames arrive, the link and the accounts come back.
Fair ==
    /\ WF_vars(Handles) /\ WF_vars(TackyTakes) /\ WF_vars(Attach)
    /\ \A acc \in Accounts : WF_vars(Connect(acc))

FairSpec == Spec /\ Fair

----------------------------------------------------------------------------
(* Properties.                                                              *)

\* Types; the rows are numbered in the order they came.
TypeOK ==
    /\ DOMAIN calls \subseteq Calls /\ mseq \in Nat
    /\ \A c \in DOMAIN calls : calls[c] \in Call /\ calls[c].seq \in 1..mseq
    /\ \A c, d \in DOMAIN calls : calls[c].seq = calls[d].seq => c = d
    /\ DOMAIN listing \subseteq Accounts
    /\ \A acc \in DOMAIN listing : listing[acc] \in 0..mseq
    /\ dismissed \subseteq Calls /\ prompt \subseteq Calls /\ torn \subseteq Calls
    /\ dismissed \subseteq cleared /\ cleared \subseteq Calls
    /\ session \in [Calls -> Live \cup {"none", "over"}] /\ trust \in [Calls -> BOOLEAN]
    /\ online \subseteq Accounts /\ up \in BOOLEAN /\ drops \in 0..MaxDrop /\ offs \in 0..MaxOff

\* A call shown as over is over, unless it is the user who hung up: no list ends
\* a call that came after it was asked for, nor one of another account
\* (applySnapshot, "whatever the backend does not mention is over").
EndedIsOver ==
    \A c \in DOMAIN calls :
        isTerminal(calls[c].state) /\ c \notin torn => session[c] = "over"

Quiet == up /\ toTacky = <<>> /\ toUi = <<>> /\ online = Accounts

\* With nothing under way, whatever was lost before, the rows are tacky's
\* sessions: a call in flight has a row, one that is over is shown as over, the
\* legs of a group call have none (a UI that comes back "shows nothing for a
\* call that is still up" without it).
MirrorsTacky ==
    Quiet =>
        /\ \A c \in Calls \ (Legs \cup torn) : session[c] \in Live =>
               /\ c \in DOMAIN calls /\ ~isTerminal(calls[c].state)
               /\ session[c] \in {"alerted", "active"} =>   \* the rest goes unannounced
                    progress(snapshotState(session[c])) <= progress(calls[c].state)
        /\ \A c \in DOMAIN calls :
               ~isTerminal(calls[c].state) => c \notin Legs /\ session[c] \in Live

\* With nothing under way, the trust shown of a call is the trust there is, a
\* change missed while detached included.
TrustShown ==
    Quiet => \A c \in DOMAIN calls :
                session[c] \in Live => calls[c].verified = trust[c]

\* A row only ever moves forward, and a terminal one stays as it is or is
\* removed: no late event and no older list moves it back.  As long as the link
\* holds, a call torn down and dismissed here does not come back either, out of
\* a list made before tacky heard of it.
ForwardOnly ==
    [][/\ \A c \in DOMAIN calls \cap DOMAIN calls' :
             progress(calls[c].state) <= progress(calls'[c].state)
       /\ drops' = 0 =>
             \A c \in (cleared \cap cleared') \ DOMAIN calls : c \notin DOMAIN calls']_vars

\* As long as the link holds, a call the user hung up is over once nothing is
\* under way: the notify is sent whatever the row had come to.
HangupEnds == Quiet /\ drops = 0 => \A c \in torn : session[c] \notin Live

\* The rows are well formed, and with nothing under way they say of tacky's calls
\* what is so: which there are, how far they are, and whose key they are under.
\* At no time do they call one over that is not.
RowsTrue == TypeOK /\ EndedIsOver /\ MirrorsTacky /\ TrustShown /\ HangupEnds

\* The end of a call is shown in the end, whatever dropped or died on the way.
EndsAreShown ==
    \A c \in Calls \ Legs :
        session[c] = "over" ~> (c \notin DOMAIN calls \/ isTerminal(calls[c].state))
=============================================================================
