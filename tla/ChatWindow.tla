----------------------------- MODULE ChatWindow -----------------------------
(***************************************************************************)
(* The message window of one open chat (ChatModel), the frames it          *)
(* exchanges with the backend, and the backend's message store.            *)
(*                                                                         *)
(* ChatModel keeps a window of message rows, newest first, keyed by a      *)
(* timestamp that is unique in the chat.  It pages by asking `message      *)
(* history' in one of five directions, one request per direction, and it   *)
(* follows the conversation by inserting live rows while the window claims *)
(* to hold the tail.  Requests are answered in any order; what the backend *)
(* emits reaches the window in the order it was emitted.                   *)
(*                                                                         *)
(* A row is its timestamp: statuses, edits and tombstones of a row that is *)
(* on screen leave the window's extent alone and are not modelled.         *)
(***************************************************************************)
EXTENDS Integers, Sequences, FiniteSets, FiniteSetsExt

CONSTANTS
    MaxTs,      \* bound: timestamps are 1 .. MaxTs
    PageSize,   \* `limit' of a history request (50 in the code)
    Stored,     \* what the backend has stored when the chat is opened
    Unsynced,   \* what only the server has then: a catchup is already running
    Features,   \* the operations and faults this instance exercises
    Budget      \* bound: spontaneous steps (user, stream, link) in a behaviour

AllFeatures == {"page", "goto", "cull", "reset", "edit", "send", "relocate",
                "fail", "stream", "foreign", "link"}

ASSUME ChatWindowAssumption ==
    /\ MaxTs \in Nat /\ PageSize \in Nat \ {0} /\ Budget \in Nat
    /\ Stored \subseteq 1..MaxTs /\ Unsynced \subseteq 1..MaxTs
    /\ Stored \cap Unsynced = {}
    /\ Features \subseteq AllFeatures

Ts == 1..MaxTs
Dirs == {"init", "old", "new", "goto", "catchup"}

VARIABLES
    w,          \* the ChatModel object
    store,      \* messages the backend has stored
    missed,     \* messages the server has and no catchup has stored yet
    sends,      \* own messages in store the server has not confirmed
    streamUp,   \* the account has a stream to its server
    bracket,    \* a catchup of this chat's archive is open
    linkUp,     \* the backend's transport is attached (TackyBackend::isRunning)
    asked,      \* requests the backend has not answered
    pulled,     \* a <Tail> and a <State> have been asked for (pull)
    wire,       \* frames from the backend, in the order emitted
    left,       \* spontaneous steps left
    cause       \* history: what has put an unfetched run inside the window

backendVars == <<store, missed, sends, streamUp, bracket>>
vars == <<w, store, missed, sends, streamUp, bracket, linkUp, asked, pulled,
          wire, left, cause>>

Oldest(R) == IF R = {} THEN 0 ELSE Min(R)
Newest(R) == IF R = {} THEN 0 ELSE Max(R)
Truth == store \cup missed

-----------------------------------------------------------------------------
(* The ChatModel object: each operator is one member function, from the     *)
(* state before to the state after it.                                      *)

\* clearFailure, for every direction of D.
ClearFailure(v, D) ==
    [v EXCEPT !.failed = @ \ D,
              !.error = @ /\ ~(v.failed \cap D # {} /\ v.failed \subseteq D)]

\* cancelDir, for every direction of D: no reply to what was asked matters now.
Cancel(v, D) ==
    [ClearFailure(v, D) EXCEPT !.inflight = @ \ D,
                               !.pending = {p \in @ : p.dir \notin D}]

\* A request goes out; `cur' is its cursor, or what a jump aims at.
Ask(v, d, cur) ==
    [v EXCEPT !.pending = @ \cup {[tok |-> v.next, dir |-> d, cur |-> cur]},
              !.inflight = @ \cup {d},
              !.next = @ + 1]

\* Mutants: a second request in a direction; a failure not forgiven on asking.
IssueHistoryTwice(v, d, cur) == Ask(ClearFailure(v, {d}), d, cur)
IssueHistorySulk(v, d, cur) == IF d \in v.inflight THEN v ELSE Ask(v, d, cur)

IssueHistory(v, d, cur) ==
    IF d \in v.inflight THEN v ELSE Ask(ClearFailure(v, {d}), d, cur)

LoadInitial(v) == IssueHistory(v, "init", 0)

LoadOlder(v) ==
    IF v.rows = {} \/ "old" \in v.failed THEN v
    ELSE IssueHistory(v, "old", Oldest(v.rows))

LoadNewer(v) ==
    IF v.rows = {} \/ "new" \in v.failed THEN v
    ELSE IssueHistory(v, "new", Newest(v.rows))

Retry(v) ==
    LET RetryInit(u) == IF "init" \in v.failed THEN LoadInitial(u) ELSE u
        RetryOld(u) == IF "old" \in v.failed /\ v.rows # {}
                       THEN IssueHistory(u, "old", Oldest(v.rows)) ELSE u
        RetryNew(u) == IF "new" \in v.failed /\ v.rows # {}
                       THEN IssueHistory(u, "new", Newest(v.rows)) ELSE u
    IN RetryNew(RetryOld(RetryInit(v)))

IssueGoto(v, target) == Ask(Cancel(v, Dirs), "goto", target)

ResetToBottom(v) ==
    LoadInitial([Cancel(v, Dirs) EXCEPT !.rows = {}, !.atTail = FALSE])

CullOld(v, gone) == Cancel([v EXCEPT !.rows = @ \ gone], {"old"})

\* Mutant: the window still claims the tail it has just dropped.
CullNewAtTail(v, gone) == Cancel([v EXCEPT !.rows = @ \ gone], {"new", "catchup"})

CullNew(v, gone) ==
    [Cancel([v EXCEPT !.rows = @ \ gone], {"new", "catchup"}) EXCEPT !.atTail = FALSE]

\* A window just built or reattached; an empty window is vacuously at the tail.
Blank(tok) == [rows |-> {}, atTail |-> TRUE, busy |-> FALSE, tailTs |-> 0,
               pending |-> {}, inflight |-> {}, failed |-> {}, error |-> FALSE,
               next |-> tok]

Reload(v) == LoadInitial(Blank(v.next))

\* Mutant: a catchup is taken to have brought nothing.
ReconcileCatchupNever(v) == v

\* After a catchup the window is compared with the pushed tail.
ReconcileCatchup(v) ==
    IF ~v.atTail \/ v.inflight \cap {"new", "catchup"} # {} THEN v
    ELSE IF v.rows = {} THEN LoadInitial(v)
    ELSE IF v.tailTs # 0 /\ Newest(v.rows) = v.tailTs THEN v
    ELSE IssueHistory(v, "catchup", Newest(v.rows))

PendingAt(v, tok) == {p \in v.pending : p.tok = tok}
DirOf(v, tok) == (CHOOSE p \in PendingAt(v, tok) : TRUE).dir

\* What a reply does to the window, by the direction that asked.
ApplyPage(v, d, f) ==
    CASE d = "init" -> [v EXCEPT !.rows = @ \cup f.page, !.atTail = TRUE]
      [] d = "old" -> [v EXCEPT !.rows = @ \cup f.page]
      [] d = "new" ->
           LET R == v.rows \cup f.page
           IN [v EXCEPT !.rows = R,
                 !.atTail = @ \/ (v.tailTs # 0 /\ R # {} /\ Newest(R) = v.tailTs)]
      [] d = "catchup" ->
           IF f.page = {} \/ Newest(f.page) = v.tailTs
           THEN [v EXCEPT !.rows = @ \cup f.page] ELSE v
      [] d = "goto" ->
           LET u == IF f.anchor # 0 /\ f.anchor \notin v.rows
                    THEN [v EXCEPT !.rows = f.page, !.atTail = FALSE] ELSE v
           IN IF u.rows = {} THEN LoadInitial(u) ELSE u

\* Mutant: an errored request goes on holding its direction.
SettleHolding(v, tok) == [v EXCEPT !.pending = @ \ PendingAt(v, tok)]

Settle(v, tok) == [v EXCEPT !.pending = @ \ PendingAt(v, tok),
                            !.inflight = @ \ {DirOf(v, tok)}]

HandleResult(v, f) ==
    IF PendingAt(v, f.tok) = {} THEN v
    ELSE LET d == DirOf(v, f.tok)
         IN ApplyPage(ClearFailure(Settle(v, f.tok), {d}), d, f)

\* Mutant: a failed jump does not refill the feed whose opening page it cancelled.
HandleErrorBlank(v, f) ==
    IF PendingAt(v, f.tok) = {} THEN v
    ELSE LET d == DirOf(v, f.tok)
             u == Settle(v, f.tok)
         IN IF d \in {"goto", "catchup"} THEN u
            ELSE [u EXCEPT !.failed = @ \cup {d}, !.error = @ \/ d # "new"]

\* Mutant: a failed jump or catchup page is booked like a failed page.
HandleErrorAny(v, f) ==
    IF PendingAt(v, f.tok) = {} THEN v
    ELSE LET d == DirOf(v, f.tok)
             u == Settle(v, f.tok)
         IN [u EXCEPT !.failed = @ \cup {d}]

HandleError(v, f) ==
    IF PendingAt(v, f.tok) = {} THEN v
    ELSE LET d == DirOf(v, f.tok)
             u == Settle(v, f.tok)
         IN CASE d = "goto" -> IF u.rows = {} THEN LoadInitial(u) ELSE u
              [] d = "catchup" -> u
              [] d \in {"init", "old"} ->
                   [u EXCEPT !.failed = @ \cup {d}, !.error = TRUE]
              [] d = "new" -> [u EXCEPT !.failed = @ \cup {d}]

\* Mutant: the row is shown at its new place and left at its old one.
ApplyConfirmedCopy(v, f) ==
    IF f.ts \notin v.rows THEN v ELSE [v EXCEPT !.rows = @ \cup {f.newTs}]

\* The only event that moves a row: the one at f.ts goes to f.newTs.
ApplyConfirmed(v, f) ==
    IF f.ts \notin v.rows THEN v
    ELSE [v EXCEPT !.rows = (@ \ {f.ts}) \cup {f.newTs}]

\* A corrected row is redrawn in place, if it is in the window.
ApplyEdited(v, f) == IF f.ts \notin v.rows THEN v ELSE [v EXCEPT !.rows = @ \cup {f.ts}]

HandleEvent(v, f) ==
    CASE f.k = "State" -> IF f.up THEN Retry(v) ELSE v
      [] f.k = "CatchupStarted" -> IF f.mine THEN [v EXCEPT !.busy = TRUE] ELSE v
      [] f.k = "CatchupDone" ->
           IF f.mine THEN ReconcileCatchup([v EXCEPT !.busy = FALSE]) ELSE v
      [] f.k = "New" ->
           IF ~v.atTail \/ v.busy THEN v ELSE [v EXCEPT !.rows = @ \cup {f.ts}]
      [] f.k = "Edited" -> ApplyEdited(v, f)
      [] f.k = "Confirmed" -> ApplyConfirmed(v, f)
      [] f.k = "Tail" ->
           [v EXCEPT !.tailTs = f.ts,
                     !.atTail = @ \/ (v.rows # {} /\ Newest(v.rows) = f.ts)]

Handle(v, f) ==
    CASE f.k = "result" -> HandleResult(v, f)
      [] f.k = "error" -> HandleError(v, f)
      [] OTHER -> HandleEvent(v, f)

\* TackyBackend on a lost link: every request out comes back as an error, in
\* any order; a jump's error may so find the opening page still out or gone.
FailAll(v) ==
    LET dirs == {p.dir : p \in v.pending}
        u == [v EXCEPT !.pending = {}, !.inflight = {},
                       !.failed = @ \cup (dirs \cap {"init", "old", "new"}),
                       !.error = @ \/ dirs \cap {"init", "old"} # {}]
        refill == "goto" \in dirs /\ v.rows = {}
    IN (IF refill THEN {LoadInitial(u)} ELSE {})
       \cup (IF refill /\ "init" \notin dirs THEN {} ELSE {u})

-----------------------------------------------------------------------------
(* The frames.                                                              *)

Result(tok, page, anchor) ==
    [k |-> "result", tok |-> tok, page |-> page, anchor |-> anchor]
Error(tok) == [k |-> "error", tok |-> tok]
New(ts) == [k |-> "New", ts |-> ts, syncing |-> missed # {}]
TailAt(ts) == [k |-> "Tail", ts |-> ts]
CatchupStarted(mine) == [k |-> "CatchupStarted", mine |-> mine]
CatchupDone(mine) == [k |-> "CatchupDone", mine |-> mine]
State(up) == [k |-> "State", up |-> up]

Emit(frames) == wire' = IF linkUp THEN wire \o frames ELSE wire

\* The window becomes v.  Requests it issued on the way are sent; with the link
\* down each comes back as an error through the event loop (sendArray).
Become(v, queue) ==
    /\ w' = v
    /\ asked' = IF linkUp THEN asked \cup {p \in v.pending : p.tok >= w.next}
                ELSE asked
    /\ wire' = IF linkUp THEN queue
               ELSE queue \o [i \in 1..(v.next - w.next) |-> Error(w.next + i - 1)]

-----------------------------------------------------------------------------
(* History: what can put an unfetched run inside the window.                *)

Forward == {"new", "catchup"}

\* A forward page ends at the pushed tail, or finds that the window is ahead of
\* nothing it was asked from.
ReachesTail(v0, f, p) ==
    /\ f.k = "result" /\ f.tok = p.tok
    /\ IF f.page = {} THEN Newest(v0.rows) <= p.cur ELSE Newest(f.page) = v0.tailTs

\* A forward page is lost, or stops short of the tail, and the window goes on
\* claiming the tail, or has rows beyond the page.
Stranded(v0, v1, f) ==
    /\ v1.rows # {}
    /\ \E p \in v0.pending \ v1.pending :
        /\ p.dir \in Forward /\ ~ReachesTail(v0, f, p)
        /\ v1.atTail \/ \E r \in v0.rows \cap v1.rows : r > p.cur

JumpLanded(v0, f) ==
    /\ f.k = "result" /\ f.anchor # 0 /\ f.anchor \notin v0.rows
    /\ \E p \in PendingAt(v0, f.tok) : p.dir = "goto"

\* A page that extends the window is out while a jump replaces it, or while a cull
\* takes the row it was asked from.
Crossed(v0, v1, f) ==
    \/ JumpLanded(v0, f) /\ v0.inflight \cap {"old", "new", "catchup"} # {}
    \/ /\ v1.rows # {}
       /\ \E p \in v1.pending : p.dir = "old" /\ p.cur \in v0.rows \ v1.rows

\* A live row goes in over messages that are not synced yet, or, with no page out to
\* fetch them, over stored ones up to the pushed tail.
OverUnsynced(v0, v1, f) ==
    /\ f.k = "New" /\ v1.rows # v0.rows
    /\ \/ f.syncing
       \/ v0.rows # {} /\ Newest(v0.rows) < v0.tailTs /\ v0.inflight \cap Forward = {}

\* A sent message gets another place: the row moves, or the window, which claims the
\* tail, does not hold it.
Moved(v0, f) == f.k = "Confirmed" /\ v0.rows # {} /\ (f.ts \in v0.rows \/ v0.atTail)

\* The opening page lands beside rows it does not overlap: live rows of an
\* earlier stretch, or the slice of a jump made after it was asked for.
Apart(v0, f) ==
    /\ f.k = "result" /\ v0.rows # {} /\ f.page \cap v0.rows = {}
    /\ \E p \in PendingAt(v0, f.tok) : p.dir = "init"

Blame(v0, v1, f) ==
    (IF Stranded(v0, v1, f) THEN {"stranded"} ELSE {})
    \cup (IF Crossed(v0, v1, f) THEN {"crossed"} ELSE {})
    \cup (IF Apart(v0, f) THEN {"apart"} ELSE {})
    \cup (IF OverUnsynced(v0, v1, f) THEN {"unsynced"} ELSE {})
    \cup (IF Moved(v0, f) THEN {"relocated"} ELSE {})

\* A window that is emptied or replaced starts afresh.
Blamed(v0, v1, f) ==
    (IF v1.rows = {} \/ JumpLanded(v0, f) THEN {} ELSE cause) \cup Blame(v0, v1, f)

NoFrame == [k |-> "none"]

-----------------------------------------------------------------------------
Init ==
    /\ w = Reload(Blank(1))
    /\ store = Stored
    /\ missed = Unsynced
    /\ sends = {}
    /\ streamUp = TRUE
    /\ bracket = (Unsynced # {})
    /\ linkUp = TRUE
    /\ asked = w.pending
    /\ pulled = TRUE
    /\ wire = <<>>
    /\ left = Budget
    /\ cause = {}

Spend(feature) == feature \in Features /\ left > 0 /\ left' = left - 1

\* The user, or the view on the user's behalf, calls into the window.
Use(v) ==
    /\ v # w
    /\ Become(v, wire)
    /\ cause' = Blamed(w, v, NoFrame)
    /\ UNCHANGED <<backendVars, linkUp, pulled>>

PageOlder == Spend("page") /\ Use(LoadOlder(w))
PageNewer == Spend("page") /\ Use(LoadNewer(w))
AskAgain == Spend("page") /\ Use(Retry(w))
Goto(target) == Spend("goto") /\ Use(IssueGoto(w, target))
ToBottom == Spend("reset") /\ Use(ResetToBottom(w))

\* The view drops its oldest (newest) rows up to m, never the last one it has.
DropOld(m) ==
    Spend("cull") /\ m < Newest(w.rows) /\ Use(CullOld(w, {r \in w.rows : r <= m}))
DropNew(m) ==
    Spend("cull") /\ m > Oldest(w.rows) /\ Use(CullNew(w, {r \in w.rows : r >= m}))

User ==
    \/ PageOlder \/ PageNewer \/ AskAgain \/ ToBottom
    \/ \E t \in Ts \cup {0} : Goto(t)
    \/ \E m \in w.rows : DropOld(m) \/ DropNew(m)

\* One frame of the wire, or of the event loop, handled to the end.
Deliver ==
    /\ wire # <<>>
    /\ LET f == Head(wire)
           v == Handle(w, f)
       IN Become(v, Tail(wire)) /\ cause' = Blamed(w, v, f)
    /\ UNCHANGED <<backendVars, linkUp, pulled, left>>

-----------------------------------------------------------------------------
(* The link between this process and the backend.                           *)

LinkDown ==
    /\ Spend("link") /\ linkUp
    /\ linkUp' = FALSE
    /\ \E v \in FailAll(w) :
        /\ w' = v
        /\ wire' = [i \in 1..(v.next - w.next) |-> Error(w.next + i - 1)]
        /\ cause' = Blamed(w, v, NoFrame)
    /\ asked' = {} /\ pulled' = FALSE
    /\ UNCHANGED backendVars

LinkUp ==
    /\ ~linkUp
    /\ linkUp' = TRUE
    /\ w' = Reload(w)
    /\ asked' = w'.pending
    /\ pulled' = TRUE
    /\ cause' = {}
    /\ UNCHANGED <<backendVars, wire, left>>

-----------------------------------------------------------------------------
(* The backend.                                                             *)

NextTs == Newest(Truth) + 1
Between(S, a, b) == {m \in S : a < m /\ m < b}
Last(S, n) == {m \in S : Cardinality({x \in S : x > m}) < n}
First(S, n) == {m \in S : Cardinality({x \in S : x < m}) < n}

\* No page skips a message the server has: a cursorless page is the contiguous
\* local tail, `after' stops at the first message not stored, and `before' and
\* a jump reach past the store into the archive.
Contig(S) == \A a, b \in S : Between(Truth, a, b) \subseteq S
Slices(t) == {S \in SUBSET Truth : /\ t \in S /\ Contig(S)
                                  /\ Cardinality(S) = Min({PageSize, Cardinality(Truth)})}
Pages(p) ==
    CASE p.dir = "init" -> {Last({m \in store : \A x \in missed : x < m}, PageSize)}
      [] p.dir = "old" -> {Last({m \in Truth : m < p.cur}, PageSize)}
      [] p.dir \in {"new", "catchup"} ->
           {First({m \in store : p.cur < m /\ Between(missed, p.cur, m) = {}}, PageSize)}
      [] p.dir = "goto" -> IF p.cur \in Truth THEN Slices(p.cur) ELSE {{}}

\* Messages fetched from the archive are stored; the tail is pushed on change.
Store(S) ==
    /\ store' = store \cup S
    /\ missed' = missed \ S

TailNews(S) == IF Newest(S) # Newest(store) THEN <<TailAt(Newest(S))>> ELSE <<>>

Answer(p) ==
    /\ asked' = asked \ {p}
    /\ \E page \in Pages(p) :
        /\ page \subseteq store \/ streamUp
        /\ Store(page)
        /\ Emit(TailNews(store \cup page) \o
                <<Result(p.tok, page, IF page = {} THEN 0 ELSE p.cur)>>)
    /\ UNCHANGED <<w, sends, streamUp, bracket, linkUp, pulled, left, cause>>

\* The backend refuses a request, or the archive does.
Refuse(p) ==
    /\ "fail" \in Features
    /\ asked' = asked \ {p}
    /\ Emit(<<Error(p.tok)>>)
    /\ UNCHANGED <<w, backendVars, linkUp, pulled, left, cause>>

\* `message cancel' reached it first: nothing comes back.
Forget(p) ==
    /\ p \notin w.pending
    /\ asked' = asked \ {p}
    /\ UNCHANGED <<w, backendVars, linkUp, pulled, wire, left, cause>>

AnswerPull ==
    /\ pulled
    /\ pulled' = FALSE
    /\ Emit(<<State(streamUp)>> \o
            IF store = {} THEN <<>> ELSE <<TailAt(Newest(store))>>)
    /\ UNCHANGED <<w, backendVars, linkUp, asked, left, cause>>

\* Somebody's message reaches our server.  With a stream it is stored, and
\* emitted; without one only the next catchup brings it.
RemoteMessage ==
    /\ NextTs \in Ts
    /\ IF streamUp
       THEN store' = store \cup {NextTs} /\ Emit(<<New(NextTs), TailAt(NextTs)>>)
            /\ UNCHANGED missed
       ELSE missed' = missed \cup {NextTs} /\ UNCHANGED <<store, wire>>
    /\ UNCHANGED <<w, sends, streamUp, bracket, linkUp, asked, pulled, left, cause>>

\* ChatModel::send: the row is stored and shown at once, stream or none.
OwnMessage ==
    /\ Spend("send") /\ linkUp /\ NextTs \in Ts
    /\ store' = store \cup {NextTs}
    /\ sends' = sends \cup {NextTs}
    /\ Emit(<<New(NextTs), TailAt(NextTs)>>)
    /\ UNCHANGED <<w, missed, streamUp, bracket, linkUp, asked, pulled, cause>>

\* The server acknowledges a send and gives it the place it has there.
Confirm(t) ==
    /\ "relocate" \in Features /\ streamUp /\ NextTs \in Ts
    /\ sends' = sends \ {t}
    /\ store' = (store \ {t}) \cup {NextTs}
    /\ Emit(<<[k |-> "Confirmed", ts |-> t, newTs |-> NextTs], TailAt(NextTs)>>)
    /\ UNCHANGED <<w, missed, streamUp, bracket, linkUp, asked, pulled, left, cause>>

\* A stored row is corrected and sent whole again.
Edit(t) ==
    /\ Spend("edit")
    /\ Emit(<<[k |-> "Edited", ts |-> t]>>)
    /\ UNCHANGED <<w, backendVars, linkUp, asked, pulled, cause>>

StreamDown ==
    /\ Spend("stream") /\ streamUp
    /\ streamUp' = FALSE /\ bracket' = FALSE
    /\ Emit(<<State(FALSE)>>)
    /\ UNCHANGED <<w, store, missed, sends, linkUp, asked, pulled, cause>>

\* A new stream opens a catchup before anything live arrives on it.
StreamUp ==
    /\ ~streamUp
    /\ streamUp' = TRUE /\ bracket' = TRUE
    /\ Emit(<<State(TRUE), CatchupStarted(TRUE)>>)
    /\ UNCHANGED <<w, store, missed, sends, linkUp, asked, pulled, left, cause>>

\* Catchup stores, oldest first, without emitting <New>.
CatchupStore ==
    /\ bracket /\ missed # {}
    /\ Store({Oldest(missed)})
    /\ Emit(TailNews(store'))
    /\ UNCHANGED <<w, sends, streamUp, bracket, linkUp, asked, pulled, left, cause>>

CatchupEnd ==
    /\ bracket /\ missed = {}
    /\ bracket' = FALSE
    /\ Emit(<<CatchupDone(TRUE)>>)
    /\ UNCHANGED <<w, store, missed, sends, streamUp, linkUp, asked, pulled, left, cause>>

\* Another room's catchup ends.
ForeignCatchup ==
    /\ Spend("foreign")
    /\ Emit(<<CatchupDone(FALSE)>>)
    /\ UNCHANGED <<w, backendVars, linkUp, asked, pulled, cause>>

Backend ==
    \/ \E p \in asked : Answer(p) \/ Refuse(p) \/ Forget(p)
    \/ AnswerPull \/ RemoteMessage \/ OwnMessage
    \/ \E t \in sends : Confirm(t)
    \/ \E t \in store : Edit(t)
    \/ StreamDown \/ StreamUp \/ CatchupStore \/ CatchupEnd \/ ForeignCatchup

Next == User \/ Deliver \/ LinkDown \/ LinkUp \/ Backend

Spec == Init /\ [][Next]_vars

-----------------------------------------------------------------------------
(* Properties.                                                              *)

Request == [tok : Nat, dir : Dirs, cur : Ts \cup {0}]

Window == [rows : SUBSET Ts, atTail : BOOLEAN, busy : BOOLEAN, tailTs : Ts \cup {0},
           pending : SUBSET Request, inflight : SUBSET Dirs,
           failed : SUBSET {"init", "old", "new"}, error : BOOLEAN, next : Nat]

Frame ==
    [k : {"result"}, tok : Nat, page : SUBSET Ts, anchor : Ts \cup {0}]
    \cup [k : {"error"}, tok : Nat]
    \cup [k : {"New"}, ts : Ts, syncing : BOOLEAN]
    \cup [k : {"Confirmed"}, ts : Ts, newTs : Ts]
    \cup [k : {"Edited", "Tail"}, ts : Ts]
    \cup [k : {"CatchupStarted", "CatchupDone"}, mine : BOOLEAN]
    \cup [k : {"State"}, up : BOOLEAN]

\* The types of the window, of the store, and of every frame on the wire.
TypeOK ==
    /\ w \in Window
    /\ store \subseteq Ts /\ missed \subseteq Ts /\ sends \subseteq store
    /\ streamUp \in BOOLEAN /\ bracket \in BOOLEAN /\ linkUp \in BOOLEAN
    /\ asked \subseteq Request /\ pulled \in BOOLEAN
    /\ wire \in Seq(Frame)
    /\ left \in 0..Budget
    /\ cause \subseteq {"stranded", "crossed", "apart", "unsynced", "relocated"}

\* Nothing the server has lies between two rows of the window unless it is a
\* row too: paging goes outward from both ends, so a run skipped inside the
\* window is never fetched (handleEvent: "leaving a permanent gap").
Contiguous ==
    w.rows # {} => Between(Truth, Oldest(w.rows), Newest(w.rows)) \subseteq w.rows

\* Whatever the order of pages, jumps, culls, live rows, catchups and errors, a
\* gap is one the forward page now out will fill, or follows one of five events: a
\* forward page lost by a window that claims the tail or has rows beyond the page;
\* a jump or a cull that crossed another page; an opening page that landed apart; a
\* live row put in over messages not synced yet, or stored past the window's end;
\* and a confirmation that moves a row, or a row a window at the tail does not hold.
GapsHaveACause ==
    cause = {} /\ w.inflight \cap {"new", "catchup"} = {} => Contiguous

\* On a link that is up, every row is a message that exists, at the place it has
\* now: a relocated send is never shown twice, nor left at its old place once
\* <Confirmed> is handled.
RealRows ==
    linkUp => w.rows \subseteq Truth \cup {wire[i].ts : i \in {j \in DOMAIN wire : wire[j].k = "Confirmed"}}

\* m_inflight and m_pending agree, at most one request is out per direction, and
\* no two of them share a token ("one request per direction in flight").
OneRequest ==
    /\ w.inflight = {p.dir : p \in w.pending}
    /\ \A p, q \in w.pending : p.dir = q.dir \/ p.tok = q.tok => p = q
    /\ \A p \in w.pending : p.tok < w.next

\* A direction that is out is not also reported failed: asking again forgives it,
\* whoever asks (loadState: "the direction last failed and has not been retried").
QuietFailure == w.failed \cap w.inflight = {}

\* Every frame handled, nothing asked, the chat in sync with its server.
Settled ==
    /\ wire = <<>> /\ w.pending = {} /\ ~pulled
    /\ linkUp /\ streamUp /\ missed = {} /\ ~bracket

\* Once everything asked and emitted is handled, a window claiming the tail
\* ends at the newest message there is: nothing dropped at the gate is lost.
SettledTail ==
    Settled /\ w.atTail /\ w.rows # {} /\ cause = {} => Newest(w.rows) = Newest(store)

\* A chat with messages is not left blank, except by a failed opening page,
\* which is reported: jumps cancel that page, and give it back if they fail.
BlankOnlyOnFailure ==
    Settled /\ w.rows = {} /\ store # {} => "init" \in w.failed /\ w.error

\* With nothing left to answer or to handle, no direction is out: a reply, an
\* error, a cancel or a lost link has freed it, or paging would have stopped there
\* for good.
NothingStuck == wire = <<>> /\ asked = {} => w.inflight = {}

\* Nothing is said of a failure once every failed direction has been forgiven.  It
\* may be said of an older page whose failure is forgiven, while a newer one's is not.
ErrorOfAFailure == w.error => w.failed # {}

\* What is said of a failure is of one, and a failure that shows nothing is said.
FailureIsTold == ErrorOfAFailure /\ BlankOnlyOnFailure

\* "Catchup stores without emitting <New>, and anything live that landed mid-sync
\* was dropped, so reconcile against the pushed tail": once everything is handled,
\* the window has no gap.
SettledWhole == Settled => Contiguous

=============================================================================
