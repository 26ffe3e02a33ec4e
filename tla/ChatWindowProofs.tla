-------------------------- MODULE ChatWindowProofs --------------------------
(***************************************************************************)
(* Proofs about ChatWindow, for every value of its constants: its types;   *)
(* that the window's two records of what it has asked for agree whatever   *)
(* the user, the backend and the link do; and what the window owes its     *)
(* user: the rows it shows are messages that exist, no direction is left   *)
(* out with nothing to free it, and a chat that has messages is not left   *)
(* blank without a word.                                                   *)
(***************************************************************************)
EXTENDS ChatWindow, WellFoundedInduction, SequenceTheorems, FiniteSetTheorems, TLAPS

\* What holds of the window's requests, as a predicate of the window alone.
Booked(v) ==
    /\ v.inflight = {p.dir : p \in v.pending}
    /\ \A p, q \in v.pending : p.dir = q.dir \/ p.tok = q.tok => p = q
    /\ \A p \in v.pending : p.tok < v.next

Quiet(v) == v.failed \cap v.inflight = {}

Good(v) == v \in Window /\ Booked(v) /\ Quiet(v)

\* What a member function may do: it leaves a good window, and takes no token back.
Sound(v, u) == Good(u) /\ v.next <= u.next

-----------------------------------------------------------------------------
(* The ends of a set of timestamps.                                         *)

\* A set of naturals, unless it is empty, has a least element: < is well founded.
LEMMA MinExists ==
    ASSUME NEW S \in SUBSET Nat, S # {}
    PROVE  /\ Min(S) \in S
           /\ \A x \in S : Min(S) <= x
<1> DEFINE Below == {ss \in Nat \X Nat : ss[1] < ss[2]}
<1>1. IsWellFoundedOn(Below, Nat)
  BY NatLessThanWellFounded DEF OpToRel
<1> HIDE DEF Below
<1>2. PICK x \in S : \A y \in S : ~(<<y, x>> \in Below)
  BY <1>1, WFMin, Zenon
<1>3. ASSUME NEW y \in S, y < x  PROVE FALSE
  <2>1. <<y, x>> \in Nat \X Nat
    OBVIOUS
  <2>2. <<y, x>> \in Below
    BY <1>3, <2>1 DEF Below
  <2> QED BY <1>2, <2>2
<1>4. \A y \in S : x <= y
  BY <1>3
<1> QED BY <1>4 DEF Min

\* A bounded one has a greatest: the least distance from the bound.
LEMMA MaxExists ==
    ASSUME NEW n \in Nat, NEW S \in SUBSET (0..n), S # {}
    PROVE  /\ Max(S) \in S
           /\ \A x \in S : x <= Max(S)
<1> DEFINE D == {n - x : x \in S}
<1>1. D \in SUBSET Nat
  OBVIOUS
<1>2. D # {}
  OBVIOUS
<1> HIDE DEF D
<1>3. Min(D) \in D /\ \A d \in D : Min(D) <= d
  BY <1>1, <1>2, MinExists
<1>4. PICK x \in S : Min(D) = n - x
  BY <1>3 DEF D
<1>5. \A y \in S : n - x <= n - y
  BY <1>3, <1>4 DEF D
<1>6. \A y \in S : x >= y
  BY <1>5
<1> QED BY <1>6 DEF Max

\* Both ends of a stretch of timestamps are timestamps, or 0 when it is empty.
LEMMA EndsType ==
    ASSUME NEW S \in SUBSET Ts
    PROVE  Oldest(S) \in Ts \cup {0} /\ Newest(S) \in Ts \cup {0}
<1>1. S \in SUBSET Nat /\ S \in SUBSET (0..MaxTs) /\ MaxTs \in Nat
  BY ChatWindowAssumption DEF Ts, ChatWindowAssumption
<1>2. CASE S = {}
  BY <1>2 DEF Oldest, Newest
<1>3. CASE S # {}
  <2>1. Min(S) \in S
    BY <1>1, <1>3, MinExists
  <2>2. Max(S) \in S
    BY <1>1, <1>3, MaxExists
  <2> QED BY <1>3, <2>1, <2>2 DEF Oldest, Newest
<1> QED BY <1>2, <1>3

-----------------------------------------------------------------------------
(* The ChatModel object: each member function is sound.                     *)

\* Sound steps chain.
LEMMA SoundChain ==
    ASSUME NEW v, NEW u, NEW x, Good(v), Sound(v, u), Sound(u, x)
    PROVE  Sound(v, x)
<1>1. v.next \in Nat /\ u.next \in Nat /\ x.next \in Nat
  BY DEF Sound, Good, Window
<1> QED BY <1>1 DEF Sound

\* What is out and what failed is all that matters.
LEMMA SameRequestsSound ==
    ASSUME NEW v, NEW u, Good(v), u \in Window, u.pending = v.pending,
           u.inflight = v.inflight, u.next = v.next, u.failed \subseteq v.failed
    PROVE  Sound(v, u)
BY DEF Sound, Good, Booked, Quiet, Window

\* Forgiving a failure changes neither what is out nor what is quiet.
LEMMA ClearFailureSound ==
    ASSUME NEW v, NEW D, Good(v)
    PROVE  /\ Sound(v, ClearFailure(v, D))
           /\ ClearFailure(v, D).inflight = v.inflight
           /\ ClearFailure(v, D).failed = v.failed \ D
           /\ ClearFailure(v, D).pending = v.pending
           /\ ClearFailure(v, D).rows = v.rows
<1> DEFINE u == ClearFailure(v, D)
<1>1. v \in Window
  BY DEF Good
<1>2. u \in Window
  BY <1>1 DEF Window, ClearFailure
<1>3. u.failed = v.failed \ D
  BY <1>1 DEF Window, ClearFailure
<1>4. u.inflight = v.inflight /\ u.pending = v.pending
  BY <1>1 DEF Window, ClearFailure
<1>5. u.rows = v.rows /\ u.next = v.next /\ v.next \in Nat
  BY <1>1 DEF Window, ClearFailure
<1> HIDE DEF u
<1>6. Booked(u)
  BY <1>4, <1>5 DEF Good, Booked
<1>7. Quiet(u)
  BY <1>3, <1>4 DEF Good, Quiet
<1> QED BY <1>2, <1>3, <1>4, <1>5, <1>6, <1>7 DEF Sound, Good, u

\* Cancelling a set of directions drops them from both records.
LEMMA CancelSound ==
    ASSUME NEW v, NEW D, Good(v)
    PROVE  /\ Sound(v, Cancel(v, D))
           /\ Cancel(v, D).inflight = v.inflight \ D
           /\ Cancel(v, D).failed = v.failed \ D
<1> DEFINE u == ClearFailure(v, D)
<1>1. Sound(v, u) /\ u.inflight = v.inflight /\ u.failed = v.failed \ D
  BY ClearFailureSound
<1> HIDE DEF u
<1> DEFINE c == [u EXCEPT !.inflight = @ \ D, !.pending = {p \in @ : p.dir \notin D}]
<1>2. u \in Window /\ u.next \in Nat
  BY <1>1 DEF Sound, Good, Window
<1>3. c \in Window
  BY <1>2 DEF Window
<1>4. c.inflight = u.inflight \ D /\ c.failed = u.failed /\ c.next = u.next
  BY <1>2 DEF Window
<1>5. c.pending = {p \in u.pending : p.dir \notin D}
  BY <1>2 DEF Window
<1> HIDE DEF c
<1>6. Booked(c)
  BY <1>1, <1>4, <1>5 DEF Sound, Good, Booked
<1>7. Quiet(c)
  BY <1>1, <1>4 DEF Sound, Good, Quiet
<1> QED
  BY <1>1, <1>2, <1>3, <1>4, <1>6, <1>7 DEF Cancel, u, c, Sound, Good

\* A request goes out only in a direction that is free and forgiven.
LEMMA AskSound ==
    ASSUME NEW v, NEW d \in Dirs, NEW cur \in Ts \cup {0}, Good(v),
           d \notin v.inflight, d \notin v.failed
    PROVE  Sound(v, Ask(v, d, cur))
<1> DEFINE r == [tok |-> v.next, dir |-> d, cur |-> cur]
           u == Ask(v, d, cur)
<1>1. r \in Request /\ r.tok = v.next /\ r.dir = d
  BY DEF Request, Good, Window
<1>2. u = [v EXCEPT !.pending = @ \cup {r}, !.inflight = @ \cup {d}, !.next = @ + 1]
  BY DEF Ask
<1> HIDE DEF r, u
<1>3. v \in Window
  BY DEF Good
<1>4. u \in Window
  <2>1. /\ v.pending \cup {r} \in SUBSET Request /\ v.inflight \cup {d} \in SUBSET Dirs
        /\ v.next + 1 \in Nat
    BY <1>1, <1>3 DEF Window
  <2> QED BY <1>2, <1>3, <2>1 DEF Window
<1>5. /\ u.pending = v.pending \cup {r} /\ u.inflight = v.inflight \cup {d}
      /\ u.next = v.next + 1 /\ u.failed = v.failed
  BY <1>2, <1>3 DEF Window
<1>6. v.next \in Nat /\ \A p \in v.pending : p.tok < v.next /\ p.dir # d /\ p.tok \in Nat
  BY DEF Good, Window, Booked, Request
<1>7. Booked(u)
  BY <1>1, <1>5, <1>6 DEF Good, Booked
<1>8. Quiet(u)
  BY <1>5 DEF Good, Quiet
<1> QED BY <1>4, <1>5, <1>6, <1>7, <1>8 DEF Sound, Good, u

LEMMA IssueHistorySound ==
    ASSUME NEW v, NEW d \in Dirs, NEW cur \in Ts \cup {0}, Good(v)
    PROVE  Sound(v, IssueHistory(v, d, cur))
<1>1. CASE d \in v.inflight
  BY <1>1 DEF IssueHistory, Sound, Good, Window
<1>2. CASE d \notin v.inflight
  <2> DEFINE u == ClearFailure(v, {d})
  <2>1. Sound(v, u) /\ u.inflight = v.inflight /\ u.failed = v.failed \ {d}
    BY ClearFailureSound
  <2> HIDE DEF u
  <2>2. Sound(u, Ask(u, d, cur))
    BY <1>2, <2>1, AskSound DEF Sound
  <2>3. v.next \in Nat /\ u.next \in Nat /\ Ask(u, d, cur).next \in Nat
    BY <2>1, <2>2 DEF Sound, Good, Window
  <2> QED BY <1>2, <2>1, <2>2, <2>3 DEF IssueHistory, Sound, u
<1> QED BY <1>1, <1>2

LEMMA LoadInitialSound ==
    ASSUME NEW v, Good(v)
    PROVE  Sound(v, LoadInitial(v))
BY IssueHistorySound DEF LoadInitial, Dirs

LEMMA NothingSound ==
    ASSUME NEW v, Good(v)
    PROVE  Sound(v, v)
BY DEF Sound, Good, Window

\* A page outward from either end.
LEMMA PageSound ==
    ASSUME NEW v, Good(v)
    PROVE  /\ Sound(v, IssueHistory(v, "old", Oldest(v.rows)))
           /\ Sound(v, IssueHistory(v, "new", Newest(v.rows)))
           /\ Sound(v, IssueHistory(v, "catchup", Newest(v.rows)))
<1>1. Oldest(v.rows) \in Ts \cup {0} /\ Newest(v.rows) \in Ts \cup {0}
  BY EndsType DEF Good, Window
<1>2. "old" \in Dirs /\ "new" \in Dirs /\ "catchup" \in Dirs
  BY DEF Dirs
<1> QED BY <1>1, <1>2, IssueHistorySound

LEMMA LoadOlderSound ==
    ASSUME NEW v, Good(v)
    PROVE  Sound(v, LoadOlder(v))
BY PageSound, NothingSound DEF LoadOlder

LEMMA LoadNewerSound ==
    ASSUME NEW v, Good(v)
    PROVE  Sound(v, LoadNewer(v))
BY PageSound, NothingSound DEF LoadNewer

\* Retry asks again, in turn, in every direction that failed.
LEMMA RetrySound ==
    ASSUME NEW v, Good(v)
    PROVE  Sound(v, Retry(v))
<1>1. Oldest(v.rows) \in Ts \cup {0} /\ Newest(v.rows) \in Ts \cup {0}
  BY EndsType DEF Good, Window
<1>2. "old" \in Dirs /\ "new" \in Dirs
  BY DEF Dirs
<1> DEFINE a == IF "init" \in v.failed THEN LoadInitial(v) ELSE v
           b == IF "old" \in v.failed /\ v.rows # {}
                THEN IssueHistory(a, "old", Oldest(v.rows)) ELSE a
           c == IF "new" \in v.failed /\ v.rows # {}
                THEN IssueHistory(b, "new", Newest(v.rows)) ELSE b
<1>3. Sound(v, a)
  BY LoadInitialSound, NothingSound
<1>4. Sound(a, b)
  <2>1. Good(a)
    BY <1>3 DEF Sound
  <2> HIDE DEF a
  <2> QED BY <1>1, <1>2, <2>1, IssueHistorySound, NothingSound
<1>5. Sound(b, c)
  <2>1. Good(b)
    BY <1>4 DEF Sound
  <2> HIDE DEF b
  <2> QED BY <1>1, <1>2, <2>1, IssueHistorySound, NothingSound
<1>6. Retry(v) = c
  BY DEF Retry
<1> HIDE DEF a, b, c
<1>7. Sound(v, b)
  BY <1>3, <1>4, SoundChain
<1> QED BY <1>5, <1>6, <1>7, SoundChain

\* A jump cancels whatever is out first, so its direction is free.
LEMMA IssueGotoSound ==
    ASSUME NEW v, NEW t \in Ts \cup {0}, Good(v)
    PROVE  Sound(v, IssueGoto(v, t))
<1> DEFINE u == Cancel(v, Dirs)
<1>1. Sound(v, u) /\ u.inflight = v.inflight \ Dirs /\ u.failed = v.failed \ Dirs
  BY CancelSound
<1> HIDE DEF u
<1>2. "goto" \in Dirs
  BY DEF Dirs
<1>3. Sound(u, Ask(u, "goto", t))
  BY <1>1, <1>2, AskSound DEF Sound
<1> QED BY <1>1, <1>3, SoundChain DEF IssueGoto, u

LEMMA ResetToBottomSound ==
    ASSUME NEW v, Good(v)
    PROVE  Sound(v, ResetToBottom(v))
<1> DEFINE u == Cancel(v, Dirs)
           e == [u EXCEPT !.rows = {}, !.atTail = FALSE]
<1>1. Sound(v, u)
  BY CancelSound
<1> HIDE DEF u
<1>2. u \in Window
  BY <1>1 DEF Sound, Good
<1>3. e \in Window
  BY <1>2 DEF Window
<1>4. e.pending = u.pending /\ e.inflight = u.inflight
  BY <1>2 DEF Window
<1>5. e.failed = u.failed /\ e.next = u.next
  BY <1>2 DEF Window
<1> HIDE DEF e
<1>6. Sound(u, e)
  BY <1>1, <1>3, <1>4, <1>5, SameRequestsSound DEF Sound
<1>7. Sound(v, e)
  BY <1>1, <1>6, SoundChain
<1>8. Sound(e, LoadInitial(e))
  BY <1>6, LoadInitialSound DEF Sound
<1> QED BY <1>7, <1>8, SoundChain DEF ResetToBottom, u, e

\* What is shown, and the three flags of the tail, change no request.
LEMMA ShowSound ==
    ASSUME NEW v, Good(v)
    PROVE  /\ \A R \in SUBSET Ts : Sound(v, [v EXCEPT !.rows = R])
           /\ \A R \in SUBSET Ts, b \in BOOLEAN : Sound(v, [v EXCEPT !.rows = R, !.atTail = b])
           /\ \A b \in BOOLEAN : Sound(v, [v EXCEPT !.atTail = b])
           /\ \A t \in Ts \cup {0}, b \in BOOLEAN :
                Sound(v, [v EXCEPT !.tailTs = t, !.atTail = b])
           /\ \A b \in BOOLEAN : Sound(v, [v EXCEPT !.busy = b])
<1>1. v \in Window
  BY DEF Good
<1>2. ASSUME NEW R \in SUBSET Ts, NEW b \in BOOLEAN, NEW t \in Ts \cup {0}, NEW u,
             u \in {[v EXCEPT !.rows = R], [v EXCEPT !.rows = R, !.atTail = b],
                    [v EXCEPT !.atTail = b], [v EXCEPT !.tailTs = t, !.atTail = b],
                    [v EXCEPT !.busy = b]}
      PROVE  Sound(v, u)
  <2>1. u \in Window
    BY <1>1, <1>2 DEF Window
  <2>2. u.pending = v.pending /\ u.inflight = v.inflight
    BY <1>1, <1>2 DEF Window
  <2>3. u.next = v.next /\ u.failed = v.failed
    BY <1>1, <1>2 DEF Window
  <2> QED BY <2>1, <2>2, <2>3, SameRequestsSound
<1>3. 0 \in Ts \cup {0} /\ {} \in SUBSET Ts /\ TRUE \in BOOLEAN
  OBVIOUS
<1> QED BY <1>2, <1>3

LEMMA CullSound ==
    ASSUME NEW v, Good(v), NEW gone
    PROVE  Sound(v, CullOld(v, gone)) /\ Sound(v, CullNew(v, gone))
<1> DEFINE u == [v EXCEPT !.rows = @ \ gone]
           c == Cancel(u, {"new", "catchup"})
<1>1. Sound(v, u)
  <2>1. v.rows \ gone \in SUBSET Ts
    BY DEF Good, Window
  <2> QED BY <2>1, ShowSound
<1> HIDE DEF u
<1>2. Sound(u, Cancel(u, {"old"})) /\ Sound(u, c)
  BY <1>1, CancelSound DEF Sound
<1> HIDE DEF c
<1>3. Sound(c, [c EXCEPT !.atTail = FALSE])
  BY <1>2, ShowSound DEF Sound
<1>4. Sound(v, c) /\ Sound(v, Cancel(u, {"old"}))
  BY <1>1, <1>2, SoundChain
<1>5. Sound(v, [c EXCEPT !.atTail = FALSE])
  BY <1>3, <1>4, SoundChain
<1> QED BY <1>4, <1>5 DEF CullOld, CullNew, c, u

LEMMA ReloadSound ==
    ASSUME NEW v, Good(v)
    PROVE  Sound(v, Reload(v))
<1> DEFINE b == Blank(v.next)
<1>1. v.next \in Nat
  BY DEF Good, Window
<1>2. b \in Window /\ b.next = v.next /\ b.pending = {} /\ b.inflight = {} /\ b.failed = {}
  BY <1>1 DEF Blank, Window
<1> HIDE DEF b
<1>3. Sound(v, b)
  BY <1>1, <1>2 DEF Sound, Good, Booked, Quiet
<1>4. Sound(b, LoadInitial(b))
  BY <1>3, LoadInitialSound DEF Sound
<1> QED BY <1>3, <1>4, SoundChain DEF Reload, b

LEMMA ReconcileCatchupSound ==
    ASSUME NEW v, Good(v)
    PROVE  Sound(v, ReconcileCatchup(v))
BY LoadInitialSound, NothingSound, PageSound DEF ReconcileCatchup

-----------------------------------------------------------------------------
(* The replies.                                                             *)

\* A reply to a request that is out settles exactly that request.
LEMMA SettleSound ==
    ASSUME NEW v, Good(v), NEW tok, PendingAt(v, tok) # {}
    PROVE  /\ Sound(v, Settle(v, tok))
           /\ DirOf(v, tok) \in Dirs
           /\ DirOf(v, tok) \notin Settle(v, tok).inflight
           /\ Settle(v, tok).failed = v.failed
<1>1. PICK p \in v.pending : PendingAt(v, tok) = {p} /\ p.tok = tok
  BY DEF PendingAt, Good, Booked
<1>2. DirOf(v, tok) = p.dir
  BY <1>1 DEF DirOf
<1> DEFINE u == [v EXCEPT !.pending = @ \ {p}, !.inflight = @ \ {p.dir}]
<1>3. u = Settle(v, tok)
  BY <1>1, <1>2 DEF Settle
<1>4. v \in Window /\ p \in Request /\ p.dir \in Dirs
  BY <1>1 DEF Good, Window, Request
<1>5. u \in Window
  BY <1>4 DEF Window
<1>6. u.pending = v.pending \ {p} /\ u.inflight = v.inflight \ {p.dir}
  BY <1>4 DEF Window
<1>7. u.failed = v.failed /\ u.next = v.next /\ v.next \in Nat
  BY <1>4 DEF Window
<1> HIDE DEF u
<1>8. Booked(u)
  <2>1. u.inflight = {q.dir : q \in u.pending}
    BY <1>1, <1>6 DEF Good, Booked
  <2> QED BY <1>6, <1>7, <2>1 DEF Good, Booked
<1>9. Quiet(u)
  BY <1>6, <1>7 DEF Good, Quiet
<1> QED BY <1>2, <1>3, <1>4, <1>5, <1>6, <1>7, <1>8, <1>9 DEF Sound, Good

\* What each kind of frame carries.
LEMMA FrameFields ==
    ASSUME NEW f \in Frame
    PROVE  /\ f.k = "result" => f.page \in SUBSET Ts /\ f.anchor \in Ts \cup {0}
           /\ f.k \in {"New", "Edited", "Confirmed", "Tail"} => f.ts \in Ts
           /\ f.k = "Confirmed" => f.newTs \in Ts
           /\ f.k \in {"result", "error", "New", "Edited", "Confirmed", "Tail",
                      "CatchupStarted", "CatchupDone", "State"}
BY DEF Frame

\* Whatever the direction and whatever the page holds.
LEMMA ApplyPageSound ==
    ASSUME NEW v, Good(v), NEW d \in Dirs, NEW f,
           f.page \in SUBSET Ts, f.anchor \in Ts \cup {0}
    PROVE  Sound(v, ApplyPage(v, d, f))
<1> DEFINE R == v.rows \cup f.page
           reached == v.atTail \/ (v.tailTs # 0 /\ R # {} /\ Newest(R) = v.tailTs)
           u == IF f.anchor # 0 /\ f.anchor \notin v.rows
                THEN [v EXCEPT !.rows = f.page, !.atTail = FALSE] ELSE v
<1>1. R \in SUBSET Ts /\ v.rows \in SUBSET Ts /\ reached \in BOOLEAN
  BY DEF Good, Window
<1>2. Sound(v, u)
  BY ShowSound, NothingSound
<1> HIDE DEF R, reached, u
<1>3. CASE d = "init"
  <2>1. ApplyPage(v, d, f) = [v EXCEPT !.rows = R, !.atTail = TRUE]
    BY <1>3 DEF ApplyPage, R
  <2>2. Sound(v, [v EXCEPT !.rows = R, !.atTail = TRUE])
    BY <1>1, ShowSound
  <2> QED BY <2>1, <2>2
<1>4. CASE d = "old"
  <2>1. ApplyPage(v, d, f) = [v EXCEPT !.rows = R]
    BY <1>4 DEF ApplyPage, R
  <2>2. Sound(v, [v EXCEPT !.rows = R])
    BY <1>1, ShowSound
  <2> QED BY <2>1, <2>2
<1>5. CASE d = "new"
  <2>1. ApplyPage(v, d, f) = [v EXCEPT !.rows = R, !.atTail = reached]
    BY <1>5, Zenon DEF ApplyPage, R, reached
  <2>2. Sound(v, [v EXCEPT !.rows = R, !.atTail = reached])
    BY <1>1, ShowSound
  <2> QED BY <2>1, <2>2
<1>6. CASE d = "catchup"
  <2>1. ApplyPage(v, d, f) \in {[v EXCEPT !.rows = R], v}
    BY <1>6 DEF ApplyPage, R
  <2>2. Sound(v, [v EXCEPT !.rows = R]) /\ Sound(v, v)
    BY <1>1, ShowSound, NothingSound
  <2> QED BY <2>1, <2>2
<1>7. CASE d = "goto"
  <2>1. ApplyPage(v, d, f) \in {LoadInitial(u), u}
    BY <1>7, Zenon DEF ApplyPage, u
  <2>2. Sound(u, LoadInitial(u)) /\ Sound(u, u)
    BY <1>2, LoadInitialSound, NothingSound DEF Sound
  <2> QED BY <1>2, <2>1, <2>2, SoundChain
<1> QED BY <1>3, <1>4, <1>5, <1>6, <1>7 DEF Dirs

LEMMA HandleResultSound ==
    ASSUME NEW v, Good(v), NEW f \in Frame, f.k = "result"
    PROVE  Sound(v, HandleResult(v, f))
<1>1. CASE PendingAt(v, f.tok) = {}
  BY <1>1, NothingSound DEF HandleResult
<1>2. CASE PendingAt(v, f.tok) # {}
  <2> DEFINE d == DirOf(v, f.tok)
             u == Settle(v, f.tok)
             c == ClearFailure(u, {d})
  <2>1. Sound(v, u) /\ d \in Dirs
    BY <1>2, SettleSound
  <2> HIDE DEF u
  <2>2. Sound(u, c)
    BY <2>1, ClearFailureSound DEF Sound
  <2> HIDE DEF c
  <2>3. Sound(c, ApplyPage(c, d, f))
    BY <2>1, <2>2, FrameFields, ApplyPageSound DEF Sound
  <2>4. Sound(v, c)
    BY <2>1, <2>2, SoundChain
  <2>5. HandleResult(v, f) = ApplyPage(c, d, f)
    BY <1>2 DEF HandleResult, c, u
  <2> QED BY <2>3, <2>4, <2>5, SoundChain
<1> QED BY <1>1, <1>2

\* A failure is booked only in a direction that has just been freed.
LEMMA HandleErrorSound ==
    ASSUME NEW v, Good(v), NEW f
    PROVE  Sound(v, HandleError(v, f))
<1>1. CASE PendingAt(v, f.tok) = {}
  BY <1>1, NothingSound DEF HandleError
<1>2. CASE PendingAt(v, f.tok) # {}
  <2> DEFINE d == DirOf(v, f.tok)
             u == Settle(v, f.tok)
  <2>1. Sound(v, u) /\ d \in Dirs /\ d \notin u.inflight
    BY <1>2, SettleSound
  <2> HIDE DEF u, d
  <2>2. u \in Window /\ u.error \in BOOLEAN
    BY <2>1 DEF Sound, Good, Window
  <2>3. ASSUME NEW e \in BOOLEAN, d \in {"init", "old", "new"}
        PROVE  Sound(u, [u EXCEPT !.failed = @ \cup {d}, !.error = e])
    <3> DEFINE x == [u EXCEPT !.failed = @ \cup {d}, !.error = e]
    <3>1. x \in Window
      BY <2>2, <2>3 DEF Window
    <3>2. x.failed = u.failed \cup {d} /\ x.inflight = u.inflight
      BY <2>2 DEF Window
    <3>3. x.pending = u.pending /\ x.next = u.next /\ u.next \in Nat
      BY <2>2 DEF Window
    <3> HIDE DEF x
    <3>4. Booked(x)
      BY <2>1, <3>2, <3>3 DEF Sound, Good, Booked
    <3>5. Quiet(x)
      BY <2>1, <3>2 DEF Sound, Good, Quiet
    <3> QED BY <3>1, <3>3, <3>4, <3>5 DEF Sound, Good, x
  <2>4. Sound(u, u) /\ Sound(u, LoadInitial(u))
    BY <2>1, NothingSound, LoadInitialSound DEF Sound
  <2>5. Sound(u, HandleError(v, f))
    <3>1. CASE d = "goto"
      BY <1>2, <2>4, <3>1 DEF HandleError, d, u
    <3>2. CASE d = "catchup"
      BY <1>2, <2>4, <3>2 DEF HandleError, d, u
    <3>3. CASE d \in {"init", "old"}
      <4>1. HandleError(v, f) = [u EXCEPT !.failed = @ \cup {d}, !.error = TRUE]
        BY <1>2, <3>3 DEF HandleError, d, u
      <4> QED BY <2>3, <3>3, <4>1
    <3>4. CASE d = "new"
      <4>1. HandleError(v, f) = [u EXCEPT !.failed = @ \cup {d}]
        BY <1>2, <3>4 DEF HandleError, d, u
      <4>2. @ = [u EXCEPT !.failed = @ \cup {d}, !.error = u.error]
        BY <2>2 DEF Window
      <4> QED BY <2>2, <2>3, <3>4, <4>1, <4>2
    <3> QED BY <2>1, <3>1, <3>2, <3>3, <3>4 DEF Dirs
  <2> QED BY <2>1, <2>5, SoundChain
<1> QED BY <1>1, <1>2

LEMMA HandleEventSound ==
    ASSUME NEW v, Good(v), NEW f \in Frame, f.k \notin {"result", "error"}
    PROVE  Sound(v, HandleEvent(v, f))
<1>1. v.rows \in SUBSET Ts /\ v.atTail \in BOOLEAN
  BY DEF Good, Window
<1>2. CASE f.k = "State"
  BY <1>2, RetrySound, NothingSound DEF HandleEvent
<1>3. CASE f.k = "CatchupStarted"
  BY <1>3, ShowSound, NothingSound DEF HandleEvent
<1>4. CASE f.k = "CatchupDone"
  <2> DEFINE u == [v EXCEPT !.busy = FALSE]
  <2>1. Sound(v, u)
    BY ShowSound
  <2> HIDE DEF u
  <2>2. Sound(u, ReconcileCatchup(u))
    BY <2>1, ReconcileCatchupSound DEF Sound
  <2>3. HandleEvent(v, f) \in {ReconcileCatchup(u), v}
    BY <1>4 DEF HandleEvent, u
  <2> QED BY <2>1, <2>2, <2>3, SoundChain, NothingSound
<1>5. CASE f.k \in {"New", "Edited"}
  <2>1. v.rows \cup {f.ts} \in SUBSET Ts
    BY <1>1, <1>5, FrameFields
  <2>2. HandleEvent(v, f) \in {v, [v EXCEPT !.rows = @ \cup {f.ts}]}
    BY <1>5 DEF HandleEvent, ApplyEdited
  <2>3. Sound(v, [v EXCEPT !.rows = @ \cup {f.ts}]) /\ Sound(v, v)
    BY <2>1, ShowSound, NothingSound
  <2> QED BY <2>2, <2>3
<1>6. CASE f.k = "Confirmed"
  <2>1. (v.rows \ {f.ts}) \cup {f.newTs} \in SUBSET Ts
    BY <1>1, <1>6, FrameFields
  <2>2. HandleEvent(v, f) \in {v, [v EXCEPT !.rows = (@ \ {f.ts}) \cup {f.newTs}]}
    BY <1>6 DEF HandleEvent, ApplyConfirmed
  <2>3. Sound(v, [v EXCEPT !.rows = (@ \ {f.ts}) \cup {f.newTs}]) /\ Sound(v, v)
    BY <2>1, ShowSound, NothingSound
  <2> QED BY <2>2, <2>3
<1>7. CASE f.k = "Tail"
  <2> DEFINE reached == v.atTail \/ (v.rows # {} /\ Newest(v.rows) = f.ts)
  <2>1. HandleEvent(v, f) = [v EXCEPT !.tailTs = f.ts, !.atTail = reached]
    BY <1>7, Zenon DEF HandleEvent, reached
  <2>2. reached \in BOOLEAN /\ f.ts \in Ts \cup {0}
    BY <1>1, <1>7, FrameFields
  <2> HIDE DEF reached
  <2>3. Sound(v, [v EXCEPT !.tailTs = f.ts, !.atTail = reached])
    BY <2>2, ShowSound
  <2> QED BY <2>1, <2>3
<1> QED BY <1>2, <1>3, <1>4, <1>5, <1>6, <1>7, FrameFields

LEMMA HandleSound ==
    ASSUME NEW v, Good(v), NEW f \in Frame
    PROVE  Sound(v, Handle(v, f))
BY HandleResultSound, HandleErrorSound, HandleEventSound DEF Handle

\* A lost link settles everything that is out at once.
LEMMA FailAllSound ==
    ASSUME NEW v, Good(v), NEW u \in FailAll(v)
    PROVE  Sound(v, u)
<1> DEFINE dirs == {p.dir : p \in v.pending}
           e == v.error \/ dirs \cap {"init", "old"} # {}
           F == v.failed \cup (dirs \cap {"init", "old", "new"})
           x == [v EXCEPT !.pending = {}, !.inflight = {}, !.failed = F, !.error = e]
<1>1. v \in Window /\ F \in SUBSET {"init", "old", "new"} /\ e \in BOOLEAN
  BY DEF Good, Window
<1>2. u \in {LoadInitial(x), x}
  BY Zenon DEF FailAll, dirs, e, F, x
<1> HIDE DEF F, e
<1>3. x \in Window
  BY <1>1 DEF Window
<1>4. x.pending = {} /\ x.inflight = {}
  BY <1>1 DEF Window
<1>5. x.next = v.next /\ v.next \in Nat
  BY <1>1 DEF Window
<1> HIDE DEF x
<1>6. Sound(v, x)
  BY <1>3, <1>4, <1>5 DEF Sound, Good, Booked, Quiet
<1>7. Sound(x, LoadInitial(x))
  BY <1>6, LoadInitialSound DEF Sound
<1> QED BY <1>2, <1>6, <1>7, SoundChain

-----------------------------------------------------------------------------
(* The frames and the pages the backend may send.                           *)

LEMMA NewestIn ==
    ASSUME NEW S \in SUBSET Ts, S # {}
    PROVE  Newest(S) \in Ts
<1>1. S \in SUBSET (0..MaxTs) /\ MaxTs \in Nat
  BY ChatWindowAssumption DEF Ts, ChatWindowAssumption
<1> QED BY <1>1, MaxExists DEF Newest

\* The tail is only pushed of a store that holds something.
LEMMA TailNewsType ==
    ASSUME NEW S \in SUBSET Ts, store \subseteq S
    PROVE  TailNews(S) \in Seq(Frame)
<1>1. CASE S = {}
  BY <1>1 DEF TailNews
<1>2. CASE S # {}
  <2>1. TailAt(Newest(S)) \in Frame
    BY <1>2, NewestIn DEF TailAt, Frame
  <2> QED BY <2>1 DEF TailNews
<1> QED BY <1>1, <1>2

LEMMA PagesType ==
    ASSUME NEW p \in Request, store \subseteq Ts, missed \subseteq Ts, NEW page \in Pages(p)
    PROVE  page \in SUBSET Ts
<1>1. Truth \subseteq Ts
  BY DEF Truth
<1>2. CASE p.dir = "init"
  BY <1>2 DEF Pages, Last
<1>3. CASE p.dir = "old"
  BY <1>1, <1>3 DEF Pages, Last
<1>4. CASE p.dir \in {"new", "catchup"}
  BY <1>4 DEF Pages, First
<1>5. CASE p.dir = "goto"
  BY <1>1, <1>5 DEF Pages, Slices
<1> QED BY <1>2, <1>3, <1>4, <1>5 DEF Request, Dirs

LEMMA EmitType ==
    ASSUME NEW frames \in Seq(Frame), wire \in Seq(Frame), Emit(frames)
    PROVE  wire' \in Seq(Frame)
BY DEF Emit

LEMMA ErrorsType ==
    ASSUME NEW n \in Nat, NEW m \in Nat, n <= m
    PROVE  [i \in 1..(m - n) |-> Error(n + i - 1)] \in Seq(Frame)
<1>1. m - n \in Nat
  OBVIOUS
<1>2. ASSUME NEW i \in 1..(m - n)  PROVE Error(n + i - 1) \in Frame
  BY <1>2 DEF Error, Frame
<1> QED BY <1>1, <1>2, IsASeq

LEMMA BlamedType ==
    ASSUME NEW v0, NEW v1, NEW f, TypeOK
    PROVE  Blamed(v0, v1, f) \subseteq {"stranded", "crossed", "apart", "unsynced", "relocated"}
BY DEF Blamed, Blame, TypeOK

\* A window that moves soundly sends requests, or finds their errors queued.
LEMMA BecomeType ==
    ASSUME NEW v, NEW queue \in Seq(Frame), Good(w), Sound(w, v), asked \subseteq Request,
           Become(v, queue)
    PROVE  w' = v /\ asked' \subseteq Request /\ wire' \in Seq(Frame)
<1>1. w.next \in Nat /\ v.next \in Nat /\ w.next <= v.next
  BY DEF Sound, Good, Window
<1>2. v.pending \subseteq Request
  BY DEF Sound, Good, Window
<1>3. [i \in 1..(v.next - w.next) |-> Error(w.next + i - 1)] \in Seq(Frame)
  BY <1>1, ErrorsType
<1>4. asked' \subseteq Request
  BY <1>2 DEF Become
<1>5. wire' \in Seq(Frame)
  BY <1>3 DEF Become
<1> QED BY <1>4, <1>5 DEF Become

-----------------------------------------------------------------------------
(* The invariant, its two halves apart: what the window's own handlers do,  *)
(* and what the link and the backend do around it.                          *)

Inv == TypeOK /\ OneRequest /\ QuietFailure

LEMMA InvIsGood == Inv <=> TypeOK /\ Good(w)
BY Zenon DEF Inv, TypeOK, OneRequest, QuietFailure, Good, Booked, Quiet

LEMMA InitInv == Init => Inv
<1> SUFFICES ASSUME Init  PROVE Inv
  OBVIOUS
<1> DEFINE b == Blank(1)
<1>1. b \in Window /\ b.next = 1 /\ b.pending = {} /\ b.inflight = {} /\ b.failed = {}
  BY DEF Blank, Window
<1> HIDE DEF b
<1>2. Good(b)
  BY <1>1 DEF Good, Booked, Quiet
<1>3. Good(w)
  BY <1>2, ReloadSound DEF Init, b, Sound
<1>4. w \in Window /\ w.pending \subseteq Request
  BY <1>3 DEF Good, Window
<1>5. TypeOK
  BY <1>4, ChatWindowAssumption DEF TypeOK, Init, Ts, ChatWindowAssumption
<1> QED BY <1>3, <1>5, InvIsGood

LEMMA UserInv == Inv /\ User => Inv'
<1> SUFFICES ASSUME Inv, User  PROVE Inv'
  OBVIOUS
<1>1. TypeOK /\ Good(w)
  BY InvIsGood
<1>2. PICK v : Use(v) /\ Sound(w, v) /\ left' \in 0..Budget
  <2>1. left > 0 /\ left' = left - 1 => left' \in 0..Budget
    BY <1>1, ChatWindowAssumption DEF TypeOK, ChatWindowAssumption
  <2>2. CASE PageOlder
    BY <1>1, <2>1, <2>2, LoadOlderSound DEF PageOlder, Spend
  <2>3. CASE PageNewer
    BY <1>1, <2>1, <2>3, LoadNewerSound DEF PageNewer, Spend
  <2>4. CASE AskAgain
    BY <1>1, <2>1, <2>4, RetrySound DEF AskAgain, Spend
  <2>5. CASE ToBottom
    BY <1>1, <2>1, <2>5, ResetToBottomSound DEF ToBottom, Spend
  <2>6. ASSUME NEW t \in Ts \cup {0}, Goto(t)  PROVE \E v : Use(v) /\ Sound(w, v) /\ left' \in 0..Budget
    BY <1>1, <2>1, <2>6, IssueGotoSound DEF Goto, Spend
  <2>7. ASSUME NEW m \in w.rows, DropOld(m) \/ DropNew(m)
        PROVE  \E v : Use(v) /\ Sound(w, v) /\ left' \in 0..Budget
    BY <1>1, <2>1, <2>7, CullSound DEF DropOld, DropNew, Spend
  <2> QED BY <2>2, <2>3, <2>4, <2>5, <2>6, <2>7 DEF User
<1>3. w' = v /\ asked' \subseteq Request /\ wire' \in Seq(Frame)
  BY <1>1, <1>2, BecomeType DEF Use, TypeOK
<1>4. cause' \subseteq {"stranded", "crossed", "apart", "unsynced", "relocated"}
  BY <1>1, <1>2, BlamedType DEF Use
<1>5. Good(w')
  BY <1>2, <1>3 DEF Sound
<1>6. TypeOK'
  BY <1>1, <1>2, <1>3, <1>4, <1>5 DEF TypeOK, Use, backendVars, Good
<1> QED BY <1>5, <1>6, Zenon DEF Inv, OneRequest, QuietFailure, Good, Booked, Quiet

LEMMA DeliverInv == Inv /\ Deliver => Inv'
<1> SUFFICES ASSUME Inv, Deliver  PROVE Inv'
  OBVIOUS
<1>1. TypeOK /\ Good(w)
  BY InvIsGood
<1> DEFINE f == Head(wire)
           v == Handle(w, f)
<1>2. f \in Frame /\ Tail(wire) \in Seq(Frame)
  BY <1>1, HeadTailProperties DEF TypeOK, Deliver
<1>3. Sound(w, v)
  BY <1>1, <1>2, HandleSound
<1>4. Become(v, Tail(wire)) /\ cause' = Blamed(w, v, f)
  BY DEF Deliver
<1> HIDE DEF f, v
<1>5. w' = v /\ asked' \subseteq Request /\ wire' \in Seq(Frame)
  BY <1>1, <1>2, <1>3, <1>4, BecomeType DEF TypeOK
<1>6. cause' \subseteq {"stranded", "crossed", "apart", "unsynced", "relocated"}
  BY <1>1, <1>4, BlamedType
<1>7. Good(w')
  BY <1>3, <1>5 DEF Sound
<1>8. TypeOK'
  BY <1>1, <1>5, <1>6, <1>7 DEF TypeOK, Deliver, backendVars, Good
<1> QED BY <1>7, <1>8, Zenon DEF Inv, OneRequest, QuietFailure, Good, Booked, Quiet

LEMMA LinkInv == Inv /\ (LinkDown \/ LinkUp) => Inv'
<1> SUFFICES ASSUME Inv, LinkDown \/ LinkUp  PROVE Inv'
  OBVIOUS
<1>1. TypeOK /\ Good(w)
  BY InvIsGood
<1>2. CASE LinkDown
  <2>1. PICK v \in FailAll(w) :
          /\ w' = v /\ cause' = Blamed(w, v, NoFrame)
          /\ wire' = [i \in 1..(v.next - w.next) |-> Error(w.next + i - 1)]
    BY <1>2 DEF LinkDown
  <2>2. Sound(w, v)
    BY <1>1, FailAllSound
  <2>3. w.next \in Nat /\ v.next \in Nat /\ w.next <= v.next
    BY <1>1, <2>2 DEF Sound, Good, Window
  <2>4. wire' \in Seq(Frame)
    BY <2>1, <2>3, ErrorsType
  <2>5. cause' \subseteq {"stranded", "crossed", "apart", "unsynced", "relocated"}
    BY <1>1, <2>1, BlamedType
  <2>6. left' \in 0..Budget
    BY <1>1, <1>2, ChatWindowAssumption DEF LinkDown, Spend, TypeOK, ChatWindowAssumption
  <2>7. Good(w')
    BY <2>1, <2>2 DEF Sound
  <2>8. TypeOK'
    BY <1>1, <1>2, <2>4, <2>5, <2>6, <2>7 DEF TypeOK, LinkDown, backendVars, Good
  <2> QED BY <2>7, <2>8, Zenon DEF Inv, OneRequest, QuietFailure, Good, Booked, Quiet
<1>3. CASE LinkUp
  <2>1. Good(w')
    BY <1>1, <1>3, ReloadSound DEF LinkUp, Sound
  <2>2. TypeOK'
    BY <1>1, <1>3, <2>1 DEF TypeOK, LinkUp, backendVars, Good, Window
  <2> QED BY <2>1, <2>2, Zenon DEF Inv, OneRequest, QuietFailure, Good, Booked, Quiet
<1> QED BY <1>2, <1>3

\* The backend never touches the window; what it sends is well formed.
LEMMA BackendInv == Inv /\ Backend => Inv'
<1> SUFFICES ASSUME Inv, Backend  PROVE Inv'
  OBVIOUS
<1>1. TypeOK /\ Good(w) /\ wire \in Seq(Frame)
  BY InvIsGood DEF TypeOK
<1>2. ASSUME left > 0, left' = left - 1  PROVE left' \in 0..Budget
  BY <1>1, <1>2, ChatWindowAssumption DEF TypeOK, ChatWindowAssumption
<1>3. ASSUME NEW S \in SUBSET Ts, Store(S)
      PROVE  store' \subseteq Ts /\ missed' \subseteq Ts /\ store \subseteq store'
  BY <1>1, <1>3 DEF Store, TypeOK
<1>4. ASSUME NEW p \in asked, Answer(p)  PROVE TypeOK' /\ w' = w
  <2>1. p \in Request /\ p.tok \in Nat /\ p.cur \in Ts \cup {0}
    BY <1>1 DEF TypeOK, Request
  <2>2. PICK page \in Pages(p) :
          /\ Store(page)
          /\ Emit(TailNews(store \cup page) \o
                  <<Result(p.tok, page, IF page = {} THEN 0 ELSE p.cur)>>)
    BY <1>4 DEF Answer
  <2>3. page \in SUBSET Ts
    BY <1>1, <2>1, <2>2, PagesType DEF TypeOK
  <2>4. TailNews(store \cup page) \in Seq(Frame)
    BY <1>1, <2>3, TailNewsType DEF TypeOK
  <2>5. <<Result(p.tok, page, IF page = {} THEN 0 ELSE p.cur)>> \in Seq(Frame)
    BY <2>1, <2>3 DEF Result, Frame
  <2>6. wire' \in Seq(Frame)
    BY <1>1, <2>2, <2>4, <2>5, ConcatProperties, EmitType
  <2>7. store' \subseteq Ts /\ missed' \subseteq Ts /\ store \subseteq store'
    BY <1>3, <2>2, <2>3
  <2> QED BY <1>1, <1>4, <2>6, <2>7 DEF TypeOK, Answer
<1>5. ASSUME NEW p \in asked, Refuse(p) \/ Forget(p)  PROVE TypeOK' /\ w' = w
  <2>1. <<Error(p.tok)>> \in Seq(Frame)
    BY <1>1 DEF TypeOK, Request, Error, Frame
  <2>2. wire' \in Seq(Frame)
    BY <1>1, <1>5, <2>1, EmitType DEF Refuse, Forget
  <2> QED BY <1>1, <1>5, <2>2 DEF TypeOK, Refuse, Forget, backendVars
<1>6. ASSUME AnswerPull  PROVE TypeOK' /\ w' = w
  <2>1. State(streamUp) \in Frame
    BY <1>1 DEF TypeOK, State, Frame
  <2>2. store # {} => TailAt(Newest(store)) \in Frame
    BY <1>1, NewestIn DEF TypeOK, TailAt, Frame
  <2>3. <<State(streamUp)>> \o (IF store = {} THEN <<>> ELSE <<TailAt(Newest(store))>>)
           \in Seq(Frame)
    BY <2>1, <2>2
  <2>4. wire' \in Seq(Frame)
    BY <1>1, <1>6, <2>3, EmitType DEF AnswerPull
  <2> QED BY <1>1, <1>6, <2>4 DEF TypeOK, AnswerPull, backendVars
<1>7. NextTs \in Ts => <<New(NextTs), TailAt(NextTs)>> \in Seq(Frame)
  BY DEF New, TailAt, Frame
<1>8. ASSUME RemoteMessage  PROVE TypeOK' /\ w' = w
  <2>1. wire' \in Seq(Frame)
    BY <1>1, <1>7, <1>8, EmitType DEF RemoteMessage
  <2> QED BY <1>1, <1>8, <2>1 DEF TypeOK, RemoteMessage
<1>9. ASSUME OwnMessage  PROVE TypeOK' /\ w' = w
  <2>1. wire' \in Seq(Frame)
    BY <1>1, <1>7, <1>9, EmitType DEF OwnMessage
  <2> QED BY <1>1, <1>2, <1>9, <2>1 DEF TypeOK, OwnMessage, Spend
<1>10. ASSUME NEW t \in sends, Confirm(t)  PROVE TypeOK' /\ w' = w
  <2>1. t \in Ts /\ NextTs \in Ts
    BY <1>1, <1>10 DEF TypeOK, Confirm
  <2>2. <<[k |-> "Confirmed", ts |-> t, newTs |-> NextTs], TailAt(NextTs)>> \in Seq(Frame)
    BY <2>1 DEF TailAt, Frame
  <2>3. wire' \in Seq(Frame)
    BY <1>1, <1>10, <2>2, EmitType DEF Confirm
  <2> QED BY <1>1, <1>10, <2>1, <2>3 DEF TypeOK, Confirm
<1>11. ASSUME NEW t \in store, Edit(t)  PROVE TypeOK' /\ w' = w
  <2>1. <<[k |-> "Edited", ts |-> t]>> \in Seq(Frame)
    BY <1>1 DEF TypeOK, Frame
  <2>2. wire' \in Seq(Frame)
    BY <1>1, <1>11, <2>1, EmitType DEF Edit
  <2> QED BY <1>1, <1>2, <1>11, <2>2 DEF TypeOK, Edit, Spend, backendVars
<1>12. ASSUME StreamDown \/ StreamUp \/ CatchupEnd \/ ForeignCatchup  PROVE TypeOK' /\ w' = w
  <2>1. /\ <<State(FALSE)>> \in Seq(Frame)
        /\ <<State(TRUE), CatchupStarted(TRUE)>> \in Seq(Frame)
        /\ <<CatchupDone(TRUE)>> \in Seq(Frame) /\ <<CatchupDone(FALSE)>> \in Seq(Frame)
    BY DEF State, CatchupStarted, CatchupDone, Frame
  <2>2. wire' \in Seq(Frame)
    BY <1>1, <1>12, <2>1, EmitType DEF StreamDown, StreamUp, CatchupEnd, ForeignCatchup
  <2> QED BY <1>1, <1>2, <1>12, <2>2
          DEF TypeOK, StreamDown, StreamUp, CatchupEnd, ForeignCatchup, Spend, backendVars
<1>13. ASSUME CatchupStore  PROVE TypeOK' /\ w' = w
  <2>1. missed \in SUBSET Nat /\ missed # {} /\ missed \subseteq Ts
    BY <1>1, <1>13 DEF CatchupStore, TypeOK, Ts
  <2>2. Oldest(missed) \in Ts
    BY <2>1, MinExists DEF Oldest
  <2>3. store' \subseteq Ts /\ missed' \subseteq Ts /\ store \subseteq store'
    BY <1>3, <1>13, <2>2 DEF CatchupStore
  <2>4. TailNews(store') \in Seq(Frame)
    BY <2>3, TailNewsType
  <2>5. wire' \in Seq(Frame)
    BY <1>1, <1>13, <2>4, EmitType DEF CatchupStore
  <2> QED BY <1>1, <1>13, <2>3, <2>5 DEF TypeOK, CatchupStore
<1>14. TypeOK' /\ w' = w
  BY <1>4, <1>5, <1>6, <1>8, <1>9, <1>10, <1>11, <1>12, <1>13 DEF Backend
<1> QED BY <1>1, <1>14, Zenon DEF Inv, OneRequest, QuietFailure, Good, Booked, Quiet

LEMMA NextInv == Inv /\ [Next]_vars => Inv'
<1> SUFFICES ASSUME Inv, [Next]_vars  PROVE Inv'
  OBVIOUS
<1>1. CASE UNCHANGED vars
  BY <1>1 DEF vars, Inv, TypeOK, OneRequest, QuietFailure
<1> QED BY <1>1, UserInv, DeliverInv, LinkInv, BackendInv DEF Next

-----------------------------------------------------------------------------
(* The theorems.                                                            *)

\* Every reachable state has the types TypeOK gives it: no handler of the window
\* (loadOlder .. handleError) leaves the record, no frame is malformed.
THEOREM TypeCorrect == Spec => []TypeOK
<1>1. Init => Inv
  BY InitInv
<1>2. Inv /\ [Next]_vars => Inv'
  BY NextInv
<1>3. Inv => TypeOK
  BY DEF Inv
<1> QED BY <1>1, <1>2, <1>3, PTL DEF Spec

\* m_inflight and m_pending agree in every reachable state, so "one request per
\* direction in flight" holds for any page size, store, link and user.
THEOREM RequestsConsistent == Spec => []OneRequest
<1>1. Init => Inv
  BY InitInv
<1>2. Inv /\ [Next]_vars => Inv'
  BY NextInv
<1>3. Inv => OneRequest
  BY DEF Inv
<1> QED BY <1>1, <1>2, <1>3, PTL DEF Spec

\* No direction is ever both out and reported failed: every path that asks
\* (loadOlder, retry, reconcileCatchup, a jump) forgives the failure first.
THEOREM FailuresQuiet == Spec => []QuietFailure
<1>1. Init => Inv
  BY InitInv
<1>2. Inv /\ [Next]_vars => Inv'
  BY NextInv
<1>3. Inv => QuietFailure
  BY DEF Inv
<1> QED BY <1>1, <1>2, <1>3, PTL DEF Spec

-----------------------------------------------------------------------------
(* What is on its way to the window.  An element of a queue is a frame, and *)
(* a place of the queue is what has been served before it.                  *)

\* Of the queue q, something of S comes after place i.
Behind(q, i, S) == \E k \in 1..Len(q) : k > i /\ q[k] \in S

Moves(t) == [k : {"Confirmed"}, ts : {t}, newTs : Ts]
Replies(tok) ==
    [k : {"result"}, tok : {tok}, page : SUBSET Ts, anchor : Ts \cup {0}]
    \cup [k : {"error"}, tok : {tok}]
Ended == {CatchupDone(TRUE)}
Arrivals == [k : {"New"}, ts : Ts, syncing : BOOLEAN]

\* The rows a frame may put in a window.
Shows(f) ==
    IF f.k = "result" THEN f.page
    ELSE IF f.k = "New" THEN {f.ts}
    ELSE IF f.k = "Confirmed" THEN {f.newTs} ELSE {}

-----------------------------------------------------------------------------
(* The invariant: what is on its way makes good what the window lacks.      *)

\* Nothing but the errors of what the window asked reaches it on a lost link,
\* and nothing is asked of the backend there.
LinkOK ==
    ~linkUp => asked = {} /\ \A i \in 1..Len(wire) : wire[i].k = "error"

\* A row, or what a frame will show, is a message that is there or one whose
\* <Confirmed> is still to come.
RowsVouched ==
    /\ \A i \in 1..Len(wire) : \A t \in Shows(wire[i]) :
          t \in Truth \/ Behind(wire, i, Moves(t))
    /\ linkUp => \A t \in w.rows : t \in Truth \/ Behind(wire, 0, Moves(t))

\* What is pending is with the backend, or its reply is on the wire.
Replied == \A p \in w.pending : p \in asked \/ Behind(wire, 0, Replies(p.tok))

\* A token stands for one request for ever.
TokensOK ==
    /\ \A p \in asked : p.tok < w.next /\ \A q \in w.pending : p.tok = q.tok => p = q
    /\ \A i \in 1..Len(wire) : wire[i].k \in {"result", "error"} => wire[i].tok < w.next

\* What is said of failures is so, and is said of an opening page.
Told(v) == (v.error => v.failed # {}) /\ ("init" \in v.failed => v.error)

\* An empty window pages nowhere but to its opening page or a jump.
Small(v) == v.rows = {} => v.inflight \subseteq {"init", "goto"}

\* It is being filled, or has failed to be.
Waiting(v) == v.inflight \cap {"init", "goto"} # {} \/ "init" \in v.failed

\* A catchup is open, or the next stream will open one.
Coming == bracket \/ ~streamUp
Unsettled(i) == store = {} \/ Coming \/ Behind(wire, i, Ended \cup Arrivals)

\* What a message that no page brought waits for: a catchup's end still to come.
CatchupsEnd ==
    /\ missed # {} => Coming
    /\ linkUp /\ w.busy => Coming \/ Behind(wire, 0, Ended)
    /\ \A i \in 1..Len(wire) :
          wire[i] = CatchupStarted(TRUE) => Coming \/ Behind(wire, i, Ended)

\* An opening page that brings nothing was of a chat with nothing to bring, or
\* what there is will make itself known.
EmptyPages ==
    \A i \in 1..Len(wire) :
       wire[i].k = "result" /\ wire[i].page = {} =>
          /\ wire[i].anchor = 0
          /\ (\E p \in w.pending : p.dir = "init" /\ p.tok = wire[i].tok) => Unsettled(i)

BlankWaits ==
    linkUp /\ w.rows = {} => Waiting(w) \/ (w.atTail /\ Unsettled(0))

FeedInv ==
    /\ LinkOK /\ RowsVouched /\ Replied /\ TokensOK
    /\ Told(w) /\ Small(w)
    /\ CatchupsEnd /\ EmptyPages /\ BlankWaits

-----------------------------------------------------------------------------
(* What is behind a place of a queue, once it has grown or been served.     *)

LEMMA BehindConcat ==
    ASSUME NEW q \in Seq(Frame), NEW r \in Seq(Frame)
    PROVE  /\ q \o r \in Seq(Frame) /\ Len(q \o r) = Len(q) + Len(r)
           /\ Len(q) \in Nat /\ Len(r) \in Nat
           /\ \A i \in 1..Len(q) : (q \o r)[i] = q[i]
           /\ \A i \in 1..Len(q \o r) : i \notin 1..Len(q) =>
                 i - Len(q) \in 1..Len(r) /\ (q \o r)[i] = r[i - Len(q)]
           /\ \A S, i : Behind(q, i, S) => Behind(q \o r, i, S)
           /\ \A S : \A i \in 0..Len(q) : Behind(r, 0, S) => Behind(q \o r, i, S)
<1>1. /\ q \o r \in Seq(Frame) /\ Len(q \o r) = Len(q) + Len(r)
      /\ Len(q) \in Nat /\ Len(r) \in Nat
  BY ConcatProperties, LenProperties
<1>2. \A i \in 1..Len(q) + Len(r) :
         (q \o r)[i] = IF i <= Len(q) THEN q[i] ELSE r[i - Len(q)]
  BY ConcatProperties
<1>3. \A i \in 1..Len(q) : i \in 1..Len(q \o r) /\ (q \o r)[i] = q[i]
  BY <1>1, <1>2
<1>4. \A j \in 1..Len(r) : Len(q) + j \in 1..Len(q \o r) /\ (q \o r)[Len(q) + j] = r[j]
  BY <1>1, <1>2
<1>5. \A S, i : Behind(q, i, S) => Behind(q \o r, i, S)
  BY <1>3 DEF Behind
<1>6. ASSUME NEW S, NEW i \in 0..Len(q), Behind(r, 0, S)  PROVE Behind(q \o r, i, S)
  <2>1. PICK j \in 1..Len(r) : r[j] \in S
    BY <1>6 DEF Behind
  <2>2. Len(q) + j > i
    BY <1>1
  <2> QED BY <1>4, <2>1, <2>2 DEF Behind
<1>7. \A i \in 1..Len(q \o r) : i \notin 1..Len(q) =>
         i - Len(q) \in 1..Len(r) /\ (q \o r)[i] = r[i - Len(q)]
  BY <1>1, <1>2
<1> QED BY <1>1, <1>3, <1>5, <1>6, <1>7

LEMMA BehindTail ==
    ASSUME NEW q \in Seq(Frame), q # <<>>
    PROVE  /\ Tail(q) \in Seq(Frame) /\ Len(Tail(q)) = Len(q) - 1 /\ Len(q) \in Nat \ {0}
           /\ Head(q) \in Frame /\ Head(q) = q[1]
           /\ \A i \in 1..Len(Tail(q)) : i + 1 \in 1..Len(q) /\ Tail(q)[i] = q[i + 1]
           /\ \A S : \A i \in Nat : Behind(q, i + 1, S) => Behind(Tail(q), i, S)
           /\ \A S : Behind(q, 1, S) => Behind(Tail(q), 0, S)
           /\ \A S : Behind(q, 0, S) /\ Head(q) \notin S => Behind(Tail(q), 0, S)
<1>1. /\ Tail(q) \in Seq(Frame) /\ Len(Tail(q)) = Len(q) - 1 /\ Len(q) \in Nat \ {0}
      /\ Head(q) \in Frame /\ Head(q) = q[1]
      /\ \A i \in 1..Len(Tail(q)) : Tail(q)[i] = q[i + 1]
  BY HeadTailProperties, EmptySeq, LenProperties
<1>2. \A i \in 1..Len(Tail(q)) : i + 1 \in 1..Len(q)
  BY <1>1
<1>3. \A k \in 1..Len(q) : k # 1 => k - 1 \in 1..Len(Tail(q)) /\ Tail(q)[k - 1] = q[k]
  BY <1>1
<1>4. ASSUME NEW S, NEW i \in Nat, Behind(q, i + 1, S)  PROVE Behind(Tail(q), i, S)
  <2>1. PICK k \in 1..Len(q) : k > i + 1 /\ q[k] \in S
    BY <1>4 DEF Behind
  <2>2. k # 1 /\ k - 1 > i
    BY <2>1
  <2> QED BY <1>3, <2>1, <2>2 DEF Behind
<1>5. \A S : Behind(q, 1, S) => Behind(Tail(q), 0, S)
  BY <1>4
<1>6. ASSUME NEW S, Behind(q, 0, S), Head(q) \notin S  PROVE Behind(Tail(q), 0, S)
  <2>1. PICK k \in 1..Len(q) : q[k] \in S
    BY <1>6 DEF Behind
  <2>2. k # 1
    BY <1>1, <1>6, <2>1
  <2>3. k > 1
    BY <1>1, <2>2
  <2> QED BY <1>5, <2>1, <2>3 DEF Behind
<1> QED BY <1>1, <1>2, <1>4, <1>5, <1>6

\* Errors for the tokens from n up to m.
LEMMA BehindErrors ==
    ASSUME NEW n \in Nat, NEW m \in Nat, n <= m
    PROVE  LET q == [i \in 1..(m - n) |-> Error(n + i - 1)]
           IN /\ q \in Seq(Frame) /\ Len(q) = m - n
              /\ \A i \in 1..Len(q) : q[i].k = "error" /\ q[i].tok < m
              /\ \A t \in Nat : n <= t /\ t < m => Behind(q, 0, Replies(t))
<1> DEFINE q == [i \in 1..(m - n) |-> Error(n + i - 1)]
<1>1. m - n \in Nat
  OBVIOUS
<1>2. q \in Seq(Frame)
  BY ErrorsType
<1>3. Len(q) = m - n
  BY <1>1, <1>2, LenProperties
<1>4. \A i \in 1..Len(q) : q[i].k = "error" /\ q[i].tok < m
  BY <1>1, <1>3 DEF Error
<1>5. ASSUME NEW t \in Nat, n <= t, t < m  PROVE Behind(q, 0, Replies(t))
  <2>1. t - n + 1 \in 1..(m - n) /\ n + (t - n + 1) - 1 = t
    BY <1>5
  <2>2. q[t - n + 1] = Error(t)
    BY <2>1
  <2>3. Error(t) \in Replies(t)
    BY DEF Error, Replies
  <2> HIDE DEF q
  <2> QED BY <1>1, <1>3, <2>1, <2>2, <2>3 DEF Behind
<1> QED BY <1>2, <1>3, <1>4, <1>5

-----------------------------------------------------------------------------
(* The ChatModel object again: what its member functions leave as it was.   *)

\* Only what is new is pending that was not, no row appears, and what is said
\* of failures stays so.
Calm(v, u) ==
    /\ Sound(v, u)
    /\ \A p \in u.pending : p \in v.pending \/ v.next <= p.tok
    /\ Told(v) => Told(u)
    /\ u.rows \subseteq v.rows
    /\ u.busy => v.busy

LEMMA CalmChain ==
    ASSUME NEW v, NEW u, NEW x, Good(v), Calm(v, u), Calm(u, x)
    PROVE  Calm(v, x)
<1>1. Sound(v, u) /\ Sound(u, x) /\ Sound(v, x)
  BY SoundChain DEF Calm
<1>2. v.next \in Nat /\ u.next \in Nat /\ v.next <= u.next
  BY <1>1 DEF Sound, Good, Window
<1>3. \A p \in x.pending : p.tok \in Nat
  BY <1>1 DEF Sound, Good, Window, Request
<1>4. \A p \in x.pending : p \in v.pending \/ v.next <= p.tok
  BY <1>2, <1>3 DEF Calm
<1> QED BY <1>1, <1>4 DEF Calm

LEMMA NothingCalm ==
    ASSUME NEW v, Good(v)
    PROVE  Calm(v, v)
BY NothingSound DEF Calm

\* The message goes when the last failure does, and not before.
LEMMA ClearFailureCalm ==
    ASSUME NEW v, NEW D, Good(v)
    PROVE  /\ Calm(v, ClearFailure(v, D))
           /\ ClearFailure(v, D).atTail = v.atTail /\ ClearFailure(v, D).busy = v.busy
<1> DEFINE u == ClearFailure(v, D)
<1>1. /\ Sound(v, u) /\ u.failed = v.failed \ D /\ u.pending = v.pending
      /\ u.rows = v.rows
  BY ClearFailureSound
<1>2. v \in Window
  BY DEF Good
<1>3. u.atTail = v.atTail /\ u.busy = v.busy
  BY <1>2 DEF Window, ClearFailure
<1>4. u.error <=> v.error /\ ~(v.failed \cap D # {} /\ v.failed \subseteq D)
  BY <1>2 DEF Window, ClearFailure
<1> HIDE DEF u
<1>5. Told(v) => Told(u)
  BY <1>1, <1>4 DEF Told
<1> QED BY <1>1, <1>3, <1>5 DEF Calm, u

LEMMA CancelCalm ==
    ASSUME NEW v, NEW D, Good(v)
    PROVE  /\ Calm(v, Cancel(v, D))
           /\ Cancel(v, D).atTail = v.atTail /\ Cancel(v, D).rows = v.rows
<1> DEFINE u == ClearFailure(v, D)
<1>1. Calm(v, u) /\ u.atTail = v.atTail /\ u.rows = v.rows
  BY ClearFailureCalm, ClearFailureSound
<1> HIDE DEF u
<1> DEFINE c == [u EXCEPT !.inflight = @ \ D, !.pending = {p \in @ : p.dir \notin D}]
<1>2. c = Cancel(v, D)
  BY DEF Cancel, c, u
<1>3. u \in Window
  BY <1>1 DEF Calm, Sound, Good
<1>4. c.pending = {p \in u.pending : p.dir \notin D} /\ c.rows = u.rows /\ c.atTail = u.atTail
  BY <1>3 DEF Window
<1>5. c.failed = u.failed /\ c.error = u.error /\ c.busy = u.busy
  BY <1>3 DEF Window
<1>6. Sound(v, c)
  BY <1>2, CancelSound
<1> HIDE DEF c
<1>7. Told(u) => Told(c)
  BY <1>5 DEF Told
<1> QED BY <1>1, <1>2, <1>4, <1>5, <1>6, <1>7 DEF Calm

\* A request asks with the next token, and in its own direction only.
LEMMA AskCalm ==
    ASSUME NEW v, NEW d \in Dirs, NEW cur \in Ts \cup {0}, Good(v),
           d \notin v.inflight, d \notin v.failed
    PROVE  /\ Calm(v, Ask(v, d, cur))
           /\ Ask(v, d, cur).inflight = v.inflight \cup {d}
           /\ Ask(v, d, cur).failed = v.failed
           /\ Ask(v, d, cur).atTail = v.atTail /\ Ask(v, d, cur).rows = v.rows
<1> DEFINE r == [tok |-> v.next, dir |-> d, cur |-> cur]
           u == [v EXCEPT !.pending = @ \cup {r}, !.inflight = @ \cup {d}, !.next = @ + 1]
<1>1. u = Ask(v, d, cur) /\ r.tok = v.next
  BY DEF Ask
<1>2. v \in Window /\ v.next \in Nat
  BY DEF Good, Window
<1> HIDE DEF r
<1>3. u.pending = v.pending \cup {r} /\ u.inflight = v.inflight \cup {d}
  BY <1>2 DEF Window
<1>4. u.failed = v.failed /\ u.error = v.error /\ u.busy = v.busy
  BY <1>2 DEF Window
<1>5. u.rows = v.rows /\ u.atTail = v.atTail
  BY <1>2 DEF Window
<1>6. Sound(v, u)
  BY <1>1, AskSound
<1> HIDE DEF u
<1>7. Told(v) => Told(u)
  BY <1>4 DEF Told
<1>8. \A p \in u.pending : p \in v.pending \/ v.next <= p.tok
  BY <1>1, <1>2, <1>3
<1> QED BY <1>1, <1>3, <1>4, <1>5, <1>6, <1>7, <1>8 DEF Calm

LEMMA IssueHistoryCalm ==
    ASSUME NEW v, NEW d \in Dirs, NEW cur \in Ts \cup {0}, Good(v)
    PROVE  /\ Calm(v, IssueHistory(v, d, cur))
           /\ IssueHistory(v, d, cur).inflight = v.inflight \cup {d}
           /\ IssueHistory(v, d, cur).atTail = v.atTail
           /\ IssueHistory(v, d, cur).rows = v.rows
<1>1. CASE d \in v.inflight
  BY <1>1, NothingCalm DEF IssueHistory
<1>2. CASE d \notin v.inflight
  <2> DEFINE u == ClearFailure(v, {d})
  <2>1. /\ Calm(v, u) /\ u.inflight = v.inflight /\ u.failed = v.failed \ {d}
        /\ u.atTail = v.atTail /\ u.rows = v.rows
    BY ClearFailureSound, ClearFailureCalm
  <2>2. IssueHistory(v, d, cur) = Ask(u, d, cur)
    BY <1>2 DEF IssueHistory
  <2> HIDE DEF u
  <2>3. /\ Calm(u, Ask(u, d, cur)) /\ Ask(u, d, cur).inflight = u.inflight \cup {d}
        /\ Ask(u, d, cur).atTail = u.atTail /\ Ask(u, d, cur).rows = u.rows
    BY <1>2, <2>1, AskCalm DEF Calm, Sound
  <2> QED BY <2>1, <2>2, <2>3, CalmChain
<1> QED BY <1>1, <1>2

LEMMA LoadInitialCalm ==
    ASSUME NEW v, Good(v)
    PROVE  /\ Calm(v, LoadInitial(v))
           /\ LoadInitial(v).inflight = v.inflight \cup {"init"}
           /\ LoadInitial(v).atTail = v.atTail /\ LoadInitial(v).rows = v.rows
           /\ Waiting(LoadInitial(v)) /\ (Small(v) => Small(LoadInitial(v)))
<1>1. "init" \in Dirs /\ 0 \in Ts \cup {0}
  BY DEF Dirs
<1>2. /\ Calm(v, LoadInitial(v)) /\ LoadInitial(v).inflight = v.inflight \cup {"init"}
      /\ LoadInitial(v).atTail = v.atTail /\ LoadInitial(v).rows = v.rows
  BY <1>1, IssueHistoryCalm DEF LoadInitial
<1> QED BY <1>2, Zenon DEF Waiting, Small

\* A page outward from either end of a window that has ends.
LEMMA PageCalm ==
    ASSUME NEW v, Good(v), NEW d \in {"old", "new", "catchup"}, NEW c \in Ts \cup {0}
    PROVE  /\ Calm(v, IssueHistory(v, d, c))
           /\ IssueHistory(v, d, c).rows = v.rows
           /\ v.rows # {} => Small(IssueHistory(v, d, c))
<1>1. d \in Dirs
  BY DEF Dirs
<1>2. Calm(v, IssueHistory(v, d, c)) /\ IssueHistory(v, d, c).rows = v.rows
  BY <1>1, IssueHistoryCalm
<1> QED BY <1>2 DEF Small

\* What every call of the user's, and the end of a catchup, comes to: an empty
\* window is either as it was or being filled.
Fair(v, u) ==
    /\ Calm(v, u)
    /\ Small(v) => Small(u)
    /\ u.rows = {} => Waiting(u) \/ (v.rows = {} /\ u = v)

LEMMA PagesFair ==
    ASSUME NEW v, Good(v)
    PROVE  Fair(v, LoadOlder(v)) /\ Fair(v, LoadNewer(v))
<1>1. Oldest(v.rows) \in Ts \cup {0} /\ Newest(v.rows) \in Ts \cup {0}
  BY EndsType DEF Good, Window
<1>2. Fair(v, v)
  BY NothingCalm DEF Fair
<1>3. ASSUME NEW d \in {"old", "new"}, NEW c \in Ts \cup {0}, v.rows # {}
      PROVE  Fair(v, IssueHistory(v, d, c))
  BY <1>3, PageCalm DEF Fair
<1> QED BY <1>1, <1>2, <1>3 DEF LoadOlder, LoadNewer

LEMMA RetryFair ==
    ASSUME NEW v, Good(v)
    PROVE  Fair(v, Retry(v)) /\ Retry(v).rows = v.rows
<1>1. Oldest(v.rows) \in Ts \cup {0} /\ Newest(v.rows) \in Ts \cup {0}
  BY EndsType DEF Good, Window
<1> DEFINE a == IF "init" \in v.failed THEN LoadInitial(v) ELSE v
           b == IF "old" \in v.failed /\ v.rows # {}
                THEN IssueHistory(a, "old", Oldest(v.rows)) ELSE a
           c == IF "new" \in v.failed /\ v.rows # {}
                THEN IssueHistory(b, "new", Newest(v.rows)) ELSE b
<1>2. Retry(v) = c
  BY DEF Retry
<1>3. Calm(v, a) /\ a.rows = v.rows /\ (Small(v) => Small(a)) /\ (a = v \/ Waiting(a))
  BY LoadInitialCalm, NothingCalm
<1>4. Calm(a, b) /\ b.rows = a.rows /\ (v.rows = {} => b = a)
  <2>1. Good(a)
    BY <1>3 DEF Calm, Sound
  <2> HIDE DEF a
  <2> QED BY <1>1, <2>1, PageCalm, NothingCalm
<1>5. Calm(b, c) /\ c.rows = b.rows /\ (v.rows = {} => c = b)
  <2>1. Good(b)
    BY <1>4 DEF Calm, Sound
  <2> HIDE DEF b
  <2> QED BY <1>1, <2>1, PageCalm, NothingCalm
<1> HIDE DEF a, b, c
<1>6. Calm(v, c)
  BY <1>3, <1>4, <1>5, CalmChain
<1>7. CASE v.rows = {}
  BY <1>2, <1>3, <1>4, <1>5, <1>6, <1>7 DEF Fair
<1>8. CASE v.rows # {}
  BY <1>2, <1>3, <1>4, <1>5, <1>6, <1>8 DEF Fair, Small
<1> QED BY <1>7, <1>8

LEMMA JumpsFair ==
    ASSUME NEW v, Good(v)
    PROVE  /\ \A t \in Ts \cup {0} : Fair(v, IssueGoto(v, t))
           /\ Fair(v, ResetToBottom(v))
<1> DEFINE u == Cancel(v, Dirs)
<1>1. /\ Calm(v, u) /\ u.rows = v.rows /\ u.inflight = v.inflight \ Dirs
      /\ u.failed = v.failed \ Dirs
  BY CancelCalm, CancelSound
<1>2. u \in Window /\ Good(u) /\ v.inflight \subseteq Dirs
  BY <1>1 DEF Calm, Sound, Good, Window
<1>3. \A t : IssueGoto(v, t) = Ask(u, "goto", t)
  BY DEF IssueGoto
<1> DEFINE e == [u EXCEPT !.rows = {}, !.atTail = FALSE]
<1>4. ResetToBottom(v) = LoadInitial(e)
  BY DEF ResetToBottom
<1> HIDE DEF u
<1>5. "goto" \in Dirs /\ u.inflight = {}
  BY <1>1, <1>2 DEF Dirs
<1>6. ASSUME NEW t \in Ts \cup {0}  PROVE Fair(v, IssueGoto(v, t))
  <2> DEFINE x == Ask(u, "goto", t)
  <2>1. Calm(u, x) /\ x.inflight = {"goto"} /\ x.rows = u.rows
    BY <1>1, <1>2, <1>5, AskCalm
  <2> HIDE DEF x
  <2>2. Calm(v, x)
    BY <1>1, <2>1, CalmChain
  <2>3. Small(x) /\ Waiting(x)
    BY <2>1 DEF Small, Waiting
  <2> QED BY <1>3, <2>2, <2>3 DEF Fair, x
<1>7. Fair(v, ResetToBottom(v))
  <2>1. e \in Window
    BY <1>2 DEF Window
  <2>2. e.pending = u.pending /\ e.inflight = u.inflight /\ e.next = u.next
    BY <1>2 DEF Window
  <2>3. e.failed = u.failed /\ e.error = u.error
    BY <1>2 DEF Window
  <2>4. e.rows = {} /\ e.busy = u.busy
    BY <1>2 DEF Window
  <2> HIDE DEF e
  <2>5. Sound(u, e)
    BY <1>2, <2>1, <2>2, <2>3, SameRequestsSound
  <2>6. Calm(u, e)
    BY <2>2, <2>3, <2>4, <2>5 DEF Calm, Told
  <2>7. Good(e) /\ Small(e)
    BY <1>5, <2>2, <2>5 DEF Sound, Small
  <2>8. /\ Calm(e, LoadInitial(e)) /\ Waiting(LoadInitial(e))
        /\ Small(LoadInitial(e))
    BY <2>7, LoadInitialCalm
  <2>9. Calm(v, LoadInitial(e))
    BY <1>1, <1>2, <2>6, <2>7, <2>8, CalmChain
  <2> QED BY <1>4, <2>8, <2>9 DEF Fair
<1> QED BY <1>6, <1>7

\* The view never drops the last row it has.
LEMMA CullFair ==
    ASSUME NEW v, Good(v), NEW gone, v.rows \ gone # {}
    PROVE  Fair(v, CullOld(v, gone)) /\ Fair(v, CullNew(v, gone))
<1> DEFINE u == [v EXCEPT !.rows = @ \ gone]
           c == Cancel(u, {"new", "catchup"})
           e == [c EXCEPT !.atTail = FALSE]
<1>1. CullOld(v, gone) = Cancel(u, {"old"}) /\ CullNew(v, gone) = e
  BY DEF CullOld, CullNew
<1>2. v \in Window /\ v.rows \ gone \in SUBSET Ts
  BY DEF Good, Window
<1>3. Sound(v, u)
  BY <1>2, ShowSound
<1>4. u.rows = v.rows \ gone /\ u.pending = v.pending /\ u.busy = v.busy
  BY <1>2 DEF Window
<1>5. u.failed = v.failed /\ u.error = v.error
  BY <1>2 DEF Window
<1> HIDE DEF u
<1>6. Calm(v, u) /\ Good(u)
  BY <1>3, <1>4, <1>5 DEF Calm, Told, Sound
<1>7. /\ Calm(u, Cancel(u, {"old"})) /\ Cancel(u, {"old"}).rows = u.rows
      /\ Calm(u, c) /\ c.rows = u.rows
  BY <1>6, CancelCalm
<1>8. c \in Window /\ Good(c)
  BY <1>7 DEF Calm, Sound, Good
<1> HIDE DEF c
<1>9. Sound(c, e)
  BY <1>8, ShowSound
<1>10. e.rows = c.rows /\ e.pending = c.pending /\ e.busy = c.busy
  BY <1>8 DEF Window
<1>11. e.failed = c.failed /\ e.error = c.error
  BY <1>8 DEF Window
<1> HIDE DEF e
<1>12. Calm(c, e)
  BY <1>9, <1>10, <1>11 DEF Calm, Told
<1>13. Calm(v, Cancel(u, {"old"})) /\ Calm(v, e)
  BY <1>6, <1>7, <1>8, <1>12, CalmChain
<1>14. Cancel(u, {"old"}).rows # {} /\ e.rows # {}
  BY <1>4, <1>7, <1>10
<1> QED BY <1>1, <1>13, <1>14 DEF Fair, Small

\* A window rebuilt on a new link asks for its opening page.
LEMMA ReloadFair ==
    ASSUME NEW v, Good(v)
    PROVE  /\ Fair(v, Reload(v)) /\ Reload(v).rows = {} /\ ~Reload(v).busy
           /\ Small(Reload(v)) /\ Told(Reload(v)) /\ Waiting(Reload(v))
           /\ \A p \in Reload(v).pending : v.next <= p.tok
<1> DEFINE b == Blank(v.next)
<1>1. v.next \in Nat
  BY DEF Good, Window
<1>2. /\ b \in Window /\ b.next = v.next /\ b.pending = {} /\ b.inflight = {}
      /\ b.failed = {} /\ b.rows = {} /\ b.busy = FALSE /\ b.error = FALSE
  BY <1>1 DEF Blank, Window
<1> HIDE DEF b
<1>3. Good(b) /\ Sound(v, b)
  BY <1>1, <1>2 DEF Sound, Good, Booked, Quiet
<1>4. Calm(v, b) /\ Small(b) /\ Told(b)
  BY <1>2, <1>3 DEF Calm, Small, Told
<1>5. /\ Calm(b, LoadInitial(b)) /\ LoadInitial(b).rows = {} /\ Waiting(LoadInitial(b))
      /\ Small(LoadInitial(b))
  BY <1>2, <1>3, <1>4, LoadInitialCalm
<1>6. Calm(v, LoadInitial(b)) /\ Told(LoadInitial(b)) /\ ~LoadInitial(b).busy
  BY <1>2, <1>4, <1>5, CalmChain, <1>3 DEF Calm
<1>7. \A p \in LoadInitial(b).pending : v.next <= p.tok
  BY <1>2, <1>5 DEF Calm
<1> QED BY <1>5, <1>6, <1>7 DEF Fair, Reload, b

LEMMA ReconcileCatchupFair ==
    ASSUME NEW v, Good(v), Small(v)
    PROVE  /\ Fair(v, ReconcileCatchup(v))
           /\ ReconcileCatchup(v).rows = v.rows
           /\ v.rows = {} /\ v.atTail => Waiting(ReconcileCatchup(v))
<1>1. Newest(v.rows) \in Ts \cup {0}
  BY EndsType DEF Good, Window
<1>2. Fair(v, v)
  BY NothingCalm DEF Fair
<1>3. /\ Fair(v, LoadInitial(v)) /\ Waiting(LoadInitial(v))
      /\ LoadInitial(v).rows = v.rows
  BY LoadInitialCalm DEF Fair
<1>4. v.rows # {} => /\ Fair(v, IssueHistory(v, "catchup", Newest(v.rows)))
                     /\ IssueHistory(v, "catchup", Newest(v.rows)).rows = v.rows
  BY <1>1, PageCalm DEF Fair
<1>5. v.rows = {} => v.inflight \cap {"new", "catchup"} = {}
  BY DEF Small
<1> QED BY <1>2, <1>3, <1>4, <1>5 DEF ReconcileCatchup

\* A lost link leaves nothing pending but what an emptied feed asks at once.
LEMMA FailAllCalm ==
    ASSUME NEW v, Good(v), NEW u \in FailAll(v), Told(v)
    PROVE  Told(u) /\ Small(u) /\ \A p \in u.pending : v.next <= p.tok
<1> DEFINE dirs == {p.dir : p \in v.pending}
           e == v.error \/ dirs \cap {"init", "old"} # {}
           F == v.failed \cup (dirs \cap {"init", "old", "new"})
           x == [v EXCEPT !.pending = {}, !.inflight = {}, !.failed = F, !.error = e]
<1>1. v \in Window /\ F \in SUBSET {"init", "old", "new"} /\ e \in BOOLEAN
  BY DEF Good, Window
<1>2. u \in {LoadInitial(x), x}
  BY Zenon DEF FailAll, dirs, e, F, x
<1>3. (e => F # {}) /\ ("init" \in F => e)
  BY DEF Told
<1> HIDE DEF F, e
<1>4. x \in Window
  BY <1>1 DEF Window
<1>5. x.pending = {} /\ x.inflight = {}
  BY <1>1 DEF Window
<1>6. x.next = v.next /\ v.next \in Nat
  BY <1>1 DEF Window
<1>7. x.failed = F /\ x.error = e
  BY <1>1 DEF Window
<1> HIDE DEF x
<1>8. Good(x) /\ Told(x) /\ Small(x)
  BY <1>3, <1>4, <1>5, <1>6, <1>7 DEF Good, Booked, Quiet, Told, Small
<1>9. Calm(x, LoadInitial(x)) /\ Small(LoadInitial(x))
  BY <1>8, LoadInitialCalm
<1> QED BY <1>2, <1>5, <1>6, <1>8, <1>9 DEF Calm

-----------------------------------------------------------------------------
(* The replies and the events again.                                        *)

\* As Calm, but rows of R may appear, and a catchup may have started.
Grows(v, u, R, b) ==
    /\ Sound(v, u)
    /\ \A p \in u.pending : p \in v.pending \/ v.next <= p.tok
    /\ Told(v) => Told(u)
    /\ u.rows \subseteq v.rows \cup R
    /\ u.busy => v.busy \/ b

LEMMA CalmGrows ==
    ASSUME NEW v, NEW u, NEW R, NEW b, Calm(v, u)
    PROVE  Grows(v, u, R, b)
BY DEF Calm, Grows

LEMMA GrowsChain ==
    ASSUME NEW v, NEW u, NEW x, NEW R, NEW b, Good(v), Calm(v, u), Grows(u, x, R, b)
    PROVE  Grows(v, x, R, b)
<1>1. Sound(v, u) /\ Sound(u, x) /\ Sound(v, x)
  BY SoundChain DEF Calm, Grows
<1>2. v.next \in Nat /\ u.next \in Nat /\ v.next <= u.next
  BY <1>1 DEF Sound, Good, Window
<1>3. \A p \in x.pending : p.tok \in Nat
  BY <1>1 DEF Sound, Good, Window, Request
<1>4. \A p \in x.pending : p \in v.pending \/ v.next <= p.tok
  BY <1>2, <1>3 DEF Calm, Grows
<1> QED BY <1>1, <1>4 DEF Calm, Grows

\* What is shown and the flags of the tail say nothing of failures.
Showing(v, u, P, R) ==
    /\ Grows(v, u, P, FALSE) /\ u.rows = R
    /\ u.inflight = v.inflight /\ u.failed = v.failed /\ u.pending = v.pending

LEMMA ShowGrows ==
    ASSUME NEW v, Good(v), NEW R \in SUBSET Ts, NEW P, R \subseteq v.rows \cup P
    PROVE  /\ Showing(v, [v EXCEPT !.rows = R], P, R)
           /\ [v EXCEPT !.rows = R].atTail = v.atTail
           /\ \A b \in BOOLEAN : Showing(v, [v EXCEPT !.rows = R, !.atTail = b], P, R)
<1>1. v \in Window
  BY DEF Good
<1>2. ASSUME NEW b \in BOOLEAN, NEW u,
             u \in {[v EXCEPT !.rows = R], [v EXCEPT !.rows = R, !.atTail = b]}
      PROVE  Showing(v, u, P, R)
  <2>1. Sound(v, u)
    <3>1. Sound(v, [v EXCEPT !.rows = R]) /\ Sound(v, [v EXCEPT !.rows = R, !.atTail = b])
      BY ShowSound
    <3> QED BY <1>2, <3>1
  <2>2. u.rows = R /\ u.busy = v.busy
    BY <1>1, <1>2 DEF Window
  <2>3. u.inflight = v.inflight /\ u.failed = v.failed
    BY <1>1, <1>2 DEF Window
  <2>4. u.pending = v.pending /\ u.error = v.error
    BY <1>1, <1>2 DEF Window
  <2> QED BY <2>1, <2>2, <2>3, <2>4 DEF Showing, Grows, Told
<1>3. [v EXCEPT !.rows = R].atTail = v.atTail
  BY <1>1 DEF Window
<1>4. TRUE \in BOOLEAN
  OBVIOUS
<1> QED BY <1>2, <1>3, <1>4

\* The reply to a request takes that request, and no other, off the books.
LEMMA SettleCalm ==
    ASSUME NEW v, Good(v), NEW tok, PendingAt(v, tok) # {}
    PROVE  LET u == Settle(v, tok)
           IN /\ Calm(v, u) /\ u.rows = v.rows /\ u.atTail = v.atTail
              /\ u.inflight = v.inflight \ {DirOf(v, tok)} /\ u.failed = v.failed
              /\ \A p \in u.pending : p.tok # tok
              /\ \E p \in v.pending : p.tok = tok /\ p.dir = DirOf(v, tok)
<1> DEFINE u == Settle(v, tok)
<1>1. PICK p \in v.pending : PendingAt(v, tok) = {p} /\ p.tok = tok
  BY DEF PendingAt, Good, Booked
<1>2. DirOf(v, tok) = p.dir
  BY <1>1 DEF DirOf
<1>3. Sound(v, u)
  BY SettleSound
<1>4. v \in Window
  BY DEF Good
<1>5. u.pending = v.pending \ PendingAt(v, tok) /\ u.inflight = v.inflight \ {DirOf(v, tok)}
  BY <1>4 DEF Window, Settle
<1>6. u.failed = v.failed /\ u.error = v.error /\ u.busy = v.busy
  BY <1>4 DEF Window, Settle
<1>7. u.rows = v.rows /\ u.atTail = v.atTail
  BY <1>4 DEF Window, Settle
<1> HIDE DEF u
<1>8. Calm(v, u)
  BY <1>3, <1>5, <1>6, <1>7 DEF Calm, Told
<1>9. \A q \in u.pending : q.tok # tok
  BY <1>5 DEF PendingAt
<1> QED BY <1>1, <1>2, <1>5, <1>6, <1>7, <1>8, <1>9 DEF u

LEMMA ApplyPageGrows ==
    ASSUME NEW v, Good(v), NEW d \in Dirs, NEW f \in Frame, f.k = "result",
           f.page = {} => f.anchor = 0
    PROVE  LET u == ApplyPage(v, d, f)
           IN /\ Grows(v, u, f.page, FALSE)
              /\ Small(v) => Small(u)
              /\ u.rows = {} =>
                    /\ v.rows = {}
                    /\ d = "init" => f.page = {} /\ u.atTail
                    /\ d \in {"old", "new", "catchup"} =>
                          (Waiting(v) => Waiting(u)) /\ (v.atTail => u.atTail)
                    /\ d = "goto" => Waiting(u)
<1> DEFINE u == ApplyPage(v, d, f)
           both == v.rows \cup f.page
           reached == v.atTail \/ (v.tailTs # 0 /\ both # {} /\ Newest(both) = v.tailTs)
           j == IF f.anchor # 0 /\ f.anchor \notin v.rows
                THEN [v EXCEPT !.rows = f.page, !.atTail = FALSE] ELSE v
           Shown(x, S) == Showing(v, x, f.page, S)
<1>1. /\ v.rows \in SUBSET Ts /\ f.page \in SUBSET Ts /\ both \in SUBSET Ts
      /\ v.atTail \in BOOLEAN /\ reached \in BOOLEAN
  BY FrameFields DEF Good, Window
<1>2. Calm(v, v) /\ Grows(v, v, f.page, FALSE)
  BY NothingCalm, CalmGrows
<1>3. /\ Shown([v EXCEPT !.rows = both], both) /\ [v EXCEPT !.rows = both].atTail = v.atTail
      /\ Shown([v EXCEPT !.rows = both, !.atTail = TRUE], both)
      /\ [v EXCEPT !.rows = both, !.atTail = TRUE].atTail
      /\ Shown([v EXCEPT !.rows = both, !.atTail = reached], both)
      /\ [v EXCEPT !.rows = both, !.atTail = reached].atTail = reached
  <2>1. both \subseteq v.rows \cup f.page
    OBVIOUS
  <2> HIDE DEF both, reached
  <2>2. both \in SUBSET Ts /\ reached \in BOOLEAN
    BY <1>1
  <2>3. Showing(v, [v EXCEPT !.rows = both], f.page, both)
    BY <2>1, <2>2, ShowGrows
  <2>4. [v EXCEPT !.rows = both].atTail = v.atTail
    BY <2>1, <2>2, ShowGrows
  <2>5. /\ Showing(v, [v EXCEPT !.rows = both, !.atTail = TRUE], f.page, both)
        /\ [v EXCEPT !.rows = both, !.atTail = TRUE].atTail
    BY <2>1, <2>2, ShowGrows DEF Good, Window
  <2>6. Showing(v, [v EXCEPT !.rows = both, !.atTail = reached], f.page, both)
    BY <2>1, <2>2, ShowGrows
  <2>7. [v EXCEPT !.rows = both, !.atTail = reached].atTail = reached
    BY <2>2 DEF Good, Window
  <2> QED BY <2>3, <2>4, <2>5, <2>6, <2>7
<1>4. Shown([v EXCEPT !.rows = f.page, !.atTail = FALSE], f.page)
  <2>1. f.page \subseteq v.rows \cup f.page
    OBVIOUS
  <2> QED BY <1>1, <2>1, ShowGrows
<1>5. CASE d = "init"
  <2>1. u = [v EXCEPT !.rows = both, !.atTail = TRUE]
    BY <1>5 DEF ApplyPage
  <2>2. Shown(u, both) /\ u.atTail
    BY <1>3, <2>1
  <2> HIDE DEF u
  <2> QED BY <1>5, <2>2 DEF Small, Showing, u
<1>6. CASE d \in {"old", "new", "catchup"}
  <2>1. u \in {[v EXCEPT !.rows = both], [v EXCEPT !.rows = both, !.atTail = reached], v}
    BY <1>6, Zenon DEF ApplyPage
  <2>2. u = v \/ (Shown(u, both) /\ (v.atTail => u.atTail))
    <3>1. reached = TRUE \/ ~v.atTail
      OBVIOUS
    <3> HIDE DEF reached
    <3> QED BY <1>1, <1>3, <2>1, <3>1
  <2> HIDE DEF u
  <2>3. CASE u = v
    BY <1>2, <1>6, <2>3 DEF u
  <2>4. CASE Shown(u, both) /\ (v.atTail => u.atTail)
    BY <1>6, <2>4 DEF Small, Waiting, Showing, u
  <2> QED BY <2>2, <2>3, <2>4
<1>7. CASE d = "goto"
  <2>1. u = IF j.rows = {} THEN LoadInitial(j) ELSE j
    BY <1>7, Zenon DEF ApplyPage
  <2>2. CASE f.anchor # 0 /\ f.anchor \notin v.rows
    <3>1. Shown(j, f.page) /\ f.page # {}
      BY <1>4, <2>2
    <3>2. u = j
      <4> HIDE DEF u, j
      <4> QED BY <2>1, <3>1 DEF Showing
    <3> HIDE DEF u, j
    <3> QED BY <1>7, <3>1, <3>2 DEF Small, Showing, u
  <2>3. CASE ~(f.anchor # 0 /\ f.anchor \notin v.rows)
    <3>1. u = IF v.rows = {} THEN LoadInitial(v) ELSE v
      BY <2>1, <2>3
    <3>2. /\ Calm(v, LoadInitial(v)) /\ LoadInitial(v).rows = v.rows
          /\ Waiting(LoadInitial(v)) /\ (Small(v) => Small(LoadInitial(v)))
      BY LoadInitialCalm
    <3>3. Grows(v, LoadInitial(v), f.page, FALSE)
      BY <3>2, CalmGrows
    <3> HIDE DEF u, j
    <3> QED BY <1>2, <1>7, <3>1, <3>2, <3>3 DEF u
  <2> QED BY <2>2, <2>3
<1> QED BY <1>5, <1>6, <1>7 DEF Dirs

\* How a window that is empty after a frame came to be so.
BlankBy(v, f, u) ==
    u.rows = {} =>
       /\ v.rows = {}
       /\ Waiting(v) =>
             \/ Waiting(u)
             \/ /\ u.atTail /\ f.k = "result" /\ f.page = {}
                /\ \E p \in v.pending : p.tok = f.tok /\ p.dir = "init"
       /\ v.atTail => u.atTail \/ Waiting(u)
       /\ f = CatchupDone(TRUE) /\ v.atTail => Waiting(u)
       /\ f.k = "New" /\ v.atTail => v.busy

\* What handling one frame comes to.
Handled(v, f, u) ==
    /\ Grows(v, u, Shows(f), f = CatchupStarted(TRUE))
    /\ Small(v) => Small(u)
    /\ BlankBy(v, f, u)
    /\ f.k \in {"result", "error"} => \A p \in u.pending : p.tok = f.tok => v.next <= p.tok
    /\ f.k = "Confirmed" => u.rows \subseteq (v.rows \ {f.ts}) \cup {f.newTs}
    /\ f = CatchupDone(TRUE) => ~u.busy

LEMMA Brackets ==
    /\ CatchupDone(TRUE).k = "CatchupDone" /\ CatchupDone(TRUE).mine
    /\ CatchupStarted(TRUE).k = "CatchupStarted" /\ CatchupStarted(TRUE).mine
    /\ \A f \in Frame : f.k = "CatchupStarted" /\ f.mine => f = CatchupStarted(TRUE)
    /\ \A f \in Frame : f.k = "CatchupStarted" => f.mine \in BOOLEAN
    /\ \A f \in Frame : f.k = "CatchupDone" /\ f.mine => f = CatchupDone(TRUE)
BY DEF CatchupDone, CatchupStarted, Frame

LEMMA HandleResultHandled ==
    ASSUME NEW v, Good(v), Small(v), NEW f \in Frame, f.k = "result",
           f.page = {} => f.anchor = 0
    PROVE  Handled(v, f, HandleResult(v, f))
<1>1. /\ Shows(f) = f.page /\ f # CatchupStarted(TRUE) /\ f # CatchupDone(TRUE)
  BY Brackets DEF Shows
<1>2. CASE PendingAt(v, f.tok) = {}
  <2>1. HandleResult(v, f) = v
    BY <1>2 DEF HandleResult
  <2>2. Grows(v, v, Shows(f), FALSE)
    BY NothingCalm, CalmGrows
  <2> QED BY <1>1, <1>2, <2>1, <2>2 DEF Handled, BlankBy, PendingAt, Grows
<1>3. CASE PendingAt(v, f.tok) # {}
  <2> DEFINE d == DirOf(v, f.tok)
             s == Settle(v, f.tok)
             c == ClearFailure(s, {d})
             u == ApplyPage(c, d, f)
  <2>1. HandleResult(v, f) = u
    BY <1>3 DEF HandleResult
  <2>2. /\ Calm(v, s) /\ s.rows = v.rows /\ s.atTail = v.atTail
        /\ s.inflight = v.inflight \ {d} /\ s.failed = v.failed
        /\ \A p \in s.pending : p.tok # f.tok
        /\ \E p \in v.pending : p.tok = f.tok /\ p.dir = d
    BY <1>3, SettleCalm
  <2>3. d \in Dirs
    BY <1>3, SettleSound
  <2> HIDE DEF s, d
  <2>4. Good(s)
    BY <2>2 DEF Calm, Sound
  <2>5. /\ Calm(s, c) /\ c.atTail = s.atTail /\ c.rows = s.rows /\ c.failed = s.failed \ {d}
        /\ c.inflight = s.inflight /\ c.pending = s.pending
    BY <2>4, ClearFailureCalm, ClearFailureSound
  <2> HIDE DEF c
  <2>6. Good(c) /\ Small(c)
    BY <2>2, <2>5 DEF Calm, Sound, Small
  <2>7. /\ Grows(c, u, f.page, FALSE) /\ Small(u)
        /\ u.rows = {} =>
              /\ c.rows = {}
              /\ d = "init" => f.page = {} /\ u.atTail
              /\ d \in {"old", "new", "catchup"} =>
                    (Waiting(c) => Waiting(u)) /\ (c.atTail => u.atTail)
              /\ d = "goto" => Waiting(u)
    BY <2>3, <2>6, ApplyPageGrows
  <2> HIDE DEF u
  <2>8. Calm(v, c)
    BY <2>2, <2>5, CalmChain
  <2>9. Grows(v, u, f.page, FALSE)
    BY <2>7, <2>8, GrowsChain
  <2>10. \A p \in u.pending : p.tok = f.tok => v.next <= p.tok
    <3>1. \A p \in u.pending : p.tok = f.tok => c.next <= p.tok
      BY <2>2, <2>5, <2>7 DEF Grows
    <3>2. v.next <= c.next /\ v.next \in Nat /\ c.next \in Nat
      BY <2>6, <2>8 DEF Calm, Sound, Good, Window
    <3>3. \A p \in u.pending : p.tok \in Nat
      BY <2>9 DEF Grows, Sound, Good, Window, Request
    <3> QED BY <3>1, <3>2, <3>3
  <2>11. d \notin {"init", "goto"} /\ Waiting(v) => Waiting(c)
    BY <2>2, <2>5 DEF Waiting
  <2>12. BlankBy(v, f, u)
    <3>1. u.rows = {} => v.rows = {}
      BY <2>2, <2>5, <2>7
    <3>2. CASE d = "init"
      BY <1>1, <2>2, <2>7, <3>1, <3>2 DEF BlankBy
    <3>3. CASE d = "goto"
      BY <1>1, <2>7, <3>1, <3>3 DEF BlankBy
    <3>4. CASE d \in {"old", "new", "catchup"}
      BY <1>1, <2>2, <2>5, <2>7, <2>11, <3>1, <3>4 DEF BlankBy
    <3> QED BY <2>3, <3>2, <3>3, <3>4 DEF Dirs
  <2> QED BY <1>1, <2>1, <2>7, <2>9, <2>10, <2>12 DEF Handled, Grows
<1> QED BY <1>2, <1>3

LEMMA HandleErrorHandled ==
    ASSUME NEW v, Good(v), Small(v), NEW f \in Frame, f.k = "error"
    PROVE  Handled(v, f, HandleError(v, f))
<1>1. /\ Shows(f) = {} /\ f # CatchupStarted(TRUE) /\ f # CatchupDone(TRUE)
  BY Brackets DEF Shows
<1>2. CASE PendingAt(v, f.tok) = {}
  <2>1. HandleError(v, f) = v
    BY <1>2 DEF HandleError
  <2>2. Grows(v, v, Shows(f), FALSE)
    BY NothingCalm, CalmGrows
  <2> QED BY <1>1, <1>2, <2>1, <2>2 DEF Handled, BlankBy, PendingAt, Grows
<1>3. CASE PendingAt(v, f.tok) # {}
  <2> DEFINE d == DirOf(v, f.tok)
             s == Settle(v, f.tok)
             u == HandleError(v, f)
  <2>1. /\ Calm(v, s) /\ s.rows = v.rows /\ s.atTail = v.atTail
        /\ s.inflight = v.inflight \ {d} /\ s.failed = v.failed
        /\ \A p \in s.pending : p.tok # f.tok
    BY <1>3, SettleCalm
  <2>2. d \in Dirs /\ Sound(v, u)
    BY <1>3, SettleSound, HandleErrorSound
  <2>3. u = CASE d = "goto" -> IF s.rows = {} THEN LoadInitial(s) ELSE s
              [] d = "catchup" -> s
              [] d \in {"init", "old"} -> [s EXCEPT !.failed = @ \cup {d}, !.error = TRUE]
              [] d = "new" -> [s EXCEPT !.failed = @ \cup {d}]
    BY <1>3 DEF HandleError
  <2> HIDE DEF d, s, u
  <2>4. Good(s) /\ Small(s) /\ s \in Window
    BY <2>1 DEF Calm, Sound, Small, Good
  <2>5. ASSUME Calm(s, u), Small(u), u.atTail = s.atTail,
               u.rows = {} => v.rows = {} /\ (Waiting(v) => Waiting(u))
        PROVE  Handled(v, f, u)
    <3>1. Calm(v, u)
      BY <2>1, <2>5, CalmChain
    <3>2. Grows(v, u, {}, FALSE)
      BY <3>1, CalmGrows
    <3>3. \A p \in u.pending : p.tok = f.tok => v.next <= p.tok
      <4>1. \A p \in u.pending : p.tok = f.tok => s.next <= p.tok
        BY <2>1, <2>5 DEF Calm
      <4>2. v.next <= s.next /\ v.next \in Nat /\ s.next \in Nat
        BY <2>1 DEF Calm, Sound, Good, Window
      <4>3. \A p \in u.pending : p.tok \in Nat
        BY <3>1 DEF Calm, Sound, Good, Window, Request
      <4> QED BY <4>1, <4>2, <4>3
    <3>4. BlankBy(v, f, u)
      BY <1>1, <2>1, <2>5 DEF BlankBy
    <3> QED BY <1>1, <2>5, <3>2, <3>3, <3>4 DEF Handled, Grows
  <2>6. CASE d = "goto"
    <3>1. u = IF s.rows = {} THEN LoadInitial(s) ELSE s
      BY <2>3, <2>6
    <3>2. /\ Calm(s, LoadInitial(s)) /\ LoadInitial(s).rows = s.rows
          /\ LoadInitial(s).atTail = s.atTail
          /\ Waiting(LoadInitial(s)) /\ Small(LoadInitial(s)) /\ Calm(s, s)
      BY <2>4, LoadInitialCalm, NothingCalm
    <3> QED BY <2>1, <2>4, <2>5, <3>1, <3>2 DEF u
  <2>7. CASE d = "catchup"
    <3>1. u = s /\ Calm(s, s)
      BY <2>3, <2>4, <2>7, NothingCalm
    <3>2. Waiting(v) => Waiting(s)
      BY <2>1, <2>7 DEF Waiting
    <3> QED BY <2>1, <2>4, <2>5, <3>1, <3>2 DEF u
  <2>8. CASE d \in {"init", "old", "new"}
    <3>1. u = [s EXCEPT !.failed = @ \cup {d}, !.error = d # "new" \/ s.error]
      <4>1. CASE d = "new"
        <5>1. u = [s EXCEPT !.failed = @ \cup {d}]
          BY <2>3, <4>1
        <5>2. @ = [s EXCEPT !.failed = @ \cup {d}, !.error = s.error]
          BY <2>4 DEF Window
        <5>3. (d # "new" \/ s.error) = s.error
          BY <2>4, <4>1 DEF Window
        <5> QED BY <5>1, <5>2, <5>3
      <4>2. CASE d \in {"init", "old"}
        <5>1. u = [s EXCEPT !.failed = @ \cup {d}, !.error = TRUE]
          BY <2>3, <4>2
        <5>2. (d # "new" \/ s.error) = TRUE
          BY <4>2
        <5> QED BY <5>1, <5>2
      <4> QED BY <2>8, <4>1, <4>2
    <3>2. u.failed = s.failed \cup {d} /\ (u.error <=> d # "new" \/ s.error)
      BY <2>4, <3>1 DEF Window
    <3>3. u.rows = s.rows /\ u.atTail = s.atTail /\ u.busy = s.busy
      BY <2>4, <3>1 DEF Window
    <3>4. u.pending = s.pending /\ u.inflight = s.inflight /\ u.next = s.next
      BY <2>4, <3>1 DEF Window
    <3>5. s.next \in Nat /\ Good(u)
      BY <2>2, <2>4 DEF Sound, Window
    <3>6. Told(s) => Told(u)
      BY <2>8, <3>2 DEF Told
    <3>7. Calm(s, u)
      BY <3>3, <3>4, <3>5, <3>6 DEF Calm, Sound
    <3>8. Small(u)
      BY <2>4, <3>3, <3>4 DEF Small
    <3>9. Waiting(v) => Waiting(u)
      BY <2>1, <2>8, <3>2, <3>4 DEF Waiting
    <3> QED BY <2>1, <2>5, <3>3, <3>7, <3>8, <3>9 DEF u
  <2> QED BY <2>2, <2>6, <2>7, <2>8 DEF Dirs, u
<1> QED BY <1>2, <1>3

LEMMA HandleEventHandled ==
    ASSUME NEW v, Good(v), Small(v), NEW f \in Frame, f.k \notin {"result", "error"}
    PROVE  Handled(v, f, HandleEvent(v, f))
<1> DEFINE u == HandleEvent(v, f)
<1>1. /\ v \in Window /\ v.rows \in SUBSET Ts /\ v.atTail \in BOOLEAN
  BY DEF Good, Window
<1>2. Calm(v, v) /\ Fair(v, v)
  BY NothingCalm DEF Fair
<1>3. ASSUME NEW x, Fair(v, x), x.rows = v.rows, f.k \in {"State", "CatchupDone"}, x.rows = {} => Waiting(x) \/ x = v,
             f = CatchupDone(TRUE) => ~x.busy /\ (x.rows = {} /\ v.atTail => Waiting(x))
      PROVE  Handled(v, f, x)
  <2>1. Grows(v, x, Shows(f), f = CatchupStarted(TRUE))
    BY <1>3, CalmGrows DEF Fair
  <2>2. BlankBy(v, f, x)
    BY <1>3 DEF BlankBy, Fair, Calm
  <2> QED BY <1>3, <2>1, <2>2 DEF Handled, Fair
<1>4. ASSUME NEW x, Grows(v, x, Shows(f), f = CatchupStarted(TRUE)), x.rows # {},
             f.k = "Confirmed" => x.rows \subseteq (v.rows \ {f.ts}) \cup {f.newTs},
             f # CatchupDone(TRUE)
      PROVE  Handled(v, f, x)
  BY <1>4 DEF Handled, BlankBy, Small
<1>5. CASE f.k = "State"
  <2>1. u \in {Retry(v), v} /\ f # CatchupDone(TRUE)
    BY <1>5, Brackets DEF HandleEvent
  <2>2. Fair(v, Retry(v)) /\ Retry(v).rows = v.rows
    BY RetryFair
  <2> HIDE DEF u
  <2>3. Fair(v, u) /\ u.rows = v.rows
    BY <1>2, <2>1, <2>2
  <2>4. u.rows = {} => Waiting(u) \/ u = v
    BY <2>3 DEF Fair
  <2> QED BY <1>3, <1>5, <2>1, <2>3, <2>4 DEF u
<1>6. CASE f.k = "CatchupStarted"
  <2>1. CASE ~f.mine
    <3>1. u = v
      BY <1>6, <2>1 DEF HandleEvent
    <3>2. Grows(v, v, Shows(f), f = CatchupStarted(TRUE))
      BY <1>2, CalmGrows
    <3> HIDE DEF u
    <3> QED BY <1>6, <3>1, <3>2, Brackets DEF Handled, BlankBy, u
  <2>2. CASE f.mine
    <3>1. u = [v EXCEPT !.busy = TRUE] /\ f = CatchupStarted(TRUE)
      BY <1>6, <2>2, Brackets DEF HandleEvent
    <3>2. Sound(v, u)
      BY <3>1, ShowSound
    <3>3. u.rows = v.rows /\ u.atTail = v.atTail /\ u.pending = v.pending
      BY <1>1, <3>1 DEF Window
    <3>4. u.inflight = v.inflight /\ u.failed = v.failed /\ u.error = v.error
      BY <1>1, <3>1 DEF Window
    <3> HIDE DEF u
    <3>5. Grows(v, u, Shows(f), f = CatchupStarted(TRUE))
      BY <3>1, <3>2, <3>3, <3>4 DEF Grows, Told
    <3>6. BlankBy(v, f, u)
      BY <1>6, <3>3, <3>4, Brackets DEF BlankBy, Waiting
    <3> QED BY <1>6, <3>3, <3>4, <3>5, <3>6, Brackets DEF Handled, Small, u
  <2> QED BY <2>1, <2>2
<1>7. CASE f.k = "CatchupDone"
  <2>1. CASE ~f.mine
    <3>1. u = v /\ f # CatchupDone(TRUE)
      BY <1>7, <2>1, Brackets DEF HandleEvent
    <3> HIDE DEF u
    <3> QED BY <1>2, <1>3, <1>7, <3>1 DEF u
  <2>2. CASE f.mine
    <3> DEFINE b == [v EXCEPT !.busy = FALSE]
    <3>1. u = ReconcileCatchup(b) /\ f = CatchupDone(TRUE)
      BY <1>7, <2>2, Brackets DEF HandleEvent
    <3>2. Sound(v, b)
      BY ShowSound
    <3>3. b.rows = v.rows /\ b.atTail = v.atTail /\ b.pending = v.pending
      BY <1>1 DEF Window
    <3>4. b.inflight = v.inflight /\ b.failed = v.failed /\ b.error = v.error
      BY <1>1 DEF Window
    <3>5. b.busy = FALSE
      BY <1>1 DEF Window
    <3> HIDE DEF u, b
    <3>6. Calm(v, b) /\ Good(b) /\ Small(b)
      BY <3>2, <3>3, <3>4, <3>5 DEF Calm, Told, Sound, Small
    <3>7. /\ Fair(b, u) /\ (b.rows = {} /\ b.atTail => Waiting(u))
          /\ u.rows = b.rows
      BY <3>1, <3>6, ReconcileCatchupFair
    <3>8. Calm(v, u)
      BY <3>6, <3>7, CalmChain DEF Fair
    <3>9. ~u.busy
      BY <3>5, <3>7 DEF Fair, Calm
    <3>10. u.rows = {} => v.rows = {} /\ (v.atTail => Waiting(u)) /\ (Waiting(v) => Waiting(u))
      BY <3>3, <3>4, <3>7 DEF Fair, Waiting
    <3>11. Grows(v, u, Shows(f), f = CatchupStarted(TRUE))
      BY <3>8, CalmGrows
    <3>12. BlankBy(v, f, u)
      BY <1>7, <3>10 DEF BlankBy
    <3>13. Small(u)
      BY <3>6, <3>7 DEF Fair
    <3> QED BY <1>7, <3>9, <3>11, <3>12, <3>13, Zenon DEF Handled, u
  <2> QED BY <2>1, <2>2
<1>8. CASE f.k = "New"
  <2>1. f.ts \in Ts /\ Shows(f) = {f.ts} /\ f # CatchupDone(TRUE) /\ f # CatchupStarted(TRUE)
    BY <1>8, FrameFields, Brackets DEF Shows
  <2>2. CASE ~v.atTail \/ v.busy
    <3>1. u = v
      BY <1>8, <2>2 DEF HandleEvent
    <3>2. Grows(v, v, Shows(f), f = CatchupStarted(TRUE))
      BY <1>2, CalmGrows
    <3> HIDE DEF u
    <3> QED BY <1>8, <2>1, <2>2, <3>1, <3>2 DEF Handled, BlankBy, u
  <2>3. CASE ~(~v.atTail \/ v.busy)
    <3> DEFINE new == v.rows \cup {f.ts}
    <3>1. u = [v EXCEPT !.rows = new]
      BY <1>8, <2>3 DEF HandleEvent
    <3>2. new \in SUBSET Ts /\ new \subseteq v.rows \cup {f.ts} /\ new # {}
      BY <1>1, <2>1
    <3> HIDE DEF new, u
    <3>3. Showing(v, u, {f.ts}, new)
      BY <3>1, <3>2, ShowGrows
    <3> QED BY <1>4, <1>8, <2>1, <3>2, <3>3 DEF Showing, Grows, u
  <2> QED BY <2>2, <2>3
<1>9. CASE f.k = "Edited"
  <2>1. Shows(f) = {} /\ f # CatchupDone(TRUE) /\ f # CatchupStarted(TRUE)
    BY <1>9, Brackets DEF Shows
  <2>2. u = v
    <3>1. f.ts \in v.rows => [v EXCEPT !.rows = @ \cup {f.ts}] = v
      <4>1. f.ts \in v.rows => v.rows \cup {f.ts} = v.rows
        OBVIOUS
      <4> QED BY <1>1, <4>1 DEF Window
    <3> QED BY <1>9, <3>1 DEF HandleEvent, ApplyEdited
  <2>3. Grows(v, v, Shows(f), f = CatchupStarted(TRUE))
    BY <1>2, CalmGrows
  <2> HIDE DEF u
  <2> QED BY <1>9, <2>1, <2>2, <2>3 DEF Handled, BlankBy, u
<1>10. CASE f.k = "Confirmed"
  <2>1. /\ f.newTs \in Ts /\ Shows(f) = {f.newTs}
        /\ f # CatchupDone(TRUE) /\ f # CatchupStarted(TRUE)
    BY <1>10, FrameFields, Brackets DEF Shows
  <2>2. CASE f.ts \notin v.rows
    <3>1. u = v
      BY <1>10, <2>2 DEF HandleEvent, ApplyConfirmed
    <3>2. Grows(v, v, Shows(f), f = CatchupStarted(TRUE))
      BY <1>2, CalmGrows
    <3> HIDE DEF u
    <3> QED BY <1>10, <2>1, <2>2, <3>1, <3>2 DEF Handled, BlankBy, u
  <2>3. CASE f.ts \in v.rows
    <3> DEFINE new == (v.rows \ {f.ts}) \cup {f.newTs}
    <3>1. u = [v EXCEPT !.rows = new]
      BY <1>10, <2>3 DEF HandleEvent, ApplyConfirmed
    <3>2. new \in SUBSET Ts /\ new \subseteq v.rows \cup {f.newTs} /\ new # {}
      BY <1>1, <2>1
    <3>3. new \subseteq (v.rows \ {f.ts}) \cup {f.newTs}
      OBVIOUS
    <3> HIDE DEF new, u
    <3>4. Showing(v, u, {f.newTs}, new)
      BY <3>1, <3>2, ShowGrows
    <3> QED BY <1>4, <1>10, <2>1, <3>2, <3>3, <3>4 DEF Showing, Grows, u
  <2> QED BY <2>2, <2>3
<1>11. CASE f.k = "Tail"
  <2> DEFINE reached == v.atTail \/ (v.rows # {} /\ Newest(v.rows) = f.ts)
  <2>1. u = [v EXCEPT !.tailTs = f.ts, !.atTail = reached]
    BY <1>11, Zenon DEF HandleEvent
  <2>2. reached \in BOOLEAN /\ f.ts \in Ts \cup {0} /\ (v.atTail => reached)
    BY <1>1, <1>11, FrameFields
  <2>3. f # CatchupDone(TRUE) /\ f # CatchupStarted(TRUE)
    BY <1>11, Brackets
  <2> HIDE DEF reached
  <2>4. Sound(v, [v EXCEPT !.tailTs = f.ts, !.atTail = reached])
    BY <2>2, ShowSound
  <2>5. u.rows = v.rows /\ u.atTail = reached /\ u.pending = v.pending
    BY <1>1, <2>1 DEF Window
  <2>6. u.inflight = v.inflight /\ u.failed = v.failed
    BY <1>1, <2>1 DEF Window
  <2>7. u.error = v.error /\ u.busy = v.busy
    BY <1>1, <2>1 DEF Window
  <2> HIDE DEF u
  <2>8. Grows(v, u, Shows(f), f = CatchupStarted(TRUE))
    BY <2>1, <2>4, <2>5, <2>6, <2>7 DEF Grows, Told
  <2>9. BlankBy(v, f, u)
    BY <1>11, <2>2, <2>3, <2>5, <2>6 DEF BlankBy, Waiting
  <2> QED BY <1>11, <2>3, <2>5, <2>6, <2>8, <2>9 DEF Handled, Small, u
<1> QED BY <1>5, <1>6, <1>7, <1>8, <1>9, <1>10, <1>11, FrameFields

LEMMA HandleHandled ==
    ASSUME NEW v, Good(v), Small(v), NEW f \in Frame,
           f.k = "result" /\ f.page = {} => f.anchor = 0
    PROVE  Handled(v, f, Handle(v, f))
BY HandleResultHandled, HandleErrorHandled, HandleEventHandled DEF Handle

-----------------------------------------------------------------------------
(* The window's steps.                                                      *)

\* On a lost link only the errors of what the window asked are on the wire.
LEMMA DownFeed ==
    ASSUME ~linkUp', asked' = {}, Told(w'), Small(w'), missed' # {} => Coming',
           \A i \in 1..Len(wire') : wire'[i].k = "error" /\ wire'[i].tok < w'.next,
           \A p \in w'.pending : Behind(wire', 0, Replies(p.tok))
    PROVE  FeedInv'
<1>1. \A i \in 1..Len(wire') : wire'[i].k = "error" /\ Shows(wire'[i]) = {}
                               /\ wire'[i] # CatchupStarted(TRUE)
  BY DEF Shows, CatchupStarted
<1>2. LinkOK' /\ RowsVouched'
  BY <1>1 DEF LinkOK, RowsVouched
<1>3. Replied' /\ TokensOK'
  BY DEF Replied, TokensOK
<1>4. CatchupsEnd' /\ EmptyPages' /\ BlankWaits'
  BY <1>1 DEF CatchupsEnd, EmptyPages, BlankWaits
<1> QED BY <1>2, <1>3, <1>4 DEF FeedInv

\* On a link that is up the window moves to v and n frames have been served.
LEMMA UpFeed ==
    ASSUME Inv, FeedInv, linkUp, UNCHANGED <<backendVars, linkUp>>,
           NEW v, NEW Q \in Seq(Frame), NEW n \in {0, 1},
           w' = v, wire' = Q, Sound(w, v), Told(v), Small(v),
           asked' = asked \cup {p \in v.pending : p.tok >= w.next},
           \A p \in v.pending : p \in w.pending \/ w.next <= p.tok,
           \A i \in 1..Len(Q) : i + n \in 1..Len(wire) /\ Q[i] = wire[i + n],
           \A S : \A i \in Nat : Behind(wire, i + n, S) => Behind(Q, i, S),
           \A t \in v.rows : t \in Truth \/ Behind(Q, 0, Moves(t)),
           \A p \in w.pending \cap v.pending : p \in asked \/ Behind(Q, 0, Replies(p.tok)),
           v.busy => Coming \/ Behind(Q, 0, Ended),
           v.rows = {} => \/ Waiting(v)
                          \/ v.atTail /\ (store = {} \/ Coming \/ Behind(Q, 0, Ended \cup Arrivals))
    PROVE  FeedInv'
<1>1. /\ w.next \in Nat /\ v.next \in Nat /\ w.next <= v.next /\ Good(v)
      /\ \A p \in w.pending : p.tok \in Nat /\ p.tok < w.next
      /\ \A p \in v.pending : p.tok \in Nat /\ p.tok < v.next
      /\ \A p, q \in v.pending : p.tok = q.tok => p = q
      /\ asked \subseteq Request
  BY InvIsGood DEF Sound, Good, Booked, Window, Request, TypeOK
<1>2. Truth' = Truth /\ Coming' = Coming /\ store' = store /\ missed' = missed /\ linkUp'
  BY DEF backendVars, Truth, Coming
<1>3. LinkOK'
  BY <1>2 DEF LinkOK
<1>4. ASSUME NEW i \in 1..Len(Q)
      PROVE  i + n \in 1..Len(wire) /\ Q[i] = wire[i + n] /\ i \in Nat
  OBVIOUS
<1>5. RowsVouched'
  <2>1. ASSUME NEW i \in 1..Len(Q), NEW t \in Shows(Q[i])
        PROVE  t \in Truth \/ Behind(Q, i, Moves(t))
    <3>1. t \in Truth \/ Behind(wire, i + n, Moves(t))
      BY <1>4 DEF FeedInv, RowsVouched
    <3> QED BY <1>4, <3>1
  <2>2. \A t : Moves(t)' = Moves(t)
    BY DEF Moves
  <2> QED BY <1>2, <2>1, <2>2 DEF RowsVouched
<1>6. Replied'
  <2>1. ASSUME NEW p \in v.pending  PROVE p \in asked' \/ Behind(Q, 0, Replies(p.tok))
    BY <1>1
  <2> QED BY <2>1 DEF Replied
<1>7. TokensOK'
  <2>1. ASSUME NEW p \in asked'
        PROVE  p.tok < v.next /\ \A q \in v.pending : p.tok = q.tok => p = q
    <3>1. CASE p \in asked
      <4>1. p.tok < w.next /\ p.tok \in Nat /\ \A q \in w.pending : p.tok = q.tok => p = q
        BY <1>1, <3>1 DEF FeedInv, TokensOK, Request
      <4>2. \A q \in v.pending : p.tok = q.tok => q \in w.pending
        BY <1>1, <4>1
      <4> QED BY <1>1, <4>1, <4>2
    <3>2. CASE p \in v.pending
      BY <1>1, <3>2
    <3> QED BY <3>1, <3>2
  <2>2. ASSUME NEW i \in 1..Len(Q), Q[i].k \in {"result", "error"}  PROVE Q[i].tok < v.next
    <3>1. Q[i].tok < w.next
      BY <1>4, <2>2 DEF FeedInv, TokensOK
    <3>2. Q[i] \in Frame
      BY ElementOfSeq
    <3>3. Q[i].tok \in Nat
      BY <2>2, <3>2 DEF Frame
    <3> QED BY <1>1, <3>1, <3>3
  <2> QED BY <2>1, <2>2 DEF TokensOK
<1>8. CatchupsEnd'
  <2>1. missed # {} => Coming
    BY DEF FeedInv, CatchupsEnd
  <2>2. ASSUME NEW i \in 1..Len(Q), Q[i] = CatchupStarted(TRUE)
        PROVE  Coming \/ Behind(Q, i, Ended)
    <3>1. Coming \/ Behind(wire, i + n, Ended)
      BY <1>4, <2>2 DEF FeedInv, CatchupsEnd
    <3> QED BY <1>4, <3>1
  <2>3. Ended' = Ended /\ CatchupStarted(TRUE)' = CatchupStarted(TRUE)
    BY DEF Ended, CatchupDone, CatchupStarted
  <2> QED BY <1>2, <2>1, <2>2, <2>3 DEF CatchupsEnd
<1>9. EmptyPages'
  <2>1. ASSUME NEW i \in 1..Len(Q), Q[i].k = "result", Q[i].page = {}
        PROVE  /\ Q[i].anchor = 0
               /\ (\E p \in v.pending : p.dir = "init" /\ p.tok = Q[i].tok) =>
                     store = {} \/ Coming \/ Behind(Q, i, Ended \cup Arrivals)
    <3>1. /\ Q[i].anchor = 0 /\ Q[i].tok < w.next
          /\ (\E p \in w.pending : p.dir = "init" /\ p.tok = Q[i].tok) => Unsettled(i + n)
      BY <1>4, <2>1 DEF FeedInv, EmptyPages, TokensOK
    <3>2. ASSUME NEW p \in v.pending, p.dir = "init", p.tok = Q[i].tok
          PROVE  store = {} \/ Coming \/ Behind(Q, i, Ended \cup Arrivals)
      <4>1. p \in w.pending
        BY <1>1, <3>1, <3>2
      <4>2. Unsettled(i + n)
        BY <3>1, <3>2, <4>1
      <4> QED BY <1>4, <4>2 DEF Unsettled
    <3> QED BY <3>1, <3>2
  <2> QED BY <1>2, <2>1 DEF EmptyPages, Unsettled, Ended, Arrivals, CatchupDone
<1>10. BlankWaits'
  BY <1>2 DEF BlankWaits, Unsettled, Ended, Arrivals, CatchupDone
<1> QED BY <1>3, <1>5, <1>6, <1>7, <1>8, <1>9, <1>10 DEF FeedInv

\* What the window asks on a lost link comes back as an error.
LEMMA DownStep ==
    ASSUME Inv, FeedInv, ~linkUp, UNCHANGED <<backendVars, linkUp>>,
           NEW v, NEW Q \in Seq(Frame), Become(v, Q), Sound(w, v), Told(v), Small(v),
           \A p \in v.pending : p \in w.pending \/ w.next <= p.tok,
           \A i \in 1..Len(Q) : Q[i].k = "error" /\ Q[i].tok < w.next,
           \A p \in w.pending \cap v.pending : Behind(Q, 0, Replies(p.tok))
    PROVE  FeedInv'
<1> DEFINE E == [i \in 1..(v.next - w.next) |-> Error(w.next + i - 1)]
<1>1. /\ w.next \in Nat /\ v.next \in Nat /\ w.next <= v.next
      /\ \A p \in v.pending : p.tok \in Nat /\ p.tok < v.next
  BY InvIsGood DEF Sound, Good, Booked, Window, Request, TypeOK
<1>2. w' = v /\ wire' = Q \o E /\ asked' = {} /\ ~linkUp'
  BY DEF Become, FeedInv, LinkOK
<1>3. /\ E \in Seq(Frame)
      /\ \A i \in 1..Len(E) : E[i].k = "error" /\ E[i].tok < v.next
      /\ \A t \in Nat : w.next <= t /\ t < v.next => Behind(E, 0, Replies(t))
  BY <1>1, BehindErrors
<1> HIDE DEF E
<1>4. \A i \in 1..Len(Q) : Q[i].k = "error" /\ Q[i].tok < v.next
  <2>1. \A i \in 1..Len(Q) : Q[i] \in Frame
    BY ElementOfSeq
  <2>2. \A i \in 1..Len(Q) : Q[i].tok \in Nat
    BY <2>1 DEF Frame
  <2> QED BY <1>1, <2>2
<1>5. \A i \in 1..Len(Q \o E) : (Q \o E)[i].k = "error" /\ (Q \o E)[i].tok < v.next
  <2>1. /\ \A i \in 1..Len(Q) : (Q \o E)[i] = Q[i]
        /\ \A i \in 1..Len(Q \o E) : i \notin 1..Len(Q) =>
              i - Len(Q) \in 1..Len(E) /\ (Q \o E)[i] = E[i - Len(Q)]
    BY <1>3, BehindConcat
  <2> QED BY <1>3, <1>4, <2>1
<1>6. ASSUME NEW p \in v.pending  PROVE Behind(Q \o E, 0, Replies(p.tok))
  <2>1. CASE p \in w.pending
    BY <1>3, <2>1, BehindConcat
  <2>2. CASE w.next <= p.tok
    <3>1. Behind(E, 0, Replies(p.tok)) /\ 0 \in 0..Len(Q)
      BY <1>1, <1>3, <2>2, LenProperties
    <3> QED BY <1>3, <3>1, BehindConcat
  <2> QED BY <2>1, <2>2
<1>7. missed' # {} => Coming'
  BY DEF FeedInv, CatchupsEnd, Coming, backendVars
<1> QED BY <1>2, <1>5, <1>6, <1>7, DownFeed

\* Everything the user does is fair: the view culls, but never to nothing.
LEMMA UserFair ==
    ASSUME Inv, User
    PROVE  \E v : Use(v) /\ Fair(w, v)
<1>1. TypeOK /\ Good(w)
  BY InvIsGood
<1>2. CASE PageOlder \/ PageNewer
  BY <1>1, <1>2, PagesFair DEF PageOlder, PageNewer
<1>3. CASE AskAgain
  BY <1>1, <1>3, RetryFair DEF AskAgain
<1>4. CASE ToBottom
  BY <1>1, <1>4, JumpsFair DEF ToBottom
<1>5. ASSUME NEW t \in Ts \cup {0}, Goto(t)  PROVE \E v : Use(v) /\ Fair(w, v)
  BY <1>1, <1>5, JumpsFair DEF Goto
<1>6. ASSUME NEW m \in w.rows, DropOld(m) \/ DropNew(m)
      PROVE  \E v : Use(v) /\ Fair(w, v)
  <2>1. w.rows \in SUBSET Nat /\ w.rows \in SUBSET (0..MaxTs) /\ MaxTs \in Nat /\ w.rows # {}
    BY <1>1, <1>6, ChatWindowAssumption DEF Good, Window, Ts, ChatWindowAssumption
  <2>2. Newest(w.rows) \in w.rows /\ Oldest(w.rows) \in w.rows
    BY <2>1, MinExists, MaxExists DEF Newest, Oldest
  <2>3. CASE DropOld(m)
    <3> DEFINE gone == {r \in w.rows : r <= m}
    <3>1. Newest(w.rows) \notin gone
      BY <1>6, <2>1, <2>2, <2>3 DEF DropOld
    <3>2. w.rows \ gone # {}
      BY <2>2, <3>1
    <3>3. Use(CullOld(w, gone))
      BY <2>3 DEF DropOld
    <3> QED BY <1>1, <3>2, <3>3, CullFair
  <2>4. CASE DropNew(m)
    <3> DEFINE gone == {r \in w.rows : r >= m}
    <3>1. Oldest(w.rows) \notin gone
      BY <1>6, <2>1, <2>2, <2>4 DEF DropNew
    <3>2. w.rows \ gone # {}
      BY <2>2, <3>1
    <3>3. Use(CullNew(w, gone))
      BY <2>4 DEF DropNew
    <3> QED BY <1>1, <3>2, <3>3, CullFair
  <2> QED BY <1>6, <2>3, <2>4
<1> QED BY <1>2, <1>3, <1>4, <1>5, <1>6 DEF User

LEMMA UserFeed == Inv /\ FeedInv /\ User => FeedInv'
<1> SUFFICES ASSUME Inv, FeedInv, User  PROVE FeedInv'
  OBVIOUS
<1>1. PICK v : Use(v) /\ Fair(w, v)
  BY UserFair
<1>2. TypeOK /\ Good(w) /\ wire \in Seq(Frame) /\ Told(w) /\ Small(w)
  BY InvIsGood DEF TypeOK, FeedInv
<1>3. /\ Sound(w, v) /\ Told(v) /\ Small(v)
      /\ \A p \in v.pending : p \in w.pending \/ w.next <= p.tok
      /\ v.rows \subseteq w.rows /\ (v.busy => w.busy)
  BY <1>1, <1>2 DEF Fair, Calm
<1>4. Become(v, wire) /\ v # w /\ UNCHANGED <<backendVars, linkUp>>
  BY <1>1 DEF Use
<1>5. v.rows = {} => Waiting(v)
  BY <1>1, <1>4 DEF Fair
<1>6. CASE linkUp
  <2>1. w' = v /\ wire' = wire /\ asked' = asked \cup {p \in v.pending : p.tok >= w.next}
    BY <1>4, <1>6 DEF Become
  <2>2. /\ \A i \in 1..Len(wire) : i + 0 \in 1..Len(wire) /\ wire[i] = wire[i + 0]
        /\ \A S : \A i \in Nat : Behind(wire, i + 0, S) => Behind(wire, i, S)
    <3>1. \A i \in Nat : i + 0 = i
      OBVIOUS
    <3>2. \A i \in 1..Len(wire) : i \in Nat
      OBVIOUS
    <3> QED BY <3>1, <3>2
  <2>3. /\ \A t \in v.rows : t \in Truth \/ Behind(wire, 0, Moves(t))
        /\ \A p \in w.pending \cap v.pending : p \in asked \/ Behind(wire, 0, Replies(p.tok))
        /\ v.busy => Coming \/ Behind(wire, 0, Ended)
    BY <1>3, <1>6 DEF FeedInv, RowsVouched, Replied, CatchupsEnd
  <2> QED BY <1>2, <1>3, <1>4, <1>5, <1>6, <2>1, <2>2, <2>3, UpFeed
<1>7. CASE ~linkUp
  <2>1. \A i \in 1..Len(wire) : wire[i].k = "error" /\ wire[i].tok < w.next
    BY <1>7 DEF FeedInv, LinkOK, TokensOK
  <2>2. \A p \in w.pending \cap v.pending : Behind(wire, 0, Replies(p.tok))
    BY <1>7 DEF FeedInv, Replied, LinkOK
  <2> QED BY <1>2, <1>3, <1>4, <1>7, <2>1, <2>2, DownStep
<1> QED BY <1>6, <1>7

LEMMA RepliesTok ==
    ASSUME NEW f \in Frame, NEW tok, f \in Replies(tok)
    PROVE  f.k \in {"result", "error"} /\ f.tok = tok
BY DEF Replies

LEMMA DeliverFeed == Inv /\ FeedInv /\ Deliver => FeedInv'
<1> SUFFICES ASSUME Inv, FeedInv, Deliver  PROVE FeedInv'
  OBVIOUS
<1> DEFINE f == Head(wire)
           Q == Tail(wire)
           v == Handle(w, f)
<1>1. TypeOK /\ Good(w) /\ wire \in Seq(Frame) /\ wire # <<>> /\ Told(w) /\ Small(w)
  BY InvIsGood DEF TypeOK, FeedInv, Deliver
<1>2. /\ Q \in Seq(Frame) /\ Len(Q) = Len(wire) - 1 /\ Len(wire) \in Nat \ {0}
      /\ f \in Frame /\ f = wire[1] /\ 1 \in 1..Len(wire)
      /\ \A i \in 1..Len(Q) : i + 1 \in 1..Len(wire) /\ Q[i] = wire[i + 1]
      /\ \A S : \A i \in Nat : Behind(wire, i + 1, S) => Behind(Q, i, S)
      /\ \A S : Behind(wire, 1, S) => Behind(Q, 0, S)
      /\ \A S : Behind(wire, 0, S) /\ f \notin S => Behind(Q, 0, S)
  BY <1>1, BehindTail
<1>3. Become(v, Q) /\ UNCHANGED <<backendVars, linkUp>>
  BY DEF Deliver
<1>4. Handled(w, f, v)
  <2>1. f.k = "result" /\ f.page = {} => f.anchor = 0
    BY <1>2 DEF FeedInv, EmptyPages
  <2> QED BY <1>1, <1>2, <2>1, HandleHandled
<1> HIDE DEF f, v, Q
<1>5. /\ Sound(w, v) /\ Told(v) /\ Small(v)
      /\ \A p \in v.pending : p \in w.pending \/ w.next <= p.tok
  BY <1>1, <1>4 DEF Handled, Grows
<1>6. /\ w.next \in Nat /\ \A p \in w.pending : p.tok \in Nat /\ p.tok < w.next
  BY <1>1 DEF Good, Booked, Window, Request
\* A request still pending is not the one the frame answers.
<1>7. ASSUME NEW p \in w.pending \cap v.pending, Behind(wire, 0, Replies(p.tok))
      PROVE  Behind(Q, 0, Replies(p.tok))
  <2>1. CASE f \in Replies(p.tok)
    <3>1. f.k \in {"result", "error"} /\ f.tok = p.tok
      BY <1>2, <2>1, RepliesTok
    <3>2. w.next <= p.tok
      BY <1>4, <3>1 DEF Handled
    <3> QED BY <1>6, <3>2
  <2>2. CASE f \notin Replies(p.tok)
    BY <1>2, <1>7, <2>2
  <2> QED BY <2>1, <2>2
<1>8. CASE linkUp
  <2>1. w' = v /\ wire' = Q /\ asked' = asked \cup {p \in v.pending : p.tok >= w.next}
    BY <1>3, <1>8 DEF Become
  <2>2. ASSUME NEW t \in v.rows  PROVE t \in Truth \/ Behind(Q, 0, Moves(t))
    <3>1. CASE t \in Shows(f)
      BY <1>2, <3>1 DEF FeedInv, RowsVouched
    <3>2. CASE t \notin Shows(f)
      <4>1. t \in w.rows
        BY <1>4, <2>2, <3>2 DEF Handled, Grows
      <4>2. t \in Truth \/ Behind(wire, 0, Moves(t))
        BY <1>8, <4>1 DEF FeedInv, RowsVouched
      <4>3. CASE f \in Moves(t)
        <5>1. f.k = "Confirmed" /\ f.ts = t
          BY <4>3 DEF Moves
        <5>2. Shows(f) = {f.newTs}
          BY <5>1 DEF Shows
        <5> QED BY <1>4, <2>2, <3>2, <5>1, <5>2 DEF Handled
      <4>4. CASE f \notin Moves(t)
        BY <1>2, <4>2, <4>4
      <4> QED BY <4>3, <4>4
    <3> QED BY <3>1, <3>2
  <2>3. \A p \in w.pending \cap v.pending : p \in asked \/ Behind(Q, 0, Replies(p.tok))
    BY <1>7 DEF FeedInv, Replied
  <2>4. v.busy => Coming \/ Behind(Q, 0, Ended)
    <3>1. CASE f = CatchupStarted(TRUE)
      BY <1>2, <3>1 DEF FeedInv, CatchupsEnd
    <3>2. CASE f = CatchupDone(TRUE)
      BY <1>4, <3>2 DEF Handled
    <3>3. CASE f # CatchupStarted(TRUE) /\ f # CatchupDone(TRUE)
      <4>1. v.busy => w.busy /\ f \notin Ended
        BY <1>4, <3>3 DEF Handled, Grows, Ended
      <4>2. w.busy => Coming \/ Behind(wire, 0, Ended)
        BY <1>8 DEF FeedInv, CatchupsEnd
      <4> QED BY <1>2, <4>1, <4>2
    <3> QED BY <3>1, <3>2, <3>3
  <2>5. ASSUME v.rows = {}, ~Waiting(v)
        PROVE  v.atTail /\ (store = {} \/ Coming \/ Behind(Q, 0, Ended \cup Arrivals))
    <3>1. w.rows = {} /\ BlankBy(w, f, v)
      BY <1>4, <2>5 DEF Handled, BlankBy
    <3>2. CASE Waiting(w)
      <4>1. /\ v.atTail /\ f.k = "result" /\ f.page = {}
            /\ \E p \in w.pending : p.dir = "init" /\ p.tok = f.tok
        BY <2>5, <3>1, <3>2 DEF BlankBy
      <4>2. store = {} \/ Coming \/ Behind(wire, 1, Ended \cup Arrivals)
        BY <1>2, <4>1 DEF FeedInv, EmptyPages, Unsettled
      <4> QED BY <1>2, <4>1, <4>2
    <3>3. CASE ~Waiting(w)
      <4>1. w.atTail /\ (store = {} \/ Coming \/ Behind(wire, 0, Ended \cup Arrivals))
        BY <1>8, <3>1, <3>3 DEF FeedInv, BlankWaits, Unsettled
      <4>2. v.atTail /\ f # CatchupDone(TRUE) /\ (f.k = "New" => w.busy)
        BY <2>5, <3>1, <4>1 DEF BlankBy
      <4>3. CASE f.k = "New"
        <5>1. Coming \/ Behind(wire, 0, Ended)
          BY <1>8, <4>2, <4>3 DEF FeedInv, CatchupsEnd
        <5>2. f \notin Ended
          BY <4>2 DEF Ended
        <5>3. Coming \/ Behind(Q, 0, Ended)
          BY <1>2, <5>1, <5>2
        <5> QED BY <4>2, <5>3 DEF Behind
      <4>4. CASE f.k # "New"
        <5>1. f \notin Ended \cup Arrivals
          BY <4>2, <4>4 DEF Ended, Arrivals
        <5> QED BY <1>2, <4>1, <4>2, <5>1
      <4> QED BY <4>3, <4>4
    <3> QED BY <3>2, <3>3
  <2> QED BY <1>1, <1>2, <1>3, <1>5, <1>8, <2>1, <2>2, <2>3, <2>4, <2>5, UpFeed
<1>9. CASE ~linkUp
  <2>1. \A i \in 1..Len(Q) : Q[i].k = "error" /\ Q[i].tok < w.next
    BY <1>2, <1>9 DEF FeedInv, LinkOK, TokensOK
  <2>2. \A p \in w.pending \cap v.pending : Behind(Q, 0, Replies(p.tok))
    BY <1>7, <1>9 DEF FeedInv, Replied, LinkOK
  <2> QED BY <1>1, <1>2, <1>3, <1>5, <1>9, <2>1, <2>2, DownStep
<1> QED BY <1>8, <1>9

LEMMA LinkFeed == Inv /\ FeedInv /\ (LinkDown \/ LinkUp) => FeedInv'
<1> SUFFICES ASSUME Inv, FeedInv, LinkDown \/ LinkUp  PROVE FeedInv'
  OBVIOUS
<1>1. TypeOK /\ Good(w) /\ w.next \in Nat /\ Told(w) /\ wire \in Seq(Frame)
  BY InvIsGood DEF TypeOK, FeedInv, Good, Window
<1>2. UNCHANGED backendVars /\ (missed' # {} => Coming')
  BY DEF LinkDown, LinkUp, backendVars, FeedInv, CatchupsEnd, Coming
<1>3. CASE LinkDown
  <2>1. PICK v \in FailAll(w) :
          w' = v /\ wire' = [i \in 1..(v.next - w.next) |-> Error(w.next + i - 1)]
    BY <1>3 DEF LinkDown
  <2>2. Sound(w, v) /\ Told(v) /\ Small(v) /\ \A p \in v.pending : w.next <= p.tok
    BY <1>1, FailAllSound, FailAllCalm
  <2>3. /\ v.next \in Nat /\ w.next <= v.next
        /\ \A p \in v.pending : p.tok \in Nat /\ p.tok < v.next
    BY <2>2 DEF Sound, Good, Booked, Window, Request
  <2>4. /\ \A i \in 1..Len(wire') : wire'[i].k = "error" /\ wire'[i].tok < v.next
        /\ \A t \in Nat : w.next <= t /\ t < v.next => Behind(wire', 0, Replies(t))
    BY <1>1, <2>1, <2>3, BehindErrors
  <2>5. asked' = {} /\ ~linkUp'
    BY <1>3 DEF LinkDown
  <2> QED BY <1>2, <2>1, <2>2, <2>3, <2>4, <2>5, DownFeed
<1>4. CASE LinkUp
  <2> DEFINE v == Reload(w)
  <2>1. /\ Fair(w, v) /\ v.rows = {} /\ ~v.busy /\ Small(v) /\ Told(v) /\ Waiting(v)
        /\ \A p \in v.pending : w.next <= p.tok
    BY <1>1, ReloadFair
  <2>2. w' = v /\ asked' = v.pending /\ linkUp' /\ wire' = wire /\ ~linkUp
    BY <1>4 DEF LinkUp
  <2> HIDE DEF v
  <2>3. /\ v.next \in Nat /\ w.next <= v.next
        /\ \A p \in v.pending : p.tok \in Nat /\ p.tok < v.next
        /\ \A p, q \in v.pending : p.tok = q.tok => p = q
    BY <2>1 DEF Fair, Calm, Sound, Good, Booked, Window, Request
  <2>4. \A i \in 1..Len(wire) : /\ wire[i].k = "error" /\ Shows(wire[i]) = {}
                                /\ wire[i] # CatchupStarted(TRUE) /\ wire[i].tok < v.next
    <3>1. \A i \in 1..Len(wire) : wire[i].k = "error" /\ wire[i].tok < w.next /\ wire[i] \in Frame
      BY <1>1, <2>2, ElementOfSeq DEF FeedInv, LinkOK, TokensOK
    <3>2. \A i \in 1..Len(wire) : wire[i].tok \in Nat
      BY <3>1 DEF Frame
    <3>3. \A i \in 1..Len(wire) : Shows(wire[i]) = {} /\ wire[i] # CatchupStarted(TRUE)
      BY <3>1 DEF Shows, CatchupStarted
    <3>4. \A i \in 1..Len(wire) : wire[i].tok < v.next
      BY <1>1, <2>3, <3>1, <3>2
    <3> QED BY <3>1, <3>3, <3>4
  <2>5. LinkOK' /\ RowsVouched'
    BY <2>1, <2>2, <2>4 DEF LinkOK, RowsVouched
  <2>6. Replied' /\ TokensOK'
    BY <2>2, <2>3, <2>4 DEF Replied, TokensOK
  <2>7. CatchupsEnd' /\ EmptyPages' /\ BlankWaits'
    BY <1>2, <2>1, <2>2, <2>4, Brackets DEF CatchupsEnd, EmptyPages, BlankWaits, CatchupStarted
  <2> QED BY <2>1, <2>2, <2>5, <2>6, <2>7 DEF FeedInv
<1> QED BY <1>3, <1>4

-----------------------------------------------------------------------------
(* The backend's steps.                                                     *)

\* What the frames of one step have to do with what the step does: a request is
\* let go with its reply, a row with its <Confirmed>, a catchup with its end.
Delivers(F) ==
    /\ w' = w /\ linkUp' = linkUp /\ Emit(F) /\ asked' \subseteq asked
    /\ \A p \in asked \ asked' : p \in w.pending => Behind(F, 0, Replies(p.tok))
    /\ \A j \in 1..Len(F) :
          F[j].k \in {"result", "error"} =>
             \E p \in asked :
                /\ F[j].tok = p.tok
                /\ F[j].k = "result" /\ F[j].page = {} =>
                      F[j].anchor = 0 /\ (p.dir = "init" => store' = {} \/ Coming')
    /\ \A j \in 1..Len(F) : Shows(F[j]) \subseteq Truth'
    /\ \A t \in Truth \ Truth' : Behind(F, 0, Moves(t))
    /\ missed' # {} => Coming'
    /\ Coming => Coming' \/ Behind(F, 0, Ended)
    /\ store = {} => store' = {} \/ Coming \/ Behind(F, 0, Arrivals)
    /\ \A j \in 1..Len(F) : F[j] = CatchupStarted(TRUE) => Coming'

LEMMA DeliversFeed ==
    ASSUME Inv, FeedInv, NEW F \in Seq(Frame), Delivers(F)
    PROVE  FeedInv'
<1>1. TypeOK /\ Good(w) /\ wire \in Seq(Frame) /\ Told(w) /\ Small(w)
  BY InvIsGood DEF TypeOK, FeedInv
<1>2. Told(w') /\ Small(w') /\ w' = w /\ linkUp' = linkUp /\ asked' \subseteq asked
  BY <1>1 DEF Delivers
<1>3. CASE ~linkUp
  <2>1. wire' = wire
    BY <1>3 DEF Delivers, Emit
  <2>2. \A i \in 1..Len(wire) : wire[i].k = "error" /\ wire[i].tok < w.next
    BY <1>3 DEF FeedInv, LinkOK, TokensOK
  <2>3. \A p \in w.pending : Behind(wire, 0, Replies(p.tok))
    BY <1>3 DEF FeedInv, Replied, LinkOK
  <2>4. asked' = {} /\ (missed' # {} => Coming')
    BY <1>2, <1>3 DEF FeedInv, LinkOK, Delivers
  <2> QED BY <1>2, <1>3, <2>1, <2>2, <2>3, <2>4, DownFeed
<1>4. CASE linkUp
  <2> DEFINE Q == wire \o F
  <2>1. wire' = Q
    BY <1>4 DEF Delivers, Emit
  <2>2. /\ Q \in Seq(Frame) /\ Len(Q) = Len(wire) + Len(F)
        /\ Len(wire) \in Nat /\ Len(F) \in Nat
        /\ \A i \in 1..Len(wire) : Q[i] = wire[i]
        /\ \A i \in 1..Len(Q) : i \notin 1..Len(wire) =>
              i - Len(wire) \in 1..Len(F) /\ Q[i] = F[i - Len(wire)]
        /\ \A S, i : Behind(wire, i, S) => Behind(Q, i, S)
        /\ \A S : \A i \in 0..Len(wire) : Behind(F, 0, S) => Behind(Q, i, S)
    BY <1>1, BehindConcat
  <2> HIDE DEF Q
  <2>3. 0 \in 0..Len(wire) /\ \A i \in 1..Len(wire) : i \in 0..Len(wire)
    BY <2>2
  <2>4. LinkOK'
    BY <1>2, <1>4 DEF LinkOK
  \* What was to come of a row still is, or the row is still there.
  <2>5. ASSUME NEW t, NEW i \in 0..Len(wire), t \in Truth \/ Behind(wire, i, Moves(t))
        PROVE  t \in Truth' \/ Behind(Q, i, Moves(t))
    BY <2>2, <2>5 DEF Delivers
  <2>6. RowsVouched'
    <3>1. ASSUME NEW i \in 1..Len(Q), NEW t \in Shows(Q[i])
          PROVE  t \in Truth' \/ Behind(Q, i, Moves(t))
      <4>1. CASE i \in 1..Len(wire)
        <5>1. t \in Truth \/ Behind(wire, i, Moves(t))
          BY <2>2, <3>1, <4>1 DEF FeedInv, RowsVouched
        <5> QED BY <2>3, <2>5, <4>1, <5>1
      <4>2. CASE i \notin 1..Len(wire)
        BY <2>2, <3>1, <4>2 DEF Delivers
      <4> QED BY <4>1, <4>2
    <3>2. ASSUME NEW t \in w.rows  PROVE t \in Truth' \/ Behind(Q, 0, Moves(t))
      <4>1. t \in Truth \/ Behind(wire, 0, Moves(t))
        BY <1>4, <3>2 DEF FeedInv, RowsVouched
      <4> QED BY <2>3, <2>5, <4>1
    <3> QED BY <1>2, <2>1, <3>1, <3>2 DEF RowsVouched, Moves
  <2>7. Replied'
    <3>1. ASSUME NEW p \in w.pending  PROVE p \in asked' \/ Behind(Q, 0, Replies(p.tok))
      <4>1. p \in asked \/ Behind(wire, 0, Replies(p.tok))
        BY DEF FeedInv, Replied
      <4>2. p \in asked \ asked' => Behind(F, 0, Replies(p.tok))
        BY <3>1 DEF Delivers
      <4> QED BY <2>2, <2>3, <4>1, <4>2
    <3> QED BY <1>2, <2>1, <3>1 DEF Replied
  <2>8. TokensOK'
    <3>1. \A p \in asked : p.tok < w.next /\ \A q \in w.pending : p.tok = q.tok => p = q
      BY DEF FeedInv, TokensOK
    <3>2. ASSUME NEW i \in 1..Len(Q), Q[i].k \in {"result", "error"}  PROVE Q[i].tok < w.next
      <4>1. CASE i \in 1..Len(wire)
        BY <2>2, <3>2, <4>1 DEF FeedInv, TokensOK
      <4>2. CASE i \notin 1..Len(wire)
        BY <2>2, <3>1, <3>2, <4>2 DEF Delivers
      <4> QED BY <4>1, <4>2
    <3> QED BY <1>2, <2>1, <3>1, <3>2 DEF TokensOK
  <2>9. CatchupsEnd'
    <3>1. missed' # {} => Coming'
      BY DEF Delivers
    <3>2. w.busy => Coming' \/ Behind(Q, 0, Ended)
      <4>1. w.busy => Coming \/ Behind(wire, 0, Ended)
        BY <1>4 DEF FeedInv, CatchupsEnd
      <4>2. Coming => Coming' \/ Behind(F, 0, Ended)
        BY DEF Delivers
      <4> QED BY <2>2, <2>3, <4>1, <4>2
    <3>3. ASSUME NEW i \in 1..Len(Q), Q[i] = CatchupStarted(TRUE)
          PROVE  Coming' \/ Behind(Q, i, Ended)
      <4>1. CASE i \in 1..Len(wire)
        <5>1. Coming \/ Behind(wire, i, Ended)
          BY <2>2, <3>3, <4>1 DEF FeedInv, CatchupsEnd
        <5>2. Coming => Coming' \/ Behind(F, 0, Ended)
          BY DEF Delivers
        <5> QED BY <2>2, <2>3, <4>1, <5>1, <5>2
      <4>2. CASE i \notin 1..Len(wire)
        BY <2>2, <3>3, <4>2 DEF Delivers
      <4> QED BY <4>1, <4>2
    <3> QED BY <1>2, <2>1, <3>1, <3>2, <3>3 DEF CatchupsEnd, Ended, CatchupDone, CatchupStarted
  \* What an empty window waits for is still to come.
  <2>10. ASSUME NEW i \in 0..Len(wire), Unsettled(i)
         PROVE  store' = {} \/ Coming' \/ Behind(Q, i, Ended \cup Arrivals)
    <3>1. CASE Behind(wire, i, Ended \cup Arrivals)
      BY <2>2, <3>1
    <3>2. CASE Coming
      <4>1. Behind(F, 0, Ended) => Behind(F, 0, Ended \cup Arrivals)
        BY DEF Behind
      <4> QED BY <2>2, <3>2, <4>1 DEF Delivers
    <3>3. CASE store = {} /\ ~Coming
      <4>1. Behind(F, 0, Arrivals) => Behind(F, 0, Ended \cup Arrivals)
        BY DEF Behind
      <4> QED BY <2>2, <3>3, <4>1 DEF Delivers
    <3> QED BY <2>10, <3>1, <3>2, <3>3 DEF Unsettled
  <2>11. EmptyPages'
    <3>1. ASSUME NEW i \in 1..Len(Q), Q[i].k = "result", Q[i].page = {}
          PROVE  /\ Q[i].anchor = 0
                 /\ (\E p \in w.pending : p.dir = "init" /\ p.tok = Q[i].tok) =>
                       store' = {} \/ Coming' \/ Behind(Q, i, Ended \cup Arrivals)
      <4>1. CASE i \in 1..Len(wire)
        <5>1. /\ Q[i].anchor = 0
              /\ (\E p \in w.pending : p.dir = "init" /\ p.tok = Q[i].tok) => Unsettled(i)
          BY <2>2, <3>1, <4>1 DEF FeedInv, EmptyPages
        <5> QED BY <2>3, <2>10, <4>1, <5>1
      <4>2. CASE i \notin 1..Len(wire)
        <5>1. PICK p \in asked :
                /\ Q[i].tok = p.tok
                /\ Q[i].anchor = 0 /\ (p.dir = "init" => store' = {} \/ Coming')
          BY <2>2, <3>1, <4>2 DEF Delivers
        <5>2. \A q \in w.pending : q.tok = p.tok => q = p
          BY DEF FeedInv, TokensOK
        <5> QED BY <5>1, <5>2
      <4> QED BY <4>1, <4>2
    <3> QED BY <1>2, <2>1, <3>1 DEF EmptyPages, Unsettled, Ended, Arrivals, CatchupDone
  <2>12. BlankWaits'
    <3>1. w.rows = {} => Waiting(w) \/ (w.atTail /\ Unsettled(0))
      BY <1>4 DEF FeedInv, BlankWaits
    <3>2. w.rows = {} => \/ Waiting(w)
                         \/ w.atTail /\ (store' = {} \/ Coming' \/ Behind(Q, 0, Ended \cup Arrivals))
      BY <2>3, <2>10, <3>1
    <3> QED BY <1>2, <2>1, <3>2 DEF BlankWaits, Unsettled, Ended, Arrivals, CatchupDone
  <2> QED BY <1>2, <2>4, <2>6, <2>7, <2>8, <2>9, <2>11, <2>12 DEF FeedInv
<1> QED BY <1>3, <1>4

LEMMA OneFrame ==
    ASSUME NEW f \in Frame
    PROVE  /\ <<f>> \in Seq(Frame) /\ \A j \in 1..Len(<<f>>) : <<f>>[j] = f
           /\ \A S : f \in S => Behind(<<f>>, 0, S)
<1>1. <<f>> \in Seq(Frame) /\ Len(<<f>>) = 1 /\ <<f>>[1] = f
  OBVIOUS
<1> QED BY <1>1 DEF Behind

LEMMA TwoFrames ==
    ASSUME NEW f \in Frame, NEW g \in Frame
    PROVE  /\ <<f, g>> \in Seq(Frame)
           /\ \A j \in 1..Len(<<f, g>>) : <<f, g>>[j] \in {f, g}
           /\ \A S : f \in S \/ g \in S => Behind(<<f, g>>, 0, S)
<1>1. /\ <<f, g>> \in Seq(Frame) /\ Len(<<f, g>>) = 2
      /\ <<f, g>>[1] = f /\ <<f, g>>[2] = g
  OBVIOUS
<1> QED BY <1>1 DEF Behind

\* Frames that show nothing, answer nothing and open no catchup.
Plain(f) == f.k \notin {"result", "error", "New", "Confirmed", "CatchupStarted"}

LEMMA PlainShows ==
    ASSUME NEW f, Plain(f)
    PROVE  Shows(f) = {} /\ f # CatchupStarted(TRUE) /\ f.k \notin {"result", "error"}
BY DEF Plain, Shows, CatchupStarted

\* The tail is pushed, or nothing is; then the one frame more.
LEMMA NewsThen ==
    ASSUME NEW S \in SUBSET Ts, store \subseteq S, NEW f \in Frame
    PROVE  LET F == TailNews(S) \o <<f>>
           IN /\ F \in Seq(Frame)
              /\ \A j \in 1..Len(F) : F[j] = f \/ Plain(F[j])
              /\ \A P : f \in P => Behind(F, 0, P)
<1> DEFINE N == TailNews(S)
           F == N \o <<f>>
<1>1. N \in Seq(Frame) /\ \A j \in 1..Len(N) : Plain(N[j])
  BY TailNewsType DEF TailNews, TailAt, Plain
<1>2. /\ <<f>> \in Seq(Frame) /\ \A j \in 1..Len(<<f>>) : <<f>>[j] = f
      /\ \A P : f \in P => Behind(<<f>>, 0, P)
  BY OneFrame
<1> HIDE DEF N
<1>3. /\ F \in Seq(Frame) /\ Len(N) \in Nat
      /\ \A i \in 1..Len(N) : F[i] = N[i]
      /\ \A i \in 1..Len(F) : i \notin 1..Len(N) =>
            i - Len(N) \in 1..Len(<<f>>) /\ F[i] = <<f>>[i - Len(N)]
      /\ \A P : \A i \in 0..Len(N) : Behind(<<f>>, 0, P) => Behind(F, i, P)
  BY <1>1, <1>2, BehindConcat
<1> HIDE DEF F
<1>4. \A j \in 1..Len(F) : F[j] = f \/ Plain(F[j])
  BY <1>1, <1>2, <1>3
<1>5. \A P : f \in P => Behind(F, 0, P)
  BY <1>2, <1>3
<1> QED BY <1>3, <1>4, <1>5 DEF F, N

\* A page is of messages there are; an opening page is empty only if nothing is
\* stored or something is missed.
LEMMA PageOf ==
    ASSUME TypeOK, NEW p \in asked, NEW page \in Pages(p)
    PROVE  /\ page \in SUBSET Ts /\ page \subseteq Truth
           /\ p.dir = "init" /\ page = {} => store = {} \/ missed # {}
<1>1. p \in Request /\ store \subseteq Ts /\ missed \subseteq Ts
  BY DEF TypeOK
<1>2. page \in SUBSET Ts
  BY <1>1, PagesType
<1>3. page \subseteq Truth
  <2>1. CASE p.dir = "init"
    BY <2>1 DEF Pages, Last, Truth
  <2>2. CASE p.dir = "old"
    BY <2>2 DEF Pages, Last
  <2>3. CASE p.dir \in {"new", "catchup"}
    BY <2>3 DEF Pages, First, Truth
  <2>4. CASE p.dir = "goto"
    BY <2>4 DEF Pages, Slices
  <2> QED BY <1>1, <2>1, <2>2, <2>3, <2>4 DEF Request, Dirs
<1>4. ASSUME p.dir = "init", page = {}, store # {}, missed = {}  PROVE FALSE
  <2>1. page = Last(store, PageSize)
    <3>1. {m \in store : \A x \in missed : x < m} = store
      BY <1>4
    <3> QED BY <1>4, <3>1 DEF Pages
  <2>2. store \in SUBSET (0..MaxTs) /\ MaxTs \in Nat /\ PageSize \in Nat \ {0}
    BY <1>1, ChatWindowAssumption DEF Ts, ChatWindowAssumption
  <2>3. Max(store) \in store /\ \A x \in store : x <= Max(store)
    BY <1>4, <2>2, MaxExists
  <2>4. {x \in store : x > Max(store)} = {}
    <3>1. ASSUME NEW x \in store, x > Max(store)  PROVE FALSE
      <4>1. x \in 0..MaxTs /\ Max(store) \in 0..MaxTs /\ x <= Max(store)
        BY <2>2, <2>3
      <4> QED BY <2>2, <3>1, <4>1
    <3> QED BY <3>1
  <2>5. Cardinality({}) = 0
    BY FS_EmptySet
  <2>6. Max(store) \in Last(store, PageSize)
    BY <2>2, <2>3, <2>4, <2>5 DEF Last
  <2> QED BY <1>4, <2>1, <2>6
<1> QED BY <1>2, <1>3, <1>4

LEMMA BackendDelivers ==
    ASSUME Inv, FeedInv, Backend
    PROVE  \E F \in Seq(Frame) : Delivers(F)
<1>1. TypeOK /\ wire \in Seq(Frame) /\ Good(w)
  BY InvIsGood DEF TypeOK
<1>2. missed # {} => Coming
  BY DEF FeedInv, CatchupsEnd
\* A step that sends f alone, moves no message and closes no catchup.
<1>3. ASSUME NEW f \in Frame, Plain(f) \/ f = CatchupStarted(TRUE), Emit(<<f>>),
             UNCHANGED <<w, linkUp, asked, store, missed>>, Coming' \/ (Coming => f \in Ended),
             missed # {} => Coming', f = CatchupStarted(TRUE) => Coming'
      PROVE  \E F \in Seq(Frame) : Delivers(F)
  <2>1. Truth' = Truth /\ Shows(f) = {} /\ f.k \notin {"result", "error"}
    BY <1>3, PlainShows, Brackets DEF Truth, Shows
  <2> QED BY <1>3, <2>1, OneFrame DEF Delivers
<1>4. ASSUME NEW p \in asked, Answer(p)  PROVE \E F \in Seq(Frame) : Delivers(F)
  <2>1. PICK page \in Pages(p) :
          /\ Store(page)
          /\ Emit(TailNews(store \cup page) \o
                  <<Result(p.tok, page, IF page = {} THEN 0 ELSE p.cur)>>)
    BY <1>4 DEF Answer
  <2> DEFINE a == IF page = {} THEN 0 ELSE p.cur
             f == Result(p.tok, page, a)
             F == TailNews(store \cup page) \o <<f>>
  <2>2. /\ page \in SUBSET Ts /\ page \subseteq Truth
        /\ p.dir = "init" /\ page = {} => store = {} \/ missed # {}
    BY <1>1, PageOf
  <2>3. p.tok \in Nat /\ a \in Ts \cup {0} /\ (page = {} => a = 0) /\ p.cur \in Ts \cup {0}
    BY <1>1 DEF TypeOK, Request
  <2> HIDE DEF a
  <2>4. /\ f \in Frame /\ f \in Replies(p.tok) /\ f.k = "result" /\ f.page = page
        /\ f.tok = p.tok /\ f.anchor = a /\ Shows(f) = page /\ f # CatchupStarted(TRUE)
    <3>1. f = [k |-> "result", tok |-> p.tok, page |-> page, anchor |-> a]
      BY DEF Result
    <3> HIDE DEF f
    <3>2. f \in Frame
      BY <2>2, <2>3, <3>1 DEF Frame
    <3>3. f \in Replies(p.tok)
      BY <2>2, <2>3, <3>1 DEF Replies
    <3>4. f.k = "result" /\ f.page = page /\ f.tok = p.tok /\ f.anchor = a
      BY <3>1
    <3>5. Shows(f) = page /\ f # CatchupStarted(TRUE)
      BY <3>4, Brackets DEF Shows
    <3> QED BY <3>2, <3>3, <3>4, <3>5
  <2>5. store \cup page \in SUBSET Ts /\ store \subseteq store \cup page
    BY <1>1, <2>2 DEF TypeOK
  <2> HIDE DEF f
  <2>6. /\ F \in Seq(Frame) /\ \A j \in 1..Len(F) : F[j] = f \/ Plain(F[j])
        /\ \A P : f \in P => Behind(F, 0, P)
    BY <2>4, <2>5, NewsThen
  <2>7. Emit(F)
    BY <2>1 DEF a, f
  <2> HIDE DEF F
  <2>8. /\ store' = store \cup page /\ missed' = missed \ page /\ Truth \subseteq Truth'
        /\ page \subseteq Truth' /\ Coming' = Coming /\ asked' = asked \ {p}
        /\ UNCHANGED <<w, linkUp>>
    BY <1>4, <2>1, <2>2 DEF Answer, Store, Truth, Coming
  <2>9. missed' # {} => Coming'
    BY <1>2, <2>8
  <2>10. store = {} => store' = {} \/ Coming
    BY <1>2, <2>2, <2>8 DEF Truth
  <2>11. p.dir = "init" /\ page = {} => store' = {} \/ Coming'
    BY <1>2, <2>2, <2>8
  <2>12. \A j \in 1..Len(F) :
           F[j].k \in {"result", "error"} =>
              /\ F[j].tok = p.tok
              /\ F[j].k = "result" /\ F[j].page = {} =>
                    F[j].anchor = 0 /\ (p.dir = "init" => store' = {} \/ Coming')
    BY <2>3, <2>4, <2>6, <2>11, PlainShows
  <2>13. \A j \in 1..Len(F) : Shows(F[j]) \subseteq Truth' /\ F[j] # CatchupStarted(TRUE)
    BY <2>4, <2>6, <2>8, PlainShows
  <2>14. \A q \in asked \ asked' : Behind(F, 0, Replies(q.tok))
    BY <2>4, <2>6, <2>8
  <2> QED BY <2>6, <2>7, <2>8, <2>9, <2>10, <2>12, <2>13, <2>14 DEF Delivers
<1>5. ASSUME NEW p \in asked, Refuse(p)  PROVE \E F \in Seq(Frame) : Delivers(F)
  <2> DEFINE e == Error(p.tok)
             F == <<e>>
  <2>1. e = [k |-> "error", tok |-> p.tok] /\ p.tok \in Nat
    BY <1>1 DEF Error, TypeOK, Request
  <2>2. /\ asked' = asked \ {p} /\ Emit(F) /\ UNCHANGED <<w, linkUp>>
        /\ Truth' = Truth /\ Coming' = Coming /\ missed' = missed /\ store' = store
    BY <1>5 DEF Refuse, backendVars, Truth, Coming
  <2> HIDE DEF e
  <2>3. e \in Frame
    BY <2>1 DEF Frame
  <2>4. e \in Replies(p.tok)
    BY <2>1 DEF Replies
  <2>5. e.k = "error" /\ e.tok = p.tok
    BY <2>1
  <2>6. Shows(e) = {} /\ e # CatchupStarted(TRUE)
    BY <2>5, Brackets DEF Shows
  <2>7. /\ F \in Seq(Frame) /\ \A j \in 1..Len(F) : F[j] = e
        /\ Behind(F, 0, Replies(p.tok))
    BY <2>3, <2>4, OneFrame
  <2> HIDE DEF F
  <2>8. \A q \in asked \ asked' : Behind(F, 0, Replies(q.tok))
    BY <2>2, <2>7
  <2>9. \A j \in 1..Len(F) : F[j].tok = p.tok /\ F[j].k # "result"
    BY <2>5, <2>7
  <2>10. \A j \in 1..Len(F) : Shows(F[j]) \subseteq Truth' /\ F[j] # CatchupStarted(TRUE)
    BY <2>6, <2>7
  <2>11. Delivers(F)
    BY <1>2, <2>2, <2>8, <2>9, <2>10 DEF Delivers
  <2> QED BY <2>7, <2>11
<1>6. ASSUME NEW p \in asked, Forget(p)  PROVE \E F \in Seq(Frame) : Delivers(F)
  <2>1. /\ asked' = asked \ {p} /\ UNCHANGED <<w, linkUp, wire>> /\ p \notin w.pending
        /\ Truth' = Truth /\ Coming' = Coming /\ missed' = missed /\ store' = store
    BY <1>6 DEF Forget, backendVars, Truth, Coming
  <2>2. Emit(<<>>) /\ <<>> \in Seq(Frame)
    BY <1>1, <2>1, ConcatEmptySeq DEF Emit
  <2>3. \A j : j \notin 1..Len(<<>>)
    OBVIOUS
  <2>4. Delivers(<<>>)
    BY <1>2, <2>1, <2>2, <2>3 DEF Delivers
  <2> QED BY <2>2, <2>4
<1>7. ASSUME AnswerPull  PROVE \E F \in Seq(Frame) : Delivers(F)
  <2> DEFINE F == <<State(streamUp)>> \o IF store = {} THEN <<>> ELSE <<TailAt(Newest(store))>>
  <2>1. State(streamUp) \in Frame /\ Plain(State(streamUp))
    BY <1>1 DEF TypeOK, State, Frame, Plain
  <2>2. store # {} => TailAt(Newest(store)) \in Frame /\ Plain(TailAt(Newest(store)))
    BY <1>1, NewestIn DEF TypeOK, TailAt, Frame, Plain
  <2>3. F \in Seq(Frame) /\ \A j \in 1..Len(F) : Plain(F[j])
    BY <2>1, <2>2
  <2>4. /\ asked' = asked /\ Emit(F) /\ UNCHANGED <<w, linkUp>>
        /\ Truth' = Truth /\ Coming' = Coming /\ missed' = missed /\ store' = store
    BY <1>7 DEF AnswerPull, backendVars, Truth, Coming
  <2> HIDE DEF F
  <2> QED BY <1>2, <2>3, <2>4, PlainShows DEF Delivers
\* A new message is announced as it is stored.
<1>8. ASSUME NextTs \in Ts, store' = store \cup {NextTs}, missed' = missed,
             Emit(<<New(NextTs), TailAt(NextTs)>>),
             UNCHANGED <<w, linkUp, asked, streamUp, bracket>>
      PROVE  \E F \in Seq(Frame) : Delivers(F)
  <2> DEFINE n == New(NextTs)
             t == TailAt(NextTs)
  <2>1. /\ n \in Frame /\ n \in Arrivals /\ n.k = "New" /\ Shows(n) = {NextTs}
        /\ n # CatchupStarted(TRUE)
    <3>1. n = [k |-> "New", ts |-> NextTs, syncing |-> missed # {}]
      BY DEF New
    <3> HIDE DEF n
    <3>2. n \in Frame
      BY <1>8, <3>1 DEF Frame
    <3>3. n \in Arrivals
      BY <1>8, <3>1 DEF Arrivals
    <3>4. n.k = "New" /\ n.ts = NextTs
      BY <3>1
    <3>5. Shows(n) = {NextTs} /\ n # CatchupStarted(TRUE)
      BY <3>4, Brackets DEF Shows
    <3> QED BY <3>2, <3>3, <3>4, <3>5
  <2>2. t \in Frame /\ Plain(t)
    BY <1>8 DEF TailAt, Frame, Plain
  <2>3. Emit(<<n, t>>)
    BY <1>8
  <2> HIDE DEF n, t
  <2>4. /\ <<n, t>> \in Seq(Frame) /\ \A j \in 1..Len(<<n, t>>) : <<n, t>>[j] \in {n, t}
        /\ Behind(<<n, t>>, 0, Arrivals)
    BY <2>1, <2>2, TwoFrames
  <2>5. Truth \subseteq Truth' /\ NextTs \in Truth' /\ Coming' = Coming
    BY <1>8 DEF Truth, Coming
  <2>6. Shows(t) = {} /\ t # CatchupStarted(TRUE) /\ t.k \notin {"result", "error"}
    BY <2>2, PlainShows
  <2> QED BY <1>2, <1>8, <2>1, <2>3, <2>4, <2>5, <2>6 DEF Delivers
<1>9. ASSUME RemoteMessage  PROVE \E F \in Seq(Frame) : Delivers(F)
  <2>1. CASE streamUp
    BY <1>8, <1>9, <2>1 DEF RemoteMessage
  <2>2. CASE ~streamUp
    <3>1. /\ asked' = asked /\ UNCHANGED <<w, linkUp, wire>>
          /\ Truth \subseteq Truth' /\ Coming' /\ store' = store
      BY <1>1, <1>9, <2>2 DEF RemoteMessage, Truth, Coming, TypeOK
    <3>2. Emit(<<>>) /\ <<>> \in Seq(Frame)
      BY <1>1, <3>1, ConcatEmptySeq DEF Emit
    <3>3. \A j : j \notin 1..Len(<<>>)
      OBVIOUS
    <3>4. Delivers(<<>>)
      BY <3>1, <3>2, <3>3 DEF Delivers
    <3> QED BY <3>2, <3>4
  <2> QED BY <2>1, <2>2
<1>10. ASSUME OwnMessage  PROVE \E F \in Seq(Frame) : Delivers(F)
  BY <1>8, <1>10 DEF OwnMessage
<1>11. ASSUME NEW t \in sends, Confirm(t)  PROVE \E F \in Seq(Frame) : Delivers(F)
  <2> DEFINE c == [k |-> "Confirmed", ts |-> t, newTs |-> NextTs]
             u == TailAt(NextTs)
  <2>1. t \in Ts /\ NextTs \in Ts /\ t \in store
    BY <1>1, <1>11 DEF TypeOK, Confirm
  <2>2. /\ c \in Frame /\ c \in Moves(t) /\ c.k = "Confirmed" /\ Shows(c) = {NextTs}
        /\ c # CatchupStarted(TRUE)
    <3>1. c \in Frame
      BY <2>1 DEF Frame
    <3>2. c \in Moves(t)
      BY <2>1 DEF Moves
    <3>3. c.k = "Confirmed" /\ c.newTs = NextTs
      OBVIOUS
    <3> HIDE DEF c
    <3>4. Shows(c) = {NextTs} /\ c # CatchupStarted(TRUE)
      BY <3>3, Brackets DEF Shows
    <3> QED BY <3>1, <3>2, <3>3, <3>4
  <2>3. u \in Frame /\ Plain(u)
    BY <2>1 DEF TailAt, Frame, Plain
  <2>4. /\ asked' = asked /\ Emit(<<c, u>>) /\ UNCHANGED <<w, linkUp>>
        /\ Truth \ {t} \subseteq Truth' /\ NextTs \in Truth'
        /\ Coming' = Coming /\ missed' = missed
    BY <1>11 DEF Confirm, Truth, Coming
  <2> HIDE DEF c, u
  <2>5. /\ <<c, u>> \in Seq(Frame) /\ \A j \in 1..Len(<<c, u>>) : <<c, u>>[j] \in {c, u}
        /\ Behind(<<c, u>>, 0, Moves(t))
    BY <2>2, <2>3, TwoFrames
  <2>6. Shows(u) = {} /\ u # CatchupStarted(TRUE) /\ u.k \notin {"result", "error"}
    BY <2>3, PlainShows
  <2>7. \A s \in Truth \ Truth' : Behind(<<c, u>>, 0, Moves(s))
    BY <2>4, <2>5
  <2> QED BY <1>2, <2>1, <2>2, <2>4, <2>5, <2>6, <2>7 DEF Delivers
<1>12. ASSUME NEW t \in store, Edit(t)  PROVE \E F \in Seq(Frame) : Delivers(F)
  <2> DEFINE e == [k |-> "Edited", ts |-> t]
  <2>1. t \in Ts
    BY <1>1 DEF TypeOK
  <2>2. e \in Frame
    BY <2>1 DEF Frame
  <2>3. Plain(e)
    BY DEF Plain
  <2>4. Emit(<<e>>) /\ UNCHANGED <<w, linkUp, asked, store, missed>> /\ Coming' = Coming
    BY <1>12 DEF Edit, backendVars, Coming
  <2> HIDE DEF e
  <2>5. e # CatchupStarted(TRUE)
    BY <2>3, PlainShows
  <2> QED BY <1>2, <1>3, <2>2, <2>3, <2>4, <2>5
<1>13. ASSUME StreamDown  PROVE \E F \in Seq(Frame) : Delivers(F)
  <2>1. State(FALSE) \in Frame /\ Plain(State(FALSE))
    BY DEF State, Frame, Plain
  <2> QED BY <1>3, <1>13, <2>1 DEF StreamDown, Coming
<1>14. ASSUME StreamUp  PROVE \E F \in Seq(Frame) : Delivers(F)
  <2> DEFINE a == State(TRUE)
             b == CatchupStarted(TRUE)
  <2>1. a \in Frame /\ Plain(a) /\ b \in Frame
    BY DEF State, CatchupStarted, Frame, Plain
  <2>2. Shows(b) = {} /\ b.k \notin {"result", "error"}
    BY Brackets DEF Shows
  <2>3. /\ asked' = asked /\ Emit(<<a, b>>) /\ UNCHANGED <<w, linkUp>>
        /\ Truth' = Truth /\ Coming' /\ store' = store
    BY <1>14 DEF StreamUp, Truth, Coming
  <2> HIDE DEF a, b
  <2>4. <<a, b>> \in Seq(Frame) /\ \A j \in 1..Len(<<a, b>>) : <<a, b>>[j] \in {a, b}
    BY <2>1, TwoFrames
  <2>5. Shows(a) = {} /\ a.k \notin {"result", "error"}
    BY <2>1, PlainShows
  <2> QED BY <2>2, <2>3, <2>4, <2>5 DEF Delivers
<1>15. ASSUME CatchupStore  PROVE \E F \in Seq(Frame) : Delivers(F)
  <2> DEFINE F == TailNews(store')
             S == {Oldest(missed)}
  <2>1. missed \in SUBSET Nat /\ missed # {} /\ missed \subseteq Ts
    BY <1>1, <1>15 DEF CatchupStore, TypeOK, Ts
  <2>2. S \subseteq missed
    BY <2>1, MinExists DEF Oldest
  <2>3. /\ store' = store \cup S /\ missed' = missed \ S /\ asked' = asked
        /\ UNCHANGED <<w, linkUp>> /\ Coming' = Coming /\ Emit(F)
    BY <1>15 DEF CatchupStore, Store, Coming
  <2>4. store' \in SUBSET Ts /\ store \subseteq store'
    BY <1>1, <2>1, <2>2, <2>3 DEF TypeOK
  <2>5. F \in Seq(Frame)
    BY <2>4, TailNewsType
  <2>6. \A j \in 1..Len(F) : Plain(F[j])
    BY DEF TailNews, TailAt, Plain
  <2>7. Truth \subseteq Truth'
    BY <2>3 DEF Truth
  <2> HIDE DEF F, S
  <2> QED BY <1>2, <2>1, <2>3, <2>5, <2>6, <2>7, PlainShows DEF Delivers
<1>16. ASSUME CatchupEnd  PROVE \E F \in Seq(Frame) : Delivers(F)
  <2>1. CatchupDone(TRUE) \in Frame /\ Plain(CatchupDone(TRUE)) /\ CatchupDone(TRUE) \in Ended
    BY DEF CatchupDone, Frame, Plain, Ended
  <2>2. CatchupDone(TRUE) # CatchupStarted(TRUE)
    BY Brackets
  <2> QED BY <1>3, <1>16, <2>1, <2>2 DEF CatchupEnd
<1>17. ASSUME ForeignCatchup  PROVE \E F \in Seq(Frame) : Delivers(F)
  <2>1. CatchupDone(FALSE) \in Frame /\ Plain(CatchupDone(FALSE))
    BY DEF CatchupDone, Frame, Plain
  <2>2. CatchupDone(FALSE) # CatchupStarted(TRUE)
    BY <2>1, PlainShows
  <2> QED BY <1>2, <1>3, <1>17, <2>1, <2>2 DEF ForeignCatchup, backendVars, Coming
<1> QED BY <1>4, <1>5, <1>6, <1>7, <1>9, <1>10, <1>11, <1>12, <1>13, <1>14, <1>15,
           <1>16, <1>17 DEF Backend

-----------------------------------------------------------------------------
(* The invariant, of every reachable state.                                 *)

LEMMA InitFeed == Init => FeedInv
<1> SUFFICES ASSUME Init  PROVE FeedInv
  OBVIOUS
<1> DEFINE b == Blank(1)
           v == Reload(b)
<1>1. b \in Window /\ b.next = 1 /\ b.pending = {} /\ b.inflight = {} /\ b.failed = {}
  BY DEF Blank, Window
<1> HIDE DEF b
<1>2. Good(b)
  BY <1>1 DEF Good, Booked, Quiet
<1>3. /\ Fair(b, v) /\ v.rows = {} /\ ~v.busy /\ Small(v) /\ Told(v) /\ Waiting(v)
  BY <1>2, ReloadFair
<1>4. /\ w = v /\ asked = v.pending /\ wire = <<>> /\ linkUp
      /\ missed # {} => bracket
  BY DEF Init, b
<1> HIDE DEF v
<1>5. \A p, q \in v.pending : p.tok < v.next /\ (p.tok = q.tok => p = q)
  BY <1>3 DEF Fair, Calm, Sound, Good, Booked
<1>6. Len(wire) = 0
  BY <1>4
<1>7. LinkOK /\ RowsVouched /\ Replied /\ TokensOK
  BY <1>3, <1>4, <1>5, <1>6 DEF LinkOK, RowsVouched, Replied, TokensOK
<1>8. CatchupsEnd /\ EmptyPages /\ BlankWaits
  BY <1>3, <1>4, <1>6 DEF CatchupsEnd, EmptyPages, BlankWaits, Coming
<1> QED BY <1>3, <1>4, <1>7, <1>8 DEF FeedInv

LEMMA NextFeed == Inv /\ FeedInv /\ [Next]_vars => FeedInv'
<1> SUFFICES ASSUME Inv, FeedInv, [Next]_vars  PROVE FeedInv'
  OBVIOUS
<1>1. CASE UNCHANGED vars
  BY <1>1 DEF vars, backendVars, FeedInv, LinkOK, RowsVouched, Replied, TokensOK, CatchupsEnd,
              EmptyPages, BlankWaits, Unsettled, Coming, Truth
<1>2. CASE Backend
  <2>1. PICK F \in Seq(Frame) : Delivers(F)
    BY <1>2, BackendDelivers
  <2> QED BY <2>1, DeliversFeed
<1> QED BY <1>1, <1>2, UserFeed, DeliverFeed, LinkFeed DEF Next

\* A row whose <Confirmed> is behind the head of the wire is one of those that
\* the wire moves.
LEMMA FeedRows == Inv /\ FeedInv => RealRows
<1> SUFFICES ASSUME Inv, FeedInv, linkUp, NEW t \in w.rows
             PROVE  t \in Truth \cup
                      {wire[i].ts : i \in {j \in DOMAIN wire : wire[j].k = "Confirmed"}}
  BY DEF RealRows
<1>1. wire \in Seq(Frame)
  BY DEF Inv, TypeOK
<1>2. t \in Truth \/ Behind(wire, 0, Moves(t))
  BY DEF FeedInv, RowsVouched
<1>3. ASSUME Behind(wire, 0, Moves(t))
      PROVE  \E i \in DOMAIN wire : wire[i].k = "Confirmed" /\ wire[i].ts = t
  BY <1>1, <1>3 DEF Behind, Moves
<1> QED BY <1>2, <1>3

LEMMA FeedStuck == Inv /\ FeedInv => NothingStuck
<1> SUFFICES ASSUME Inv, FeedInv, wire = <<>>, asked = {}  PROVE w.inflight = {}
  BY DEF NothingStuck
<1>1. Len(wire) = 0
  OBVIOUS
<1>2. w.pending = {}
  BY <1>1 DEF FeedInv, Replied, Behind
<1> QED BY <1>2 DEF Inv, OneRequest

LEMMA FeedTold == Inv /\ FeedInv => FailureIsTold
<1> SUFFICES ASSUME Inv, FeedInv  PROVE FailureIsTold
  OBVIOUS
<1>1. Told(w)
  BY DEF FeedInv
<1>2. ASSUME Settled, w.rows = {}, store # {}  PROVE "init" \in w.failed /\ w.error
  <2>1. Len(wire) = 0 /\ linkUp /\ ~Coming /\ w.pending = {}
    BY <1>2 DEF Settled, Coming
  <2>2. w.inflight = {}
    BY <2>1 DEF Inv, OneRequest
  <2>3. ~Unsettled(0)
    BY <1>2, <2>1 DEF Unsettled, Behind
  <2>4. Waiting(w)
    BY <1>2, <2>1, <2>3 DEF FeedInv, BlankWaits
  <2> QED BY <1>1, <2>2, <2>4 DEF Waiting, Told
<1> QED BY <1>1, <1>2 DEF FailureIsTold, ErrorOfAFailure, BlankOnlyOnFailure, Told

-----------------------------------------------------------------------------
(* The theorems.                                                            *)

LEMMA FeedHolds == Spec => [](Inv /\ FeedInv)
<1>1. Init => Inv /\ FeedInv
  BY InitInv, InitFeed
<1>2. Inv /\ FeedInv /\ [Next]_vars => Inv' /\ FeedInv'
  BY NextInv, NextFeed
<1> QED BY <1>1, <1>2, PTL DEF Spec

\* Whatever the order of pages, live rows, jumps, culls, catchups, lost links and
\* relocated sends, a row in the window (ChatModel::insertMessages, handleEvent)
\* is a message the server has, or one whose <Confirmed> is on the wire.
THEOREM RowsAreReal == Spec => []RealRows
<1> QED BY FeedHolds, FeedRows, PTL

\* No reply, refusal, cancel or lost link leaves a direction out with nothing on
\* the way that will free it: paging (loadOlder, loadNewer) never stops for good.
THEOREM NothingStaysStuck == Spec => []NothingStuck
<1> QED BY FeedHolds, FeedStuck, PTL

\* loadError is empty unless some direction has failed; and a chat that has
\* messages, once all is answered, is blank only with its failure reported.
THEOREM FailureStaysTold == Spec => []FailureIsTold
<1> QED BY FeedHolds, FeedTold, PTL

=============================================================================
