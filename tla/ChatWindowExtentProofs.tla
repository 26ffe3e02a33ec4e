----------------------- MODULE ChatWindowExtentProofs -----------------------
(***************************************************************************)
(* Proofs about ChatWindow, for every value of its constants, of the       *)
(* window's extent: which gaps may lie between two of its rows, and where  *)
(* a window that claims the tail ends.                                     *)
(***************************************************************************)
EXTENDS ChatWindowProofs

-----------------------------------------------------------------------------
(* The invariant.  What is said of a queue takes the queue as an argument,  *)
(* and what is said of the messages there are takes them, the newest one    *)
(* stored, and whether a catchup is coming: one step changes one of these.  *)

\* The messages of T that lie between two rows of R and are not rows.
Gaps(R, T) == {m \in T \ R : \E a, b \in R : a < m /\ m < b}

\* What tells the window of a newer message than n of its rows: the end of a
\* catchup, the message n itself, or a message that has changed its place.
Makers(n) ==
    Ended \cup [k : {"New"}, ts : {n}, syncing : BOOLEAN]
          \cup [k : {"Confirmed"}, ts : Ts, newTs : Ts]
Later(q, i, n, c) == c \/ Behind(q, i, Makers(n))

\* As of the i-th frame of q, x is the newest there is, or the window will learn.
Seen(q, x, i, n, c) == n <= x \/ Later(q, i, n, c)

\* The tail is not pushed after the i-th frame, up to the k-th.
NoTail(q, i, k) == \A j \in 1..Len(q) : i < j /\ j <= k => q[j].k # "Tail"

\* x was the newest stored when the i-th frame went out: until the tail is pushed
\* again, nothing lies between x and a live row, no page goes beyond x, and the
\* store has not grown unless something says so.
Reaches(q, x, i, T, n, c) ==
    /\ \A k \in 1..Len(q) : i <= k /\ NoTail(q, i, k) =>
         /\ q[k].k = "New" /\ ~q[k].syncing => \A m \in T : x < m => q[k].ts <= m
         /\ q[k].k = "result" => \A m \in q[k].page : m <= x
         /\ q[k].k \notin {"New", "Confirmed"} => Seen(q, x, k, n, c)
    /\ NoTail(q, i, Len(q)) => n <= x

Shown(f) == IF f.k = "Tail" THEN {f.ts} ELSE Shows(f)

\* The page that answers p skips no message on the way from where p asked.
PageFits(q, i, p, T, n, c) ==
    LET P == q[i].page
    IN /\ p.dir = "init" /\ P # {} => Reaches(q, Newest(P), i, T, n, c)
       /\ p.dir \in {"init", "goto"} => Gaps(P, T) = {}
       /\ p.dir = "old" => /\ \A a \in P : a < p.cur
                           /\ \A m \in T \ P : \A a \in P : a < m => p.cur <= m
       /\ p.dir \in Forward =>
            /\ \A a \in P : p.cur < a
            /\ \A m \in T \ P : \A a \in P : m < a => m <= p.cur
            /\ P = {} => Seen(q, p.cur, i, n, c)

\* A live row, or a row that moves, is followed at once by the tail.
Paired(q, i) ==
    q[i].k \in {"New", "Confirmed"} =>
       i + 1 \in 1..Len(q) /\ q[i + 1].k = "Tail" /\ (q[i].k = "New" => q[i + 1].ts = q[i].ts)

\* Live rows and tails are of a message beyond all that the window has been shown.
Rises(R, q, i) ==
    q[i].k \in {"New", "Tail"} =>
       /\ \A r \in R : r <= q[i].ts
       /\ \A j \in 1..Len(q) : j < i => \A t \in Shown(q[j]) : t <= q[i].ts

\* Of the frames of q, for a window with the rows R and the requests D.
Frames(R, D, q, T, n, c) ==
    \A i \in 1..Len(q) :
       /\ \A t \in Shown(q[i]) : t <= n
       /\ Paired(q, i) /\ Rises(R, q, i)
       /\ q[i].k = "Tail" => Reaches(q, q[i].ts, i, T, n, c)
       /\ q[i].k = "result" => \A p \in D : p.tok = q[i].tok => PageFits(q, i, p, T, n, c)

\* A page is out that will bring what is newer than the window.
Ahead(v) == \E p \in v.pending : p.dir \in Forward

TailFirst(q) == 1 \in 1..Len(q) /\ q[1].k = "Tail"

\* The tail the window knows of, and where the window itself ends.
Edge(v, h, q, T, n, c) ==
    /\ v.tailTs <= n
    /\ v.tailTs # 0 => /\ Reaches(q, v.tailTs, 0, T, n, c)
                       /\ TailFirst(q) \/ \A r \in v.rows : r <= v.tailTs
    /\ v.atTail /\ v.rows # {} /\ h = {} =>
         /\ v.tailTs = 0 => Reaches(q, Newest(v.rows), 0, T, n, c)
         /\ Seen(q, Newest(v.rows), 0, n, c) \/ Ahead(v)

Under(v, n) ==
    /\ \A r \in v.rows : r <= n
    /\ \A p \in v.pending : p.dir = "old" => p.cur <= n

\* What is out was asked from within the window.
Held(v, h) ==
    h = {} => \A p \in v.pending :
                 /\ p.dir \in Forward => \E r \in v.rows : p.cur <= r
                 /\ p.dir = "old" => p.cur \in v.rows

\* A gap is one that the forward page now out will fill.
Whole(v, h, T) ==
    h = {} => \/ Gaps(v.rows, T) = {}
              \/ \E p \in v.pending : p.dir \in Forward /\ \A m \in Gaps(v.rows, T) : p.cur < m

ExtentInv ==
    /\ Under(w, Newest(store)) /\ Held(w, cause) /\ Whole(w, cause, Truth)
    /\ linkUp => /\ Edge(w, cause, wire, Truth, Newest(store), Coming)
                 /\ Frames(w.rows, w.pending, wire, Truth, Newest(store), Coming)

-----------------------------------------------------------------------------
(* The ends of a stretch, and the timestamps of a frame.                    *)

LEMMA Ends ==
    ASSUME NEW S \in SUBSET Ts
    PROVE  /\ Newest(S) \in Nat /\ Oldest(S) \in Nat
           /\ \A x \in S : x \in Nat /\ x <= Newest(S) /\ Oldest(S) <= x
           /\ S # {} => Newest(S) \in S /\ Oldest(S) \in S
<1>1. S \in SUBSET Nat /\ S \in SUBSET (0..MaxTs) /\ MaxTs \in Nat
  BY ChatWindowAssumption DEF Ts, ChatWindowAssumption
<1>2. CASE S = {}
  BY <1>2 DEF Newest, Oldest
<1>3. CASE S # {}
  <2>1. Min(S) \in S /\ \A x \in S : Min(S) <= x
    BY <1>1, <1>3, MinExists
  <2>2. Max(S) \in S /\ \A x \in S : x <= Max(S)
    BY <1>1, <1>3, MaxExists
  <2> QED BY <1>1, <1>3, <2>1, <2>2 DEF Newest, Oldest
<1> QED BY <1>2, <1>3

LEMMA TsNat == \A t \in Ts : t \in Nat /\ 0 < t
BY ChatWindowAssumption DEF Ts, ChatWindowAssumption

\* More rows reach at least as far.
LEMMA NewestGrows ==
    ASSUME NEW S \in SUBSET Ts, NEW R \in SUBSET S
    PROVE  Newest(R) <= Newest(S)
<1>1. R \in SUBSET Ts
  OBVIOUS
<1> QED BY <1>1, Ends DEF Newest

LEMMA FrameNumbers ==
    ASSUME NEW f \in Frame
    PROVE  /\ Shown(f) \in SUBSET Ts /\ Shows(f) \subseteq Shown(f)
           /\ f.k = "result" => f.page \in SUBSET Ts /\ Shown(f) = f.page /\ f.tok \in Nat
           /\ f.k \in {"New", "Tail"} => f.ts \in Ts /\ Shown(f) = {f.ts}
           /\ f.k = "Confirmed" => f.newTs \in Ts /\ Shown(f) = {f.newTs}
<1>1. CASE f.k = "result"
  BY <1>1 DEF Frame, Shown, Shows
<1>2. CASE f.k \in {"New", "Tail", "Confirmed"}
  BY <1>2, FrameFields DEF Shown, Shows
<1>3. CASE f.k \notin {"result", "New", "Tail", "Confirmed"}
  BY <1>3 DEF Shown, Shows
<1> QED BY <1>1, <1>2, <1>3

-----------------------------------------------------------------------------
(* The queue grows as the store does.                                       *)

\* The frames F of one step of the backend, after which U is there in place of T,
\* the newest stored is m and no longer n, and a catchup is coming if c, not b.
Tells(F, T, U, n, m, b, c) ==
    /\ n <= m /\ \A x \in U : x \in T \/ n < x
    /\ n # m => c \/ Behind(F, 0, Makers(m))
    /\ b => c \/ Behind(F, 0, Ended)
    /\ \A j \in 1..Len(F) :
         /\ \A t \in Shown(F[j]) : t <= m
         /\ Paired(F, j)
         /\ F[j].k \in {"New", "Tail"} => F[j].ts = m
         /\ F[j].k = "New" /\ ~F[j].syncing => \A x \in U : x <= n \/ m <= x
         /\ F[j].k \notin {"New", "Confirmed"} /\ NoTail(F, 0, j) => n = m
    /\ NoTail(F, 0, Len(F)) => n = m

Step(q, F, T, U, n, m, b, c) ==
    /\ q \in Seq(Frame) /\ F \in Seq(Frame) /\ T \in SUBSET Ts /\ U \in SUBSET Ts
    /\ n \in Nat /\ m \in Nat /\ b \in BOOLEAN /\ c \in BOOLEAN
    /\ Tells(F, T, U, n, m, b, c)

LEMMA LaterGrows ==
    ASSUME NEW q, NEW F, NEW T, NEW U, NEW n, NEW m, NEW b, NEW c,
           Step(q, F, T, U, n, m, b, c), NEW i \in 0..Len(q)
    PROVE  /\ Later(q, i, n, b) => Later(q \o F, i, m, c)
           /\ \A x \in Nat : Seen(q, x, i, n, b) => Seen(q \o F, x, i, m, c)
<1>1. q \in Seq(Frame) /\ F \in Seq(Frame)
  BY DEF Step
<1>2. /\ \A S : Behind(q, i, S) => Behind(q \o F, i, S)
      /\ \A S : Behind(F, 0, S) => Behind(q \o F, i, S)
  BY <1>1, BehindConcat
<1>3. Behind(F, 0, Ended) => Behind(F, 0, Makers(m))
  BY DEF Behind, Makers
<1>4. n # m => Later(q \o F, i, m, c)
  BY <1>2 DEF Step, Tells, Later
<1>5. b => Later(q \o F, i, m, c)
  BY <1>2, <1>3 DEF Step, Tells, Later
<1>6. Later(q, i, n, b) => Later(q \o F, i, m, c)
  BY <1>2, <1>4, <1>5 DEF Later
<1> QED BY <1>4, <1>6 DEF Seen

LEMMA NoTailGrows ==
    ASSUME NEW q \in Seq(Frame), NEW F \in Seq(Frame), NEW i \in 0..Len(q),
           NEW k \in 0..Len(q \o F), NoTail(q \o F, i, k)
    PROVE  /\ k <= Len(q) => NoTail(q, i, k)
           /\ Len(q) <= k => NoTail(q, i, Len(q)) /\ NoTail(F, 0, k - Len(q))
<1>1. /\ Len(q \o F) = Len(q) + Len(F) /\ Len(q) \in Nat /\ Len(F) \in Nat
      /\ \A j \in 1..Len(q) : (q \o F)[j] = q[j]
  BY BehindConcat
<1>2. \A j \in 1..Len(F) : Len(q) + j \in 1..Len(q \o F) /\ (q \o F)[Len(q) + j] = F[j]
  BY ConcatProperties, <1>1
<1>3. \A j \in 1..Len(q) : j \in 1..Len(q \o F)
  BY <1>1
<1>4. k <= Len(q) => NoTail(q, i, k)
  BY <1>1, <1>3 DEF NoTail
<1>5. ASSUME Len(q) <= k  PROVE NoTail(q, i, Len(q)) /\ NoTail(F, 0, k - Len(q))
  <2>1. NoTail(q, i, Len(q))
    BY <1>1, <1>3, <1>5 DEF NoTail
  <2>2. ASSUME NEW j \in 1..Len(F), j <= k - Len(q)  PROVE F[j].k # "Tail"
    <3>1. i < Len(q) + j /\ Len(q) + j <= k
      BY <1>1, <2>2
    <3> QED BY <1>2, <3>1 DEF NoTail
  <2> QED BY <2>1, <2>2 DEF NoTail
<1> QED BY <1>4, <1>5

LEMMA ReachesGrows ==
    ASSUME NEW q, NEW F, NEW T, NEW U, NEW n, NEW m, NEW b, NEW c,
           Step(q, F, T, U, n, m, b, c), NEW i \in 0..Len(q), NEW x \in Nat,
           Reaches(q, x, i, T, n, b), \A j \in 1..Len(q) : \A t \in Shown(q[j]) : t <= n
    PROVE  Reaches(q \o F, x, i, U, m, c)
<1> DEFINE Q == q \o F
<1>1. q \in Seq(Frame) /\ F \in Seq(Frame)
  BY DEF Step
<1>2. /\ Q \in Seq(Frame) /\ Len(Q) = Len(q) + Len(F) /\ Len(q) \in Nat /\ Len(F) \in Nat
      /\ \A j \in 1..Len(q) : Q[j] = q[j]
      /\ \A j \in 1..Len(Q) : j \notin 1..Len(q) =>
            j - Len(q) \in 1..Len(F) /\ Q[j] = F[j - Len(q)]
  BY <1>1, BehindConcat
<1>3. /\ \A k \in 0..Len(Q) : NoTail(Q, i, k) =>
            /\ k <= Len(q) => NoTail(q, i, k)
            /\ Len(q) <= k => NoTail(q, i, Len(q)) /\ NoTail(F, 0, k - Len(q))
  BY <1>1, NoTailGrows
<1>4. NoTail(q, i, Len(q)) => n <= x
  BY DEF Reaches
<1>5. n \in Nat /\ m \in Nat /\ T \in SUBSET Ts /\ U \in SUBSET Ts /\ Tells(F, T, U, n, m, b, c)
  BY DEF Step
<1>6. \A k \in 1..Len(q) : k \in 0..Len(q) /\ k \in 0..Len(Q) /\ k <= Len(q)
  BY <1>2
<1> HIDE DEF Q
<1>7. ASSUME NEW k \in 1..Len(Q), i <= k, NoTail(Q, i, k)
      PROVE  /\ Q[k].k = "New" /\ ~Q[k].syncing => \A y \in U : x < y => Q[k].ts <= y
             /\ Q[k].k = "result" => \A y \in Q[k].page : y <= x
             /\ Q[k].k \notin {"New", "Confirmed"} => Seen(Q, x, k, m, c)
  <2>1. CASE k \in 1..Len(q)
    <3>1. NoTail(q, i, k) /\ Q[k] = q[k]
      BY <1>2, <1>3, <1>6, <1>7, <2>1
    <3>2. /\ q[k].k = "New" /\ ~q[k].syncing => \A y \in T : x < y => q[k].ts <= y
          /\ q[k].k = "result" => \A y \in q[k].page : y <= x
          /\ q[k].k \notin {"New", "Confirmed"} => Seen(q, x, k, n, b)
      BY <1>7, <2>1, <3>1 DEF Reaches
    <3>3. Seen(q, x, k, n, b) => Seen(Q, x, k, m, c)
      BY <1>6, <2>1, LaterGrows DEF Q
    <3>4. ASSUME q[k].k = "New", ~q[k].syncing, NEW y \in U, x < y  PROVE q[k].ts <= y
      <4>1. q[k] \in Frame
        BY <1>1, <2>1, ElementOfSeq
      <4>2. q[k].ts \in Nat /\ q[k].ts <= n
        BY <2>1, <3>4, <4>1, FrameNumbers, TsNat
      <4>3. y \in Nat /\ (y \in T \/ n < y)
        BY <1>5, <3>4, TsNat DEF Tells
      <4> QED BY <1>5, <3>2, <3>4, <4>2, <4>3
    <3> QED BY <3>1, <3>2, <3>3, <3>4
  <2>2. CASE k \notin 1..Len(q)
    <3> DEFINE j == k - Len(q)
    <3>1. j \in 1..Len(F) /\ Q[k] = F[j] /\ Len(q) <= k /\ k \in 0..Len(Q)
      BY <1>2, <2>2
    <3>2. NoTail(F, 0, j) /\ n <= x
      BY <1>3, <1>4, <1>7, <3>1
    <3> HIDE DEF j
    <3>3. F[j] \in Frame
      BY <1>1, <3>1, ElementOfSeq
    <3>4. F[j].k \notin {"New", "Confirmed"} => n = m
      BY <1>5, <3>1, <3>2 DEF Tells
    <3>5. \A t \in Shown(F[j]) : t <= m
      BY <1>5, <3>1 DEF Tells
    <3>6. ASSUME F[j].k = "New", ~F[j].syncing, NEW y \in U, x < y  PROVE F[j].ts <= y
      <4>1. F[j].ts = m /\ (y <= n \/ m <= y) /\ y \in Nat
        BY <1>5, <3>1, <3>6, TsNat DEF Tells
      <4> QED BY <1>5, <3>2, <3>6, <4>1
    <3>7. ASSUME F[j].k = "result", NEW y \in F[j].page  PROVE y <= x
      <4>1. y <= m /\ n = m /\ y \in Nat
        BY <3>3, <3>4, <3>5, <3>7, FrameNumbers, TsNat
      <4> QED BY <1>5, <3>2, <4>1
    <3>8. F[j].k \notin {"New", "Confirmed"} => Seen(Q, x, k, m, c)
      BY <3>2, <3>4 DEF Seen
    <3> QED BY <3>1, <3>6, <3>7, <3>8
  <2> QED BY <2>1, <2>2
<1>8. ASSUME NoTail(Q, i, Len(Q))  PROVE m <= x
  <2>1. NoTail(q, i, Len(q)) /\ NoTail(F, 0, Len(Q) - Len(q))
    BY <1>2, <1>3, <1>8
  <2>2. Len(Q) - Len(q) = Len(F)
    BY <1>2
  <2>3. n = m
    BY <1>5, <2>1, <2>2 DEF Tells
  <2> QED BY <1>4, <2>1, <2>3
<1> QED BY <1>7, <1>8 DEF Reaches, Q

\* What is added is beyond every row, so no gap is.
LEMMA GapsStay ==
    ASSUME NEW q, NEW F, NEW T, NEW U, NEW n, NEW m, NEW b, NEW c,
           Step(q, F, T, U, n, m, b, c), NEW R \in SUBSET Ts, \A r \in R : r <= n
    PROVE  Gaps(R, U) \subseteq Gaps(R, T)
<1> SUFFICES ASSUME NEW y \in U \ R, NEW a \in R, NEW z \in R, a < y, y < z
             PROVE  y \in T
  BY DEF Gaps
<1>1. y \in Nat /\ z \in Nat /\ z <= n /\ n \in Nat /\ (y \in T \/ n < y)
  BY TsNat DEF Step, Tells
<1> QED BY <1>1

\* What is at least the newest stored is reached from anywhere.
LEMMA TopReaches ==
    ASSUME NEW q \in Seq(Frame), NEW T \in SUBSET Ts, NEW n \in Nat, NEW c, NEW i,
           NEW x \in Nat, n <= x, \A j \in 1..Len(q) : \A t \in Shown(q[j]) : t <= n
    PROVE  Reaches(q, x, i, T, n, c)
<1>1. ASSUME NEW k \in 1..Len(q)
      PROVE  /\ q[k].k = "New" => \A y \in T : x < y => q[k].ts <= y
             /\ q[k].k = "result" => \A y \in q[k].page : y <= x
  <2>1. q[k] \in Frame
    BY <1>1, ElementOfSeq
  <2>2. ASSUME q[k].k = "New", NEW y \in T, x < y  PROVE q[k].ts <= y
    <3>1. q[k].ts \in Nat /\ q[k].ts <= n /\ y \in Nat
      BY <1>1, <2>1, <2>2, FrameNumbers, TsNat
    <3> QED BY <2>2, <3>1
  <2>3. ASSUME q[k].k = "result", NEW y \in q[k].page  PROVE y <= x
    <3>1. y <= n /\ y \in Nat
      BY <1>1, <2>1, <2>3, FrameNumbers, TsNat
    <3> QED BY <3>1
  <2> QED BY <2>2, <2>3
<1> QED BY <1>1 DEF Reaches, Seen

\* The pages of the frames F, as they are when they are sent.
SentPage(f, p, U, m, c) ==
    f.k = "result" /\ p.tok = f.tok =>
       /\ p.dir = "init" /\ f.page # {} => m <= Newest(f.page)
       /\ p.dir \in {"init", "goto"} => Gaps(f.page, U) = {}
       /\ p.dir = "old" => /\ \A a \in f.page : a < p.cur
                           /\ \A y \in U \ f.page : \A a \in f.page : a < y => p.cur <= y
       /\ p.dir \in Forward =>
            /\ \A a \in f.page : p.cur < a
            /\ \A y \in U \ f.page : \A a \in f.page : y < a => y <= p.cur
            /\ f.page = {} => m <= p.cur \/ c

Sent(F, D, U, m, c) == \A j \in 1..Len(F) : \A p \in D : SentPage(F[j], p, U, m, c)

LEMMA PageStaysFit ==
    ASSUME NEW q, NEW F, NEW T, NEW U, NEW n, NEW m, NEW b, NEW c,
           Step(q, F, T, U, n, m, b, c), NEW i \in 1..Len(q), NEW p \in Request,
           p.dir = "old" => p.cur <= n,
           \A j \in 1..Len(q) : \A t \in Shown(q[j]) : t <= n,
           q[i].k = "result", PageFits(q, i, p, T, n, b)
    PROVE  PageFits(q \o F, i, p, U, m, c)
<1> DEFINE P == q[i].page
<1>1. /\ q \in Seq(Frame) /\ F \in Seq(Frame) /\ n \in Nat
      /\ U \in SUBSET Ts /\ T \in SUBSET Ts /\ i \in 0..Len(q)
  BY DEF Step
<1>2. (q \o F)[i] = q[i]
  BY <1>1, BehindConcat
<1>3. q[i] \in Frame
  BY <1>1, ElementOfSeq
<1>4. P \in SUBSET Ts /\ \A a \in P : a <= n
  BY <1>3, FrameNumbers
<1>5. p.cur \in Nat
  BY TsNat DEF Request
<1> HIDE DEF P
<1>6. \A y \in U : y \in Nat /\ (y \in T \/ n < y)
  BY <1>1, TsNat DEF Step, Tells
<1>7. \A a \in P : a \in Nat /\ a <= n
  BY <1>4, TsNat
<1>8. p.dir = "init" /\ P # {} => Reaches(q \o F, Newest(P), i, U, m, c)
  BY <1>1, <1>4, Ends, ReachesGrows DEF PageFits, P
<1>9. p.dir \in {"init", "goto"} => Gaps(P, U) = {}
  BY <1>4, GapsStay DEF PageFits, P
<1>10. ASSUME p.dir = "old"
       PROVE  /\ \A a \in P : a < p.cur
              /\ \A y \in U \ P : \A a \in P : a < y => p.cur <= y
  BY <1>1, <1>5, <1>6, <1>10 DEF PageFits, P
<1>11. ASSUME p.dir \in Forward
       PROVE  /\ \A a \in P : p.cur < a
              /\ \A y \in U \ P : \A a \in P : y < a => y <= p.cur
              /\ P = {} => Seen(q \o F, p.cur, i, m, c)
  <2>1. P = {} => Seen(q \o F, p.cur, i, m, c)
    BY <1>1, <1>5, <1>11, LaterGrows DEF PageFits, P
  <2>2. \A y \in U \ P : \A a \in P : y < a => y \in T
    BY <1>1, <1>6, <1>7
  <2> QED BY <1>11, <2>1, <2>2 DEF PageFits, P
<1> QED BY <1>2, <1>8, <1>9, <1>10, <1>11 DEF PageFits, P

LEMMA FramesGrow ==
    ASSUME NEW q, NEW F, NEW T, NEW U, NEW n, NEW m, NEW b, NEW c,
           Step(q, F, T, U, n, m, b, c), NEW R \in SUBSET Ts, NEW D \in SUBSET Request,
           \A r \in R : r <= n, \A p \in D : p.dir = "old" => p.cur <= n,
           Frames(R, D, q, T, n, b), Sent(F, D, U, m, c)
    PROVE  Frames(R, D, q \o F, U, m, c)
<1> DEFINE Q == q \o F
<1>1. /\ q \in Seq(Frame) /\ F \in Seq(Frame) /\ n \in Nat /\ m \in Nat /\ n <= m
      /\ U \in SUBSET Ts /\ T \in SUBSET Ts /\ Tells(F, T, U, n, m, b, c)
  BY DEF Step, Tells
<1>2. /\ Q \in Seq(Frame) /\ Len(Q) = Len(q) + Len(F) /\ Len(q) \in Nat /\ Len(F) \in Nat
      /\ \A j \in 1..Len(q) : Q[j] = q[j]
      /\ \A j \in 1..Len(Q) : j \notin 1..Len(q) =>
            j - Len(q) \in 1..Len(F) /\ Q[j] = F[j - Len(q)]
  BY <1>1, BehindConcat
<1>3. \A j \in 1..Len(F) : Len(q) + j \in 1..Len(Q) /\ Q[Len(q) + j] = F[j]
  BY ConcatProperties, <1>1, <1>2
<1>4. \A j \in 1..Len(q) : \A t \in Shown(q[j]) : t <= n
  BY DEF Frames
<1> HIDE DEF Q
<1>5. \A j \in 1..Len(Q) : Q[j] \in Frame
  BY <1>2, ElementOfSeq
<1>6. ASSUME NEW j \in 1..Len(Q), NEW t \in Shown(Q[j])  PROVE t <= m
  <2>1. t \in Nat
    BY <1>5, <1>6, FrameNumbers, TsNat
  <2>2. CASE j \in 1..Len(q)
    BY <1>1, <1>2, <1>4, <1>6, <2>1, <2>2
  <2>3. CASE j \notin 1..Len(q)
    BY <1>1, <1>2, <1>6, <2>3 DEF Tells
  <2> QED BY <2>2, <2>3
<1>7. ASSUME NEW i \in 1..Len(Q)
      PROVE  /\ Paired(Q, i) /\ Rises(R, Q, i)
             /\ Q[i].k = "Tail" => Reaches(Q, Q[i].ts, i, U, m, c)
             /\ Q[i].k = "result" => \A p \in D : p.tok = Q[i].tok => PageFits(Q, i, p, U, m, c)
  <2>1. CASE i \in 1..Len(q)
    <3>1. Q[i] = q[i] /\ q[i] \in Frame /\ i \in 0..Len(q)
      BY <1>2, <1>5, <2>1
    <3>2. /\ Paired(q, i) /\ Rises(R, q, i)
          /\ q[i].k = "Tail" => Reaches(q, q[i].ts, i, T, n, b)
          /\ q[i].k = "result" => \A p \in D : p.tok = q[i].tok => PageFits(q, i, p, T, n, b)
      BY <2>1 DEF Frames
    <3>3. Paired(Q, i)
      BY <1>2, <2>1, <3>1, <3>2 DEF Paired
    <3>4. Rises(R, Q, i)
      BY <1>2, <2>1, <3>1, <3>2 DEF Rises
    <3>5. q[i].k = "Tail" => Reaches(Q, q[i].ts, i, U, m, c)
      BY <1>4, <3>1, <3>2, FrameNumbers, TsNat, ReachesGrows DEF Q
    <3>6. q[i].k = "result" => \A p \in D : p.tok = q[i].tok => PageFits(Q, i, p, U, m, c)
      BY <1>4, <2>1, <3>2, PageStaysFit DEF Q
    <3> QED BY <3>1, <3>3, <3>4, <3>5, <3>6
  <2>2. CASE i \notin 1..Len(q)
    <3> DEFINE j == i - Len(q)
    <3>1. j \in 1..Len(F) /\ Q[i] = F[j] /\ i = Len(q) + j /\ j \in Nat
      BY <1>2, <2>2
    <3> HIDE DEF j
    <3>2. Q[i] \in Frame
      BY <1>5
    <3>3. Paired(F, j) /\ (F[j].k \in {"New", "Tail"} => F[j].ts = m)
      BY <1>1, <3>1 DEF Tells
    <3>4. Paired(Q, i)
      <4>1. j + 1 \in 1..Len(F) => i + 1 \in 1..Len(Q) /\ Q[i + 1] = F[j + 1]
        BY <1>2, <1>3, <3>1
      <4> QED BY <3>1, <3>3, <4>1 DEF Paired
    <3>5. Rises(R, Q, i)
      <4>1. \A r \in R : r <= m
        BY <1>1, TsNat
      <4> QED BY <1>6, <3>1, <3>3, <4>1 DEF Rises
    <3>6. Q[i].k = "Tail" => Reaches(Q, Q[i].ts, i, U, m, c)
      <4>1. m <= m /\ (Q[i].k = "Tail" => Q[i].ts = m)
        BY <1>1, <3>1, <3>3
      <4>2. Reaches(Q, m, i, U, m, c)
        BY <1>1, <1>2, <1>6, <4>1, TopReaches
      <4> QED BY <4>1, <4>2
    <3>7. ASSUME Q[i].k = "result", NEW p \in D, p.tok = Q[i].tok  PROVE PageFits(Q, i, p, U, m, c)
      <4> DEFINE P == Q[i].page
      <4>1. /\ p.dir = "init" /\ P # {} => m <= Newest(P)
            /\ p.dir \in {"init", "goto"} => Gaps(P, U) = {}
            /\ p.dir = "old" => /\ \A a \in P : a < p.cur
                                /\ \A y \in U \ P : \A a \in P : a < y => p.cur <= y
            /\ p.dir \in Forward =>
                 /\ \A a \in P : p.cur < a
                 /\ \A y \in U \ P : \A a \in P : y < a => y <= p.cur
                 /\ P = {} => m <= p.cur \/ c
        BY <3>1, <3>7 DEF Sent, SentPage
      <4>2. P \in SUBSET Ts
        BY <3>2, <3>7, FrameNumbers
      <4> HIDE DEF P
      <4>3. Newest(P) \in Nat
        BY <4>2, Ends
      <4>4. p.dir = "init" /\ P # {} => Reaches(Q, Newest(P), i, U, m, c)
        BY <1>1, <1>2, <1>6, <4>1, <4>3, TopReaches
      <4> QED BY <4>1, <4>4 DEF PageFits, P, Seen, Later
    <3> QED BY <3>4, <3>5, <3>6, <3>7
  <2> QED BY <2>1, <2>2
<1> QED BY <1>6, <1>7 DEF Frames, Q

\* The window stays as it was, and what is said of it stays true.
LEMMA WindowStays ==
    ASSUME NEW q, NEW F, NEW T, NEW U, NEW n, NEW m, NEW b, NEW c,
           Step(q, F, T, U, n, m, b, c), NEW v \in Window, NEW h,
           Under(v, n), Whole(v, h, T)
    PROVE  /\ Under(v, m) /\ Whole(v, h, U)
           /\ Edge(v, h, q, T, n, b) /\ Frames(v.rows, v.pending, q, T, n, b) =>
                 Edge(v, h, q \o F, U, m, c)
<1>1. /\ q \in Seq(Frame) /\ F \in Seq(Frame) /\ n \in Nat /\ m \in Nat /\ n <= m
      /\ U \in SUBSET Ts /\ T \in SUBSET Ts
  BY DEF Step, Tells
<1>2. /\ v.rows \in SUBSET Ts /\ v.pending \in SUBSET Request /\ v.tailTs \in Ts \cup {0}
  BY DEF Window
<1>3. Under(v, m)
  <2>1. \A r \in v.rows : r <= m
    BY <1>1, <1>2, TsNat DEF Under
  <2>2. ASSUME NEW p \in v.pending, p.dir = "old"  PROVE p.cur <= m
    <3>1. p.cur \in Nat /\ p.cur <= n
      BY <1>2, <2>2, TsNat DEF Under, Request
    <3> QED BY <1>1, <3>1
  <2> QED BY <2>1, <2>2 DEF Under
<1>4. Gaps(v.rows, U) \subseteq Gaps(v.rows, T)
  BY <1>2, GapsStay DEF Under
<1>5. Whole(v, h, U)
  BY <1>4 DEF Whole
<1>6. ASSUME Edge(v, h, q, T, n, b), Frames(v.rows, v.pending, q, T, n, b)
      PROVE  Edge(v, h, q \o F, U, m, c)
  <2>1. \A j \in 1..Len(q) : \A t \in Shown(q[j]) : t <= n
    BY <1>6 DEF Frames
  <2>2. 0 \in 0..Len(q) /\ v.tailTs \in Nat /\ Newest(v.rows) \in Nat
    BY <1>1, <1>2, Ends, LenProperties, TsNat
  <2>3. v.tailTs <= m
    BY <1>1, <1>6, <2>2 DEF Edge
  <2>4. v.tailTs # 0 => Reaches(q \o F, v.tailTs, 0, U, m, c)
    BY <1>6, <2>1, <2>2, ReachesGrows DEF Edge
  <2>5. TailFirst(q) => TailFirst(q \o F)
    <3>1. /\ Len(q \o F) = Len(q) + Len(F) /\ Len(q) \in Nat /\ Len(F) \in Nat
          /\ \A j \in 1..Len(q) : (q \o F)[j] = q[j]
      BY <1>1, BehindConcat
    <3> QED BY <3>1 DEF TailFirst
  <2>6. Reaches(q, Newest(v.rows), 0, T, n, b) => Reaches(q \o F, Newest(v.rows), 0, U, m, c)
    BY <2>1, <2>2, ReachesGrows
  <2>7. Seen(q, Newest(v.rows), 0, n, b) => Seen(q \o F, Newest(v.rows), 0, m, c)
    BY <2>2, LaterGrows
  <2> QED BY <1>6, <2>3, <2>4, <2>5, <2>6, <2>7 DEF Edge
<1> QED BY <1>3, <1>5, <1>6

-----------------------------------------------------------------------------
(* The backend's pages.                                                     *)

LEMMA TsFinite ==
    ASSUME NEW S \in SUBSET Ts
    PROVE  IsFiniteSet(S)
<1>1. IsFiniteSet(Ts)
  BY ChatWindowAssumption, FS_Interval DEF Ts, ChatWindowAssumption
<1> QED BY <1>1, FS_Subset

\* The last n of a set have with each element every later one, and the first n
\* every earlier one.
LEMMA LastUpward ==
    ASSUME NEW S \in SUBSET Ts, NEW n \in Nat, NEW a \in Last(S, n), NEW y \in S, a <= y
    PROVE  y \in Last(S, n)
<1> DEFINE A == {x \in S : x > a}
           Y == {x \in S : x > y}
<1>1. a \in Nat /\ y \in Nat /\ \A x \in S : x \in Nat
  BY TsNat DEF Last
<1>2. Y \subseteq A
  <2>1. ASSUME NEW x \in S, x > y  PROVE x > a
    BY <1>1, <2>1
  <2> QED BY <2>1
<1>3. IsFiniteSet(A)
  BY TsFinite
<1>4. Cardinality(A) < n
  BY DEF Last
<1> HIDE DEF A, Y
<1>5. Cardinality(Y) <= Cardinality(A) /\ IsFiniteSet(Y)
  BY <1>2, <1>3, FS_Subset
<1>6. Cardinality(A) \in Nat /\ Cardinality(Y) \in Nat
  BY <1>3, <1>5, FS_CardinalityType
<1>7. Cardinality(Y) < n
  BY <1>4, <1>5, <1>6
<1>8. Cardinality({x \in S : x > y}) < n
  BY <1>7 DEF Y
<1> QED BY <1>8, Zenon DEF Last

LEMMA FirstDownward ==
    ASSUME NEW S \in SUBSET Ts, NEW n \in Nat, NEW a \in First(S, n), NEW y \in S, y <= a
    PROVE  y \in First(S, n)
<1> DEFINE A == {x \in S : x < a}
           Y == {x \in S : x < y}
<1>1. a \in Nat /\ y \in Nat /\ \A x \in S : x \in Nat
  BY TsNat DEF First
<1>2. Y \subseteq A
  <2>1. ASSUME NEW x \in S, x < y  PROVE x < a
    BY <1>1, <2>1
  <2> QED BY <2>1
<1>3. IsFiniteSet(A)
  BY TsFinite
<1>4. Cardinality(A) < n
  BY DEF First
<1> HIDE DEF A, Y
<1>5. Cardinality(Y) <= Cardinality(A) /\ IsFiniteSet(Y)
  BY <1>2, <1>3, FS_Subset
<1>6. Cardinality(A) \in Nat /\ Cardinality(Y) \in Nat
  BY <1>3, <1>5, FS_CardinalityType
<1>7. Cardinality(Y) < n
  BY <1>4, <1>5, <1>6
<1>8. Cardinality({x \in S : x < y}) < n
  BY <1>7 DEF Y
<1> QED BY <1>8, Zenon DEF First

\* The first of a set that is not empty are not none.
LEMMA FirstSome ==
    ASSUME NEW S \in SUBSET Ts, S # {}, NEW n \in Nat \ {0}
    PROVE  First(S, n) # {}
<1>1. Oldest(S) \in S /\ Oldest(S) \in Nat /\ \A x \in S : x \in Nat /\ Oldest(S) <= x
  BY Ends
<1>2. {x \in S : x < Oldest(S)} = {}
  BY <1>1
<1>3. Cardinality({}) = 0
  BY FS_EmptySet
<1>4. Oldest(S) \in First(S, n)
  BY <1>1, <1>2, <1>3 DEF First
<1> QED BY <1>4

\* No page skips a message on the way out, an opening page that brings something
\* brings the newest stored, and a forward page that brings nothing has reached it,
\* or a message it may not skip is still missed.
LEMMA PageShape ==
    ASSUME TypeOK, NEW p \in Request, NEW P \in Pages(p)
    PROVE  /\ P \in SUBSET Ts /\ P \subseteq Truth
           /\ p.dir = "init" => P \subseteq store
           /\ p.dir = "init" /\ P # {} => Newest(store) <= Newest(P)
           /\ p.dir \in {"init", "goto"} => Gaps(P, Truth) = {}
           /\ p.dir = "old" => /\ \A a \in P : a < p.cur
                               /\ \A y \in Truth \ P : \A a \in P : a < y => p.cur <= y
           /\ p.dir \in Forward =>
                /\ P \subseteq store
                /\ \A a \in P : p.cur < a
                /\ \A y \in Truth \ P : \A a \in P : y < a => y <= p.cur
                /\ P = {} => Newest(store) <= p.cur \/ missed # {}
<1>1. /\ store \in SUBSET Ts /\ missed \in SUBSET Ts /\ Truth \in SUBSET Ts
      /\ p.cur \in Nat /\ PageSize \in Nat \ {0} /\ PageSize \in Nat
  BY ChatWindowAssumption, TsNat DEF TypeOK, Truth, Request, ChatWindowAssumption
<1>2. \A x \in Truth : x \in Nat
  BY <1>1, TsNat
<1>3. CASE p.dir = "init"
  <2> DEFINE S == {m \in store : \A x \in missed : x < m}
  <2>1. P = Last(S, PageSize) /\ S \in SUBSET Ts /\ S \subseteq store
    BY <1>1, <1>3 DEF Pages
  <2>2. P \subseteq S
    BY <2>1 DEF Last
  <2>3. ASSUME NEW a \in P, NEW y \in Truth, a <= y  PROVE y \in P
    <3>1. a \in S /\ a \in Truth
      BY <2>1, <2>2 DEF Truth
    <3>2. y \notin missed
      BY <1>2, <2>3, <3>1
    <3>3. \A x \in missed : x \in Truth
      BY DEF Truth
    <3>4. y \in S
      BY <1>2, <2>3, <3>1, <3>2, <3>3 DEF Truth
    <3> QED BY <1>1, <2>1, <2>3, <3>4, LastUpward
  <2> HIDE DEF S
  <2>4. P \in SUBSET Ts /\ P \subseteq Truth
    BY <1>1, <2>1, <2>2 DEF Truth
  <2>5. ASSUME P # {}  PROVE Newest(store) <= Newest(P)
    <3>1. PICK a \in P : TRUE
      BY <2>5
    <3>2. a \in store
      BY <2>1, <2>2, <3>1
    <3>3. Newest(store) \in store /\ a <= Newest(store)
      BY <1>1, <3>2, Ends
    <3>4. Newest(store) \in P
      BY <2>3, <3>3 DEF Truth
    <3> QED BY <2>4, <3>4, Ends
  <2>6. Gaps(P, Truth) = {}
    BY <1>2, <2>3, <2>4 DEF Gaps
  <2> QED BY <1>3, <2>1, <2>2, <2>4, <2>5, <2>6 DEF Forward
<1>4. CASE p.dir = "old"
  <2> DEFINE S == {m \in Truth : m < p.cur}
  <2>1. P = Last(S, PageSize) /\ S \in SUBSET Ts /\ S \subseteq Truth
    BY <1>1, <1>4 DEF Pages
  <2>2. P \subseteq S
    BY <2>1 DEF Last
  <2>3. ASSUME NEW y \in Truth \ P, NEW a \in P, a < y  PROVE p.cur <= y
    <3>1. y \in S => y \in P
      BY <1>1, <1>2, <2>1, <2>2, <2>3, LastUpward
    <3> QED BY <1>1, <1>2, <2>3, <3>1
  <2> QED BY <1>1, <1>4, <2>1, <2>2, <2>3 DEF Forward
<1>5. CASE p.dir \in Forward
  <2> DEFINE S == {m \in store : p.cur < m /\ Between(missed, p.cur, m) = {}}
  <2>1. P = First(S, PageSize) /\ S \in SUBSET Ts /\ S \subseteq store
    BY <1>1, <1>5 DEF Pages, Forward
  <2>2. P \subseteq S
    BY <2>1 DEF First
  <2>3. ASSUME NEW y \in Truth \ P, NEW a \in P, y < a  PROVE y <= p.cur
    <3>1. a \in S /\ a \in Truth /\ a \in Nat /\ y \in Nat
      BY <1>2, <2>1, <2>2 DEF Truth
    <3>2. ASSUME p.cur < y  PROVE FALSE
      <4>1. Between(missed, p.cur, a) = {}
        BY <3>1
      <4>2. y \notin missed
        BY <2>3, <3>2, <4>1 DEF Between
      <4>3. Between(missed, p.cur, y) \subseteq Between(missed, p.cur, a)
        <5>1. \A x \in missed : x \in Nat
          BY <1>1, TsNat
        <5>2. ASSUME NEW x \in missed, x < y  PROVE x < a
          BY <2>3, <3>1, <5>1, <5>2
        <5> QED BY <5>2 DEF Between
      <4>4. y \in S
        BY <2>3, <3>2, <4>1, <4>2, <4>3 DEF Truth
      <4> QED BY <1>1, <2>1, <2>3, <3>1, <4>4, FirstDownward
    <3> QED BY <1>1, <3>1, <3>2
  <2>4. ASSUME P = {}, missed = {}  PROVE Newest(store) <= p.cur
    <3>1. S = {}
      BY <1>1, <2>1, <2>4, FirstSome
    <3>2. \A m \in store : ~(p.cur < m)
      BY <2>4, <3>1 DEF Between
    <3>3. CASE store = {}
      BY <1>1, <3>3 DEF Newest
    <3>4. CASE store # {}
      <4>1. Newest(store) \in store /\ Newest(store) \in Nat
        BY <1>1, <3>4, Ends
      <4> QED BY <1>1, <3>2, <4>1
    <3> QED BY <3>3, <3>4
  <2>5. \A a \in P : p.cur < a
    BY <2>2
  <2> HIDE DEF S
  <2>6. P \in SUBSET Ts /\ P \subseteq Truth /\ P \subseteq store
    BY <1>1, <2>1, <2>2 DEF Truth
  <2> QED BY <1>5, <2>3, <2>4, <2>5, <2>6 DEF Forward
<1>6. CASE p.dir = "goto"
  <2>1. P = {} \/ (P \subseteq Truth /\ Contig(P))
    BY <1>6 DEF Pages, Slices
  <2>2. Gaps(P, Truth) = {}
    <3>1. ASSUME Contig(P), NEW y \in Truth \ P, NEW a \in P, NEW z \in P, a < y, y < z
          PROVE  FALSE
      <4>1. y \in Between(Truth, a, z)
        BY <3>1 DEF Between
      <4> QED BY <3>1, <4>1 DEF Contig
    <3> QED BY <2>1, <3>1 DEF Gaps
  <2> QED BY <1>1, <1>6, <2>1, <2>2 DEF Forward
<1> QED BY <1>3, <1>4, <1>5, <1>6 DEF Request, Dirs, Forward

-----------------------------------------------------------------------------
(* The backend's steps.                                                     *)

\* What a step of the backend's has to do with the frames it sends.
Makes(F) ==
    /\ w' = w /\ cause' = cause /\ linkUp' = linkUp /\ Emit(F)
    /\ Tells(F, Truth, Truth', Newest(store), Newest(store'), Coming, Coming')
    /\ Sent(F, w.pending, Truth', Newest(store'), Coming')

Mute == {"error", "Edited", "CatchupStarted", "CatchupDone", "State"}

LEMMA MuteShows ==
    ASSUME NEW f, f.k \in Mute
    PROVE  Shown(f) = {} /\ f.k \notin {"New", "Tail", "Confirmed", "result"}
BY DEF Mute, Shown, Shows

\* A step that stores nothing, and says at most what the tail is.
LEMMA MuteMakes ==
    ASSUME TypeOK, NEW F \in Seq(Frame), w' = w, cause' = cause, linkUp' = linkUp, Emit(F),
           store' = store, \A x \in Truth' : x \in Truth \/ Newest(store) < x,
           Coming => Coming' \/ Behind(F, 0, Ended),
           \A j \in 1..Len(F) : F[j].k \in Mute \/ F[j] = TailAt(Newest(store))
    PROVE  Makes(F)
<1> DEFINE n == Newest(store)
<1>1. n \in Nat /\ n <= n
  BY Ends DEF TypeOK
<1>2. ASSUME NEW f, f = TailAt(n)  PROVE Shown(f) = {n} /\ f.k = "Tail" /\ f.ts = n
  <2>1. f.k = "Tail" /\ f.ts = n
    BY <1>2 DEF TailAt
  <2> QED BY <2>1 DEF Shown
<1> HIDE DEF n
<1>3. ASSUME NEW j \in 1..Len(F)
      PROVE  /\ \A t \in Shown(F[j]) : t <= n
             /\ F[j].k \notin {"New", "Confirmed", "result"}
             /\ F[j].k = "Tail" => F[j].ts = n
  <2>1. CASE F[j].k \in Mute
    BY <2>1, MuteShows
  <2>2. CASE F[j] = TailAt(n)
    BY <1>1, <1>2, <2>2
  <2> QED BY <2>1, <2>2 DEF n
<1>4. Newest(store') = n
  BY DEF n
<1>5. Sent(F, w.pending, Truth', Newest(store'), Coming')
  BY <1>3 DEF Sent, SentPage
<1>6. Tells(F, Truth, Truth', n, n, Coming, Coming')
  <2>1. \A j \in 1..Len(F) : Paired(F, j)
    BY <1>3 DEF Paired
  <2> QED BY <1>1, <1>3, <2>1 DEF Tells, n
<1> QED BY <1>4, <1>5, <1>6 DEF Makes, n

LEMMA NewestIs ==
    ASSUME NEW S \in SUBSET Ts, NEW x \in S, \A y \in S : y <= x
    PROVE  Newest(S) = x
<1>1. Newest(S) \in S /\ Newest(S) \in Nat /\ x <= Newest(S) /\ x \in Nat
  BY Ends
<1> QED BY <1>1

\* A message gets a place beyond every other, and the window is told at once.
LEMMA LiveMakes ==
    ASSUME TypeOK, w' = w, cause' = cause, linkUp' = linkUp, Coming' = Coming,
           NextTs \in Ts, store' \subseteq store \cup {NextTs}, NextTs \in store',
           missed' = missed,
           NEW f \in Frame, f.k \in {"New", "Confirmed"}, Shown(f) = {NextTs},
           f.k = "New" => f.ts = NextTs /\ (~f.syncing => missed = {}),
           f \in Makers(NextTs), Emit(<<f, TailAt(NextTs)>>)
    PROVE  \E F \in Seq(Frame) : Makes(F)
<1> DEFINE n == Newest(store)
           m == NextTs
           g == TailAt(NextTs)
           F == <<f, g>>
<1>1. /\ store \in SUBSET Ts /\ Truth \in SUBSET Ts /\ n \in Nat /\ m \in Nat
      /\ \A x \in Truth : x < m
  <2>1. store \in SUBSET Ts /\ Truth \in SUBSET Ts
    BY DEF TypeOK, Truth
  <2>2. Newest(Truth) \in Nat /\ \A x \in Truth : x \in Nat /\ x <= Newest(Truth)
    BY <2>1, Ends
  <2>3. m = Newest(Truth) + 1 /\ n \in Nat
    BY <2>1, Ends DEF NextTs
  <2> QED BY <2>1, <2>2, <2>3
<1>2. n <= m /\ n # m
  <2>1. CASE store = {}
    <3>1. n = 0 /\ 0 < m
      BY <2>1, TsNat DEF Newest
    <3> QED BY <1>1, <3>1
  <2>2. CASE store # {}
    <3>1. n \in store
      BY <1>1, <2>2, Ends
    <3>2. n < m
      BY <1>1, <3>1 DEF Truth
    <3> QED BY <1>1, <3>2
  <2> QED BY <2>1, <2>2
<1>3. Newest(store') = m
  <2>1. store' \in SUBSET Ts /\ \A y \in store' : y <= m
    <3>1. \A y \in store' : y \in Truth \/ y = m
      BY DEF Truth
    <3> QED BY <1>1, <3>1, TsNat
  <2> QED BY <2>1, NewestIs
<1>4. \A x \in Truth' : x \in Truth \/ x = m
  BY DEF Truth
<1>5. g \in Frame /\ g.k = "Tail" /\ g.ts = m /\ Shown(g) = {m}
  <2>1. g = [k |-> "Tail", ts |-> m]
    BY DEF TailAt
  <2> HIDE DEF g
  <2>2. g.k = "Tail" /\ g.ts = m
    BY <2>1
  <2> QED BY <2>1, <2>2 DEF Frame, Shown
<1>6. Emit(F)
  OBVIOUS
<1> HIDE DEF g, m, n
<1>7. F \in Seq(Frame) /\ Len(F) = 2 /\ F[1] = f /\ F[2] = g
  BY <1>5
<1>8. Behind(F, 0, Makers(m))
  BY <1>5, TwoFrames DEF m
<1> HIDE DEF F
<1>9. ASSUME NEW j \in 1..2
      PROVE  /\ \A t \in Shown(F[j]) : t <= m
             /\ Paired(F, j)
             /\ F[j].k \in {"New", "Tail"} => F[j].ts = m
             /\ F[j].k = "New" /\ ~F[j].syncing => \A x \in Truth' : x <= n \/ m <= x
             /\ F[j].k \notin {"New", "Confirmed"} /\ NoTail(F, 0, j) => n = m
             /\ F[j].k # "result"
  <2>1. CASE j = 1
    <3>1. F[j] = f /\ F[j + 1] = g /\ j + 1 \in 1..Len(F)
      BY <1>7, <2>1
    <3>2. \A t \in Shown(f) : t <= m
      BY <1>1 DEF m
    <3>3. f.k = "New" /\ ~f.syncing => \A x \in Truth' : x <= n \/ m <= x
      <4>1. ASSUME missed = {}, NEW x \in Truth'  PROVE x <= n \/ m <= x
        <5>1. x \in store \/ x = m
          BY <1>4, <4>1 DEF Truth
        <5>2. x \in store => x <= n
          BY <1>1, Ends DEF n
        <5> QED BY <1>1, <5>1, <5>2
      <4> QED BY <4>1 DEF m
    <3>4. Paired(F, j)
      BY <1>5, <3>1 DEF Paired, m
    <3> QED BY <3>1, <3>2, <3>3, <3>4 DEF m
  <2>2. CASE j = 2
    <3>1. F[j] = g
      BY <1>7, <2>2
    <3>2. ~NoTail(F, 0, j)
      BY <1>5, <1>7, <2>2 DEF NoTail
    <3>3. \A t \in Shown(g) : t <= m
      BY <1>1, <1>5
    <3> QED BY <1>5, <3>1, <3>2, <3>3 DEF Paired
  <2> QED BY <2>1, <2>2
<1>10. ~NoTail(F, 0, Len(F))
  BY <1>5, <1>7 DEF NoTail
<1>11. Tells(F, Truth, Truth', n, m, Coming, Coming')
  <2>1. \A x \in Truth' : x \in Truth \/ n < x
    BY <1>1, <1>2, <1>4
  <2> QED BY <1>2, <1>7, <1>8, <1>9, <1>10, <2>1 DEF Tells
<1>12. Sent(F, w.pending, Truth', m, Coming')
  BY <1>7, <1>9 DEF Sent, SentPage
<1> QED BY <1>3, <1>6, <1>7, <1>11, <1>12 DEF Makes, n

\* A step that stores what the server has, says the tail if that changes it, and
\* goes on with the frames G, which show nothing but what is stored.
LEMMA StoreMakes ==
    ASSUME TypeOK, missed # {} => Coming, w' = w, cause' = cause, linkUp' = linkUp,
           NEW S \in SUBSET Truth, store' = store \cup S, missed' = missed \ S,
           Coming' = Coming, NEW G \in Seq(Frame), Emit(TailNews(store \cup S) \o G),
           \A j \in 1..Len(G) : /\ G[j].k \notin {"New", "Confirmed", "Tail"}
                                /\ Shown(G[j]) \subseteq store',
           Sent(G, w.pending, Truth', Newest(store'), Coming')
    PROVE  \E F \in Seq(Frame) : Makes(F)
<1> DEFINE n == Newest(store)
           m == Newest(store')
           N == TailNews(store \cup S)
           F == N \o G
<1>1. /\ store \in SUBSET Ts /\ store' \in SUBSET Ts /\ n \in Nat /\ m \in Nat
      /\ \A x \in store' : x \in Nat /\ x <= m
  <2>1. store \in SUBSET Ts /\ store' \in SUBSET Ts
    BY DEF TypeOK, Truth
  <2> QED BY <2>1, Ends
<1>2. n <= m
  BY <1>1, NewestGrows
<1>3. Truth' = Truth
  BY DEF Truth
<1>4. n # m => Coming'
  BY DEF Truth
<1>5. N \in Seq(Frame)
  BY <1>1, TailNewsType
<1>6. n = m => N = <<>>
  BY DEF TailNews
<1>7. ASSUME n # m  PROVE Len(N) = 1 /\ N[1].k = "Tail" /\ N[1].ts = m
  BY <1>7 DEF TailNews, TailAt
<1>8. Emit(F)
  OBVIOUS
<1> HIDE DEF n, m, N
<1>9. ASSUME NEW j \in 1..Len(N)  PROVE n # m /\ j = 1
  <2>1. CASE n = m
    <3>1. Len(N) = 0
      BY <1>6, <2>1
    <3> QED BY <3>1
  <2>2. CASE n # m
    <3>1. Len(N) = 1
      BY <1>7, <2>2
    <3> QED BY <2>2, <3>1
  <2> QED BY <2>1, <2>2
<1>10. /\ F \in Seq(Frame) /\ Len(F) = Len(N) + Len(G) /\ Len(N) \in Nat /\ Len(G) \in Nat
       /\ \A j \in 1..Len(N) : F[j] = N[j]
       /\ \A j \in 1..Len(F) : j \notin 1..Len(N) =>
             j - Len(N) \in 1..Len(G) /\ F[j] = G[j - Len(N)]
  BY <1>5, BehindConcat
<1> HIDE DEF F
<1>11. n # m => F[1].k = "Tail" /\ 1 \in 1..Len(F)
  <2>1. ASSUME n # m  PROVE 1 \in 1..Len(N) /\ N[1].k = "Tail"
    <3>1. Len(N) = 1 /\ N[1].k = "Tail"
      BY <1>7, <2>1
    <3> QED BY <3>1
  <2>2. 1 \in 1..Len(N) => F[1] = N[1] /\ 1 \in 1..Len(F)
    BY <1>10
  <2> QED BY <2>1, <2>2
<1>12. ASSUME NEW j \in 1..Len(F)
       PROVE  /\ \A t \in Shown(F[j]) : t <= m
              /\ F[j].k \notin {"New", "Confirmed"}
              /\ F[j].k = "Tail" => F[j].ts = m
              /\ F[j].k = "result" => j - Len(N) \in 1..Len(G) /\ F[j] = G[j - Len(N)]
  <2>1. CASE j \in 1..Len(N)
    <3>1. F[j].k = "Tail" /\ F[j].ts = m
      BY <1>7, <1>9, <1>10, <2>1
    <3>2. \A t \in Shown(F[j]) : t = m
      BY <3>1 DEF Shown
    <3> QED BY <1>1, <3>1, <3>2
  <2>2. CASE j \notin 1..Len(N)
    <3>1. F[j] = G[j - Len(N)] /\ j - Len(N) \in 1..Len(G)
      BY <1>10, <2>2
    <3>2. F[j].k \notin {"New", "Confirmed", "Tail"} /\ Shown(F[j]) \subseteq store'
      BY <3>1
    <3> QED BY <1>1, <3>1, <3>2
  <2> QED BY <2>1, <2>2
<1>13. Sent(F, w.pending, Truth', m, Coming')
  <2>1. Sent(G, w.pending, Truth', m, Coming')
    BY DEF m
  <2>2. \A j \in 1..Len(F) : F[j].k = "result" => \E i \in 1..Len(G) : F[j] = G[i]
    BY <1>12
  <2>3. \A x, p : x.k # "result" => SentPage(x, p, Truth', m, Coming')
    BY DEF SentPage
  <2> QED BY <2>1, <2>2, <2>3 DEF Sent
<1>14. \A j \in 1..Len(F) : NoTail(F, 0, j) => n = m
  BY <1>11 DEF NoTail
<1>15. NoTail(F, 0, Len(F)) => n = m
  BY <1>11 DEF NoTail
<1>16. Tells(F, Truth, Truth', n, m, Coming, Coming')
  <2>1. \A j \in 1..Len(F) : Paired(F, j)
    BY <1>12 DEF Paired
  <2> QED BY <1>2, <1>3, <1>4, <1>12, <1>14, <1>15, <2>1 DEF Tells
<1> QED BY <1>8, <1>10, <1>13, <1>16 DEF Makes, n, m

LEMMA BackendMakes ==
    ASSUME Inv, FeedInv, Backend
    PROVE  \E F \in Seq(Frame) : Makes(F)
<1>1. TypeOK /\ wire \in Seq(Frame)
  BY InvIsGood DEF TypeOK
<1>2. /\ missed # {} => Coming
      /\ \A p \in asked : \A q \in w.pending : p.tok = q.tok => p = q
  BY DEF FeedInv, CatchupsEnd, TokensOK
<1>3. store \in SUBSET Ts /\ missed \in SUBSET Ts /\ Truth \in SUBSET Ts
  BY <1>1 DEF TypeOK, Truth
\* A step that sends f alone, stores nothing and closes no catchup.
<1>4. ASSUME NEW f \in Frame, f.k \in Mute, Emit(<<f>>), cause' = cause,
             UNCHANGED <<w, linkUp, store, missed>>, Coming => Coming' \/ f \in Ended
      PROVE  \E F \in Seq(Frame) : Makes(F)
  <2>1. Truth' = Truth
    BY <1>4 DEF Truth
  <2>2. /\ <<f>> \in Seq(Frame) /\ \A j \in 1..Len(<<f>>) : <<f>>[j] = f
        /\ f \in Ended => Behind(<<f>>, 0, Ended)
    BY <1>4, OneFrame
  <2>3. Makes(<<f>>)
    BY <1>1, <1>4, <2>1, <2>2, MuteMakes
  <2> QED BY <2>2, <2>3
\* A step that sends nothing, and stores nothing.
<1>5. ASSUME UNCHANGED <<w, linkUp, store, wire, cause>>, Coming => Coming',
             \A x \in Truth' : x \in Truth \/ Newest(store) < x
      PROVE  \E F \in Seq(Frame) : Makes(F)
  <2>1. Emit(<<>>) /\ <<>> \in Seq(Frame)
    BY <1>1, <1>5, ConcatEmptySeq DEF Emit
  <2>2. \A j : j \notin 1..Len(<<>>)
    OBVIOUS
  <2>3. Makes(<<>>)
    BY <1>1, <1>5, <2>1, <2>2, MuteMakes
  <2> QED BY <2>1, <2>3
<1>6. ASSUME NEW p \in asked, Answer(p)  PROVE \E F \in Seq(Frame) : Makes(F)
  <2>1. PICK P \in Pages(p) :
          /\ Store(P)
          /\ Emit(TailNews(store \cup P) \o
                  <<Result(p.tok, P, IF P = {} THEN 0 ELSE p.cur)>>)
    BY <1>6 DEF Answer
  <2> DEFINE a == IF P = {} THEN 0 ELSE p.cur
             f == Result(p.tok, P, a)
  <2>2. p \in Request
    BY <1>1 DEF TypeOK
  <2>3. /\ P \in SUBSET Ts /\ P \subseteq Truth
        /\ p.dir = "init" => P \subseteq store
        /\ p.dir = "init" /\ P # {} => Newest(store) <= Newest(P)
        /\ p.dir \in {"init", "goto"} => Gaps(P, Truth) = {}
        /\ p.dir = "old" => /\ \A x \in P : x < p.cur
                            /\ \A y \in Truth \ P : \A x \in P : x < y => p.cur <= y
        /\ p.dir \in Forward =>
             /\ P \subseteq store
             /\ \A x \in P : p.cur < x
             /\ \A y \in Truth \ P : \A x \in P : y < x => y <= p.cur
             /\ P = {} => Newest(store) <= p.cur \/ missed # {}
    BY <1>1, <2>2, PageShape
  <2>4. p.tok \in Nat /\ a \in Ts \cup {0}
    BY <2>2 DEF Request
  <2>5. f = [k |-> "result", tok |-> p.tok, page |-> P, anchor |-> a]
    BY DEF Result
  <2>6. Emit(TailNews(store \cup P) \o <<f>>)
    BY <2>1
  <2> HIDE DEF a, f
  <2>7. f \in Frame /\ f.k = "result" /\ f.page = P /\ f.tok = p.tok
    <3>1. f \in Frame
      BY <2>3, <2>4, <2>5 DEF Frame
    <3> QED BY <2>5, <3>1
  <2>8. <<f>> \in Seq(Frame) /\ \A j \in 1..Len(<<f>>) : <<f>>[j] = f
    BY <2>7, OneFrame
  <2>9. /\ store' = store \cup P /\ missed' = missed \ P
        /\ UNCHANGED <<w, linkUp, cause, streamUp, bracket>>
    BY <1>6, <2>1 DEF Answer, Store
  <2>10. Coming' = Coming /\ Truth' = Truth
    BY <2>3, <2>9 DEF Coming, Truth
  <2>11. P \subseteq store => Newest(store') = Newest(store)
    <3>1. P \subseteq store => store' = store
      BY <2>9
    <3> QED BY <3>1
  <2>12. Shown(f) \subseteq store'
    BY <2>7, <2>9 DEF Shown, Shows
  <2>13. /\ p.dir = "init" /\ P # {} => Newest(store') <= Newest(P)
         /\ p.dir \in Forward /\ P = {} => Newest(store') <= p.cur \/ Coming'
    BY <1>2, <2>3, <2>10, <2>11
  <2>14. Sent(<<f>>, w.pending, Truth', Newest(store'), Coming')
    <3>1. ASSUME NEW j \in 1..Len(<<f>>), NEW q \in w.pending, q.tok = <<f>>[j].tok
          PROVE  q = p /\ <<f>>[j].page = P
      BY <1>2, <2>7, <2>8, <3>1
    <3>2. SentPage(f, p, Truth', Newest(store'), Coming')
      <4> HIDE DEF Forward
      <4> QED BY <2>3, <2>7, <2>10, <2>13 DEF SentPage
    <3>3. \A x, q : q.tok # x.tok => SentPage(x, q, Truth', Newest(store'), Coming')
      BY DEF SentPage
    <3> QED BY <2>8, <3>1, <3>2, <3>3 DEF Sent
  <2>15. \A j \in 1..Len(<<f>>) : /\ <<f>>[j].k \notin {"New", "Confirmed", "Tail"}
                                  /\ Shown(<<f>>[j]) \subseteq store'
    BY <2>7, <2>8, <2>12
  <2> QED BY <1>1, <1>2, <2>3, <2>6, <2>8, <2>9, <2>10, <2>14, <2>15, StoreMakes
<1>7. ASSUME NEW p \in asked, Refuse(p)  PROVE \E F \in Seq(Frame) : Makes(F)
  <2>1. Error(p.tok) \in Frame /\ Error(p.tok).k \in Mute
    <3>1. p.tok \in Nat
      BY <1>1 DEF TypeOK, Request
    <3> QED BY <3>1 DEF Error, Frame, Mute
  <2> QED BY <1>4, <1>7, <2>1 DEF Refuse, backendVars, Coming
<1>8. ASSUME NEW p \in asked, Forget(p)  PROVE \E F \in Seq(Frame) : Makes(F)
  BY <1>5, <1>8 DEF Forget, backendVars, Coming, Truth
<1>9. ASSUME AnswerPull  PROVE \E F \in Seq(Frame) : Makes(F)
  <2> DEFINE s == State(streamUp)
             t == TailAt(Newest(store))
             F == <<s>> \o IF store = {} THEN <<>> ELSE <<t>>
  <2>1. s \in Frame /\ s.k \in Mute
    BY <1>1 DEF TypeOK, State, Frame, Mute
  <2>2. store # {} => t \in Frame
    BY <1>1, NewestIn DEF TypeOK, TailAt, Frame
  <2>3. Emit(F) /\ UNCHANGED <<w, linkUp, cause, store>> /\ Coming' = Coming /\ Truth' = Truth
    BY <1>9 DEF AnswerPull, backendVars, Coming, Truth
  <2> HIDE DEF s, t
  <2>4. F \in Seq(Frame) /\ \A j \in 1..Len(F) : F[j] = s \/ F[j] = t
    BY <2>1, <2>2
  <2> HIDE DEF F
  <2>5. \A j \in 1..Len(F) : F[j].k \in Mute \/ F[j] = TailAt(Newest(store))
    BY <2>1, <2>4 DEF t
  <2>6. Makes(F)
    BY <1>1, <2>3, <2>4, <2>5, MuteMakes
  <2> QED BY <2>4, <2>6
<1>10. ASSUME NextTs \in Ts, store' = store \cup {NextTs}, Emit(<<New(NextTs), TailAt(NextTs)>>),
              UNCHANGED <<w, linkUp, cause, missed, streamUp, bracket>>
       PROVE  \E F \in Seq(Frame) : Makes(F)
  <2> DEFINE f == New(NextTs)
  <2>1. f = [k |-> "New", ts |-> NextTs, syncing |-> missed # {}]
    BY DEF New
  <2>2. Coming' = Coming /\ Emit(<<f, TailAt(NextTs)>>)
    BY <1>10 DEF Coming
  <2> HIDE DEF f
  <2>3. f \in Frame
    BY <1>10, <2>1 DEF Frame
  <2>4. f \in Makers(NextTs)
    BY <2>1 DEF Makers
  <2>5. f.k = "New" /\ f.ts = NextTs /\ (~f.syncing => missed = {}) /\ Shown(f) = {NextTs}
    <3>1. f.k = "New" /\ f.ts = NextTs /\ (~f.syncing => missed = {})
      BY <2>1
    <3> QED BY <2>3, <3>1, FrameNumbers
  <2>6. /\ store' \subseteq store \cup {NextTs} /\ NextTs \in store'
        /\ w' = w /\ cause' = cause /\ linkUp' = linkUp /\ missed' = missed
    BY <1>10
  <2> QED BY <1>1, <1>10, <2>2, <2>3, <2>4, <2>5, <2>6, LiveMakes
<1>11. ASSUME RemoteMessage  PROVE \E F \in Seq(Frame) : Makes(F)
  <2>1. CASE streamUp
    BY <1>10, <1>11, <2>1 DEF RemoteMessage
  <2>2. CASE ~streamUp
    <3>1. /\ UNCHANGED <<w, linkUp, store, wire, cause>> /\ Coming' /\ missed' = missed \cup {NextTs}
      BY <1>11, <2>2 DEF RemoteMessage, Coming
    <3>2. Newest(store) <= Newest(Truth) /\ Newest(store) \in Nat /\ Newest(Truth) \in Nat
      BY <1>3, Ends, NewestGrows DEF Truth
    <3>3. NextTs = Newest(Truth) + 1
      BY DEF NextTs
    <3>4. \A x \in Truth' : x \in Truth \/ Newest(store) < x
      BY <3>1, <3>2, <3>3 DEF Truth
    <3> QED BY <1>5, <3>1, <3>4
  <2> QED BY <2>1, <2>2
<1>12. ASSUME OwnMessage  PROVE \E F \in Seq(Frame) : Makes(F)
  BY <1>10, <1>12 DEF OwnMessage
<1>13. ASSUME NEW t \in sends, Confirm(t)  PROVE \E F \in Seq(Frame) : Makes(F)
  <2> DEFINE f == [k |-> "Confirmed", ts |-> t, newTs |-> NextTs]
  <2>1. t \in Ts /\ NextTs \in Ts
    BY <1>1, <1>13 DEF TypeOK, Confirm
  <2>2. /\ f \in Frame /\ f \in Makers(NextTs) /\ f.k = "Confirmed" /\ f.newTs = NextTs
    BY <2>1 DEF Frame, Makers
  <2>3. /\ store' = (store \ {t}) \cup {NextTs} /\ Coming' = Coming /\ Emit(<<f, TailAt(NextTs)>>)
        /\ UNCHANGED <<w, linkUp, cause, missed>>
    BY <1>13 DEF Confirm, Coming
  <2> HIDE DEF f
  <2>4. Shown(f) = {NextTs}
    BY <2>2, FrameNumbers
  <2>5. store' \subseteq store \cup {NextTs} /\ NextTs \in store'
    BY <2>3
  <2> QED BY <1>1, <2>1, <2>2, <2>3, <2>4, <2>5, LiveMakes
<1>14. ASSUME NEW t \in store, Edit(t)  PROVE \E F \in Seq(Frame) : Makes(F)
  <2> DEFINE f == [k |-> "Edited", ts |-> t]
  <2>1. f \in Frame /\ f.k \in Mute
    BY <1>3 DEF Frame, Mute
  <2>2. Emit(<<f>>) /\ cause' = cause /\ UNCHANGED <<w, linkUp, store, missed>> /\ Coming' = Coming
    BY <1>14 DEF Edit, backendVars, Coming
  <2> HIDE DEF f
  <2> QED BY <1>4, <2>1, <2>2
<1>15. ASSUME StreamDown  PROVE \E F \in Seq(Frame) : Makes(F)
  <2>1. State(FALSE) \in Frame /\ State(FALSE).k \in Mute
    BY DEF State, Frame, Mute
  <2>2. /\ Emit(<<State(FALSE)>>) /\ cause' = cause /\ UNCHANGED <<w, linkUp, store, missed>>
        /\ Coming'
    BY <1>15 DEF StreamDown, Coming
  <2> QED BY <1>4, <2>1, <2>2
<1>16. ASSUME StreamUp  PROVE \E F \in Seq(Frame) : Makes(F)
  <2> DEFINE s == State(TRUE)
             t == CatchupStarted(TRUE)
  <2>1. s \in Frame /\ s.k \in Mute /\ t \in Frame /\ t.k \in Mute
    BY DEF State, CatchupStarted, Frame, Mute
  <2>2. /\ Emit(<<s, t>>) /\ UNCHANGED <<w, linkUp, cause, store>> /\ Coming' /\ Truth' = Truth
    BY <1>16 DEF StreamUp, Coming, Truth
  <2> HIDE DEF s, t
  <2>3. <<s, t>> \in Seq(Frame) /\ \A j \in 1..Len(<<s, t>>) : <<s, t>>[j] \in {s, t}
    BY <2>1, TwoFrames
  <2>4. \A j \in 1..Len(<<s, t>>) : <<s, t>>[j].k \in Mute
    BY <2>1, <2>3
  <2>5. Makes(<<s, t>>)
    BY <1>1, <2>2, <2>3, <2>4, MuteMakes
  <2> QED BY <2>3, <2>5
<1>17. ASSUME CatchupStore  PROVE \E F \in Seq(Frame) : Makes(F)
  <2> DEFINE S == {Oldest(missed)}
  <2>1. Oldest(missed) \in missed
    BY <1>3, <1>17, Ends DEF CatchupStore
  <2>2. S \in SUBSET Truth
    BY <2>1 DEF Truth
  <2>3. /\ store' = store \cup S /\ missed' = missed \ S /\ Coming' = Coming
        /\ UNCHANGED <<w, linkUp, cause>> /\ Emit(TailNews(store \cup S))
    BY <1>17 DEF CatchupStore, Store, Coming
  <2> HIDE DEF S
  <2>4. TailNews(store \cup S) \in Seq(Frame)
    BY <1>3, <2>2, TailNewsType
  <2>5. TailNews(store \cup S) \o <<>> = TailNews(store \cup S) /\ <<>> \in Seq(Frame)
    BY <2>4, ConcatEmptySeq
  <2>6. \A j : j \notin 1..Len(<<>>)
    OBVIOUS
  <2>7. Sent(<<>>, w.pending, Truth', Newest(store'), Coming')
    BY <2>6 DEF Sent
  <2> QED BY <1>1, <1>2, <2>2, <2>3, <2>5, <2>6, <2>7, StoreMakes
<1>18. ASSUME CatchupEnd  PROVE \E F \in Seq(Frame) : Makes(F)
  <2>1. CatchupDone(TRUE) \in Frame /\ CatchupDone(TRUE).k \in Mute
    BY DEF CatchupDone, Frame, Mute
  <2>2. Emit(<<CatchupDone(TRUE)>>) /\ cause' = cause /\ UNCHANGED <<w, linkUp, store, missed>>
    BY <1>18 DEF CatchupEnd
  <2> QED BY <1>4, <2>1, <2>2 DEF Ended
<1>19. ASSUME ForeignCatchup  PROVE \E F \in Seq(Frame) : Makes(F)
  <2>1. CatchupDone(FALSE) \in Frame /\ CatchupDone(FALSE).k \in Mute
    BY DEF CatchupDone, Frame, Mute
  <2>2. /\ Emit(<<CatchupDone(FALSE)>>) /\ cause' = cause /\ UNCHANGED <<w, linkUp, store, missed>>
        /\ Coming' = Coming
    BY <1>19 DEF ForeignCatchup, backendVars, Coming
  <2> QED BY <1>4, <2>1, <2>2
<1> QED BY <1>6, <1>7, <1>8, <1>9, <1>11, <1>12, <1>13, <1>14, <1>15, <1>16, <1>17, <1>18, <1>19
     DEF Backend

LEMMA BackendExtent == Inv /\ FeedInv /\ ExtentInv /\ Backend => ExtentInv'
<1> SUFFICES ASSUME Inv, FeedInv, ExtentInv, Backend  PROVE ExtentInv'
  OBVIOUS
<1> DEFINE n == Newest(store)
           m == Newest(store')
<1>1. PICK F \in Seq(Frame) : Makes(F)
  BY BackendMakes
<1>2. TypeOK /\ TypeOK' /\ wire \in Seq(Frame) /\ w \in Window
  BY InvIsGood, BackendInv DEF TypeOK, Inv
<1>3. /\ Truth \in SUBSET Ts /\ Truth' \in SUBSET Ts /\ n \in Nat /\ m \in Nat
      /\ Coming \in BOOLEAN /\ Coming' \in BOOLEAN
  BY <1>2, Ends DEF TypeOK, Truth, Coming
<1>4. /\ w' = w /\ cause' = cause /\ linkUp' = linkUp /\ Emit(F)
      /\ Tells(F, Truth, Truth', n, m, Coming, Coming')
      /\ Sent(F, w.pending, Truth', m, Coming')
  BY <1>1 DEF Makes
<1>5. w.rows \in SUBSET Ts /\ w.pending \in SUBSET Request
  BY <1>2 DEF Window
<1> HIDE DEF n, m
<1>6. Step(wire, F, Truth, Truth', n, m, Coming, Coming')
  BY <1>2, <1>3, <1>4 DEF Step
<1>7. /\ Under(w, n) /\ Held(w, cause) /\ Whole(w, cause, Truth)
      /\ linkUp => /\ Edge(w, cause, wire, Truth, n, Coming)
                   /\ Frames(w.rows, w.pending, wire, Truth, n, Coming)
  BY DEF ExtentInv, n
<1>8. /\ Under(w, m) /\ Whole(w, cause, Truth')
      /\ linkUp => Edge(w, cause, wire \o F, Truth', m, Coming')
  BY <1>2, <1>6, <1>7, WindowStays
<1>9. ASSUME linkUp  PROVE Frames(w.rows, w.pending, wire \o F, Truth', m, Coming')
  <2>1. (\A r \in w.rows : r <= n) /\ (\A p \in w.pending : p.dir = "old" => p.cur <= n)
    BY <1>7 DEF Under
  <2> QED BY <1>4, <1>5, <1>6, <1>7, <1>9, <2>1, FramesGrow
<1>10. linkUp => wire' = wire \o F
  BY <1>4 DEF Emit
<1>11. Under(w', m) /\ Held(w', cause') /\ Whole(w', cause', Truth')
  BY <1>4, <1>7, <1>8
<1>12. linkUp' => /\ Edge(w', cause', wire', Truth', m, Coming')
                  /\ Frames(w'.rows, w'.pending, wire', Truth', m, Coming')
  BY <1>4, <1>8, <1>9, <1>10
<1> QED BY <1>11, <1>12 DEF ExtentInv, m, Under, Held, Whole, Edge, Frames

-----------------------------------------------------------------------------
(* The queue is served.                                                     *)

LEMMA FartherReaches ==
    ASSUME NEW q \in Seq(Frame), NEW T \in SUBSET Ts, NEW n \in Nat, NEW c, NEW i,
           NEW x \in Nat, NEW y \in Nat, x <= y
    PROVE  /\ Seen(q, x, i, n, c) => Seen(q, y, i, n, c)
           /\ Reaches(q, x, i, T, n, c) => Reaches(q, y, i, T, n, c)
<1>1. \A k : Seen(q, x, k, n, c) => Seen(q, y, k, n, c)
  BY DEF Seen
<1>2. \A m \in T : y < m => x < m
  BY TsNat
<1>3. ASSUME NEW k \in 1..Len(q), q[k].k = "result", \A m \in q[k].page : m <= x
      PROVE  \A m \in q[k].page : m <= y
  <2>1. q[k] \in Frame
    BY ElementOfSeq
  <2>2. \A m \in q[k].page : m \in Nat
    BY <1>3, <2>1, FrameNumbers, TsNat
  <2> QED BY <1>3, <2>2
<1>4. n <= x => n <= y
  OBVIOUS
<1> QED BY <1>1, <1>2, <1>3, <1>4 DEF Reaches

LEMMA TailFirstReaches ==
    ASSUME NEW q \in Seq(Frame), TailFirst(q), NEW x, NEW T, NEW n, NEW c
    PROVE  Reaches(q, x, 0, T, n, c)
<1>1. \A k \in 1..Len(q) : ~NoTail(q, 0, k)
  BY DEF TailFirst, NoTail
<1>2. ~NoTail(q, 0, Len(q))
  BY DEF TailFirst, NoTail
<1> QED BY <1>1, <1>2 DEF Reaches

LEMMA SeenSooner ==
    ASSUME NEW q, NEW x, NEW i \in Nat, NEW n, NEW c, Seen(q, x, i, n, c)
    PROVE  Seen(q, x, 0, n, c)
<1>1. \A S : Behind(q, i, S) => Behind(q, 0, S)
  BY DEF Behind
<1> QED BY <1>1 DEF Seen, Later

\* What is true of a place of the queue is true of it once the head is handled.
LEMMA ServedReaches ==
    ASSUME NEW q \in Seq(Frame), q # <<>>, NEW T, NEW n, NEW c, NEW x
    PROVE  LET Q == Tail(q)
           IN \A i \in Nat :
                /\ Seen(q, x, i + 1, n, c) => Seen(Q, x, i, n, c)
                /\ Reaches(q, x, i + 1, T, n, c) => Reaches(Q, x, i, T, n, c)
<1> DEFINE Q == Tail(q)
<1>1. /\ Q \in Seq(Frame) /\ Len(Q) = Len(q) - 1 /\ Len(q) \in Nat \ {0}
      /\ \A i \in 1..Len(Q) : i + 1 \in 1..Len(q) /\ Q[i] = q[i + 1]
      /\ \A S : \A i \in Nat : Behind(q, i + 1, S) => Behind(Q, i, S)
  BY BehindTail
<1> HIDE DEF Q
<1>2. \A i \in Nat : Seen(q, x, i + 1, n, c) => Seen(Q, x, i, n, c)
  BY <1>1 DEF Seen, Later
<1>3. ASSUME NEW i \in Nat, NEW k \in 0..Len(Q), NoTail(Q, i, k)
      PROVE  NoTail(q, i + 1, k + 1)
  <2>1. ASSUME NEW j \in 1..Len(q), i + 1 < j, j <= k + 1  PROVE q[j].k # "Tail"
    <3>1. j - 1 \in 1..Len(Q) /\ i < j - 1 /\ j - 1 <= k /\ j = (j - 1) + 1
      BY <1>1, <2>1
    <3>2. Q[j - 1] = q[j]
      BY <1>1, <3>1
    <3> QED BY <1>3, <3>1, <3>2 DEF NoTail
  <2> QED BY <2>1 DEF NoTail
<1>4. ASSUME NEW i \in Nat, Reaches(q, x, i + 1, T, n, c)
      PROVE  Reaches(Q, x, i, T, n, c)
  <2>1. ASSUME NEW k \in 1..Len(Q), i <= k, NoTail(Q, i, k)
        PROVE  /\ Q[k].k = "New" /\ ~Q[k].syncing => \A m \in T : x < m => Q[k].ts <= m
               /\ Q[k].k = "result" => \A m \in Q[k].page : m <= x
               /\ Q[k].k \notin {"New", "Confirmed"} => Seen(Q, x, k, n, c)
    <3>1. k \in Nat /\ k \in 0..Len(Q) /\ k + 1 \in 1..Len(q) /\ i + 1 <= k + 1
      BY <1>1, <2>1
    <3>2. NoTail(q, i + 1, k + 1) /\ Q[k] = q[k + 1]
      BY <1>1, <1>3, <2>1, <3>1
    <3>3. /\ q[k + 1].k = "New" /\ ~q[k + 1].syncing => \A m \in T : x < m => q[k + 1].ts <= m
          /\ q[k + 1].k = "result" => \A m \in q[k + 1].page : m <= x
          /\ q[k + 1].k \notin {"New", "Confirmed"} => Seen(q, x, k + 1, n, c)
      BY <1>4, <3>1, <3>2 DEF Reaches
    <3> QED BY <1>2, <3>1, <3>2, <3>3
  <2>2. ASSUME NoTail(Q, i, Len(Q))  PROVE n <= x
    <3>1. Len(Q) \in 0..Len(Q) /\ Len(Q) + 1 = Len(q)
      BY <1>1
    <3>2. NoTail(q, i + 1, Len(q))
      BY <1>3, <2>2, <3>1
    <3> QED BY <1>4, <3>2 DEF Reaches
  <2> QED BY <2>1, <2>2 DEF Reaches
<1> QED BY <1>2, <1>4 DEF Q

\* The head is handled, and is not a push of the tail.
LEMMA HeadReaches ==
    ASSUME NEW q \in Seq(Frame), q # <<>>, Head(q).k # "Tail",
           NEW T, NEW n, NEW c, NEW x, Reaches(q, x, 0, T, n, c)
    PROVE  /\ Reaches(q, x, 1, T, n, c) /\ Reaches(Tail(q), x, 0, T, n, c)
           /\ Head(q).k = "New" /\ ~Head(q).syncing => \A m \in T : x < m => Head(q).ts <= m
           /\ Head(q).k = "result" => \A m \in Head(q).page : m <= x
           /\ Head(q).k \notin {"New", "Confirmed"} => Seen(Tail(q), x, 0, n, c)
<1>1. Len(q) \in Nat \ {0} /\ Head(q) = q[1]
  BY BehindTail
<1>2. ASSUME NEW k \in Nat, NoTail(q, 1, k)  PROVE NoTail(q, 0, k)
  <2>1. \A j \in 1..Len(q) : 0 < j => 1 < j \/ q[j].k # "Tail"
    BY <1>1
  <2> QED BY <1>2, <2>1 DEF NoTail
<1>3. \A k \in 1..Len(q) : k \in Nat /\ (1 <= k => 0 <= k)
  OBVIOUS
<1>4. Reaches(q, x, 1, T, n, c)
  <2>1. Len(q) \in Nat
    BY <1>1
  <2> QED BY <1>2, <1>3, <2>1 DEF Reaches
<1>5. NoTail(q, 1, 1) /\ 1 \in 1..Len(q) /\ 1 <= 1
  BY <1>1 DEF NoTail
<1>6. 0 \in Nat /\ 0 + 1 = 1
  OBVIOUS
<1>7. /\ Seen(q, x, 1, n, c) => Seen(Tail(q), x, 0, n, c)
      /\ Reaches(q, x, 1, T, n, c) => Reaches(Tail(q), x, 0, T, n, c)
  BY <1>6, ServedReaches
<1> QED BY <1>1, <1>4, <1>5, <1>7 DEF Reaches

\* The head is handled, and says nothing of the newest message.
LEMMA HeadSeen ==
    ASSUME NEW q \in Seq(Frame), q # <<>>, NEW n, NEW c, NEW x,
           Seen(q, x, 0, n, c), Head(q) \notin Makers(n)
    PROVE  Seen(Tail(q), x, 0, n, c)
BY BehindTail DEF Seen, Later

\* The frames of a queue served, or of the same queue, for another window.
LEMMA FramesFewer ==
    ASSUME NEW q, NEW R, NEW D, NEW T, NEW n, NEW c, Frames(R, D, q, T, n, c),
           NEW S \in SUBSET R, NEW E,
           \A p \in E : p \in D \/ \A i \in 1..Len(q) : q[i].k = "result" => q[i].tok # p.tok
    PROVE  Frames(S, E, q, T, n, c)
<1>1. ASSUME NEW i \in 1..Len(q), Rises(R, q, i)  PROVE Rises(S, q, i)
  BY <1>1 DEF Rises
<1> QED BY <1>1 DEF Frames

LEMMA FramesServed ==
    ASSUME NEW q \in Seq(Frame), q # <<>>, NEW R, NEW D, NEW T, NEW n, NEW c,
           Frames(R, D, q, T, n, c), NEW S, S \subseteq R \cup Shown(Head(q)), NEW E,
           \A p \in E : p \in D \/ \A i \in 1..Len(q) : q[i].k = "result" => q[i].tok # p.tok
    PROVE  Frames(S, E, Tail(q), T, n, c)
<1> DEFINE Q == Tail(q)
<1>1. /\ Q \in Seq(Frame) /\ Len(Q) = Len(q) - 1 /\ Len(q) \in Nat \ {0} /\ Head(q) = q[1]
      /\ \A i \in 1..Len(Q) : i + 1 \in 1..Len(q) /\ Q[i] = q[i + 1]
  BY BehindTail
<1>2. \A i \in Nat : \A x : /\ Seen(q, x, i + 1, n, c) => Seen(Q, x, i, n, c)
                            /\ Reaches(q, x, i + 1, T, n, c) => Reaches(Q, x, i, T, n, c)
  BY ServedReaches
<1> HIDE DEF Q
<1> SUFFICES ASSUME NEW i \in 1..Len(Q)
             PROVE  /\ \A t \in Shown(Q[i]) : t <= n
                    /\ Paired(Q, i) /\ Rises(S, Q, i)
                    /\ Q[i].k = "Tail" => Reaches(Q, Q[i].ts, i, T, n, c)
                    /\ Q[i].k = "result" =>
                          \A p \in E : p.tok = Q[i].tok => PageFits(Q, i, p, T, n, c)
  BY DEF Frames, Q
<1>3. i \in Nat /\ i + 1 \in 1..Len(q) /\ Q[i] = q[i + 1] /\ 1 \in 1..Len(q) /\ 1 < i + 1
  BY <1>1
<1>4. /\ \A t \in Shown(q[i + 1]) : t <= n
      /\ Paired(q, i + 1) /\ Rises(R, q, i + 1)
      /\ q[i + 1].k = "Tail" => Reaches(q, q[i + 1].ts, i + 1, T, n, c)
      /\ q[i + 1].k = "result" =>
            \A p \in D : p.tok = q[i + 1].tok => PageFits(q, i + 1, p, T, n, c)
  BY <1>3 DEF Frames
<1>5. Paired(Q, i)
  <2>1. ASSUME (i + 1) + 1 \in 1..Len(q)  PROVE i + 1 \in 1..Len(Q) /\ Q[i + 1] = q[(i + 1) + 1]
    <3>1. i + 1 \in 1..Len(Q)
      BY <1>1, <1>3, <2>1
    <3> QED BY <1>1, <3>1
  <2> QED BY <1>3, <1>4, <2>1 DEF Paired
<1>6. Rises(S, Q, i)
  <2>1. ASSUME q[i + 1].k \in {"New", "Tail"}, NEW r \in S  PROVE r <= q[i + 1].ts
    BY <1>1, <1>3, <1>4, <2>1 DEF Rises
  <2>2. ASSUME q[i + 1].k \in {"New", "Tail"}, NEW j \in 1..Len(Q), j < i, NEW t \in Shown(Q[j])
        PROVE  t <= q[i + 1].ts
    <3>1. j + 1 \in 1..Len(q) /\ j + 1 < i + 1 /\ Q[j] = q[j + 1]
      BY <1>1, <1>3, <2>2
    <3> QED BY <1>4, <2>2, <3>1 DEF Rises
  <2> QED BY <1>3, <2>1, <2>2 DEF Rises
<1>7. Q[i].k = "Tail" => Reaches(Q, Q[i].ts, i, T, n, c)
  BY <1>2, <1>3, <1>4
<1>8. ASSUME Q[i].k = "result", NEW p \in E, p.tok = Q[i].tok  PROVE PageFits(Q, i, p, T, n, c)
  <2>1. PageFits(q, i + 1, p, T, n, c)
    BY <1>3, <1>4, <1>8
  <2> QED BY <1>2, <1>3, <2>1 DEF PageFits
<1> QED BY <1>3, <1>4, <1>5, <1>6, <1>7, <1>8

-----------------------------------------------------------------------------
(* The ChatModel object once more: what its member functions ask for.       *)

\* A page that extends the window is asked for from its end.
Apt(p, R) ==
    /\ p.dir \in Forward => R # {} /\ p.cur = Newest(R)
    /\ p.dir = "old" => R # {} /\ p.cur = Oldest(R)

\* The window's extent is as it was; what is asked is asked from its ends.
Asked(v, u) ==
    /\ u.rows = v.rows /\ u.atTail = v.atTail /\ u.tailTs = v.tailTs
    /\ \A p \in u.pending : p \in v.pending \/ Apt(p, v.rows)

\* Nothing out is given up.
Asks(v, u) == Asked(v, u) /\ v.pending \subseteq u.pending

LEMMA AsksChain ==
    ASSUME NEW v, NEW u, NEW x
    PROVE  /\ Asks(v, v)
           /\ Asks(v, u) /\ Asks(u, x) => Asks(v, x)
           /\ Asked(v, u) /\ Asks(u, x) => Asked(v, x)
BY DEF Asks, Asked

LEMMA ClearFailureAsks ==
    ASSUME NEW v \in Window, NEW D
    PROVE  /\ Asks(v, ClearFailure(v, D)) /\ ClearFailure(v, D).pending = v.pending
           /\ ClearFailure(v, D).inflight = v.inflight
BY DEF ClearFailure, Asks, Asked, Window

LEMMA CancelAsked ==
    ASSUME NEW v \in Window, NEW D
    PROVE  /\ Asked(v, Cancel(v, D))
           /\ Cancel(v, D).pending = {p \in v.pending : p.dir \notin D}
BY DEF Cancel, ClearFailure, Asked, Window

LEMMA AskAsks ==
    ASSUME NEW v \in Window, NEW d, NEW cur, Apt([tok |-> v.next, dir |-> d, cur |-> cur], v.rows)
    PROVE  Asks(v, Ask(v, d, cur))
BY DEF Ask, Asks, Asked, Window

LEMMA IssueHistoryAsks ==
    ASSUME NEW v \in Window, NEW d, NEW cur,
           d \in Forward => v.rows # {} /\ cur = Newest(v.rows),
           d = "old" => v.rows # {} /\ cur = Oldest(v.rows)
    PROVE  Asks(v, IssueHistory(v, d, cur))
<1> DEFINE u == ClearFailure(v, {d})
           p == [tok |-> u.next, dir |-> d, cur |-> cur]
<1>1. Asks(v, u) /\ u \in Window /\ u.rows = v.rows
  BY ClearFailureAsks DEF ClearFailure, Window
<1>2. p.dir = d /\ p.cur = cur
  OBVIOUS
<1> HIDE DEF u
<1>3. Apt(p, u.rows)
  <2> HIDE DEF p
  <2> QED BY <1>1, <1>2 DEF Apt
<1>4. Asks(u, Ask(u, d, cur))
  BY <1>1, <1>3, AskAsks
<1>5. Asks(v, Ask(u, d, cur)) /\ Asks(v, v)
  BY <1>1, <1>4, AsksChain
<1> QED BY <1>5 DEF IssueHistory, u

LEMMA LoadInitialAsks ==
    ASSUME NEW v \in Window
    PROVE  Asks(v, LoadInitial(v))
<1>1. "init" \notin Forward /\ "init" # "old"
  BY DEF Forward
<1> QED BY <1>1, IssueHistoryAsks DEF LoadInitial

LEMMA PageAsks ==
    ASSUME NEW v \in Window, v.rows # {}
    PROVE  /\ Asks(v, IssueHistory(v, "old", Oldest(v.rows)))
           /\ Asks(v, IssueHistory(v, "new", Newest(v.rows)))
           /\ Asks(v, IssueHistory(v, "catchup", Newest(v.rows)))
<1>1. "old" \notin Forward /\ "new" # "old" /\ "catchup" # "old"
  BY DEF Forward
<1> QED BY <1>1, IssueHistoryAsks

LEMMA PagesAsk ==
    ASSUME NEW v, Good(v)
    PROVE  Asks(v, LoadOlder(v)) /\ Asks(v, LoadNewer(v))
BY PageAsks, AsksChain DEF LoadOlder, LoadNewer, Good

LEMMA RetryAsks ==
    ASSUME NEW v, Good(v)
    PROVE  Asks(v, Retry(v))
<1> DEFINE u1 == IF "init" \in v.failed THEN LoadInitial(v) ELSE v
           u2 == IF "old" \in v.failed /\ v.rows # {}
                 THEN IssueHistory(u1, "old", Oldest(v.rows)) ELSE u1
           u3 == IF "new" \in v.failed /\ v.rows # {}
                 THEN IssueHistory(u2, "new", Newest(v.rows)) ELSE u2
<1>1. v \in Window /\ Oldest(v.rows) \in Ts \cup {0} /\ Newest(v.rows) \in Ts \cup {0}
  BY EndsType DEF Good, Window
<1>2. Asks(v, u1) /\ Good(u1)
  BY <1>1, AsksChain, LoadInitialAsks, LoadInitialSound DEF Sound
<1> HIDE DEF u1
<1>3. Asks(u1, u2) /\ Good(u2)
  <2>1. u1 \in Window /\ u1.rows = v.rows
    BY <1>2 DEF Good, Asks, Asked
  <2>2. Good(IssueHistory(u1, "old", Oldest(v.rows)))
    BY <1>1, <1>2, IssueHistorySound DEF Sound, Dirs
  <2> QED BY <1>2, <2>1, <2>2, AsksChain, PageAsks
<1>4. Asks(v, u2)
  BY <1>2, <1>3, AsksChain
<1> HIDE DEF u2
<1>5. Asks(u2, u3)
  <2>1. u2 \in Window /\ u2.rows = v.rows
    BY <1>3, <1>4 DEF Good, Asks, Asked
  <2> QED BY <2>1, AsksChain, PageAsks
<1>6. Asks(v, u3)
  BY <1>4, <1>5, AsksChain
<1> QED BY <1>6 DEF Retry, u1, u2, u3

LEMMA IssueGotoAsked ==
    ASSUME NEW v, Good(v), NEW t
    PROVE  Asked(v, IssueGoto(v, t))
<1> DEFINE u == Cancel(v, Dirs)
           p == [tok |-> u.next, dir |-> "goto", cur |-> t]
<1>1. v \in Window /\ u \in Window /\ Asked(v, u)
  BY CancelAsked, CancelSound DEF Good, Sound
<1>2. Apt(p, u.rows)
  BY DEF Apt, Forward
<1> HIDE DEF u
<1>3. Asks(u, Ask(u, "goto", t))
  BY <1>1, <1>2, AskAsks
<1>4. Asked(v, Ask(u, "goto", t))
  BY <1>1, <1>3, AsksChain
<1> QED BY <1>4 DEF IssueGoto, u

LEMMA ResetToBottomBare ==
    ASSUME NEW v, Good(v)
    PROVE  /\ ResetToBottom(v).rows = {} /\ ResetToBottom(v).tailTs = v.tailTs
           /\ \A p \in ResetToBottom(v).pending : p.dir \notin Forward \cup {"old"}
<1> DEFINE c == Cancel(v, Dirs)
           u == [c EXCEPT !.rows = {}, !.atTail = FALSE]
<1>1. v \in Window /\ c \in Window /\ c.tailTs = v.tailTs /\ c.pending = {}
  <2>1. v \in Window /\ c \in Window /\ Asked(v, c)
    BY CancelAsked, CancelSound DEF Good, Sound
  <2>2. \A p \in v.pending : p.dir \in Dirs
    BY <2>1 DEF Window, Request
  <2> QED BY <2>1, <2>2, CancelAsked DEF Asked
<1> HIDE DEF c
<1>2. u \in Window /\ u.rows = {} /\ u.tailTs = v.tailTs /\ u.pending = {}
  BY <1>1 DEF Window
<1> HIDE DEF u
<1>3. Asks(u, LoadInitial(u))
  BY <1>2, LoadInitialAsks
<1>4. \A p \in LoadInitial(u).pending : p.dir \notin Forward \cup {"old"}
  BY <1>2, <1>3 DEF Asks, Asked, Apt
<1> QED BY <1>2, <1>3, <1>4 DEF ResetToBottom, u, c, Asks, Asked

LEMMA CullEffect ==
    ASSUME NEW v, Good(v), NEW gone
    PROVE  /\ LET u == CullOld(v, gone)
              IN /\ u.rows = v.rows \ gone /\ u.atTail = v.atTail /\ u.tailTs = v.tailTs
                 /\ u.pending = {p \in v.pending : p.dir # "old"}
           /\ LET u == CullNew(v, gone)
              IN /\ u.rows = v.rows \ gone /\ ~u.atTail /\ u.tailTs = v.tailTs
                 /\ u.pending = {p \in v.pending : p.dir \notin Forward}
<1> DEFINE x == [v EXCEPT !.rows = @ \ gone]
           u == Cancel(x, {"new", "catchup"})
<1>1. v \in Window
  BY DEF Good
<1>2. /\ x \in Window /\ x.rows = v.rows \ gone /\ x.atTail = v.atTail /\ x.tailTs = v.tailTs
      /\ x.pending = v.pending
  BY <1>1 DEF Window
<1> HIDE DEF x
<1>3. /\ Asked(x, Cancel(x, {"old"})) /\ Asked(x, u)
      /\ Cancel(x, {"old"}).pending = {p \in v.pending : p.dir # "old"}
      /\ u.pending = {p \in v.pending : p.dir \notin Forward}
  BY <1>2, CancelAsked DEF Forward
<1>4. u = [x EXCEPT !.failed = u.failed, !.error = u.error, !.inflight = u.inflight,
                    !.pending = u.pending]
  BY <1>2 DEF Cancel, ClearFailure, Window
<1>5. LET y == [u EXCEPT !.atTail = FALSE]
      IN y.rows = u.rows /\ ~y.atTail /\ y.tailTs = u.tailTs /\ y.pending = u.pending
  <2> HIDE DEF u
  <2> QED BY <1>2, <1>4 DEF Window
<1> QED BY <1>2, <1>3, <1>5 DEF CullOld, CullNew, x, Asked

LEMMA ReconcileCatchupAsks ==
    ASSUME NEW v, Good(v)
    PROVE  LET u == ReconcileCatchup(v)
           IN /\ Asks(v, u)
              /\ v.atTail /\ v.rows # {} => Ahead(u) \/ (v.tailTs # 0 /\ Newest(v.rows) = v.tailTs)
<1> DEFINE u == ReconcileCatchup(v)
<1>1. v \in Window /\ v.inflight = {p.dir : p \in v.pending}
  BY DEF Good, Booked
<1>2. Asks(v, u)
  BY <1>1, AsksChain, LoadInitialAsks, PageAsks DEF ReconcileCatchup
<1>3. v.inflight \cap Forward # {} => Ahead(v)
  BY <1>1 DEF Ahead
<1>4. ASSUME v.rows # {}, "catchup" \notin v.inflight
      PROVE  Ahead(IssueHistory(v, "catchup", Newest(v.rows)))
  <2> DEFINE x == IssueHistory(v, "catchup", Newest(v.rows))
  <2>1. Newest(v.rows) \in Ts \cup {0}
    BY <1>1, EndsType DEF Window
  <2>2. x.inflight = v.inflight \cup {"catchup"} /\ Good(x)
    BY <2>1, IssueHistoryCalm DEF Calm, Sound, Dirs
  <2> HIDE DEF x
  <2>3. "catchup" \in {p.dir : p \in x.pending}
    BY <2>2 DEF Good, Booked
  <2> QED BY <2>3 DEF Ahead, Forward, x
<1>5. ASSUME v.atTail, v.rows # {}  PROVE Ahead(u) \/ (v.tailTs # 0 /\ Newest(v.rows) = v.tailTs)
  <2>1. CASE v.inflight \cap Forward # {}
    BY <1>3, <2>1 DEF ReconcileCatchup, Forward
  <2>2. CASE v.inflight \cap Forward = {}
    BY <1>4, <1>5, <2>2 DEF ReconcileCatchup, Forward
  <2> QED BY <2>1, <2>2
<1> QED BY <1>2, <1>5

LEMMA FailAllAsked ==
    ASSUME NEW v, Good(v), NEW u \in FailAll(v)
    PROVE  Asked(v, u)
<1> DEFINE dirs == {p.dir : p \in v.pending}
           x == [v EXCEPT !.pending = {}, !.inflight = {},
                          !.failed = @ \cup (dirs \cap {"init", "old", "new"}),
                          !.error = @ \/ dirs \cap {"init", "old"} # {}]
<1>1. x \in Window /\ Asked(v, x)
  BY DEF Good, Window, Asked
<1>2. u = x \/ u = LoadInitial(x)
  BY DEF FailAll
<1> HIDE DEF x
<1>3. Asks(x, LoadInitial(x))
  BY <1>1, LoadInitialAsks
<1> QED BY <1>1, <1>2, <1>3, AsksChain

LEMMA SettleAsked ==
    ASSUME NEW v, Good(v), NEW tok
    PROVE  LET u == Settle(v, tok)
           IN Asked(v, u) /\ u.pending = {p \in v.pending : p.tok # tok} /\ u \in Window
BY DEF Settle, Asked, Good, Window, PendingAt

LEMMA HandleErrorAsked ==
    ASSUME NEW v, Good(v), NEW f
    PROVE  Asked(v, HandleError(v, f))
<1>1. CASE PendingAt(v, f.tok) = {}
  BY <1>1, AsksChain DEF HandleError, Asks
<1>2. CASE PendingAt(v, f.tok) # {}
  <2> DEFINE u == Settle(v, f.tok)
             d == DirOf(v, f.tok)
  <2>1. Asked(v, u) /\ u \in Window /\ d \in Dirs
    BY <1>2, SettleAsked, SettleSound
  <2> HIDE DEF u, d
  <2>2. Asks(u, LoadInitial(u)) /\ Asks(u, u)
    BY <2>1, LoadInitialAsks, AsksChain
  <2>3. /\ Asks(u, [u EXCEPT !.failed = @ \cup {d}, !.error = TRUE])
        /\ Asks(u, [u EXCEPT !.failed = @ \cup {d}])
    BY <2>1 DEF Asks, Asked, Window
  <2>4. \E x : Asks(u, x) /\ HandleError(v, f) = x
    BY <1>2, <2>1, <2>2, <2>3 DEF HandleError, u, d, Dirs
  <2> QED BY <2>1, <2>4, AsksChain
<1> QED BY <1>1, <1>2

-----------------------------------------------------------------------------
(* What a step of the window's leaves of its extent.                        *)

\* The queue Q tells the window no less than q did.
Passes(q, Q, T, n, c) ==
    /\ \A x \in Nat : /\ Reaches(q, x, 0, T, n, c) => Reaches(Q, x, 0, T, n, c)
                      /\ Seen(q, x, 0, n, c) => Seen(Q, x, 0, n, c)
    /\ TailFirst(q) => TailFirst(Q)

LEMMA HeadPasses ==
    ASSUME NEW q \in Seq(Frame), q # <<>>, NEW T, NEW n, NEW c,
           Head(q).k # "Tail", Head(q) \notin Makers(n)
    PROVE  Passes(q, Tail(q), T, n, c)
<1>1. ~TailFirst(q)
  BY BehindTail DEF TailFirst
<1> QED BY <1>1, HeadReaches, HeadSeen DEF Passes

\* A forward page that is given up leaves no row beyond where it was asked from.
Spent(v, u) ==
    \A p \in v.pending \ u.pending : p.dir \in Forward => \A r \in u.rows : r <= p.cur

LEMMA ExtentStays ==
    ASSUME NEW v, NEW u, Good(v), Good(u), Small(u),
           NEW T \in SUBSET Ts, NEW n \in Nat, NEW g, NEW h,
           u.rows \subseteq v.rows, Gaps(u.rows, T) \subseteq Gaps(v.rows, T),
           \A p \in u.pending : p \in v.pending \/ Apt(p, u.rows),
           u.rows # {} /\ h = {} =>
              /\ g = {} /\ Spent(v, u)
              /\ \A p \in u.pending \cap v.pending :
                    /\ p.dir \in Forward => Newest(v.rows) \in u.rows
                    /\ p.dir = "old" => p.cur \notin v.rows \ u.rows,
           Under(v, n), Held(v, g), Whole(v, g, T)
    PROVE  Under(u, n) /\ Held(u, h) /\ Whole(u, h, T)
<1>1. /\ v.rows \in SUBSET Ts /\ u.rows \in SUBSET Ts
      /\ \A p \in v.pending \cup u.pending : p.cur \in Nat /\ p.dir \in Dirs
      /\ u.inflight = {p.dir : p \in u.pending}
      /\ \A x \in v.rows : x \in Nat
  BY TsNat DEF Good, Booked, Window, Request
<1>2. /\ Newest(u.rows) \in Nat /\ \A x \in u.rows : x \in Nat /\ x <= Newest(u.rows)
      /\ u.rows # {} => Newest(u.rows) \in u.rows /\ Oldest(u.rows) \in u.rows
      /\ \A x \in v.rows : x <= Newest(v.rows)
      /\ Newest(v.rows) \in Nat
  BY <1>1, Ends
<1>3. Under(u, n)
  BY <1>2 DEF Under, Apt
<1>4. CASE u.rows = {}
  <2>1. \A p \in u.pending : p.dir \in {"init", "goto"}
    BY <1>1, <1>4 DEF Small
  <2>2. Gaps({}, T) = {}
    BY DEF Gaps
  <2> QED BY <1>3, <1>4, <2>1, <2>2 DEF Held, Whole, Forward
<1>5. CASE u.rows # {} /\ h = {}
  <2>1. g = {} /\ Spent(v, u)
    BY <1>5
  <2>2. Held(u, h)
    <3>1. ASSUME NEW p \in u.pending, p.dir \in Forward  PROVE \E r \in u.rows : p.cur <= r
      <4>1. CASE p \in v.pending
        <5>1. PICK r \in v.rows : p.cur <= r
          BY <2>1, <3>1, <4>1 DEF Held
        <5>2. p.cur <= Newest(v.rows) /\ Newest(v.rows) \in u.rows
          BY <1>1, <1>2, <1>5, <3>1, <4>1, <5>1
        <5> QED BY <5>2
      <4>2. CASE Apt(p, u.rows)
        BY <1>2, <3>1, <4>2 DEF Apt
      <4> QED BY <4>1, <4>2
    <3>2. ASSUME NEW p \in u.pending, p.dir = "old"  PROVE p.cur \in u.rows
      BY <1>2, <1>5, <2>1, <3>2 DEF Held, Apt
    <3> QED BY <3>1, <3>2 DEF Held
  <2>3. Whole(u, h, T)
    <3>1. CASE Gaps(v.rows, T) = {}
      BY <3>1 DEF Whole
    <3>2. ASSUME NEW p \in v.pending, p.dir \in Forward, \A m \in Gaps(v.rows, T) : p.cur < m
          PROVE  Whole(u, h, T)
      <4>1. CASE p \in u.pending
        BY <3>2, <4>1 DEF Whole
      <4>2. CASE p \notin u.pending
        <5>1. \A r \in u.rows : r <= p.cur
          BY <2>1, <3>2, <4>2 DEF Spent
        <5>2. ASSUME NEW m \in Gaps(u.rows, T)  PROVE FALSE
          <6>1. PICK b \in u.rows : m < b /\ m \in Nat
            BY TsNat DEF Gaps
          <6> QED BY <1>1, <1>2, <3>2, <5>1, <6>1
        <5> QED BY <5>2 DEF Whole
      <4> QED BY <4>1, <4>2
    <3> QED BY <2>1, <3>1, <3>2 DEF Whole
  <2> QED BY <1>3, <2>2, <2>3
<1> QED BY <1>3, <1>4, <1>5 DEF Held, Whole

LEMMA EdgeStays ==
    ASSUME NEW v, NEW u, Good(v), Good(u), NEW g, NEW h, NEW q, NEW Q, NEW T, NEW n, NEW c,
           u.rows \subseteq v.rows, u.tailTs = v.tailTs,
           u.atTail /\ u.rows # {} /\ h = {} =>
              /\ g = {} /\ v.atTail /\ Newest(u.rows) = Newest(v.rows)
              /\ Ahead(v) => Ahead(u),
           Passes(q, Q, T, n, c), Edge(v, g, q, T, n, c)
    PROVE  Edge(u, h, Q, T, n, c)
<1>1. u.tailTs \in Nat /\ Newest(u.rows) \in Nat
  BY TsNat, Ends DEF Good, Window
<1>2. u.tailTs # 0 => /\ Reaches(Q, u.tailTs, 0, T, n, c)
                      /\ TailFirst(Q) \/ \A r \in u.rows : r <= u.tailTs
  BY <1>1 DEF Edge, Passes
<1>3. ASSUME u.atTail, u.rows # {}, h = {}
      PROVE  /\ u.tailTs = 0 => Reaches(Q, Newest(u.rows), 0, T, n, c)
             /\ Seen(Q, Newest(u.rows), 0, n, c) \/ Ahead(u)
  BY <1>1, <1>3 DEF Edge, Passes
<1> QED BY <1>2, <1>3 DEF Edge

\* What the history does not hold against a step.
LEMMA Blameless ==
    ASSUME NEW u, NEW f, u.rows # {}, Blamed(w, u, f) = {}
    PROVE  /\ cause = {} \/ JumpLanded(w, f)
           /\ ~Stranded(w, u, f) /\ ~Crossed(w, u, f) /\ ~Apart(w, f)
           /\ ~OverUnsynced(w, u, f) /\ ~Moved(w, f)
BY DEF Blamed, Blame

\* A forward page was given up: the window does not claim the tail, nor reach beyond.
LEMMA Unstranded ==
    ASSUME NEW u, NEW f, u.rows # {}, ~Stranded(w, u, f), w \in Window, u \in Window,
           NEW p \in w.pending \ u.pending, p.dir \in Forward, ~ReachesTail(w, f, p)
    PROVE  ~u.atTail /\ \A r \in w.rows \cap u.rows : r <= p.cur
<1>1. ~u.atTail /\ \A r \in w.rows \cap u.rows : ~(r > p.cur)
  BY DEF Stranded
<1>2. p.cur \in Nat /\ \A r \in w.rows : r \in Nat
  BY TsNat DEF Window, Request
<1> QED BY <1>1, <1>2

\* The window becomes u on f, and what was said of it is said of u.
Carries(u, f, T, n) ==
    LET h == Blamed(w, u, f)
    IN /\ Under(u, n) /\ Held(u, h) /\ Whole(u, h, T)
       /\ \A q, Q, c : Passes(q, Q, T, n, c) /\ Edge(w, cause, q, T, n, c) =>
             Edge(u, h, Q, T, n, c)

\* A step that shows nothing and asks, or gives up, what it likes.
LEMMA AskedStays ==
    ASSUME Good(w), NEW u, Good(u), Small(u), Asked(w, u), NEW f, ~JumpLanded(w, f),
           \A p \in w.pending \ u.pending : p.dir \in Forward => ~ReachesTail(w, f, p),
           NEW T \in SUBSET Ts, NEW n \in Nat,
           Under(w, n), Held(w, cause), Whole(w, cause, T)
    PROVE  Carries(u, f, T, n)
<1> DEFINE h == Blamed(w, u, f)
<1>1. /\ w \in Window /\ u \in Window /\ u.rows = w.rows /\ u.atTail = w.atTail
      /\ u.tailTs = w.tailTs /\ w.rows \in SUBSET Ts
      /\ \A p \in u.pending : p \in w.pending \/ Apt(p, u.rows)
  BY DEF Good, Asked, Window
<1>2. ASSUME u.rows # {}, h = {}
      PROVE  /\ cause = {}
             /\ \A p \in w.pending \ u.pending : p.dir \in Forward =>
                   ~u.atTail /\ \A r \in u.rows : r <= p.cur
  <2>1. cause = {} /\ ~Stranded(w, u, f)
    BY <1>2, Blameless
  <2> QED BY <1>1, <1>2, <2>1, Unstranded
<1> HIDE DEF h
<1>3. u.rows # {} => Newest(w.rows) \in u.rows
  BY <1>1, Ends
<1>4. u.rows # {} /\ h = {} =>
         /\ cause = {} /\ Spent(w, u)
         /\ \A p \in u.pending \cap w.pending :
               /\ p.dir \in Forward => Newest(w.rows) \in u.rows
               /\ p.dir = "old" => p.cur \notin w.rows \ u.rows
  BY <1>1, <1>2, <1>3 DEF Spent
<1>5. Under(u, n) /\ Held(u, h) /\ Whole(u, h, T)
  BY <1>1, <1>4, ExtentStays
<1>6. u.atTail /\ u.rows # {} /\ h = {} =>
         /\ cause = {} /\ w.atTail /\ Newest(u.rows) = Newest(w.rows)
         /\ Ahead(w) => Ahead(u)
  BY <1>1, <1>2 DEF Ahead
<1>7. \A q, Q, c : Passes(q, Q, T, n, c) /\ Edge(w, cause, q, T, n, c) => Edge(u, h, Q, T, n, c)
  BY <1>1, <1>6, EdgeStays
<1> QED BY <1>5, <1>7 DEF h, Carries

-----------------------------------------------------------------------------
(* The gaps of a window that grows.                                         *)

LEMMA GapsOverlap ==
    ASSUME NEW T \in SUBSET Ts, NEW R \in SUBSET Ts, NEW P \in SUBSET Ts, NEW x \in R \cap P
    PROVE  Gaps(R \cup P, T) \subseteq Gaps(R, T) \cup Gaps(P, T)
<1> SUFFICES ASSUME NEW m \in T \ (R \cup P), NEW a \in R \cup P, NEW b \in R \cup P, a < m, m < b,
                    m \notin Gaps(R, T), m \notin Gaps(P, T)
             PROVE  FALSE
  BY DEF Gaps
<1>1. m \in Nat /\ a \in Nat /\ b \in Nat /\ x \in Nat /\ m # x
  BY TsNat
<1>2. CASE m < x
  <2>1. a \notin R
    BY <1>2 DEF Gaps
  <2>2. a \notin P
    BY <1>2 DEF Gaps
  <2> QED BY <2>1, <2>2
<1>3. CASE x < m
  <2>1. b \notin R
    BY <1>3 DEF Gaps
  <2>2. b \notin P
    BY <1>3 DEF Gaps
  <2> QED BY <2>1, <2>2
<1> QED BY <1>1, <1>2, <1>3

LEMMA GapsOlder ==
    ASSUME NEW T \in SUBSET Ts, NEW R \in SUBSET Ts, NEW P \in SUBSET Ts, NEW x \in R,
           \A a \in P : a < x, \A m \in T \ P : \A a \in P : a < m => x <= m
    PROVE  Gaps(R \cup P, T) \subseteq Gaps(R, T)
<1> SUFFICES ASSUME NEW m \in T \ (R \cup P), NEW a \in R \cup P, NEW b \in R \cup P, a < m, m < b,
                    m \notin Gaps(R, T)
             PROVE  FALSE
  BY DEF Gaps
<1>1. m \in Nat /\ a \in Nat /\ b \in Nat /\ x \in Nat /\ m # x
  BY TsNat
<1>2. CASE m < x
  <2>1. a \notin R
    BY <1>2 DEF Gaps
  <2>2. a \notin P
    BY <1>1, <1>2
  <2> QED BY <2>1, <2>2
<1>3. CASE x < m
  <2>1. b \notin R
    BY <1>3 DEF Gaps
  <2>2. b \notin P
    <3>1. b \in P => b < x
      OBVIOUS
    <3> QED BY <1>1, <1>3, <3>1
  <2> QED BY <2>1, <2>2
<1> QED BY <1>1, <1>2, <1>3

LEMMA GapsNewer ==
    ASSUME NEW T \in SUBSET Ts, NEW R \in SUBSET Ts, NEW P \in SUBSET Ts, NEW x \in Nat,
           \E r \in R : x <= r, \A a \in P : x < a,
           \A m \in T \ P : \A a \in P : m < a => m <= x,
           \A b \in R : b <= x \/ \E a \in P : b <= a
    PROVE  \A m \in Gaps(R \cup P, T) : m \in Gaps(R, T) /\ m <= x
<1> SUFFICES ASSUME NEW m \in T \ (R \cup P), NEW a \in R \cup P, NEW b \in R \cup P, a < m, m < b
             PROVE  m \in Gaps(R, T) /\ m <= x
  BY DEF Gaps
<1>1. m \in Nat /\ a \in Nat /\ b \in Nat /\ \A r \in R \cup P : r \in Nat
  BY TsNat
<1>2. m <= x
  <2>1. CASE b \in P
    BY <2>1
  <2>2. CASE b \in R /\ ~(b <= x)
    <3>1. PICK z \in P : b <= z
      BY <2>2
    <3>2. m < z
      BY <1>1, <3>1
    <3> QED BY <3>2
  <2>3. CASE b <= x
    BY <1>1, <2>3
  <2> QED BY <2>1, <2>2, <2>3
<1>3. PICK r \in R : x <= r
  OBVIOUS
<1>4. m < r
  <2>1. m <= r /\ m # r
    BY <1>1, <1>2, <1>3
  <2> QED BY <1>1, <2>1
<1>5. a \in R
  <2>1. a \in P => x < a
    OBVIOUS
  <2> QED BY <1>1, <1>2, <2>1
<1> QED BY <1>2, <1>4, <1>5 DEF Gaps

LEMMA GapsLive ==
    ASSUME NEW T \in SUBSET Ts, NEW R \in SUBSET Ts, NEW t \in Ts, \A r \in R : r <= t
    PROVE  \A m \in Gaps(R \cup {t}, T) : m \in Gaps(R, T) \/ (R # {} /\ Newest(R) < m /\ m < t)
<1> SUFFICES ASSUME NEW m \in T \ (R \cup {t}), NEW a \in R \cup {t}, NEW b \in R \cup {t},
                    a < m, m < b, m \notin Gaps(R, T)
             PROVE  R # {} /\ Newest(R) < m /\ m < t
  BY DEF Gaps
<1>1. m \in Nat /\ a \in Nat /\ b \in Nat /\ t \in Nat /\ \A r \in R : r \in Nat
  BY TsNat
<1>2. m < t /\ a \in R
  BY <1>1
<1>3. Newest(R) \in R
  BY <1>2, Ends
<1>4. ~(m < Newest(R)) /\ m # Newest(R)
  BY <1>2, <1>3 DEF Gaps
<1>5. R # {} /\ Newest(R) \in Nat
  BY <1>1, <1>3
<1>6. Newest(R) < m
  BY <1>1, <1>4, <1>5
<1> QED BY <1>2, <1>5, <1>6

\* What is out was asked from within the window, more so if it grows.
LEMMA HeldGrows ==
    ASSUME NEW v, NEW u, NEW h, Held(v, {}), v.rows \subseteq u.rows, u.pending \subseteq v.pending
    PROVE  Held(u, h)
BY DEF Held

-----------------------------------------------------------------------------
(* The user's steps.                                                        *)

LEMMA NoFrameNothing ==
    \A v, p : ~JumpLanded(v, NoFrame) /\ ~ReachesTail(v, NoFrame, p)
BY DEF JumpLanded, ReachesTail, NoFrame

\* The view drops rows at one end.
LEMMA CullCarries ==
    ASSUME Good(w), NEW m \in w.rows, NEW T \in SUBSET Ts, NEW n \in Nat, NEW u, Good(u), Small(u),
           \/ m < Newest(w.rows) /\ u = CullOld(w, {r \in w.rows : r <= m})
           \/ m > Oldest(w.rows) /\ u = CullNew(w, {r \in w.rows : r >= m}),
           Under(w, n), Held(w, cause), Whole(w, cause, T)
    PROVE  Carries(u, NoFrame, T, n)
<1> DEFINE h == Blamed(w, u, NoFrame)
<1>1. /\ w \in Window /\ u \in Window /\ w.rows \in SUBSET Ts /\ u.rows \in SUBSET Ts
      /\ \A p \in w.pending : p.cur \in Nat /\ p.dir \in Dirs
      /\ \A r \in w.rows : r \in Nat
  BY TsNat DEF Good, Window, Request
<1>2. /\ Newest(w.rows) \in w.rows /\ Oldest(w.rows) \in w.rows
      /\ \A r \in w.rows : r <= Newest(w.rows)
  BY <1>1, Ends
\* Either end goes on its own: what is left lies together.
<1>3. ASSUME u.rows \subseteq w.rows,
             \A x \in w.rows \ u.rows : (\A r \in u.rows : x <= r) \/ (\A r \in u.rows : r <= x)
      PROVE  Gaps(u.rows, T) \subseteq Gaps(w.rows, T)
  <2> SUFFICES ASSUME NEW y \in T \ u.rows, NEW a \in u.rows, NEW b \in u.rows, a < y, y < b
               PROVE  y \in T \ w.rows
    BY <1>3 DEF Gaps
  <2>1. y \in Nat /\ a \in Nat /\ b \in Nat
    BY <1>1, TsNat
  <2> QED BY <1>3, <2>1
<1>4. CASE m < Newest(w.rows) /\ u = CullOld(w, {r \in w.rows : r <= m})
  <2> DEFINE gone == {r \in w.rows : r <= m}
  <2>1. /\ u.rows = w.rows \ gone /\ u.atTail = w.atTail /\ u.tailTs = w.tailTs
        /\ u.pending = {p \in w.pending : p.dir # "old"}
    BY <1>4, CullEffect
  <2>2. \A r \in w.rows : r \in gone <=> r <= m
    OBVIOUS
  <2> HIDE DEF gone
  <2>3. u.rows \subseteq w.rows /\ Newest(w.rows) \in u.rows /\ \A r \in u.rows : m < r
    BY <1>1, <1>2, <1>4, <2>1, <2>2
  <2>4. Gaps(u.rows, T) \subseteq Gaps(w.rows, T)
    <3>1. \A x \in w.rows \ u.rows : \A r \in u.rows : x <= r
      <4>1. \A x \in w.rows \ u.rows : x <= m
        BY <2>1, <2>2
      <4> QED BY <1>1, <2>3, <4>1
    <3> QED BY <1>3, <2>3, <3>1
  <2>5. Newest(u.rows) = Newest(w.rows)
    BY <1>1, <1>2, <2>3, NewestIs
  <2>6. \A p \in w.pending \ u.pending : p.dir \notin Forward
    BY <2>1 DEF Forward
  <2>7. u.rows # {} /\ h = {} => cause = {}
    BY Blameless, NoFrameNothing
  <2> HIDE DEF h
  <2>8. Under(u, n) /\ Held(u, h) /\ Whole(u, h, T)
    <3>1. /\ \A p \in u.pending : p \in w.pending \/ Apt(p, u.rows)
          /\ \A p \in u.pending \cap w.pending :
                /\ p.dir \in Forward => Newest(w.rows) \in u.rows
                /\ p.dir = "old" => p.cur \notin w.rows \ u.rows
      BY <2>1, <2>3
    <3>2. Spent(w, u)
      BY <2>6 DEF Spent
    <3> QED BY <2>3, <2>4, <2>7, <3>1, <3>2, ExtentStays
  <2>9. Ahead(w) => Ahead(u)
    BY <2>6 DEF Ahead
  <2>10. ASSUME NEW q, NEW Q, NEW c, Passes(q, Q, T, n, c), Edge(w, cause, q, T, n, c)
         PROVE  Edge(u, h, Q, T, n, c)
    BY <2>1, <2>3, <2>5, <2>7, <2>9, <2>10, EdgeStays
  <2> QED BY <2>8, <2>10 DEF Carries, h
<1>5. CASE m > Oldest(w.rows) /\ u = CullNew(w, {r \in w.rows : r >= m})
  <2> DEFINE gone == {r \in w.rows : r >= m}
  <2>1. /\ u.rows = w.rows \ gone /\ ~u.atTail /\ u.tailTs = w.tailTs
        /\ u.pending = {p \in w.pending : p.dir \notin Forward}
    BY <1>5, CullEffect
  <2>2. \A r \in w.rows : r \in gone <=> r >= m
    OBVIOUS
  <2> HIDE DEF gone
  <2>3. u.rows \subseteq w.rows /\ \A r \in u.rows : r < m
    BY <1>1, <2>1, <2>2
  <2>4. Gaps(u.rows, T) \subseteq Gaps(w.rows, T)
    <3>1. \A x \in w.rows \ u.rows : \A r \in u.rows : r <= x
      <4>1. \A x \in w.rows \ u.rows : x >= m
        BY <2>1, <2>2
      <4> QED BY <1>1, <2>3, <4>1
    <3> QED BY <1>3, <2>3, <3>1
  <2>5. ASSUME u.rows # {}, h = {}
        PROVE  /\ cause = {} /\ Spent(w, u)
               /\ \A p \in u.pending \cap w.pending :
                     /\ p.dir \in Forward => Newest(w.rows) \in u.rows
                     /\ p.dir = "old" => p.cur \notin w.rows \ u.rows
    <3>1. cause = {} /\ ~Stranded(w, u, NoFrame) /\ ~Crossed(w, u, NoFrame)
      BY <2>5, Blameless, NoFrameNothing
    <3>2. Spent(w, u)
      <4>1. w.rows \cap u.rows = u.rows
        BY <2>3
      <4> QED BY <1>1, <2>5, <3>1, <4>1, NoFrameNothing, Unstranded DEF Spent
    <3>3. \A p \in u.pending : p.dir = "old" => p.cur \notin w.rows \ u.rows
      BY <2>5, <3>1 DEF Crossed
    <3> QED BY <2>1, <3>1, <3>2, <3>3
  <2> HIDE DEF h
  <2>6. \A p \in u.pending : p \in w.pending \/ Apt(p, u.rows)
    BY <2>1
  <2>7. Under(u, n) /\ Held(u, h) /\ Whole(u, h, T)
    BY <2>3, <2>4, <2>5, <2>6, ExtentStays
  <2>8. ASSUME NEW q, NEW Q, NEW c, Passes(q, Q, T, n, c), Edge(w, cause, q, T, n, c)
        PROVE  Edge(u, h, Q, T, n, c)
    BY <2>1, <2>3, <2>8, EdgeStays
  <2> QED BY <2>7, <2>8 DEF Carries, h
<1> QED BY <1>4, <1>5

LEMMA UserCarries ==
    ASSUME Good(w), Good(w'), Small(w'), User, NEW T \in SUBSET Ts, NEW n \in Nat,
           Under(w, n), Held(w, cause), Whole(w, cause, T)
    PROVE  Carries(w', NoFrame, T, n) /\ cause' = Blamed(w, w', NoFrame)
<1>1. ASSUME Asked(w, w')  PROVE Carries(w', NoFrame, T, n)
  BY <1>1, AskedStays, NoFrameNothing
<1>2. CASE PageOlder \/ PageNewer \/ AskAgain
  <2>1. Asks(w, w') /\ cause' = Blamed(w, w', NoFrame)
    BY <1>2, PagesAsk, RetryAsks DEF PageOlder, PageNewer, AskAgain, Use, Become
  <2> QED BY <1>1, <2>1 DEF Asks
<1>3. ASSUME NEW t \in Ts \cup {0}, Goto(t)
      PROVE  Carries(w', NoFrame, T, n) /\ cause' = Blamed(w, w', NoFrame)
  BY <1>1, <1>3, IssueGotoAsked DEF Goto, Use, Become
<1>4. CASE ToBottom
  <2>1. w' = ResetToBottom(w) /\ cause' = Blamed(w, w', NoFrame)
    BY <1>4 DEF ToBottom, Use, Become
  <2>2. /\ w'.rows = {} /\ w'.tailTs = w.tailTs
        /\ \A p \in w'.pending : p.dir \notin Forward \cup {"old"}
    BY <2>1, ResetToBottomBare
  <2>3. Gaps({}, T) = {}
    BY DEF Gaps
  <2> DEFINE h == Blamed(w, w', NoFrame)
  <2> HIDE DEF h
  <2>4. Under(w', n) /\ Held(w', h) /\ Whole(w', h, T)
    BY <2>2, <2>3 DEF Under, Held, Whole
  <2>5. ASSUME NEW q, NEW Q, NEW c, Passes(q, Q, T, n, c), Edge(w, cause, q, T, n, c)
        PROVE  Edge(w', h, Q, T, n, c)
    <3>1. w'.rows \subseteq w.rows
      BY <2>2
    <3> QED BY <2>2, <2>5, <3>1, EdgeStays
  <2> QED BY <2>1, <2>4, <2>5 DEF Carries, h
<1>5. ASSUME NEW m \in w.rows, DropOld(m) \/ DropNew(m)
      PROVE  Carries(w', NoFrame, T, n) /\ cause' = Blamed(w, w', NoFrame)
  BY <1>5, CullCarries DEF DropOld, DropNew, Use, Become
<1> QED BY <1>2, <1>3, <1>4, <1>5 DEF User

LEMMA PassesSame == \A q, T, n, c : Passes(q, q, T, n, c)
BY DEF Passes

LEMMA UserExtent == Inv /\ FeedInv /\ ExtentInv /\ User => ExtentInv'
<1> SUFFICES ASSUME Inv, FeedInv, ExtentInv, User  PROVE ExtentInv'
  OBVIOUS
<1> DEFINE n == Newest(store)
<1>1. Inv' /\ FeedInv'
  BY UserInv, UserFeed
<1>2. Good(w) /\ Good(w') /\ Small(w') /\ TypeOK
  BY <1>1, InvIsGood DEF Inv, TypeOK, OneRequest, QuietFailure, Good, Booked, Quiet, FeedInv, Small
<1>3. Truth \in SUBSET Ts /\ n \in Nat
  BY <1>2, Ends DEF TypeOK, Truth
<1>4. Under(w, n) /\ Held(w, cause) /\ Whole(w, cause, Truth)
  BY DEF ExtentInv
<1> HIDE DEF n
<1>5. Carries(w', NoFrame, Truth, n) /\ cause' = Blamed(w, w', NoFrame)
  BY <1>2, <1>3, <1>4, UserCarries
<1>6. Under(w', n) /\ Held(w', cause') /\ Whole(w', cause', Truth)
  BY <1>5 DEF Carries
<1>7. PICK v : Use(v) /\ Fair(w, v)
  BY UserFair
<1>8. /\ w' = v /\ UNCHANGED <<backendVars, linkUp>> /\ v.rows \subseteq w.rows
      /\ \A p \in v.pending : p \in w.pending \/ w.next <= p.tok
      /\ linkUp => wire' = wire
  BY <1>7 DEF Use, Become, Fair, Calm
<1>9. Truth' = Truth /\ Newest(store') = n /\ Coming' = Coming
  BY <1>8 DEF backendVars, Truth, Coming, n
<1>10. ASSUME linkUp
       PROVE  /\ Edge(w', cause', wire', Truth, n, Coming)
              /\ Frames(w'.rows, w'.pending, wire', Truth, n, Coming)
  <2>1. /\ Edge(w, cause, wire, Truth, n, Coming)
        /\ Frames(w.rows, w.pending, wire, Truth, n, Coming)
    BY <1>10 DEF ExtentInv, n
  <2>2. Edge(w', cause', wire, Truth, n, Coming)
    BY <1>5, <2>1, PassesSame DEF Carries
  <2>3. ASSUME NEW p \in v.pending, p \notin w.pending, NEW i \in 1..Len(wire), wire[i].k = "result"
        PROVE  wire[i].tok # p.tok
    <3>1. wire[i].tok < w.next /\ wire[i] \in Frame
      BY <1>2, <2>3, ElementOfSeq DEF FeedInv, TokensOK, TypeOK
    <3>2. wire[i].tok \in Nat /\ w.next \in Nat /\ p.tok \in Nat /\ w.next <= p.tok
      BY <1>2, <1>8, <2>3, <3>1, FrameNumbers DEF Good, Window, Request
    <3> QED BY <3>1, <3>2
  <2>4. Frames(v.rows, v.pending, wire, Truth, n, Coming)
    BY <1>8, <2>1, <2>3, FramesFewer
  <2> QED BY <1>8, <1>10, <2>2, <2>4
<1> QED BY <1>6, <1>8, <1>9, <1>10 DEF ExtentInv, Under, Held, Whole, Edge, Frames

-----------------------------------------------------------------------------
(* The frames, one kind at a time.                                          *)

\* The window is about to handle f.
Facing(f) ==
    /\ Inv /\ FeedInv /\ ExtentInv
    /\ linkUp /\ wire # <<>> /\ f = Head(wire)

\* The window has become u, and f is off the queue.
Landed(u, f) ==
    LET h == Blamed(w, u, f)
    IN /\ Under(u, Newest(store)) /\ Held(u, h) /\ Whole(u, h, Truth)
       /\ Edge(u, h, Tail(wire), Truth, Newest(store), Coming)

LEMMA Faced ==
    ASSUME NEW f, Facing(f)
    PROVE  LET n == Newest(store)
           IN /\ Good(w) /\ Small(w) /\ w \in Window /\ f \in Frame
              /\ w.rows \in SUBSET Ts /\ w.tailTs \in Ts \cup {0} /\ w.tailTs \in Nat
              /\ wire \in Seq(Frame) /\ wire # <<>> /\ f = Head(wire) /\ f = wire[1]
              /\ Truth \in SUBSET Ts /\ n \in Nat
              /\ Under(w, n) /\ Held(w, cause) /\ Whole(w, cause, Truth)
              /\ Edge(w, cause, wire, Truth, n, Coming)
              /\ Frames(w.rows, w.pending, wire, Truth, n, Coming)
              /\ \A t \in Shown(f) : t <= n
              /\ Paired(wire, 1)
              /\ f.k \in {"New", "Tail"} => \A r \in w.rows : r <= f.ts
              /\ f.k = "Tail" => Reaches(wire, f.ts, 1, Truth, n, Coming)
              /\ f.k = "result" =>
                    /\ f.page = {} => f.anchor = 0
                    /\ \A p \in w.pending : p.tok = f.tok =>
                          PageFits(wire, 1, p, Truth, n, Coming)
<1> DEFINE n == Newest(store)
<1>1. Good(w) /\ Small(w) /\ TypeOK /\ linkUp /\ wire # <<>> /\ f = Head(wire)
  BY InvIsGood DEF Facing, FeedInv
<1>2. /\ wire \in Seq(Frame) /\ Truth \in SUBSET Ts /\ n \in Nat
      /\ w \in Window /\ w.rows \in SUBSET Ts /\ w.tailTs \in Ts \cup {0} /\ w.tailTs \in Nat
  BY <1>1, Ends, TsNat DEF TypeOK, Truth, Window
<1>3. f \in Frame /\ f = wire[1] /\ 1 \in 1..Len(wire)
  BY <1>1, <1>2, BehindTail
<1>4. /\ Under(w, n) /\ Held(w, cause) /\ Whole(w, cause, Truth)
      /\ Edge(w, cause, wire, Truth, n, Coming)
      /\ Frames(w.rows, w.pending, wire, Truth, n, Coming)
  BY <1>1 DEF Facing, ExtentInv
<1>5. f.k = "result" /\ f.page = {} => f.anchor = 0
  BY <1>3 DEF Facing, FeedInv, EmptyPages
<1> HIDE DEF n
<1>6. /\ \A t \in Shown(f) : t <= n
      /\ Paired(wire, 1) /\ Rises(w.rows, wire, 1)
      /\ f.k = "Tail" => Reaches(wire, f.ts, 1, Truth, n, Coming)
      /\ f.k = "result" => \A p \in w.pending : p.tok = f.tok =>
            PageFits(wire, 1, p, Truth, n, Coming)
  BY <1>3, <1>4 DEF Frames
<1>7. f.k \in {"New", "Tail"} => \A r \in w.rows : r <= f.ts
  BY <1>3, <1>6 DEF Rises
<1> QED BY <1>1, <1>2, <1>3, <1>4, <1>5, <1>6, <1>7 DEF n

LEMMA NotMaker ==
    ASSUME NEW f, NEW n, f.k \notin {"New", "Confirmed"}, f # CatchupDone(TRUE)
    PROVE  f \notin Makers(n)
BY DEF Makers, Ended

\* A frame that shows nothing.
LEMMA AskedLands ==
    ASSUME NEW f, Facing(f), NEW u, Good(u), Small(u), Asked(w, u), ~JumpLanded(w, f),
           \A p \in w.pending \ u.pending : p.dir \in Forward => ~ReachesTail(w, f, p),
           f.k \notin {"Tail", "New", "Confirmed"}, f # CatchupDone(TRUE)
    PROVE  Landed(u, f)
<1> DEFINE n == Newest(store)
<1>1. /\ Good(w) /\ wire \in Seq(Frame) /\ wire # <<>> /\ f = Head(wire)
      /\ Truth \in SUBSET Ts /\ n \in Nat
      /\ Under(w, n) /\ Held(w, cause) /\ Whole(w, cause, Truth)
      /\ Edge(w, cause, wire, Truth, n, Coming)
  BY Faced
<1> HIDE DEF n
<1>2. Passes(wire, Tail(wire), Truth, n, Coming)
  BY <1>1, HeadPasses, NotMaker
<1>3. Carries(u, f, Truth, n)
  BY <1>1, AskedStays
<1> QED BY <1>1, <1>2, <1>3 DEF Carries, Landed, n

LEMMA ErrorLands ==
    ASSUME NEW f, Facing(f), f.k = "error"
    PROVE  Landed(Handle(w, f), f)
<1>1. Good(w) /\ Small(w) /\ f \in Frame
  BY Faced
<1>2. Handled(w, f, HandleError(w, f)) /\ Handle(w, f) = HandleError(w, f)
  BY <1>1, HandleErrorHandled DEF Handle
<1>3. Good(HandleError(w, f)) /\ Small(HandleError(w, f))
  BY <1>1, <1>2 DEF Handled, Grows, Sound
<1>4. Asked(w, HandleError(w, f))
  BY <1>1, HandleErrorAsked
<1>5. ~JumpLanded(w, f) /\ \A p : ~ReachesTail(w, f, p)
  BY DEF JumpLanded, ReachesTail
<1>6. f # CatchupDone(TRUE)
  BY Brackets
<1> QED BY <1>2, <1>3, <1>4, <1>5, <1>6, AskedLands

\* The states of the stream, a catchup that starts, another room's that ends, and
\* a row that is corrected.
LEMMA QuietLands ==
    ASSUME NEW f, Facing(f), f.k \in {"State", "CatchupStarted", "CatchupDone", "Edited"},
           f # CatchupDone(TRUE)
    PROVE  Landed(Handle(w, f), f)
<1> DEFINE u == Handle(w, f)
<1>1. Good(w) /\ Small(w) /\ f \in Frame /\ w \in Window
  BY Faced
<1>2. Handled(w, f, u) /\ u = HandleEvent(w, f)
  BY <1>1, HandleEventHandled DEF Handle
<1> HIDE DEF u
<1>3. Good(u) /\ Small(u)
  BY <1>1, <1>2 DEF Handled, Grows, Sound
<1>4. Asks(w, u)
  <2>1. CASE f.k = "State"
    BY <1>1, <1>2, <2>1, AsksChain, RetryAsks DEF HandleEvent
  <2>2. CASE f.k = "CatchupStarted"
    <3>1. Asks(w, [w EXCEPT !.busy = TRUE])
      BY <1>1 DEF Asks, Asked, Window
    <3> QED BY <1>2, <2>2, <3>1, AsksChain DEF HandleEvent
  <2>3. CASE f.k = "CatchupDone"
    <3>1. ~f.mine
      BY <1>1, <2>3, Brackets
    <3> QED BY <1>2, <2>3, <3>1, AsksChain DEF HandleEvent
  <2>4. CASE f.k = "Edited"
    <3>1. f.ts \in w.rows => [w EXCEPT !.rows = @ \cup {f.ts}] = w
      <4>1. f.ts \in w.rows => w.rows \cup {f.ts} = w.rows
        OBVIOUS
      <4> QED BY <1>1, <4>1 DEF Window
    <3> QED BY <1>2, <2>4, <3>1, AsksChain DEF HandleEvent, ApplyEdited
  <2> QED BY <2>1, <2>2, <2>3, <2>4
<1>5. ~JumpLanded(w, f) /\ \A p : ~ReachesTail(w, f, p)
  BY DEF JumpLanded, ReachesTail
<1> QED BY <1>3, <1>4, <1>5, AskedLands DEF Asks, u

\* A catchup ends: the window is compared with the tail it was told of.
LEMMA DoneLands ==
    ASSUME NEW f, Facing(f), f = CatchupDone(TRUE)
    PROVE  Landed(Handle(w, f), f)
<1> DEFINE n == Newest(store)
           x == [w EXCEPT !.busy = FALSE]
           u == ReconcileCatchup(x)
           Q == Tail(wire)
<1>1. /\ Good(w) /\ Small(w) /\ f \in Frame /\ w \in Window
      /\ w.rows \in SUBSET Ts /\ w.tailTs \in Nat
      /\ wire \in Seq(Frame) /\ wire # <<>> /\ f = Head(wire) /\ f = wire[1]
      /\ Truth \in SUBSET Ts /\ n \in Nat
      /\ Under(w, n) /\ Held(w, cause) /\ Whole(w, cause, Truth)
      /\ Edge(w, cause, wire, Truth, n, Coming)
  BY Faced
<1>2. f.k = "CatchupDone" /\ f.mine
  BY Brackets
<1>3. Handle(w, f) = u
  BY <1>2 DEF Handle, HandleEvent
<1>4. Good(u) /\ Small(u)
  <2>1. Handled(w, f, Handle(w, f))
    BY <1>1, <1>2, HandleEventHandled DEF Handle
  <2> QED BY <1>1, <1>3, <2>1 DEF Handled, Grows, Sound
<1>5. Good(x) /\ Asks(w, x)
  <2>1. Asks(w, x)
    BY <1>1 DEF Asks, Asked, Window
  <2> QED BY <1>1, <2>1, ShowSound DEF Sound
<1> HIDE DEF x
<1>6. /\ Asks(x, u)
      /\ x.atTail /\ x.rows # {} => Ahead(u) \/ (x.tailTs # 0 /\ Newest(x.rows) = x.tailTs)
  BY <1>5, ReconcileCatchupAsks
<1>7. Asks(w, u)
  BY <1>5, <1>6, AsksChain
<1> HIDE DEF n, u
<1>8. /\ u.rows = w.rows /\ u.tailTs = w.tailTs /\ u.atTail = w.atTail
      /\ u.atTail /\ u.rows # {} => Ahead(u) \/ (w.tailTs # 0 /\ Newest(w.rows) = w.tailTs)
  BY <1>5, <1>6, <1>7 DEF Asks, Asked
<1> DEFINE h == Blamed(w, u, f)
<1>9. ~JumpLanded(w, f) /\ \A p : ~ReachesTail(w, f, p)
  BY <1>2 DEF JumpLanded, ReachesTail
<1>10. Carries(u, f, Truth, n)
  BY <1>1, <1>4, <1>7, <1>9, AskedStays DEF Asks
<1>11. u.rows # {} /\ h = {} => cause = {}
  BY <1>9, Blameless
<1> HIDE DEF h
<1>12. Edge(u, h, Q, Truth, n, Coming)
  <2>1. \A y : Reaches(wire, y, 0, Truth, n, Coming) =>
           Reaches(Q, y, 0, Truth, n, Coming) /\ Seen(Q, y, 0, n, Coming)
    BY <1>1, <1>2, HeadReaches
  <2>2. ~TailFirst(wire)
    BY <1>1, <1>2 DEF TailFirst
  <2> QED BY <1>1, <1>8, <1>11, <2>1, <2>2 DEF Edge
<1> QED BY <1>3, <1>10, <1>12 DEF Landed, Carries, n, h

\* The tail is pushed.
LEMMA TailLands ==
    ASSUME NEW f, Facing(f), f.k = "Tail"
    PROVE  Landed(Handle(w, f), f)
<1> DEFINE n == Newest(store)
           u == Handle(w, f)
           h == Blamed(w, u, f)
           Q == Tail(wire)
<1>1. /\ Good(w) /\ Small(w) /\ f \in Frame /\ w \in Window
      /\ w.rows \in SUBSET Ts
      /\ wire \in Seq(Frame) /\ wire # <<>> /\ f = Head(wire) /\ f = wire[1]
      /\ Truth \in SUBSET Ts /\ n \in Nat
      /\ Under(w, n) /\ Held(w, cause) /\ Whole(w, cause, Truth)
      /\ Edge(w, cause, wire, Truth, n, Coming)
      /\ (\A t \in Shown(f) : t <= n) /\ (\A r \in w.rows : r <= f.ts)
      /\ Reaches(wire, f.ts, 1, Truth, n, Coming)
  BY Faced
<1>2. f.ts \in Nat /\ f.ts # 0 /\ f.ts <= n
  BY <1>1, FrameNumbers, TsNat
<1>3. /\ u.rows = w.rows /\ u.pending = w.pending /\ u.tailTs = f.ts
      /\ u.atTail = (w.atTail \/ (w.rows # {} /\ Newest(w.rows) = f.ts))
  BY <1>1 DEF Handle, HandleEvent, Window
<1>4. ~JumpLanded(w, f)
  BY DEF JumpLanded
<1>5. u.rows # {} /\ h = {} => cause = {}
  BY <1>4, Blameless
<1> HIDE DEF h, u
<1>6. Under(u, n) /\ Held(u, h) /\ Whole(u, h, Truth)
  <2>1. CASE u.rows # {}
    BY <1>1, <1>3, <1>5, <2>1 DEF Under, Held, Whole
  <2>2. CASE u.rows = {}
    <3>1. \A p \in w.pending : p.dir \in {"init", "goto"}
      BY <1>1, <1>3, <2>2 DEF Small, Good, Booked
    <3>2. Gaps({}, Truth) = {}
      BY DEF Gaps
    <3> QED BY <1>3, <2>2, <3>1, <3>2 DEF Under, Held, Whole, Forward
  <2> QED BY <2>1, <2>2
<1>7. Reaches(Q, f.ts, 0, Truth, n, Coming) /\ Seen(Q, f.ts, 0, n, Coming)
  <2>1. 0 \in Nat /\ 0 + 1 = 1
    OBVIOUS
  <2>2. NoTail(wire, 1, 1) /\ 1 \in 1..Len(wire) /\ 1 <= 1
    BY <1>1, BehindTail DEF NoTail
  <2>3. Seen(wire, f.ts, 1, n, Coming)
    BY <1>1, <2>2 DEF Reaches
  <2> QED BY <1>1, <2>1, <2>3, ServedReaches
<1>8. \A x : Seen(wire, x, 0, n, Coming) => Seen(Q, x, 0, n, Coming)
  <2>1. f \notin Makers(n)
    BY NotMaker, Brackets
  <2> QED BY <1>1, <2>1, HeadSeen
<1>9. Ahead(w) => Ahead(u)
  BY <1>3 DEF Ahead
<1>10. Edge(u, h, Q, Truth, n, Coming)
  BY <1>1, <1>2, <1>3, <1>5, <1>7, <1>8, <1>9 DEF Edge
<1> QED BY <1>6, <1>10 DEF Landed, n, h, u

\* A live row, or a row that moves: the tail follows.
LEMMA PairLands ==
    ASSUME NEW f, Facing(f), f.k \in {"New", "Confirmed"}
    PROVE  LET n == Newest(store)
           IN /\ TailFirst(Tail(wire))
              /\ \A x : Reaches(Tail(wire), x, 0, Truth, n, Coming)
              /\ f.k = "New" => Seen(Tail(wire), f.ts, 0, n, Coming)
<1> DEFINE n == Newest(store)
           Q == Tail(wire)
<1>1. /\ wire \in Seq(Frame) /\ wire # <<>> /\ f = wire[1]
      /\ Paired(wire, 1)
      /\ Frames(w.rows, w.pending, wire, Truth, n, Coming)
  BY Faced
<1> HIDE DEF n
<1>2. /\ 2 \in 1..Len(wire) /\ wire[2].k = "Tail" /\ (f.k = "New" => wire[2].ts = f.ts)
      /\ 1 + 1 = 2
  BY <1>1 DEF Paired
<1>3. /\ Q \in Seq(Frame) /\ Len(Q) = Len(wire) - 1 /\ Len(wire) \in Nat
      /\ \A i \in 1..Len(Q) : Q[i] = wire[i + 1]
  BY <1>1, BehindTail
<1>4. TailFirst(Q)
  <2>1. 1 \in 1..Len(Q)
    BY <1>2, <1>3
  <2> QED BY <1>2, <1>3, <2>1 DEF TailFirst
<1>5. Reaches(wire, wire[2].ts, 2, Truth, n, Coming)
  BY <1>1, <1>2 DEF Frames
<1>6. Seen(wire, wire[2].ts, 2, n, Coming)
  <2>1. NoTail(wire, 2, 2) /\ 2 <= 2
    BY DEF NoTail
  <2> QED BY <1>2, <1>5, <2>1 DEF Reaches
<1>7. Seen(Q, wire[2].ts, 1, n, Coming)
  BY <1>1, <1>2, <1>6, ServedReaches
<1>8. Seen(Q, wire[2].ts, 0, n, Coming)
  BY <1>7, SeenSooner
<1> QED BY <1>2, <1>3, <1>4, <1>8, TailFirstReaches DEF n

\* After either, the window's edge is the tail now first on the queue.
LEMMA PairEdge ==
    ASSUME NEW f, Facing(f), f.k \in {"New", "Confirmed"}, NEW u, NEW h, u.tailTs = w.tailTs,
           u.atTail /\ u.rows # {} /\ h = {} =>
              Seen(Tail(wire), Newest(u.rows), 0, Newest(store), Coming)
    PROVE  Edge(u, h, Tail(wire), Truth, Newest(store), Coming)
<1>1. Edge(w, cause, wire, Truth, Newest(store), Coming)
  BY Faced
<1>2. u.tailTs <= Newest(store)
  BY <1>1 DEF Edge
<1> QED BY <1>2, PairLands DEF Edge

\* A live row: it goes in only where nothing is between it and the rows there are.
LEMMA NewLands ==
    ASSUME NEW f, Facing(f), f.k = "New"
    PROVE  Landed(Handle(w, f), f)
<1> DEFINE n == Newest(store)
           u == Handle(w, f)
           h == Blamed(w, u, f)
           Q == Tail(wire)
<1>1. /\ Good(w) /\ Small(w) /\ f \in Frame /\ w \in Window
      /\ w.rows \in SUBSET Ts /\ w.tailTs \in Nat
      /\ wire \in Seq(Frame) /\ wire # <<>> /\ f = Head(wire) /\ f = wire[1]
      /\ Truth \in SUBSET Ts /\ n \in Nat
      /\ Under(w, n) /\ Held(w, cause) /\ Whole(w, cause, Truth)
      /\ Edge(w, cause, wire, Truth, n, Coming)
      /\ (\A t \in Shown(f) : t <= n) /\ (\A r \in w.rows : r <= f.ts)
  BY Faced
<1>2. f.ts \in Ts /\ f.ts \in Nat /\ f.ts <= n
  BY <1>1, FrameNumbers, TsNat
<1>3. ~JumpLanded(w, f) /\ \A p : ~ReachesTail(w, f, p)
  BY DEF JumpLanded, ReachesTail
<1>4. CASE ~w.atTail \/ w.busy
  <2>1. u = w
    BY <1>4 DEF Handle, HandleEvent
  <2>2. Carries(w, f, Truth, n)
    BY <1>1, <1>3, AskedStays, AsksChain DEF Asks
  <2>3. w.busy => \A x : Seen(Q, x, 0, n, Coming)
    <3>1. w.busy => Coming \/ Behind(wire, 0, Ended)
      BY DEF Facing, FeedInv, CatchupsEnd
    <3>2. f \notin Ended
      BY Brackets DEF Ended
    <3>3. w.busy => Coming \/ Behind(Q, 0, Ended)
      BY <1>1, <3>1, <3>2, BehindTail
    <3>4. Behind(Q, 0, Ended) => Behind(Q, 0, Makers(n))
      BY DEF Behind, Makers
    <3> QED BY <3>3, <3>4 DEF Seen, Later
  <2>4. Edge(w, Blamed(w, w, f), Q, Truth, n, Coming)
    BY <1>4, <2>3, PairEdge
  <2> QED BY <2>1, <2>2, <2>4 DEF Landed, Carries
<1>5. CASE w.atTail /\ ~w.busy
  <2>1. /\ u.rows = w.rows \cup {f.ts} /\ u.pending = w.pending /\ u.tailTs = w.tailTs
        /\ u.atTail = w.atTail
    BY <1>1, <1>5 DEF Handle, HandleEvent, Window
  <2> HIDE DEF u
  <2>2. Newest(u.rows) = f.ts /\ u.rows \in SUBSET Ts
    <3>1. u.rows \in SUBSET Ts /\ f.ts \in u.rows /\ \A y \in u.rows : y <= f.ts
      BY <1>1, <1>2, <2>1
    <3> QED BY <3>1, NewestIs
  <2>3. Seen(Q, Newest(u.rows), 0, n, Coming)
    BY <2>2, PairLands
  <2>4. u.rows # {} /\ h = {} => ~OverUnsynced(w, u, f) /\ cause = {}
    BY <1>3, Blameless
  <2> HIDE DEF h
  <2>5. Edge(u, h, Q, Truth, n, Coming)
    BY <2>1, <2>3, PairEdge
  <2>6. Under(u, n)
    BY <1>1, <1>2, <2>1 DEF Under
  <2>7. CASE w.rows = {}
    <3>1. \A p \in u.pending : p.dir \in {"init", "goto"}
      BY <1>1, <2>1, <2>7 DEF Small, Good, Booked
    <3>2. u.rows = {f.ts}
      BY <2>1, <2>7
    <3>3. Gaps(u.rows, Truth) = {}
      <4>1. ASSUME NEW m, f.ts < m, m < f.ts, m \in Truth  PROVE FALSE
        BY <1>1, <1>2, <4>1, TsNat
      <4> QED BY <3>2, <4>1 DEF Gaps
    <3> QED BY <2>5, <2>6, <3>1, <3>3 DEF Landed, Held, Whole, Forward, h, n, u
  <2>8. CASE w.rows # {} /\ h # {}
    BY <2>5, <2>6, <2>8 DEF Landed, Held, Whole, h, n, u
  <2>9. CASE w.rows # {} /\ h = {}
    <3>1. ~OverUnsynced(w, u, f) /\ cause = {}
      BY <2>1, <2>4, <2>9
    <3>2. Held(u, h) /\ Held(w, {}) /\ Whole(w, {}, Truth)
      BY <1>1, <2>1, <3>1, HeldGrows
    <3>3. Newest(w.rows) \in w.rows /\ Newest(w.rows) \in Nat /\ \A r \in w.rows : r \in Nat /\ r <= Newest(w.rows)
      BY <1>1, <2>9, Ends
    <3>4. \A m \in Gaps(u.rows, Truth) :
             m \in Gaps(w.rows, Truth) \/ (Newest(w.rows) < m /\ m < f.ts)
      BY <1>1, <1>2, <2>1, GapsLive
    <3>5. ASSUME NEW m \in Truth, Newest(w.rows) < m, m < f.ts, u.rows # w.rows
          PROVE  Ahead(w)
      <4>1. ~f.syncing /\ (Newest(w.rows) < w.tailTs => w.inflight \cap Forward # {})
        BY <2>9, <3>1, <3>5 DEF OverUnsynced
      <4>2. w.inflight \cap Forward # {} => Ahead(w)
        BY <1>1 DEF Ahead, Good, Booked
      <4>3. m \in Nat
        BY <1>1, TsNat
      <4>4. CASE w.tailTs = 0
        <5>1. Reaches(wire, Newest(w.rows), 0, Truth, n, Coming)
          BY <1>1, <1>5, <2>9, <3>1, <4>4 DEF Edge
        <5>2. f.ts <= m
          BY <1>1, <3>5, <4>1, <5>1, HeadReaches
        <5> QED BY <1>2, <3>5, <4>3, <5>2
      <4>5. CASE w.tailTs # 0
        <5>1. Reaches(wire, w.tailTs, 0, Truth, n, Coming)
          BY <1>1, <4>5 DEF Edge
        <5>2. w.tailTs < m => f.ts <= m
          BY <1>1, <4>1, <5>1, HeadReaches
        <5>3. Newest(w.rows) < w.tailTs
          BY <1>1, <1>2, <3>3, <3>5, <4>3, <5>2
        <5> QED BY <4>1, <4>2, <5>3
      <4> QED BY <4>4, <4>5
    <3>6. CASE Ahead(w)
      <4>1. \A p \in w.pending : p.dir \in Forward => p.cur <= Newest(w.rows)
        <5>1. ASSUME NEW p \in w.pending, p.dir \in Forward  PROVE p.cur <= Newest(w.rows)
          <6>1. PICK r \in w.rows : p.cur <= r
            BY <3>2, <5>1 DEF Held
          <6>2. p.cur \in Nat
            BY <1>1, TsNat DEF Window, Request
          <6> QED BY <3>3, <6>1, <6>2
        <5> QED BY <5>1
      <4>2. PICK p \in w.pending : p.dir \in Forward /\ \A m \in Gaps(w.rows, Truth) : p.cur < m
        BY <3>2, <3>6 DEF Whole, Ahead
      <4>3. p.cur \in Nat /\ p.cur <= Newest(w.rows)
        BY <1>1, <4>1, <4>2, TsNat DEF Window, Request
      <4>4. ASSUME NEW m \in Gaps(u.rows, Truth)  PROVE p.cur < m
        <5>1. m \in Nat
          BY <1>1, TsNat DEF Gaps
        <5> QED BY <3>3, <3>4, <4>2, <4>3, <5>1
      <4>5. Whole(u, h, Truth)
        BY <2>1, <4>2, <4>4 DEF Whole
      <4> QED BY <2>5, <2>6, <3>2, <4>5 DEF Landed, h, n, u
    <3>7. CASE ~Ahead(w)
      <4>1. Gaps(w.rows, Truth) = {}
        BY <3>2, <3>7 DEF Whole, Ahead
      <4>2. Gaps(u.rows, Truth) = {}
        <5>1. ASSUME NEW m \in Gaps(u.rows, Truth)  PROVE FALSE
          <6>1. m \in Truth /\ Newest(w.rows) < m /\ m < f.ts
            BY <3>4, <4>1, <5>1 DEF Gaps
          <6>2. u.rows # w.rows
            BY <4>1, <5>1
          <6> QED BY <3>5, <3>7, <6>1, <6>2
        <5> QED BY <5>1
      <4>3. Whole(u, h, Truth)
        BY <4>2 DEF Whole
      <4> QED BY <2>5, <2>6, <3>2, <4>3 DEF Landed, h, n, u
    <3> QED BY <3>6, <3>7
  <2> QED BY <2>7, <2>8, <2>9 DEF u
<1> QED BY <1>4, <1>5

\* A sent message gets another place.
LEMMA ConfirmedLands ==
    ASSUME NEW f, Facing(f), f.k = "Confirmed"
    PROVE  Landed(Handle(w, f), f)
<1> DEFINE n == Newest(store)
           u == Handle(w, f)
           h == Blamed(w, u, f)
           Q == Tail(wire)
<1>1. /\ Good(w) /\ Small(w) /\ f \in Frame /\ w \in Window /\ w.rows \in SUBSET Ts
      /\ Truth \in SUBSET Ts /\ n \in Nat
      /\ Under(w, n) /\ Held(w, cause) /\ Whole(w, cause, Truth)
      /\ \A t \in Shown(f) : t <= n
  BY Faced
<1>2. f.newTs \in Ts /\ f.newTs <= n
  BY <1>1, FrameNumbers
<1>3. ~JumpLanded(w, f) /\ \A p : ~ReachesTail(w, f, p)
  BY <1>1 DEF JumpLanded, ReachesTail
<1>4. CASE f.ts \notin w.rows
  <2>1. u = w
    BY <1>4 DEF Handle, HandleEvent, ApplyConfirmed
  <2>2. Carries(w, f, Truth, n)
    BY <1>1, <1>3, AskedStays, AsksChain DEF Asks
  <2> DEFINE g == Blamed(w, w, f)
  <2>3. w.rows # {} /\ g = {} => ~w.atTail
    BY Blameless DEF Moved
  <2> HIDE DEF g
  <2>4. Edge(w, g, Q, Truth, n, Coming)
    BY <2>3, PairEdge
  <2> QED BY <2>1, <2>2, <2>4 DEF Landed, Carries, g
<1>5. CASE f.ts \in w.rows
  <2>1. /\ u.rows = (w.rows \ {f.ts}) \cup {f.newTs} /\ u.pending = w.pending
        /\ u.tailTs = w.tailTs
    BY <1>1, <1>5 DEF Handle, HandleEvent, ApplyConfirmed, Window
  <2> HIDE DEF u
  <2>2. h # {}
    BY <1>5, <2>1, Blameless DEF Moved
  <2> HIDE DEF h
  <2>3. Edge(u, h, Q, Truth, n, Coming)
    BY <2>1, <2>2, PairEdge
  <2>4. Under(u, n)
    BY <1>1, <1>2, <2>1 DEF Under
  <2> QED BY <2>2, <2>3, <2>4 DEF Landed, Held, Whole, h, u
<1> QED BY <1>4, <1>5

\* The page that p asked for is next; c is the window with p off its books.
Paging(f, p, c) ==
    /\ Facing(f) /\ f.k = "result"
    /\ p \in w.pending /\ p.tok = f.tok /\ PendingAt(w, f.tok) = {p}
    /\ c \in Window /\ Asked(w, c) /\ c.pending = w.pending \ {p}
    /\ Handle(w, f) = ApplyPage(c, p.dir, f)
    /\ Good(Handle(w, f)) /\ Small(Handle(w, f))

LEMMA PageTaken ==
    ASSUME NEW f, Facing(f), f.k = "result", PendingAt(w, f.tok) # {}
    PROVE  \E p, c : Paging(f, p, c)
<1>1. Good(w) /\ Small(w) /\ w \in Window /\ f \in Frame /\ (f.page = {} => f.anchor = 0)
  BY Faced
<1>2. Handle(w, f) = HandleResult(w, f)
  BY DEF Handle
<1>3. Good(Handle(w, f)) /\ Small(Handle(w, f))
  <2>1. Handled(w, f, HandleResult(w, f))
    BY <1>1, HandleResultHandled
  <2> QED BY <1>1, <1>2, <2>1 DEF Handled, Grows, Sound
<1>4. PICK p \in w.pending : PendingAt(w, f.tok) = {p} /\ p.tok = f.tok
  BY <1>1 DEF PendingAt, Good, Booked
<1>5. DirOf(w, f.tok) = p.dir
  BY <1>4 DEF DirOf
<1> DEFINE s == Settle(w, f.tok)
           c == ClearFailure(s, {p.dir})
<1>6. Asked(w, s) /\ s.pending = {q \in w.pending : q.tok # f.tok} /\ s \in Window
  BY <1>1, SettleAsked
<1>7. s.pending = w.pending \ {p}
  BY <1>4, <1>6 DEF PendingAt
<1>8. Handle(w, f) = ApplyPage(c, p.dir, f)
  BY <1>2, <1>4, <1>5 DEF HandleResult
<1> HIDE DEF s
<1>9. Asks(s, c) /\ c.pending = s.pending
  BY <1>6, ClearFailureAsks
<1>10. c \in Window
  BY <1>6 DEF ClearFailure, Window
<1> HIDE DEF c
<1>11. Asked(w, c) /\ c.pending = w.pending \ {p}
  BY <1>6, <1>7, <1>9, AsksChain
<1> QED BY <1>3, <1>4, <1>8, <1>10, <1>11 DEF Paging

\* What the window knew of the tail as a page is handled.
LEMMA PageFacts ==
    ASSUME NEW f, Facing(f), f.k = "result"
    PROVE  LET n == Newest(store)
               Q == Tail(wire)
           IN /\ w.tailTs <= n
              /\ w.tailTs # 0 => /\ Reaches(Q, w.tailTs, 0, Truth, n, Coming)
                                 /\ Seen(Q, w.tailTs, 0, n, Coming)
                                 /\ \A r \in w.rows \cup f.page : r <= w.tailTs
              /\ w.atTail /\ w.rows # {} /\ cause = {} =>
                   /\ w.tailTs = 0 => Reaches(Q, Newest(w.rows), 0, Truth, n, Coming)
                   /\ Seen(Q, Newest(w.rows), 0, n, Coming) \/ Ahead(w)
<1> DEFINE n == Newest(store)
           Q == Tail(wire)
<1>1. /\ wire \in Seq(Frame) /\ wire # <<>> /\ f = Head(wire) /\ f = wire[1]
      /\ Edge(w, cause, wire, Truth, n, Coming)
  BY Faced
<1> HIDE DEF n, Q
<1>2. ~TailFirst(wire)
  BY <1>1 DEF TailFirst
<1>3. \A x : Reaches(wire, x, 0, Truth, n, Coming) =>
         /\ Reaches(Q, x, 0, Truth, n, Coming) /\ Seen(Q, x, 0, n, Coming)
         /\ \A m \in f.page : m <= x
  BY <1>1, HeadReaches DEF Q
<1>4. \A x : Seen(wire, x, 0, n, Coming) => Seen(Q, x, 0, n, Coming)
  <2>1. f \notin Makers(n)
    BY NotMaker, Brackets
  <2> QED BY <1>1, <2>1, HeadSeen DEF Q
<1> QED BY <1>1, <1>2, <1>3, <1>4 DEF Edge, n, Q

\* The edge of a window that shows a page.
LEMMA PageEdge ==
    ASSUME NEW f, Facing(f), f.k = "result", NEW u, NEW h, u.tailTs = w.tailTs,
           u.rows \subseteq w.rows \cup f.page,
           u.atTail /\ u.rows # {} /\ h = {} =>
              /\ u.tailTs = 0 => Reaches(Tail(wire), Newest(u.rows), 0, Truth, Newest(store), Coming)
              /\ Seen(Tail(wire), Newest(u.rows), 0, Newest(store), Coming) \/ Ahead(u)
    PROVE  Edge(u, h, Tail(wire), Truth, Newest(store), Coming)
BY PageFacts DEF Edge

\* A window with no rows, or one with a cause against it.
LEMMA BareHolds ==
    ASSUME NEW u, Good(u), Small(u), NEW h, u.rows = {} \/ h # {}, NEW T
    PROVE  Held(u, h) /\ Whole(u, h, T)
<1>1. CASE u.rows = {}
  <2>1. \A p \in u.pending : p.dir \in {"init", "goto"}
    BY <1>1 DEF Small, Good, Booked
  <2>2. Gaps({}, T) = {}
    BY DEF Gaps
  <2> QED BY <1>1, <2>1, <2>2 DEF Held, Whole, Forward
<1>2. CASE h # {}
  BY <1>2 DEF Held, Whole
<1> QED BY <1>1, <1>2

\* The opening page: it stands alone, or overlaps the rows there are.
LEMMA OpeningLands ==
    ASSUME NEW f, NEW p, NEW c, Paging(f, p, c), p.dir = "init"
    PROVE  Landed(Handle(w, f), f)
<1> DEFINE n == Newest(store)
           u == Handle(w, f)
           h == Blamed(w, u, f)
           Q == Tail(wire)
           P == f.page
<1>1. /\ Facing(f) /\ f.k = "result" /\ PendingAt(w, f.tok) = {p} /\ c \in Window
      /\ Asked(w, c) /\ c.pending = w.pending \ {p} /\ u = ApplyPage(c, p.dir, f)
      /\ Good(u) /\ Small(u) /\ p \in w.pending /\ p.tok = f.tok
  BY DEF Paging
<1>2. /\ w.rows \in SUBSET Ts /\ wire \in Seq(Frame) /\ wire # <<>> /\ f = wire[1] /\ f \in Frame
      /\ Truth \in SUBSET Ts /\ n \in Nat
      /\ Under(w, n) /\ Held(w, cause) /\ Whole(w, cause, Truth)
      /\ (\A t \in Shown(f) : t <= n) /\ PageFits(wire, 1, p, Truth, n, Coming)
  BY <1>1, Faced
<1>3. P \in SUBSET Ts /\ \A t \in P : t <= n
  BY <1>1, <1>2, FrameNumbers
<1>4. u.rows = w.rows \cup P /\ u.pending = w.pending \ {p} /\ u.tailTs = w.tailTs
  <2>1. u = [c EXCEPT !.rows = @ \cup f.page, !.atTail = TRUE]
    BY <1>1, Zenon DEF ApplyPage
  <2> QED BY <1>1, <2>1 DEF Asked, Window
<1>5. ~JumpLanded(w, f)
  BY <1>1 DEF JumpLanded
<1> HIDE DEF u
<1>6. u.rows # {} /\ h = {} => cause = {} /\ ~Apart(w, f)
  BY <1>5, Blameless
<1>7. Apart(w, f) <=> w.rows # {} /\ P \cap w.rows = {}
  BY <1>1 DEF Apart
<1> HIDE DEF h
<1>8. Under(u, n)
  BY <1>2, <1>3, <1>4 DEF Under
<1>9. ASSUME u.rows # {}, h = {}
      PROVE  /\ Held(u, h) /\ Whole(u, h, Truth)
             /\ Reaches(Q, Newest(u.rows), 0, Truth, n, Coming)
             /\ Seen(Q, Newest(u.rows), 0, n, Coming)
  <2>1. cause = {} /\ (w.rows = {} \/ \E x \in w.rows : x \in P)
    BY <1>6, <1>7, <1>9
  <2>2. Held(u, h)
    BY <1>2, <1>4, <2>1, HeldGrows
  <2>3. P # {} /\ Gaps(P, Truth) = {}
    BY <1>2, <1>4, <1>9, <2>1 DEF PageFits
  <2>4. Gaps(u.rows, Truth) \subseteq Gaps(w.rows, Truth)
    <3>1. CASE w.rows = {}
      <4>1. u.rows = P
        BY <1>4, <3>1
      <4> QED BY <2>3, <4>1
    <3>2. ASSUME NEW x \in w.rows, x \in P  PROVE Gaps(u.rows, Truth) \subseteq Gaps(w.rows, Truth)
      <4>1. Gaps(u.rows, Truth) \subseteq Gaps(w.rows, Truth) \cup Gaps(P, Truth)
        BY <1>2, <1>3, <1>4, <3>2, GapsOverlap
      <4> QED BY <2>3, <4>1
    <3> QED BY <2>1, <3>1, <3>2
  <2>5. Whole(u, h, Truth)
    <3>1. \A q \in w.pending : q.dir \in Forward => q \in u.pending
      BY <1>4 DEF Forward
    <3> QED BY <1>2, <2>1, <2>4, <3>1 DEF Whole
  <2>6. Newest(P) \in Nat /\ Newest(u.rows) \in Nat /\ Newest(P) <= Newest(u.rows)
    <3>1. u.rows \in SUBSET Ts /\ P \in SUBSET u.rows
      BY <1>2, <1>3, <1>4
    <3> QED BY <1>3, <3>1, Ends, NewestGrows
  <2>7. Reaches(wire, Newest(P), 1, Truth, n, Coming)
    BY <1>1, <1>2, <2>3 DEF PageFits
  <2>8. Seen(wire, Newest(P), 1, n, Coming)
    <3>1. NoTail(wire, 1, 1) /\ 1 \in 1..Len(wire) /\ 1 <= 1
      BY <1>2, BehindTail DEF NoTail
    <3> QED BY <1>1, <1>2, <2>7, <3>1 DEF Reaches
  <2>9. Reaches(Q, Newest(P), 0, Truth, n, Coming) /\ Seen(Q, Newest(P), 0, n, Coming)
    <3>1. 0 \in Nat /\ 0 + 1 = 1
      OBVIOUS
    <3> QED BY <1>2, <2>7, <2>8, <3>1, ServedReaches
  <2>10. Q \in Seq(Frame)
    BY <1>2, BehindTail
  <2> HIDE DEF Q, n
  <2>11. /\ Reaches(Q, Newest(u.rows), 0, Truth, n, Coming)
         /\ Seen(Q, Newest(u.rows), 0, n, Coming)
    BY <1>2, <2>6, <2>9, <2>10, FartherReaches
  <2> QED BY <2>2, <2>5, <2>11
<1>10. Edge(u, h, Q, Truth, n, Coming)
  BY <1>1, <1>4, <1>9, PageEdge
<1>11. Held(u, h) /\ Whole(u, h, Truth)
  BY <1>1, <1>9, BareHolds
<1> QED BY <1>8, <1>10, <1>11 DEF Landed, n, h, u

\* An older page: it ends where it was asked from.
LEMMA OlderLands ==
    ASSUME NEW f, NEW p, NEW c, Paging(f, p, c), p.dir = "old"
    PROVE  Landed(Handle(w, f), f)
<1> DEFINE n == Newest(store)
           u == Handle(w, f)
           h == Blamed(w, u, f)
           Q == Tail(wire)
           P == f.page
<1>1. /\ Facing(f) /\ f.k = "result" /\ PendingAt(w, f.tok) = {p} /\ c \in Window
      /\ Asked(w, c) /\ c.pending = w.pending \ {p} /\ u = ApplyPage(c, p.dir, f)
      /\ Good(u) /\ Small(u) /\ p \in w.pending /\ p.tok = f.tok
  BY DEF Paging
<1>2. /\ w.rows \in SUBSET Ts /\ wire \in Seq(Frame) /\ wire # <<>> /\ f = wire[1] /\ f \in Frame
      /\ Truth \in SUBSET Ts /\ n \in Nat
      /\ Under(w, n) /\ Held(w, cause) /\ Whole(w, cause, Truth)
      /\ (\A t \in Shown(f) : t <= n) /\ PageFits(wire, 1, p, Truth, n, Coming)
  BY <1>1, Faced
<1>3. P \in SUBSET Ts /\ \A t \in P : t <= n
  BY <1>1, <1>2, FrameNumbers
<1>4. /\ u.rows = w.rows \cup P /\ u.pending = w.pending \ {p} /\ u.tailTs = w.tailTs
      /\ u.atTail = w.atTail
  BY <1>1 DEF ApplyPage, Asked, Window
<1>5. ~JumpLanded(w, f)
  BY <1>1 DEF JumpLanded
<1> HIDE DEF u
<1>6. u.rows # {} /\ h = {} => cause = {}
  BY <1>5, Blameless
<1> HIDE DEF h
<1>7. Under(u, n)
  BY <1>2, <1>3, <1>4 DEF Under
<1>8. \A q \in w.pending : q.dir \in Forward => q \in u.pending
  BY <1>4 DEF Forward
<1>9. ASSUME u.rows # {}, h = {}
      PROVE  /\ Held(u, h) /\ Whole(u, h, Truth)
             /\ w.rows # {} /\ cause = {} /\ Newest(u.rows) = Newest(w.rows)
  <2>1. cause = {} /\ p.cur \in w.rows
    BY <1>1, <1>2, <1>6, <1>9 DEF Held
  <2>2. Held(u, h)
    BY <1>2, <1>4, <2>1, HeldGrows
  <2>3. /\ \A a \in P : a < p.cur
        /\ \A m \in Truth \ P : \A a \in P : a < m => p.cur <= m
    BY <1>2 DEF PageFits
  <2>4. Gaps(u.rows, Truth) \subseteq Gaps(w.rows, Truth)
    BY <1>2, <1>3, <1>4, <2>1, <2>3, GapsOlder
  <2>5. Whole(u, h, Truth)
    BY <1>2, <1>8, <2>1, <2>4 DEF Whole
  <2>6. Newest(u.rows) = Newest(w.rows)
    <3>1. /\ Newest(w.rows) \in w.rows /\ Newest(w.rows) \in Nat
          /\ \A r \in w.rows : r \in Nat /\ r <= Newest(w.rows)
      BY <1>2, <2>1, Ends
    <3>2. ASSUME NEW y \in P  PROVE y <= Newest(w.rows)
      <4>1. y \in Nat /\ y < p.cur /\ p.cur \in Nat /\ p.cur <= Newest(w.rows)
        BY <1>3, <2>1, <2>3, <3>1, TsNat
      <4> QED BY <3>1, <4>1
    <3>3. u.rows \in SUBSET Ts /\ Newest(w.rows) \in u.rows /\ \A y \in u.rows : y <= Newest(w.rows)
      BY <1>2, <1>3, <1>4, <3>1, <3>2
    <3> QED BY <3>3, NewestIs
  <2> QED BY <2>1, <2>2, <2>5, <2>6
<1>10. Edge(u, h, Q, Truth, n, Coming)
  <2>1. Ahead(w) => Ahead(u)
    BY <1>8 DEF Ahead
  <2> QED BY <1>1, <1>4, <1>9, <2>1, PageFacts, PageEdge
<1>11. Held(u, h) /\ Whole(u, h, Truth)
  BY <1>1, <1>9, BareHolds
<1> QED BY <1>7, <1>10, <1>11 DEF Landed, n, h, u

\* A newer page that is shown: it begins where it was asked from, and either ends
\* at the pushed tail or leaves a window that does not claim it.
LEMMA NewerLands ==
    ASSUME NEW f, NEW p, NEW c, Paging(f, p, c), p.dir \in Forward,
           Handle(w, f).rows = w.rows \cup f.page, Handle(w, f).pending = c.pending,
           Handle(w, f).tailTs = c.tailTs,
           Handle(w, f).atTail => w.atTail \/ w.tailTs # 0
    PROVE  Landed(Handle(w, f), f)
<1> DEFINE n == Newest(store)
           u == Handle(w, f)
           h == Blamed(w, u, f)
           Q == Tail(wire)
           P == f.page
<1>1. /\ Facing(f) /\ f.k = "result" /\ PendingAt(w, f.tok) = {p}
      /\ Good(u) /\ Small(u) /\ p \in w.pending /\ p.tok = f.tok
      /\ u.rows = w.rows \cup P /\ u.pending = w.pending \ {p} /\ u.tailTs = w.tailTs
      /\ u.atTail => w.atTail \/ w.tailTs # 0
  BY DEF Paging, Asked
<1>2. /\ w.rows \in SUBSET Ts /\ wire \in Seq(Frame) /\ wire # <<>> /\ f = wire[1] /\ f \in Frame
      /\ Truth \in SUBSET Ts /\ n \in Nat /\ w \in Window
      /\ Under(w, n) /\ Held(w, cause) /\ Whole(w, cause, Truth)
      /\ (\A t \in Shown(f) : t <= n) /\ PageFits(wire, 1, p, Truth, n, Coming)
  BY <1>1, Faced
<1>3. P \in SUBSET Ts /\ (\A t \in P : t <= n) /\ p.cur \in Nat
  BY <1>1, <1>2, FrameNumbers, TsNat DEF Window, Request
<1>4. ~JumpLanded(w, f)
  BY <1>1 DEF JumpLanded, Forward
<1>5. u \in Window
  BY <1>1 DEF Good
<1>6. u.rows # {} /\ h = {} => cause = {} /\ ~Stranded(w, u, f)
  BY <1>4, Blameless
<1>7. ReachesTail(w, f, p) <=> IF P = {} THEN Newest(w.rows) <= p.cur ELSE Newest(P) = w.tailTs
  BY <1>1 DEF ReachesTail
<1> HIDE DEF u, h
<1>8. Under(u, n)
  BY <1>1, <1>2, <1>3 DEF Under
<1>9. ASSUME u.rows # {}, h = {}
      PROVE  /\ Held(u, h) /\ Whole(u, h, Truth)
             /\ u.atTail =>
                  /\ u.tailTs = 0 => Reaches(Q, Newest(u.rows), 0, Truth, n, Coming)
                  /\ Seen(Q, Newest(u.rows), 0, n, Coming)
  <2>1. cause = {} /\ \E r \in w.rows : p.cur <= r
    BY <1>1, <1>2, <1>6, <1>9 DEF Held
  <2>2. Held(u, h)
    <3>1. w.rows \subseteq u.rows /\ u.pending \subseteq w.pending
      BY <1>1
    <3> QED BY <1>2, <2>1, <3>1, HeldGrows
  <2>3. ~ReachesTail(w, f, p) => ~u.atTail /\ \A r \in w.rows : r <= p.cur
    <3>1. p \in w.pending \ u.pending /\ w.rows \cap u.rows = w.rows
      BY <1>1
    <3> QED BY <1>2, <1>5, <1>6, <1>9, <3>1, Unstranded
  <2>4. /\ Newest(w.rows) \in w.rows /\ Newest(w.rows) \in Nat
        /\ \A r \in w.rows : r \in Nat /\ r <= Newest(w.rows)
    BY <1>2, <2>1, Ends
  <2>5. \/ Gaps(w.rows, Truth) = {}
        \/ \E q \in w.pending : q.dir \in Forward /\ \A m \in Gaps(w.rows, Truth) : p.cur < m /\ q = p
        \/ \E q \in u.pending : q.dir \in Forward /\ \A m \in Gaps(w.rows, Truth) : q.cur < m
    <3>1. \A q \in w.pending : q \in u.pending \/ q = p
      BY <1>1
    <3> QED BY <1>2, <2>1, <3>1 DEF Whole
\* No gap lies beyond where the page was asked from.
  <2>6. ASSUME \A m \in Gaps(u.rows, Truth) : m \in Gaps(w.rows, Truth) /\ m <= p.cur
        PROVE  Whole(u, h, Truth)
    <3>1. CASE Gaps(w.rows, Truth) = {}
      <4>1. Gaps(u.rows, Truth) = {}
        BY <2>6, <3>1
      <4> QED BY <4>1 DEF Whole
    <3>2. CASE \A m \in Gaps(w.rows, Truth) : p.cur < m
      <4>1. ASSUME NEW m \in Gaps(u.rows, Truth)  PROVE FALSE
        <5>1. m \in Nat
          BY <1>2, TsNat DEF Gaps
        <5> QED BY <1>3, <2>6, <3>2, <5>1
      <4>2. Gaps(u.rows, Truth) = {}
        BY <4>1
      <4> QED BY <4>2 DEF Whole
    <3>3. CASE \E q \in u.pending : q.dir \in Forward /\ \A m \in Gaps(w.rows, Truth) : q.cur < m
      BY <2>6, <3>3 DEF Whole
    <3> QED BY <2>5, <3>1, <3>2, <3>3
  <2>7. CASE P = {}
    <3>1. \A r \in w.rows : r <= p.cur
      <4>1. ReachesTail(w, f, p) => Newest(w.rows) <= p.cur
        BY <1>7, <2>7
      <4> QED BY <1>3, <2>3, <2>4, <4>1
    <3>2. Newest(w.rows) = p.cur /\ u.rows = w.rows
      BY <1>1, <1>3, <2>1, <2>4, <2>7, <3>1
    <3>3. \A m \in Gaps(u.rows, Truth) : m \in Gaps(w.rows, Truth) /\ m <= p.cur
      <4>1. ASSUME NEW m \in Gaps(u.rows, Truth)  PROVE m <= p.cur
        <5>1. PICK b \in w.rows : m < b /\ m \in Nat
          BY <1>2, <3>2, TsNat DEF Gaps
        <5> QED BY <1>3, <2>4, <3>1, <5>1
      <4> QED BY <3>2, <4>1
    <3>4. Seen(wire, p.cur, 1, n, Coming)
      BY <1>2, <2>7 DEF PageFits
    <3>5. Seen(Q, Newest(u.rows), 0, n, Coming)
      <4>1. 0 \in Nat /\ 0 + 1 = 1
        OBVIOUS
      <4> QED BY <1>2, <3>2, <3>4, <4>1, ServedReaches
    <3>6. u.atTail /\ u.tailTs = 0 => Reaches(Q, Newest(u.rows), 0, Truth, n, Coming)
      <4>1. w.rows # {}
        BY <2>1
      <4> QED BY <1>1, <2>1, <3>2, <4>1, PageFacts
    <3> QED BY <2>2, <2>6, <3>3, <3>5, <3>6
  <2>8. CASE P # {}
    <3>1. /\ Newest(P) \in P /\ \A y \in P : y \in Nat /\ y <= Newest(P)
      BY <1>3, <2>8, Ends
    <3>2. /\ \A a \in P : p.cur < a
          /\ \A m \in Truth \ P : \A a \in P : m < a => m <= p.cur
      BY <1>2 DEF PageFits
    <3>3. ReachesTail(w, f, p) => /\ Newest(P) = w.tailTs /\ w.tailTs # 0
                                  /\ \A r \in w.rows \cup P : r <= w.tailTs
      <4>1. Newest(P) # 0
        BY <1>3, <3>1, TsNat
      <4> QED BY <1>1, <1>7, <2>8, <4>1, PageFacts
    <3>4. \A b \in w.rows : b <= p.cur \/ \E a \in P : b <= a
      BY <2>3, <3>1, <3>3
    <3>5. \A m \in Gaps(u.rows, Truth) : m \in Gaps(w.rows, Truth) /\ m <= p.cur
      <4>1. \A m \in Gaps(w.rows \cup P, Truth) : m \in Gaps(w.rows, Truth) /\ m <= p.cur
        <5> HIDE DEF P
        <5> QED BY <1>2, <1>3, <2>1, <3>2, <3>4, GapsNewer
      <4> QED BY <1>1, <4>1
    <3>6. u.atTail => w.tailTs # 0 /\ Newest(u.rows) = w.tailTs
      <4>1. u.rows \in SUBSET Ts
        BY <1>1, <1>2, <1>3
      <4>2. ReachesTail(w, f, p) => Newest(u.rows) = w.tailTs
        BY <1>1, <3>1, <3>3, <4>1, NewestIs
      <4> QED BY <2>3, <3>3, <4>2
    <3>7. u.atTail => u.tailTs # 0 /\ Seen(Q, Newest(u.rows), 0, n, Coming)
      BY <1>1, <3>6, PageFacts
    <3> QED BY <2>2, <2>6, <3>5, <3>7
  <2> QED BY <2>7, <2>8
<1>10. Edge(u, h, Q, Truth, n, Coming)
  BY <1>1, <1>9, PageEdge
<1>11. Held(u, h) /\ Whole(u, h, Truth)
  BY <1>1, <1>9, BareHolds
<1> QED BY <1>8, <1>10, <1>11 DEF Landed, n, h, u

\* A page that is not shown.
LEMMA UnshownLands ==
    ASSUME NEW f, NEW p, NEW c, Paging(f, p, c), Asks(c, Handle(w, f)), ~JumpLanded(w, f),
           p.dir \in Forward => ~ReachesTail(w, f, p)
    PROVE  Landed(Handle(w, f), f)
<1> DEFINE u == Handle(w, f)
<1>1. /\ Facing(f) /\ f.k = "result" /\ Asked(w, c) /\ c.pending = w.pending \ {p}
      /\ Good(u) /\ Small(u)
  BY DEF Paging
<1> HIDE DEF u
<1>2. Asked(w, u) /\ c.pending \subseteq u.pending
  <2>1. Asks(c, u)
    BY DEF u
  <2> QED BY <1>1, <2>1, AsksChain DEF Asks
<1>3. \A q \in w.pending \ u.pending : q = p
  BY <1>1, <1>2
<1>4. f # CatchupDone(TRUE)
  BY <1>1, Brackets
<1> QED BY <1>1, <1>2, <1>3, <1>4, AskedLands DEF u

\* A jump: its slice replaces the window, or is not shown.
LEMMA JumpLands ==
    ASSUME NEW f, NEW p, NEW c, Paging(f, p, c), p.dir = "goto"
    PROVE  Landed(Handle(w, f), f)
<1> DEFINE n == Newest(store)
           u == Handle(w, f)
           h == Blamed(w, u, f)
           Q == Tail(wire)
           P == f.page
           j == [c EXCEPT !.rows = f.page, !.atTail = FALSE]
<1>1. /\ Facing(f) /\ f.k = "result" /\ PendingAt(w, f.tok) = {p} /\ c \in Window
      /\ Asked(w, c) /\ c.pending = w.pending \ {p} /\ u = ApplyPage(c, p.dir, f)
      /\ Good(u) /\ Small(u) /\ p \in w.pending /\ p.tok = f.tok
  BY DEF Paging
<1>2. /\ w.rows \in SUBSET Ts /\ wire \in Seq(Frame) /\ wire # <<>> /\ f = wire[1] /\ f \in Frame
      /\ Truth \in SUBSET Ts /\ n \in Nat /\ Good(w) /\ (P = {} => f.anchor = 0)
      /\ Under(w, n)
      /\ (\A t \in Shown(f) : t <= n) /\ PageFits(wire, 1, p, Truth, n, Coming)
  BY <1>1, Faced
<1>3. P \in SUBSET Ts /\ \A t \in P : t <= n
  BY <1>1, <1>2, FrameNumbers
<1>4. c.rows = w.rows
  BY <1>1 DEF Asked
<1>5. CASE ~(f.anchor # 0 /\ f.anchor \notin w.rows)
  <2>1. u = IF c.rows = {} THEN LoadInitial(c) ELSE c
    BY <1>1, <1>4, <1>5, Zenon DEF ApplyPage
  <2>2. Asks(c, LoadInitial(c)) /\ Asks(c, c)
    BY <1>1, LoadInitialAsks, AsksChain
  <2>3. Asks(c, u)
    BY <2>1, <2>2
  <2>4. ~JumpLanded(w, f) /\ p.dir \notin Forward
    BY <1>5 DEF JumpLanded, Forward
  <2> QED BY <2>3, <2>4, UnshownLands
<1>6. CASE f.anchor # 0 /\ f.anchor \notin w.rows
  <2>1. u = IF j.rows = {} THEN LoadInitial(j) ELSE j
    BY <1>1, <1>4, <1>6, Zenon DEF ApplyPage
  <2>2. j.rows = P /\ ~j.atTail /\ j.pending = w.pending \ {p} /\ j.tailTs = w.tailTs
    BY <1>1 DEF Asked, Window
  <2>3. P # {}
    BY <1>2, <1>6
  <2> HIDE DEF u, j
  <2>4. u.rows = P /\ ~u.atTail /\ u.pending = w.pending \ {p} /\ u.tailTs = w.tailTs
    BY <2>1, <2>2, <2>3
  <2>5. JumpLanded(w, f)
    BY <1>1, <1>6 DEF JumpLanded
  <2>6. h = {} => w.inflight \cap {"old", "new", "catchup"} = {}
    BY <2>3, <2>4, <2>5, Blameless DEF Crossed
  <2> HIDE DEF h
  <2>7. h = {} => \A q \in u.pending : q.dir \notin Forward \cup {"old"}
    BY <1>2, <2>4, <2>6 DEF Forward, Good, Booked
  <2>8. Under(u, n)
    BY <1>2, <1>3, <2>4 DEF Under
  <2>9. Held(u, h)
    BY <2>7 DEF Held
  <2>10. Whole(u, h, Truth)
    BY <1>2, <2>4 DEF Whole, PageFits
  <2>11. Edge(u, h, Q, Truth, n, Coming)
    BY <1>1, <2>4, PageEdge
  <2> QED BY <2>8, <2>9, <2>10, <2>11 DEF Landed, n, h, u
<1> QED BY <1>5, <1>6

LEMMA ResultLands ==
    ASSUME NEW f, Facing(f), f.k = "result"
    PROVE  Landed(Handle(w, f), f)
<1>1. Good(w) /\ Small(w)
  BY Faced
<1>2. CASE PendingAt(w, f.tok) = {}
  <2>1. Handle(w, f) = w
    BY <1>2 DEF Handle, HandleResult
  <2>2. ~JumpLanded(w, f) /\ Asked(w, w) /\ f # CatchupDone(TRUE)
    BY <1>2, AsksChain, Brackets DEF JumpLanded, Asks
  <2> QED BY <1>1, <2>1, <2>2, AskedLands
<1>3. CASE PendingAt(w, f.tok) # {}
  <2>1. PICK p, c : Paging(f, p, c)
    BY <1>3, PageTaken
  <2>2. /\ Handle(w, f) = ApplyPage(c, p.dir, f) /\ c \in Window
        /\ c.rows = w.rows /\ c.atTail = w.atTail /\ c.tailTs = w.tailTs
        /\ PendingAt(w, f.tok) = {p} /\ p \in w.pending
    BY <2>1 DEF Paging, Asked
  <2>3. p.dir \in Dirs
    BY <1>1, <2>2 DEF Good, Window, Request
  <2>4. CASE p.dir = "new"
    <3> DEFINE R == c.rows \cup f.page
               t == c.tailTs # 0 /\ R # {} /\ Newest(R) = c.tailTs
               u == [c EXCEPT !.rows = R, !.atTail = @ \/ t]
    <3>1. Handle(w, f) = u
      BY <2>2, <2>4, Zenon DEF ApplyPage
    <3>2. t => w.tailTs # 0
      BY <2>2
    <3> HIDE DEF t
    <3>3. u.rows = w.rows \cup f.page /\ u.pending = c.pending /\ u.tailTs = c.tailTs
      BY <2>2 DEF Window
    <3>4. u.atTail = (c.atTail \/ t)
      BY <2>2, Zenon DEF Window
    <3>5. u.atTail => w.atTail \/ w.tailTs # 0
      BY <2>2, <3>2, <3>4
    <3> HIDE DEF u
    <3> QED BY <2>1, <2>4, <3>1, <3>3, <3>5, NewerLands DEF Forward
  <2>5. CASE p.dir = "catchup" /\ (f.page = {} \/ Newest(f.page) = w.tailTs)
    <3> DEFINE u == [c EXCEPT !.rows = @ \cup f.page]
    <3>1. Handle(w, f) = u
      BY <2>2, <2>5, Zenon DEF ApplyPage
    <3>2. /\ u.rows = w.rows \cup f.page /\ u.pending = c.pending /\ u.tailTs = c.tailTs
          /\ u.atTail = w.atTail
      BY <2>2 DEF Window
    <3> HIDE DEF u
    <3> QED BY <2>1, <2>5, <3>1, <3>2, NewerLands DEF Forward
  <2>6. CASE p.dir = "catchup" /\ ~(f.page = {} \/ Newest(f.page) = w.tailTs)
    <3>1. Handle(w, f) = c
      BY <2>2, <2>6, Zenon DEF ApplyPage
    <3>2. Asks(c, c)
      BY AsksChain
    <3>3. ~JumpLanded(w, f)
      BY <2>2, <2>6 DEF JumpLanded
    <3>4. ~ReachesTail(w, f, p)
      BY <2>6 DEF ReachesTail
    <3> QED BY <2>1, <3>1, <3>2, <3>3, <3>4, UnshownLands
  <2> QED BY <2>1, <2>3, <2>4, <2>5, <2>6, OpeningLands, OlderLands, JumpLands DEF Dirs
<1> QED BY <1>2, <1>3

LEMMA HandleLands ==
    ASSUME NEW f, Facing(f)
    PROVE  Landed(Handle(w, f), f)
<1>1. f \in Frame
  BY Faced
<1>2. CASE f = CatchupDone(TRUE)
  BY <1>2, DoneLands
<1>3. CASE f.k \in {"State", "CatchupStarted", "CatchupDone", "Edited"} /\ f # CatchupDone(TRUE)
  BY <1>3, QuietLands
<1> QED BY <1>1, <1>2, <1>3, FrameFields, ResultLands, ErrorLands, TailLands, NewLands, ConfirmedLands

LEMMA DeliverExtent == Inv /\ FeedInv /\ ExtentInv /\ Deliver => ExtentInv'
<1> SUFFICES ASSUME Inv, FeedInv, ExtentInv, Deliver  PROVE ExtentInv'
  OBVIOUS
<1> DEFINE f == Head(wire)
           v == Handle(w, f)
           n == Newest(store)
<1>1. Inv' /\ FeedInv'
  BY DeliverInv, DeliverFeed
<1>2. Good(w) /\ Good(w') /\ Small(w) /\ Small(w') /\ TypeOK
  BY <1>1, InvIsGood DEF Inv, TypeOK, OneRequest, QuietFailure, Good, Booked, Quiet, FeedInv, Small
<1>3. /\ wire # <<>> /\ w' = v /\ cause' = Blamed(w, v, f) /\ (linkUp => wire' = Tail(wire))
      /\ UNCHANGED <<backendVars, linkUp>>
  BY DEF Deliver, Become
<1>4. Truth' = Truth /\ Newest(store') = n /\ Coming' = Coming
  BY <1>3 DEF backendVars, Truth, Coming
<1>5. Truth \in SUBSET Ts /\ n \in Nat /\ wire \in Seq(Frame) /\ f \in Frame
  BY <1>2, <1>3, Ends, BehindTail DEF TypeOK, Truth
<1> HIDE DEF f, v, n
<1>6. CASE linkUp
  <2>1. Facing(f)
    BY <1>3, <1>6 DEF Facing, f
  <2>2. Landed(v, f)
    BY <2>1, HandleLands DEF v
  <2>3. /\ Under(v, n) /\ Held(v, cause') /\ Whole(v, cause', Truth)
        /\ Edge(v, cause', wire', Truth, n, Coming)
    BY <1>3, <1>6, <2>2 DEF Landed, n
  <2>4. Frames(v.rows, v.pending, wire', Truth, n, Coming)
    <3>1. f.k = "result" /\ f.page = {} => f.anchor = 0
      BY <2>1, Faced
    <3>2. Handled(w, f, v)
      BY <1>2, <1>5, <3>1, HandleHandled DEF v
    <3>3. v.rows \subseteq w.rows \cup Shown(f)
      BY <1>5, <3>2, FrameNumbers DEF Handled, Grows
    <3>4. \A p \in v.pending : p \in w.pending \/ w.next <= p.tok
      BY <3>2 DEF Handled, Grows
    <3>5. ASSUME NEW p \in v.pending, p \notin w.pending, NEW i \in 1..Len(wire), wire[i].k = "result"
          PROVE  wire[i].tok # p.tok
      <4>1. wire[i].tok < w.next /\ wire[i] \in Frame
        BY <1>5, <3>5, ElementOfSeq DEF FeedInv, TokensOK
      <4>2. wire[i].tok \in Nat /\ w.next \in Nat /\ p.tok \in Nat /\ w.next <= p.tok
        BY <1>2, <1>3, <3>4, <3>5, <4>1, FrameNumbers DEF Good, Window, Request
      <4> QED BY <4>1, <4>2
    <3>6. Frames(w.rows, w.pending, wire, Truth, n, Coming)
      BY <1>6 DEF ExtentInv, n
    <3>7. Frames(v.rows, v.pending, Tail(wire), Truth, n, Coming)
      <4>1. v.rows \subseteq w.rows \cup Shown(Head(wire))
        BY <3>3 DEF f
      <4> QED BY <1>3, <1>5, <3>5, <3>6, <4>1, FramesServed
    <3> QED BY <1>3, <1>6, <3>7
  <2> QED BY <1>3, <1>4, <2>3, <2>4 DEF ExtentInv, Under, Held, Whole, Edge, Frames
<1>7. CASE ~linkUp
  <2>1. f.k = "error"
    BY <1>3, <1>5, <1>7, BehindTail DEF FeedInv, LinkOK, f
  <2>2. Asked(w, v)
    BY <1>2, <2>1, HandleErrorAsked DEF v, Handle
  <2>3. ~JumpLanded(w, f) /\ \A p : ~ReachesTail(w, f, p)
    BY <2>1 DEF JumpLanded, ReachesTail
  <2>4. Under(w, n) /\ Held(w, cause) /\ Whole(w, cause, Truth)
    BY DEF ExtentInv, n
  <2>5. Carries(v, f, Truth, n)
    BY <1>2, <1>3, <1>5, <2>2, <2>3, <2>4, AskedStays
  <2>6. Under(v, n) /\ Held(v, cause') /\ Whole(v, cause', Truth)
    BY <1>3, <2>5 DEF Carries
  <2> QED BY <1>3, <1>4, <1>7, <2>6 DEF ExtentInv, Under, Held, Whole
<1> QED BY <1>6, <1>7

-----------------------------------------------------------------------------
(* The link.                                                                *)

\* A window as it is when it is built, or attached again.
LEMMA BareExtent ==
    ASSUME NEW v, Good(v), Small(v), v.rows = {}, v.tailTs = 0, NEW n \in Nat, NEW T,
           NEW q, \A i \in 1..Len(q) : q[i].k = "error", NEW h, NEW c
    PROVE  /\ Under(v, n) /\ Held(v, h) /\ Whole(v, h, T)
           /\ Edge(v, h, q, T, n, c) /\ Frames(v.rows, v.pending, q, T, n, c)
<1>1. Held(v, h) /\ Whole(v, h, T)
  BY BareHolds
<1>2. \A p \in v.pending : p.dir \in {"init", "goto"}
  BY DEF Small, Good, Booked
<1>3. Under(v, n)
  BY <1>2 DEF Under
<1>4. Edge(v, h, q, T, n, c)
  BY DEF Edge
<1>5. \A i \in 1..Len(q) : Shown(q[i]) = {}
  BY DEF Shown, Shows
<1>6. Frames(v.rows, v.pending, q, T, n, c)
  BY <1>5 DEF Frames, Paired, Rises
<1> QED BY <1>1, <1>3, <1>4, <1>6

LEMMA ReloadBare ==
    ASSUME NEW v, v.next \in Nat
    PROVE  Reload(v).rows = {} /\ Reload(v).tailTs = 0
<1> DEFINE b == Blank(v.next)
<1>1. b \in Window /\ b.rows = {} /\ b.tailTs = 0
  BY DEF Blank, Window
<1> HIDE DEF b
<1>2. Asks(b, LoadInitial(b))
  BY <1>1, LoadInitialAsks
<1> QED BY <1>1, <1>2 DEF Reload, b, Asks, Asked

LEMMA LinkExtent == Inv /\ FeedInv /\ ExtentInv /\ (LinkDown \/ LinkUp) => ExtentInv'
<1> SUFFICES ASSUME Inv, FeedInv, ExtentInv, LinkDown \/ LinkUp  PROVE ExtentInv'
  OBVIOUS
<1> DEFINE n == Newest(store)
<1>1. Inv' /\ FeedInv'
  BY LinkInv, LinkFeed
<1>2. Good(w) /\ Good(w') /\ Small(w) /\ Small(w') /\ TypeOK
  BY <1>1, InvIsGood DEF Inv, TypeOK, OneRequest, QuietFailure, Good, Booked, Quiet, FeedInv, Small
<1>3. Truth' = Truth /\ Newest(store') = n /\ Coming' = Coming
  BY DEF backendVars, Truth, Coming, LinkDown, LinkUp
<1>4. Truth \in SUBSET Ts /\ n \in Nat
  BY <1>2, Ends DEF TypeOK, Truth
<1> HIDE DEF n
<1>5. CASE LinkDown
  <2>1. w' \in FailAll(w) /\ cause' = Blamed(w, w', NoFrame) /\ ~linkUp'
    BY <1>5 DEF LinkDown
  <2>2. Asked(w, w')
    BY <1>2, <2>1, FailAllAsked
  <2>3. Under(w, n) /\ Held(w, cause) /\ Whole(w, cause, Truth)
    BY DEF ExtentInv, n
  <2>4. Carries(w', NoFrame, Truth, n)
    BY <1>2, <1>4, <2>2, <2>3, AskedStays, NoFrameNothing
  <2>5. Under(w', n) /\ Held(w', cause') /\ Whole(w', cause', Truth)
    BY <2>1, <2>4 DEF Carries
  <2> QED BY <1>3, <2>1, <2>5 DEF ExtentInv, Under, Held, Whole
<1>6. CASE LinkUp
  <2>1. w' = Reload(w) /\ wire' = wire /\ ~linkUp
    BY <1>6 DEF LinkUp
  <2>2. w'.rows = {} /\ w'.tailTs = 0
    BY <1>2, <2>1, ReloadBare DEF Good, Window
  <2>3. \A i \in 1..Len(wire) : wire[i].k = "error"
    BY <2>1 DEF FeedInv, LinkOK
  <2>4. /\ Under(w', n) /\ Held(w', cause') /\ Whole(w', cause', Truth)
        /\ Edge(w', cause', wire, Truth, n, Coming)
        /\ Frames(w'.rows, w'.pending, wire, Truth, n, Coming)
    BY <1>2, <1>4, <2>2, <2>3, BareExtent
  <2> QED BY <1>3, <2>1, <2>4 DEF ExtentInv, Under, Held, Whole, Edge, Frames
<1> QED BY <1>5, <1>6

LEMMA InitExtent == Init => ExtentInv
<1> SUFFICES ASSUME Init  PROVE ExtentInv
  OBVIOUS
<1>1. Good(w) /\ Small(w) /\ TypeOK
  BY InitInv, InitFeed, InvIsGood DEF FeedInv
<1>2. w.rows = {} /\ w.tailTs = 0
  <2>1. Blank(1).next \in Nat
    BY DEF Blank
  <2> QED BY <2>1, ReloadBare DEF Init
<1>3. Newest(store) \in Nat
  BY <1>1, Ends DEF TypeOK
<1>4. \A i \in 1..Len(wire) : wire[i].k = "error"
  BY DEF Init
<1> QED BY <1>1, <1>2, <1>3, <1>4, BareExtent DEF ExtentInv

LEMMA NextExtent == Inv /\ FeedInv /\ ExtentInv /\ [Next]_vars => ExtentInv'
<1> SUFFICES ASSUME Inv, FeedInv, ExtentInv, [Next]_vars  PROVE ExtentInv'
  OBVIOUS
<1>1. CASE Next
  BY <1>1, UserExtent, DeliverExtent, LinkExtent, BackendExtent DEF Next
<1>2. CASE UNCHANGED vars
  <2>1. /\ w' = w /\ cause' = cause /\ linkUp' = linkUp /\ wire' = wire
        /\ Truth' = Truth /\ Newest(store') = Newest(store) /\ Coming' = Coming
    BY <1>2 DEF vars, backendVars, Truth, Coming
  <2> QED BY <2>1 DEF ExtentInv, Under, Held, Whole, Edge, Frames
<1> QED BY <1>1, <1>2

-----------------------------------------------------------------------------
(* What the invariant is for.                                               *)

LEMMA ExtentGaps == Inv /\ ExtentInv => GapsHaveACause
<1> SUFFICES ASSUME Inv, ExtentInv, cause = {}, w.inflight \cap {"new", "catchup"} = {}, w.rows # {}
             PROVE  Between(Truth, Oldest(w.rows), Newest(w.rows)) \subseteq w.rows
  BY DEF GapsHaveACause, Contiguous
<1>1. Good(w) /\ w.rows \in SUBSET Ts
  BY InvIsGood DEF Good, Window
<1>2. \A p \in w.pending : p.dir \notin Forward
  BY <1>1 DEF Good, Booked, Forward
<1>3. Gaps(w.rows, Truth) = {}
  BY <1>2 DEF ExtentInv, Whole
<1>4. Newest(w.rows) \in w.rows /\ Oldest(w.rows) \in w.rows
  BY <1>1, Ends
<1> QED BY <1>3, <1>4 DEF Gaps, Between

LEMMA ExtentTail == Inv /\ FeedInv /\ ExtentInv => SettledTail
<1> SUFFICES ASSUME Inv, FeedInv, ExtentInv, Settled, w.atTail, w.rows # {}, cause = {}
             PROVE  Newest(w.rows) = Newest(store)
  BY DEF SettledTail
<1> DEFINE n == Newest(store)
<1>1. TypeOK /\ Good(w) /\ w.rows \in SUBSET Ts /\ store \in SUBSET Ts
  BY InvIsGood DEF Good, Window, TypeOK
<1>2. wire = <<>> /\ w.pending = {} /\ linkUp /\ ~Coming
  BY DEF Settled, Coming
<1>3. n \in Nat /\ Newest(w.rows) \in Nat /\ Newest(w.rows) \in w.rows
  BY <1>1, Ends
<1>4. Newest(w.rows) <= n
  BY <1>3 DEF ExtentInv, Under
<1>5. Seen(wire, Newest(w.rows), 0, n, Coming)
  BY <1>2 DEF ExtentInv, Edge, Ahead
<1>6. ~Behind(wire, 0, Makers(n))
  BY <1>2 DEF Behind
<1>7. n <= Newest(w.rows)
  BY <1>2, <1>5, <1>6 DEF Seen, Later
<1> QED BY <1>3, <1>4, <1>7

\* A window with no cause against it knows, or is on its way to learn, of every
\* message newer than its last row while it claims the tail, and has no gap but
\* the one a page it has asked for will fill.
LEMMA ExtentHolds == Spec => [](Inv /\ FeedInv /\ ExtentInv)
<1>1. Init => Inv /\ FeedInv /\ ExtentInv
  BY InitInv, InitFeed, InitExtent
<1>2. Inv /\ FeedInv /\ ExtentInv /\ [Next]_vars => (Inv /\ FeedInv /\ ExtentInv)'
  BY NextInv, NextFeed, NextExtent
<1> QED BY <1>1, <1>2, PTL DEF Spec

\* Whatever the order of pages, jumps, culls, live rows, catchups, errors and lost
\* links, a message the window skips lies where a forward page now out will bring
\* it, or follows one of the five events ChatWindow's history names: every gap of
\* ChatModel's window comes of those.
THEOREM GapsExplained == Spec => []GapsHaveACause
<1> QED BY ExtentHolds, ExtentGaps, PTL

\* Once everything asked and emitted is handled, a ChatModel window that claims the
\* tail ends at the newest message stored, unless one of those events is to blame:
\* what handleEvent drops at the gate is fetched.
THEOREM TailSettles == Spec => []SettledTail
<1> QED BY ExtentHolds, ExtentTail, PTL

=============================================================================
