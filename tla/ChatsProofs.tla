----------------------------- MODULE ChatsProofs -----------------------------
(***************************************************************************)
(* Proofs about what a UI keeps beside a chat's messages, for every value   *)
(* of the constants of MCChats: that what tacky and the UI each hold agrees *)
(* once all is said, and that no order of edits loses what was written.     *)
(***************************************************************************)
EXTENDS MCChats, SequenceTheorems, FiniteSetTheorems, TLAPS

-----------------------------------------------------------------------------
(* The wire.                                                                *)

\* The frames whose bodies are in B.
Kinds ==
    {"set", "load", "open", "close",
     "padlock", "switch", "prepare", "Enabled", "RoomStatus", "State",
     "search", "cancel", "caps", "rooms", "nick"}
Frames(B) ==
    [kind : Kinds, live : BOOLEAN, is : {"sent", "asked", "unsent", "result", "error"}, body : B]

LEMMA FramesOK == ASSUME NEW B, NEW f \in Frames(B) PROVE FrameOK(f)
BY DEF Frames, FrameOK

\* Letting go of a token changes nothing else of a frame.
LEMMA StaleIs ==
    ASSUME NEW B, NEW q \in Seq(Frames(B)), NEW K
    PROVE  /\ Stale(q, K) \in Seq(Frames(B)) /\ Len(Stale(q, K)) = Len(q)
           /\ \A i \in 1..Len(q) :
                /\ Stale(q, K)[i].kind = q[i].kind /\ Stale(q, K)[i].is = q[i].is
                /\ Stale(q, K)[i].body = q[i].body
                /\ Stale(q, K)[i].live <=> q[i].live /\ q[i].kind \notin K
<1>1. /\ DOMAIN q = 1..Len(q) /\ Len(q) \in Nat
      /\ \A i \in 1..Len(q) : q[i] \in Frames(B)
  OBVIOUS
<1>2. \A i \in 1..Len(q) : [q[i] EXCEPT !.live = FALSE] \in Frames(B)
  BY <1>1 DEF Frames
<1>3. Stale(q, K) = [i \in 1..Len(q) |->
                       IF q[i].kind \in K THEN [q[i] EXCEPT !.live = FALSE] ELSE q[i]]
  BY <1>1 DEF Stale
<1>4. Stale(q, K) \in Seq(Frames(B)) /\ Len(Stale(q, K)) = Len(q)
  BY <1>1, <1>2, <1>3
<1>5. ASSUME NEW i \in 1..Len(q)
      PROVE  /\ Stale(q, K)[i].kind = q[i].kind /\ Stale(q, K)[i].is = q[i].is
             /\ Stale(q, K)[i].body = q[i].body
             /\ Stale(q, K)[i].live <=> q[i].live /\ q[i].kind \notin K
  <2>1. q[i] \in Frames(B)
    BY <1>1
  <2>2. Stale(q, K)[i] = IF q[i].kind \in K THEN [q[i] EXCEPT !.live = FALSE] ELSE q[i]
    BY <1>3
  <2> QED BY <2>1, <2>2 DEF Frames
<1> QED BY <1>4, <1>5

LEMMA StaleNone == ASSUME NEW E, NEW q \in Seq(E) PROVE Stale(q, {}) = q
BY DEF Stale

LEMMA Joined ==
    ASSUME NEW E, NEW q \in Seq(E), NEW g \in Seq(E)
    PROVE  /\ q \o g \in Seq(E) /\ Len(q \o g) = Len(q) + Len(g)
           /\ \A i \in 1..Len(q) : (q \o g)[i] = q[i]
           /\ \A i \in 1..Len(g) : (q \o g)[Len(q) + i] = g[i]
           /\ \A k \in 1..Len(q \o g) : k \notin 1..Len(q) => k - Len(q) \in 1..Len(g)
           /\ \A k \in 1..Len(q \o g) : k \notin 1..Len(q) => (q \o g)[k] = g[k - Len(q)]
OBVIOUS

LEMMA Taken ==
    ASSUME NEW E, NEW q \in Seq(E), q # <<>>
    PROVE  /\ Tail(q) \in Seq(E) /\ Len(Tail(q)) = Len(q) - 1 /\ Len(q) \in Nat \ {0}
           /\ Head(q) \in E /\ Head(q) = q[1]
           /\ \A i \in 1..Len(Tail(q)) : i + 1 \in 1..Len(q) /\ Tail(q)[i] = q[i + 1]
           /\ \A k \in 1..Len(q) : k # 1 => k - 1 \in 1..Len(Tail(q)) /\ Tail(q)[k - 1] = q[k]
<1>1. /\ Tail(q) \in Seq(E) /\ Len(Tail(q)) = Len(q) - 1 /\ Len(q) \in Nat \ {0}
      /\ Head(q) \in E /\ Head(q) = q[1]
      /\ \A i \in 1..Len(Tail(q)) : Tail(q)[i] = q[i + 1]
  BY HeadTailProperties, EmptySeq
<1>2. \A i \in 1..Len(Tail(q)) : i + 1 \in 1..Len(q)
  BY <1>1
<1>3. \A k \in 1..Len(q) : k # 1 => k - 1 \in 1..Len(Tail(q)) /\ (k - 1) + 1 = k
  BY <1>1
<1> QED BY <1>1, <1>2, <1>3

\* Of a handler's frames no request fails unsent, or the one there is.
LEMMA NoneRequested ==
    ASSUME NEW E, NEW fs \in Seq(E), \A i \in 1..Len(fs) : ~IsCall(fs[i])
    PROVE  Requested(fs) = <<>>
<1> DEFINE C == {i \in DOMAIN fs : IsCall(fs[i])}
           at == CHOOSE f \in [1..Cardinality(C) -> C] :
                    \A m, n \in DOMAIN f : m < n => f[m] < f[n]
<1>1. C = {} /\ Cardinality(C) = 0
  <2>1. C = {}
    OBVIOUS
  <2> QED BY <2>1, FS_EmptySet
<1>2. 1..Cardinality(C) = {}
  <2>1. 1..0 = {}
    OBVIOUS
  <2> HIDE DEF C
  <2> QED BY <1>1, <2>1
<1>3. [i \in {} |-> 0] \in [1..Cardinality(C) -> C]
  BY <1>1, <1>2
<1>4. \A m, n \in DOMAIN [i \in {} |-> 0] : m < n => [i \in {} |-> 0][m] < [i \in {} |-> 0][n]
  OBVIOUS
<1>5. at \in [1..Cardinality(C) -> C]
  BY <1>3, <1>4
<1>6. DOMAIN at = {}
  BY <1>2, <1>5
<1>7. Requested(fs) = [n \in DOMAIN at |-> fs[at[n]]]
  BY DEF Requested
<1> HIDE DEF at
<1> QED BY <1>6, <1>7

LEMMA OneRequested ==
    ASSUME NEW E, NEW fs \in Seq(E), NEW k \in 1..Len(fs), IsCall(fs[k]),
           \A i \in 1..Len(fs) : IsCall(fs[i]) => i = k
    PROVE  Requested(fs) = <<fs[k]>>
<1> DEFINE C == {i \in DOMAIN fs : IsCall(fs[i])}
           P(f) == \A m, n \in DOMAIN f : m < n => f[m] < f[n]
           at == CHOOSE f \in [1..Cardinality(C) -> C] : P(f)
<1>1. C = {k} /\ Cardinality(C) = 1
  <2>1. C = {k}
    OBVIOUS
  <2> QED BY <2>1, FS_Singleton
<1>2. 1..Cardinality(C) = {1}
  <2>1. 1..1 = {1}
    OBVIOUS
  <2> HIDE DEF C
  <2> QED BY <1>1, <2>1
<1>3. [i \in {1} |-> k] \in [1..Cardinality(C) -> C] /\ P([i \in {1} |-> k])
  BY <1>1, <1>2
<1>4. at \in [1..Cardinality(C) -> C]
  BY <1>3
<1>5. DOMAIN at = {1} /\ at[1] = k
  BY <1>1, <1>2, <1>4
<1>6. Requested(fs) = [n \in DOMAIN at |-> fs[at[n]]]
  BY DEF Requested
<1> HIDE DEF at
<1> QED BY <1>5, <1>6

\* What a handler's sends do to the wire.
LEMMA Sends ==
    ASSUME NEW B, NEW in \in Seq(Frames(B)), NEW K, NEW fs \in Seq(Frames(B)),
           toTacky \in Seq(Frames(B)), send(in, K, fs)
    PROVE  /\ up' = up /\ drops' = drops
           /\ up => toTacky' = Stale(toTacky, K) \o fs /\ toUi' = Stale(in, K)
           /\ ~up => toTacky' = Stale(toTacky, K)
           /\ ~up /\ (\A i \in 1..Len(fs) : ~IsCall(fs[i])) => toUi' = Stale(in, K)
           /\ \A k \in 1..Len(fs) :
                ~up /\ IsCall(fs[k]) /\ (\A i \in 1..Len(fs) : IsCall(fs[i]) => i = k)
                => toUi' = Stale(in, K) \o <<Unsent(fs[k])>>
<1> DEFINE r == Requested(fs)
           u == [i \in DOMAIN r |-> Unsent(r[i])]
<1>1. /\ up' = up /\ drops' = drops
      /\ toTacky' = IF up THEN Stale(toTacky, K) \o fs ELSE Stale(toTacky, K)
      /\ toUi' = Stale(in, K) \o IF up THEN <<>> ELSE u
  BY DEF send, Post
<1>2. Stale(in, K) \in Seq(Frames(B))
  BY StaleIs
<1>3. Stale(in, K) \o <<>> = Stale(in, K)
  BY <1>2
<1>4. ASSUME \A i \in 1..Len(fs) : ~IsCall(fs[i]) PROVE u = <<>>
  <2>1. r = <<>>
    BY <1>4, NoneRequested
  <2> HIDE DEF r
  <2> QED BY <2>1
<1>5. ASSUME NEW k \in 1..Len(fs), IsCall(fs[k]), \A i \in 1..Len(fs) : IsCall(fs[i]) => i = k
      PROVE  u = <<Unsent(fs[k])>>
  <2>1. r = <<fs[k]>>
    BY <1>5, OneRequested
  <2> HIDE DEF r
  <2> QED BY <2>1
<1> HIDE DEF r, u
<1> QED BY <1>1, <1>3, <1>4, <1>5

\* A handler that only takes its frame.
LEMMA TookIs ==
    ASSUME NEW B, toUi \in Seq(Frames(B)), toUi # <<>>, toTacky \in Seq(Frames(B)), Took
    PROVE  up' = up /\ drops' = drops /\ toTacky' = toTacky /\ toUi' = Tail(toUi)
<1>1. Tail(toUi) \in Seq(Frames(B)) /\ <<>> \in Seq(Frames(B))
  BY Taken
<1>2. Stale(Tail(toUi), {}) = Tail(toUi) /\ Stale(toTacky, {}) = toTacky /\ toTacky \o <<>> = toTacky
  <2>1. Stale(Tail(toUi), {}) = Tail(toUi)
    BY <1>1, StaleNone
  <2>2. Stale(toTacky, {}) = toTacky
    BY StaleNone
  <2>3. toTacky \o <<>> = toTacky
    OBVIOUS
  <2> QED BY <2>1, <2>2, <2>3
<1>3. send(Tail(toUi), {}, <<>>) /\ \A i \in 1..Len(<<>>) : ~IsCall(<<>>[i])
  BY DEF Took, Rest
<1>4. /\ up' = up /\ drops' = drops
      /\ up => toTacky' = Stale(toTacky, {}) \o <<>> /\ toUi' = Stale(Tail(toUi), {})
      /\ ~up => toTacky' = Stale(toTacky, {}) /\ toUi' = Stale(Tail(toUi), {})
  BY <1>1, <1>3, Sends
<1> QED BY <1>2, <1>4

-----------------------------------------------------------------------------
(* ChatSession.                                                             *)

\* The wire of a part is the one wire.
LEMMA SessionWire ==
    /\ \A in, K, fs : S!send(in, K, fs) <=> send(in, K, fs)
    /\ S!Took <=> Took
    /\ \A k : S!Arrives(k) <=> Arrives(k)
    /\ \A k : S!Takes(k) <=> Takes(k)
    /\ \A k : S!Waits(k) <=> Waits(k)
<1>1. \A in, K, fs : S!send(in, K, fs) <=> send(in, K, fs)
  <2>1. \A q, K : S!Stale(q, K) = Stale(q, K)
    BY DEF S!Stale, Stale
  <2>2. \A q, fs : S!Post(q, fs) = Post(q, fs)
    BY DEF S!Post, Post
  <2>3. \A fs : S!Requested(fs) = Requested(fs)
    BY Zenon DEF S!Requested, S!IsCall, S!Cardinality, Requested, IsCall, Cardinality
  <2>4. \A f : S!Unsent(f) = Unsent(f)
    BY DEF S!Unsent, Unsent
  <2> QED BY <2>1, <2>2, <2>3, <2>4 DEF S!send, send
<1>2. S!Took <=> Took
  BY <1>1 DEF S!Took, S!Rest, Took, Rest
<1>3. \A k : S!Arrives(k) <=> Arrives(k)
  BY DEF S!Arrives, Arrives
<1>4. \A k : S!Takes(k) <=> Takes(k)
  BY DEF S!Takes, Takes
<1>5. \A k : S!Waits(k) <=> Waits(k)
  BY DEF S!Waits, S!HasLive, Waits, HasLive
<1> QED BY <1>1, <1>2, <1>3, <1>4, <1>5

\* A frame of kind k in the queue; and behind its i-th frame.
Has(q, k) == \E j \in 1..Len(q) : q[j].kind = k
Later(q, i, k) == \E j \in 1..Len(q) : i < j /\ q[j].kind = k

LEMMA HasJoined ==
    ASSUME NEW E, NEW q \in Seq(E), NEW g \in Seq(E), NEW k
    PROVE  /\ Has(q \o g, k) <=> Has(q, k) \/ Has(g, k)
           /\ \A i \in 1..Len(q) : Later(q \o g, i, k) <=> Later(q, i, k) \/ Has(g, k)
           /\ \A i \in 1..Len(g) : Later(q \o g, Len(q) + i, k) <=> Later(g, i, k)
<1>1. Len(q) \in Nat /\ Len(g) \in Nat /\ Len(q \o g) = Len(q) + Len(g)
  OBVIOUS
<1>2. \A i \in 1..Len(q) : i \in 1..Len(q \o g) /\ (q \o g)[i] = q[i]
  BY <1>1, Joined
<1>3. \A i \in 1..Len(g) : Len(q) + i \in 1..Len(q \o g) /\ (q \o g)[Len(q) + i] = g[i]
  BY <1>1, Joined
<1>4. \A j \in 1..Len(q \o g) : j \in 1..Len(q) \/ \E i \in 1..Len(g) : j = Len(q) + i
  <2> SUFFICES ASSUME NEW j \in 1..Len(q \o g), j \notin 1..Len(q)
               PROVE  \E i \in 1..Len(g) : j = Len(q) + i
    OBVIOUS
  <2>1. j - Len(q) \in 1..Len(g) /\ j = Len(q) + (j - Len(q))
    BY <1>1
  <2> QED BY <2>1
<1>5. Has(q \o g, k) <=> Has(q, k) \/ Has(g, k)
  <2>1. Has(q \o g, k) => Has(q, k) \/ Has(g, k)
    BY <1>2, <1>3, <1>4 DEF Has
  <2>2. Has(q, k) \/ Has(g, k) => Has(q \o g, k)
    BY <1>2, <1>3 DEF Has
  <2> QED BY <2>1, <2>2
<1>6. ASSUME NEW i \in 1..Len(q) PROVE Later(q \o g, i, k) <=> Later(q, i, k) \/ Has(g, k)
  <2>1. Later(q \o g, i, k) => Later(q, i, k) \/ Has(g, k)
    BY <1>2, <1>3, <1>4 DEF Has, Later
  <2>2. Later(q, i, k) => Later(q \o g, i, k)
    BY <1>2 DEF Later
  <2>3. ASSUME Has(g, k) PROVE Later(q \o g, i, k)
    <3>1. PICK j \in 1..Len(g) : g[j].kind = k
      BY <2>3 DEF Has
    <3>2. i < Len(q) + j
      BY <1>1
    <3> QED BY <1>3, <3>1, <3>2 DEF Later
  <2> QED BY <2>1, <2>2, <2>3
<1>7. ASSUME NEW i \in 1..Len(g) PROVE Later(q \o g, Len(q) + i, k) <=> Later(g, i, k)
  <2>1. ASSUME Later(q \o g, Len(q) + i, k) PROVE Later(g, i, k)
    <3>1. PICK j \in 1..Len(q \o g) : Len(q) + i < j /\ (q \o g)[j].kind = k
      BY <2>1 DEF Later
    <3>2. j \notin 1..Len(q)
      BY <1>1, <3>1
    <3>3. PICK l \in 1..Len(g) : j = Len(q) + l
      BY <1>4, <3>2
    <3>4. i < l /\ g[l].kind = k
      BY <1>1, <1>3, <3>1, <3>3
    <3> QED BY <3>4 DEF Later
  <2>2. ASSUME Later(g, i, k) PROVE Later(q \o g, Len(q) + i, k)
    <3>1. PICK j \in 1..Len(g) : i < j /\ g[j].kind = k
      BY <2>2 DEF Later
    <3>2. Len(q) + i < Len(q) + j
      BY <1>1, <3>1
    <3> QED BY <1>3, <3>1, <3>2 DEF Later
  <2> QED BY <2>1, <2>2
<1> QED BY <1>5, <1>6, <1>7

LEMMA HasStale ==
    ASSUME NEW B, NEW q \in Seq(Frames(B)), NEW K, NEW k
    PROVE  /\ Has(Stale(q, K), k) <=> Has(q, k)
           /\ \A i \in 1..Len(q) : Later(Stale(q, K), i, k) <=> Later(q, i, k)
BY StaleIs DEF Has, Later

LEMMA HasTail ==
    ASSUME NEW E, NEW q \in Seq(E), q # <<>>, NEW k
    PROVE  /\ Has(q, k) <=> Head(q).kind = k \/ Has(Tail(q), k)
           /\ Later(q, 1, k) <=> Has(Tail(q), k)
           /\ \A i \in 1..Len(Tail(q)) : Later(q, i + 1, k) <=> Later(Tail(q), i, k)
<1>1. /\ Len(Tail(q)) = Len(q) - 1 /\ Len(q) \in Nat \ {0} /\ Head(q) = q[1]
      /\ \A i \in 1..Len(Tail(q)) : i + 1 \in 1..Len(q) /\ Tail(q)[i] = q[i + 1]
      /\ \A i \in 1..Len(q) : i # 1 => i - 1 \in 1..Len(Tail(q)) /\ Tail(q)[i - 1] = q[i]
  BY Taken
<1>2. 1 \in 1..Len(q)
  BY <1>1
<1>3. Has(q, k) <=> Head(q).kind = k \/ Has(Tail(q), k)
  BY <1>1, <1>2 DEF Has
<1>4. Later(q, 1, k) <=> Has(Tail(q), k)
  <2>1. Later(q, 1, k) => Has(Tail(q), k)
    BY <1>1 DEF Has, Later
  <2>2. ASSUME Has(Tail(q), k) PROVE Later(q, 1, k)
    <3>1. PICK j \in 1..Len(Tail(q)) : Tail(q)[j].kind = k
      BY <2>2 DEF Has
    <3>2. j + 1 \in 1..Len(q) /\ q[j + 1].kind = k /\ 1 < j + 1
      BY <1>1, <3>1
    <3> QED BY <3>2 DEF Later
  <2> QED BY <2>1, <2>2
<1>5. ASSUME NEW i \in 1..Len(Tail(q)) PROVE Later(q, i + 1, k) <=> Later(Tail(q), i, k)
  <2>1. ASSUME Later(q, i + 1, k) PROVE Later(Tail(q), i, k)
    <3>1. PICK j \in 1..Len(q) : i + 1 < j /\ q[j].kind = k
      BY <2>1 DEF Later
    <3>2. j - 1 \in 1..Len(Tail(q)) /\ Tail(q)[j - 1].kind = k /\ i < j - 1
      BY <1>1, <3>1
    <3> QED BY <3>2 DEF Later
  <2>2. ASSUME Later(Tail(q), i, k) PROVE Later(q, i + 1, k)
    <3>1. PICK j \in 1..Len(Tail(q)) : i < j /\ Tail(q)[j].kind = k
      BY <2>2 DEF Later
    <3>2. j + 1 \in 1..Len(q) /\ q[j + 1].kind = k /\ i + 1 < j + 1
      BY <1>1, <3>1
    <3> QED BY <3>2 DEF Later
  <2> QED BY <2>1, <2>2
<1> QED BY <1>3, <1>4, <1>5

LEMMA HasNone == \A k : ~Has(<<>>, k)
BY DEF Has

Rows == [view : Views, keys : BOOLEAN]
SessionFrames == Frames(Rows \cup {Nil})

\* What tacky will count once it has read q: shown exactly while a page shows the
\* chat, but for a `close` that nobody sent.
OpenAhead(q, h, o, u) ==
    /\ \A i \in 1..Len(q) : q[i].kind = "open" => h > 0 \/ u \/ Later(q, i, "close")
    /\ \A i \in 1..Len(q) : q[i].kind = "close" => h = 0 \/ Later(q, i, "open")
    /\ h > 0 => o \/ Has(q, "open")
    /\ o => h > 0 \/ u \/ Has(q, "close")

\* What is stored will be the view v once tacky has read q.
ViewAhead(q, r, v) ==
    /\ \A i \in 1..Len(q) : q[i].kind = "set" => q[i].body.view = v \/ Later(q, i, "set")
    /\ Has(q, "set") \/ r.view = v

SetsAreRows(q) == \A i \in 1..Len(q) : q[i].kind = "set" => q[i].body \in Rows
SetsKeepKeys(q) == \A i \in 1..Len(q) : q[i].kind = "set" => q[i].body.keys
\* Nothing is stored behind a read that is waited for.
LoadsLast(q) == \A i \in 1..Len(q) : q[i].kind = "load" /\ q[i].live => ~Later(q, i, "set")
\* An answer that is waited for is what is stored, with nothing under way to change it.
LoadsTrue(q, in, r) ==
    \A i \in 1..Len(in) :
       in[i].kind = "load" /\ in[i].live /\ in[i].is = "result" => in[i].body = r /\ ~Has(q, "set")

SessionTyped ==
    /\ toTacky \in Seq(SessionFrames) /\ toUi \in Seq(SessionFrames)
    /\ ~up => \A i \in 1..Len(toUi) : toUi[i].is = "unsent"
    /\ SetsAreRows(toTacky)
    /\ \A i \in 1..Len(toUi) :
         toUi[i].is \in {"result", "error", "unsent"} /\ (toUi[i].is = "result" => toUi[i].body \in Rows)

ViewInv ==
    /\ dirty => view = scrolled
    /\ ~rash => row.keys /\ SetsKeepKeys(toTacky)
    /\ viewLoaded /\ ~dirty /\ ~unsaved => ViewAhead(toTacky, row, view)
    /\ ~unsaved => LoadsLast(toTacky) /\ LoadsTrue(toTacky, toUi, row)

OpenInv ==
    /\ up => OpenAhead(toTacky, holds, opened, unclosed)
    /\ opened => holds > 0 \/ unclosed \/ Has(toTacky, "close")

\* A session that is gone waits for nothing.
Unasked == ~alive => ~Waits("load")

SessionInv == S!SessionTypeOK /\ SessionTyped /\ OpenInv /\ ViewInv /\ Unasked

LEMMA OpenMore ==
    ASSUME NEW q \in Seq(SessionFrames), NEW g \in Seq(SessionFrames), NEW h \in Nat,
           NEW o \in BOOLEAN, NEW u \in BOOLEAN
    PROVE  /\ ~Has(g, "open") /\ ~Has(g, "close") /\ OpenAhead(q, h, o, u)
                => OpenAhead(q \o g, h, o, u)
           /\ Has(g, "open") /\ ~Has(g, "close") /\ h > 0 => OpenAhead(q \o g, h, o, u)
           /\ Has(g, "close") /\ ~Has(g, "open") /\ h = 0 => OpenAhead(q \o g, h, o, u)
<1> DEFINE n == q \o g
<1>1. \A k \in 1..Len(n) :
         \/ k \in 1..Len(q) /\ n[k] = q[k]
         \/ k - Len(q) \in 1..Len(g) /\ n[k] = g[k - Len(q)] /\ k = Len(q) + (k - Len(q))
  BY Joined
<1>2. \A k : /\ Has(n, k) <=> Has(q, k) \/ Has(g, k)
             /\ \A i \in 1..Len(q) : Later(n, i, k) <=> Later(q, i, k) \/ Has(g, k)
             /\ \A i \in 1..Len(g) : Later(n, Len(q) + i, k) <=> Later(g, i, k)
  BY HasJoined
<1>3. \A i \in 1..Len(g) : Has(g, g[i].kind)
  BY DEF Has
<1> HIDE DEF n
<1>4. ASSUME ~Has(g, "open"), ~Has(g, "close"), OpenAhead(q, h, o, u)
      PROVE  OpenAhead(n, h, o, u)
  <2>1. \A k \in 1..Len(n) : n[k].kind \in {"open", "close"} => k \in 1..Len(q) /\ n[k] = q[k]
    BY <1>1, <1>3, <1>4
  <2> QED BY <1>2, <1>4, <2>1 DEF OpenAhead
<1>5. ASSUME Has(g, "open"), ~Has(g, "close"), h > 0 PROVE OpenAhead(n, h, o, u)
  <2>1. \A k \in 1..Len(n) : n[k].kind = "close" => k \in 1..Len(q) /\ n[k] = q[k]
    BY <1>1, <1>3, <1>5
  <2> QED BY <1>2, <1>5, <2>1 DEF OpenAhead
<1>6. ASSUME Has(g, "close"), ~Has(g, "open"), h = 0 PROVE OpenAhead(n, h, o, u)
  <2>1. \A k \in 1..Len(n) : n[k].kind = "open" => k \in 1..Len(q) /\ n[k] = q[k]
    BY <1>1, <1>3, <1>6
  <2> QED BY <1>2, <1>6, <2>1 DEF OpenAhead
<1> QED BY <1>4, <1>5, <1>6 DEF n

LEMMA ViewMore ==
    ASSUME NEW q \in Seq(SessionFrames), NEW g \in Seq(SessionFrames), NEW r, NEW v
    PROVE  /\ ~Has(g, "set") /\ ViewAhead(q, r, v) => ViewAhead(q \o g, r, v)
           /\ Has(g, "set") /\ (\A i \in 1..Len(g) : g[i].kind = "set" => g[i].body.view = v)
                => ViewAhead(q \o g, r, v)
<1> DEFINE n == q \o g
<1>1. \A k \in 1..Len(n) :
         \/ k \in 1..Len(q) /\ n[k] = q[k]
         \/ k - Len(q) \in 1..Len(g) /\ n[k] = g[k - Len(q)]
  BY Joined
<1>2. \A k : /\ Has(n, k) <=> Has(q, k) \/ Has(g, k)
             /\ \A i \in 1..Len(q) : Later(n, i, k) <=> Later(q, i, k) \/ Has(g, k)
  BY HasJoined
<1>3. \A i \in 1..Len(g) : Has(g, g[i].kind)
  BY DEF Has
<1> HIDE DEF n
<1>4. ASSUME ~Has(g, "set"), ViewAhead(q, r, v) PROVE ViewAhead(n, r, v)
  <2>1. \A k \in 1..Len(n) : n[k].kind = "set" => k \in 1..Len(q) /\ n[k] = q[k]
    BY <1>1, <1>3, <1>4
  <2> QED BY <1>2, <1>4, <2>1 DEF ViewAhead
<1>5. ASSUME Has(g, "set"), \A i \in 1..Len(g) : g[i].kind = "set" => g[i].body.view = v
      PROVE  ViewAhead(n, r, v)
  BY <1>1, <1>2, <1>5 DEF ViewAhead
<1> QED BY <1>4, <1>5 DEF n

LEMMA SetsMore ==
    ASSUME NEW q \in Seq(SessionFrames), NEW g \in Seq(SessionFrames)
    PROVE  /\ SetsAreRows(q) /\ SetsAreRows(g) => SetsAreRows(q \o g)
           /\ SetsKeepKeys(q) /\ SetsKeepKeys(g) => SetsKeepKeys(q \o g)
           /\ ~Has(g, "set") /\ LoadsLast(q) => LoadsLast(q \o g)
           /\ LoadsLast(g) /\ (\A i \in 1..Len(q) : q[i].kind = "load" => ~q[i].live)
                => LoadsLast(q \o g)
<1> DEFINE n == q \o g
<1>1. \A k \in 1..Len(n) :
         \/ k \in 1..Len(q) /\ n[k] = q[k]
         \/ k - Len(q) \in 1..Len(g) /\ n[k] = g[k - Len(q)] /\ k = Len(q) + (k - Len(q))
  BY Joined
<1>2. /\ \A i \in 1..Len(q) : Later(n, i, "set") <=> Later(q, i, "set") \/ Has(g, "set")
      /\ \A i \in 1..Len(g) : Later(n, Len(q) + i, "set") <=> Later(g, i, "set")
  BY HasJoined
<1>3. \A i \in 1..Len(g) : ~Has(g, "set") => ~Later(g, i, "set")
  BY DEF Has, Later
<1> HIDE DEF n
<1>4. /\ SetsAreRows(q) /\ SetsAreRows(g) => SetsAreRows(n)
      /\ SetsKeepKeys(q) /\ SetsKeepKeys(g) => SetsKeepKeys(n)
  BY <1>1 DEF SetsAreRows, SetsKeepKeys
<1>5. ASSUME ~Has(g, "set"), LoadsLast(q) PROVE LoadsLast(n)
  BY <1>1, <1>2, <1>3, <1>5 DEF LoadsLast
<1>6. ASSUME LoadsLast(g), \A i \in 1..Len(q) : q[i].kind = "load" => ~q[i].live
      PROVE  LoadsLast(n)
  BY <1>1, <1>2, <1>6 DEF LoadsLast
<1> QED BY <1>4, <1>5, <1>6 DEF n

\* Letting go of tokens changes nothing of this.
LEMMA SessionStale ==
    ASSUME NEW q \in Seq(SessionFrames), NEW K
    PROVE  /\ \A h, o, u : OpenAhead(q, h, o, u) => OpenAhead(Stale(q, K), h, o, u)
           /\ \A r, v : ViewAhead(q, r, v) => ViewAhead(Stale(q, K), r, v)
           /\ SetsAreRows(q) => SetsAreRows(Stale(q, K))
           /\ SetsKeepKeys(q) => SetsKeepKeys(Stale(q, K))
           /\ LoadsLast(q) => LoadsLast(Stale(q, K))
           /\ \A p, r : LoadsTrue(p, q, r) => LoadsTrue(p, Stale(q, K), r)
           /\ Stale(q, K) \in Seq(SessionFrames)
<1> DEFINE s == Stale(q, K)
<1>1. /\ s \in Seq(SessionFrames) /\ Len(s) = Len(q)
      /\ \A i \in 1..Len(q) :
            /\ s[i].kind = q[i].kind /\ s[i].is = q[i].is /\ s[i].body = q[i].body
            /\ s[i].live => q[i].live
  BY StaleIs DEF SessionFrames
<1>2. \A k : Has(s, k) <=> Has(q, k)
  BY HasStale DEF SessionFrames
<1>3. \A k : \A i \in 1..Len(q) : Later(s, i, k) <=> Later(q, i, k)
  BY HasStale DEF SessionFrames
<1> HIDE DEF s
<1>4. ASSUME NEW h, NEW o, NEW u, OpenAhead(q, h, o, u) PROVE OpenAhead(s, h, o, u)
  BY <1>1, <1>2, <1>3, <1>4 DEF OpenAhead
<1>5. ASSUME NEW r, NEW v, ViewAhead(q, r, v) PROVE ViewAhead(s, r, v)
  BY <1>1, <1>2, <1>3, <1>5 DEF ViewAhead
<1>6. ASSUME NEW p, NEW r, LoadsTrue(p, q, r) PROVE LoadsTrue(p, s, r)
  BY <1>1, <1>6 DEF LoadsTrue
<1>7. LoadsLast(q) => LoadsLast(s)
  BY <1>1, <1>3 DEF LoadsLast
<1>8. (SetsAreRows(q) => SetsAreRows(s)) /\ (SetsKeepKeys(q) => SetsKeepKeys(s))
  BY <1>1 DEF SetsAreRows, SetsKeepKeys
<1> QED BY <1>1, <1>4, <1>5, <1>6, <1>7, <1>8 DEF s

\* What tacky taking a frame does to it.
LEMMA SessionLess ==
    ASSUME NEW q \in Seq(SessionFrames), q # <<>>
    PROVE  LET f == Head(q)
               s == Tail(q)
           IN  /\ \A h \in Nat, o, u \in BOOLEAN : OpenAhead(q, h, o, u)
                     => OpenAhead(s, h, IF f.kind = "open" THEN TRUE
                                        ELSE IF f.kind = "close" THEN FALSE ELSE o, u)
               /\ \A r, v : ViewAhead(q, r, v)
                     => ViewAhead(s, IF f.kind = "set" THEN f.body ELSE r, v)
               /\ SetsAreRows(q) => SetsAreRows(s) /\ (f.kind = "set" => f.body \in Rows)
               /\ SetsKeepKeys(q) => SetsKeepKeys(s) /\ (f.kind = "set" => f.body.keys)
               /\ LoadsLast(q) => LoadsLast(s)
               /\ LoadsLast(q) /\ f.kind = "load" /\ f.live => ~Has(s, "set")
<1> DEFINE f == Head(q)
           s == Tail(q)
<1>1. /\ s \in Seq(SessionFrames) /\ f = q[1] /\ 1 \in 1..Len(q)
      /\ \A i \in 1..Len(s) : i + 1 \in 1..Len(q) /\ s[i] = q[i + 1]
  BY Taken
<1>2. \A k : /\ Has(q, k) <=> f.kind = k \/ Has(s, k)
             /\ Later(q, 1, k) <=> Has(s, k)
             /\ \A i \in 1..Len(s) : Later(q, i + 1, k) <=> Later(s, i, k)
  BY HasTail
<1> HIDE DEF f, s
<1>3. ASSUME NEW h \in Nat, NEW o \in BOOLEAN, NEW u \in BOOLEAN, OpenAhead(q, h, o, u)
      PROVE  OpenAhead(s, h, IF f.kind = "open" THEN TRUE
                             ELSE IF f.kind = "close" THEN FALSE ELSE o, u)
  <2>1. /\ \A i \in 1..Len(s) : s[i].kind = "open" => h > 0 \/ u \/ Later(s, i, "close")
        /\ \A i \in 1..Len(s) : s[i].kind = "close" => h = 0 \/ Later(s, i, "open")
    BY <1>1, <1>2, <1>3 DEF OpenAhead
  <2>2. CASE f.kind = "open"
    <3>1. h > 0 \/ u \/ Has(s, "close")
      BY <1>1, <1>2, <1>3, <2>2 DEF OpenAhead
    <3> QED BY <2>1, <2>2, <3>1 DEF OpenAhead
  <2>3. CASE f.kind = "close"
    <3>1. h = 0 \/ Has(s, "open")
      BY <1>1, <1>2, <1>3, <2>3 DEF OpenAhead
    <3> QED BY <2>1, <2>3, <3>1 DEF OpenAhead
  <2>4. CASE f.kind \notin {"open", "close"}
    BY <1>2, <1>3, <2>1, <2>4 DEF OpenAhead
  <2> QED BY <2>2, <2>3, <2>4
<1>4. ASSUME NEW r, NEW v, ViewAhead(q, r, v)
      PROVE  ViewAhead(s, IF f.kind = "set" THEN f.body ELSE r, v)
  <2>1. \A i \in 1..Len(s) : s[i].kind = "set" => s[i].body.view = v \/ Later(s, i, "set")
    BY <1>1, <1>2, <1>4 DEF ViewAhead
  <2>2. CASE f.kind = "set"
    <3>1. f.body.view = v \/ Has(s, "set")
      BY <1>1, <1>2, <1>4, <2>2 DEF ViewAhead
    <3> QED BY <2>1, <2>2, <3>1 DEF ViewAhead
  <2>3. CASE f.kind # "set"
    BY <1>2, <1>4, <2>1, <2>3 DEF ViewAhead
  <2> QED BY <2>2, <2>3
<1>5. /\ SetsAreRows(q) => SetsAreRows(s) /\ (f.kind = "set" => f.body \in Rows)
      /\ SetsKeepKeys(q) => SetsKeepKeys(s) /\ (f.kind = "set" => f.body.keys)
  BY <1>1 DEF SetsAreRows, SetsKeepKeys
<1>6. LoadsLast(q) => LoadsLast(s)
  BY <1>1, <1>2 DEF LoadsLast
<1>7. LoadsLast(q) /\ f.kind = "load" /\ f.live => ~Has(s, "set")
  BY <1>1, <1>2 DEF LoadsLast
<1> QED BY <1>3, <1>4, <1>5, <1>6, <1>7 DEF f, s

LEMMA SessionFramesOK == ASSUME NEW q \in Seq(SessionFrames) PROVE \A i \in DOMAIN q : S!FrameOK(q[i])
BY FramesOK DEF SessionFrames, FrameOK, S!FrameOK

LEMMA HasFew ==
    /\ \A f, k : Has(<<f>>, k) <=> f.kind = k
    /\ \A f, g, k : Has(<<f, g>>, k) <=> f.kind = k \/ g.kind = k
<1>1. \A f, k : Has(<<f>>, k) <=> f.kind = k
  BY DEF Has
<1>2. ASSUME NEW f, NEW g, NEW k PROVE Has(<<f, g>>, k) <=> f.kind = k \/ g.kind = k
  <2>1. Len(<<f, g>>) = 2 /\ <<f, g>>[1] = f /\ <<f, g>>[2] = g /\ 1 \in 1..2 /\ 2 \in 1..2
    OBVIOUS
  <2>2. \A j \in 1..2 : j = 1 \/ j = 2
    OBVIOUS
  <2> QED BY <2>1, <2>2 DEF Has
<1> QED BY <1>1, <1>2

LEMMA SessionFrame ==
    ASSUME NEW k \in Kinds, NEW b \in Rows \cup {Nil}
    PROVE  /\ Frame(k, b) \in SessionFrames /\ Call(k, b) \in SessionFrames
           /\ IsCall(Call(k, b)) /\ ~IsCall(Frame(k, b))
BY DEF SessionFrames, Frame, Call, IsCall, Frames

\* The frames a session sends.
LEMMA SessionMade ==
    /\ S!loadClientData \in SessionFrames /\ IsCall(S!loadClientData)
    /\ S!loadClientData.kind = "load" /\ S!loadClientData.live
    /\ \A b \in BOOLEAN : \E f \in SessionFrames :
          S!sendOpen(b) = <<f>> /\ ~IsCall(f) /\ f.kind = IF b THEN "open" ELSE "close"
<1>1. Nil \in Rows \cup {Nil}
  OBVIOUS
<1>2. S!loadClientData = Call("load", Nil)
  BY DEF S!loadClientData, S!Call, Call
<1>3. S!loadClientData \in SessionFrames /\ IsCall(S!loadClientData)
  BY <1>1, <1>2, SessionFrame DEF Kinds
<1>4. S!loadClientData.kind = "load" /\ S!loadClientData.live
  BY <1>2 DEF Call
<1>5. ASSUME NEW b \in BOOLEAN
      PROVE  \E f \in SessionFrames :
                S!sendOpen(b) = <<f>> /\ ~IsCall(f) /\ f.kind = IF b THEN "open" ELSE "close"
  <2> DEFINE f == Frame(IF b THEN "open" ELSE "close", Nil)
  <2>1. S!sendOpen(b) = <<f>>
    BY DEF S!sendOpen, S!Bare, S!Frame, Frame
  <2>2. f \in SessionFrames /\ ~IsCall(f)
    <3>1. (IF b THEN "open" ELSE "close") \in Kinds
      BY DEF Kinds
    <3> QED BY <1>1, <3>1, SessionFrame
  <2>3. f.kind = IF b THEN "open" ELSE "close"
    BY DEF Frame
  <2> QED BY <2>1, <2>2, <2>3
<1> QED BY <1>3, <1>4, <1>5

LEMMA FlushMade ==
    ASSUME S!SessionTypeOK
    PROVE  /\ ~dirty => S!flush = <<>>
           /\ dirty => \E f \in SessionFrames :
                 /\ S!flush = <<f>> /\ ~IsCall(f) /\ f.kind = "set"
                 /\ f.body \in Rows /\ f.body.view = view /\ f.body.keys = keys
<1>1. ~dirty => S!flush = <<>>
  BY DEF S!flush
<1>2. ASSUME dirty
      PROVE  \E f \in SessionFrames :
                 /\ S!flush = <<f>> /\ ~IsCall(f) /\ f.kind = "set"
                 /\ f.body \in Rows /\ f.body.view = view /\ f.body.keys = keys
  <2> DEFINE b == [view |-> view, keys |-> keys]
             f == Frame("set", b)
  <2>1. b \in Rows
    BY DEF Rows, S!SessionTypeOK
  <2>2. S!flush = <<f>>
    BY <1>2 DEF S!flush, S!Frame, Frame
  <2>3. f \in SessionFrames /\ ~IsCall(f)
    BY <2>1, SessionFrame DEF Kinds
  <2>4. f.kind = "set" /\ f.body = b
    BY DEF Frame
  <2> QED BY <2>1, <2>2, <2>3, <2>4
<1> QED BY <1>1, <1>2

\* What a session's sends do to the wire.
LEMMA SessionSends ==
    ASSUME SessionInv, NEW K, NEW fs \in Seq(SessionFrames), S!send(toUi, K, fs), SetsAreRows(fs),
           \/ \A i \in 1..Len(fs) : ~IsCall(fs[i])
           \/ fs = <<S!loadClientData>>
    PROVE  /\ up' = up /\ drops' = drops /\ SessionTyped' /\ S!WireTypeOK'
           /\ up => toTacky' = Stale(toTacky, K) \o fs /\ toUi' = Stale(toUi, K)
           /\ ~up => toTacky = <<>> /\ toTacky' = <<>>
           /\ (\A i \in 1..Len(fs) : ~IsCall(fs[i])) => toUi' = Stale(toUi, K)
<1> DEFINE one == Unsent(S!loadClientData)
<1>1. /\ toTacky \in Seq(SessionFrames) /\ toUi \in Seq(SessionFrames)
      /\ up \in BOOLEAN /\ drops \in 0..MaxDrop /\ (~up => toTacky = <<>>)
  BY DEF SessionInv, SessionTyped, S!SessionTypeOK, S!WireTypeOK
<1>2. send(toUi, K, fs)
  BY SessionWire
<1>3. /\ up' = up /\ drops' = drops
      /\ up => toTacky' = Stale(toTacky, K) \o fs /\ toUi' = Stale(toUi, K)
      /\ ~up => toTacky' = Stale(toTacky, K)
      /\ ~up /\ (\A i \in 1..Len(fs) : ~IsCall(fs[i])) => toUi' = Stale(toUi, K)
      /\ \A k \in 1..Len(fs) :
            ~up /\ IsCall(fs[k]) /\ (\A i \in 1..Len(fs) : IsCall(fs[i]) => i = k)
            => toUi' = Stale(toUi, K) \o <<Unsent(fs[k])>>
  BY <1>1, <1>2, Sends DEF SessionFrames
<1>4. /\ Stale(toTacky, K) \in Seq(SessionFrames) /\ SetsAreRows(Stale(toTacky, K))
      /\ Stale(toUi, K) \in Seq(SessionFrames)
  BY <1>1, SessionStale DEF SessionInv, SessionTyped
<1>5. /\ Len(Stale(toUi, K)) = Len(toUi)
      /\ \A i \in 1..Len(toUi) :
            Stale(toUi, K)[i].is = toUi[i].is /\ Stale(toUi, K)[i].body = toUi[i].body
  BY <1>1, StaleIs DEF SessionFrames
<1>6. one \in SessionFrames /\ one.is = "unsent"
  BY SessionMade DEF Unsent, SessionFrames, Frames
<1>7. CASE up
  <2>1. toTacky' \in Seq(SessionFrames) /\ SetsAreRows(toTacky')
    BY <1>3, <1>4, <1>7, SetsMore, Joined
  <2>2. /\ toUi' \in Seq(SessionFrames)
        /\ \A i \in 1..Len(toUi') :
              /\ toUi'[i].is \in {"result", "error", "unsent"}
              /\ toUi'[i].is = "result" => toUi'[i].body \in Rows
    BY <1>3, <1>4, <1>5, <1>7 DEF SessionInv, SessionTyped
  <2>3. SessionTyped'
    BY <1>3, <1>7, <2>1, <2>2 DEF SessionTyped
  <2>4. S!WireTypeOK'
    BY <1>1, <1>3, <1>7, <2>1, <2>2, SessionFramesOK DEF S!WireTypeOK
  <2> QED BY <1>1, <1>3, <1>7, <2>3, <2>4
<1>8. CASE ~up
  <2>1. toTacky' = <<>>
    <3>1. Len(Stale(toTacky, K)) = Len(toTacky) /\ Len(toTacky) = 0
      <4>1. Len(Stale(toTacky, K)) = Len(toTacky)
        BY <1>1, StaleIs DEF SessionFrames
      <4> QED BY <1>1, <1>8, <4>1
    <3> QED BY <1>3, <1>4, <1>8, <3>1
  <2>2. \/ toUi' = Stale(toUi, K)
        \/ toUi' = Stale(toUi, K) \o <<one>>
    <3>1. CASE \A i \in 1..Len(fs) : ~IsCall(fs[i])
      BY <1>3, <1>8, <3>1
    <3>2. CASE fs = <<S!loadClientData>>
      <4>1. /\ 1 \in 1..Len(fs) /\ fs[1] = S!loadClientData /\ IsCall(fs[1])
            /\ \A i \in 1..Len(fs) : i = 1
        BY <3>2, SessionMade
      <4> QED BY <1>3, <1>8, <4>1
    <3> QED BY <3>1, <3>2
  <2>3. /\ toUi' \in Seq(SessionFrames)
        /\ \A i \in 1..Len(toUi') : toUi'[i].is = "unsent"
    <3>1. \A i \in 1..Len(toUi) : Stale(toUi, K)[i].is = "unsent"
      BY <1>5, <1>8 DEF SessionInv, SessionTyped
    <3>2. CASE toUi' = Stale(toUi, K)
      BY <1>4, <1>5, <3>1, <3>2
    <3>3. CASE toUi' = Stale(toUi, K) \o <<one>>
      <4> HIDE DEF one
      <4>1. <<one>> \in Seq(SessionFrames) /\ Len(<<one>>) = 1 /\ <<one>>[1] = one
        BY <1>6
      <4>2. /\ toUi' \in Seq(SessionFrames)
            /\ \A k \in 1..Len(toUi') :
                  \/ k \in 1..Len(toUi) /\ toUi'[k] = Stale(toUi, K)[k]
                  \/ toUi'[k] = one
        BY <1>4, <1>5, <3>3, <4>1, Joined
      <4> QED BY <1>6, <3>1, <4>2
    <3> QED BY <2>2, <3>2, <3>3
  <2>4. SessionTyped'
    BY <1>3, <1>8, <2>1, <2>3 DEF SessionTyped, SetsAreRows
  <2>5. S!WireTypeOK'
    BY <1>1, <1>3, <1>8, <2>1, <2>3, SessionFramesOK DEF S!WireTypeOK
  <2> QED BY <1>1, <1>3, <1>8, <2>1, <2>4, <2>5
<1> QED BY <1>1, <1>7, <1>8

\* What they do to what tacky will know.
LEMMA SessionPosts ==
    ASSUME SessionInv, NEW K, NEW fs \in Seq(SessionFrames), S!send(toUi, K, fs), SetsAreRows(fs),
           \/ \A i \in 1..Len(fs) : ~IsCall(fs[i])
           \/ fs = <<S!loadClientData>>
    PROVE  /\ up => \A h \in Nat, o, u \in BOOLEAN :
                /\ ~Has(fs, "open") /\ ~Has(fs, "close") /\ OpenAhead(toTacky, h, o, u)
                     => OpenAhead(toTacky', h, o, u)
                /\ Has(fs, "open") /\ ~Has(fs, "close") /\ h > 0 => OpenAhead(toTacky', h, o, u)
                /\ Has(fs, "close") /\ ~Has(fs, "open") /\ h = 0 => OpenAhead(toTacky', h, o, u)
           /\ up => \A k : Has(toTacky', k) <=> Has(toTacky, k) \/ Has(fs, k)
           /\ \A r, v : (up => ~Has(fs, "set")) /\ ViewAhead(toTacky, r, v) => ViewAhead(toTacky', r, v)
           /\ \A v : up /\ Has(fs, "set") /\ (\A i \in 1..Len(fs) : fs[i].kind = "set" => fs[i].body.view = v)
                => \A r : ViewAhead(toTacky', r, v)
           /\ SetsKeepKeys(toTacky) /\ (up => SetsKeepKeys(fs)) => SetsKeepKeys(toTacky')
           /\ (up => ~Has(fs, "set")) /\ LoadsLast(toTacky) => LoadsLast(toTacky')
           /\ \A r : (up => ~Has(fs, "set")) /\ LoadsTrue(toTacky, toUi, r)
                => LoadsTrue(toTacky', toUi', r)
           /\ ~Waits("load") /\ ~Has(fs, "load")
                => LoadsLast(toTacky') /\ \A r : LoadsTrue(toTacky', toUi', r)
           /\ "load" \in K /\ ~Has(fs, "load") => ~Waits("load")'
<1> DEFINE s == Stale(toTacky, K)
<1>1. /\ toTacky \in Seq(SessionFrames) /\ toUi \in Seq(SessionFrames) /\ up \in BOOLEAN
  BY DEF SessionInv, SessionTyped, S!SessionTypeOK, S!WireTypeOK
<1>2. /\ up' = up /\ SessionTyped'
      /\ up => toTacky' = s \o fs /\ toUi' = Stale(toUi, K)
      /\ ~up => toTacky = <<>> /\ toTacky' = <<>>
  BY SessionSends
<1>3. /\ s \in Seq(SessionFrames) /\ Len(s) = Len(toTacky)
      /\ \A h, o, u : OpenAhead(toTacky, h, o, u) => OpenAhead(s, h, o, u)
      /\ \A r, v : ViewAhead(toTacky, r, v) => ViewAhead(s, r, v)
      /\ SetsKeepKeys(toTacky) => SetsKeepKeys(s)
      /\ LoadsLast(toTacky) => LoadsLast(s)
  <2>1. Len(s) = Len(toTacky)
    BY <1>1, StaleIs DEF SessionFrames
  <2> QED BY <1>1, <2>1, SessionStale
<1>4. \A k : Has(s, k) <=> Has(toTacky, k)
  BY <1>1, HasStale DEF SessionFrames
<1>5. \A i \in 1..Len(toTacky) :
         s[i].kind = toTacky[i].kind /\ (s[i].live => toTacky[i].live)
  BY <1>1, StaleIs DEF SessionFrames
<1>8. ASSUME "load" \in K, ~Has(fs, "load") PROVE ~Waits("load")'
  <2>1. \A i \in 1..Len(fs) : ~IsCall(fs[i])
    BY <1>8, SessionMade, HasFew
  <2>2. toUi' = Stale(toUi, K)
    BY <2>1, SessionSends
  <2>3. \A i \in DOMAIN toUi' : ~(toUi'[i].kind = "load" /\ toUi'[i].live)
    <3>1. /\ DOMAIN Stale(toUi, K) = 1..Len(toUi)
          /\ \A i \in 1..Len(toUi) :
                /\ Stale(toUi, K)[i].kind = toUi[i].kind
                /\ Stale(toUi, K)[i].live => toUi[i].kind \notin K
      BY <1>1, StaleIs DEF SessionFrames
    <3> QED BY <1>8, <2>2, <3>1
  <2>4. \A i \in DOMAIN toTacky' : ~(toTacky'[i].kind = "load" /\ toTacky'[i].live)
    <3>1. CASE ~up
      BY <1>2, <3>1
    <3>2. CASE up
      <4>1. DOMAIN toTacky' = 1..Len(toTacky')
        BY <1>2 DEF SessionTyped
      <4>2. \A i \in 1..Len(toTacky) : ~(s[i].kind = "load" /\ s[i].live)
        <5>1. \A i \in 1..Len(toTacky) :
                 s[i].kind = toTacky[i].kind /\ (s[i].live => toTacky[i].kind \notin K)
          BY <1>1, StaleIs DEF SessionFrames
        <5> QED BY <1>8, <5>1
      <4>3. \A i \in 1..Len(fs) : fs[i].kind # "load"
        BY <1>8 DEF Has
      <4> HIDE DEF s
      <4>4. \A k \in 1..Len(toTacky') :
               \/ k \in 1..Len(toTacky) /\ toTacky'[k] = s[k]
               \/ k - Len(toTacky) \in 1..Len(fs) /\ toTacky'[k] = fs[k - Len(toTacky)]
        BY <1>2, <1>3, <3>2, Joined
      <4> QED BY <4>1, <4>2, <4>3, <4>4
    <3> QED BY <1>1, <3>1, <3>2
  <2> QED BY <2>3, <2>4 DEF Waits, HasLive
<1> HIDE DEF s
<1>6. CASE ~up
  <2>1. \A i \in 1..Len(toUi') : toUi'[i].is = "unsent"
    BY <1>2, <1>6 DEF SessionTyped
  <2>2. \A r : LoadsTrue(toTacky', toUi', r)
    BY <2>1 DEF LoadsTrue
  <2>3. LoadsLast(toTacky')
    BY <1>2, <1>6 DEF LoadsLast
  <2> QED BY <1>2, <1>6, <1>8, <2>2, <2>3
<1>7. CASE up
  <2>1. toTacky' = s \o fs /\ toUi' = Stale(toUi, K)
    BY <1>2, <1>7
  <2>2. \A k : Has(toTacky', k) <=> Has(toTacky, k) \/ Has(fs, k)
    BY <1>3, <1>4, <2>1, HasJoined
  <2>3. ASSUME NEW h \in Nat, NEW o \in BOOLEAN, NEW u \in BOOLEAN
        PROVE  /\ ~Has(fs, "open") /\ ~Has(fs, "close") /\ OpenAhead(toTacky, h, o, u)
                     => OpenAhead(toTacky', h, o, u)
               /\ Has(fs, "open") /\ ~Has(fs, "close") /\ h > 0 => OpenAhead(toTacky', h, o, u)
               /\ Has(fs, "close") /\ ~Has(fs, "open") /\ h = 0 => OpenAhead(toTacky', h, o, u)
    BY <1>3, <2>1, OpenMore
  <2>4. ASSUME NEW r, NEW v
        PROVE  /\ ~Has(fs, "set") /\ ViewAhead(toTacky, r, v) => ViewAhead(toTacky', r, v)
               /\ Has(fs, "set") /\ (\A i \in 1..Len(fs) : fs[i].kind = "set" => fs[i].body.view = v)
                     => ViewAhead(toTacky', r, v)
    <3>1. ViewAhead(toTacky, r, v) => ViewAhead(s, r, v)
      BY <1>3
    <3> QED BY <1>3, <2>1, <3>1, ViewMore
  <2>5. /\ SetsKeepKeys(toTacky) /\ SetsKeepKeys(fs) => SetsKeepKeys(toTacky')
        /\ ~Has(fs, "set") /\ LoadsLast(toTacky) => LoadsLast(toTacky')
    BY <1>3, <2>1, SetsMore
  <2>6. ASSUME NEW r, ~Has(fs, "set"), LoadsTrue(toTacky, toUi, r)
        PROVE  LoadsTrue(toTacky', toUi', r)
    <3>1. LoadsTrue(toTacky, toUi', r)
      BY <1>1, <2>1, <2>6, SessionStale
    <3> QED BY <2>2, <2>6, <3>1 DEF LoadsTrue
  <2>7. ASSUME ~Waits("load"), ~Has(fs, "load")
        PROVE  LoadsLast(toTacky') /\ \A r : LoadsTrue(toTacky', toUi', r)
    <3>1. /\ \A i \in 1..Len(toTacky) : toTacky[i].kind = "load" => ~toTacky[i].live
          /\ \A i \in 1..Len(toUi) : toUi[i].kind = "load" => ~toUi[i].live
      BY <1>1, <2>7 DEF Waits, HasLive
    <3>2. \A r : LoadsTrue(toTacky', toUi, r)
      BY <3>1 DEF LoadsTrue
    <3>3. \A r : LoadsTrue(toTacky', toUi', r)
      BY <1>1, <2>1, <3>2, SessionStale
    <3>4. LoadsLast(fs)
      BY <2>7 DEF LoadsLast, Has
    <3>5. LoadsLast(toTacky')
      BY <1>3, <1>5, <2>1, <3>1, <3>4, SetsMore
    <3> QED BY <3>3, <3>5
  <2> QED BY <1>7, <1>8, <2>2, <2>3, <2>4, <2>5, <2>6, <2>7
<1> QED BY <1>1, <1>6, <1>7, <1>8

LEMMA ViewSent ==
    ASSUME SessionInv, NEW K, NEW fs \in Seq(SessionFrames), S!send(toUi, K, fs),
           ~Has(fs, "set"),
           \/ \A i \in 1..Len(fs) : ~IsCall(fs[i])
           \/ fs = <<S!loadClientData>>,
           UNCHANGED <<view, dirty, viewLoaded, row, unsaved, rash, scrolled>>
    PROVE  ViewInv'
<1>1. SetsAreRows(fs) /\ SetsKeepKeys(fs)
  BY DEF SetsAreRows, SetsKeepKeys, Has
<1>2. /\ \A r, v : ViewAhead(toTacky, r, v) => ViewAhead(toTacky', r, v)
      /\ SetsKeepKeys(toTacky) => SetsKeepKeys(toTacky')
      /\ LoadsLast(toTacky) => LoadsLast(toTacky')
      /\ \A r : LoadsTrue(toTacky, toUi, r) => LoadsTrue(toTacky', toUi', r)
  BY <1>1, SessionPosts
<1> QED BY <1>2 DEF ViewInv, SessionInv

\* The view that is not stored yet goes with the frames sent.
LEMMA FlushSent ==
    ASSUME SessionInv, NEW K, NEW g \in Seq(SessionFrames), S!send(toUi, K, S!flush \o g),
           ~Has(g, "set"), ~Has(g, "load"), \A i \in 1..Len(g) : ~IsCall(g[i]),
           S!Flushed, dirty' = FALSE, row' = row,
           viewLoaded' => viewLoaded /\ view' = view
    PROVE  /\ ViewInv' /\ SessionTyped' /\ S!WireTypeOK' /\ up' = up
           /\ ~up => toTacky = <<>> /\ toTacky' = <<>>
           /\ unsaved' \in BOOLEAN /\ rash' \in BOOLEAN
           /\ up => \A h \in Nat, o, u \in BOOLEAN :
                /\ ~Has(g, "open") /\ ~Has(g, "close") /\ OpenAhead(toTacky, h, o, u)
                     => OpenAhead(toTacky', h, o, u)
                /\ Has(g, "close") /\ ~Has(g, "open") /\ h = 0 => OpenAhead(toTacky', h, o, u)
           /\ up => \A k : Has(toTacky, k) \/ Has(g, k) => Has(toTacky', k)
           /\ "load" \in K => ~Waits("load")'
<1> DEFINE fs == S!flush \o g
<1>1. S!SessionTypeOK /\ ViewInv /\ up \in BOOLEAN
  BY DEF SessionInv, S!SessionTypeOK, S!WireTypeOK
<1>2. S!flush \in Seq(SessionFrames) /\ SetsAreRows(S!flush)
  <2>1. CASE ~dirty
    BY <1>1, <2>1, FlushMade DEF SetsAreRows
  <2>2. CASE dirty
    <3>1. PICK f \in SessionFrames : S!flush = <<f>> /\ f.body \in Rows
      BY <1>1, <2>2, FlushMade
    <3> QED BY <3>1 DEF SetsAreRows
  <2> QED BY <2>1, <2>2
<1>3. SetsAreRows(g) /\ SetsKeepKeys(g)
  BY DEF SetsAreRows, SetsKeepKeys, Has
<1>4. /\ fs \in Seq(SessionFrames) /\ SetsAreRows(fs)
      /\ SetsKeepKeys(S!flush) => SetsKeepKeys(fs)
      /\ \A k : Has(fs, k) <=> Has(S!flush, k) \/ Has(g, k)
  BY <1>2, <1>3, Joined, SetsMore, HasJoined
<1>5. /\ \A i \in 1..Len(fs) : ~IsCall(fs[i])
      /\ dirty => \A i \in 1..Len(fs) : fs[i].kind = "set" => fs[i].body.view = view
      /\ dirty /\ keys => SetsKeepKeys(S!flush)
      /\ \A k : Has(S!flush, k) <=> dirty /\ k = "set"
  <2>1. CASE ~dirty
    <3>1. S!flush = <<>> /\ fs = g
      BY <1>1, <2>1, FlushMade
    <3> HIDE DEF fs
    <3> QED BY <2>1, <3>1, HasNone
  <2>2. CASE dirty
    <3>1. PICK f \in SessionFrames :
             /\ S!flush = <<f>> /\ ~IsCall(f) /\ f.kind = "set"
             /\ f.body \in Rows /\ f.body.view = view /\ f.body.keys = keys
      BY <1>1, <2>2, FlushMade
    <3>2. <<f>> \in Seq(SessionFrames) /\ Len(<<f>>) = 1 /\ <<f>>[1] = f
      OBVIOUS
    <3>3. \A i \in 1..Len(fs) : fs[i] = f \/ \E j \in 1..Len(g) : fs[i] = g[j]
      BY <3>1, <3>2, Joined
    <3>4. \A j \in 1..Len(g) : g[j].kind # "set"
      BY DEF Has
    <3>5. SetsKeepKeys(<<f>>) <=> f.body.keys
      BY <3>1, <3>2 DEF SetsKeepKeys
    <3>6. \A k : Has(<<f>>, k) <=> k = "set"
      BY <3>1, HasFew
    <3> HIDE DEF fs
    <3> QED BY <2>2, <3>1, <3>3, <3>4, <3>5, <3>6
  <2> QED BY <2>1, <2>2
<1> HIDE DEF fs
<1>6. /\ S!send(toUi, K, fs) /\ (S!Waits("load") <=> Waits("load"))
  BY SessionWire DEF fs
<1>7. /\ up' = up /\ SessionTyped' /\ S!WireTypeOK'
      /\ ~up => toTacky = <<>> /\ toTacky' = <<>>
  BY <1>4, <1>5, <1>6, SessionSends
<1>8. /\ up => \A h \in Nat, o, u \in BOOLEAN :
                /\ ~Has(fs, "open") /\ ~Has(fs, "close") /\ OpenAhead(toTacky, h, o, u)
                     => OpenAhead(toTacky', h, o, u)
                /\ Has(fs, "close") /\ ~Has(fs, "open") /\ h = 0 => OpenAhead(toTacky', h, o, u)
      /\ up => \A k : Has(toTacky', k) <=> Has(toTacky, k) \/ Has(fs, k)
      /\ "load" \in K /\ ~Has(fs, "load") => ~Waits("load")'
  BY <1>4, <1>5, <1>6, SessionPosts
<1>9. unsaved' \in BOOLEAN /\ rash' \in BOOLEAN
  BY <1>1, <1>6 DEF S!Flushed, S!SessionTypeOK, Waits, HasLive
<1>10. ViewInv'
  <2>1. CASE ~dirty
    <3>1. unsaved' = unsaved /\ rash' = rash /\ ~Has(fs, "set") /\ SetsKeepKeys(fs)
      <4>1. SetsKeepKeys(fs)
        BY <1>4, <1>5, <2>1 DEF SetsKeepKeys, Has
      <4> QED BY <1>1, <1>4, <1>5, <2>1, <4>1 DEF S!Flushed, S!SessionTypeOK
    <3>2. /\ \A r, v : ViewAhead(toTacky, r, v) => ViewAhead(toTacky', r, v)
          /\ SetsKeepKeys(toTacky) => SetsKeepKeys(toTacky')
          /\ LoadsLast(toTacky) => LoadsLast(toTacky')
          /\ \A r : LoadsTrue(toTacky, toUi, r) => LoadsTrue(toTacky', toUi', r)
      BY <1>4, <1>5, <1>6, <3>1, SessionPosts
    <3> QED BY <1>1, <2>1, <3>1, <3>2 DEF ViewInv
  <2>2. CASE dirty
    <3>1. /\ unsaved' = (~up \/ Waits("load"))
          /\ ~rash' => ~rash /\ (up => keys)
      BY <1>1, <1>6, <2>2 DEF S!Flushed
    <3>2. ~rash' => row'.keys /\ SetsKeepKeys(toTacky')
      <4>1. SetsKeepKeys(toTacky) /\ (up => SetsKeepKeys(fs)) => SetsKeepKeys(toTacky')
        BY <1>4, <1>5, <1>6, SessionPosts
      <4> QED BY <1>1, <1>4, <1>5, <2>2, <3>1, <4>1 DEF ViewInv
    <3>3. ASSUME ~unsaved'
          PROVE  /\ LoadsLast(toTacky') /\ LoadsTrue(toTacky', toUi', row')
                 /\ ViewAhead(toTacky', row', view)
      <4>1. up /\ ~Waits("load")
        BY <3>1, <3>3
      <4>2. ~Has(fs, "load") /\ Has(fs, "set")
        BY <1>4, <1>5, <2>2
      <4>3. LoadsLast(toTacky') /\ \A r : LoadsTrue(toTacky', toUi', r)
        BY <1>4, <1>5, <1>6, <4>1, <4>2, SessionPosts
      <4>4. \A r : ViewAhead(toTacky', r, view)
        BY <1>4, <1>5, <1>6, <2>2, <4>1, <4>2, SessionPosts
      <4> QED BY <4>3, <4>4
    <3> QED BY <3>2, <3>3 DEF ViewInv
  <2> QED BY <2>1, <2>2
<1>11. /\ Has(fs, "open") <=> Has(g, "open")
       /\ Has(fs, "close") <=> Has(g, "close")
       /\ ~Has(fs, "load")
       /\ \A k : Has(g, k) => Has(fs, k)
  BY <1>4, <1>5
<1>12. up => \A h \in Nat, o, u \in BOOLEAN :
                /\ ~Has(g, "open") /\ ~Has(g, "close") /\ OpenAhead(toTacky, h, o, u)
                     => OpenAhead(toTacky', h, o, u)
                /\ Has(g, "close") /\ ~Has(g, "open") /\ h = 0 => OpenAhead(toTacky', h, o, u)
  BY <1>8, <1>11
<1>13. up => \A k : Has(toTacky, k) \/ Has(g, k) => Has(toTacky', k)
  BY <1>8, <1>11
<1>14. "load" \in K => ~Waits("load")'
  BY <1>8, <1>11
<1> QED BY <1>7, <1>9, <1>10, <1>12, <1>13, <1>14

\* Being shown, and not: the last page goes with the view it has not stored.
LEMMA CreateKeeps == SessionInv /\ S!Create => SessionInv'
<1> SUFFICES ASSUME SessionInv, S!Create PROVE SessionInv'
  OBVIOUS
<1> DEFINE fs == <<S!loadClientData>>
<1>1. fs \in Seq(SessionFrames) /\ (\A k : Has(fs, k) <=> k = "load") /\ SetsAreRows(fs)
  <2>1. fs \in Seq(SessionFrames) /\ Len(fs) = 1 /\ fs[1] = S!loadClientData
    BY SessionMade
  <2> QED BY <2>1, SessionMade, HasFew DEF SetsAreRows
<1>2. /\ S!send(toUi, {}, fs) /\ ~alive /\ alive' = TRUE
      /\ UNCHANGED <<holds, view, keys, dirty, viewLoaded, row, opened, unsaved, rash, unclosed, scrolled>>
  BY DEF S!Create, S!history
<1>3. S!SessionTypeOK /\ OpenInv /\ ViewInv /\ S!Fresh /\ holds \in Nat
  BY <1>2, ChatsAssumption DEF SessionInv, S!SessionTypeOK
<1> HIDE DEF fs
<1>4. SessionTyped' /\ S!WireTypeOK' /\ up' = up /\ (~up => toTacky = <<>> /\ toTacky' = <<>>)
  BY <1>1, <1>2, SessionSends DEF fs
<1>5. S!SessionTypeOK'
  BY <1>2, <1>3, <1>4 DEF S!SessionTypeOK
<1>6. OpenInv'
  <2>1. up => \A h \in Nat, o, u \in BOOLEAN :
                OpenAhead(toTacky, h, o, u) => OpenAhead(toTacky', h, o, u)
    BY <1>1, <1>2, SessionPosts DEF fs
  <2>2. up => \A k : Has(toTacky', k) <=> Has(toTacky, k) \/ Has(fs, k)
    BY <1>1, <1>2, SessionPosts DEF fs
  <2> QED BY <1>1, <1>2, <1>3, <1>4, <2>1, <2>2 DEF OpenInv, S!SessionTypeOK
<1>7. ViewInv'
  <2>1. /\ \A r, v : ViewAhead(toTacky, r, v) => ViewAhead(toTacky', r, v)
        /\ SetsKeepKeys(toTacky) => SetsKeepKeys(toTacky')
        /\ LoadsLast(toTacky) => LoadsLast(toTacky')
        /\ \A r : LoadsTrue(toTacky, toUi, r) => LoadsTrue(toTacky', toUi', r)
    <3>1. SetsKeepKeys(fs)
      BY <1>1 DEF SetsKeepKeys, Has
    <3> QED BY <1>1, <1>2, <3>1, SessionPosts DEF fs
  <2> QED BY <1>2, <1>3, <2>1 DEF ViewInv
<1> QED BY <1>2, <1>4, <1>5, <1>6, <1>7 DEF SessionInv, Unasked

LEMMA HoldKeeps == SessionInv /\ S!hold => SessionInv'
<1> SUFFICES ASSUME SessionInv, S!hold PROVE SessionInv'
  OBVIOUS
<1> DEFINE fs == IF holds = 0 THEN S!sendOpen(TRUE) ELSE <<>>
<1>1. /\ S!send(toUi, {}, fs) /\ alive /\ holds < MaxHolds /\ holds' = holds + 1
      /\ unclosed' = (unclosed /\ ~(holds = 0 /\ up))
      /\ UNCHANGED <<alive, view, keys, dirty, viewLoaded, row, opened, unsaved, rash, scrolled>>
  BY DEF S!hold, S!notify
<1>2. S!SessionTypeOK /\ OpenInv /\ holds \in Nat /\ up \in BOOLEAN
  BY ChatsAssumption DEF SessionInv, S!SessionTypeOK, S!WireTypeOK
<1>3. /\ fs \in Seq(SessionFrames) /\ (\A i \in 1..Len(fs) : ~IsCall(fs[i]))
      /\ \A k : Has(fs, k) <=> holds = 0 /\ k = "open"
  <2>1. CASE holds = 0
    <3>1. PICK f \in SessionFrames : S!sendOpen(TRUE) = <<f>> /\ ~IsCall(f) /\ f.kind = "open"
      BY SessionMade
    <3>2. fs = <<f>>
      BY <2>1, <3>1
    <3> HIDE DEF fs
    <3>3. fs \in Seq(SessionFrames) /\ \A i \in 1..Len(fs) : ~IsCall(fs[i])
      BY <3>1, <3>2
    <3>4. \A k : Has(fs, k) <=> k = "open"
      BY <3>1, <3>2, HasFew
    <3> QED BY <2>1, <3>3, <3>4
  <2>2. CASE holds # 0
    <3>1. fs = <<>>
      BY <2>2
    <3> HIDE DEF fs
    <3> QED BY <2>2, <3>1, HasNone
  <2> QED BY <2>1, <2>2
<1> HIDE DEF fs
<1>4. SetsAreRows(fs)
  BY <1>3 DEF SetsAreRows, Has
<1>5. SessionTyped' /\ S!WireTypeOK' /\ up' = up
  BY <1>1, <1>3, <1>4, SessionSends
<1>6. S!SessionTypeOK'
  <2>1. holds' \in 0..MaxHolds
    BY <1>1, <1>2, ChatsAssumption DEF S!SessionTypeOK
  <2>2. unclosed' \in BOOLEAN
    BY <1>1
  <2> QED BY <1>1, <1>2, <1>5, <2>1, <2>2 DEF S!SessionTypeOK
<1>7. ViewInv'
  BY <1>1, <1>3, ViewSent
<1>8. OpenInv'
  <2>1. up => \A h \in Nat, o, u \in BOOLEAN :
                /\ ~Has(fs, "open") /\ ~Has(fs, "close") /\ OpenAhead(toTacky, h, o, u)
                     => OpenAhead(toTacky', h, o, u)
                /\ Has(fs, "open") /\ ~Has(fs, "close") /\ h > 0 => OpenAhead(toTacky', h, o, u)
    BY <1>1, <1>3, <1>4, SessionPosts
  <2>2. holds' \in Nat /\ holds' > 0 /\ opened' \in BOOLEAN /\ unclosed' \in BOOLEAN
    BY <1>1, <1>2 DEF S!SessionTypeOK
  <2>3. CASE holds = 0
    <3>1. up => OpenAhead(toTacky', holds', opened', unclosed')
      BY <1>3, <2>1, <2>2, <2>3
    <3> QED BY <1>5, <2>2, <3>1 DEF OpenInv
  <2>4. CASE holds # 0
    <3>1. up => OpenAhead(toTacky', holds, opened, unclosed)
      BY <1>2, <1>3, <2>1, <2>4 DEF OpenInv, S!SessionTypeOK
    <3>2. unclosed' = unclosed /\ holds > 0
      BY <1>1, <1>2, <2>4 DEF S!SessionTypeOK
    <3>3. up => OpenAhead(toTacky', holds', opened', unclosed')
      BY <1>1, <1>2, <2>2, <3>1, <3>2 DEF OpenAhead
    <3> QED BY <1>5, <2>2, <3>3 DEF OpenInv
  <2> QED BY <2>3, <2>4
<1> QED BY <1>1, <1>5, <1>6, <1>7, <1>8 DEF SessionInv, Unasked

LEMMA CloseMade ==
    \E f \in SessionFrames : S!sendOpen(FALSE) = <<f>> /\ ~IsCall(f) /\ f.kind = "close"
BY SessionMade

LEMMA ReleaseKeeps == SessionInv /\ S!release => SessionInv'
<1> SUFFICES ASSUME SessionInv, S!release PROVE SessionInv'
  OBVIOUS
<1>1. /\ alive /\ holds > 0 /\ holds' = holds - 1
      /\ UNCHANGED <<alive, view, keys, viewLoaded, row, opened>>
  BY DEF S!release
<1>2. S!SessionTypeOK /\ OpenInv /\ holds \in Nat /\ holds' \in 0..MaxHolds /\ up \in BOOLEAN
  BY <1>1, ChatsAssumption DEF SessionInv, S!SessionTypeOK, S!WireTypeOK
<1>3. CASE holds = 1
  <2>1. PICK f \in SessionFrames : S!sendOpen(FALSE) = <<f>> /\ ~IsCall(f) /\ f.kind = "close"
    BY CloseMade
  <2> DEFINE g == <<f>>
  <2>2. g \in Seq(SessionFrames) /\ (\A i \in 1..Len(g) : ~IsCall(g[i]))
    BY <2>1
  <2>3. \A k : Has(g, k) <=> k = "close"
    BY <2>1, HasFew
  <2>4. /\ S!send(toUi, {}, S!flush \o g) /\ S!Flushed /\ dirty' = FALSE /\ unclosed' = ~up
        /\ UNCHANGED scrolled
    BY <1>3, <2>1 DEF S!release, S!notify
  <2> HIDE DEF g
  <2>5. /\ ViewInv' /\ SessionTyped' /\ S!WireTypeOK' /\ up' = up
        /\ unsaved' \in BOOLEAN /\ rash' \in BOOLEAN
        /\ up => \A h \in Nat, o, u \in BOOLEAN : h = 0 => OpenAhead(toTacky', h, o, u)
        /\ up => Has(toTacky', "close")
    BY <1>1, <2>2, <2>3, <2>4, FlushSent
  <2>6. S!SessionTypeOK'
    BY <1>1, <1>2, <2>4, <2>5 DEF S!SessionTypeOK
  <2>7. OpenInv'
    <3>1. holds' = 0 /\ opened' \in BOOLEAN /\ unclosed' \in BOOLEAN
      BY <1>1, <1>3, <2>6 DEF S!SessionTypeOK
    <3>2. up => OpenAhead(toTacky', holds', opened', unclosed')
      BY <2>5, <3>1
    <3>3. unclosed' \/ Has(toTacky', "close")
      BY <2>4, <2>5
    <3> QED BY <2>5, <3>2, <3>3 DEF OpenInv
  <2> QED BY <1>1, <2>5, <2>6, <2>7 DEF SessionInv, Unasked
<1>4. CASE holds # 1
  <2>1. UNCHANGED <<toTacky, toUi, up, drops, dirty, unsaved, rash, unclosed, scrolled>>
    BY <1>4 DEF S!release, S!wire, S!history
  <2>2. S!SessionTypeOK'
    BY <1>1, <1>2, <2>1 DEF S!SessionTypeOK, S!WireTypeOK, S!FrameOK
  <2>3. SessionTyped' /\ ViewInv'
    BY <1>1, <2>1 DEF SessionInv, SessionTyped, ViewInv, SetsAreRows
  <2>4. OpenInv'
    <3>1. holds > 0 /\ holds' > 0
      BY <1>1, <1>2, <1>4
    <3> QED BY <1>1, <1>2, <2>1, <3>1 DEF OpenInv, OpenAhead
  <2> QED BY <1>1, <2>2, <2>3, <2>4 DEF SessionInv, Unasked
<1> QED BY <1>3, <1>4

LEMMA DestroyKeeps == SessionInv /\ S!Destroy => SessionInv'
<1> SUFFICES ASSUME SessionInv, S!Destroy PROVE SessionInv'
  OBVIOUS
<1> DEFINE g == IF holds > 0 THEN S!sendOpen(FALSE) ELSE <<>>
<1>1. /\ alive' = FALSE /\ S!send(toUi, {"load"}, S!flush \o g) /\ S!Flushed
      /\ unclosed' = (IF holds > 0 THEN ~up ELSE unclosed)
      /\ holds' = 0 /\ view' = Newest /\ keys' = FALSE /\ dirty' = FALSE /\ viewLoaded' = FALSE
      /\ UNCHANGED <<row, opened, scrolled>>
  BY DEF S!Destroy
<1>2. S!SessionTypeOK /\ OpenInv /\ holds \in Nat /\ up \in BOOLEAN
  BY ChatsAssumption DEF SessionInv, S!SessionTypeOK, S!WireTypeOK
<1>3. /\ g \in Seq(SessionFrames) /\ (\A i \in 1..Len(g) : ~IsCall(g[i]))
      /\ \A k : Has(g, k) <=> holds > 0 /\ k = "close"
  <2>1. CASE holds > 0
    <3>1. PICK f \in SessionFrames : S!sendOpen(FALSE) = <<f>> /\ ~IsCall(f) /\ f.kind = "close"
      BY CloseMade
    <3>2. g = <<f>>
      BY <2>1, <3>1
    <3> HIDE DEF g
    <3>3. g \in Seq(SessionFrames) /\ \A i \in 1..Len(g) : ~IsCall(g[i])
      BY <3>1, <3>2
    <3>4. \A k : Has(g, k) <=> k = "close"
      BY <3>1, <3>2, HasFew
    <3> QED BY <2>1, <3>3, <3>4
  <2>2. CASE ~(holds > 0)
    <3>1. g = <<>>
      BY <2>2
    <3> HIDE DEF g
    <3> QED BY <2>2, <3>1, HasNone
  <2> QED BY <2>1, <2>2
<1> HIDE DEF g
<1>4. /\ ViewInv' /\ SessionTyped' /\ S!WireTypeOK' /\ up' = up
      /\ unsaved' \in BOOLEAN /\ rash' \in BOOLEAN
      /\ up => \A h \in Nat, o, u \in BOOLEAN :
            /\ ~Has(g, "open") /\ ~Has(g, "close") /\ OpenAhead(toTacky, h, o, u)
                 => OpenAhead(toTacky', h, o, u)
            /\ Has(g, "close") /\ ~Has(g, "open") /\ h = 0 => OpenAhead(toTacky', h, o, u)
      /\ up => \A k : Has(toTacky, k) \/ Has(g, k) => Has(toTacky', k)
      /\ ~up => toTacky = <<>> /\ toTacky' = <<>>
      /\ ~Waits("load")'
  <2>1. ~Has(g, "set") /\ ~Has(g, "load") /\ row' = row /\ ~viewLoaded'
    BY <1>1, <1>3
  <2> QED BY <1>1, <1>3, <2>1, FlushSent
<1>5. S!SessionTypeOK'
  <2>1. S!Fresh'
    BY <1>1 DEF S!Fresh, S!session
  <2>2. holds' \in 0..MaxHolds /\ view' \in Views
    BY <1>1, ChatsAssumption
  <2>3. unclosed' \in BOOLEAN
    <3>1. CASE holds > 0
      BY <1>1, <3>1
    <3>2. CASE ~(holds > 0)
      BY <1>1, <1>2, <3>2 DEF S!SessionTypeOK
    <3> QED BY <3>1, <3>2
  <2> QED BY <1>1, <1>2, <1>4, <2>1, <2>2, <2>3 DEF S!SessionTypeOK
<1>6. OpenInv'
  <2>1. /\ opened \in BOOLEAN /\ unclosed \in BOOLEAN /\ unclosed' \in BOOLEAN
        /\ opened' \in BOOLEAN
    BY <1>2, <1>5 DEF S!SessionTypeOK
  <2>2. CASE holds > 0
    <3>1. up => OpenAhead(toTacky', holds', opened', unclosed') /\ Has(toTacky', "close")
      <4>1. Has(g, "close") /\ ~Has(g, "open")
        BY <1>3, <2>2
      <4>2. up => \A h \in Nat, o, u \in BOOLEAN : h = 0 => OpenAhead(toTacky', h, o, u)
        BY <1>4, <4>1
      <4>3. holds' \in Nat /\ holds' = 0
        BY <1>1
      <4> QED BY <1>4, <2>1, <4>1, <4>2, <4>3
    <3>2. unclosed' \/ up
      BY <1>1, <2>2
    <3> QED BY <1>4, <3>1, <3>2 DEF OpenInv
  <2>3. CASE ~(holds > 0)
    <3>1. holds = 0 /\ holds' = 0 /\ unclosed' = unclosed /\ opened' = opened
      BY <1>1, <1>2, <2>3
    <3>2. up => OpenAhead(toTacky', holds', opened', unclosed')
      BY <1>2, <1>3, <1>4, <2>1, <3>1 DEF OpenInv
    <3>3. Has(toTacky, "close") => Has(toTacky', "close")
      BY <1>2, <1>4
    <3> QED BY <1>2, <1>4, <3>1, <3>2, <3>3 DEF OpenInv
  <2> QED BY <2>2, <2>3
<1> QED BY <1>4, <1>5, <1>6 DEF SessionInv, Unasked

LEMMA SetViewKeeps == SessionInv /\ (\E v \in Views : S!setView(v)) => SessionInv'
<1> SUFFICES ASSUME SessionInv, NEW v \in Views, S!setView(v) PROVE SessionInv'
  OBVIOUS
<1>1. /\ alive /\ view' = v /\ dirty' = TRUE /\ scrolled' = v
      /\ UNCHANGED <<up, toTacky, toUi, drops, alive, holds, keys, viewLoaded, row, opened,
                     unsaved, rash, unclosed>>
  BY DEF S!setView, S!wire
<1>2. S!SessionTypeOK'
  BY <1>1 DEF SessionInv, S!SessionTypeOK, S!WireTypeOK, S!FrameOK
<1>3. SessionTyped' /\ OpenInv' /\ ViewInv'
  BY <1>1 DEF SessionInv, SessionTyped, OpenInv, ViewInv, SetsAreRows
<1> QED BY <1>1, <1>2, <1>3 DEF SessionInv, Unasked

LEMMA BackgroundKeeps == SessionInv /\ S!Background => SessionInv'
<1> SUFFICES ASSUME SessionInv, S!Background PROVE SessionInv'
  OBVIOUS
<1>1. /\ alive /\ S!send(toUi, {}, S!flush) /\ S!Flushed /\ dirty' = FALSE
      /\ UNCHANGED <<alive, holds, view, keys, viewLoaded, row, opened, unclosed, scrolled>>
  BY DEF S!Background, S!notify
<1>2. S!SessionTypeOK /\ OpenInv /\ holds \in Nat /\ up \in BOOLEAN
  BY ChatsAssumption DEF SessionInv, S!SessionTypeOK, S!WireTypeOK
<1>3. S!flush \o <<>> = S!flush
  <2>1. CASE dirty
    <3>1. PICK f \in SessionFrames : S!flush = <<f>>
      BY <1>2, <2>1, FlushMade
    <3> QED BY <3>1
  <2>2. CASE ~dirty
    BY <1>2, <2>2, FlushMade
  <2> QED BY <2>1, <2>2
<1>4. /\ ViewInv' /\ SessionTyped' /\ S!WireTypeOK' /\ up' = up
      /\ unsaved' \in BOOLEAN /\ rash' \in BOOLEAN
      /\ up => \A h \in Nat, o, u \in BOOLEAN :
            OpenAhead(toTacky, h, o, u) => OpenAhead(toTacky', h, o, u)
      /\ up => \A k : Has(toTacky, k) => Has(toTacky', k)
      /\ ~up => toTacky = <<>> /\ toTacky' = <<>>
  <2> DEFINE g == <<>>
  <2>1. g \in Seq(SessionFrames) /\ (\A i \in 1..Len(g) : ~IsCall(g[i])) /\ \A k : ~Has(g, k)
    BY HasNone
  <2>2. S!send(toUi, {}, S!flush \o g)
    BY <1>1, <1>3
  <2> HIDE DEF g
  <2> QED BY <1>1, <2>1, <2>2, FlushSent
<1>5. S!SessionTypeOK'
  BY <1>1, <1>2, <1>4 DEF S!SessionTypeOK
<1>6. OpenInv'
  BY <1>1, <1>2, <1>4 DEF OpenInv, S!SessionTypeOK
<1> QED BY <1>1, <1>4, <1>5, <1>6 DEF SessionInv, Unasked

\* What a read says, or that it failed.
LEMMA LoadedKeeps == SessionInv /\ (S!handleResult \/ S!handleError) => SessionInv'
<1> SUFFICES ASSUME SessionInv, S!handleResult \/ S!handleError PROVE SessionInv'
  OBVIOUS
<1> DEFINE f == Head(toUi)
<1>1. /\ S!SessionTypeOK /\ SessionTyped /\ OpenInv /\ ViewInv
      /\ toTacky \in Seq(SessionFrames) /\ toUi \in Seq(SessionFrames)
  BY DEF SessionInv, SessionTyped
<1>2. toUi # <<>> /\ f.kind = "load" /\ Took
  BY SessionWire DEF S!handleResult, S!handleError, Arrives
<1>3. up' = up /\ drops' = drops /\ toTacky' = toTacky /\ toUi' = Tail(toUi)
  BY <1>1, <1>2, TookIs DEF SessionFrames
<1>4. /\ Tail(toUi) \in Seq(SessionFrames) /\ f = toUi[1] /\ 1 \in 1..Len(toUi) /\ f \in SessionFrames
      /\ \A i \in 1..Len(Tail(toUi)) : i + 1 \in 1..Len(toUi) /\ Tail(toUi)[i] = toUi[i + 1]
  BY <1>1, <1>2, Taken
<1>5. /\ f.live \in BOOLEAN /\ f.is \in {"result", "error", "unsent"}
      /\ f.is = "result" => f.body \in Rows
  BY <1>1, <1>4 DEF SessionTyped, SessionFrames, Frames
<1> HIDE DEF f
<1>6. SessionTyped'
  BY <1>1, <1>3, <1>4 DEF SessionTyped
<1>7. S!WireTypeOK'
  BY <1>1, <1>3, <1>4, SessionFramesOK DEF S!WireTypeOK, S!SessionTypeOK
<1>8. \A r : LoadsTrue(toTacky, toUi, r) => LoadsTrue(toTacky', toUi', r)
  BY <1>3, <1>4 DEF LoadsTrue
<1>9. UNCHANGED <<alive, holds, dirty, row, opened, rash, unclosed, scrolled>>
  BY DEF S!handleResult, S!handleError, S!history
<1>10. OpenInv'
  BY <1>1, <1>3, <1>9 DEF OpenInv
<1>13. f.live => alive
  <2>1. ~alive => ~(toUi[1].kind = "load" /\ toUi[1].live)
    <3>1. DOMAIN toUi = 1..Len(toUi)
      BY <1>1
    <3> QED BY <1>4, <3>1 DEF SessionInv, Unasked, Waits, HasLive
  <2> QED BY <1>2, <1>4, <2>1 DEF f
<1>14. Unasked'
  <2>1. Waits("load")' => Waits("load")
    <3>1. DOMAIN toUi = 1..Len(toUi) /\ DOMAIN Tail(toUi) = 1..Len(Tail(toUi))
      BY <1>1, <1>4
    <3> QED BY <1>3, <1>4, <3>1 DEF Waits, HasLive
  <2> QED BY <1>9, <2>1 DEF SessionInv, Unasked
<1>11. CASE S!handleError
  <2>1. /\ UNCHANGED <<view, keys>> /\ unsaved' = (unsaved \/ (f.live /\ f.is = "error"))
        /\ viewLoaded' = (viewLoaded \/ (f.live /\ f.is = "error"))
    BY <1>11 DEF S!handleError, S!Given, f
  <2>2. viewLoaded' \in BOOLEAN /\ unsaved' \in BOOLEAN /\ (~alive => ~viewLoaded')
    <3>1. viewLoaded \in BOOLEAN /\ unsaved \in BOOLEAN /\ (~alive => ~viewLoaded)
      BY <1>1 DEF S!SessionTypeOK, S!Fresh, S!session
    <3>2. CASE f.live /\ f.is = "error"
      BY <1>13, <2>1, <3>2
    <3>3. CASE ~(f.live /\ f.is = "error")
      BY <2>1, <3>1, <3>3
    <3> QED BY <3>2, <3>3
  <2>3. S!SessionTypeOK'
    BY <1>1, <1>7, <1>9, <2>1, <2>2 DEF S!SessionTypeOK, S!Fresh, S!session
  <2>4. ViewInv'
    BY <1>1, <1>3, <1>8, <1>9, <2>1 DEF ViewInv
  <2> QED BY <1>6, <1>10, <1>14, <2>3, <2>4 DEF SessionInv
<1>12. CASE S!handleResult
  <2>1. /\ UNCHANGED unsaved /\ f.is \notin {"error", "unsent"}
        /\ IF f.live
           THEN /\ keys' = f.body.keys /\ view' = (IF dirty THEN view ELSE f.body.view)
                /\ viewLoaded' = TRUE
           ELSE UNCHANGED <<keys, view, viewLoaded>>
    BY <1>12 DEF S!handleResult, S!Given, S!Fails, S!history, f
  <2>2. /\ view' \in Views /\ keys' \in BOOLEAN /\ viewLoaded' \in BOOLEAN
        /\ ~alive => UNCHANGED <<keys, view, viewLoaded>>
    <3>1. f.live => f.body \in Rows
      BY <1>5, <2>1
    <3>2. CASE f.live
      BY <1>1, <1>13, <2>1, <3>1, <3>2 DEF S!SessionTypeOK, Rows
    <3>3. CASE ~f.live
      BY <1>1, <2>1, <3>3 DEF S!SessionTypeOK
    <3> QED BY <3>2, <3>3
  <2>3. S!SessionTypeOK'
    BY <1>1, <1>7, <1>9, <2>1, <2>2 DEF S!SessionTypeOK, S!Fresh, S!session
  <2>4. ViewInv'
    <3>1. CASE f.live
      <4>1. ~unsaved => f.body = row /\ ~Has(toTacky, "set")
        BY <1>1, <1>2, <1>4, <1>5, <2>1, <3>1 DEF ViewInv, LoadsTrue, f
      <4>2. \A v : ~Has(toTacky, "set") /\ row.view = v => ViewAhead(toTacky, row, v)
        BY DEF ViewAhead, Has
      <4> QED BY <1>1, <1>3, <1>8, <1>9, <2>1, <3>1, <4>1, <4>2 DEF ViewInv
    <3>2. CASE ~f.live
      BY <1>1, <1>3, <1>8, <1>9, <2>1, <3>2 DEF ViewInv
    <3> QED BY <3>1, <3>2
  <2> QED BY <1>6, <1>10, <1>14, <2>3, <2>4 DEF SessionInv
<1> QED BY <1>11, <1>12

LEMMA SessionTackyKeeps == SessionInv /\ S!SessionTacky => SessionInv'
<1> SUFFICES ASSUME SessionInv, S!SessionTacky PROVE SessionInv'
  OBVIOUS
<1> DEFINE f == Head(toTacky)
           q == Tail(toTacky)
<1>1. /\ S!SessionTypeOK /\ SessionTyped /\ OpenInv /\ ViewInv /\ S!WireTypeOK
      /\ toTacky \in Seq(SessionFrames) /\ toUi \in Seq(SessionFrames)
  BY DEF SessionInv, SessionTyped, S!SessionTypeOK
<1>2. /\ toTacky # <<>> /\ toTacky' = q /\ up' = up /\ drops' = drops
      /\ UNCHANGED <<alive, holds, view, keys, dirty, viewLoaded, unsaved, rash, unclosed, scrolled>>
  BY DEF S!SessionTacky, S!TackySets, S!TackyLoads, S!TackyOpens, S!TackyCloses, S!Takes, S!Says,
         S!session, S!history
<1>3. up
  BY <1>1, <1>2 DEF S!WireTypeOK
<1>4. /\ q \in Seq(SessionFrames) /\ f \in SessionFrames /\ f = toTacky[1] /\ 1 \in 1..Len(toTacky)
      /\ \A i \in 1..Len(q) : i + 1 \in 1..Len(toTacky) /\ q[i] = toTacky[i + 1]
  BY <1>1, <1>2, Taken
<1>5. /\ \A h \in Nat, o, u \in BOOLEAN : OpenAhead(toTacky, h, o, u)
            => OpenAhead(q, h, IF f.kind = "open" THEN TRUE
                               ELSE IF f.kind = "close" THEN FALSE ELSE o, u)
      /\ \A r, v : ViewAhead(toTacky, r, v)
            => ViewAhead(q, IF f.kind = "set" THEN f.body ELSE r, v)
      /\ SetsAreRows(q) /\ (f.kind = "set" => f.body \in Rows)
      /\ SetsKeepKeys(toTacky) => SetsKeepKeys(q) /\ (f.kind = "set" => f.body.keys)
      /\ LoadsLast(toTacky) => LoadsLast(q)
      /\ LoadsLast(toTacky) /\ f.kind = "load" /\ f.live => ~Has(q, "set")
  BY <1>1, <1>2, SessionLess DEF SessionTyped
<1>6. \A k : Has(toTacky, k) <=> f.kind = k \/ Has(q, k)
  BY <1>1, <1>2, HasTail
<1> HIDE DEF f, q
<1>7. \/ /\ f.kind = "set" /\ toUi' = toUi /\ row' = f.body /\ opened' = opened
      \/ /\ f.kind = "load" /\ row' = row /\ opened' = opened
         /\ \E g \in SessionFrames :
               /\ toUi' = toUi \o <<g>> /\ g.kind = "load" /\ g.is \in {"result", "error"}
               /\ g.live = f.live /\ (g.is = "result" => g.body = row)
      \/ /\ f.kind = "open" /\ toUi' = toUi /\ row' = row /\ opened' = TRUE
      \/ /\ f.kind = "close" /\ toUi' = toUi /\ row' = row /\ opened' = FALSE
  <2>1. toUi \o <<>> = toUi
    BY <1>1
  <2>2. CASE S!TackySets \/ S!TackyOpens \/ S!TackyCloses
    BY <2>1, <2>2 DEF S!TackySets, S!TackyOpens, S!TackyCloses, S!Takes, S!Says, S!Asked, f
  <2>3. CASE S!TackyLoads
    <3>1. f.kind = "load" /\ row' = row /\ opened' = opened
      BY <2>3 DEF S!TackyLoads, S!Takes, f
    <3> DEFINE g1 == [f EXCEPT !.is = "result", !.body = row]
               g2 == [f EXCEPT !.is = "error"]
    <3>2. toUi' = toUi \o <<g1>> \/ toUi' = toUi \o <<g2>>
      BY <2>3 DEF S!TackyLoads, S!Says, S!Result, S!Refusal, S!Asked, f
    <3>3. row \in Rows
      BY <1>1 DEF S!SessionTypeOK, Rows
    <3>4. /\ g1 \in SessionFrames /\ g1.kind = "load" /\ g1.is = "result" /\ g1.live = f.live
          /\ g1.body = row
          /\ g2 \in SessionFrames /\ g2.kind = "load" /\ g2.is = "error" /\ g2.live = f.live
      BY <1>4, <3>1, <3>3 DEF SessionFrames, Frames
    <3> HIDE DEF g1, g2
    <3> QED BY <3>1, <3>2, <3>4
  <2> QED BY <2>2, <2>3 DEF S!SessionTacky
<1>8. \A g \in SessionFrames :
        /\ toUi \o <<g>> \in Seq(SessionFrames) /\ Len(toUi \o <<g>>) = Len(toUi) + 1
        /\ \A i \in 1..Len(toUi) : (toUi \o <<g>>)[i] = toUi[i]
        /\ \A k \in 1..Len(toUi \o <<g>>) :
             k \in 1..Len(toUi) \/ (toUi \o <<g>>)[k] = g
  <2> SUFFICES ASSUME NEW g \in SessionFrames
        PROVE  /\ toUi \o <<g>> \in Seq(SessionFrames) /\ Len(toUi \o <<g>>) = Len(toUi) + 1
               /\ \A i \in 1..Len(toUi) : (toUi \o <<g>>)[i] = toUi[i]
               /\ \A k \in 1..Len(toUi \o <<g>>) :
                    k \in 1..Len(toUi) \/ (toUi \o <<g>>)[k] = g
    OBVIOUS
  <2>1. <<g>> \in Seq(SessionFrames) /\ Len(<<g>>) = 1 /\ <<g>>[1] = g
    OBVIOUS
  <2> QED BY <1>1, <2>1, Joined
<1>9. row' \in Rows /\ opened' \in BOOLEAN /\ (row' = row \/ f.kind = "set")
  BY <1>1, <1>5, <1>7 DEF S!SessionTypeOK, Rows
<1>10. \/ toUi' = toUi
       \/ \E g \in SessionFrames :
               /\ toUi' = toUi \o <<g>> /\ g.kind = "load" /\ g.is \in {"result", "error"}
               /\ g.live = f.live /\ (g.is = "result" => g.body = row)
               /\ f.kind = "load" /\ row' = row
  BY <1>7
<1>11. SessionTyped'
  <2>1. /\ toUi' \in Seq(SessionFrames)
        /\ \A i \in 1..Len(toUi') :
             /\ toUi'[i].is \in {"result", "error", "unsent"}
             /\ toUi'[i].is = "result" => toUi'[i].body \in Rows
    <3>1. CASE toUi' = toUi
      BY <1>1, <3>1 DEF SessionTyped
    <3>2. CASE toUi' # toUi
      <4>1. PICK g \in SessionFrames :
               /\ toUi' = toUi \o <<g>> /\ g.is \in {"result", "error"}
               /\ g.is = "result" => g.body = row
        BY <1>10, <3>2
      <4>2. row \in Rows
        BY <1>1 DEF S!SessionTypeOK, Rows
      <4> QED BY <1>1, <1>8, <4>1, <4>2 DEF SessionTyped
    <3> QED BY <3>1, <3>2
  <2> QED BY <1>2, <1>3, <1>4, <1>5, <2>1 DEF SessionTyped
<1>12. S!WireTypeOK'
  BY <1>1, <1>2, <1>3, <1>11, SessionFramesOK DEF S!WireTypeOK, SessionTyped
<1>13. S!SessionTypeOK'
  BY <1>1, <1>2, <1>9, <1>12 DEF S!SessionTypeOK, S!Fresh, S!session, Rows
<1>14. Unasked'
  <2>1. f.live /\ f.kind = "load" => alive
    <3>1. 1 \in DOMAIN toTacky
      BY <1>1, <1>4
    <3> QED BY <1>4, <3>1 DEF SessionInv, Unasked, Waits, HasLive
  <2>2. ASSUME ~alive
        PROVE  /\ \A i \in DOMAIN toTacky' : ~(toTacky'[i].kind = "load" /\ toTacky'[i].live)
               /\ \A i \in DOMAIN toUi' : ~(toUi'[i].kind = "load" /\ toUi'[i].live)
    <3>1. /\ \A i \in 1..Len(toTacky) : ~(toTacky[i].kind = "load" /\ toTacky[i].live)
          /\ \A i \in 1..Len(toUi) : ~(toUi[i].kind = "load" /\ toUi[i].live)
      BY <1>1, <2>2 DEF SessionInv, Unasked, Waits, HasLive
    <3>2. DOMAIN toTacky' = 1..Len(q) /\ DOMAIN toUi' = 1..Len(toUi')
      BY <1>2, <1>4, <1>11 DEF SessionTyped
    <3>3. \A i \in 1..Len(toUi') : ~(toUi'[i].kind = "load" /\ toUi'[i].live)
      <4>1. CASE toUi' = toUi
        BY <3>1, <4>1
      <4>2. CASE toUi' # toUi
        <5>1. PICK g \in SessionFrames :
                 toUi' = toUi \o <<g>> /\ g.live = f.live /\ f.kind = "load"
          BY <1>10, <4>2
        <5>2. ~g.live
          BY <2>1, <2>2, <5>1
        <5> QED BY <1>8, <3>1, <5>1, <5>2
      <4> QED BY <4>1, <4>2
    <3> QED BY <1>2, <1>4, <3>1, <3>2, <3>3
  <2> QED BY <1>2, <2>2 DEF Unasked, Waits, HasLive
<1>15. OpenInv'
  <2>1. holds \in Nat /\ opened \in BOOLEAN /\ unclosed \in BOOLEAN
    BY <1>1, ChatsAssumption DEF S!SessionTypeOK
  <2>2. OpenAhead(q, holds, IF f.kind = "open" THEN TRUE
                            ELSE IF f.kind = "close" THEN FALSE ELSE opened, unclosed)
    BY <1>1, <1>3, <1>5, <2>1 DEF OpenInv
  <2>3. opened' = IF f.kind = "open" THEN TRUE ELSE IF f.kind = "close" THEN FALSE ELSE opened
    BY <1>7
  <2>4. OpenAhead(q, holds, opened', unclosed)
    BY <2>2, <2>3
  <2>5. opened' => holds > 0 \/ unclosed \/ Has(q, "close")
    BY <2>4 DEF OpenAhead
  <2> QED BY <1>2, <2>4, <2>5 DEF OpenInv
<1>16. ViewInv'
  <2>1. ~rash => row'.keys /\ SetsKeepKeys(q)
    BY <1>1, <1>5, <1>7 DEF ViewInv
  <2>2. viewLoaded /\ ~dirty /\ ~unsaved => ViewAhead(q, row', view)
    <3>1. row' = IF f.kind = "set" THEN f.body ELSE row
      BY <1>7
    <3> QED BY <1>1, <1>5, <3>1 DEF ViewInv
  <2>3. ~unsaved => LoadsLast(q)
    BY <1>1, <1>5 DEF ViewInv
  <2>4. ASSUME ~unsaved PROVE LoadsTrue(q, toUi', row')
    <3>1. LoadsTrue(toTacky, toUi, row) /\ LoadsLast(toTacky)
      BY <1>1, <2>4 DEF ViewInv
    <3>2. LoadsTrue(q, toUi, row')
      BY <1>6, <1>9, <3>1 DEF LoadsTrue
    <3>3. CASE toUi' = toUi
      BY <3>2, <3>3
    <3>4. CASE toUi' # toUi
      <4>1. PICK g \in SessionFrames :
               /\ toUi' = toUi \o <<g>> /\ g.kind = "load"
               /\ g.live = f.live /\ (g.is = "result" => g.body = row)
               /\ f.kind = "load" /\ row' = row
        BY <1>10, <3>4
      <4>2. g.live => ~Has(q, "set")
        BY <1>5, <3>1, <4>1
      <4> QED BY <1>8, <3>2, <4>1, <4>2 DEF LoadsTrue
    <3> QED BY <3>3, <3>4
  <2> QED BY <1>1, <1>2, <2>1, <2>2, <2>3, <2>4 DEF ViewInv
<1> QED BY <1>11, <1>13, <1>14, <1>15, <1>16 DEF SessionInv

LEMMA SessionDropKeeps == SessionInv /\ S!SessionDrop => SessionInv'
<1> SUFFICES ASSUME SessionInv, S!SessionDrop PROVE SessionInv'
  OBVIOUS
<1>1. S!SessionTypeOK /\ SessionTyped /\ OpenInv /\ ViewInv
  BY DEF SessionInv
<1>2. /\ up /\ up' = FALSE /\ drops' = drops + 1 /\ drops < MaxDrop
      /\ toTacky' = <<>> /\ toUi' = <<>>
      /\ opened' \in {opened, FALSE}
      /\ unsaved' = (unsaved \/ \E i \in DOMAIN toTacky : toTacky[i].kind = "set")
      /\ unclosed' = (unclosed \/ \E i \in DOMAIN toTacky : toTacky[i].kind = "close")
      /\ UNCHANGED <<alive, holds, view, keys, dirty, viewLoaded, row, rash, scrolled>>
  BY DEF S!SessionDrop, S!Lost
<1>3. /\ unsaved' = (unsaved \/ Has(toTacky, "set"))
      /\ unclosed' = (unclosed \/ Has(toTacky, "close"))
  BY <1>1, <1>2 DEF Has, SessionTyped
<1>4. unsaved' \in BOOLEAN /\ unclosed' \in BOOLEAN /\ opened' \in BOOLEAN
  BY <1>1, <1>2 DEF S!SessionTypeOK
<1>5. \A k : ~Has(toTacky', k)
  BY <1>2, HasNone
<1>6. S!WireTypeOK'
  <2>1. up' \in BOOLEAN /\ drops' \in 0..MaxDrop
    <3>1. drops \in 0..MaxDrop /\ MaxDrop \in Nat
      BY <1>1, ChatsAssumption DEF S!WireTypeOK, S!SessionTypeOK
    <3>2. drops' \in 0..MaxDrop
      BY <1>2, <3>1
    <3> QED BY <1>2, <3>2
  <2>2. DOMAIN toTacky' = {} /\ DOMAIN toUi' = {}
    BY <1>2
  <2> QED BY <1>2, <2>1, <2>2 DEF S!WireTypeOK
<1>7. S!SessionTypeOK'
  BY <1>1, <1>2, <1>4, <1>6 DEF S!SessionTypeOK, S!Fresh, S!session
<1>8. SessionTyped'
  BY <1>2 DEF SessionTyped, SetsAreRows
<1>9. OpenInv'
  <2>1. ASSUME opened' PROVE holds > 0 \/ unclosed'
    <3>1. opened
      BY <1>1, <1>2, <2>1 DEF S!SessionTypeOK
    <3>2. holds > 0 \/ unclosed \/ Has(toTacky, "close")
      BY <1>1, <3>1 DEF OpenInv
    <3> QED BY <1>3, <3>2
  <2> QED BY <1>2, <2>1 DEF OpenInv
<1>10. ViewInv'
  <2>1. /\ SetsKeepKeys(toTacky') /\ LoadsLast(toTacky') /\ LoadsTrue(toTacky', toUi', row')
    BY <1>2 DEF SetsKeepKeys, LoadsLast, LoadsTrue
  <2>2. ~Has(toTacky, "set") /\ ViewAhead(toTacky, row, view) => ViewAhead(toTacky', row', view')
    BY <1>2 DEF ViewAhead
  <2> QED BY <1>1, <1>2, <1>3, <2>1, <2>2 DEF ViewInv
<1>11. Unasked'
  BY <1>2 DEF Unasked, Waits, HasLive
<1> QED BY <1>7, <1>8, <1>9, <1>10, <1>11 DEF SessionInv

LEMMA SessionAttachKeeps == SessionInv /\ S!SessionAttach => SessionInv'
<1> SUFFICES ASSUME SessionInv, S!SessionAttach PROVE SessionInv'
  OBVIOUS
<1> DEFINE K == IF alive /\ ~viewLoaded THEN {"load"} ELSE {}
           a == IF holds > 0 THEN S!sendOpen(TRUE) ELSE <<>>
           b == IF alive /\ ~viewLoaded THEN <<S!loadClientData>> ELSE <<>>
<1>1. /\ S!SessionTypeOK /\ SessionTyped /\ OpenInv /\ ViewInv /\ S!WireTypeOK
      /\ holds \in Nat /\ toUi \in Seq(SessionFrames)
  BY ChatsAssumption DEF SessionInv, SessionTyped, S!SessionTypeOK
<1>2. /\ ~up /\ up' = TRUE /\ toTacky' = a \o b /\ toUi' = Stale(toUi, K) /\ drops' = drops
      /\ UNCHANGED <<alive, holds, view, keys, dirty, viewLoaded, row, opened, unsaved, rash,
                     unclosed, scrolled>>
  BY DEF S!SessionAttach, S!Comes, S!Stale, Stale, S!sessionVars, S!session, S!history
<1>3. toTacky = <<>>
  BY <1>1, <1>2 DEF S!WireTypeOK
<1>4. a \in Seq(SessionFrames) /\ \A k : Has(a, k) <=> holds > 0 /\ k = "open"
  <2>1. CASE holds > 0
    <3>1. PICK f \in SessionFrames : S!sendOpen(TRUE) = <<f>> /\ f.kind = "open"
      BY SessionMade
    <3>2. a = <<f>>
      BY <2>1, <3>1
    <3> HIDE DEF a
    <3> QED BY <2>1, <3>1, <3>2, HasFew
  <2>2. CASE ~(holds > 0)
    <3>1. a = <<>>
      BY <2>2
    <3> HIDE DEF a
    <3> QED BY <2>2, <3>1, HasNone
  <2> QED BY <2>1, <2>2
<1>5. b \in Seq(SessionFrames) /\ \A k : Has(b, k) <=> (alive /\ ~viewLoaded) /\ k = "load"
  <2>1. CASE alive /\ ~viewLoaded
    <3>1. b = <<S!loadClientData>>
      BY <2>1
    <3> HIDE DEF b
    <3> QED BY <2>1, <3>1, SessionMade, HasFew
  <2>2. CASE ~(alive /\ ~viewLoaded)
    <3>1. b = <<>>
      BY <2>2
    <3> HIDE DEF b
    <3> QED BY <2>2, <3>1, HasNone
  <2> QED BY <2>1, <2>2
<1> HIDE DEF a, b
<1>6. /\ toTacky' \in Seq(SessionFrames)
      /\ \A k : Has(toTacky', k) <=> (holds > 0 /\ k = "open")
                                     \/ (alive /\ ~viewLoaded /\ k = "load")
  BY <1>2, <1>4, <1>5, Joined, HasJoined
<1>7. \A i \in 1..Len(toTacky') : Has(toTacky', toTacky'[i].kind)
  BY DEF Has
<1>8. \A i \in 1..Len(toTacky') : toTacky'[i].kind \in {"open", "load"}
  BY <1>6, <1>7
<1>9. /\ toUi' \in Seq(SessionFrames) /\ Len(toUi') = Len(toUi)
      /\ \A i \in 1..Len(toUi) :
            /\ toUi'[i].kind = toUi[i].kind /\ toUi'[i].is = "unsent"
            /\ toUi'[i].live => toUi[i].live
  BY <1>1, <1>2, StaleIs DEF SessionFrames, SessionTyped
<1>10. SessionTyped'
  BY <1>2, <1>6, <1>8, <1>9 DEF SessionTyped, SetsAreRows
<1>11. S!WireTypeOK'
  BY <1>1, <1>2, <1>6, <1>9, SessionFramesOK DEF S!WireTypeOK
<1>12. S!SessionTypeOK'
  BY <1>1, <1>2, <1>11 DEF S!SessionTypeOK, S!Fresh, S!session
<1>13. OpenInv'
  <2>1. OpenAhead(toTacky', holds, opened, unclosed)
    <3>1. \A i \in 1..Len(toTacky') : toTacky'[i].kind = "open" => holds > 0
      BY <1>6, <1>7
    <3>2. \A i \in 1..Len(toTacky') : toTacky'[i].kind # "close"
      BY <1>8
    <3>3. opened => holds > 0 \/ unclosed
      BY <1>1, <1>3, HasNone DEF OpenInv
    <3> QED BY <1>6, <3>1, <3>2, <3>3 DEF OpenAhead
  <2>2. opened => holds > 0 \/ unclosed
    BY <1>1, <1>3, HasNone DEF OpenInv
  <2> QED BY <1>2, <2>1, <2>2 DEF OpenInv
<1>14. ViewInv'
  <2>1. ~Has(toTacky', "set")
    BY <1>6
  <2>2. \A i \in 1..Len(toTacky') : ~Later(toTacky', i, "set")
    BY <2>1 DEF Has, Later
  <2>3. SetsKeepKeys(toTacky') /\ LoadsLast(toTacky') /\ LoadsTrue(toTacky', toUi', row')
    BY <1>8, <1>9, <2>2 DEF SetsKeepKeys, LoadsLast, LoadsTrue
  <2>4. ViewAhead(toTacky, row, view) => ViewAhead(toTacky', row, view)
    BY <1>3, <1>8, HasNone DEF ViewAhead
  <2> QED BY <1>1, <1>2, <2>3, <2>4 DEF ViewInv
<1>15. Unasked'
  <2>1. ASSUME ~alive PROVE ~Waits("load")'
    <3>1. \A i \in 1..Len(toTacky') : toTacky'[i].kind # "load"
      BY <1>6, <1>7, <2>1
    <3>2. \A i \in 1..Len(toUi) : ~(toUi[i].kind = "load" /\ toUi[i].live)
      BY <1>1, <2>1 DEF SessionInv, Unasked, Waits, HasLive
    <3> QED BY <1>6, <1>9, <3>1, <3>2 DEF Waits, HasLive
  <2> QED BY <1>2, <2>1 DEF Unasked
<1> QED BY <1>10, <1>12, <1>13, <1>14, <1>15 DEF SessionInv

LEMMA SessionStarts == S!SessionInit => SessionInv
<1> SUFFICES ASSUME S!SessionInit PROVE SessionInv
  OBVIOUS
<1>1. /\ up \in BOOLEAN /\ toTacky = <<>> /\ toUi = <<>> /\ drops = 0 /\ alive = FALSE
      /\ holds = 0 /\ view = Newest /\ keys = FALSE /\ dirty = FALSE /\ viewLoaded = FALSE
      /\ row = [view |-> Newest, keys |-> TRUE] /\ opened = FALSE
      /\ unsaved = FALSE /\ rash = FALSE /\ unclosed = FALSE /\ scrolled = Newest
  BY DEF S!SessionInit, S!WireInit
<1>2. S!SessionTypeOK
  <2>1. 0 \in 0..MaxDrop /\ 0 \in 0..MaxHolds /\ Newest \in Views
    BY ChatsAssumption
  <2>2. DOMAIN toTacky = {} /\ DOMAIN toUi = {}
    BY <1>1
  <2>3. S!WireTypeOK
    BY <1>1, <2>1, <2>2 DEF S!WireTypeOK
  <2>4. row \in [view : Views, keys : BOOLEAN]
    BY <1>1, <2>1
  <2>5. S!Fresh
    BY <1>1 DEF S!Fresh, S!session
  <2> QED BY <1>1, <2>1, <2>3, <2>4, <2>5 DEF S!SessionTypeOK
<1>3. SessionTyped /\ OpenInv /\ ViewInv /\ Unasked
  <2>1. SessionTyped /\ Unasked
    BY <1>1 DEF SessionTyped, SetsAreRows, Unasked, Waits, HasLive
  <2>2. OpenInv
    BY <1>1, HasNone DEF OpenInv, OpenAhead
  <2>3. ViewInv
    BY <1>1 DEF ViewInv, SetsKeepKeys, LoadsLast, LoadsTrue
  <2> QED BY <2>1, <2>2, <2>3
<1> QED BY <1>2, <1>3 DEF SessionInv

LEMMA SessionStep == SessionInv /\ S!SessionNext => SessionInv'
BY CreateKeeps, DestroyKeeps, HoldKeeps, ReleaseKeeps, BackgroundKeeps, SetViewKeeps, LoadedKeeps,
   SessionAttachKeeps, SessionTackyKeeps, SessionDropKeeps
   DEF S!SessionNext, S!SessionUser, S!SessionUi

LEMMA SessionGives == SessionInv => S!SessionTypeOK /\ S!OpenTold /\ S!ViewKept
<1> SUFFICES ASSUME SessionInv PROVE S!OpenTold /\ S!ViewKept
  BY DEF SessionInv
<1>1. S!SessionTypeOK /\ OpenInv /\ ViewInv
  BY DEF SessionInv
<1>2. toTacky = <<>> => \A k : ~Has(toTacky, k)
  BY HasNone
<1>3. S!OpenTold
  BY <1>1, <1>2 DEF OpenInv, OpenAhead, S!OpenTold, S!QuietWire
<1>4. S!ViewKept
  BY <1>1, <1>2 DEF ViewInv, ViewAhead, S!ViewKept, S!QuietWire
<1> QED BY <1>3, <1>4

-----------------------------------------------------------------------------
(* What is waited for.                                                      *)

\* A frame of kind k whose caller waits; none in a queue; at most one on the wire.
Awaited(f, k) == f.kind = k /\ f.live
NoneAwaited(q, k) == \A i \in 1..Len(q) : ~Awaited(q[i], k)
OneAwaited(q, k) == \A i, j \in 1..Len(q) : Awaited(q[i], k) /\ Awaited(q[j], k) => i = j
AtMostOne(p, q, k) ==
    OneAwaited(p, k) /\ OneAwaited(q, k) /\ (NoneAwaited(p, k) \/ NoneAwaited(q, k))

LEMMA Two == ASSUME NEW E, NEW x \in E, NEW y \in E PROVE <<x>> \o <<y>> = <<x, y>>
<1> DEFINE n == <<x>> \o <<y>>
           t == <<x, y>>
<1>1. <<x>> \in Seq(E) /\ <<y>> \in Seq(E) /\ Len(<<x>>) = 1 /\ Len(<<y>>) = 1
      /\ <<x>>[1] = x /\ <<y>>[1] = y
  OBVIOUS
<1>2. n \in Seq(E) /\ Len(n) = 2 /\ n[1] = x /\ n[2] = y
  BY <1>1
<1>3. t \in Seq(E) /\ Len(t) = 2 /\ t[1] = x /\ t[2] = y
  OBVIOUS
<1> HIDE DEF n, t
<1>4. \A i \in 1..2 : i = 1 \/ i = 2
  OBVIOUS
<1>5. n = t
  BY <1>2, <1>3, <1>4, SeqEqual
<1> QED BY <1>5 DEF n, t

LEMMA WaitsIs ==
    ASSUME NEW E, NEW T, toTacky \in Seq(E), toUi \in Seq(T), NEW k
    PROVE  Waits(k) <=> ~(NoneAwaited(toTacky, k) /\ NoneAwaited(toUi, k))
<1>1. DOMAIN toTacky = 1..Len(toTacky) /\ DOMAIN toUi = 1..Len(toUi)
  OBVIOUS
<1> QED BY <1>1 DEF Waits, HasLive, NoneAwaited, Awaited

LEMMA AwaitedTaken ==
    ASSUME NEW E, NEW q \in Seq(E), q # <<>>, NEW k
    PROVE  /\ NoneAwaited(q, k) <=> ~Awaited(Head(q), k) /\ NoneAwaited(Tail(q), k)
           /\ OneAwaited(q, k) => /\ OneAwaited(Tail(q), k)
                                  /\ Awaited(Head(q), k) => NoneAwaited(Tail(q), k)
<1>1. /\ Head(q) = q[1] /\ 1 \in 1..Len(q)
      /\ \A i \in 1..Len(Tail(q)) : i \in Nat /\ i + 1 \in 1..Len(q) /\ Tail(q)[i] = q[i + 1] /\ i + 1 # 1
      /\ \A i \in 1..Len(q) : i # 1 => i - 1 \in 1..Len(Tail(q)) /\ Tail(q)[i - 1] = q[i]
  BY Taken
<1>2. \A i, j \in 1..Len(Tail(q)) : i + 1 = j + 1 => i = j
  BY <1>1
<1>3. NoneAwaited(q, k) <=> ~Awaited(Head(q), k) /\ NoneAwaited(Tail(q), k)
  BY <1>1 DEF NoneAwaited, Awaited
<1>4. OneAwaited(q, k) => /\ OneAwaited(Tail(q), k)
                          /\ Awaited(Head(q), k) => NoneAwaited(Tail(q), k)
  BY <1>1, <1>2 DEF NoneAwaited, OneAwaited, Awaited
<1> QED BY <1>3, <1>4

LEMMA AwaitedJoined ==
    ASSUME NEW E, NEW q \in Seq(E), NEW g \in Seq(E), NEW k
    PROVE  /\ NoneAwaited(q \o g, k) <=> NoneAwaited(q, k) /\ NoneAwaited(g, k)
           /\ NoneAwaited(q, k) /\ OneAwaited(g, k) => OneAwaited(q \o g, k)
           /\ NoneAwaited(g, k) /\ OneAwaited(q, k) => OneAwaited(q \o g, k)
<1> DEFINE n == q \o g
<1>1. /\ \A i \in 1..Len(q) : i \in 1..Len(n) /\ n[i] = q[i]
      /\ \A i \in 1..Len(g) : Len(q) + i \in 1..Len(n) /\ n[Len(q) + i] = g[i]
      /\ \A i \in 1..Len(n) : \/ i \in 1..Len(q) /\ n[i] = q[i]
                              \/ i - Len(q) \in 1..Len(g) /\ n[i] = g[i - Len(q)]
      /\ \A i, j \in 1..Len(n) : i - Len(q) = j - Len(q) => i = j
  BY Joined
<1> HIDE DEF n
<1>2. NoneAwaited(n, k) <=> NoneAwaited(q, k) /\ NoneAwaited(g, k)
  BY <1>1 DEF NoneAwaited
<1>3. NoneAwaited(q, k) /\ OneAwaited(g, k) => OneAwaited(n, k)
  BY <1>1 DEF NoneAwaited, OneAwaited
<1>4. NoneAwaited(g, k) /\ OneAwaited(q, k) => OneAwaited(n, k)
  BY <1>1 DEF NoneAwaited, OneAwaited
<1> QED BY <1>2, <1>3, <1>4 DEF n

LEMMA AwaitedStale ==
    ASSUME NEW B, NEW q \in Seq(Frames(B)), NEW K, NEW k
    PROVE  /\ NoneAwaited(Stale(q, K), k) <=> NoneAwaited(q, k) \/ k \in K
           /\ OneAwaited(q, k) \/ k \in K => OneAwaited(Stale(q, K), k)
<1>1. /\ Len(Stale(q, K)) = Len(q)
      /\ \A i \in 1..Len(q) : Awaited(Stale(q, K)[i], k) <=> Awaited(q[i], k) /\ k \notin K
  BY StaleIs DEF Awaited
<1> QED BY <1>1 DEF NoneAwaited, OneAwaited

LEMMA AwaitedFew ==
    ASSUME NEW f, NEW k
    PROVE  /\ NoneAwaited(<<f>>, k) <=> ~Awaited(f, k)
           /\ OneAwaited(<<f>>, k) /\ OneAwaited(<<>>, k) /\ NoneAwaited(<<>>, k)
<1>1. Len(<<f>>) = 1 /\ <<f>>[1] = f /\ Len(<<>>) = 0
  OBVIOUS
<1> QED BY <1>1 DEF NoneAwaited, OneAwaited

\* A sequence of frames of a kind keeps them when tokens are let go.
LEMMA StaleIn ==
    ASSUME NEW B, NEW A, A \subseteq Frames(B), \A f \in A : [f EXCEPT !.live = FALSE] \in A,
           NEW q \in Seq(A), NEW K
    PROVE  /\ q \in Seq(Frames(B)) /\ Stale(q, K) \in Seq(A) /\ Len(Stale(q, K)) = Len(q)
           /\ \A i \in 1..Len(q) : Stale(q, K)[i].live => Stale(q, K)[i] = q[i] /\ q[i].kind \notin K
<1>1. /\ DOMAIN q = 1..Len(q) /\ Len(q) \in Nat /\ \A i \in 1..Len(q) : q[i] \in A
  OBVIOUS
<1>2. q \in Seq(Frames(B))
  BY <1>1
<1>3. Stale(q, K) = [i \in 1..Len(q) |->
                       IF q[i].kind \in K THEN [q[i] EXCEPT !.live = FALSE] ELSE q[i]]
  BY <1>1 DEF Stale
<1>4. \A i \in 1..Len(q) : [q[i] EXCEPT !.live = FALSE] \in A
  BY <1>1
<1>5. Stale(q, K) \in Seq(A) /\ Len(Stale(q, K)) = Len(q)
  BY <1>1, <1>3, <1>4
<1>6. ASSUME NEW i \in 1..Len(q), Stale(q, K)[i].live
      PROVE  Stale(q, K)[i] = q[i] /\ q[i].kind \notin K
  <2>1. Stale(q, K)[i].live <=> q[i].live /\ q[i].kind \notin K
    BY <1>2, StaleIs
  <2> QED BY <1>3, <1>6, <2>1
<1> QED BY <1>2, <1>5, <1>6

\* What a handler's sends leave to wait for.
LEMMA SendsOut ==
    ASSUME NEW B, NEW A, NEW Z, A \subseteq Frames(B), Z \subseteq Frames(B),
           \A f \in A : [f EXCEPT !.live = FALSE] \in A,
           \A f \in Z : [f EXCEPT !.live = FALSE] \in Z,
           \A f \in A : IsCall(f) => Unsent(f) \in Z,
           \A f \in A : f.live => IsCall(f),
           toTacky \in Seq(A), toUi \in Seq(Z), NEW K, NEW fs \in Seq(A), send(toUi, K, fs),
           ~up => toTacky = <<>>,
           \A i, j \in 1..Len(fs) : IsCall(fs[i]) /\ IsCall(fs[j]) => i = j
    PROVE  /\ up' = up /\ drops' = drops /\ toTacky' \in Seq(A) /\ toUi' \in Seq(Z)
           /\ ~up' => toTacky' = <<>>
           /\ \A i \in 1..Len(toTacky') : toTacky'[i].live =>
                \/ \E j \in 1..Len(fs) : toTacky'[i] = fs[j]
                \/ \E j \in 1..Len(toTacky) : toTacky'[i] = toTacky[j] /\ toTacky[j].kind \notin K
           /\ \A i \in 1..Len(toUi') : toUi'[i].live =>
                \/ \E j \in 1..Len(fs) : toUi'[i] = Unsent(fs[j]) /\ fs[j].live
                \/ \E j \in 1..Len(toUi) : toUi'[i] = toUi[j] /\ toUi[j].kind \notin K
           /\ \A k \in K : OneAwaited(fs, k) => AtMostOne(toTacky', toUi', k)
           /\ \A k \in K : NoneAwaited(toTacky', k) /\ NoneAwaited(toUi', k) <=> NoneAwaited(fs, k)
<1> DEFINE p == Stale(toTacky, K)
           q == Stale(toUi, K)
<1>1. /\ p \in Seq(A) /\ Len(p) = Len(toTacky) /\ toTacky \in Seq(Frames(B))
      /\ \A i \in 1..Len(toTacky) : p[i].live => p[i] = toTacky[i] /\ toTacky[i].kind \notin K
  <2>1. A \subseteq Frames(B) /\ \A f \in A : [f EXCEPT !.live = FALSE] \in A
    OBVIOUS
  <2>2. toTacky \in Seq(A)
    OBVIOUS
  <2> HIDE DEF p
  <2>3. \A r \in Seq(A) : /\ r \in Seq(Frames(B)) /\ Stale(r, K) \in Seq(A) /\ Len(Stale(r, K)) = Len(r)
                          /\ \A i \in 1..Len(r) : Stale(r, K)[i].live => Stale(r, K)[i] = r[i] /\ r[i].kind \notin K
    BY <2>1, StaleIn
  <2> QED BY <2>2, <2>3 DEF p
<1>2. /\ q \in Seq(Z) /\ Len(q) = Len(toUi) /\ toUi \in Seq(Frames(B))
      /\ \A i \in 1..Len(toUi) : q[i].live => q[i] = toUi[i] /\ toUi[i].kind \notin K
  BY StaleIn
<1>3. fs \in Seq(Frames(B)) /\ \A i \in 1..Len(fs) : fs[i] \in A
  OBVIOUS
<1>4. /\ up' = up /\ drops' = drops
      /\ up => toTacky' = p \o fs /\ toUi' = q
      /\ ~up => toTacky' = p
      /\ ~up /\ (\A i \in 1..Len(fs) : ~IsCall(fs[i])) => toUi' = q
      /\ \A k \in 1..Len(fs) :
            ~up /\ IsCall(fs[k]) /\ (\A i \in 1..Len(fs) : IsCall(fs[i]) => i = k)
            => toUi' = q \o <<Unsent(fs[k])>>
  BY <1>1, <1>2, <1>3, Sends
<1>5. \A k \in K : NoneAwaited(p, k) /\ NoneAwaited(q, k)
  BY <1>1, <1>2, AwaitedStale
<1> HIDE DEF p, q
<1>7. CASE up
  <2>1. /\ toTacky' \in Seq(A)
        /\ \A i \in 1..Len(toTacky') : \/ i \in 1..Len(p) /\ toTacky'[i] = p[i]
                                       \/ i - Len(p) \in 1..Len(fs) /\ toTacky'[i] = fs[i - Len(p)]
    <3>1. /\ p \o fs \in Seq(A)
          /\ \A i \in 1..Len(p \o fs) :
                \/ i \in 1..Len(p) /\ (p \o fs)[i] = p[i]
                \/ i - Len(p) \in 1..Len(fs) /\ (p \o fs)[i] = fs[i - Len(p)]
      BY <1>1, Joined
    <3> QED BY <1>4, <1>7, <3>1
  <2>2. \A k \in K : /\ NoneAwaited(toTacky', k) <=> NoneAwaited(fs, k)
                     /\ OneAwaited(fs, k) => OneAwaited(toTacky', k)
    <3>1. \A k : /\ NoneAwaited(p \o fs, k) <=> NoneAwaited(p, k) /\ NoneAwaited(fs, k)
                 /\ NoneAwaited(p, k) /\ OneAwaited(fs, k) => OneAwaited(p \o fs, k)
      BY <1>1, AwaitedJoined
    <3> QED BY <1>4, <1>5, <1>7, <3>1
  <2>3. \A k \in K : OneAwaited(toUi', k) /\ NoneAwaited(toUi', k)
    BY <1>4, <1>5, <1>7 DEF OneAwaited, NoneAwaited
  <2>4. toUi' \in Seq(Z) /\ \A i \in 1..Len(toUi') : toUi'[i].live =>
          \E j \in 1..Len(toUi) : toUi'[i] = toUi[j] /\ toUi[j].kind \notin K
    BY <1>2, <1>4, <1>7
  <2>5. \A i \in 1..Len(toTacky') : toTacky'[i].live =>
          \/ \E j \in 1..Len(fs) : toTacky'[i] = fs[j]
          \/ \E j \in 1..Len(toTacky) : toTacky'[i] = toTacky[j] /\ toTacky[j].kind \notin K
    BY <1>1, <2>1
  <2> QED BY <1>4, <1>7, <2>1, <2>2, <2>3, <2>4, <2>5 DEF AtMostOne
<1>8. CASE ~up
  <2>1. toTacky' = <<>> /\ toTacky' \in Seq(A)
    <3>1. Len(p) = 0
      BY <1>1, <1>8
    <3> QED BY <1>1, <1>4, <1>8, <3>1
  <2>2. \A k : NoneAwaited(toTacky', k) /\ OneAwaited(toTacky', k)
    BY <2>1, AwaitedFew
  <2>3. CASE \A i \in 1..Len(fs) : ~IsCall(fs[i])
    <3>1. toUi' = q
      BY <1>4, <1>8, <2>3
    <3>2. \A k : NoneAwaited(fs, k)
      BY <1>3, <2>3 DEF NoneAwaited, Awaited
    <3>3. toUi' \in Seq(Z) /\ \A i \in 1..Len(toUi') : toUi'[i].live =>
            \E j \in 1..Len(toUi) : toUi'[i] = toUi[j] /\ toUi[j].kind \notin K
      BY <1>2, <3>1
    <3>4. \A k \in K : OneAwaited(toUi', k) /\ NoneAwaited(toUi', k)
      BY <1>5, <3>1 DEF OneAwaited, NoneAwaited
    <3>5. \A i \in 1..Len(toTacky') : FALSE
      BY <2>1
    <3> QED BY <1>4, <2>1, <2>2, <3>2, <3>3, <3>4, <3>5 DEF AtMostOne
  <2>4. CASE \E i \in 1..Len(fs) : IsCall(fs[i])
    <3>1. PICK n \in 1..Len(fs) : IsCall(fs[n])
      BY <2>4
    <3>2. \A i \in 1..Len(fs) : IsCall(fs[i]) => i = n
      BY <3>1
    <3> DEFINE g == Unsent(fs[n])
    <3>3. toUi' = q \o <<g>>
      BY <1>4, <1>8, <3>1, <3>2
    <3>4. g \in Z /\ (\A k : Awaited(g, k) <=> Awaited(fs[n], k))
      BY <1>3, <3>1 DEF Unsent, Awaited, Frames
    <3>5. \A k : NoneAwaited(fs, k) <=> ~Awaited(fs[n], k)
      BY <1>3, <3>2 DEF NoneAwaited, Awaited
    <3>6. g.live <=> fs[n].live
      BY <1>3 DEF Unsent, Frames
    <3>7. <<g>> \in Seq(Z) /\ Len(<<g>>) = 1 /\ <<g>>[1] = g
      BY <3>4
    <3>8. \A k : NoneAwaited(<<g>>, k) <=> ~Awaited(g, k)
      BY AwaitedFew
    <3>9. \A k : OneAwaited(<<g>>, k)
      BY AwaitedFew
    <3>10. /\ toUi' \in Seq(Z)
           /\ \A i \in 1..Len(toUi') : \/ i \in 1..Len(q) /\ toUi'[i] = q[i]
                                       \/ i - Len(q) \in 1..Len(<<g>>) /\ toUi'[i] = <<g>>[i - Len(q)]
      BY <1>2, <3>3, <3>7, Joined
    <3>11. \A k \in K : /\ NoneAwaited(toUi', k) <=> NoneAwaited(fs, k)
                        /\ OneAwaited(toUi', k)
      <4>1. \A k : /\ NoneAwaited(q \o <<g>>, k) <=> NoneAwaited(q, k) /\ NoneAwaited(<<g>>, k)
                   /\ NoneAwaited(q, k) /\ OneAwaited(<<g>>, k) => OneAwaited(q \o <<g>>, k)
        BY <1>2, <3>7, AwaitedJoined
      <4> QED BY <1>5, <3>3, <3>4, <3>5, <3>8, <3>9, <4>1
    <3>12. \A i \in 1..Len(toUi') : toUi'[i].live =>
             \/ \E j \in 1..Len(fs) : toUi'[i] = Unsent(fs[j]) /\ fs[j].live
             \/ \E j \in 1..Len(toUi) : toUi'[i] = toUi[j] /\ toUi[j].kind \notin K
      <4>1. \A i \in 1..Len(toUi') : (i \in 1..Len(q) /\ toUi'[i] = q[i]) \/ toUi'[i] = g
        BY <3>7, <3>10
      <4> QED BY <1>2, <3>6, <4>1
    <3>13. \A i \in 1..Len(toTacky') : FALSE
      BY <2>1
    <3> QED BY <1>4, <2>1, <2>2, <3>10, <3>11, <3>12, <3>13 DEF AtMostOne
  <2> QED BY <2>3, <2>4
<1> QED BY <1>7, <1>8

\* What taking the first frame leaves to wait for; tacky may answer one with another.
LEMMA TakenOut ==
    ASSUME NEW E, NEW T, NEW p \in Seq(E), NEW q \in Seq(T), q # <<>>, NEW k, AtMostOne(p, q, k)
    PROVE  /\ AtMostOne(p, Tail(q), k)
           /\ Awaited(Head(q), k) => NoneAwaited(p, k) /\ NoneAwaited(Tail(q), k)
           /\ ~Awaited(Head(q), k) => (NoneAwaited(q, k) <=> NoneAwaited(Tail(q), k))
BY AwaitedTaken DEF AtMostOne

LEMMA AnsweredOut ==
    ASSUME NEW E, NEW T, NEW p \in Seq(E), NEW q \in Seq(T), p # <<>>, NEW g \in T, NEW k,
           Awaited(g, k) <=> Awaited(Head(p), k), AtMostOne(p, q, k)
    PROVE  /\ AtMostOne(Tail(p), q \o <<g>>, k)
           /\ NoneAwaited(p, k) /\ NoneAwaited(q, k)
                <=> NoneAwaited(Tail(p), k) /\ NoneAwaited(q \o <<g>>, k)
<1>1. <<g>> \in Seq(T)
  OBVIOUS
<1>2. /\ NoneAwaited(<<g>>, k) <=> ~Awaited(g, k)
      /\ OneAwaited(<<g>>, k)
  BY AwaitedFew
<1>3. /\ NoneAwaited(q \o <<g>>, k) <=> NoneAwaited(q, k) /\ NoneAwaited(<<g>>, k)
      /\ NoneAwaited(q, k) /\ OneAwaited(<<g>>, k) => OneAwaited(q \o <<g>>, k)
      /\ NoneAwaited(<<g>>, k) /\ OneAwaited(q, k) => OneAwaited(q \o <<g>>, k)
  BY <1>1, AwaitedJoined
<1>4. /\ NoneAwaited(p, k) <=> ~Awaited(Head(p), k) /\ NoneAwaited(Tail(p), k)
      /\ OneAwaited(p, k) => /\ OneAwaited(Tail(p), k)
                             /\ Awaited(Head(p), k) => NoneAwaited(Tail(p), k)
  BY AwaitedTaken
<1> QED BY <1>2, <1>3, <1>4 DEF AtMostOne

LEMMA Pieces ==
    ASSUME NEW E, NEW q \in Seq(E), NEW g \in Seq(E)
    PROVE  /\ q \o g \in Seq(E) /\ Len(q \o g) = Len(q) + Len(g)
           /\ \A i \in 1..Len(q \o g) : \/ i \in 1..Len(q) /\ (q \o g)[i] = q[i]
                                        \/ i - Len(q) \in 1..Len(g) /\ (q \o g)[i] = g[i - Len(q)]
<1> DEFINE n == q \o g
<1>1. /\ n \in Seq(E) /\ Len(n) = Len(q) + Len(g)
      /\ \A i \in 1..Len(q) : n[i] = q[i]
      /\ \A k \in 1..Len(n) : k \notin 1..Len(q) => k - Len(q) \in 1..Len(g)
      /\ \A k \in 1..Len(n) : k \notin 1..Len(q) => n[k] = g[k - Len(q)]
  BY Joined
<1> HIDE DEF n
<1>2. \A i \in 1..Len(n) : \/ i \in 1..Len(q) /\ n[i] = q[i]
                           \/ i - Len(q) \in 1..Len(g) /\ n[i] = g[i - Len(q)]
  BY <1>1
<1> QED BY <1>1, <1>2 DEF n

-----------------------------------------------------------------------------
(* SearchModel.                                                             *)

LEMMA SearchWire ==
    /\ \A in, K, fs : Q!send(in, K, fs) <=> send(in, K, fs)
    /\ Q!Took <=> Took
    /\ \A k : Q!Arrives(k) <=> Arrives(k)
    /\ \A k : Q!Takes(k) <=> Takes(k)
    /\ \A k : Q!Waits(k) <=> Waits(k)
    /\ \A q, k : Q!HasLive(q, k) <=> HasLive(q, k)
<1>1. \A in, K, fs : Q!send(in, K, fs) <=> send(in, K, fs)
  <2>1. \A q, K : Q!Stale(q, K) = Stale(q, K)
    BY DEF Q!Stale, Stale
  <2>2. \A q, fs : Q!Post(q, fs) = Post(q, fs)
    BY DEF Q!Post, Post
  <2>3. \A fs : Q!Requested(fs) = Requested(fs)
    BY Zenon DEF Q!Requested, Q!IsCall, Q!Cardinality, Requested, IsCall, Cardinality
  <2>4. \A f : Q!Unsent(f) = Unsent(f)
    BY DEF Q!Unsent, Unsent
  <2> QED BY <2>1, <2>2, <2>3, <2>4 DEF Q!send, send
<1>2. Q!Took <=> Took
  BY <1>1 DEF Q!Took, Q!Rest, Took, Rest
<1>3. \A k : Q!Arrives(k) <=> Arrives(k)
  BY DEF Q!Arrives, Arrives
<1>4. \A k : Q!Takes(k) <=> Takes(k)
  BY DEF Q!Takes, Takes
<1>5. \A q, k : Q!HasLive(q, k) <=> HasLive(q, k)
  BY DEF Q!HasLive, HasLive
<1>6. \A k : Q!Waits(k) <=> Waits(k)
  BY <1>5 DEF Q!Waits, Waits
<1> QED BY <1>1, <1>2, <1>3, <1>4, <1>5, <1>6

\* A page that is asked for, and one found.
PagesAsked == [chat : Chats, query : Queries, page : 1..Pages, both : BOOLEAN]
PagesFound ==
    {r \in [chat : Chats, query : Queries, page : 1..Pages, found : BOOLEAN, next : 0..Pages] :
        r.next # 0 => r.found /\ r.next = r.page + 1}
SearchBodies == {Nil} \cup Chats \cup BOOLEAN \cup PagesAsked \cup PagesFound

SearchAsks ==
    {f \in Frames(SearchBodies) :
        /\ f.kind \in {"search", "cancel", "caps"} /\ f.is \in {"sent", "asked"}
        /\ f.live => f.is = "asked"
        /\ f.kind = "search" => f.body \in PagesAsked
        /\ f.kind = "caps" => f.body \in Chats}
SearchSays ==
    {f \in Frames(SearchBodies) :
        /\ f.kind \in {"search", "cancel", "caps"} /\ f.is \in {"result", "error", "unsent"}
        /\ f.kind = "search" => f.body \in IF f.is = "result" THEN PagesFound ELSE PagesAsked
        /\ f.kind = "caps" /\ f.is = "result" => f.body \in BOOLEAN}

\* A page that is waited for is of the question last asked, and the first or the
\* one behind those shown; what a server can do is of the chat shown.
Shown(h, c, m) == \A i \in DOMAIN h : h[i] = [chat |-> c, query |-> m, page |-> i]
Timely(f, c, m, n, h) ==
    /\ Awaited(f, "search") =>
         /\ f.body.chat = c /\ f.body.query = m /\ m # NoQuery
         /\ \/ f.body.page = 1 /\ n = 0
            \/ f.body.page = n /\ n > 1 /\ Shown(h, c, m)
    /\ Awaited(f, "caps") => IF f.is = "result" THEN f.body => c \in Archives ELSE f.body = c
AllTimely(q, c, m, n, h) == \A i \in 1..Len(q) : Timely(q[i], c, m, n, h)
WireTimely ==
    /\ AllTimely(toTacky, chat, matched, cursor, hits)
    /\ AllTimely(toUi, chat, matched, cursor, hits)

SearchInv ==
    /\ Q!SearchTypeOK /\ Q!OneQuestion
    /\ toTacky \in Seq(SearchAsks) /\ toUi \in Seq(SearchSays)
    /\ AtMostOne(toTacky, toUi, "search")
    /\ WireTimely
    /\ hits \in Seq([chat : Chats, query : Queries, page : Nat])
    /\ cursor # 1

LEMMA SearchFrames ==
    /\ SearchAsks \subseteq Frames(SearchBodies) /\ SearchSays \subseteq Frames(SearchBodies)
    /\ \A f \in SearchAsks : [f EXCEPT !.live = FALSE] \in SearchAsks
    /\ \A f \in SearchSays : [f EXCEPT !.live = FALSE] \in SearchSays
    /\ \A f \in SearchAsks : IsCall(f) => Unsent(f) \in SearchSays
    /\ \A f \in SearchAsks : f.live => IsCall(f)
    /\ \A q \in Seq(SearchAsks) : \A i \in DOMAIN q : Q!FrameOK(q[i])
    /\ \A q \in Seq(SearchSays) : \A i \in DOMAIN q : Q!FrameOK(q[i])
<1>1. \A f \in SearchAsks \cup SearchSays : f \in Frames(SearchBodies)
  BY DEF SearchAsks, SearchSays
<1>2. \A f \in Frames(SearchBodies) :
         /\ [f EXCEPT !.live = FALSE] \in Frames(SearchBodies)
         /\ [f EXCEPT !.live = FALSE].kind = f.kind /\ [f EXCEPT !.live = FALSE].is = f.is
         /\ [f EXCEPT !.live = FALSE].body = f.body /\ [f EXCEPT !.live = FALSE].live = FALSE
         /\ Unsent(f) \in Frames(SearchBodies) /\ Unsent(f).kind = f.kind /\ Unsent(f).is = "unsent"
         /\ Unsent(f).body = f.body
  BY DEF Frames, Unsent
<1>3. \A f \in SearchAsks : [f EXCEPT !.live = FALSE] \in SearchAsks
  BY <1>1, <1>2 DEF SearchAsks
<1>4. \A f \in SearchSays : [f EXCEPT !.live = FALSE] \in SearchSays
  BY <1>1, <1>2 DEF SearchSays
<1>5. \A f \in SearchAsks : IsCall(f) => Unsent(f) \in SearchSays
  BY <1>1, <1>2 DEF SearchAsks, SearchSays
<1>6. \A f \in SearchAsks : f.live => IsCall(f)
  BY DEF SearchAsks, IsCall
<1>7. \A f \in Frames(SearchBodies) : Q!FrameOK(f)
  BY FramesOK DEF FrameOK, Q!FrameOK
<1> QED BY <1>1, <1>3, <1>4, <1>5, <1>6, <1>7

LEMMA SearchMade ==
    ASSUME Q!SearchTypeOK
    PROVE  /\ Q!Bare("cancel") \in SearchAsks /\ Q!Bare("cancel").kind = "cancel"
           /\ ~IsCall(Q!Bare("cancel"))
           /\ \A c \in Chats : /\ Q!Call("caps", c) \in SearchAsks /\ IsCall(Q!Call("caps", c))
                               /\ Q!Call("caps", c).kind = "caps" /\ Q!Call("caps", c).body = c
           /\ \A q \in Queries, n \in 1..Pages :
                LET f == Q!issue(q, n)
                IN  /\ f \in SearchAsks /\ IsCall(f) /\ f.kind = "search" /\ f.live
                    /\ f.body.chat = chat /\ f.body.query = q /\ f.body.page = n
<1>1. Q!Bare("cancel") \in SearchAsks /\ Q!Bare("cancel").kind = "cancel" /\ ~IsCall(Q!Bare("cancel"))
  BY DEF Q!Bare, Q!Frame, SearchAsks, SearchBodies, Frames, Kinds, IsCall
<1>2. \A c \in Chats : /\ Q!Call("caps", c) \in SearchAsks /\ IsCall(Q!Call("caps", c))
                       /\ Q!Call("caps", c).kind = "caps" /\ Q!Call("caps", c).body = c
  BY DEF Q!Call, SearchAsks, SearchBodies, Frames, Kinds, IsCall
<1>3. ASSUME NEW q \in Queries, NEW n \in 1..Pages
      PROVE  LET f == Q!issue(q, n)
             IN  /\ f \in SearchAsks /\ IsCall(f) /\ f.kind = "search" /\ f.live
                 /\ f.body.chat = chat /\ f.body.query = q /\ f.body.page = n
  <2> DEFINE b == [chat |-> chat, query |-> q, page |-> n, both |-> n = 1 /\ remoteAvailable]
  <2>1. b \in PagesAsked /\ b.chat = chat /\ b.query = q /\ b.page = n
    BY DEF PagesAsked, Q!SearchTypeOK
  <2>2. Q!issue(q, n) = [kind |-> "search", live |-> TRUE, is |-> "asked", body |-> b]
    BY DEF Q!issue, Q!Call
  <2> HIDE DEF b
  <2> QED BY <2>1, <2>2 DEF SearchAsks, SearchBodies, Frames, Kinds, IsCall
<1> QED BY <1>1, <1>2, <1>3

\* What a search's sends do to the wire: whatever page was waited for no longer is.
LEMMA SearchSends ==
    ASSUME SearchInv, NEW K, "search" \in K, NEW fs \in Seq(SearchAsks), Q!send(toUi, K, fs),
           \A i, j \in 1..Len(fs) : IsCall(fs[i]) /\ IsCall(fs[j]) => i = j
    PROVE  /\ Q!WireTypeOK' /\ toTacky' \in Seq(SearchAsks) /\ toUi' \in Seq(SearchSays)
           /\ AtMostOne(toTacky', toUi', "search")
           /\ Q!searching' <=> ~NoneAwaited(fs, "search")
           /\ \A i \in 1..Len(toTacky') : toTacky'[i].live =>
                \/ \E j \in 1..Len(fs) : toTacky'[i] = fs[j]
                \/ \E j \in 1..Len(toTacky) : toTacky'[i] = toTacky[j] /\ toTacky[j].kind \notin K
           /\ \A i \in 1..Len(toUi') : toUi'[i].live =>
                \/ \E j \in 1..Len(fs) : toUi'[i] = Unsent(fs[j]) /\ fs[j].live
                \/ \E j \in 1..Len(toUi) : toUi'[i] = toUi[j] /\ toUi[j].kind \notin K
<1>1. /\ toTacky \in Seq(SearchAsks) /\ toUi \in Seq(SearchSays) /\ Q!WireTypeOK
      /\ send(toUi, K, fs)
  BY SearchWire DEF SearchInv, Q!SearchTypeOK
<1>2. ~up => toTacky = <<>>
  BY <1>1 DEF Q!WireTypeOK
<1>3. \A i \in 1..Len(fs) : Awaited(fs[i], "search") => IsCall(fs[i])
  BY SearchFrames DEF Awaited
<1>4. OneAwaited(fs, "search")
  BY <1>3 DEF OneAwaited
<1>5. /\ up' = up /\ drops' = drops /\ toTacky' \in Seq(SearchAsks) /\ toUi' \in Seq(SearchSays)
      /\ ~up' => toTacky' = <<>>
      /\ \A i \in 1..Len(toTacky') : toTacky'[i].live =>
                \/ \E j \in 1..Len(fs) : toTacky'[i] = fs[j]
                \/ \E j \in 1..Len(toTacky) : toTacky'[i] = toTacky[j] /\ toTacky[j].kind \notin K
      /\ \A i \in 1..Len(toUi') : toUi'[i].live =>
                \/ \E j \in 1..Len(fs) : toUi'[i] = Unsent(fs[j]) /\ fs[j].live
                \/ \E j \in 1..Len(toUi) : toUi'[i] = toUi[j] /\ toUi[j].kind \notin K
      /\ \A k \in K : OneAwaited(fs, k) => AtMostOne(toTacky', toUi', k)
      /\ \A k \in K : NoneAwaited(toTacky', k) /\ NoneAwaited(toUi', k) <=> NoneAwaited(fs, k)
  BY <1>1, <1>2, SearchFrames, SendsOut
<1>6. Q!WireTypeOK'
  BY <1>1, <1>5, SearchFrames DEF Q!WireTypeOK
<1>7. DOMAIN toTacky' = 1..Len(toTacky') /\ DOMAIN toUi' = 1..Len(toUi')
  BY <1>5
<1>8. Q!searching' <=> ~(NoneAwaited(toTacky', "search") /\ NoneAwaited(toUi', "search"))
  BY <1>7 DEF Q!searching, Q!Waits, Q!HasLive, NoneAwaited, Awaited
<1> QED BY <1>4, <1>5, <1>6, <1>8

LEMMA UnsentIs ==
    ASSUME NEW B, NEW f \in Frames(B)
    PROVE  /\ Unsent(f).kind = f.kind /\ Unsent(f).live = f.live /\ Unsent(f).body = f.body
           /\ Unsent(f).is = "unsent"
BY DEF Unsent, Frames

\* What a search's queues hold, by their frames.
LEMMA SearchHolds ==
    ASSUME SearchInv
    PROVE  /\ \A i \in 1..Len(toTacky) : toTacky[i] \in SearchAsks
           /\ \A i \in 1..Len(toUi) : toUi[i] \in SearchSays
           /\ Q!SearchTypeOK /\ Q!WireTypeOK /\ Q!OneQuestion
           /\ Q!searching <=> ~(NoneAwaited(toTacky, "search") /\ NoneAwaited(toUi, "search"))
<1>1. toTacky \in Seq(SearchAsks) /\ toUi \in Seq(SearchSays) /\ Q!SearchTypeOK /\ Q!OneQuestion
  BY DEF SearchInv
<1>2. DOMAIN toTacky = 1..Len(toTacky) /\ DOMAIN toUi = 1..Len(toUi)
  BY <1>1
<1> QED BY <1>1, <1>2 DEF Q!searching, Q!Waits, Q!HasLive, NoneAwaited, Awaited, Q!SearchTypeOK

LEMMA SetChatKeeps == SearchInv /\ (\E c \in Chats : Q!setChat(c)) => SearchInv'
<1> SUFFICES ASSUME SearchInv, NEW c \in Chats, Q!setChat(c) PROVE SearchInv'
  OBVIOUS
<1> DEFINE K == {"search"} \cup {"caps"}
           fs == <<Q!Bare("cancel")>> \o Q!askRemoteSupport(c)
<1>1. /\ chat' = c /\ Q!send(toUi, K, fs) /\ remoteAvailable' = FALSE /\ hits' = <<>>
      /\ matched' = NoQuery /\ cursor' = 0 /\ complete' = FALSE /\ failed' = FALSE
      /\ searched' = FALSE /\ query' = query
  BY DEF Q!setChat, Q!cancel, Q!forgetPage
<1>2. Q!SearchTypeOK
  BY DEF SearchInv
<1>3. /\ fs \in Seq(SearchAsks)
      /\ \A i, j \in 1..Len(fs) : IsCall(fs[i]) /\ IsCall(fs[j]) => i = j
      /\ \A i \in 1..Len(fs) : fs[i].kind # "search" /\ (fs[i].kind = "caps" => fs[i].body = c)
  <2>1. CASE c = Everywhere
    <3> DEFINE b == Q!Bare("cancel")
    <3>1. fs = <<b>> \o <<>>
      BY <2>1 DEF Q!askRemoteSupport
    <3>2. b \in SearchAsks /\ ~IsCall(b) /\ b.kind = "cancel"
      BY <1>2, SearchMade
    <3> HIDE DEF fs, b
    <3>3. fs = <<b>>
      BY <3>1
    <3>4. fs \in Seq(SearchAsks) /\ Len(fs) = 1 /\ fs[1] = b
      BY <3>2, <3>3
    <3>5. \A i \in 1..Len(fs) : i = 1
      BY <3>4
    <3> QED BY <3>2, <3>4, <3>5
  <2>2. CASE c # Everywhere
    <3> DEFINE b == Q!Bare("cancel")
               g == Q!Call("caps", c)
    <3>1. fs = <<b>> \o <<g>>
      BY <2>2 DEF Q!askRemoteSupport
    <3>2. /\ b \in SearchAsks /\ ~IsCall(b) /\ b.kind = "cancel"
          /\ g \in SearchAsks /\ g.kind = "caps" /\ g.body = c
      BY <1>2, SearchMade
    <3> HIDE DEF fs, b, g
    <3>3. fs = <<b, g>>
      BY <3>1, <3>2, Two
    <3>4. fs \in Seq(SearchAsks) /\ Len(fs) = 2 /\ fs[1] = b /\ fs[2] = g
      BY <3>2, <3>3
    <3>5. \A i \in 1..Len(fs) : i = 1 \/ i = 2
      BY <3>4
    <3> QED BY <3>2, <3>4, <3>5
  <2> QED BY <2>1, <2>2
<1> HIDE DEF fs
<1>4. "search" \in K /\ "caps" \in K
  OBVIOUS
<1> HIDE DEF K
<1>5. /\ Q!WireTypeOK' /\ toTacky' \in Seq(SearchAsks) /\ toUi' \in Seq(SearchSays)
      /\ AtMostOne(toTacky', toUi', "search")
      /\ \A i \in 1..Len(toTacky') : toTacky'[i].live =>
           \/ \E j \in 1..Len(fs) : toTacky'[i] = fs[j]
           \/ \E j \in 1..Len(toTacky) : toTacky'[i] = toTacky[j] /\ toTacky[j].kind \notin K
      /\ \A i \in 1..Len(toUi') : toUi'[i].live =>
           \/ \E j \in 1..Len(fs) : toUi'[i] = Unsent(fs[j]) /\ fs[j].live
           \/ \E j \in 1..Len(toUi) : toUi'[i] = toUi[j] /\ toUi[j].kind \notin K
  <2>1. /\ Q!send(toUi, K, fs) /\ fs \in Seq(SearchAsks)
        /\ \A i, j \in 1..Len(fs) : IsCall(fs[i]) /\ IsCall(fs[j]) => i = j
    BY <1>1, <1>3
  <2> QED BY <1>4, <2>1, SearchSends
<1>6. \A i \in 1..Len(fs) : fs[i] \in SearchAsks /\ fs[i] \in Frames(SearchBodies)
  BY <1>3, SearchFrames
<1>7. AllTimely(toTacky', chat', matched', cursor', hits')
  <2> SUFFICES ASSUME NEW i \in 1..Len(toTacky'), toTacky'[i].live PROVE Timely(toTacky'[i], chat', matched', cursor', hits')
    BY DEF AllTimely, Timely, Awaited
  <2>1. toTacky'[i] \in SearchAsks /\ toTacky'[i].kind \in {"search", "cancel", "caps"}
        /\ toTacky'[i].is # "result"
    BY <1>5 DEF SearchAsks
  <2>2. CASE \E j \in 1..Len(fs) : toTacky'[i] = fs[j]
    <3>1. /\ toTacky'[i].kind # "search"
          /\ toTacky'[i].kind = "caps" => toTacky'[i].body = c
      BY <1>3, <2>2
    <3> QED BY <1>1, <2>1, <3>1 DEF Timely, Awaited
  <2>3. CASE \E j \in 1..Len(toTacky) : toTacky'[i] = toTacky[j] /\ toTacky[j].kind \notin K
    <3>1. toTacky'[i].kind \notin {"search", "caps"}
      BY <1>4, <2>3
    <3> QED BY <3>1 DEF Timely, Awaited
  <2> QED BY <1>5, <2>2, <2>3
<1>8. AllTimely(toUi', chat', matched', cursor', hits')
  <2> SUFFICES ASSUME NEW i \in 1..Len(toUi'), toUi'[i].live PROVE Timely(toUi'[i], chat', matched', cursor', hits')
    BY DEF AllTimely, Timely, Awaited
  <2>1. CASE \E j \in 1..Len(fs) : toUi'[i] = Unsent(fs[j])
    <3>1. PICK j \in 1..Len(fs) : toUi'[i] = Unsent(fs[j])
      BY <2>1
    <3>2. /\ toUi'[i].kind = fs[j].kind /\ toUi'[i].body = fs[j].body /\ toUi'[i].is = "unsent"
      BY <1>6, <3>1, UnsentIs
    <3> QED BY <1>1, <1>3, <3>2 DEF WireTimely, AllTimely, Timely, Awaited
  <2>2. CASE \E j \in 1..Len(toUi) : toUi'[i] = toUi[j] /\ toUi[j].kind \notin K
    <3>1. toUi'[i].kind \notin {"search", "caps"}
      BY <1>4, <2>2
    <3> QED BY <3>1 DEF Timely, Awaited
  <2> QED BY <1>5, <2>1, <2>2
<1>9. Q!OneQuestion' /\ Q!SearchTypeOK'
  <2>1. \A i \in DOMAIN hits' : FALSE
    BY <1>1
  <2>2. \A q : Q!Answers(q)'
    BY <2>1 DEF Q!Answers
  <2>3. Q!OneQuestion'
    BY <1>1, <2>2, ChatsAssumption DEF Q!OneQuestion
  <2>4. Len(hits') <= Pages /\ 0 \in 0..Pages /\ 0 <= Pages
    BY <1>1, ChatsAssumption
  <2> QED BY <1>1, <1>2, <1>5, <2>3, <2>4 DEF Q!SearchTypeOK
<1>10. WireTimely'
  BY <1>7, <1>8 DEF WireTimely
<1>11. hits' \in Seq([chat : Chats, query : Queries, page : Nat]) /\ cursor' # 1
  BY <1>1
<1> QED BY <1>5, <1>9, <1>10, <1>11 DEF SearchInv

LEMMA SetQueryKeeps == SearchInv /\ (\E q \in Queries : Q!setQuery(q)) => SearchInv'
<1> SUFFICES ASSUME SearchInv, NEW q \in Queries, Q!setQuery(q) PROVE SearchInv'
  OBVIOUS
<1>1. /\ query' = q /\ up' = up /\ drops' = drops /\ toTacky' = toTacky /\ toUi' = toUi
      /\ UNCHANGED <<chat, matched, hits, cursor, complete, searched, failed, remoteAvailable>>
  BY DEF Q!setQuery, Q!wire
<1> QED BY <1>1 DEF SearchInv, Q!SearchTypeOK, Q!WireTypeOK, Q!OneQuestion, Q!Answers, Q!searching,
                    Q!Waits, Q!HasLive, WireTimely, AllTimely, Timely, Shown

\* The frames that a send leaves are timely if what is sent is.
LEMMA SearchTimely ==
    ASSUME SearchInv, NEW fs \in Seq(SearchAsks), Q!send(toUi, Q!cancel, fs),
           \A i, j \in 1..Len(fs) : IsCall(fs[i]) /\ IsCall(fs[j]) => i = j,
           \A i \in 1..Len(fs) : fs[i].kind # "caps" /\ Timely(fs[i], chat', matched', cursor', hits'),
           chat' = chat
    PROVE  /\ Q!WireTypeOK' /\ toTacky' \in Seq(SearchAsks) /\ toUi' \in Seq(SearchSays)
           /\ AtMostOne(toTacky', toUi', "search")
           /\ Q!searching' <=> ~NoneAwaited(fs, "search")
           /\ WireTimely'
<1> DEFINE K == {"search"}
<1>1. "search" \in K /\ Q!send(toUi, K, fs)
  BY DEF Q!cancel
<1> HIDE DEF K
<1>2. /\ Q!WireTypeOK' /\ toTacky' \in Seq(SearchAsks) /\ toUi' \in Seq(SearchSays)
      /\ AtMostOne(toTacky', toUi', "search")
      /\ Q!searching' <=> ~NoneAwaited(fs, "search")
      /\ \A i \in 1..Len(toTacky') : toTacky'[i].live =>
           \/ \E j \in 1..Len(fs) : toTacky'[i] = fs[j]
           \/ \E j \in 1..Len(toTacky) : toTacky'[i] = toTacky[j] /\ toTacky[j].kind \notin K
      /\ \A i \in 1..Len(toUi') : toUi'[i].live =>
           \/ \E j \in 1..Len(fs) : toUi'[i] = Unsent(fs[j]) /\ fs[j].live
           \/ \E j \in 1..Len(toUi) : toUi'[i] = toUi[j] /\ toUi[j].kind \notin K
  BY <1>1, SearchSends
<1>3. \A i \in 1..Len(fs) : fs[i] \in Frames(SearchBodies)
  BY SearchFrames
<1>4. AllTimely(toTacky', chat', matched', cursor', hits')
  <2> SUFFICES ASSUME NEW i \in 1..Len(toTacky'), toTacky'[i].live PROVE Timely(toTacky'[i], chat', matched', cursor', hits')
    BY DEF AllTimely, Timely, Awaited
  <2>1. CASE \E j \in 1..Len(fs) : toTacky'[i] = fs[j]
    BY <2>1
  <2>2. CASE \E j \in 1..Len(toTacky) : toTacky'[i] = toTacky[j] /\ toTacky[j].kind \notin K
    <3>1. PICK j \in 1..Len(toTacky) : toTacky'[i] = toTacky[j] /\ toTacky[j].kind \notin K
      BY <2>2
    <3>2. Timely(toTacky[j], chat, matched, cursor, hits) /\ toTacky[j].kind # "search"
      BY <1>1, <3>1 DEF SearchInv, WireTimely, AllTimely
    <3> QED BY <3>1, <3>2 DEF Timely, Awaited
  <2> QED BY <1>2, <2>1, <2>2
<1>5. AllTimely(toUi', chat', matched', cursor', hits')
  <2> SUFFICES ASSUME NEW i \in 1..Len(toUi'), toUi'[i].live PROVE Timely(toUi'[i], chat', matched', cursor', hits')
    BY DEF AllTimely, Timely, Awaited
  <2>1. CASE \E j \in 1..Len(fs) : toUi'[i] = Unsent(fs[j]) /\ fs[j].live
    <3>1. PICK j \in 1..Len(fs) : toUi'[i] = Unsent(fs[j]) /\ fs[j].live
      BY <2>1
    <3>2. /\ toUi'[i].kind = fs[j].kind /\ toUi'[i].body = fs[j].body /\ toUi'[i].live = fs[j].live
      BY <1>3, <3>1, UnsentIs
    <3>3. Timely(fs[j], chat', matched', cursor', hits') /\ fs[j].kind # "caps"
      OBVIOUS
    <3>4. toUi'[i].kind # "caps"
      BY <3>2, <3>3
    <3> QED BY <3>2, <3>3, <3>4 DEF Timely, Awaited
  <2>2. CASE \E j \in 1..Len(toUi) : toUi'[i] = toUi[j] /\ toUi[j].kind \notin K
    <3>1. PICK j \in 1..Len(toUi) : toUi'[i] = toUi[j] /\ toUi[j].kind \notin K
      BY <2>2
    <3>2. Timely(toUi[j], chat, matched, cursor, hits) /\ toUi[j].kind # "search"
      BY <1>1, <3>1 DEF SearchInv, WireTimely, AllTimely
    <3> QED BY <3>1, <3>2 DEF Timely, Awaited
  <2> QED BY <1>2, <2>1, <2>2
<1> QED BY <1>2, <1>4, <1>5 DEF WireTimely

LEMMA SearchKeeps == SearchInv /\ Q!search => SearchInv'
<1> SUFFICES ASSUME SearchInv, Q!search PROVE SearchInv'
  OBVIOUS
<1> DEFINE b == Q!Bare("cancel")
           g == Q!issue(query, 1)
           fs == <<b, g>>
<1>1. /\ query # NoQuery /\ Q!send(toUi, Q!cancel, fs)
      /\ matched' = query /\ searched' = TRUE /\ cursor' = 0 /\ complete' = FALSE /\ failed' = FALSE
      /\ UNCHANGED <<chat, query, hits, remoteAvailable>>
  BY DEF Q!search, Q!forgetPage
<1>2. Q!SearchTypeOK /\ Q!OneQuestion /\ query \in Queries /\ 1 \in 1..Pages /\ 0 \in 0..Pages
  BY <1>1, ChatsAssumption DEF SearchInv, Q!SearchTypeOK
<1>3. /\ fs \in Seq(SearchAsks) /\ Len(fs) = 2 /\ ~IsCall(fs[1]) /\ fs[1].kind = "cancel"
      /\ IsCall(fs[2]) /\ Awaited(fs[2], "search")
      /\ fs[2].body.chat = chat /\ fs[2].body.query = query /\ fs[2].body.page = 1
  <2>1. /\ g \in SearchAsks /\ IsCall(g) /\ g.kind = "search" /\ g.live
        /\ g.body.chat = chat /\ g.body.query = query /\ g.body.page = 1
        /\ b \in SearchAsks /\ b.kind = "cancel" /\ ~IsCall(b)
    BY <1>2, SearchMade
  <2> HIDE DEF g, b
  <2>2. fs \in Seq(SearchAsks) /\ Len(fs) = 2 /\ fs[1] = b /\ fs[2] = g
    BY <2>1
  <2> QED BY <2>1, <2>2 DEF Awaited
<1> HIDE DEF fs, b, g
<1>4. /\ \A i, j \in 1..Len(fs) : IsCall(fs[i]) /\ IsCall(fs[j]) => i = j
      /\ \A i \in 1..Len(fs) : fs[i].kind # "caps" /\ Timely(fs[i], chat', matched', cursor', hits')
      /\ ~NoneAwaited(fs, "search")
  <2>1. \A i \in 1..Len(fs) : i = 1 \/ i = 2
    BY <1>3
  <2>2. 2 \in 1..Len(fs)
    BY <1>3
  <2>3. Timely(fs[1], chat', matched', cursor', hits') /\ Timely(fs[2], chat', matched', cursor', hits')
    BY <1>1, <1>3 DEF WireTimely, AllTimely, Timely, Awaited
  <2> QED BY <1>3, <2>1, <2>2, <2>3 DEF NoneAwaited, Awaited
<1>5. /\ Q!WireTypeOK' /\ toTacky' \in Seq(SearchAsks) /\ toUi' \in Seq(SearchSays)
      /\ AtMostOne(toTacky', toUi', "search") /\ Q!searching'
      /\ WireTimely'
  BY <1>1, <1>3, <1>4, SearchTimely
<1>6. Q!SearchTypeOK'
  BY <1>1, <1>2, <1>5 DEF Q!SearchTypeOK
<1>7. Q!OneQuestion'
  BY <1>1, <1>2, <1>5 DEF Q!OneQuestion, Q!Answers
<1> QED BY <1>1, <1>5, <1>6, <1>7 DEF SearchInv

LEMMA LoadMoreKeeps == SearchInv /\ Q!loadMore => SearchInv'
<1> SUFFICES ASSUME SearchInv, Q!loadMore PROVE SearchInv'
  OBVIOUS
<1> DEFINE g == Q!issue(matched, cursor)
           fs == <<g>>
<1>1. /\ ~Q!searching /\ cursor # 0 /\ matched # NoQuery /\ Q!send(toUi, Q!cancel, fs)
      /\ UNCHANGED <<chat, query, matched, hits, cursor, complete, searched, failed, remoteAvailable>>
  BY DEF Q!loadMore, Q!searchVars
<1>2. /\ Q!SearchTypeOK /\ Q!OneQuestion /\ matched \in Queries /\ cursor \in 1..Pages /\ cursor > 1
      /\ Q!Answers(matched)
  <2>1. Q!SearchTypeOK /\ Q!OneQuestion /\ cursor # 1
    BY DEF SearchInv
  <2>2. cursor \in 0..Pages /\ matched \in Queries \cup {NoQuery}
    BY <2>1 DEF Q!SearchTypeOK
  <2>3. cursor \in 1..Pages /\ cursor > 1
    BY <1>1, <2>1, <2>2, ChatsAssumption
  <2> QED BY <1>1, <2>1, <2>2, <2>3 DEF Q!OneQuestion
<1>3. /\ g \in SearchAsks /\ IsCall(g) /\ g.kind = "search" /\ g.live
      /\ g.body.chat = chat /\ g.body.query = matched /\ g.body.page = cursor
  BY <1>2, SearchMade
<1> HIDE DEF g
<1>4. fs \in Seq(SearchAsks) /\ Len(fs) = 1 /\ fs[1] = g
  BY <1>3
<1> HIDE DEF fs
<1>5. Timely(g, chat', matched', cursor', hits')
  <2>1. Shown(hits', chat', matched')
    BY <1>1, <1>2 DEF Q!Answers, Shown
  <2> QED BY <1>1, <1>2, <1>3, <2>1 DEF Timely, Awaited
<1>6. /\ \A i, j \in 1..Len(fs) : IsCall(fs[i]) /\ IsCall(fs[j]) => i = j
      /\ \A i \in 1..Len(fs) : fs[i].kind # "caps" /\ Timely(fs[i], chat', matched', cursor', hits')
      /\ ~NoneAwaited(fs, "search")
  <2>1. \A i \in 1..Len(fs) : i = 1
    BY <1>4
  <2>2. 1 \in 1..Len(fs)
    BY <1>4
  <2> QED BY <1>3, <1>4, <1>5, <2>1, <2>2 DEF NoneAwaited, Awaited
<1>7. /\ Q!WireTypeOK' /\ toTacky' \in Seq(SearchAsks) /\ toUi' \in Seq(SearchSays)
      /\ AtMostOne(toTacky', toUi', "search") /\ Q!searching'
      /\ WireTimely'
  BY <1>1, <1>4, <1>6, SearchTimely
<1>8. Q!SearchTypeOK' /\ Q!OneQuestion'
  BY <1>1, <1>2, <1>7 DEF Q!SearchTypeOK, Q!OneQuestion, Q!Answers
<1> QED BY <1>1, <1>7, <1>8 DEF SearchInv

LEMMA ClearKeeps == SearchInv /\ Q!clear => SearchInv'
<1> SUFFICES ASSUME SearchInv, Q!clear PROVE SearchInv'
  OBVIOUS
<1> DEFINE g == Q!Bare("cancel")
           fs == <<g>>
<1>1. /\ Q!send(toUi, Q!cancel, fs) /\ hits' = <<>> /\ matched' = NoQuery /\ cursor' = 0
      /\ complete' = FALSE /\ failed' = FALSE /\ searched' = FALSE
      /\ UNCHANGED <<chat, query, remoteAvailable>>
  BY DEF Q!clear, Q!forgetPage
<1>2. Q!SearchTypeOK /\ Q!OneQuestion
  BY DEF SearchInv
<1>3. g \in SearchAsks /\ ~IsCall(g) /\ g.kind = "cancel"
  BY <1>2, SearchMade
<1> HIDE DEF g
<1>4. fs \in Seq(SearchAsks) /\ Len(fs) = 1 /\ fs[1] = g
  BY <1>3
<1> HIDE DEF fs
<1>5. /\ \A i, j \in 1..Len(fs) : IsCall(fs[i]) /\ IsCall(fs[j]) => i = j
      /\ \A i \in 1..Len(fs) : fs[i].kind # "caps" /\ Timely(fs[i], chat', matched', cursor', hits')
  <2>1. \A i \in 1..Len(fs) : i = 1
    BY <1>4
  <2> QED BY <1>3, <1>4, <2>1 DEF WireTimely, AllTimely, Timely, Awaited
<1>6. /\ Q!WireTypeOK' /\ toTacky' \in Seq(SearchAsks) /\ toUi' \in Seq(SearchSays)
      /\ AtMostOne(toTacky', toUi', "search")
      /\ WireTimely'
  BY <1>1, <1>4, <1>5, SearchTimely
<1>7. Q!OneQuestion' /\ Q!SearchTypeOK'
  <2>1. \A i \in DOMAIN hits' : FALSE
    BY <1>1
  <2>2. \A q : Q!Answers(q)'
    BY <2>1 DEF Q!Answers
  <2>3. Q!OneQuestion'
    BY <1>1, <1>2, <2>2, ChatsAssumption DEF Q!OneQuestion
  <2>4. Len(hits') <= Pages /\ 0 \in 0..Pages
    BY <1>1, ChatsAssumption
  <2> QED BY <1>1, <1>2, <1>6, <2>3, <2>4 DEF Q!SearchTypeOK
<1> QED BY <1>1, <1>6, <1>7 DEF SearchInv

\* What a search's UI taking a frame does to the wire.
LEMMA SearchTakes ==
    ASSUME SearchInv, toUi # <<>>, Q!Took, UNCHANGED <<chat, matched>>
    PROVE  /\ Head(toUi) \in SearchSays /\ Timely(Head(toUi), chat, matched, cursor, hits)
           /\ Q!WireTypeOK' /\ toTacky' \in Seq(SearchAsks) /\ toUi' \in Seq(SearchSays)
           /\ AtMostOne(toTacky', toUi', "search")
           /\ Awaited(Head(toUi), "search") =>
                /\ ~Q!searching' /\ Q!searching
                /\ WireTimely'
           /\ ~Awaited(Head(toUi), "search") =>
                /\ Q!searching' <=> Q!searching
                /\ UNCHANGED <<cursor, hits>> => WireTimely'
<1>1. /\ toTacky \in Seq(SearchAsks) /\ toUi \in Seq(SearchSays) /\ Q!WireTypeOK /\ Took
      /\ toTacky \in Seq(Frames(SearchBodies)) /\ toUi \in Seq(Frames(SearchBodies))
      /\ AtMostOne(toTacky, toUi, "search")
      /\ WireTimely
  BY SearchWire, SearchFrames DEF SearchInv, Q!SearchTypeOK
<1>2. up' = up /\ drops' = drops /\ toTacky' = toTacky /\ toUi' = Tail(toUi)
  BY <1>1, TookIs
<1>3. /\ toUi' \in Seq(SearchSays) /\ Head(toUi) \in SearchSays /\ Head(toUi) = toUi[1]
      /\ 1 \in 1..Len(toUi)
      /\ \A i \in 1..Len(toUi') : i + 1 \in 1..Len(toUi) /\ toUi'[i] = toUi[i + 1]
  BY <1>1, <1>2, Taken
<1>4. Q!WireTypeOK'
  BY <1>1, <1>2, <1>3, SearchFrames DEF Q!WireTypeOK
<1>5. /\ AtMostOne(toTacky', toUi', "search")
      /\ Awaited(Head(toUi), "search") =>
           NoneAwaited(toTacky', "search") /\ NoneAwaited(toUi', "search")
      /\ ~Awaited(Head(toUi), "search") =>
           (NoneAwaited(toUi, "search") <=> NoneAwaited(toUi', "search"))
  BY <1>1, <1>2, TakenOut
<1>6. Q!searching <=> ~(NoneAwaited(toTacky, "search") /\ NoneAwaited(toUi, "search"))
  BY SearchHolds
<1>7. Q!searching' <=> ~(NoneAwaited(toTacky', "search") /\ NoneAwaited(toUi', "search"))
  <2>1. DOMAIN toTacky' = 1..Len(toTacky') /\ DOMAIN toUi' = 1..Len(toUi')
    BY <1>1, <1>2, <1>3
  <2> QED BY <2>1 DEF Q!searching, Q!Waits, Q!HasLive, NoneAwaited, Awaited
<1>8. ASSUME Awaited(Head(toUi), "search")
      PROVE  /\ ~Q!searching' /\ Q!searching
             /\ WireTimely'
  <2>1. ~Q!searching'
    BY <1>5, <1>7, <1>8
  <2>2. Q!searching
    BY <1>3, <1>6, <1>8 DEF NoneAwaited
  <2>3. WireTimely'
    BY <1>1, <1>2, <1>3, <1>5, <1>8 DEF WireTimely, AllTimely, Timely, NoneAwaited
  <2> QED BY <2>1, <2>2, <2>3
<1>9. ASSUME ~Awaited(Head(toUi), "search")
      PROVE  /\ Q!searching' <=> Q!searching
             /\ UNCHANGED <<cursor, hits>> => WireTimely'
  <2>1. Q!searching' <=> Q!searching
    BY <1>2, <1>5, <1>6, <1>7, <1>9
  <2>2. UNCHANGED <<cursor, hits>> => WireTimely'
    BY <1>1, <1>2, <1>3 DEF WireTimely, AllTimely, Timely, Q!Answers, Shown
  <2> QED BY <2>1, <2>2
<1>10. Timely(Head(toUi), chat, matched, cursor, hits)
  BY <1>1, <1>3 DEF WireTimely, AllTimely
<1>11. toTacky' \in Seq(SearchAsks)
  BY <1>1, <1>2
<1> QED BY <1>3, <1>4, <1>5, <1>8, <1>9, <1>10, <1>11

\* A page that is found goes behind the others, or in their place.
LEMMA PageShown ==
    ASSUME SearchInv, NEW r \in PagesFound, r.chat = chat, r.query = matched, matched # NoQuery,
           \/ r.page = 1 /\ cursor = 0
           \/ r.page = cursor /\ cursor > 1 /\ Q!Answers(matched),
           Q!applyResult(r), UNCHANGED <<chat, query, matched>>
    PROVE  /\ Q!Answers(matched)' /\ Len(hits') <= Pages /\ cursor' \in 0..Pages /\ cursor' # 1
           /\ cursor' # 0 => cursor' = Len(hits') + 1
           /\ hits' \in Seq([chat : Chats, query : Queries, page : Nat])
<1> DEFINE H == [chat : Chats, query : Queries, page : Nat]
           h == [chat |-> r.chat, query |-> r.query, page |-> r.page]
           a == IF r.page = 1 THEN <<>> ELSE hits
           b == IF r.found THEN <<h>> ELSE <<>>
<1>1. /\ r.page \in 1..Pages /\ r.next \in 0..Pages /\ r.found \in BOOLEAN
      /\ r.next # 0 => r.found /\ r.next = r.page + 1
      /\ r.chat \in Chats /\ r.query \in Queries
  BY DEF PagesFound
<1>2. hits' = a \o b /\ cursor' = r.next
  BY DEF Q!applyResult
<1>3. /\ hits \in Seq(H) /\ Len(hits) \in Nat /\ Q!OneQuestion /\ cursor # 1 /\ cursor \in 0..Pages
      /\ Pages \in Nat
  BY ChatsAssumption DEF SearchInv, Q!SearchTypeOK
<1>4. a \in Seq(H) /\ Len(a) = r.page - 1
  <2>1. CASE r.page = 1
    BY <2>1
  <2>2. CASE r.page # 1
    BY <1>3, <2>2 DEF Q!OneQuestion
  <2> QED BY <2>1, <2>2
<1>5. \A i \in 1..Len(a) : a[i] = [chat |-> chat, query |-> matched, page |-> i]
  <2>1. CASE r.page = 1
    BY <2>1
  <2>2. CASE r.page # 1
    BY <1>3, <2>2 DEF Q!Answers
  <2> QED BY <2>1, <2>2
<1>6. h \in H /\ h = [chat |-> chat, query |-> matched, page |-> r.page]
  BY <1>1
<1>7. (b = <<h>> /\ r.found) \/ (b = <<>> /\ ~r.found)
  BY <1>1
<1> HIDE DEF a, b, h
<1>8. CASE r.found
  <2>1. b = <<h>>
    BY <1>7, <1>8
  <2>2. b \in Seq(H) /\ Len(b) = 1 /\ b[1] = h
    BY <1>6, <2>1
  <2> HIDE DEF H
  <2>3. /\ a \o b \in Seq(H) /\ Len(a \o b) = Len(a) + Len(b)
        /\ \A i \in 1..Len(a \o b) : \/ i \in 1..Len(a) /\ (a \o b)[i] = a[i]
                                     \/ i - Len(a) \in 1..Len(b) /\ (a \o b)[i] = b[i - Len(a)]
    BY <1>4, <2>2, Pieces
  <2>5. /\ hits' \in Seq(H) /\ Len(hits') = r.page /\ DOMAIN hits' = 1..Len(hits')
        /\ \A i \in 1..Len(hits') : (i \in 1..Len(a) /\ hits'[i] = a[i]) \/ (i = r.page /\ hits'[i] = h)
    BY <1>1, <1>2, <1>4, <2>2, <2>3
  <2>6. \A i \in 1..Len(hits') : hits'[i] = [chat |-> chat, query |-> matched, page |-> i]
    BY <1>5, <1>6, <2>5
  <2>4. Q!Answers(matched)'
    BY <2>5, <2>6 DEF Q!Answers
  <2> QED BY <1>1, <1>2, <1>3, <2>4, <2>5 DEF H
<1>9. CASE ~r.found
  <2>1. b = <<>>
    BY <1>7, <1>9
  <2>2. hits' = a
    BY <1>2, <1>4, <2>1
  <2>5. DOMAIN hits' = 1..Len(a)
    BY <1>4, <2>2
  <2>3. Q!Answers(matched)'
    BY <1>5, <2>2, <2>5 DEF Q!Answers
  <2>4. cursor' = 0
    BY <1>1, <1>2, <1>9
  <2> QED BY <1>1, <1>3, <1>4, <2>2, <2>3, <2>4
<1> QED BY <1>1, <1>8, <1>9

\* A page that did not come leaves what it was extending, or nothing.
LEMMA PageFailed ==
    ASSUME SearchInv, NEW f, Timely(f, chat, matched, cursor, hits), Awaited(f, "search"), Q!applyFailure(f.body.page > 1),
           UNCHANGED <<chat, query, matched>>
    PROVE  /\ Q!Answers(matched)' /\ Len(hits') <= Pages /\ cursor' \in 0..Pages /\ cursor' # 1
           /\ cursor' # 0 => cursor' = Len(hits') + 1
           /\ hits' \in Seq([chat : Chats, query : Queries, page : Nat])
           /\ matched \in Queries
<1>1. /\ Q!SearchTypeOK /\ Q!OneQuestion /\ cursor # 1 /\ cursor' = cursor
      /\ hits \in Seq([chat : Chats, query : Queries, page : Nat])
      /\ hits' = (IF f.body.page > 1 THEN hits ELSE <<>>)
  BY DEF SearchInv, Q!applyFailure
<1>2. /\ matched # NoQuery /\ matched \in Queries
      /\ \/ f.body.page = 1 /\ cursor = 0
         \/ f.body.page = cursor /\ cursor > 1 /\ Q!Answers(matched)
  BY <1>1 DEF Timely, Q!Answers, Shown, Q!SearchTypeOK
<1>3. CASE f.body.page = 1 /\ cursor = 0
  <2>1. hits' = <<>> /\ Len(hits') = 0
    BY <1>1, <1>3
  <2>2. \A i \in DOMAIN hits' : FALSE
    BY <2>1
  <2> QED BY <1>1, <1>2, <1>3, <2>1, <2>2, ChatsAssumption DEF Q!Answers, Q!SearchTypeOK
<1>4. CASE f.body.page = cursor /\ cursor > 1 /\ Q!Answers(matched)
  <2>1. hits' = hits
    BY <1>1, <1>4
  <2> QED BY <1>1, <1>2, <1>4, <2>1 DEF Q!Answers, Q!SearchTypeOK, Q!OneQuestion
<1> QED BY <1>2, <1>3, <1>4

LEMMA SearchAnsweredKeeps == SearchInv /\ Q!SearchAnswered => SearchInv'
<1> SUFFICES ASSUME SearchInv, Q!SearchAnswered PROVE SearchInv'
  OBVIOUS
<1> DEFINE f == Head(toUi)
<1>1. /\ toUi # <<>> /\ f.kind = "search" /\ Q!Took
      /\ UNCHANGED <<chat, query, matched, searched, remoteAvailable>>
      /\ IF ~f.live THEN UNCHANGED <<hits, cursor, complete, failed>>
         ELSE IF f.is \in {"error", "unsent"} THEN Q!applyFailure(f.body.page > 1)
         ELSE Q!applyResult(f.body)
  BY DEF Q!SearchAnswered, Q!Arrives, Q!Given, Q!Fails
<1>2. Q!SearchTypeOK /\ Q!OneQuestion /\ hits \in Seq([chat : Chats, query : Queries, page : Nat])
      /\ cursor # 1
  BY DEF SearchInv
<1>3. /\ f \in SearchSays /\ Timely(f, chat, matched, cursor, hits)
      /\ Q!WireTypeOK' /\ toTacky' \in Seq(SearchAsks) /\ toUi' \in Seq(SearchSays)
      /\ AtMostOne(toTacky', toUi', "search")
      /\ Awaited(f, "search") =>
           /\ ~Q!searching' /\ Q!searching
           /\ WireTimely'
      /\ ~Awaited(f, "search") =>
           /\ Q!searching' <=> Q!searching
           /\ UNCHANGED <<cursor, hits>> => WireTimely'
  BY <1>1, SearchTakes
<1> HIDE DEF f
<1>4. CASE ~f.live
  <2>1. /\ Q!searching' <=> Q!searching
        /\ WireTimely'
    BY <1>1, <1>3, <1>4 DEF Awaited
  <2>2. Q!SearchTypeOK' /\ Q!OneQuestion'
    BY <1>1, <1>2, <1>3, <1>4, <2>1 DEF Q!SearchTypeOK, Q!OneQuestion, Q!Answers
  <2> QED BY <1>1, <1>2, <1>3, <1>4, <2>1, <2>2 DEF SearchInv
<1>5. CASE f.live
  <2>1. /\ Awaited(f, "search") /\ ~Q!searching'
        /\ WireTimely'
    BY <1>1, <1>3, <1>5 DEF Awaited
  <2>2. /\ Q!Answers(matched)' /\ Len(hits') <= Pages /\ cursor' \in 0..Pages /\ cursor' # 1
        /\ cursor' # 0 => cursor' = Len(hits') + 1
        /\ hits' \in Seq([chat : Chats, query : Queries, page : Nat])
        /\ complete' \in BOOLEAN /\ failed' \in BOOLEAN /\ matched \in Queries
    <3>1. CASE f.is \in {"error", "unsent"}
      <4>1. Q!applyFailure(f.body.page > 1)
        BY <1>1, <1>5, <3>1
      <4> QED BY <1>1, <1>3, <2>1, <4>1, PageFailed DEF Q!applyFailure
    <3>2. CASE f.is \notin {"error", "unsent"}
      <4>1. Q!applyResult(f.body)
        BY <1>1, <1>5, <3>2
      <4>2. f.body \in PagesFound
        BY <1>1, <1>3, <3>2 DEF SearchSays
      <4>3. /\ f.body.chat = chat /\ f.body.query = matched /\ matched # NoQuery
            /\ \/ f.body.page = 1 /\ cursor = 0
               \/ f.body.page = cursor /\ cursor > 1 /\ Q!Answers(matched)
        BY <1>3, <2>1 DEF Timely, Q!Answers, Shown
      <4>4. complete' \in BOOLEAN /\ failed' \in BOOLEAN /\ matched \in Queries
        BY <1>2, <4>1, <4>3 DEF Q!applyResult, Q!SearchTypeOK
      <4> QED BY <1>1, <4>1, <4>2, <4>3, <4>4, PageShown
    <3> QED BY <3>1, <3>2
  <2>3. Q!OneQuestion'
    BY <1>1, <1>2, <2>2 DEF Q!OneQuestion
  <2>4. Q!SearchTypeOK'
    BY <1>1, <1>2, <1>3, <2>2 DEF Q!SearchTypeOK
  <2> QED BY <1>3, <2>1, <2>2, <2>3, <2>4 DEF SearchInv
<1> QED BY <1>4, <1>5

LEMMA CapsAnsweredKeeps == SearchInv /\ Q!CapsAnswered => SearchInv'
<1> SUFFICES ASSUME SearchInv, Q!CapsAnswered PROVE SearchInv'
  OBVIOUS
<1> DEFINE f == Head(toUi)
<1>1. /\ toUi # <<>> /\ f.kind = "caps" /\ Q!Took
      /\ UNCHANGED <<chat, query, matched, hits, cursor, complete, searched, failed>>
      /\ remoteAvailable' = IF f.live /\ f.is \notin {"error", "unsent"} THEN f.body
                            ELSE remoteAvailable
  BY DEF Q!CapsAnswered, Q!Arrives, Q!Given, Q!Fails
<1>2. Q!SearchTypeOK /\ Q!OneQuestion
  BY DEF SearchInv
<1>3. ~Awaited(f, "search")
  BY <1>1 DEF Awaited
<1>4. /\ f \in SearchSays /\ Timely(f, chat, matched, cursor, hits)
      /\ Q!WireTypeOK' /\ toTacky' \in Seq(SearchAsks) /\ toUi' \in Seq(SearchSays)
      /\ AtMostOne(toTacky', toUi', "search")
      /\ Q!searching' <=> Q!searching
      /\ WireTimely'
  BY <1>1, <1>3, SearchTakes
<1> HIDE DEF f
<1>5. remoteAvailable' \in BOOLEAN /\ (remoteAvailable' => chat \in Archives)
  <2>1. CASE f.live /\ f.is \notin {"error", "unsent"}
    <3>1. f.is = "result" /\ f.body \in BOOLEAN
      BY <1>1, <1>4, <2>1 DEF SearchSays
    <3>2. f.body => chat \in Archives
      BY <1>1, <1>4, <2>1, <3>1 DEF WireTimely, AllTimely, Timely, Awaited
    <3> QED BY <1>1, <2>1, <3>1, <3>2
  <2>2. CASE ~(f.live /\ f.is \notin {"error", "unsent"})
    <3>1. remoteAvailable' = remoteAvailable
      BY <1>1, <2>2
    <3> QED BY <1>2, <3>1 DEF Q!SearchTypeOK, Q!OneQuestion
  <2> QED BY <2>1, <2>2
<1>6. Q!SearchTypeOK' /\ Q!OneQuestion'
  BY <1>1, <1>2, <1>4, <1>5 DEF Q!SearchTypeOK, Q!OneQuestion, Q!Answers
<1> QED BY <1>1, <1>4, <1>6 DEF SearchInv

LEMMA SearchDropKeeps == SearchInv /\ Q!SearchDrop => SearchInv'
<1> SUFFICES ASSUME SearchInv, Q!SearchDrop PROVE SearchInv'
  OBVIOUS
<1>1. /\ up' = FALSE /\ drops' = drops + 1 /\ drops < MaxDrop /\ toTacky' = <<>> /\ toUi' = <<>>
      /\ UNCHANGED <<chat, query, matched, searched, remoteAvailable>>
  BY DEF Q!SearchDrop, Q!Lost
<1>2. /\ Q!SearchTypeOK /\ Q!OneQuestion /\ cursor # 1
      /\ hits \in Seq([chat : Chats, query : Queries, page : Nat])
      /\ toTacky \in Seq(SearchAsks) /\ toUi \in Seq(SearchSays)
  BY DEF SearchInv
<1>3. /\ \A k : NoneAwaited(toTacky', k) /\ NoneAwaited(toUi', k)
      /\ AtMostOne(toTacky', toUi', "search")
      /\ toTacky' \in Seq(SearchAsks) /\ toUi' \in Seq(SearchSays)
      /\ WireTimely'
  <2>1. \A i \in 1..Len(<<>>) : FALSE
    OBVIOUS
  <2>2. \A k : NoneAwaited(<<>>, k) /\ OneAwaited(<<>>, k)
    BY <2>1 DEF NoneAwaited, OneAwaited
  <2>3. WireTimely'
    BY <1>1, <2>1 DEF WireTimely, AllTimely
  <2>4. toTacky' \in Seq(SearchAsks) /\ toUi' \in Seq(SearchSays)
    BY <1>1
  <2> QED BY <1>1, <2>2, <2>3, <2>4 DEF AtMostOne
<1>4. ~Q!searching'
  <2>1. DOMAIN toTacky' = {} /\ DOMAIN toUi' = {}
    BY <1>1
  <2> QED BY <2>1 DEF Q!searching, Q!Waits, Q!HasLive
<1>5. Q!WireTypeOK'
  <2>1. up' \in BOOLEAN /\ drops' \in 0..MaxDrop
    <3>1. drops \in 0..MaxDrop /\ MaxDrop \in Nat
      BY <1>2, ChatsAssumption DEF Q!WireTypeOK, Q!SearchTypeOK
    <3>2. drops' \in 0..MaxDrop
      BY <1>1, <3>1
    <3> QED BY <1>1, <3>2
  <2>2. DOMAIN toTacky' = {} /\ DOMAIN toUi' = {}
    BY <1>1
  <2> QED BY <1>1, <2>1, <2>2 DEF Q!WireTypeOK
<1>6. CASE Q!searching
  <2> DEFINE q == IF Q!HasLive(toUi, "search") THEN toUi ELSE toTacky
             i == CHOOSE j \in DOMAIN q : q[j].kind = "search" /\ q[j].live
             f == q[i]
  <2>1. Q!applyFailure(f.body.page > 1)
    BY <1>6 DEF Q!SearchDrop
  <2>2. \E j \in DOMAIN q : q[j].kind = "search" /\ q[j].live
    BY <1>6 DEF Q!searching, Q!Waits, Q!HasLive
  <2>3. i \in DOMAIN q /\ Awaited(f, "search")
    BY <2>2 DEF Awaited
  <2>4. \A j \in DOMAIN q : Timely(q[j], chat, matched, cursor, hits)
    <3>1. DOMAIN toTacky = 1..Len(toTacky) /\ DOMAIN toUi = 1..Len(toUi)
      BY <1>2
    <3>2. \A j \in DOMAIN toTacky : Timely(toTacky[j], chat, matched, cursor, hits)
      BY <3>1 DEF SearchInv, WireTimely, AllTimely
    <3>3. \A j \in DOMAIN toUi : Timely(toUi[j], chat, matched, cursor, hits)
      BY <3>1 DEF SearchInv, WireTimely, AllTimely
    <3> QED BY <3>2, <3>3
  <2>5. Timely(f, chat, matched, cursor, hits)
    BY <2>3, <2>4
  <2> HIDE DEF f
  <2>6. /\ Q!Answers(matched)' /\ Len(hits') <= Pages /\ cursor' \in 0..Pages /\ cursor' # 1
        /\ cursor' # 0 => cursor' = Len(hits') + 1
        /\ hits' \in Seq([chat : Chats, query : Queries, page : Nat])
        /\ matched \in Queries
    BY <1>1, <2>1, <2>3, <2>5, PageFailed
  <2>7. complete' \in BOOLEAN /\ failed' \in BOOLEAN
    BY <2>1 DEF Q!applyFailure
  <2>8. Q!SearchTypeOK' /\ Q!OneQuestion'
    BY <1>1, <1>2, <1>5, <2>6, <2>7 DEF Q!SearchTypeOK, Q!OneQuestion
  <2> QED BY <1>3, <2>6, <2>8 DEF SearchInv
<1>7. CASE ~Q!searching
  <2>1. UNCHANGED <<hits, cursor, complete, failed>>
    BY <1>7 DEF Q!SearchDrop
  <2>2. Q!SearchTypeOK' /\ Q!OneQuestion'
    BY <1>1, <1>2, <1>5, <1>7, <2>1 DEF Q!SearchTypeOK, Q!OneQuestion, Q!Answers
  <2> QED BY <1>2, <1>3, <2>1, <2>2 DEF SearchInv
<1> QED BY <1>6, <1>7

LEMMA SearchAttachKeeps == SearchInv /\ Q!SearchAttach => SearchInv'
<1> SUFFICES ASSUME SearchInv, Q!SearchAttach PROVE SearchInv'
  OBVIOUS
<1>1. /\ ~up /\ up' = TRUE /\ drops' = drops /\ toTacky' = <<>> /\ toUi' = Stale(toUi, {})
      /\ UNCHANGED <<chat, query, matched, hits, cursor, complete, searched, failed, remoteAvailable>>
  BY DEF Q!SearchAttach, Q!Comes, Q!searchVars, Q!Stale, Stale
<1>2. toTacky = <<>> /\ toUi \in Seq(SearchSays)
  BY <1>1 DEF SearchInv, Q!SearchTypeOK, Q!WireTypeOK
<1>3. toTacky' = toTacky /\ toUi' = toUi
  BY <1>1, <1>2, StaleNone
<1> QED BY <1>1, <1>3 DEF SearchInv, Q!SearchTypeOK, Q!WireTypeOK, Q!OneQuestion, Q!Answers,
                    Q!searching, Q!Waits, Q!HasLive, WireTimely, AllTimely, Timely, Shown

\* tacky answering a search's frame with another of its kind, or with nothing.
LEMMA SearchAnswerKeeps ==
    ASSUME SearchInv, toTacky # <<>>, NEW g \in SearchSays, Timely(g, chat, matched, cursor, hits),
           g.kind = Head(toTacky).kind, g.live = Head(toTacky).live,
           toTacky' = Tail(toTacky), toUi' = toUi \o <<g>>, up' = up, drops' = drops,
           UNCHANGED <<chat, query, matched, hits, cursor, complete, searched, failed, remoteAvailable>>
    PROVE  SearchInv'
<1>1. /\ toTacky \in Seq(SearchAsks) /\ toUi \in Seq(SearchSays) /\ Q!SearchTypeOK /\ Q!OneQuestion
      /\ AtMostOne(toTacky, toUi, "search") /\ Q!WireTypeOK
  BY DEF SearchInv, Q!SearchTypeOK
<1>2. /\ toTacky' \in Seq(SearchAsks) /\ up
      /\ \A i \in 1..Len(toTacky') : i + 1 \in 1..Len(toTacky) /\ toTacky'[i] = toTacky[i + 1]
  BY <1>1, Taken DEF Q!WireTypeOK
<1>3. <<g>> \in Seq(SearchSays) /\ Len(<<g>>) = 1 /\ <<g>>[1] = g
  OBVIOUS
<1>4. /\ toUi' \in Seq(SearchSays)
      /\ \A i \in 1..Len(toUi') : (i \in 1..Len(toUi) /\ toUi'[i] = toUi[i]) \/ toUi'[i] = g
  BY <1>1, <1>3, Joined
<1>5. Awaited(g, "search") <=> Awaited(Head(toTacky), "search")
  BY DEF Awaited
<1>6. /\ AtMostOne(toTacky', toUi', "search")
      /\ NoneAwaited(toTacky, "search") /\ NoneAwaited(toUi, "search")
           <=> NoneAwaited(toTacky', "search") /\ NoneAwaited(toUi', "search")
  BY <1>1, <1>5, AnsweredOut
<1>7. Q!searching' <=> Q!searching
  <2>1. Q!searching' <=> ~(NoneAwaited(toTacky', "search") /\ NoneAwaited(toUi', "search"))
    <3>1. DOMAIN toTacky' = 1..Len(toTacky') /\ DOMAIN toUi' = 1..Len(toUi')
      BY <1>2, <1>4
    <3> QED BY <3>1 DEF Q!searching, Q!Waits, Q!HasLive, NoneAwaited, Awaited
  <2>2. Q!searching <=> ~(NoneAwaited(toTacky, "search") /\ NoneAwaited(toUi, "search"))
    BY SearchHolds
  <2> QED BY <1>6, <2>1, <2>2
<1>8. WireTimely'
  <2>1. WireTimely
    BY DEF SearchInv
  <2>2. AllTimely(toTacky', chat, matched, cursor, hits)
    BY <1>2, <2>1 DEF WireTimely, AllTimely
  <2>3. AllTimely(toUi', chat, matched, cursor, hits)
    BY <1>4, <2>1 DEF WireTimely, AllTimely
  <2> QED BY <2>2, <2>3 DEF WireTimely
<1>9. Q!WireTypeOK'
  BY <1>1, <1>2, <1>4, SearchFrames DEF Q!WireTypeOK
<1>10. Q!SearchTypeOK' /\ Q!OneQuestion'
  BY <1>1, <1>7, <1>9 DEF Q!SearchTypeOK, Q!OneQuestion, Q!Answers
<1> QED BY <1>2, <1>4, <1>6, <1>8, <1>10 DEF SearchInv

LEMMA SearchTackyKeeps == SearchInv /\ Q!SearchTacky => SearchInv'
<1> SUFFICES ASSUME SearchInv, Q!SearchTacky PROVE SearchInv'
  OBVIOUS
<1> DEFINE f == Head(toTacky)
<1>1. /\ toTacky # <<>> /\ toTacky' = Tail(toTacky) /\ up' = up /\ drops' = drops
      /\ UNCHANGED <<chat, query, matched, hits, cursor, complete, searched, failed, remoteAvailable>>
  BY DEF Q!SearchTacky, Q!TackySearches, Q!TackyForgets, Q!TackyTellsCaps, Q!Takes, Q!Says,
         Q!searchVars
<1>2. /\ toTacky \in Seq(SearchAsks) /\ toUi \in Seq(SearchSays) /\ Q!SearchTypeOK /\ Q!OneQuestion
      /\ AtMostOne(toTacky, toUi, "search") /\ Q!WireTypeOK
  BY DEF SearchInv, Q!SearchTypeOK
<1>3. f \in SearchAsks /\ f \in Frames(SearchBodies) /\ f.is # "result" /\ Timely(f, chat, matched, cursor, hits)
  <2>1. f \in SearchAsks /\ f = toTacky[1] /\ 1 \in 1..Len(toTacky)
    BY <1>1, <1>2, Taken
  <2>2. Timely(f, chat, matched, cursor, hits)
    BY <2>1 DEF SearchInv, WireTimely, AllTimely
  <2>3. f \in Frames(SearchBodies) /\ f.is # "result"
    BY <2>1 DEF SearchAsks
  <2> QED BY <2>1, <2>2, <2>3
<1>4. \A b \in SearchBodies :
         LET g == [f EXCEPT !.is = "result", !.body = b]
         IN  /\ g \in Frames(SearchBodies) /\ g.kind = f.kind /\ g.live = f.live
             /\ g.is = "result" /\ g.body = b
  BY <1>3 DEF Frames
<1>5. LET g == [f EXCEPT !.is = "error"]
      IN  /\ g \in Frames(SearchBodies) /\ g.kind = f.kind /\ g.live = f.live
          /\ g.is = "error" /\ g.body = f.body
  BY <1>3 DEF Frames
<1> DEFINE e == [f EXCEPT !.is = "error"]
<1>6. toUi' = toUi \o <<e>> => SearchInv'
  <2>2. /\ e \in Frames(SearchBodies) /\ e.kind = f.kind /\ e.live = f.live
        /\ e.is = "error" /\ e.body = f.body
    BY <1>5
  <2> HIDE DEF e, f
  <2>3. e \in SearchSays
    BY <1>3, <2>2 DEF SearchAsks, SearchSays
  <2>4. Timely(e, chat, matched, cursor, hits)
    BY <1>3, <2>2 DEF Timely, Awaited
  <2>1. e \in SearchSays /\ Timely(e, chat, matched, cursor, hits) /\ e.kind = f.kind /\ e.live = f.live
    BY <2>2, <2>3, <2>4
  <2> USE DEF f
  <2> QED BY <1>1, <2>1, SearchAnswerKeeps
<1>7. CASE Q!TackySearches
  <2>1. f.kind = "search" /\ f.body \in PagesAsked
    BY <1>3, <1>7 DEF Q!TackySearches, Q!Takes, SearchAsks
  <2>2. CASE toUi' = toUi \o <<e>>
    BY <1>6, <2>2
  <2>3. CASE toUi' # toUi \o <<e>>
    <3>1. PICK found \in BOOLEAN, next \in {0, f.body.page + 1} :
            /\ next <= Pages /\ (next # 0 => found)
            /\ toUi' = toUi \o <<[f EXCEPT !.is = "result",
                                   !.body = [chat |-> f.body.chat, query |-> f.body.query,
                                             page |-> f.body.page, found |-> found, next |-> next]]>>
      BY <1>7, <2>3 DEF Q!TackySearches, Q!Says, Q!Result, Q!Refusal, Q!Asked
    <3> DEFINE b == [chat |-> f.body.chat, query |-> f.body.query, page |-> f.body.page,
                     found |-> found, next |-> next]
               g == [f EXCEPT !.is = "result", !.body = b]
    <3>2. b \in PagesFound
      <4>1. next \in 0..Pages
        BY <2>1, <3>1, ChatsAssumption DEF PagesAsked
      <4> QED BY <2>1, <3>1, <4>1 DEF PagesFound, PagesAsked
    <3>3. b.chat = f.body.chat /\ b.query = f.body.query /\ b.page = f.body.page
      OBVIOUS
    <3> HIDE DEF b
    <3>4. b \in SearchBodies
      BY <3>2 DEF SearchBodies
    <3>5. /\ g \in Frames(SearchBodies) /\ g.kind = f.kind /\ g.live = f.live
          /\ g.is = "result" /\ g.body = b
      BY <1>4, <3>4
    <3>6. toUi' = toUi \o <<g>>
      BY <3>1 DEF b
    <3> HIDE DEF g
    <3>7. g \in SearchSays
      BY <2>1, <3>2, <3>5 DEF SearchSays
    <3>8. Timely(g, chat, matched, cursor, hits)
      BY <1>3, <2>1, <3>3, <3>5 DEF WireTimely, AllTimely, Timely, Awaited
    <3> QED BY <1>1, <3>5, <3>6, <3>7, <3>8, SearchAnswerKeeps
  <2> QED BY <2>2, <2>3
<1>8. CASE Q!TackyTellsCaps
  <2>1. f.kind = "caps" /\ f.body \in Chats
    BY <1>3, <1>8 DEF Q!TackyTellsCaps, Q!Takes, SearchAsks
  <2>2. CASE toUi' = toUi \o <<e>>
    BY <1>6, <2>2
  <2>3. CASE toUi' # toUi \o <<e>>
    <3> DEFINE b == f.body \in Archives
               g == [f EXCEPT !.is = "result", !.body = b]
    <3>1. toUi' = toUi \o <<g>>
      BY <1>8, <2>3 DEF Q!TackyTellsCaps, Q!Says, Q!Result, Q!Refusal, Q!Asked
    <3>2. b \in BOOLEAN /\ b \in SearchBodies /\ (b => f.body \in Archives)
      BY DEF SearchBodies
    <3> HIDE DEF b
    <3>3. /\ g \in Frames(SearchBodies) /\ g.kind = f.kind /\ g.live = f.live
          /\ g.is = "result" /\ g.body = b
      BY <1>4, <3>2
    <3> HIDE DEF g
    <3>4. g \in SearchSays
      BY <2>1, <3>2, <3>3 DEF SearchSays
    <3>5. Timely(g, chat, matched, cursor, hits)
      BY <1>3, <2>1, <3>2, <3>3 DEF WireTimely, AllTimely, Timely, Awaited
    <3> QED BY <1>1, <3>1, <3>3, <3>4, <3>5, SearchAnswerKeeps
  <2> QED BY <2>2, <2>3
<1>9. CASE Q!TackyForgets
  <2>1. f.kind = "cancel" /\ toUi' = toUi \o <<>>
    BY <1>9 DEF Q!TackyForgets, Q!Takes, Q!Says
  <2>2. toUi' = toUi
    BY <1>2, <2>1
  <2>3. /\ toTacky' \in Seq(SearchAsks) /\ up
        /\ \A i \in 1..Len(toTacky') : i + 1 \in 1..Len(toTacky) /\ toTacky'[i] = toTacky[i + 1]
    BY <1>1, <1>2, Taken DEF Q!WireTypeOK
  <2>4. AtMostOne(toUi, toTacky, "search") /\ ~Awaited(f, "search")
    BY <1>2, <2>1 DEF AtMostOne, Awaited
  <2>5. /\ AtMostOne(toUi, toTacky', "search")
        /\ NoneAwaited(toTacky, "search") <=> NoneAwaited(toTacky', "search")
    BY <1>1, <1>2, <2>4, TakenOut
  <2>6. AtMostOne(toTacky', toUi', "search")
    BY <2>2, <2>5 DEF AtMostOne
  <2>7. Q!searching' <=> Q!searching
    <3>1. DOMAIN toTacky' = 1..Len(toTacky') /\ DOMAIN toUi' = 1..Len(toUi')
      BY <1>2, <2>2, <2>3
    <3>2. Q!searching' <=> ~(NoneAwaited(toTacky', "search") /\ NoneAwaited(toUi', "search"))
      BY <3>1 DEF Q!searching, Q!Waits, Q!HasLive, NoneAwaited, Awaited
    <3>3. Q!searching <=> ~(NoneAwaited(toTacky, "search") /\ NoneAwaited(toUi, "search"))
      BY SearchHolds
    <3> QED BY <2>2, <2>5, <3>2, <3>3
  <2>8. WireTimely'
    <3>1. WireTimely
      BY DEF SearchInv
    <3>2. AllTimely(toTacky', chat, matched, cursor, hits)
      BY <2>3, <3>1 DEF WireTimely, AllTimely
    <3> QED BY <1>1, <2>2, <3>1, <3>2 DEF WireTimely
  <2>9. Q!WireTypeOK'
    BY <1>1, <1>2, <2>2, <2>3, SearchFrames DEF Q!WireTypeOK
  <2>10. Q!SearchTypeOK' /\ Q!OneQuestion'
    BY <1>1, <1>2, <2>7, <2>9 DEF Q!SearchTypeOK, Q!OneQuestion, Q!Answers
  <2> QED BY <1>1, <1>2, <2>2, <2>3, <2>6, <2>8, <2>10 DEF SearchInv
<1> QED BY <1>7, <1>8, <1>9 DEF Q!SearchTacky

LEMMA SearchStarts == Q!SearchInit => SearchInv
<1> SUFFICES ASSUME Q!SearchInit PROVE SearchInv
  OBVIOUS
<1>1. /\ up \in BOOLEAN /\ toTacky = <<>> /\ toUi = <<>> /\ drops = 0
      /\ chat \in Chats /\ query = NoQuery /\ matched = NoQuery /\ hits = <<>> /\ cursor = 0
      /\ complete = FALSE /\ searched = FALSE /\ failed = FALSE /\ remoteAvailable = FALSE
  BY DEF Q!SearchInit, Q!WireInit
<1>2. 0 \in 0..MaxDrop /\ 0 \in 0..Pages /\ Len(hits) <= Pages
  BY <1>1, ChatsAssumption
<1>3. DOMAIN toTacky = {} /\ DOMAIN toUi = {} /\ DOMAIN hits = {}
  BY <1>1
<1>4. Q!SearchTypeOK
  BY <1>1, <1>2, <1>3 DEF Q!SearchTypeOK, Q!WireTypeOK
<1>5. Q!OneQuestion
  BY <1>1, <1>3, ChatsAssumption DEF Q!OneQuestion, Q!Answers
<1>6. /\ toTacky \in Seq(SearchAsks) /\ toUi \in Seq(SearchSays)
      /\ hits \in Seq([chat : Chats, query : Queries, page : Nat])
      /\ WireTimely
  <2>1. \A i \in 1..Len(<<>>) : FALSE
    OBVIOUS
  <2>2. WireTimely
    BY <1>1, <2>1 DEF WireTimely, AllTimely
  <2> QED BY <1>1, <2>2
<1>7. AtMostOne(toTacky, toUi, "search")
  BY <1>1, AwaitedFew DEF AtMostOne
<1> QED BY <1>1, <1>4, <1>5, <1>6, <1>7 DEF SearchInv

LEMMA SearchStep == SearchInv /\ Q!SearchNext => SearchInv'
BY SetChatKeeps, SetQueryKeeps, SearchKeeps, LoadMoreKeeps, ClearKeeps, SearchAnsweredKeeps,
   CapsAnsweredKeeps, SearchAttachKeeps, SearchTackyKeeps, SearchDropKeeps
   DEF Q!SearchNext, Q!SearchUser, Q!SearchUi

-----------------------------------------------------------------------------
(* RoomFinder.                                                              *)

LEMMA FinderWire ==
    /\ \A in, K, fs : F!send(in, K, fs) <=> send(in, K, fs)
    /\ F!Took <=> Took
<1>1. \A in, K, fs : F!send(in, K, fs) <=> send(in, K, fs)
  <2>1. \A q, K : F!Stale(q, K) = Stale(q, K)
    BY DEF F!Stale, Stale
  <2>2. \A q, fs : F!Post(q, fs) = Post(q, fs)
    BY DEF F!Post, Post
  <2>3. \A fs : F!Requested(fs) = Requested(fs)
    BY Zenon DEF F!Requested, F!IsCall, F!Cardinality, Requested, IsCall, Cardinality
  <2>4. \A f : F!Unsent(f) = Unsent(f)
    BY DEF F!Unsent, Unsent
  <2> QED BY <2>1, <2>2, <2>3, <2>4 DEF F!send, send
<1>2. F!Took <=> Took
  BY <1>1 DEF F!Took, F!Rest, Took, Rest
<1> QED BY <1>1, <1>2

FinderBodies == {Nil, NoOne} \cup Accts \cup (Accts \X Services)
FinderAsks ==
    {f \in Frames(FinderBodies) :
        /\ f.kind \in {"rooms", "nick"} /\ f.is = "asked"
        /\ f.body \in IF f.kind = "rooms" THEN Accts \X Services ELSE Accts}
FinderSays ==
    {f \in Frames(FinderBodies) :
        /\ f.kind \in {"rooms", "nick"} /\ f.is \in {"result", "error", "unsent"}
        /\ f.body \in IF f.kind = "rooms" THEN Accts \X Services ELSE Accts \cup {NoOne}}

\* The rooms that are waited for are those asked for last; the nick, that of the
\* account the sheet was opened under, which is still the one shown.
Current(f, a, k, o) ==
    /\ Awaited(f, "rooms") => f.body = k /\ k # <<>>
    /\ Awaited(f, "nick") => a = o /\ f.body \in {a, NoOne}
AllCurrent(q, a, k, o) == \A i \in 1..Len(q) : Current(q[i], a, k, o)
WireCurrent ==
    AllCurrent(toTacky, acct, asked, openedFor) /\ AllCurrent(toUi, acct, asked, openedFor)

\* What was asked is out, answered or failed.
OneStanding(l, d, e, k) ==
    IF k = <<>> THEN ~l /\ ~d /\ ~e
    ELSE \/ l /\ ~d /\ ~e
         \/ ~l /\ d /\ ~e
         \/ ~l /\ ~d /\ e

FinderShown ==
    /\ listed # <<>> => loaded /\ listed = asked
    /\ asked # <<>> => asked[1] = acct
    /\ nick \in {acct, NoOne}
    /\ sheet => nickField \in {openedFor, NoOne, Typed}

FinderInv ==
    /\ F!FinderTypeOK /\ FinderShown /\ WireCurrent
    /\ toTacky \in Seq(FinderAsks) /\ toUi \in Seq(FinderSays)
    /\ AtMostOne(toTacky, toUi, "rooms")
    /\ OneStanding(F!loading, loaded, error, asked)

LEMMA FinderFrames ==
    /\ FinderAsks \subseteq Frames(FinderBodies) /\ FinderSays \subseteq Frames(FinderBodies)
    /\ \A f \in FinderAsks : [f EXCEPT !.live = FALSE] \in FinderAsks
    /\ \A f \in FinderSays : [f EXCEPT !.live = FALSE] \in FinderSays
    /\ \A f \in FinderAsks : IsCall(f) => Unsent(f) \in FinderSays
    /\ \A f \in FinderAsks : f.live => IsCall(f)
    /\ \A q \in Seq(FinderAsks) : \A i \in DOMAIN q : F!FrameOK(q[i])
    /\ \A q \in Seq(FinderSays) : \A i \in DOMAIN q : F!FrameOK(q[i])
<1>1. \A f \in FinderAsks \cup FinderSays : f \in Frames(FinderBodies)
  BY DEF FinderAsks, FinderSays
<1>2. \A f \in Frames(FinderBodies) :
         /\ [f EXCEPT !.live = FALSE] \in Frames(FinderBodies)
         /\ [f EXCEPT !.live = FALSE].kind = f.kind /\ [f EXCEPT !.live = FALSE].is = f.is
         /\ [f EXCEPT !.live = FALSE].body = f.body /\ [f EXCEPT !.live = FALSE].live = FALSE
         /\ Unsent(f) \in Frames(FinderBodies) /\ Unsent(f).kind = f.kind /\ Unsent(f).is = "unsent"
         /\ Unsent(f).body = f.body
  BY DEF Frames, Unsent
<1>3. \A f \in FinderAsks : [f EXCEPT !.live = FALSE] \in FinderAsks
  BY <1>1, <1>2 DEF FinderAsks
<1>4. \A f \in FinderSays : [f EXCEPT !.live = FALSE] \in FinderSays
  BY <1>1, <1>2 DEF FinderSays
<1>5. \A f \in FinderAsks : IsCall(f) => Unsent(f) \in FinderSays
  BY <1>1, <1>2 DEF FinderAsks, FinderSays
<1>6. \A f \in FinderAsks : f.live => IsCall(f)
  BY DEF FinderAsks, IsCall
<1>7. \A f \in Frames(FinderBodies) : F!FrameOK(f)
  BY FramesOK DEF FrameOK, F!FrameOK
<1> QED BY <1>1, <1>3, <1>4, <1>5, <1>6, <1>7

LEMMA FinderLoading ==
    ASSUME toTacky \in Seq(FinderAsks), toUi \in Seq(FinderSays)
    PROVE  F!loading <=> ~(NoneAwaited(toTacky, "rooms") /\ NoneAwaited(toUi, "rooms"))
<1>1. DOMAIN toTacky = 1..Len(toTacky) /\ DOMAIN toUi = 1..Len(toUi)
  OBVIOUS
<1> QED BY <1>1 DEF F!loading, F!Waits, F!HasLive, NoneAwaited, Awaited

\* What a finder's sends do to the wire.
LEMMA FinderSends ==
    ASSUME FinderInv, NEW K, "rooms" \in K, NEW fs \in Seq(FinderAsks), Len(fs) <= 1,
           F!send(toUi, K, fs),
           \A i \in 1..Len(fs) : Current(fs[i], acct', asked', openedFor'),
           "nick" \in K \/ UNCHANGED <<acct, openedFor>>
    PROVE  /\ F!WireTypeOK' /\ toTacky' \in Seq(FinderAsks) /\ toUi' \in Seq(FinderSays)
           /\ AtMostOne(toTacky', toUi', "rooms") /\ WireCurrent'
           /\ F!loading' <=> ~NoneAwaited(fs, "rooms")
<1>1. /\ toTacky \in Seq(FinderAsks) /\ toUi \in Seq(FinderSays) /\ F!WireTypeOK
      /\ send(toUi, K, fs) /\ WireCurrent
  BY FinderWire DEF FinderInv, F!FinderTypeOK
<1>2. ~up => toTacky = <<>>
  BY <1>1 DEF F!WireTypeOK
<1>3. \A i, j \in 1..Len(fs) : i = j
  OBVIOUS
<1>4. \A i \in 1..Len(fs) : fs[i] \in FinderAsks /\ fs[i] \in Frames(FinderBodies)
  BY FinderFrames
<1>5. OneAwaited(fs, "rooms") /\ \A i, j \in 1..Len(fs) : IsCall(fs[i]) /\ IsCall(fs[j]) => i = j
  BY <1>3 DEF OneAwaited
<1>6. /\ up' = up /\ drops' = drops /\ toTacky' \in Seq(FinderAsks) /\ toUi' \in Seq(FinderSays)
      /\ ~up' => toTacky' = <<>>
      /\ \A i \in 1..Len(toTacky') : toTacky'[i].live =>
           \/ \E j \in 1..Len(fs) : toTacky'[i] = fs[j]
           \/ \E j \in 1..Len(toTacky) : toTacky'[i] = toTacky[j] /\ toTacky[j].kind \notin K
      /\ \A i \in 1..Len(toUi') : toUi'[i].live =>
           \/ \E j \in 1..Len(fs) : toUi'[i] = Unsent(fs[j]) /\ fs[j].live
           \/ \E j \in 1..Len(toUi) : toUi'[i] = toUi[j] /\ toUi[j].kind \notin K
      /\ \A k \in K : OneAwaited(fs, k) => AtMostOne(toTacky', toUi', k)
      /\ \A k \in K : NoneAwaited(toTacky', k) /\ NoneAwaited(toUi', k) <=> NoneAwaited(fs, k)
  BY <1>1, <1>2, <1>5, FinderFrames, SendsOut
<1>7. F!WireTypeOK'
  BY <1>1, <1>6, FinderFrames DEF F!WireTypeOK
<1>8. F!loading' <=> ~(NoneAwaited(toTacky', "rooms") /\ NoneAwaited(toUi', "rooms"))
  <2>1. DOMAIN toTacky' = 1..Len(toTacky') /\ DOMAIN toUi' = 1..Len(toUi')
    BY <1>6
  <2> QED BY <2>1 DEF F!loading, F!Waits, F!HasLive, NoneAwaited, Awaited
<1>9. AllCurrent(toTacky', acct', asked', openedFor')
  <2> SUFFICES ASSUME NEW i \in 1..Len(toTacky'), toTacky'[i].live
               PROVE  Current(toTacky'[i], acct', asked', openedFor')
    BY DEF AllCurrent, Current, Awaited
  <2>1. CASE \E j \in 1..Len(fs) : toTacky'[i] = fs[j]
    BY <2>1
  <2>2. CASE \E j \in 1..Len(toTacky) : toTacky'[i] = toTacky[j] /\ toTacky[j].kind \notin K
    <3>1. PICK j \in 1..Len(toTacky) : toTacky'[i] = toTacky[j] /\ toTacky[j].kind \notin K
      BY <2>2
    <3>2. Current(toTacky[j], acct, asked, openedFor) /\ toTacky[j].kind # "rooms"
      BY <1>1, <3>1 DEF WireCurrent, AllCurrent
    <3> QED BY <3>1, <3>2 DEF Current, Awaited
  <2> QED BY <1>6, <2>1, <2>2
<1>10. AllCurrent(toUi', acct', asked', openedFor')
  <2> SUFFICES ASSUME NEW i \in 1..Len(toUi'), toUi'[i].live
               PROVE  Current(toUi'[i], acct', asked', openedFor')
    BY DEF AllCurrent, Current, Awaited
  <2>1. CASE \E j \in 1..Len(fs) : toUi'[i] = Unsent(fs[j]) /\ fs[j].live
    <3>1. PICK j \in 1..Len(fs) : toUi'[i] = Unsent(fs[j]) /\ fs[j].live
      BY <2>1
    <3>2. /\ toUi'[i].kind = fs[j].kind /\ toUi'[i].body = fs[j].body /\ toUi'[i].live = fs[j].live
      BY <1>4, <3>1, UnsentIs
    <3>3. Current(fs[j], acct', asked', openedFor')
      OBVIOUS
    <3> QED BY <3>2, <3>3 DEF Current, Awaited
  <2>2. CASE \E j \in 1..Len(toUi) : toUi'[i] = toUi[j] /\ toUi[j].kind \notin K
    <3>1. PICK j \in 1..Len(toUi) : toUi'[i] = toUi[j] /\ toUi[j].kind \notin K
      BY <2>2
    <3>2. Current(toUi[j], acct, asked, openedFor) /\ toUi[j].kind # "rooms"
      BY <1>1, <3>1 DEF WireCurrent, AllCurrent
    <3> QED BY <3>1, <3>2 DEF Current, Awaited
  <2> QED BY <1>6, <2>1, <2>2
<1> QED BY <1>5, <1>6, <1>7, <1>8, <1>9, <1>10 DEF WireCurrent

LEMMA SetAccountKeeps == FinderInv /\ (\E a \in Accts : F!setAccount(a)) => FinderInv'
<1> SUFFICES ASSUME FinderInv, NEW a \in Accts, F!setAccount(a) PROVE FinderInv'
  OBVIOUS
<1> DEFINE K == {"rooms", "nick"}
<1>1. /\ acct' = a /\ asked' = <<>> /\ listed' = <<>> /\ loaded' = FALSE /\ error' = FALSE
      /\ nick' = NoOne /\ nickField' \in {NoOne, nickField} /\ (nickField' = NoOne \/ nickField' = nickField)
      /\ F!send(toUi, K, <<>>) /\ UNCHANGED <<sheet, openedFor>>
  BY DEF F!setAccount, F!clear, F!setDefaultNick
<1>2. F!FinderTypeOK /\ FinderShown
  BY DEF FinderInv
<1>3. <<>> \in Seq(FinderAsks) /\ Len(<<>>) <= 1 /\ (\A i \in 1..Len(<<>>) : FALSE)
  OBVIOUS
<1>4. "rooms" \in K /\ "nick" \in K
  OBVIOUS
<1> HIDE DEF K
<1>5. /\ F!WireTypeOK' /\ toTacky' \in Seq(FinderAsks) /\ toUi' \in Seq(FinderSays)
      /\ AtMostOne(toTacky', toUi', "rooms") /\ WireCurrent'
      /\ F!loading' <=> ~NoneAwaited(<<>>, "rooms")
  BY <1>1, <1>3, <1>4, FinderSends
<1>6. ~F!loading'
  BY <1>3, <1>5 DEF NoneAwaited
<1>7. OneStanding(F!loading', loaded', error', asked')
  BY <1>1, <1>6 DEF OneStanding
<1>8. F!FinderTypeOK'
  BY <1>1, <1>2, <1>5 DEF F!FinderTypeOK, F!Questions
<1>9. FinderShown'
  BY <1>1, <1>2 DEF FinderShown
<1> QED BY <1>5, <1>7, <1>8, <1>9 DEF FinderInv

LEMMA OpenKeeps == FinderInv /\ F!open => FinderInv'
<1> SUFFICES ASSUME FinderInv, F!open PROVE FinderInv'
  OBVIOUS
<1> DEFINE K == {"rooms", "nick"}
           g == F!Call("nick", acct)
           fs == <<g>>
<1>1. /\ sheet' = TRUE /\ openedFor' = acct /\ nickField' = nick /\ UNCHANGED <<acct, nick>>
      /\ asked' = <<>> /\ listed' = <<>> /\ loaded' = FALSE /\ error' = FALSE
      /\ F!send(toUi, K, fs)
  BY DEF F!open, F!clear
<1>2. F!FinderTypeOK /\ FinderShown /\ acct \in Accts
  BY DEF FinderInv, F!FinderTypeOK
<1>3. g \in FinderAsks /\ g.kind = "nick" /\ g.body = acct
  BY <1>2 DEF F!Call, FinderAsks, FinderBodies, Frames, Kinds
<1> HIDE DEF g
<1>4. fs \in Seq(FinderAsks) /\ Len(fs) = 1 /\ fs[1] = g
  BY <1>3
<1>5. "rooms" \in K /\ "nick" \in K
  OBVIOUS
<1> HIDE DEF K, fs
<1>6. /\ \A i \in 1..Len(fs) : Current(fs[i], acct', asked', openedFor')
      /\ NoneAwaited(fs, "rooms")
  <2>1. \A i \in 1..Len(fs) : fs[i] = g
    BY <1>4
  <2> QED BY <1>1, <1>3, <2>1 DEF Current, Awaited, NoneAwaited
<1>7. /\ F!WireTypeOK' /\ toTacky' \in Seq(FinderAsks) /\ toUi' \in Seq(FinderSays)
      /\ AtMostOne(toTacky', toUi', "rooms") /\ WireCurrent' /\ ~F!loading'
  <2>1. Len(fs) <= 1
    BY <1>4
  <2> QED BY <1>1, <1>4, <1>5, <1>6, <2>1, FinderSends
<1>8. OneStanding(F!loading', loaded', error', asked')
  BY <1>1, <1>7 DEF OneStanding
<1>9. F!FinderTypeOK'
  BY <1>1, <1>2, <1>7 DEF F!FinderTypeOK, F!Questions
<1>10. FinderShown'
  BY <1>1, <1>2 DEF FinderShown
<1> QED BY <1>7, <1>8, <1>9, <1>10 DEF FinderInv

LEMMA DiscoverKeeps == FinderInv /\ (\E s \in Services : F!discover(s)) => FinderInv'
<1> SUFFICES ASSUME FinderInv, NEW s \in Services, F!discover(s) PROVE FinderInv'
  OBVIOUS
<1> DEFINE K == {"rooms"}
           b == <<acct, s>>
           g == F!Call("rooms", b)
           fs == <<g>>
<1>1. /\ asked' = b /\ listed' = <<>> /\ loaded' = FALSE /\ error' = FALSE
      /\ F!send(toUi, K, fs) /\ UNCHANGED <<acct, sheet, nick, nickField, openedFor>>
  BY DEF F!discover
<1>2. F!FinderTypeOK /\ FinderShown /\ acct \in Accts
  BY DEF FinderInv, F!FinderTypeOK
<1>3. b \in Accts \X Services /\ b # <<>> /\ b[1] = acct
  <2>1. Len(b) = 2 /\ Len(<<>>) = 0
    OBVIOUS
  <2> QED BY <1>2, <2>1
<1> HIDE DEF b
<1>4. g \in FinderAsks /\ g.kind = "rooms" /\ g.body = b /\ g.live
  BY <1>3 DEF F!Call, FinderAsks, FinderBodies, Frames, Kinds
<1> HIDE DEF g
<1>5. fs \in Seq(FinderAsks) /\ Len(fs) = 1 /\ fs[1] = g /\ 1 \in 1..Len(fs)
  BY <1>4
<1>6. "rooms" \in K
  OBVIOUS
<1> HIDE DEF K, fs
<1>7. /\ \A i \in 1..Len(fs) : Current(fs[i], acct', asked', openedFor')
      /\ ~NoneAwaited(fs, "rooms")
  <2>1. \A i \in 1..Len(fs) : fs[i] = g
    BY <1>5
  <2> QED BY <1>1, <1>3, <1>4, <1>5, <2>1 DEF Current, Awaited, NoneAwaited
<1>8. /\ F!WireTypeOK' /\ toTacky' \in Seq(FinderAsks) /\ toUi' \in Seq(FinderSays)
      /\ AtMostOne(toTacky', toUi', "rooms") /\ WireCurrent' /\ F!loading'
  <2>1. Len(fs) <= 1 /\ F!send(toUi, K, fs) /\ UNCHANGED <<acct, openedFor>>
    BY <1>1, <1>5
  <2> QED BY <1>5, <1>6, <1>7, <2>1, FinderSends
<1>9. OneStanding(F!loading', loaded', error', asked')
  BY <1>1, <1>3, <1>8 DEF OneStanding
<1>10. F!FinderTypeOK'
  BY <1>1, <1>2, <1>3, <1>8 DEF F!FinderTypeOK, F!Questions
<1>11. FinderShown'
  BY <1>1, <1>2, <1>3 DEF FinderShown
<1> QED BY <1>8, <1>9, <1>10, <1>11 DEF FinderInv

LEMMA SheetKeeps == FinderInv /\ (F!close \/ F!typeNick) => FinderInv'
<1> SUFFICES ASSUME FinderInv, F!close \/ F!typeNick PROVE FinderInv'
  OBVIOUS
<1>1. /\ up' = up /\ drops' = drops /\ toTacky' = toTacky /\ toUi' = toUi
      /\ UNCHANGED <<acct, asked, listed, loaded, error, nick, openedFor>>
  BY DEF F!close, F!typeNick, F!wire
<1>2. sheet' \in BOOLEAN /\ nickField' \in {nickField, Typed, NoOne} /\ (sheet' => sheet)
  BY DEF F!close, F!typeNick
<1>3. F!FinderTypeOK /\ FinderShown
  BY DEF FinderInv
<1>4. F!FinderTypeOK'
  BY <1>1, <1>2, <1>3 DEF F!FinderTypeOK, F!WireTypeOK, F!Questions
<1>5. FinderShown'
  BY <1>1, <1>2, <1>3 DEF FinderShown
<1>6. F!loading' <=> F!loading
  BY <1>1 DEF F!loading, F!Waits, F!HasLive
<1> QED BY <1>1, <1>4, <1>5, <1>6 DEF FinderInv, WireCurrent, OneStanding

\* What a finder taking a frame does to the wire.
LEMMA FinderTakes ==
    ASSUME FinderInv, toUi # <<>>, F!Took, UNCHANGED <<acct, asked, openedFor>>
    PROVE  /\ Head(toUi) \in FinderSays /\ Current(Head(toUi), acct, asked, openedFor)
           /\ F!WireTypeOK' /\ toTacky' \in Seq(FinderAsks) /\ toUi' \in Seq(FinderSays)
           /\ AtMostOne(toTacky', toUi', "rooms") /\ WireCurrent'
           /\ Awaited(Head(toUi), "rooms") => F!loading /\ ~F!loading'
           /\ ~Awaited(Head(toUi), "rooms") => (F!loading' <=> F!loading)
<1>1. /\ toTacky \in Seq(FinderAsks) /\ toUi \in Seq(FinderSays) /\ F!WireTypeOK /\ Took
      /\ AtMostOne(toTacky, toUi, "rooms") /\ WireCurrent
  BY FinderWire DEF FinderInv, F!FinderTypeOK
<1>2. toTacky \in Seq(Frames(FinderBodies)) /\ toUi \in Seq(Frames(FinderBodies))
  BY <1>1, FinderFrames
<1>3. up' = up /\ drops' = drops /\ toTacky' = toTacky /\ toUi' = Tail(toUi)
  BY <1>1, <1>2, TookIs
<1>4. /\ toUi' \in Seq(FinderSays) /\ Head(toUi) \in FinderSays /\ Head(toUi) = toUi[1]
      /\ 1 \in 1..Len(toUi)
      /\ \A i \in 1..Len(toUi') : i + 1 \in 1..Len(toUi) /\ toUi'[i] = toUi[i + 1]
  BY <1>1, <1>3, Taken
<1>5. F!WireTypeOK'
  BY <1>1, <1>3, <1>4, FinderFrames DEF F!WireTypeOK
<1>6. /\ AtMostOne(toTacky', toUi', "rooms")
      /\ Awaited(Head(toUi), "rooms") =>
           NoneAwaited(toTacky', "rooms") /\ NoneAwaited(toUi', "rooms")
      /\ ~Awaited(Head(toUi), "rooms") =>
           (NoneAwaited(toUi, "rooms") <=> NoneAwaited(toUi', "rooms"))
  BY <1>1, <1>3, TakenOut
<1>7. F!loading <=> ~(NoneAwaited(toTacky, "rooms") /\ NoneAwaited(toUi, "rooms"))
  BY <1>1, FinderLoading
<1>8. F!loading' <=> ~(NoneAwaited(toTacky', "rooms") /\ NoneAwaited(toUi', "rooms"))
  <2>1. DOMAIN toTacky' = 1..Len(toTacky') /\ DOMAIN toUi' = 1..Len(toUi')
    BY <1>1, <1>3, <1>4
  <2> QED BY <2>1 DEF F!loading, F!Waits, F!HasLive, NoneAwaited, Awaited
<1>9. Awaited(Head(toUi), "rooms") => F!loading /\ ~F!loading'
  BY <1>4, <1>6, <1>7, <1>8 DEF NoneAwaited
<1>10. ~Awaited(Head(toUi), "rooms") => (F!loading' <=> F!loading)
  BY <1>3, <1>6, <1>7, <1>8
<1>11. Current(Head(toUi), acct, asked, openedFor)
  BY <1>1, <1>4 DEF WireCurrent, AllCurrent
<1>12. WireCurrent'
  <2>1. AllCurrent(toTacky', acct', asked', openedFor')
    BY <1>1, <1>3 DEF WireCurrent, AllCurrent
  <2>2. AllCurrent(toUi', acct', asked', openedFor')
    BY <1>1, <1>4 DEF WireCurrent, AllCurrent
  <2> QED BY <2>1, <2>2 DEF WireCurrent
<1>13. toTacky' \in Seq(FinderAsks)
  BY <1>1, <1>3
<1> QED BY <1>4, <1>5, <1>6, <1>9, <1>10, <1>11, <1>12, <1>13

LEMMA RoomsAnsweredKeeps == FinderInv /\ F!RoomsAnswered => FinderInv'
<1> SUFFICES ASSUME FinderInv, F!RoomsAnswered PROVE FinderInv'
  OBVIOUS
<1> DEFINE f == Head(toUi)
<1>1. /\ toUi # <<>> /\ f.kind = "rooms" /\ F!Took
      /\ UNCHANGED <<acct, sheet, asked, nick, nickField, openedFor>>
      /\ IF ~f.live THEN UNCHANGED <<listed, loaded, error>>
         ELSE IF f.is \in {"error", "unsent"} THEN error' = TRUE /\ UNCHANGED <<listed, loaded>>
         ELSE listed' = f.body /\ loaded' = TRUE /\ UNCHANGED error
  BY DEF F!RoomsAnswered, F!Arrives, F!Given, F!Fails
<1>2. F!FinderTypeOK /\ FinderShown /\ OneStanding(F!loading, loaded, error, asked)
  BY DEF FinderInv
<1>3. /\ f \in FinderSays /\ Current(f, acct, asked, openedFor)
      /\ F!WireTypeOK' /\ toTacky' \in Seq(FinderAsks) /\ toUi' \in Seq(FinderSays)
      /\ AtMostOne(toTacky', toUi', "rooms") /\ WireCurrent'
      /\ Awaited(f, "rooms") => F!loading /\ ~F!loading'
      /\ ~Awaited(f, "rooms") => (F!loading' <=> F!loading)
  BY <1>1, FinderTakes
<1> HIDE DEF f
<1>4. /\ OneStanding(F!loading', loaded', error', asked')
      /\ loaded' \in BOOLEAN /\ error' \in BOOLEAN /\ listed' \in F!Questions
      /\ listed' # <<>> => loaded' /\ listed' = asked
  <2>1. CASE ~f.live
    <3>1. F!loading' <=> F!loading
      BY <1>3, <2>1 DEF Awaited
    <3>2. UNCHANGED <<listed, loaded, error>>
      BY <1>1, <2>1
    <3> QED BY <1>1, <1>2, <3>1, <3>2 DEF OneStanding, F!FinderTypeOK, FinderShown
  <2>2. CASE f.live
    <3>1. F!loading /\ ~F!loading' /\ f.body = asked /\ asked # <<>>
      BY <1>1, <1>3, <2>2 DEF Awaited, Current
    <3>2. ~loaded /\ ~error
      BY <1>2, <3>1 DEF OneStanding
    <3>3. CASE f.is \in {"error", "unsent"}
      <4>1. error' = TRUE /\ UNCHANGED <<listed, loaded>>
        BY <1>1, <2>2, <3>3
      <4> QED BY <1>1, <1>2, <3>1, <3>2, <4>1 DEF OneStanding, F!FinderTypeOK, FinderShown
    <3>4. CASE f.is \notin {"error", "unsent"}
      <4>1. listed' = f.body /\ loaded' = TRUE /\ error' = error
        BY <1>1, <2>2, <3>4
      <4> QED BY <1>1, <1>2, <3>1, <3>2, <4>1 DEF OneStanding, F!FinderTypeOK, FinderShown
    <3> QED BY <3>3, <3>4
  <2> QED BY <2>1, <2>2
<1>5. F!FinderTypeOK'
  BY <1>1, <1>2, <1>3, <1>4 DEF F!FinderTypeOK, F!Questions
<1>6. FinderShown'
  BY <1>1, <1>2, <1>4 DEF FinderShown
<1> QED BY <1>3, <1>4, <1>5, <1>6 DEF FinderInv

LEMMA NickAnsweredKeeps == FinderInv /\ F!NickAnswered => FinderInv'
<1> SUFFICES ASSUME FinderInv, F!NickAnswered PROVE FinderInv'
  OBVIOUS
<1> DEFINE f == Head(toUi)
<1>1. /\ toUi # <<>> /\ f.kind = "nick" /\ F!Took
      /\ UNCHANGED <<acct, sheet, asked, listed, loaded, error, openedFor>>
      /\ IF f.live /\ f.is \notin {"error", "unsent"}
         THEN /\ nick' = f.body
              /\ nickField' = IF f.body # nick /\ nickField = NoOne THEN f.body ELSE nickField
         ELSE UNCHANGED <<nick, nickField>>
  BY DEF F!NickAnswered, F!Arrives, F!Given, F!Fails, F!setDefaultNick
<1>2. F!FinderTypeOK /\ FinderShown /\ OneStanding(F!loading, loaded, error, asked)
  BY DEF FinderInv
<1>3. /\ f \in FinderSays /\ Current(f, acct, asked, openedFor)
      /\ F!WireTypeOK' /\ toTacky' \in Seq(FinderAsks) /\ toUi' \in Seq(FinderSays)
      /\ AtMostOne(toTacky', toUi', "rooms") /\ WireCurrent'
      /\ ~Awaited(f, "rooms") => (F!loading' <=> F!loading)
  BY <1>1, FinderTakes
<1> HIDE DEF f
<1>4. F!loading' <=> F!loading
  BY <1>1, <1>3 DEF Awaited
<1>5. \/ UNCHANGED <<nick, nickField>>
      \/ nick' \in {acct, NoOne} /\ openedFor = acct /\ nickField' \in {nickField, acct, NoOne}
  BY <1>1, <1>3 DEF Current, Awaited
<1>6. F!FinderTypeOK'
  BY <1>1, <1>2, <1>3, <1>5 DEF F!FinderTypeOK, F!Questions
<1>7. FinderShown'
  BY <1>1, <1>2, <1>5 DEF FinderShown
<1> QED BY <1>1, <1>2, <1>3, <1>4, <1>6, <1>7 DEF FinderInv, OneStanding

LEMMA FinderDropKeeps == FinderInv /\ F!FinderDrop => FinderInv'
<1> SUFFICES ASSUME FinderInv, F!FinderDrop PROVE FinderInv'
  OBVIOUS
<1>1. /\ up' = FALSE /\ drops' = drops + 1 /\ drops < MaxDrop /\ toTacky' = <<>> /\ toUi' = <<>>
      /\ UNCHANGED <<acct, sheet, asked, listed, loaded, nick, nickField, openedFor>>
      /\ error' = (error \/ F!loading)
  BY DEF F!FinderDrop, F!Lost
<1>2. F!FinderTypeOK /\ FinderShown /\ OneStanding(F!loading, loaded, error, asked)
  BY DEF FinderInv
<1>3. /\ AtMostOne(toTacky', toUi', "rooms") /\ WireCurrent'
      /\ toTacky' \in Seq(FinderAsks) /\ toUi' \in Seq(FinderSays)
  <2>1. \A i \in 1..Len(<<>>) : FALSE
    OBVIOUS
  <2>2. \A k : NoneAwaited(<<>>, k) /\ OneAwaited(<<>>, k)
    BY <2>1 DEF NoneAwaited, OneAwaited
  <2>3. WireCurrent'
    BY <1>1, <2>1 DEF WireCurrent, AllCurrent
  <2>4. toTacky' \in Seq(FinderAsks) /\ toUi' \in Seq(FinderSays)
    BY <1>1
  <2> QED BY <1>1, <2>2, <2>3, <2>4 DEF AtMostOne
<1>4. DOMAIN toTacky' = {} /\ DOMAIN toUi' = {}
  BY <1>1
<1>5. ~F!loading'
  BY <1>4 DEF F!loading, F!Waits, F!HasLive
<1>6. drops' \in 0..MaxDrop
  <2>1. drops \in 0..MaxDrop /\ MaxDrop \in Nat
    BY <1>2, ChatsAssumption DEF F!WireTypeOK, F!FinderTypeOK
  <2> QED BY <1>1, <2>1
<1>7. F!WireTypeOK'
  BY <1>1, <1>4, <1>6 DEF F!WireTypeOK
<1>8. OneStanding(F!loading', loaded', error', asked') /\ error' \in BOOLEAN
  <2>1. CASE F!loading
    <3>1. error' = TRUE
      BY <1>1, <2>1
    <3> QED BY <1>1, <1>2, <1>5, <2>1, <3>1 DEF OneStanding
  <2>2. CASE ~F!loading
    <3>1. error' <=> error
      BY <1>1, <2>2
    <3>2. error' \in BOOLEAN
      BY <1>1
    <3> QED BY <1>1, <1>2, <1>5, <2>2, <3>1, <3>2 DEF OneStanding
  <2> QED BY <2>1, <2>2
<1>9. F!FinderTypeOK'
  BY <1>1, <1>2, <1>7, <1>8 DEF F!FinderTypeOK, F!Questions
<1>10. FinderShown'
  BY <1>1, <1>2 DEF FinderShown
<1> QED BY <1>3, <1>8, <1>9, <1>10 DEF FinderInv

LEMMA FinderAttachKeeps == FinderInv /\ F!FinderAttach => FinderInv'
<1> SUFFICES ASSUME FinderInv, F!FinderAttach PROVE FinderInv'
  OBVIOUS
<1>1. /\ ~up /\ up' = TRUE /\ drops' = drops /\ toTacky' = <<>> /\ toUi' = Stale(toUi, {})
      /\ UNCHANGED <<acct, sheet, asked, listed, loaded, error, nick, nickField, openedFor>>
  BY DEF F!FinderAttach, F!Comes, F!finderVars, F!Stale, Stale
<1>2. toTacky = <<>> /\ toUi \in Seq(FinderSays)
  BY <1>1 DEF FinderInv, F!FinderTypeOK, F!WireTypeOK
<1>3. toTacky' = toTacky /\ toUi' = toUi
  BY <1>1, <1>2, StaleNone
<1> QED BY <1>1, <1>3 DEF FinderInv, F!FinderTypeOK, F!WireTypeOK, F!Questions, FinderShown,
                    F!loading, F!Waits, F!HasLive, WireCurrent, AllCurrent, OneStanding

LEMMA TackyFindsKeeps == FinderInv /\ F!TackyFinds => FinderInv'
<1> SUFFICES ASSUME FinderInv, F!TackyFinds PROVE FinderInv'
  OBVIOUS
<1> DEFINE f == Head(toTacky)
<1>1. /\ toTacky # <<>> /\ toTacky' = Tail(toTacky) /\ up' = up /\ drops' = drops
      /\ UNCHANGED <<acct, sheet, asked, listed, loaded, error, nick, nickField, openedFor>>
  BY DEF F!TackyFinds, F!Takes, F!Says, F!finderVars
<1>2. /\ toTacky \in Seq(FinderAsks) /\ toUi \in Seq(FinderSays) /\ F!FinderTypeOK /\ F!WireTypeOK
      /\ AtMostOne(toTacky, toUi, "rooms") /\ WireCurrent
      /\ OneStanding(F!loading, loaded, error, asked)
  BY DEF FinderInv, F!FinderTypeOK
<1>3. f \in FinderAsks /\ f \in Frames(FinderBodies) /\ Current(f, acct, asked, openedFor)
  <2>1. f \in FinderAsks /\ f = toTacky[1] /\ 1 \in 1..Len(toTacky)
    BY <1>1, <1>2, Taken
  <2> HIDE DEF f
  <2> QED BY <1>2, <2>1 DEF WireCurrent, AllCurrent, FinderAsks
<1>4. \E g \in FinderSays :
         /\ g.kind = f.kind /\ g.live = f.live /\ toUi' = toUi \o <<g>>
         /\ g.body = f.body \/ (g.kind = "nick" /\ g.body = NoOne)
  <2>1. \/ toUi' = toUi \o <<[f EXCEPT !.is = "result", !.body = f.body]>>
        \/ toUi' = toUi \o <<[f EXCEPT !.is = "error"]>>
        \/ f.kind = "nick" /\ toUi' = toUi \o <<[f EXCEPT !.is = "result", !.body = NoOne]>>
    BY DEF F!TackyFinds, F!Takes, F!Says, F!Result, F!Refusal, F!Asked
  <2> HIDE DEF f
  <2>2. ASSUME NEW b \in FinderBodies, b = f.body \/ (f.kind = "nick" /\ b = NoOne)
        PROVE  LET g == [f EXCEPT !.is = "result", !.body = b]
               IN  /\ g \in FinderSays /\ g.kind = f.kind /\ g.live = f.live /\ g.body = b
    <3> DEFINE g == [f EXCEPT !.is = "result", !.body = b]
    <3>1. /\ g \in Frames(FinderBodies) /\ g.kind = f.kind /\ g.live = f.live /\ g.is = "result"
          /\ g.body = b
      BY <1>3 DEF Frames
    <3> HIDE DEF g
    <3>2. g \in FinderSays
      BY <1>3, <2>2, <3>1 DEF FinderSays, FinderAsks
    <3> QED BY <3>1, <3>2 DEF g
  <2>3. LET g == [f EXCEPT !.is = "error"]
        IN  /\ g \in FinderSays /\ g.kind = f.kind /\ g.live = f.live /\ g.body = f.body
    <3> DEFINE g == [f EXCEPT !.is = "error"]
    <3>1. /\ g \in Frames(FinderBodies) /\ g.kind = f.kind /\ g.live = f.live /\ g.is = "error"
          /\ g.body = f.body
      BY <1>3 DEF Frames
    <3> HIDE DEF g
    <3>2. g \in FinderSays
      BY <1>3, <3>1 DEF FinderSays, FinderAsks
    <3> QED BY <3>1, <3>2 DEF g
  <2>4. f.body \in FinderBodies /\ NoOne \in FinderBodies
    BY <1>3 DEF Frames, FinderBodies
  <2> QED BY <2>1, <2>2, <2>3, <2>4
<1>5. PICK g \in FinderSays :
         /\ g.kind = f.kind /\ g.live = f.live /\ toUi' = toUi \o <<g>>
         /\ g.body = f.body \/ (g.kind = "nick" /\ g.body = NoOne)
  BY <1>4
<1>6. Current(g, acct, asked, openedFor)
  BY <1>3, <1>5 DEF Current, Awaited
<1>7. /\ toTacky' \in Seq(FinderAsks) /\ up
      /\ \A i \in 1..Len(toTacky') : i + 1 \in 1..Len(toTacky) /\ toTacky'[i] = toTacky[i + 1]
  BY <1>1, <1>2, Taken DEF F!WireTypeOK
<1>8. <<g>> \in Seq(FinderSays) /\ Len(<<g>>) = 1 /\ <<g>>[1] = g
  OBVIOUS
<1>9. /\ toUi' \in Seq(FinderSays)
      /\ \A i \in 1..Len(toUi') : (i \in 1..Len(toUi) /\ toUi'[i] = toUi[i]) \/ toUi'[i] = g
  BY <1>2, <1>5, <1>8, Joined
<1>10. Awaited(g, "rooms") <=> Awaited(Head(toTacky), "rooms")
  BY <1>5 DEF Awaited
<1>11. /\ AtMostOne(toTacky', toUi', "rooms")
       /\ NoneAwaited(toTacky, "rooms") /\ NoneAwaited(toUi, "rooms")
            <=> NoneAwaited(toTacky', "rooms") /\ NoneAwaited(toUi', "rooms")
  BY <1>1, <1>2, <1>5, <1>10, AnsweredOut
<1>12. F!loading' <=> F!loading
  <2>1. F!loading' <=> ~(NoneAwaited(toTacky', "rooms") /\ NoneAwaited(toUi', "rooms"))
    <3>1. DOMAIN toTacky' = 1..Len(toTacky') /\ DOMAIN toUi' = 1..Len(toUi')
      BY <1>7, <1>9
    <3> QED BY <3>1 DEF F!loading, F!Waits, F!HasLive, NoneAwaited, Awaited
  <2>2. F!loading <=> ~(NoneAwaited(toTacky, "rooms") /\ NoneAwaited(toUi, "rooms"))
    BY <1>2, FinderLoading
  <2> QED BY <1>11, <2>1, <2>2
<1>13. WireCurrent'
  <2>1. AllCurrent(toTacky', acct', asked', openedFor')
    BY <1>1, <1>2, <1>7 DEF WireCurrent, AllCurrent
  <2>2. AllCurrent(toUi', acct', asked', openedFor')
    BY <1>1, <1>2, <1>6, <1>9 DEF WireCurrent, AllCurrent
  <2> QED BY <2>1, <2>2 DEF WireCurrent
<1>14. F!WireTypeOK'
  BY <1>1, <1>2, <1>7, <1>9, FinderFrames DEF F!WireTypeOK
<1>15. F!FinderTypeOK'
  BY <1>1, <1>2, <1>14 DEF F!FinderTypeOK, F!Questions
<1>16. FinderShown'
  BY <1>1 DEF FinderInv, FinderShown
<1> QED BY <1>1, <1>2, <1>7, <1>9, <1>11, <1>12, <1>13, <1>15, <1>16 DEF FinderInv, OneStanding

LEMMA FinderStarts == F!FinderInit => FinderInv
<1> SUFFICES ASSUME F!FinderInit PROVE FinderInv
  OBVIOUS
<1>1. /\ up \in BOOLEAN /\ toTacky = <<>> /\ toUi = <<>> /\ drops = 0
      /\ acct \in Accts /\ sheet = FALSE /\ asked = <<>> /\ listed = <<>> /\ loaded = FALSE
      /\ error = FALSE /\ nick = NoOne /\ nickField = NoOne /\ openedFor = acct
  BY DEF F!FinderInit, F!WireInit
<1>2. DOMAIN toTacky = {} /\ DOMAIN toUi = {} /\ 0 \in 0..MaxDrop
  BY <1>1, ChatsAssumption
<1>3. F!FinderTypeOK
  BY <1>1, <1>2 DEF F!FinderTypeOK, F!WireTypeOK, F!Questions
<1>4. ~F!loading
  BY <1>2 DEF F!loading, F!Waits, F!HasLive
<1>5. toTacky \in Seq(FinderAsks) /\ toUi \in Seq(FinderSays) /\ WireCurrent
  <2>1. \A i \in 1..Len(<<>>) : FALSE
    OBVIOUS
  <2>2. WireCurrent
    BY <1>1, <2>1 DEF WireCurrent, AllCurrent
  <2> QED BY <1>1, <2>2
<1>6. AtMostOne(toTacky, toUi, "rooms")
  BY <1>1, AwaitedFew DEF AtMostOne
<1>7. FinderShown /\ OneStanding(F!loading, loaded, error, asked)
  BY <1>1, <1>4 DEF FinderShown, OneStanding
<1> QED BY <1>3, <1>5, <1>6, <1>7 DEF FinderInv

LEMMA FinderStep == FinderInv /\ F!FinderNext => FinderInv'
BY SetAccountKeeps, OpenKeeps, DiscoverKeeps, SheetKeeps, RoomsAnsweredKeeps, NickAnsweredKeeps,
   FinderAttachKeeps, FinderDropKeeps, TackyFindsKeeps
   DEF F!FinderNext

LEMMA FinderGives == FinderInv => F!FinderTypeOK /\ F!OneService
<1> SUFFICES ASSUME FinderInv PROVE F!FinderTypeOK /\ F!OneService
  OBVIOUS
<1> DEFINE W == {f \in {"out", "answered", "failed"} :
                   CASE f = "out" -> F!loading [] f = "answered" -> loaded [] OTHER -> error}
<1>1. F!FinderTypeOK /\ FinderShown /\ OneStanding(F!loading, loaded, error, asked)
  BY DEF FinderInv
<1>2. /\ "out" \in W <=> F!loading
      /\ "answered" \in W <=> loaded
      /\ "failed" \in W <=> error
      /\ W \subseteq {"out", "answered", "failed"}
  OBVIOUS
<1> HIDE DEF W
<1>3. IF asked = <<>> THEN W = {} ELSE \E x : W = {x}
  <2>1. CASE asked = <<>>
    BY <1>1, <1>2, <2>1 DEF OneStanding
  <2>2. CASE asked # <<>>
    <3>1. W = {"out"} \/ W = {"answered"} \/ W = {"failed"}
      BY <1>1, <1>2, <2>2 DEF OneStanding
    <3> QED BY <2>2, <3>1
  <2> QED BY <2>1, <2>2
<1>4. Cardinality(W) = IF asked = <<>> THEN 0 ELSE 1
  BY <1>3, FS_EmptySet, FS_Singleton
<1>5. F!Cardinality(W) = Cardinality(W)
  BY Zenon DEF F!Cardinality, Cardinality
<1>6. F!Cardinality(W) = IF asked = <<>> THEN 0 ELSE 1
  BY <1>4, <1>5
<1>7. listed # <<>> => loaded /\ listed = asked /\ asked[1] = acct
  BY <1>1 DEF FinderShown
<1>8. nick \in {acct, NoOne} /\ (sheet /\ openedFor = acct => nickField \in {acct, NoOne, Typed})
  BY <1>1 DEF FinderShown
<1> QED BY <1>1, <1>6, <1>7, <1>8 DEF F!OneService, W


-----------------------------------------------------------------------------
(* OmemoChat.                                                               *)

LEMMA OmemoWire ==
    /\ \A in, K, fs : O!send(in, K, fs) <=> send(in, K, fs)
    /\ O!Took <=> Took
<1>1. \A in, K, fs : O!send(in, K, fs) <=> send(in, K, fs)
  <2>1. \A q, K : O!Stale(q, K) = Stale(q, K)
    BY DEF O!Stale, Stale
  <2>2. \A q, fs : O!Post(q, fs) = Post(q, fs)
    BY DEF O!Post, Post
  <2>3. \A fs : O!Requested(fs) = Requested(fs)
    BY Zenon DEF O!Requested, O!IsCall, O!Cardinality, Requested, IsCall, Cardinality
  <2>4. \A f : O!Unsent(f) = Unsent(f)
    BY DEF O!Unsent, Unsent
  <2> QED BY <2>1, <2>2, <2>3, <2>4 DEF O!send, send
<1>2. O!Took <=> Took
  BY <1>1 DEF O!Took, O!Rest, Took, Rest
<1> QED BY <1>1, <1>2

\* What tacky says of a switch; g is whether the chat is a room.
Statuses == [enabled : BOOLEAN, offered : BOOLEAN]
OmemoBodies == {Nil} \cup BOOLEAN \cup Statuses
OmemoAsks(g) ==
    {f \in Frames(OmemoBodies) :
        /\ f.kind \in {"padlock", "switch", "set", "prepare"}
        /\ f.kind \in {"padlock", "switch"} => f.is = "asked"
        /\ f.kind \in {"set", "prepare"} => f.is = "sent" /\ ~f.live
        /\ f.kind = "set" => ~g /\ f.body \in BOOLEAN
        /\ f.kind = "switch" => g /\ f.body \in BOOLEAN}
OmemoSays(g) ==
    {f \in Frames(OmemoBodies) :
        /\ f.kind \in {"padlock", "switch", "Enabled", "RoomStatus", "State"}
        /\ f.kind \in {"padlock", "switch"} <=> f.is \in {"result", "error", "unsent"}
        /\ f.kind = "padlock" /\ f.is = "result" => f.body \in Statuses
        /\ f.kind = "Enabled" => ~g /\ f.body \in BOOLEAN
        /\ f.kind = "RoomStatus" => g /\ f.body \in Statuses}

\* A frame the padlock will follow says what is so, n of the switch and t of the
\* room, or one that will put it right is behind it.
Informs(k) == k \in {"State", "Enabled", "RoomStatus"}
Mends(q) == \E i \in 1..Len(q) : Informs(q[i].kind)
Mended(q, i) == \E j \in 1..Len(q) : i < j /\ Informs(q[j].kind)
SaysSo(f, n, t) ==
    /\ f.kind = "Enabled" => f.body = n
    /\ f.kind = "RoomStatus" => f.body = [enabled |-> n, offered |-> t]
    /\ f.kind = "padlock" /\ f.live /\ f.is = "result" => f.body = [enabled |-> n, offered |-> t]
Right(q, n, t) == \A i \in 1..Len(q) : SaysSo(q[i], n, t) \/ Mended(q, i)

\* A click that tacky has yet to see to, and one it has refused.
Switches(f) == f.kind = "set" \/ (f.kind = "switch" /\ f.live)
Switching(q) == \E i \in 1..Len(q) : Switches(q[i])
Refuses(f) == f.kind = "switch" /\ f.live /\ f.is # "result"
Refused(q) == \E i \in 1..Len(q) : Refuses(q[i])

OmemoSettles ==
    up /\ session /\ known =>
        \/ enabled = on /\ (groupchat => offered = fit)
        \/ Mends(toUi) \/ Switching(toTacky) \/ Refused(toUi)

AllUnsent(q) == \A i \in 1..Len(q) : q[i].is = "unsent"

OmemoInv ==
    /\ O!OmemoTypeOK
    /\ toTacky \in Seq(OmemoAsks(groupchat)) /\ toUi \in Seq(OmemoSays(groupchat))
    /\ ~up => AllUnsent(toUi)
    /\ session => Right(toUi, on, fit)
    /\ OmemoSettles

LEMMA OmemoFrames ==
    ASSUME NEW g
    PROVE  /\ OmemoAsks(g) \subseteq Frames(OmemoBodies) /\ OmemoSays(g) \subseteq Frames(OmemoBodies)
           /\ \A f \in OmemoAsks(g) : [f EXCEPT !.live = FALSE] \in OmemoAsks(g)
           /\ \A f \in OmemoSays(g) : [f EXCEPT !.live = FALSE] \in OmemoSays(g)
           /\ \A f \in OmemoAsks(g) : IsCall(f) => Unsent(f) \in OmemoSays(g)
           /\ \A q \in Seq(OmemoAsks(g)) : \A i \in DOMAIN q : O!FrameOK(q[i])
           /\ \A q \in Seq(OmemoSays(g)) : \A i \in DOMAIN q : O!FrameOK(q[i])
<1>1. \A f \in OmemoAsks(g) \cup OmemoSays(g) : f \in Frames(OmemoBodies)
  BY DEF OmemoAsks, OmemoSays
<1>2. \A f \in Frames(OmemoBodies) :
         /\ [f EXCEPT !.live = FALSE] \in Frames(OmemoBodies)
         /\ [f EXCEPT !.live = FALSE].kind = f.kind /\ [f EXCEPT !.live = FALSE].is = f.is
         /\ [f EXCEPT !.live = FALSE].body = f.body /\ [f EXCEPT !.live = FALSE].live = FALSE
         /\ Unsent(f) \in Frames(OmemoBodies) /\ Unsent(f).kind = f.kind /\ Unsent(f).is = "unsent"
         /\ Unsent(f).body = f.body
  BY DEF Frames, Unsent
<1>3. \A f \in OmemoAsks(g) : [f EXCEPT !.live = FALSE] \in OmemoAsks(g)
  BY <1>1, <1>2 DEF OmemoAsks
<1>4. \A f \in OmemoSays(g) : [f EXCEPT !.live = FALSE] \in OmemoSays(g)
  BY <1>1, <1>2 DEF OmemoSays
<1>5. \A f \in OmemoAsks(g) : IsCall(f) => Unsent(f) \in OmemoSays(g)
  <2> SUFFICES ASSUME NEW f \in OmemoAsks(g), IsCall(f) PROVE Unsent(f) \in OmemoSays(g)
    OBVIOUS
  <2>1. f.kind \in {"padlock", "switch"}
    BY DEF OmemoAsks, IsCall
  <2> QED BY <1>1, <1>2, <2>1 DEF OmemoSays
<1>6. \A f \in Frames(OmemoBodies) : O!FrameOK(f)
  BY FramesOK DEF FrameOK, O!FrameOK
<1> QED BY <1>1, <1>3, <1>4, <1>5, <1>6

LEMMA RightStale ==
    ASSUME NEW B, NEW q \in Seq(Frames(B)), NEW K
    PROVE  /\ \A n, t : Right(q, n, t) => Right(Stale(q, K), n, t)
           /\ Mends(Stale(q, K)) <=> Mends(q)
           /\ "switch" \notin K => /\ Switching(q) => Switching(Stale(q, K))
                                   /\ Refused(q) => Refused(Stale(q, K))
           /\ AllUnsent(q) => AllUnsent(Stale(q, K))
<1> DEFINE p == Stale(q, K)
<1>1. /\ Len(p) = Len(q)
      /\ \A i \in 1..Len(q) : /\ p[i].kind = q[i].kind /\ p[i].is = q[i].is /\ p[i].body = q[i].body
                              /\ p[i].live <=> q[i].live /\ q[i].kind \notin K
  BY StaleIs
<1> HIDE DEF p
<1>2. ASSUME NEW n, NEW t, Right(q, n, t) PROVE Right(p, n, t)
  <2> SUFFICES ASSUME NEW i \in 1..Len(q) PROVE SaysSo(p[i], n, t) \/ Mended(p, i)
    BY <1>1 DEF Right
  <2>1. CASE SaysSo(q[i], n, t)
    BY <1>1, <2>1 DEF SaysSo
  <2>2. CASE Mended(q, i)
    BY <1>1, <2>2 DEF Mended
  <2> QED BY <1>2, <2>1, <2>2 DEF Right
<1>3. Mends(p) <=> Mends(q)
  BY <1>1 DEF Mends
<1>4. "switch" \notin K /\ Switching(q) => Switching(p)
  BY <1>1 DEF Switching, Switches
<1>5. "switch" \notin K /\ Refused(q) => Refused(p)
  BY <1>1 DEF Refused, Refuses
<1>6. AllUnsent(q) => AllUnsent(p)
  BY <1>1 DEF AllUnsent
<1> QED BY <1>2, <1>3, <1>4, <1>5, <1>6 DEF p

LEMMA RightTail ==
    ASSUME NEW E, NEW q \in Seq(E), q # <<>>
    PROVE  /\ \A n, t : Right(q, n, t) => /\ Right(Tail(q), n, t)
                                          /\ SaysSo(Head(q), n, t) \/ Mends(Tail(q))
           /\ Mends(q) <=> Informs(Head(q).kind) \/ Mends(Tail(q))
           /\ Switching(q) <=> Switches(Head(q)) \/ Switching(Tail(q))
           /\ Refused(q) <=> Refuses(Head(q)) \/ Refused(Tail(q))
           /\ AllUnsent(q) => Head(q).is = "unsent" /\ AllUnsent(Tail(q))
<1> DEFINE p == Tail(q)
<1>1. /\ Head(q) = q[1] /\ 1 \in 1..Len(q)
      /\ \A i \in 1..Len(p) : i \in Nat /\ i + 1 \in 1..Len(q) /\ p[i] = q[i + 1] /\ 1 < i + 1
      /\ \A i \in 1..Len(q) : i # 1 => i - 1 \in 1..Len(p) /\ p[i - 1] = q[i]
  BY Taken
<1>2. \A i \in 1..Len(p) : \A j \in 1..Len(q) : i + 1 < j => j # 1 /\ i < j - 1
  BY <1>1
<1>3. \A j \in 1..Len(q) : 1 < j => j # 1
  OBVIOUS
<1> HIDE DEF p
<1>4. ASSUME NEW n, NEW t, Right(q, n, t)
      PROVE  Right(p, n, t) /\ (SaysSo(Head(q), n, t) \/ Mends(p))
  <2>1. Right(p, n, t)
    <3> SUFFICES ASSUME NEW i \in 1..Len(p) PROVE SaysSo(p[i], n, t) \/ Mended(p, i)
      BY DEF Right
    <3>1. SaysSo(q[i + 1], n, t) \/ Mended(q, i + 1)
      BY <1>1, <1>4 DEF Right
    <3>2. Mended(q, i + 1) => Mended(p, i)
      BY <1>1, <1>2 DEF Mended
    <3> QED BY <1>1, <3>1, <3>2
  <2>2. SaysSo(q[1], n, t) \/ Mended(q, 1)
    BY <1>1, <1>4 DEF Right
  <2>3. Mended(q, 1) => Mends(p)
    BY <1>1, <1>3 DEF Mended, Mends
  <2> QED BY <1>1, <2>1, <2>2, <2>3
<1>5. Mends(q) <=> Informs(Head(q).kind) \/ Mends(p)
  BY <1>1 DEF Mends
<1>6. Switching(q) <=> Switches(Head(q)) \/ Switching(p)
  BY <1>1 DEF Switching
<1>7. Refused(q) <=> Refuses(Head(q)) \/ Refused(p)
  BY <1>1 DEF Refused
<1>8. AllUnsent(q) => Head(q).is = "unsent" /\ AllUnsent(p)
  BY <1>1 DEF AllUnsent
<1> QED BY <1>4, <1>5, <1>6, <1>7, <1>8 DEF p

LEMMA RightJoined ==
    ASSUME NEW E, NEW q \in Seq(E), NEW g \in Seq(E)
    PROVE  /\ \A n, t : Right(g, n, t) /\ (Right(q, n, t) \/ Mends(g)) => Right(q \o g, n, t)
           /\ Mends(q \o g) <=> Mends(q) \/ Mends(g)
           /\ Switching(q \o g) <=> Switching(q) \/ Switching(g)
           /\ Refused(q \o g) <=> Refused(q) \/ Refused(g)
           /\ AllUnsent(q) /\ AllUnsent(g) => AllUnsent(q \o g)
<1> DEFINE p == q \o g
<1>1. /\ \A i \in 1..Len(q) : i \in 1..Len(p) /\ p[i] = q[i]
      /\ \A i \in 1..Len(g) : Len(q) + i \in 1..Len(p) /\ p[Len(q) + i] = g[i]
      /\ \A i \in 1..Len(p) : \/ i \in 1..Len(q) /\ p[i] = q[i]
                              \/ i - Len(q) \in 1..Len(g) /\ p[i] = g[i - Len(q)]
  BY Joined
<1>2. \A i \in 1..Len(q) : \A j \in 1..Len(g) : i < Len(q) + j
  OBVIOUS
<1>3. \A i \in Int : \A j \in 1..Len(g) : i - Len(q) < j => i < Len(q) + j
  OBVIOUS
<1> HIDE DEF p
<1>4. ASSUME NEW n, NEW t, Right(g, n, t), Right(q, n, t) \/ Mends(g) PROVE Right(p, n, t)
  <2> SUFFICES ASSUME NEW i \in 1..Len(p) PROVE SaysSo(p[i], n, t) \/ Mended(p, i)
    BY DEF Right
  <2>1. CASE i \in 1..Len(q) /\ p[i] = q[i]
    <3>1. Mends(g) => Mended(p, i)
      BY <1>1, <1>2, <2>1 DEF Mends, Mended
    <3>2. Mended(q, i) => Mended(p, i)
      BY <1>1 DEF Mended
    <3>3. Right(q, n, t) => SaysSo(q[i], n, t) \/ Mended(q, i)
      BY <2>1 DEF Right
    <3> QED BY <1>4, <2>1, <3>1, <3>2, <3>3
  <2>2. CASE i - Len(q) \in 1..Len(g) /\ p[i] = g[i - Len(q)]
    <3>1. SaysSo(g[i - Len(q)], n, t) \/ Mended(g, i - Len(q))
      BY <1>4, <2>2 DEF Right
    <3>2. ASSUME Mended(g, i - Len(q)) PROVE Mended(p, i)
      <4>1. PICK j \in 1..Len(g) : i - Len(q) < j /\ Informs(g[j].kind)
        BY <3>2 DEF Mended
      <4>2. i < Len(q) + j /\ Len(q) + j \in 1..Len(p) /\ p[Len(q) + j] = g[j]
        BY <1>1, <1>3, <4>1
      <4> QED BY <4>1, <4>2 DEF Mended
    <3> QED BY <2>2, <3>1, <3>2
  <2> QED BY <1>1, <2>1, <2>2
<1>5. Mends(p) <=> Mends(q) \/ Mends(g)
  BY <1>1 DEF Mends
<1>6. Switching(p) <=> Switching(q) \/ Switching(g)
  BY <1>1 DEF Switching
<1>7. Refused(p) <=> Refused(q) \/ Refused(g)
  BY <1>1 DEF Refused
<1>8. ASSUME AllUnsent(q), AllUnsent(g) PROVE AllUnsent(p)
  <2>1. /\ \A i \in 1..Len(q) : q[i].is = "unsent"
        /\ \A i \in 1..Len(g) : g[i].is = "unsent"
    BY <1>8 DEF AllUnsent
  <2> SUFFICES ASSUME NEW i \in 1..Len(p) PROVE p[i].is = "unsent"
    BY DEF AllUnsent
  <2>2. CASE i \in 1..Len(q) /\ p[i] = q[i]
    BY <2>1, <2>2
  <2>3. CASE i - Len(q) \in 1..Len(g) /\ p[i] = g[i - Len(q)]
    BY <2>1, <2>3
  <2> QED BY <1>1, <2>2, <2>3
<1> QED BY <1>4, <1>5, <1>6, <1>7, <1>8 DEF p

LEMMA RightFew ==
    ASSUME NEW f
    PROVE  /\ \A n, t : Right(<<>>, n, t) /\ (SaysSo(f, n, t) => Right(<<f>>, n, t))
           /\ Mends(<<f>>) <=> Informs(f.kind)
           /\ Switching(<<f>>) <=> Switches(f)
           /\ Refused(<<f>>) <=> Refuses(f)
           /\ ~Mends(<<>>) /\ ~Switching(<<>>) /\ ~Refused(<<>>) /\ AllUnsent(<<>>)
           /\ f.is = "unsent" => AllUnsent(<<f>>)
<1>1. Len(<<f>>) = 1 /\ <<f>>[1] = f
  OBVIOUS
<1>2. 1 \in 1..1 /\ (\A i \in 1..1 : i = 1) /\ (\A i \in 1..Len(<<>>) : FALSE)
  OBVIOUS
<1>3. \A n, t : Right(<<>>, n, t) /\ (SaysSo(f, n, t) => Right(<<f>>, n, t))
  BY <1>1, <1>2 DEF Right
<1>4. Mends(<<f>>) <=> Informs(f.kind)
  BY <1>1, <1>2 DEF Mends
<1>5. Switching(<<f>>) <=> Switches(f)
  BY <1>1, <1>2 DEF Switching
<1>6. Refused(<<f>>) <=> Refuses(f)
  BY <1>1, <1>2 DEF Refused
<1>7. ~Mends(<<>>) /\ ~Switching(<<>>) /\ ~Refused(<<>>) /\ AllUnsent(<<>>)
  BY <1>2 DEF Mends, Switching, Refused, AllUnsent
<1>8. f.is = "unsent" => AllUnsent(<<f>>)
  BY <1>1, <1>2 DEF AllUnsent
<1> QED BY <1>3, <1>4, <1>5, <1>6, <1>7, <1>8

LEMMA RightNone ==
    /\ <<>> \in Seq(OmemoSays(groupchat)) /\ \A n, t : Right(<<>>, n, t)
    /\ ~Mends(<<>>) /\ ~Switching(<<>>) /\ ~Refused(<<>>) /\ AllUnsent(<<>>)
<1>1. \A f, n, t : Right(<<>>, n, t) /\ ~Mends(<<>>) /\ ~Switching(<<>>) /\ ~Refused(<<>>) /\ AllUnsent(<<>>)
  BY RightFew
<1> QED BY <1>1

\* What the sends of a padlock's handler do to the wire, `in` being what is left of
\* its input.
LEMMA OmemoSends ==
    ASSUME OmemoInv, NEW in \in Seq(OmemoSays(groupchat)), ~up => AllUnsent(in), NEW K,
           NEW fs \in Seq(OmemoAsks(groupchat)), Len(fs) <= 1, O!send(in, K, fs)
    PROVE  /\ up' = up /\ drops' = drops /\ O!WireTypeOK'
           /\ toTacky' \in Seq(OmemoAsks(groupchat)) /\ toUi' \in Seq(OmemoSays(groupchat))
           /\ ~up => AllUnsent(toUi')
           /\ \A n, t : Right(in, n, t) => Right(toUi', n, t)
           /\ up /\ Mends(in) => Mends(toUi')
           /\ up /\ Switching(fs) => Switching(toTacky')
           /\ up /\ "switch" \notin K => /\ Switching(toTacky) => Switching(toTacky')
                                         /\ Refused(in) => Refused(toUi')
<1> DEFINE g == groupchat
           p == Stale(toTacky, K)
           q == Stale(in, K)
<1>1. /\ toTacky \in Seq(OmemoAsks(g)) /\ toUi \in Seq(OmemoSays(g)) /\ O!WireTypeOK
      /\ send(in, K, fs) /\ in \in Seq(OmemoSays(g)) /\ fs \in Seq(OmemoAsks(g))
  BY OmemoWire DEF OmemoInv, O!OmemoTypeOK
<1>2. ~up => toTacky = <<>>
  BY <1>1 DEF O!WireTypeOK
<1>3. /\ OmemoAsks(g) \subseteq Frames(OmemoBodies) /\ OmemoSays(g) \subseteq Frames(OmemoBodies)
      /\ \A f \in OmemoAsks(g) : [f EXCEPT !.live = FALSE] \in OmemoAsks(g)
      /\ \A f \in OmemoSays(g) : [f EXCEPT !.live = FALSE] \in OmemoSays(g)
      /\ \A f \in OmemoAsks(g) : IsCall(f) => Unsent(f) \in OmemoSays(g)
  BY OmemoFrames
<1>4. /\ toTacky \in Seq(Frames(OmemoBodies)) /\ in \in Seq(Frames(OmemoBodies))
      /\ fs \in Seq(Frames(OmemoBodies))
  BY <1>1, <1>3
<1>5. p \in Seq(OmemoAsks(g)) /\ Len(p) = Len(toTacky)
  BY <1>1, <1>3, StaleIn
<1>6. q \in Seq(OmemoSays(g)) /\ Len(q) = Len(in)
  BY <1>1, <1>3, StaleIn
<1>7. /\ up' = up /\ drops' = drops
      /\ up => toTacky' = p \o fs /\ toUi' = q
      /\ ~up => toTacky' = p
      /\ ~up /\ (\A i \in 1..Len(fs) : ~IsCall(fs[i])) => toUi' = q
      /\ \A k \in 1..Len(fs) :
            ~up /\ IsCall(fs[k]) /\ (\A i \in 1..Len(fs) : IsCall(fs[i]) => i = k)
            => toUi' = q \o <<Unsent(fs[k])>>
  BY <1>1, <1>4, Sends
<1>8. /\ "switch" \notin K => (Switching(toTacky) => Switching(p))
      /\ \A n, t : Right(in, n, t) => Right(q, n, t)
      /\ Mends(in) => Mends(q)
      /\ "switch" \notin K => (Refused(in) => Refused(q))
      /\ AllUnsent(in) => AllUnsent(q)
  BY <1>4, RightStale
<1> HIDE DEF p, q
<1>9. CASE up
  <2>1. toTacky' \in Seq(OmemoAsks(g)) /\ toUi' \in Seq(OmemoSays(g))
    <3>1. p \o fs \in Seq(OmemoAsks(g))
      BY <1>1, <1>5, Joined
    <3>2. toTacky' = p \o fs /\ toUi' = q
      BY <1>7, <1>9
    <3> QED BY <1>6, <3>1, <3>2
  <2>2. Switching(p \o fs) <=> Switching(p) \/ Switching(fs)
    BY <1>1, <1>5, RightJoined
  <2>3. O!WireTypeOK'
    BY <1>1, <1>7, <1>9, <2>1, OmemoFrames DEF O!WireTypeOK
  <2> QED BY <1>7, <1>8, <1>9, <2>1, <2>2, <2>3
<1>10. CASE ~up
  <2>1. toTacky' = <<>> /\ toTacky' \in Seq(OmemoAsks(g))
    <3>1. Len(p) = 0
      BY <1>2, <1>5, <1>10
    <3> QED BY <1>5, <1>7, <1>10, <3>1
  <2>2. /\ toUi' \in Seq(OmemoSays(g)) /\ AllUnsent(toUi')
        /\ \A n, t : Right(in, n, t) => Right(toUi', n, t)
    <3>1. CASE \A i \in 1..Len(fs) : ~IsCall(fs[i])
      BY <1>6, <1>7, <1>8, <1>10, <3>1
    <3>2. CASE \E i \in 1..Len(fs) : IsCall(fs[i])
      <4>1. PICK k \in 1..Len(fs) : IsCall(fs[k])
        BY <3>2
      <4> DEFINE u == Unsent(fs[k])
      <4>2. \A i \in 1..Len(fs) : i = k
        OBVIOUS
      <4>3. toUi' = q \o <<u>>
        BY <1>7, <1>10, <4>1, <4>2
      <4>4. u \in OmemoSays(g)
        BY <1>1, <1>3, <4>1
      <4>5. u.is = "unsent"
        BY <1>4, UnsentIs DEF Unsent, Frames
      <4> HIDE DEF u
      <4>6. \A n, t : SaysSo(u, n, t)
        BY <4>4, <4>5 DEF SaysSo, OmemoSays
      <4>7. <<u>> \in Seq(OmemoSays(g)) /\ AllUnsent(<<u>>) /\ \A n, t : Right(<<u>>, n, t)
        <5>1. AllUnsent(<<u>>) /\ \A n, t : Right(<<u>>, n, t)
          BY <4>5, <4>6, RightFew
        <5> QED BY <4>4, <5>1
      <4>8. /\ \A n, t : Right(<<u>>, n, t) /\ Right(q, n, t) => Right(q \o <<u>>, n, t)
            /\ AllUnsent(q) /\ AllUnsent(<<u>>) => AllUnsent(q \o <<u>>)
        BY <1>6, <4>7, RightJoined
      <4>9. toUi' \in Seq(OmemoSays(g))
        BY <1>6, <4>3, <4>7
      <4> QED BY <1>8, <1>10, <4>3, <4>7, <4>8, <4>9
    <3> QED BY <3>1, <3>2
  <2>3. O!WireTypeOK'
    BY <1>1, <1>7, <1>10, <2>1, <2>2, OmemoFrames DEF O!WireTypeOK
  <2> QED BY <1>7, <1>10, <2>1, <2>2, <2>3
<1> QED BY <1>9, <1>10

LEMMA OmemoTakes ==
    ASSUME OmemoInv, toUi # <<>>
    PROVE  /\ Head(toUi) \in OmemoSays(groupchat) /\ Tail(toUi) \in Seq(OmemoSays(groupchat))
           /\ ~up => AllUnsent(Tail(toUi)) /\ Head(toUi).is = "unsent"
           /\ session => /\ Right(Tail(toUi), on, fit)
                         /\ SaysSo(Head(toUi), on, fit) \/ Mends(Tail(toUi))
           /\ Mends(toUi) <=> Informs(Head(toUi).kind) \/ Mends(Tail(toUi))
           /\ Refused(toUi) <=> Refuses(Head(toUi)) \/ Refused(Tail(toUi))
<1>1. toUi \in Seq(OmemoSays(groupchat)) /\ (~up => AllUnsent(toUi)) /\ (session => Right(toUi, on, fit))
  BY DEF OmemoInv
<1>2. Head(toUi) \in OmemoSays(groupchat) /\ Tail(toUi) \in Seq(OmemoSays(groupchat))
  BY <1>1, Taken
<1>3. /\ \A n, t : Right(toUi, n, t) => /\ Right(Tail(toUi), n, t)
                                        /\ SaysSo(Head(toUi), n, t) \/ Mends(Tail(toUi))
      /\ Mends(toUi) <=> Informs(Head(toUi).kind) \/ Mends(Tail(toUi))
      /\ Refused(toUi) <=> Refuses(Head(toUi)) \/ Refused(Tail(toUi))
      /\ AllUnsent(toUi) => Head(toUi).is = "unsent" /\ AllUnsent(Tail(toUi))
  BY <1>1, RightTail
<1> QED BY <1>1, <1>2, <1>3

\* Knowing nothing there is nothing to be wrong about.
LEMMA RefreshKeeps ==
    ASSUME OmemoInv, NEW in \in Seq(OmemoSays(groupchat)), ~up => AllUnsent(in),
           session => Right(in, on, fit), O!refresh(in)
    PROVE  OmemoInv'
<1> DEFINE K == {"padlock", "switch"}
           r == O!Read
           fs == <<r>>
<1>1. /\ known' = FALSE /\ offered' = FALSE /\ prepared' = FALSE /\ O!send(in, K, fs)
      /\ UNCHANGED <<groupchat, enabled, session, on, fit>>
  BY DEF O!refresh, O!Forget
<1>2. O!OmemoTypeOK
  BY DEF OmemoInv
<1>3. r \in OmemoAsks(groupchat)
  BY <1>2 DEF O!OmemoTypeOK, O!Read, O!Call, OmemoAsks, OmemoBodies, Frames, Kinds
<1> HIDE DEF r
<1>4. fs \in Seq(OmemoAsks(groupchat)) /\ Len(fs) <= 1
  BY <1>3
<1> HIDE DEF fs, K
<1>5. /\ up' = up /\ O!WireTypeOK'
      /\ toTacky' \in Seq(OmemoAsks(groupchat)) /\ toUi' \in Seq(OmemoSays(groupchat))
      /\ ~up => AllUnsent(toUi')
      /\ \A n, t : Right(in, n, t) => Right(toUi', n, t)
  BY <1>1, <1>4, OmemoSends
<1>6. O!OmemoTypeOK'
  BY <1>1, <1>2, <1>5 DEF O!OmemoTypeOK
<1>7. OmemoSettles'
  BY <1>1 DEF OmemoSettles
<1> QED BY <1>1, <1>5, <1>6, <1>7 DEF OmemoInv

LEMMA ClickKeeps == OmemoInv /\ O!setEnabled => OmemoInv'
<1> SUFFICES ASSUME OmemoInv, O!setEnabled PROVE OmemoInv'
  OBVIOUS
<1>1. /\ enabled' = ~enabled /\ known' = TRUE
      /\ UNCHANGED <<groupchat, offered, prepared, session, on, fit>>
  BY DEF O!setEnabled
<1>2. /\ O!OmemoTypeOK /\ toUi \in Seq(OmemoSays(groupchat)) /\ (~up => AllUnsent(toUi))
      /\ (session => Right(toUi, on, fit))
  BY DEF OmemoInv
<1>3. \E f \in OmemoAsks(groupchat), K \in {{}, {"switch"}} : Switches(f) /\ O!send(toUi, K, <<f>>)
  <2>1. CASE groupchat
    <3> DEFINE f == O!Call("switch", enabled')
    <3>1. f \in OmemoAsks(groupchat) /\ Switches(f)
      BY <1>1, <2>1 DEF O!Call, OmemoAsks, OmemoBodies, Frames, Kinds, Switches
    <3>2. O!send(toUi, {"switch"}, <<f>>)
      BY <2>1 DEF O!setEnabled
    <3> QED BY <3>1, <3>2
  <2>2. CASE ~groupchat
    <3> DEFINE f == O!Frame("set", enabled')
    <3>1. f \in OmemoAsks(groupchat) /\ Switches(f)
      BY <1>1, <2>2 DEF O!Frame, OmemoAsks, OmemoBodies, Frames, Kinds, Switches
    <3>2. O!send(toUi, {}, <<f>>)
      BY <2>2 DEF O!setEnabled, O!notify
    <3> QED BY <3>1, <3>2
  <2> QED BY <2>1, <2>2
<1>4. PICK f \in OmemoAsks(groupchat), K \in {{}, {"switch"}} : Switches(f) /\ O!send(toUi, K, <<f>>)
  BY <1>3
<1> DEFINE fs == <<f>>
<1>5. fs \in Seq(OmemoAsks(groupchat)) /\ Len(fs) <= 1 /\ O!send(toUi, K, fs) /\ Switching(fs)
  <2>1. Switching(<<f>>)
    BY <1>4, RightFew
  <2> QED BY <1>4, <2>1
<1> HIDE DEF fs
<1>6. /\ up' = up /\ O!WireTypeOK'
      /\ toTacky' \in Seq(OmemoAsks(groupchat)) /\ toUi' \in Seq(OmemoSays(groupchat))
      /\ ~up => AllUnsent(toUi')
      /\ \A n, t : Right(toUi, n, t) => Right(toUi', n, t)
      /\ up => Switching(toTacky')
  BY <1>2, <1>5, OmemoSends
<1>7. O!OmemoTypeOK'
  BY <1>1, <1>2, <1>6 DEF O!OmemoTypeOK
<1>8. OmemoSettles'
  BY <1>6 DEF OmemoSettles
<1> QED BY <1>1, <1>2, <1>6, <1>7, <1>8 DEF OmemoInv

\* What is learnt is so, or will be put right.
LEMMA LearnKeeps ==
    ASSUME OmemoInv, toUi # <<>>, NEW st, st.enabled \in BOOLEAN, st.offered \in BOOLEAN,
           NEW K, O!Learn(st, K),
           session => \/ st.enabled = on /\ (groupchat => st.offered = fit)
                      \/ Mends(Tail(toUi))
    PROVE  OmemoInv'
<1> DEFINE in == Tail(toUi)
           asks == enabled' /\ ~prepared /\ (~groupchat \/ offered')
           r == O!Bare("prepare")
           fs == IF asks THEN <<r>> ELSE <<>>
<1>1. /\ known' = TRUE /\ enabled' = st.enabled
      /\ offered' = (IF groupchat THEN st.offered ELSE offered)
      /\ prepared' = (prepared \/ asks) /\ O!send(in, K, fs)
      /\ UNCHANGED <<groupchat, session, on, fit>>
  BY DEF O!Learn, O!Rest
<1>2. O!OmemoTypeOK
  BY DEF OmemoInv
<1>3. r \in OmemoAsks(groupchat)
  BY DEF O!Bare, O!Frame, OmemoAsks, OmemoBodies, Frames, Kinds
<1>4. prepared' \in BOOLEAN /\ offered' \in BOOLEAN
  BY <1>1, <1>2 DEF O!OmemoTypeOK
<1> HIDE DEF r, asks
<1>5. fs \in Seq(OmemoAsks(groupchat)) /\ Len(fs) <= 1
  <2>1. CASE asks
    BY <1>3, <2>1
  <2>2. CASE ~asks
    BY <2>2
  <2> QED BY <2>1, <2>2
<1>6. /\ in \in Seq(OmemoSays(groupchat)) /\ (~up => AllUnsent(in))
      /\ session => Right(in, on, fit)
  BY OmemoTakes
<1> HIDE DEF fs, in
<1>7. /\ up' = up /\ O!WireTypeOK'
      /\ toTacky' \in Seq(OmemoAsks(groupchat)) /\ toUi' \in Seq(OmemoSays(groupchat))
      /\ ~up => AllUnsent(toUi')
      /\ \A n, t : Right(in, n, t) => Right(toUi', n, t)
      /\ up /\ Mends(in) => Mends(toUi')
  BY <1>1, <1>5, <1>6, OmemoSends
<1>8. O!OmemoTypeOK'
  BY <1>1, <1>2, <1>4, <1>7 DEF O!OmemoTypeOK
<1>9. OmemoSettles'
  <2> SUFFICES ASSUME up, session
               PROVE  (enabled' = on' /\ (groupchat' => offered' = fit')) \/ Mends(toUi')
    BY <1>1, <1>7 DEF OmemoSettles
  <2>1. CASE st.enabled = on /\ (groupchat => st.offered = fit)
    BY <1>1, <2>1
  <2>2. CASE Mends(in)
    BY <1>7, <2>2
  <2> QED BY <2>1, <2>2 DEF in
<1> QED BY <1>1, <1>6, <1>7, <1>8, <1>9 DEF OmemoInv

\* A frame that is not followed was not waited for.
LEMMA IgnoreKeeps ==
    ASSUME OmemoInv, toUi # <<>>, O!Ignore,
           ~Informs(Head(toUi).kind), ~Refuses(Head(toUi))
    PROVE  OmemoInv'
<1>1. /\ UNCHANGED <<groupchat, known, enabled, offered, prepared, session, on, fit>> /\ Took
  BY OmemoWire DEF O!Ignore, O!omemoVars
<1>2. /\ O!OmemoTypeOK /\ O!WireTypeOK /\ OmemoSettles
      /\ toTacky \in Seq(OmemoAsks(groupchat)) /\ toUi \in Seq(OmemoSays(groupchat))
  BY DEF OmemoInv, O!OmemoTypeOK
<1>3. toTacky \in Seq(Frames(OmemoBodies)) /\ toUi \in Seq(Frames(OmemoBodies))
  BY <1>2, OmemoFrames
<1>4. up' = up /\ drops' = drops /\ toTacky' = toTacky /\ toUi' = Tail(toUi)
  BY <1>1, <1>3, TookIs
<1>5. /\ toUi' \in Seq(OmemoSays(groupchat)) /\ (~up => AllUnsent(toUi'))
      /\ session => Right(toUi', on, fit)
      /\ Mends(toUi) <=> Mends(toUi')
      /\ Refused(toUi) <=> Refused(toUi')
  BY <1>4, OmemoTakes
<1>6. O!WireTypeOK'
  BY <1>2, <1>4, <1>5, OmemoFrames DEF O!WireTypeOK
<1>7. O!OmemoTypeOK'
  BY <1>1, <1>2, <1>6 DEF O!OmemoTypeOK
<1>8. OmemoSettles'
  BY <1>1, <1>2, <1>4, <1>5 DEF OmemoSettles
<1> QED BY <1>1, <1>2, <1>4, <1>5, <1>7, <1>8 DEF OmemoInv

LEMMA OmemoHeard ==
    ASSUME OmemoInv, toUi # <<>>, NEW k, O!Arrives(k)
    PROVE  Head(toUi).kind = k /\ Head(toUi) \in OmemoSays(groupchat)
BY OmemoTakes DEF O!Arrives

LEMMA ReadKeeps == OmemoInv /\ (O!OmemoRead \/ O!OmemoUnread) => OmemoInv'
<1> SUFFICES ASSUME OmemoInv, O!OmemoRead \/ O!OmemoUnread PROVE OmemoInv'
  OBVIOUS
<1> DEFINE f == Head(toUi)
<1>1. toUi # <<>> /\ f.kind = "padlock"
  BY DEF O!OmemoRead, O!OmemoUnread, O!Arrives
<1>2. \/ O!Ignore
      \/ f.live /\ f.is \notin {"error", "unsent"} /\ O!Learn(f.body, {})
  BY DEF O!OmemoRead, O!OmemoUnread, O!Fails, O!Given
<1>3. /\ f \in OmemoSays(groupchat)
      /\ session => SaysSo(f, on, fit) \/ Mends(Tail(toUi))
  BY <1>1, OmemoTakes
<1> HIDE DEF f
<1>4. CASE O!Ignore
  <2>1. ~Informs(f.kind) /\ ~Refuses(f)
    BY <1>1 DEF Informs, Refuses
  <2> QED BY <1>1, <1>4, <2>1, IgnoreKeeps DEF f
<1>5. CASE f.live /\ f.is \notin {"error", "unsent"} /\ O!Learn(f.body, {})
  <2>1. f.is = "result" /\ f.body \in Statuses
    BY <1>1, <1>3, <1>5 DEF OmemoSays
  <2>2. f.body.enabled \in BOOLEAN /\ f.body.offered \in BOOLEAN
    BY <2>1 DEF Statuses
  <2>3. SaysSo(f, on, fit) => f.body.enabled = on /\ f.body.offered = fit
    BY <1>1, <1>5, <2>1 DEF SaysSo
  <2>4. session => \/ f.body.enabled = on /\ (groupchat => f.body.offered = fit)
                   \/ Mends(Tail(toUi))
    BY <1>3, <2>3
  <2> QED BY <1>1, <1>5, <2>2, <2>4, LearnKeeps
<1> QED BY <1>2, <1>4, <1>5

LEMMA SwitchAnsweredKeeps == OmemoInv /\ O!SwitchAnswered => OmemoInv'
<1> SUFFICES ASSUME OmemoInv, O!SwitchAnswered PROVE OmemoInv'
  OBVIOUS
<1> DEFINE f == Head(toUi)
<1>1. toUi # <<>> /\ f.kind = "switch"
  BY DEF O!SwitchAnswered, O!Arrives
<1>2. /\ f.live /\ f.is \in {"error", "unsent"} => O!refresh(Tail(toUi))
      /\ ~(f.live /\ f.is \in {"error", "unsent"}) => O!Ignore
  BY DEF O!SwitchAnswered, O!Fails, O!Given, O!Rest
<1>3. /\ f \in OmemoSays(groupchat) /\ Tail(toUi) \in Seq(OmemoSays(groupchat))
      /\ ~up => AllUnsent(Tail(toUi))
      /\ session => Right(Tail(toUi), on, fit)
  BY <1>1, OmemoTakes
<1> HIDE DEF f
<1>4. CASE f.live /\ f.is \in {"error", "unsent"}
  BY <1>2, <1>3, <1>4, RefreshKeeps
<1>5. CASE ~(f.live /\ f.is \in {"error", "unsent"})
  <2>1. ~Informs(f.kind) /\ ~Refuses(f)
    BY <1>1, <1>3, <1>5 DEF Informs, Refuses, OmemoSays
  <2> QED BY <1>1, <1>2, <1>5, <2>1, IgnoreKeeps DEF f
<1> QED BY <1>4, <1>5

LEMMA NewsKeeps == OmemoInv /\ (O!OnEnabled \/ O!OnRoomStatus) => OmemoInv'
<1> SUFFICES ASSUME OmemoInv, O!OnEnabled \/ O!OnRoomStatus PROVE OmemoInv'
  OBVIOUS
<1> DEFINE f == Head(toUi)
<1>1. toUi # <<>>
  BY DEF O!OnEnabled, O!OnRoomStatus, O!Arrives
<1>2. /\ f \in OmemoSays(groupchat) /\ O!OmemoTypeOK
      /\ session => SaysSo(f, on, fit) \/ Mends(Tail(toUi))
  BY <1>1, OmemoTakes DEF OmemoInv
<1>3. CASE O!OnEnabled
  <2> DEFINE st == [enabled |-> f.body, offered |-> offered]
  <2>1. f.kind = "Enabled" /\ O!Learn(st, {"padlock"})
    BY <1>3 DEF O!OnEnabled, O!Arrives, O!Given
  <2> HIDE DEF f
  <2>2. ~groupchat /\ f.body \in BOOLEAN /\ offered \in BOOLEAN
    BY <1>2, <2>1 DEF OmemoSays, O!OmemoTypeOK
  <2>3. st.enabled = f.body /\ st.offered = offered
    OBVIOUS
  <2> HIDE DEF st
  <2>4. SaysSo(f, on, fit) => st.enabled = on
    BY <2>1, <2>3 DEF SaysSo
  <2>5. session => \/ st.enabled = on /\ (groupchat => st.offered = fit)
                   \/ Mends(Tail(toUi))
    BY <1>2, <2>2, <2>4
  <2> QED BY <1>1, <2>1, <2>2, <2>3, <2>5, LearnKeeps
<1>4. CASE O!OnRoomStatus
  <2>1. f.kind = "RoomStatus"
    BY <1>4 DEF O!OnRoomStatus, O!Arrives
  <2>2. groupchat /\ f.body \in Statuses
    BY <1>2, <2>1 DEF OmemoSays
  <2>3. O!Learn(f.body, {"padlock"})
    BY <1>4, <2>2 DEF O!OnRoomStatus, O!Given
  <2> HIDE DEF f
  <2>4. f.body.enabled \in BOOLEAN /\ f.body.offered \in BOOLEAN
    BY <2>2 DEF Statuses
  <2>5. SaysSo(f, on, fit) => f.body.enabled = on /\ f.body.offered = fit
    BY <2>1 DEF SaysSo
  <2>6. session => \/ f.body.enabled = on /\ (groupchat => f.body.offered = fit)
                   \/ Mends(Tail(toUi))
    BY <1>2, <2>5
  <2> QED BY <1>1, <2>3, <2>4, <2>6, LearnKeeps
<1> QED BY <1>3, <1>4

LEMMA OmemoSessionUpKeeps == OmemoInv /\ O!OmemoSessionUp => OmemoInv'
<1> SUFFICES ASSUME OmemoInv, O!OmemoSessionUp PROVE OmemoInv'
  OBVIOUS
<1>1. toUi # <<>> /\ O!refresh(Tail(toUi))
  BY DEF O!OmemoSessionUp, O!Arrives, O!Rest
<1>2. /\ Tail(toUi) \in Seq(OmemoSays(groupchat)) /\ (~up => AllUnsent(Tail(toUi)))
      /\ session => Right(Tail(toUi), on, fit)
  BY <1>1, OmemoTakes
<1> QED BY <1>1, <1>2, RefreshKeeps

LEMMA OmemoAttachKeeps == OmemoInv /\ O!OmemoAttach => OmemoInv'
<1> SUFFICES ASSUME OmemoInv, O!OmemoAttach PROVE OmemoInv'
  OBVIOUS
<1> DEFINE K == {"padlock", "switch"}
           r == O!Read
<1>1. /\ ~up /\ up' = TRUE /\ drops' = drops /\ toTacky' = <<r>> /\ toUi' = Stale(toUi, K)
      /\ known' = FALSE /\ offered' = FALSE /\ prepared' = FALSE
      /\ UNCHANGED <<groupchat, enabled, session, on, fit>>
  BY DEF O!OmemoAttach, O!Comes, O!Forget, O!Stale, Stale
<1>2. /\ O!OmemoTypeOK /\ O!WireTypeOK /\ toUi \in Seq(OmemoSays(groupchat))
      /\ session => Right(toUi, on, fit)
  BY DEF OmemoInv, O!OmemoTypeOK
<1>3. r \in OmemoAsks(groupchat)
  BY <1>2 DEF O!OmemoTypeOK, O!Read, O!Call, OmemoAsks, OmemoBodies, Frames, Kinds
<1> HIDE DEF r, K
<1>4. toTacky' \in Seq(OmemoAsks(groupchat))
  BY <1>1, <1>3
<1>5. toUi' \in Seq(OmemoSays(groupchat)) /\ toUi \in Seq(Frames(OmemoBodies))
  <2>1. /\ OmemoSays(groupchat) \subseteq Frames(OmemoBodies)
        /\ \A f \in OmemoSays(groupchat) : [f EXCEPT !.live = FALSE] \in OmemoSays(groupchat)
    BY OmemoFrames
  <2> QED BY <1>1, <1>2, <2>1, StaleIn
<1>6. session => Right(toUi', on, fit)
  BY <1>1, <1>2, <1>5, RightStale
<1>7. O!WireTypeOK'
  BY <1>1, <1>2, <1>4, <1>5, OmemoFrames DEF O!WireTypeOK
<1>8. O!OmemoTypeOK'
  BY <1>1, <1>2, <1>7 DEF O!OmemoTypeOK
<1>9. OmemoSettles'
  BY <1>1 DEF OmemoSettles
<1> QED BY <1>1, <1>4, <1>5, <1>6, <1>8, <1>9 DEF OmemoInv

LEMMA OmemoDropKeeps == OmemoInv /\ O!OmemoDrop => OmemoInv'
<1> SUFFICES ASSUME OmemoInv, O!OmemoDrop PROVE OmemoInv'
  OBVIOUS
<1>1. /\ up' = FALSE /\ drops' = drops + 1 /\ drops < MaxDrop /\ toTacky' = <<>> /\ toUi' = <<>>
      /\ UNCHANGED <<groupchat, known, enabled, offered, prepared, session, on, fit>>
  BY DEF O!OmemoDrop, O!Lost, O!omemoVars
<1>2. O!OmemoTypeOK /\ drops \in 0..MaxDrop /\ MaxDrop \in Nat
  BY ChatsAssumption DEF OmemoInv, O!OmemoTypeOK, O!WireTypeOK
<1>3. drops' \in 0..MaxDrop
  BY <1>1, <1>2
<1>4. toTacky' \in Seq(OmemoAsks(groupchat')) /\ toUi' \in Seq(OmemoSays(groupchat'))
  BY <1>1
<1>5. /\ AllUnsent(toUi') /\ Right(toUi', on', fit')
  BY <1>1, RightFew
<1>6. DOMAIN toTacky' = {} /\ DOMAIN toUi' = {}
  BY <1>1
<1>7. O!WireTypeOK'
  BY <1>1, <1>3, <1>6 DEF O!WireTypeOK
<1>8. O!OmemoTypeOK'
  BY <1>1, <1>2, <1>7 DEF O!OmemoTypeOK
<1>9. OmemoSettles'
  BY <1>1 DEF OmemoSettles
<1> QED BY <1>4, <1>5, <1>8, <1>9 DEF OmemoInv

\* tacky's frames go behind the others: what it says once its switch has moved
\* outranks all that it said before.
LEMMA TackyKeeps ==
    ASSUME OmemoInv, up, up' = up, drops' = drops, toTacky' \in Seq(OmemoAsks(groupchat)),
           NEW gs \in Seq(OmemoSays(groupchat)), toUi' = toUi \o gs,
           UNCHANGED <<groupchat, known, enabled, offered, prepared>>,
           session' \in BOOLEAN, on' \in BOOLEAN, fit' \in BOOLEAN,
           session' => /\ Right(gs, on', fit')
                       /\ Mends(gs) \/ (session /\ on' = on /\ fit' = fit),
           \/ ~session' \/ Mends(gs)
           \/ Switching(toTacky) => Switching(toTacky') \/ Refused(gs)
    PROVE  OmemoInv'
<1>1. /\ O!OmemoTypeOK /\ O!WireTypeOK /\ toUi \in Seq(OmemoSays(groupchat))
      /\ session => Right(toUi, on, fit)
      /\ OmemoSettles
  BY DEF OmemoInv, O!OmemoTypeOK
<1>2. toUi' \in Seq(OmemoSays(groupchat))
  BY <1>1, Joined
<1>3. /\ \A n, t : Right(gs, n, t) /\ (Right(toUi, n, t) \/ Mends(gs)) => Right(toUi \o gs, n, t)
      /\ Mends(toUi \o gs) <=> Mends(toUi) \/ Mends(gs)
      /\ Refused(toUi \o gs) <=> Refused(toUi) \/ Refused(gs)
  BY <1>1, RightJoined
<1>4. session' => Right(toUi', on', fit')
  BY <1>1, <1>3
<1>5. OmemoSettles'
  <2> SUFFICES ASSUME session', known', ~Mends(gs)
               PROVE  \/ enabled' = on' /\ (groupchat' => offered' = fit')
                      \/ Mends(toUi') \/ Switching(toTacky') \/ Refused(toUi')
    BY <1>3 DEF OmemoSettles
  <2>1. session /\ known /\ on' = on /\ fit' = fit
    OBVIOUS
  <2>2. \/ enabled = on /\ (groupchat => offered = fit)
        \/ Mends(toUi) \/ Switching(toTacky) \/ Refused(toUi)
    BY <1>1, <2>1 DEF OmemoSettles
  <2> QED BY <1>3, <2>1, <2>2
<1>6. O!WireTypeOK'
  BY <1>1, <1>2, OmemoFrames DEF O!WireTypeOK
<1>7. O!OmemoTypeOK'
  BY <1>1, <1>6 DEF O!OmemoTypeOK
<1> QED BY <1>2, <1>4, <1>5, <1>7 DEF OmemoInv

LEMMA OmemoAsked ==
    ASSUME OmemoInv, toTacky # <<>>
    PROVE  /\ up /\ Head(toTacky) \in OmemoAsks(groupchat) /\ Head(toTacky) \in Frames(OmemoBodies)
           /\ Tail(toTacky) \in Seq(OmemoAsks(groupchat))
           /\ Switching(toTacky) <=> Switches(Head(toTacky)) \/ Switching(Tail(toTacky))
           /\ toUi \o <<>> = toUi
           /\ O!Refusal \in OmemoSays(groupchat) \/ Head(toTacky).kind \in {"set", "prepare"}
           /\ O!Refusal.kind = Head(toTacky).kind /\ O!Refusal.is = "error"
           /\ O!Refusal.live = Head(toTacky).live
           /\ \A b \in OmemoBodies :
                /\ O!Result(b).kind = Head(toTacky).kind /\ O!Result(b).is = "result"
                /\ O!Result(b).body = b /\ O!Result(b) \in Frames(OmemoBodies)
<1> DEFINE f == Head(toTacky)
<1>1. /\ toTacky \in Seq(OmemoAsks(groupchat)) /\ toUi \in Seq(OmemoSays(groupchat))
      /\ O!WireTypeOK
  BY DEF OmemoInv, O!OmemoTypeOK
<1>2. /\ f \in OmemoAsks(groupchat) /\ Tail(toTacky) \in Seq(OmemoAsks(groupchat))
      /\ Switching(toTacky) <=> Switches(f) \/ Switching(Tail(toTacky))
  BY <1>1, Taken, RightTail
<1>3. up /\ toUi \o <<>> = toUi
  BY <1>1 DEF O!WireTypeOK
<1>4. f \in Frames(OmemoBodies)
  BY <1>2, OmemoFrames
<1>5. O!Refusal = [f EXCEPT !.is = "error"]
  BY DEF O!Refusal, O!Asked
<1>6. \A b : O!Result(b) = [f EXCEPT !.is = "result", !.body = b]
  BY DEF O!Result, O!Asked
<1> HIDE DEF f
<1>7. /\ O!Refusal \in Frames(OmemoBodies) /\ O!Refusal.kind = f.kind /\ O!Refusal.is = "error"
      /\ O!Refusal.live = f.live
  BY <1>4, <1>5 DEF Frames
<1>8. O!Refusal \in OmemoSays(groupchat) \/ f.kind \in {"set", "prepare"}
  BY <1>2, <1>7 DEF OmemoAsks, OmemoSays
<1>9. \A b \in OmemoBodies :
         /\ O!Result(b).kind = f.kind /\ O!Result(b).is = "result"
         /\ O!Result(b).body = b /\ O!Result(b) \in Frames(OmemoBodies)
  BY <1>4, <1>6 DEF Frames
<1> QED BY <1>2, <1>3, <1>4, <1>7, <1>8, <1>9 DEF f

LEMMA NewsIs ==
    ASSUME session', on' \in BOOLEAN, fit' \in BOOLEAN, groupchat \in BOOLEAN
    PROVE  /\ O!News \in OmemoSays(groupchat) /\ Informs(O!News.kind) /\ SaysSo(O!News, on', fit')
           /\ <<O!News>> \in Seq(OmemoSays(groupchat))
           /\ Mends(<<O!News>>) /\ Right(<<O!News>>, on', fit')
<1>1. O!Status' = [enabled |-> on', offered |-> fit']
  BY DEF O!Status
<1>2. O!News \in OmemoSays(groupchat) /\ Informs(O!News.kind) /\ SaysSo(O!News, on', fit')
  <2>1. CASE groupchat
    <3> DEFINE b == [enabled |-> on', offered |-> fit']
               f == O!Frame("RoomStatus", b)
    <3>1. O!News = f
      BY <1>1, <2>1 DEF O!News
    <3>2. b \in Statuses
      BY DEF Statuses
    <3> HIDE DEF b
    <3>3. /\ f \in Frames(OmemoBodies) /\ f.kind = "RoomStatus" /\ f.is = "sent" /\ f.body = b
      BY <3>2 DEF O!Frame, Frames, Kinds, OmemoBodies
    <3> HIDE DEF f
    <3>4. f \in OmemoSays(groupchat) /\ Informs(f.kind)
      BY <2>1, <3>2, <3>3 DEF OmemoSays, Informs
    <3>5. SaysSo(f, on', fit')
      BY <3>3 DEF SaysSo, b
    <3> QED BY <3>1, <3>4, <3>5
  <2>2. CASE ~groupchat
    <3> DEFINE f == O!Frame("Enabled", on')
    <3>1. O!News = f
      BY <2>2 DEF O!News
    <3>2. /\ f \in Frames(OmemoBodies) /\ f.kind = "Enabled" /\ f.is = "sent" /\ f.body = on'
      BY DEF O!Frame, Frames, Kinds, OmemoBodies
    <3> HIDE DEF f
    <3>3. f \in OmemoSays(groupchat) /\ Informs(f.kind) /\ SaysSo(f, on', fit')
      BY <2>2, <3>2 DEF OmemoSays, Informs, SaysSo
    <3> QED BY <3>1, <3>3
  <2> QED BY <2>1, <2>2
<1> HIDE DEF O!News
<1>3. Mends(<<O!News>>) /\ Right(<<O!News>>, on', fit')
  BY <1>2, RightFew
<1> QED BY <1>2, <1>3

LEMMA ReadsSwitchKeeps == OmemoInv /\ O!TackyReadsSwitch => OmemoInv'
<1> SUFFICES ASSUME OmemoInv, O!TackyReadsSwitch PROVE OmemoInv'
  OBVIOUS
<1>1. /\ toTacky # <<>> /\ Head(toTacky).kind = "padlock" /\ toTacky' = Tail(toTacky)
      /\ up' = up /\ drops' = drops
      /\ UNCHANGED <<groupchat, known, enabled, offered, prepared, session, on, fit>>
      /\ toUi' = toUi \o <<O!Result(O!Status)>> \/ toUi' = toUi \o <<O!Refusal>>
  BY DEF O!TackyReadsSwitch, O!Takes, O!Says, O!Ours
<1>2. session \in BOOLEAN /\ on \in BOOLEAN /\ fit \in BOOLEAN /\ groupchat \in BOOLEAN
  BY DEF OmemoInv, O!OmemoTypeOK
<1>3. O!Status \in Statuses /\ (session => O!Status = [enabled |-> on, offered |-> fit])
  BY <1>2 DEF O!Status, Statuses
<1>4. \E g \in OmemoSays(groupchat) :
         toUi' = toUi \o <<g>> /\ (session => SaysSo(g, on, fit))
  <2>1. CASE toUi' = toUi \o <<O!Result(O!Status)>>
    <3> DEFINE g == O!Result(O!Status)
    <3>1. /\ g.kind = "padlock" /\ g.is = "result" /\ g.body = O!Status /\ g \in Frames(OmemoBodies)
      BY <1>1, <1>3, OmemoAsked DEF OmemoBodies
    <3> HIDE DEF g
    <3>2. g \in OmemoSays(groupchat) /\ (session => SaysSo(g, on, fit))
      BY <1>3, <3>1 DEF OmemoSays, SaysSo
    <3> QED BY <2>1, <3>2 DEF g
  <2>2. CASE toUi' = toUi \o <<O!Refusal>>
    <3>1. O!Refusal \in OmemoSays(groupchat) /\ O!Refusal.kind = "padlock" /\ O!Refusal.is = "error"
      BY <1>1, OmemoAsked
    <3>2. SaysSo(O!Refusal, on, fit)
      BY <3>1 DEF SaysSo
    <3> QED BY <2>2, <3>1, <3>2
  <2> QED BY <1>1, <2>1, <2>2
<1>5. PICK g \in OmemoSays(groupchat) :
         toUi' = toUi \o <<g>> /\ (session => SaysSo(g, on, fit))
  BY <1>4
<1> DEFINE gs == <<g>>
<1>6. gs \in Seq(OmemoSays(groupchat)) /\ (session => Right(gs, on, fit)) /\ toUi' = toUi \o gs
  BY <1>5, RightFew
<1> HIDE DEF gs
<1>7. /\ up /\ toTacky' \in Seq(OmemoAsks(groupchat))
      /\ Switching(toTacky) => Switching(toTacky')
  BY <1>1, OmemoAsked DEF Switches
<1>8. session' => /\ Right(gs, on', fit')
                  /\ Mends(gs) \/ (session /\ on' = on /\ fit' = fit)
  BY <1>1, <1>6
<1> QED BY <1>1, <1>2, <1>6, <1>7, <1>8, TackyKeeps

LEMMA SwitchesKeeps == OmemoInv /\ O!TackySwitches => OmemoInv'
<1> SUFFICES ASSUME OmemoInv, O!TackySwitches PROVE OmemoInv'
  OBVIOUS
<1> DEFINE f == Head(toTacky)
           more == IF O!IsCall(f) THEN <<O!Result(Nil)>> ELSE <<>>
<1>1. /\ toTacky # <<>> /\ f.kind \in {"set", "switch"} /\ toTacky' = Tail(toTacky)
      /\ up' = up /\ drops' = drops
      /\ UNCHANGED <<groupchat, known, enabled, offered, prepared, session, fit>>
  BY DEF O!TackySwitches, O!Takes, O!Says, O!Ours
<1>2. /\ session \in BOOLEAN /\ on \in BOOLEAN /\ fit \in BOOLEAN /\ groupchat \in BOOLEAN
      /\ toUi \in Seq(OmemoSays(groupchat))
  BY DEF OmemoInv, O!OmemoTypeOK
<1>3. \/ session /\ on' = f.body /\ toUi' = toUi \o (<<O!News>> \o more)
      \/ O!IsCall(f) /\ on' = on /\ toUi' = toUi \o <<O!Refusal>>
      \/ ~O!IsCall(f) /\ ~session /\ on' = on /\ toUi' = toUi \o <<>>
  BY DEF O!TackySwitches, O!Says, O!Asked
<1>4. /\ up /\ f \in OmemoAsks(groupchat) /\ toTacky' \in Seq(OmemoAsks(groupchat))
      /\ Switching(toTacky) <=> Switches(f) \/ Switching(toTacky')
      /\ O!Refusal \in OmemoSays(groupchat) \/ f.kind \in {"set", "prepare"}
      /\ O!Refusal.kind = f.kind /\ O!Refusal.is = "error" /\ O!Refusal.live = f.live
      /\ O!Result(Nil).kind = f.kind /\ O!Result(Nil).is = "result" /\ O!Result(Nil) \in Frames(OmemoBodies)
  BY <1>1, OmemoAsked DEF OmemoBodies
<1> HIDE DEF f
<1>5. f.body \in BOOLEAN /\ (O!IsCall(f) => f.kind = "switch")
  BY <1>1, <1>4 DEF OmemoAsks, O!IsCall
<1>6. CASE session /\ on' = f.body /\ toUi' = toUi \o (<<O!News>> \o more)
  <2>1. /\ <<O!News>> \in Seq(OmemoSays(groupchat))
        /\ Mends(<<O!News>>) /\ Right(<<O!News>>, on', fit')
    BY <1>1, <1>2, <1>5, <1>6, NewsIs
  <2>2. more \in Seq(OmemoSays(groupchat)) /\ Right(more, on', fit')
    <3>1. CASE O!IsCall(f)
      <4> DEFINE r == O!Result(Nil)
      <4>1. r.kind = "switch" /\ r.is = "result" /\ r \in Frames(OmemoBodies)
        BY <1>4, <1>5, <3>1
      <4> HIDE DEF r
      <4>2. r \in OmemoSays(groupchat) /\ SaysSo(r, on', fit')
        BY <4>1 DEF OmemoSays, SaysSo
      <4>3. <<r>> \in Seq(OmemoSays(groupchat)) /\ Right(<<r>>, on', fit')
        BY <4>2, RightFew
      <4> QED BY <3>1, <4>3 DEF r
    <3>2. CASE ~O!IsCall(f)
      <4>1. more = <<>>
        BY <3>2
      <4> HIDE DEF more
      <4> QED BY <4>1, RightNone
    <3> QED BY <3>1, <3>2
  <2> HIDE DEF more
  <2> DEFINE gs == <<O!News>> \o more
  <2>3. gs \in Seq(OmemoSays(groupchat))
    BY <2>1, <2>2, Joined
  <2>4. Right(gs, on', fit') /\ Mends(gs)
    BY <2>1, <2>2, RightJoined
  <2>5. toUi' = toUi \o gs
    BY <1>6
  <2> HIDE DEF gs
  <2>6. session' \in BOOLEAN /\ on' \in BOOLEAN /\ fit' \in BOOLEAN
    BY <1>1, <1>2, <1>5, <1>6
  <2> QED BY <1>1, <1>4, <2>3, <2>4, <2>5, <2>6, TackyKeeps
<1>7. CASE O!IsCall(f) /\ on' = on /\ toUi' = toUi \o <<O!Refusal>>
  <2> DEFINE gs == <<O!Refusal>>
  <2>1. O!Refusal \in OmemoSays(groupchat) /\ O!Refusal.kind = "switch"
    BY <1>4, <1>5, <1>7
  <2>2. \A n, t : SaysSo(O!Refusal, n, t)
    BY <1>4, <2>1 DEF SaysSo
  <2>3. gs \in Seq(OmemoSays(groupchat)) /\ toUi' = toUi \o gs
    BY <1>7, <2>1
  <2>4. \A n, t : Right(gs, n, t)
    BY <2>2, RightFew
  <2>5. Switches(f) => Refused(gs)
    <3>1. Switches(f) => Refuses(O!Refusal)
      BY <1>4, <1>5, <1>7 DEF Switches, Refuses
    <3> QED BY <3>1, RightFew
  <2> HIDE DEF gs
  <2>6. session' \in BOOLEAN /\ on' \in BOOLEAN /\ fit' \in BOOLEAN
    BY <1>1, <1>2, <1>7
  <2>7. Switching(toTacky) => Switching(toTacky') \/ Refused(gs)
    BY <1>4, <2>5
  <2>8. session' => Right(gs, on', fit') /\ (Mends(gs) \/ (session /\ on' = on /\ fit' = fit))
    BY <1>1, <1>7, <2>4
  <2> QED BY <1>1, <1>4, <2>3, <2>6, <2>7, <2>8, TackyKeeps
<1>8. CASE ~O!IsCall(f) /\ ~session /\ on' = on /\ toUi' = toUi \o <<>>
  <2>1. <<>> \in Seq(OmemoSays(groupchat))
    OBVIOUS
  <2>2. session' \in BOOLEAN /\ on' \in BOOLEAN /\ fit' \in BOOLEAN /\ ~session'
    BY <1>1, <1>2, <1>8
  <2> QED BY <1>1, <1>4, <1>8, <2>1, <2>2, TackyKeeps
<1> QED BY <1>3, <1>6, <1>7, <1>8

LEMMA PreparesKeeps == OmemoInv /\ O!TackyPrepares => OmemoInv'
<1> SUFFICES ASSUME OmemoInv, O!TackyPrepares PROVE OmemoInv'
  OBVIOUS
<1>1. /\ toTacky # <<>> /\ Head(toTacky).kind = "prepare" /\ toTacky' = Tail(toTacky)
      /\ up' = up /\ drops' = drops /\ toUi' = toUi \o <<>>
      /\ UNCHANGED <<groupchat, known, enabled, offered, prepared, session, on, fit>>
  BY DEF O!TackyPrepares, O!Takes, O!Says, O!Ours
<1>2. session' \in BOOLEAN /\ on' \in BOOLEAN /\ fit' \in BOOLEAN
  BY <1>1 DEF OmemoInv, O!OmemoTypeOK
<1>3. /\ up /\ toTacky' \in Seq(OmemoAsks(groupchat))
      /\ Switching(toTacky) => Switching(toTacky')
  BY <1>1, OmemoAsked DEF Switches
<1>4. <<>> \in Seq(OmemoSays(groupchat)) /\ Right(<<>>, on', fit')
  BY RightNone
<1> QED BY <1>1, <1>2, <1>3, <1>4, TackyKeeps

\* What tacky says of its own accord, where there is a link to say it on.
LEMMA TellsKeeps ==
    ASSUME OmemoInv, NEW g \in OmemoSays(groupchat), O!Tells(<<g>>), Informs(g.kind),
           UNCHANGED <<groupchat, known, enabled, offered, prepared>>,
           session', session' \in BOOLEAN, on' \in BOOLEAN, fit' \in BOOLEAN, SaysSo(g, on', fit')
    PROVE  OmemoInv'
<1>1. /\ up' = up /\ toTacky' = toTacky /\ drops' = drops
      /\ up => toUi' = toUi \o <<g>>
      /\ ~up => toUi' = toUi
  BY DEF O!Tells, O!Post
<1> DEFINE gs == <<g>>
<1>2. gs \in Seq(OmemoSays(groupchat)) /\ Right(gs, on', fit') /\ Mends(gs)
  BY RightFew
<1>3. toTacky \in Seq(OmemoAsks(groupchat))
  BY DEF OmemoInv
<1>4. CASE up
  <2>1. toUi' = toUi \o gs
    BY <1>1, <1>4
  <2> HIDE DEF gs
  <2> QED BY <1>1, <1>2, <1>3, <1>4, <2>1, TackyKeeps
<1>5. CASE ~up
  <2>1. /\ O!OmemoTypeOK /\ O!WireTypeOK /\ toUi \in Seq(OmemoSays(groupchat)) /\ AllUnsent(toUi)
    BY <1>5 DEF OmemoInv, O!OmemoTypeOK
  <2>2. Right(toUi, on', fit')
    <3>1. \A i \in 1..Len(toUi) : toUi[i] \in OmemoSays(groupchat) /\ toUi[i].is = "unsent"
      BY <2>1 DEF AllUnsent
    <3>2. \A i \in 1..Len(toUi) : SaysSo(toUi[i], on', fit')
      BY <3>1 DEF SaysSo, OmemoSays
    <3> QED BY <3>2 DEF Right
  <2>3. OmemoSettles'
    BY <1>1, <1>5 DEF OmemoSettles
  <2>4. O!OmemoTypeOK'
    BY <1>1, <1>5, <2>1 DEF O!OmemoTypeOK, O!WireTypeOK
  <2> QED BY <1>1, <1>3, <1>5, <2>1, <2>2, <2>3, <2>4 DEF OmemoInv
<1> QED BY <1>4, <1>5

LEMMA OmemoStoreKeeps == OmemoInv /\ (O!SessionUp \/ O!SessionDown \/ O!RoomMoves) => OmemoInv'
<1> SUFFICES ASSUME OmemoInv, O!SessionUp \/ O!SessionDown \/ O!RoomMoves PROVE OmemoInv'
  OBVIOUS
<1>1. O!OmemoTypeOK /\ groupchat \in BOOLEAN
  BY DEF OmemoInv, O!OmemoTypeOK
<1>2. CASE O!SessionUp
  <2> DEFINE g == O!Bare("State")
  <2>1. /\ session' = TRUE /\ O!Tells(<<g>>) /\ UNCHANGED <<on, fit>>
        /\ UNCHANGED <<groupchat, known, enabled, offered, prepared>>
    BY <1>2 DEF O!SessionUp, O!Ours
  <2>2. g \in OmemoSays(groupchat) /\ Informs(g.kind) /\ SaysSo(g, on', fit')
    BY DEF O!Bare, O!Frame, OmemoSays, Frames, Kinds, OmemoBodies, Informs, SaysSo
  <2> HIDE DEF g
  <2>3. session' \in BOOLEAN /\ on' \in BOOLEAN /\ fit' \in BOOLEAN
    BY <1>1, <2>1 DEF O!OmemoTypeOK
  <2> QED BY <2>1, <2>2, <2>3, TellsKeeps
<1>3. CASE O!SessionDown
  <2>1. /\ session' = FALSE /\ up' = up /\ drops' = drops /\ toTacky' = toTacky /\ toUi' = toUi
        /\ UNCHANGED <<groupchat, known, enabled, offered, prepared, on, fit>>
    BY <1>3 DEF O!SessionDown, O!Ours, O!wire
  <2>2. O!OmemoTypeOK'
    BY <1>1, <2>1 DEF O!OmemoTypeOK, O!WireTypeOK
  <2>3. OmemoSettles'
    BY <2>1 DEF OmemoSettles
  <2> QED BY <2>1, <2>2, <2>3 DEF OmemoInv
<1>4. CASE O!RoomMoves
  <2>1. /\ session /\ session' = session /\ on' \in BOOLEAN /\ fit' \in BOOLEAN /\ O!Tells(<<O!News>>)
        /\ UNCHANGED <<groupchat, known, enabled, offered, prepared>>
    BY <1>4 DEF O!RoomMoves, O!Ours
  <2>2. session' \in BOOLEAN
    BY <1>1, <2>1 DEF O!OmemoTypeOK
  <2>3. O!News \in OmemoSays(groupchat) /\ Informs(O!News.kind) /\ SaysSo(O!News, on', fit')
    BY <1>1, <2>1, NewsIs
  <2> QED BY <2>1, <2>2, <2>3, TellsKeeps
<1> QED BY <1>2, <1>3, <1>4

LEMMA OmemoStarts == O!OmemoInit => OmemoInv
<1> SUFFICES ASSUME O!OmemoInit PROVE OmemoInv
  OBVIOUS
<1>1. /\ up \in BOOLEAN /\ toTacky = <<>> /\ toUi = <<>> /\ drops = 0
      /\ groupchat \in BOOLEAN /\ known = FALSE /\ enabled = TRUE /\ offered = FALSE
      /\ prepared = FALSE /\ session = FALSE /\ on \in BOOLEAN /\ fit \in BOOLEAN
  BY DEF O!OmemoInit, O!WireInit
<1>2. DOMAIN toTacky = {} /\ DOMAIN toUi = {} /\ 0 \in 0..MaxDrop
  BY <1>1, ChatsAssumption
<1>3. O!OmemoTypeOK
  BY <1>1, <1>2 DEF O!OmemoTypeOK, O!WireTypeOK
<1>4. toTacky \in Seq(OmemoAsks(groupchat)) /\ toUi \in Seq(OmemoSays(groupchat))
  BY <1>1
<1>5. AllUnsent(toUi)
  BY <1>1, RightFew
<1> QED BY <1>1, <1>3, <1>4, <1>5 DEF OmemoInv, OmemoSettles

LEMMA OmemoStep == OmemoInv /\ O!OmemoNext => OmemoInv'
BY ClickKeeps, ReadKeeps, SwitchAnsweredKeeps, NewsKeeps, OmemoSessionUpKeeps, OmemoAttachKeeps,
   OmemoDropKeeps, ReadsSwitchKeeps, SwitchesKeeps, PreparesKeeps, OmemoStoreKeeps
   DEF O!OmemoNext, O!OmemoUser, O!OmemoUi, O!OmemoTacky

LEMMA OmemoGives == OmemoInv => O!OmemoTypeOK /\ O!PadlockTrue
<1> SUFFICES ASSUME OmemoInv PROVE O!OmemoTypeOK /\ O!PadlockTrue
  OBVIOUS
<1>1. ~Mends(<<>>) /\ ~Switching(<<>>) /\ ~Refused(<<>>)
  BY RightNone
<1> QED BY <1>1 DEF OmemoInv, OmemoSettles, O!PadlockTrue, O!QuietWire

-----------------------------------------------------------------------------
(* The parts together.                                                      *)

\* A part that is run keeps its invariant; a session that is not is as it began.
PartsInv ==
    /\ part = "session" => SessionInv
    /\ part # "session" => ~dirty /\ ~viewLoaded /\ row.keys
    /\ part = "omemo" => OmemoInv
    /\ part = "search" => SearchInv
    /\ part = "finder" => FinderInv

LEMMA SessionStays == SessionInv /\ UNCHANGED <<wire, sessionVars>> => SessionInv'
<1> SUFFICES ASSUME SessionInv, UNCHANGED <<wire, sessionVars>> PROVE SessionInv'
  OBVIOUS
<1>1. UNCHANGED <<up, toTacky, toUi, drops>>
  BY DEF wire
<1>2. UNCHANGED <<alive, holds, view, keys, dirty, viewLoaded, row, opened, unsaved, rash, unclosed,
                  scrolled>>
  BY DEF sessionVars
<1>3. S!SessionTypeOK'
  BY <1>1, <1>2 DEF SessionInv, S!SessionTypeOK, S!WireTypeOK, S!Fresh, S!session
<1>4. SessionTyped' /\ Unasked'
  BY <1>1, <1>2 DEF SessionInv, SessionTyped, Unasked, Waits, HasLive
<1>5. OpenInv'
  BY <1>1, <1>2 DEF SessionInv, OpenInv
<1>6. ViewInv'
  BY <1>1, <1>2 DEF SessionInv, ViewInv
<1> QED BY <1>3, <1>4, <1>5, <1>6 DEF SessionInv

LEMMA OmemoStays == OmemoInv /\ UNCHANGED <<wire, omemoVars>> => OmemoInv'
BY DEF OmemoInv, O!OmemoTypeOK, O!WireTypeOK, OmemoSettles, wire, omemoVars

LEMMA SearchStays == SearchInv /\ UNCHANGED <<wire, searchVars>> => SearchInv'
BY DEF SearchInv, Q!SearchTypeOK, Q!WireTypeOK, Q!OneQuestion, Q!Answers, Q!searching, Q!Waits,
       Q!HasLive, WireTimely, wire, searchVars

LEMMA FinderStays == FinderInv /\ UNCHANGED <<wire, finderVars>> => FinderInv'
BY DEF FinderInv, F!FinderTypeOK, F!WireTypeOK, F!Questions, FinderShown, WireCurrent, F!loading,
       F!Waits, F!HasLive, wire, finderVars

LEMMA PartsStart == Init => PartsInv
<1> SUFFICES ASSUME Init PROVE PartsInv
  OBVIOUS
<1>1. SessionInv /\ OmemoInv /\ SearchInv /\ FinderInv
  BY SessionStarts, OmemoStarts, SearchStarts, FinderStarts DEF Init
<1>2. ~dirty /\ ~viewLoaded /\ row.keys
  BY DEF Init, S!SessionInit
<1> QED BY <1>1, <1>2 DEF PartsInv

LEMMA PartsStep == PartsInv /\ [Next]_vars => PartsInv'
<1> SUFFICES ASSUME PartsInv, [Next]_vars PROVE PartsInv'
  OBVIOUS
<1>1. CASE OnlySession /\ S!SessionNext
  BY <1>1, SessionStep DEF PartsInv, OnlySession
<1>2. CASE OnlyComposer /\ ComposerNext
  BY <1>2 DEF PartsInv, OnlyComposer, sessionVars
<1>3. CASE OnlyOmemo /\ O!OmemoNext
  BY <1>3, OmemoStep DEF PartsInv, OnlyOmemo, sessionVars
<1>4. CASE OnlySearch /\ Q!SearchNext
  BY <1>4, SearchStep DEF PartsInv, OnlySearch, sessionVars
<1>5. CASE OnlyFinder /\ F!FinderNext
  BY <1>5, FinderStep DEF PartsInv, OnlyFinder, sessionVars
<1>6. CASE UNCHANGED vars
  <2>1. part' = part /\ UNCHANGED <<wire, sessionVars, omemoVars, searchVars, finderVars>>
    BY <1>6 DEF vars
  <2>2. UNCHANGED <<dirty, viewLoaded, row>>
    BY <2>1 DEF sessionVars
  <2> QED BY <2>1, <2>2, SessionStays, OmemoStays, SearchStays, FinderStays DEF PartsInv
<1> QED BY <1>1, <1>2, <1>3, <1>4, <1>5, <1>6 DEF Next

LEMMA PartsHold == Spec => []PartsInv
BY PartsStart, PartsStep, PTL DEF Spec

\* For any bound on drops and on pages, across links lost and sessions made anew, once
\* nothing is under way: tacky counts a chat that a page shows as shown, and one that
\* none shows as not, unless the last `close` did not get across (`unclosed`)
\* (ChatSession::hold, release and sendOpen).
THEOREM OpenStaysTrue == Spec => []OpenTold
<1>1. PartsInv => OpenTold
  BY SessionGives DEF PartsInv, OpenTold
<1> QED BY <1>1, PartsHold, PTL

\* What was scrolled to outlives an older answer until it is sent; what is stored is
\* then what the session shows, unless the newest view or the stored one did not get
\* across (`unsaved`); and what else is stored with it stays, unless a view was sent
\* before the stored object was read (`rash`) (ChatSession::setView, flush).
THEOREM ViewStaysKept == Spec => []ViewKept
<1>1. ASSUME PartsInv PROVE ViewKept
  <2>1. CASE part = "session"
    BY <1>1, <2>1, SessionGives DEF PartsInv, ViewKept
  <2>2. CASE part # "session"
    BY <1>1, <2>2 DEF PartsInv, ViewKept, S!ViewKept
  <2> QED BY <2>1, <2>2
<1> QED BY <1>1, PartsHold, PTL

\* With nothing under way the padlock shown is the one messages go out under,
\* however clicks, refusals, rooms and stores that open cross on the wire
\* (OmemoChat::setEnabled, learn and refresh).
THEOREM PadlockStaysTrue == Spec => []PadlockTrue
<1>1. PartsInv => PadlockTrue
  BY OmemoGives DEF PartsInv, PadlockTrue
<1> QED BY <1>1, PartsHold, PTL

\* What is found, and the rooms listed, answer one question and the one asked last,
\* whatever answers come late (SearchModel::applyResult, MucRoomsModel::discover).
THEOREM OneQuestionStays == Spec => []OneQuestion
<1>1. PartsInv => OneQuestion
  BY FinderGives DEF PartsInv, OneQuestion, SearchInv
<1> QED BY <1>1, PartsHold, PTL

-----------------------------------------------------------------------------
(* Composer.                                                                *)

\* What was being written is in the field, or in the stash while a message is
\* corrected in the field (ChatSession::editMessage, restoreStash).
Kept == IF editing = None THEN draft = typed ELSE stash = <<typed>>

Inv == ComposerTypeOK /\ Kept

\* A mention makes a draft of a draft that has room for it.
LEMMA MentionFits ==
    ASSUME NEW d \in Drafts, Len(d) < MaxQueue
    PROVE  Append(d, Nick) \in Drafts /\ <<Nick>> \in Drafts
<1>1. PICK n \in 0..MaxQueue : d \in [1..n -> Words]
      BY DEF Drafts
<1>2. MaxQueue \in Nat /\ Nick \in Words
      BY ComposerAssumption
<1>3. d \in Seq(Words) /\ Len(d) = n
      BY <1>1
<1>4. n + 1 \in 0..MaxQueue /\ 1 \in 0..MaxQueue
      BY <1>2, <1>3
<1>5. Append(d, Nick) \in [1..(n + 1) -> Words]
      <2>1. Append(d, Nick) \in Seq(Words) /\ Len(Append(d, Nick)) = n + 1
            BY <1>2, <1>3
      <2> QED BY <2>1, LenProperties
<1>6. <<Nick>> \in [1..1 -> Words]
      BY <1>2
<1> QED BY <1>4, <1>5, <1>6 DEF Drafts

\* An empty field is a draft.
LEMMA EmptyDraft == <<>> \in Drafts
<1>1. <<>> \in [1..0 -> Words] /\ 0 \in 0..MaxQueue
      BY ComposerAssumption
<1> QED BY <1>1 DEF Drafts

\* ChatSession::cancelEdit puts back what the stash has.
LEMMA CancelRestores ==
    ASSUME Inv, cancelEdit
    PROVE  /\ editing' = None /\ stash' = <<>> /\ draft' \in Drafts
           /\ editing # None => draft' = typed
<1>1. CASE editing = None
      BY <1>1 DEF Inv, Kept, ComposerTypeOK, cancelEdit
<1>2. CASE editing # None
      <2>1. stash = <<typed>> /\ typed \in Drafts
            BY <1>2 DEF Inv, Kept, ComposerTypeOK
      <2> QED BY <1>2, <2>1 DEF cancelEdit
<1> QED BY <1>1, <1>2

\* Every step of the composer keeps the types and what was being written.
LEMMA StepKeeps ==
    ASSUME Inv, ComposerNext
    PROVE  Inv' /\ (editing # None /\ editing' = None => draft' = typed)
<1> USE DEF ComposerNext, Sees
<1>1. ASSUME NEW d \in Drafts, setDraft(d)
      PROVE  Inv' /\ editing' = editing
      BY <1>1 DEF Inv, Kept, ComposerTypeOK, setDraft
<1>2. ASSUME mention
      PROVE  Inv' /\ editing' = editing
      <2>1. draft' \in Drafts
            BY <1>2, MentionFits DEF mention, Inv, ComposerTypeOK
      <2> QED BY <1>2, <2>1 DEF Inv, Kept, ComposerTypeOK, mention
<1>3. ASSUME sendDraft
      PROVE  Inv' /\ (editing # None => draft' = typed)
      <2>1. CASE editing # None
            <3>1. cancelEdit /\ UNCHANGED <<pending, replyTo>>
                  BY <1>3, <2>1 DEF sendDraft
            <3>2. editing' = None /\ stash' = <<>> /\ draft' \in Drafts /\ draft' = typed
                  BY <2>1, <3>1, CancelRestores
            <3> QED BY <3>1, <3>2 DEF Inv, Kept, ComposerTypeOK
      <2>2. CASE editing = None
            BY <1>3, <2>2, EmptyDraft, ComposerAssumption
               DEF Inv, Kept, ComposerTypeOK, sendDraft, cancelReply
      <2> QED BY <2>1, <2>2
<1>4. ASSUME NEW f \in Files, attach(f)
      PROVE  Inv' /\ editing' = editing
      <2>1. pending' \in Seq(Files) /\ Len(pending') <= MaxQueue
            BY <1>4, ComposerAssumption DEF attach, Inv, ComposerTypeOK
      <2> QED BY <1>4, <2>1 DEF attach, Inv, Kept, ComposerTypeOK
<1>5. ASSUME NEW i \in DOMAIN pending, unattach(i)
      PROVE  Inv' /\ editing' = editing
      <2>1. pending \in Seq(Files) /\ i \in 1..Len(pending) /\ Len(pending) <= MaxQueue
            BY DEF Inv, ComposerTypeOK
      <2>2. \A k \in 1..(Len(pending) - 1) : pending[IF k < i THEN k ELSE k + 1] \in Files
            BY <2>1
      <2>3. pending' \in [1..(Len(pending) - 1) -> Files]
            BY <1>5, <2>2 DEF unattach
      <2>4. pending' \in Seq(Files) /\ Len(pending') = Len(pending) - 1
            BY <2>1, <2>3
      <2>5. Len(pending') <= MaxQueue
            BY <2>1, <2>4, ComposerAssumption
      <2> QED BY <1>5, <2>4, <2>5 DEF unattach, Inv, Kept, ComposerTypeOK
<1>6. ASSUME NEW m \in Messages, replyToMessage(m)
      PROVE  Inv' /\ (editing # None => draft' = typed)
      <2>1. cancelEdit /\ replyTo' = m /\ pending' = pending
            BY <1>6 DEF replyToMessage
      <2>2. /\ editing' = None /\ stash' = <<>> /\ draft' \in Drafts
            /\ editing # None => draft' = typed
            BY <2>1, CancelRestores
      <2> QED BY <2>1, <2>2 DEF Inv, Kept, ComposerTypeOK
<1>7. ASSUME NEW m \in Messages, NEW d \in Drafts, editMessage(m, d)
      PROVE  Inv' /\ editing' # None
      <2>1. editing' = m /\ m # None /\ typed' = typed /\ draft' = d
            BY <1>7, ComposerAssumption DEF editMessage
      <2>2. stash' = <<typed>>
            BY <1>7 DEF editMessage, Inv, Kept, ComposerTypeOK
      <2> QED BY <1>7, <2>1, <2>2 DEF editMessage, cancelReply, Inv, Kept, ComposerTypeOK
<1>8. ASSUME cancelEdit, UNCHANGED <<pending, replyTo>>
      PROVE  Inv' /\ (editing # None => draft' = typed)
      <2>1. /\ editing' = None /\ stash' = <<>> /\ draft' \in Drafts
            /\ editing # None => draft' = typed
            BY <1>8, CancelRestores
      <2> QED BY <1>8, <2>1 DEF Inv, Kept, ComposerTypeOK
<1>9. ASSUME cancelReply, UNCHANGED <<draft, pending, editing, stash>>
      PROVE  Inv' /\ editing' = editing
      BY <1>9 DEF cancelReply, Inv, Kept, ComposerTypeOK
<1> QED BY <1>1, <1>2, <1>3, <1>4, <1>5, <1>6, <1>7, <1>8, <1>9 DEF ComposerStep

LEMMA ComposerKeeps == ComposerSpec => DraftComesBack
<1>1. ComposerInit => Inv
      BY EmptyDraft, ComposerAssumption DEF ComposerInit, Inv, Kept, ComposerTypeOK
<1>2. Inv /\ [ComposerNext]_composerVars => Inv'
      <2>1. CASE ComposerNext
            BY <2>1, StepKeeps
      <2>2. CASE UNCHANGED composerVars
            BY <2>2 DEF composerVars, Inv, Kept, ComposerTypeOK
      <2> QED BY <2>1, <2>2
<1>3. Inv /\ [ComposerNext]_composerVars
      => [ComposerTypeOK' /\ (editing # None /\ editing' = None => draft' = typed)]_composerVars
      BY StepKeeps DEF Inv
<1> QED BY <1>1, <1>2, <1>3, PTL DEF ComposerSpec, DraftComesBack

\* However a correction ends - sent, cancelled, or left for a reply -, and after
\* any number of corrections in a row, the field holds what was being written
\* before it (ChatSession::cancelEdit and restoreStash).
THEOREM DraftIsKept == Spec => DraftComesBack
<1>1. Init => ComposerInit
  BY DEF Init
<1>2. [Next]_vars => [ComposerNext]_composerVars
  BY DEF Next, OnlySession, OnlyComposer, OnlyOmemo, OnlySearch, OnlyFinder, vars
<1> QED BY <1>1, <1>2, ComposerKeeps, PTL DEF Spec, ComposerSpec
=============================================================================
