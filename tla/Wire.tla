-------------------------------- MODULE Wire --------------------------------
(***************************************************************************)
(* What one component of a UI sees of TackyBackend: frames in order each    *)
(* way, a link that drops, and requests that fail with it.  ServiceLink has *)
(* the link itself; here a token shows only in that the frames it is on are *)
(* `live` for as long as its caller waits on it.                            *)
(***************************************************************************)
EXTENDS Naturals, Sequences, FiniteSets

CONSTANTS
    Nil,        \* what a frame without arguments carries
    Depth,      \* frames under way in a direction before something new is said (bound)
    MaxDrop     \* times the link drops (bound)

VARIABLES up, toTacky, toUi, drops

wire == <<up, toTacky, toUi, drops>>

\* Attached from the start, as on the desktop, or not yet, as on Android.
WireInit == up \in BOOLEAN /\ toTacky = <<>> /\ toUi = <<>> /\ drops = 0

Frame(k, b) == [kind |-> k, live |-> FALSE, is |-> "sent", body |-> b]
Bare(k) == Frame(k, Nil)
Call(k, b) == [kind |-> k, live |-> TRUE, is |-> "asked", body |-> b]
IsCall(f) == f.is = "asked"
Unsent(f) == [f EXCEPT !.is = "unsent"]

FrameOK(f) ==
    /\ DOMAIN f = {"kind", "live", "is", "body"} /\ f.live \in BOOLEAN
    /\ f.is \in {"sent", "asked", "unsent", "result", "error"}

WireTypeOK ==
    /\ up \in BOOLEAN /\ drops \in 0..MaxDrop
    /\ \A i \in DOMAIN toTacky : FrameOK(toTacky[i])
    /\ \A i \in DOMAIN toUi : FrameOK(toUi[i])
    /\ ~up => toTacky = <<>>

Fits(n) == Len(toTacky) + n <= Depth /\ Len(toUi) + n <= Depth

\* The caller lets go of its tokens of these kinds.
Stale(q, K) ==
    [i \in DOMAIN q |-> IF q[i].kind \in K THEN [q[i] EXCEPT !.live = FALSE] ELSE q[i]]

HasLive(q, k) == \E i \in DOMAIN q : q[i].kind = k /\ q[i].live
Waits(k) == HasLive(toTacky, k) \/ HasLive(toUi, k)

\* Sent while detached a frame is gone.
Post(q, fs) == IF up THEN q \o fs ELSE q

\* The requests of a handler's frames, in order.
Requested(fs) ==
    LET C == {i \in DOMAIN fs : IsCall(fs[i])}
        at == CHOOSE f \in [1..Cardinality(C) -> C] :
                \A m, n \in DOMAIN f : m < n => f[m] < f[n]
    IN  [n \in DOMAIN at |-> fs[at[n]]]

\* A handler's sends, with what is left of its input.  A request not sent fails on
\* the next turn of the event loop.
send(in, K, fs) ==
    /\ toTacky' = Post(Stale(toTacky, K), fs)
    /\ toUi' = Stale(in, K) \o IF up THEN <<>>
                               ELSE LET f == Requested(fs)
                                    IN  [i \in DOMAIN f |-> Unsent(f[i])]
    /\ UNCHANGED <<up, drops>>

notify(fs) == send(toUi, {}, fs)

\* The frame a handler is given; one that answers waits while the other direction is full.
Arrives(k) == toUi # <<>> /\ Head(toUi).kind = k
Room == Len(toTacky) < Depth
Given == Head(toUi)
Rest == Tail(toUi)
Fails == Given.is \in {"error", "unsent"}
Took == send(Rest, {}, <<>>)

\* What was under way is lost, and with it every token.  An error still queued
\* has been seen to by then.
Lost ==
    /\ up /\ drops < MaxDrop /\ up' = FALSE /\ drops' = drops + 1
    /\ ~\E i \in DOMAIN toUi : toUi[i].is = "unsent"
    /\ toTacky' = <<>> /\ toUi' = <<>>

\* Attached: what the components ask for then.
Comes(K, fs) ==
    /\ ~up /\ up' = TRUE /\ toTacky' = fs /\ toUi' = Stale(toUi, K) /\ UNCHANGED drops

\* tacky takes the next frame and says what it has to.
Takes(k) == toTacky # <<>> /\ Head(toTacky).kind = k
Asked == Head(toTacky)
Says(fs) == toTacky' = Tail(toTacky) /\ toUi' = toUi \o fs /\ UNCHANGED <<up, drops>>
Result(b) == [Asked EXCEPT !.is = "result", !.body = b]
Refusal == [Asked EXCEPT !.is = "error"]

\* tacky says something of its own accord.
Tells(fs) ==
    /\ Len(toUi) < Depth /\ toUi' = Post(toUi, fs) /\ UNCHANGED <<up, toTacky, drops>>

QuietWire == up /\ toTacky = <<>> /\ toUi = <<>>
=============================================================================
