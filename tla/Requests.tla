------------------------------ MODULE Requests ------------------------------
(***************************************************************************)
(* What TackyBackend promises whoever calls request(): the call is          *)
(* answered once, by its own answer, or it fails once; nothing else is ever *)
(* heard of it.  A caller may vanish with what it still had out.            *)
(***************************************************************************)
CONSTANT Ids        \* every request any UI process may ever make

VARIABLES
    asked,          \* requests made
    open,           \* requests whose caller still waits
    answers         \* <<request, the request it was the answer to>>

vars == <<asked, open, answers>>

Init == asked = {} /\ open = {} /\ answers = {}

Ask(i) ==
    /\ i \notin asked
    /\ asked' = asked \cup {i} /\ open' = open \cup {i}
    /\ UNCHANGED answers

Answer(i) ==
    /\ i \in open
    /\ open' = open \ {i} /\ answers' = answers \cup {<<i, i>>}
    /\ UNCHANGED asked

\* Requests fail together when the link or their caller goes.
Fail(S) ==
    /\ S # {} /\ S \subseteq open
    /\ open' = open \ S
    /\ UNCHANGED <<asked, answers>>

Next ==
    \/ \E i \in Ids : Ask(i) \/ Answer(i)
    \/ \E S \in SUBSET open : Fail(S)

Spec == Init /\ [][Next]_vars
=============================================================================
