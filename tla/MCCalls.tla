------------------------------ MODULE MCCalls -------------------------------
(* Instances of CallsModel for TLC. *)
EXTENDS CallsModel

CONSTANTS a1, a2, out, in

\* Our two accounts call each other: each has an end.
BothEnds == [c \in Calls |-> IF c = out THEN a1 ELSE a2]
=============================================================================
