------------------------------- MODULE MCRoom -------------------------------
(* Two rooms for MucRoom, and a page that goes from one to the other. *)
EXTENDS MucRoom

Spec == RoomInit /\ [][RoomNext]_<<wire, roomVars>>
=============================================================================
