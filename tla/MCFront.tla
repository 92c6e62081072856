------------------------------ MODULE MCFront -------------------------------
(* A small instance of the front: two phones that choose the same session  *)
(* id and share a slot.                                                    *)
EXTENDS Front, TLC

CONSTANTS p1, p2, s1, u1
=============================================================================
