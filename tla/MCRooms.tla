------------------------------ MODULE MCRooms -------------------------------
(* Small instances of a relay's rooms.                                     *)
EXTENDS Rooms, TLC

CONSTANTS c1, c2, c3, r1, r2
=============================================================================
