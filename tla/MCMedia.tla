------------------------------- MODULE MCMedia -------------------------------
(* Model values and bounds for Media: a window and a history of four frames *)
(* in words of two bits, and enough counters to leave both.                  *)
EXTENDS Media

MCTargets == {1, 2}
=============================================================================
