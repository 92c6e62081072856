---------------------------- MODULE MCAdmission -----------------------------
(* Small instances of admission control.                                   *)
EXTENDS Admission, TLC

CONSTANTS a1, a2, a3

\* Callers are interchangeable among the exempt and among the others.
Interchangeable == Permutations(Exempt) \union Permutations(Callers \ Exempt)
=============================================================================
