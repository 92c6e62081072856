------------------------------ MODULE AtMostOnce -----------------------------
(***************************************************************************)
(* What an anti-replay window promises, with nothing said about how it is  *)
(* kept: a number that was admitted is never admitted again, and the only  *)
(* numbers given up without having been admitted are the ones too old next *)
(* to the number just admitted.                                            *)
(***************************************************************************)
CONSTANTS
    Numbers,       \* what can be admitted
    TooOld(_, _)   \* TooOld(m, n): m may be given up once n is admitted

VARIABLE spent     \* the numbers that will never be admitted (again)

Init == spent = {}

Admit(n) ==
    /\ n \in Numbers \ spent
    /\ spent \union {n} \subseteq spent'
    /\ \A m \in spent' \ (spent \union {n}) : m \in Numbers /\ TooOld(m, n)

Next == \E n \in Numbers : Admit(n)

Spec == Init /\ [][Next]_spent
=============================================================================
