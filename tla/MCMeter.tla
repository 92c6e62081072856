------------------------------- MODULE MCMeter --------------------------------
(* A token, and callers with nothing to show of which one is metered.       *)
EXTENDS Meter

CONSTANTS t1, f1, f2, c1, c2

MCExpires == [t \in {t1} |-> 2]
MCLimit == [i \in {t1, f1, f2} |-> IF i = t1 THEN 3 ELSE IF i = f1 THEN 2 ELSE 0]
=============================================================================
