---------------------------- MODULE MCWakeRegistry ----------------------------
(* Two tokens, one of each service, two secrets, two connections.            *)
EXTENDS WakeRegistry

CONSTANTS t1, t2, s1, s2, h1, h2

\* t1 is a token of Google's, t2 one of Apple's.
MCHome == [t \in Tokens |-> IF t = t1 THEN "fcm" ELSE "apns"]
=============================================================================
