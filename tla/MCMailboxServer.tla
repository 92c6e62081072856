--------------------------- MODULE MCMailboxServer --------------------------
(* Small instances of the mailbox server.                                  *)
EXTENDS MailboxServer, TLC

CONSTANTS t1, t2, b1, c1, c2

\* One tier: an envelope lives for one reading of the clock.
OneTier == {[ttl_seconds |-> 1, max_per_tag |-> 2]}

\* Two tiers that differ in how much one tag may hold.
TwoTiers == {[ttl_seconds |-> 1, max_per_tag |-> n] : n \in {1, 2}}

\* Tags and connections are interchangeable.
Interchangeable == Permutations(Tags) \union Permutations(Conns)
=============================================================================
