--------------------------- MODULE MCMailboxStore ---------------------------
(* Small instances of the mailbox store: two tags, two retentions.         *)
EXTENDS MailboxStore

CONSTANTS t1, t2, b1, b2

MCLimits == {[ttl_seconds |-> 1, max_per_tag |-> 1],
             [ttl_seconds |-> 2, max_per_tag |-> 3]}
=============================================================================
