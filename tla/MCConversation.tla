--------------------------- MODULE MCConversation ----------------------------
(* Two members and a newcomer that may be the second device of one of them. *)
EXTENDS Conversation

CONSTANTS a, b, c

MCPerson == [d \in {a, b, c} |-> IF d = b THEN "bob" ELSE "alice"]
MCAdminLists == {{}, {"bob"}}
MCNoAdmins == {{}}
MCStrangers == [d \in {a, b, c} |-> d]
MCKnocksAt == [d \in {a, b, c} |-> IF d = c THEN b ELSE None]
MCNoKnock == [d \in {a, b, c} |-> None]
=============================================================================
