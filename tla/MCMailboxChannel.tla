-------------------------- MODULE MCMailboxChannel --------------------------
(* Instances of MailboxChannel for TLC: a channel of each type in service.  *)
EXTENDS MailboxChannel

InService == [t \in Types |-> IF t = "mgmt" THEN {"async", "wait"} ELSE {"async"}]
=============================================================================
