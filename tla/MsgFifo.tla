------------------------------- MODULE MsgFifo -------------------------------
(***************************************************************************)
(* What one direction of a mailbox channel promises its two ends           *)
(* (amdxdna_mailbox.c): the messages whose tail update was made are        *)
(* received once each and in the order they were sent, whatever the ring   *)
(* underneath does with tombstones and wrapped pointers.                   *)
(***************************************************************************)
EXTENDS Naturals, Sequences

CONSTANT Message    \* what a package can be

VARIABLES
    sent,           \* every message made visible to the receiver, in order
    rcvd            \* every message the receiver has read, in order

vars == <<sent, rcvd>>

Init == sent = <<>> /\ rcvd = <<>>

Send == \E m \in Message : sent' = Append(sent, m) /\ UNCHANGED rcvd

Recv == /\ Len(rcvd) < Len(sent)
        /\ rcvd' = Append(rcvd, sent[Len(rcvd) + 1])
        /\ UNCHANGED sent

Next == Send \/ Recv

\* What may happen.
Safety == Init /\ [][Next]_vars

\* A receiver that is told of a message reads it.
Spec == Safety /\ WF_vars(Recv)
=============================================================================
