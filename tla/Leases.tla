------------------------------- MODULE Leases -------------------------------
(***************************************************************************)
(* What the resource solver promises (aie2_solver.h): a context that runs  *)
(* holds as many neighbouring columns as it asked for, and the columns of  *)
(* two contexts are the same or have nothing in common.                    *)
(***************************************************************************)
EXTENDS Integers

CONSTANTS Ctx, NumCol, TotalCol

VARIABLE lease              \* lease[c]: the columns of c, {} when it has none

Ranges(c) == {s..(s + NumCol[c] - 1) : s \in 0..(TotalCol - NumCol[c])}

Init == lease = [c \in Ctx |-> {}]

Acquire(c) ==
    /\ lease[c] = {}
    /\ \E r \in Ranges(c) :
         /\ \A d \in Ctx : lease[d] = r \/ lease[d] \cap r = {}
         /\ lease' = [lease EXCEPT ![c] = r]

Release(c) == lease[c] # {} /\ lease' = [lease EXCEPT ![c] = {}]

Next == \E c \in Ctx : Acquire(c) \/ Release(c)

Spec == Init /\ [][Next]_lease
=============================================================================
