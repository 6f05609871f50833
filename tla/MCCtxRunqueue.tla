--------------------------- MODULE MCCtxRunqueue ---------------------------
(* Instances of CtxRunqueue for TLC.                                       *)
EXTENDS CtxRunqueue

CONSTANTS c1, c2, c3, t1, t2, t3

(* Priorities: everybody equal; c1 above the others; c3 below the others.  *)
PrioFlat == [c \in Ctx |-> 2]
PrioLow == [c \in Ctx |-> IF c = c3 THEN 2 ELSE 1]
PrioMixed == [c \in Ctx |-> IF c = c1 THEN 1 ELSE 2]

(* Every thread uses every context; or each has contexts of its own.       *)
CtxAll == [t \in Thread |-> Ctx]
CtxOwn == [t \in Thread |-> CASE t = t1 -> {c1} [] t = t2 -> {c2} [] OTHER -> {c3}]
CtxPair == [t \in Thread |-> IF t = t1 THEN {c1} ELSE {c1, c2}]
CtxSplit == [t \in Thread |-> IF t = t1 THEN {c1} ELSE {c2, c3}]

=============================================================================
