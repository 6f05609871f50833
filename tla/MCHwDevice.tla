----------------------------- MODULE MCHwDevice -----------------------------
(* A context of one column and two of two on an array of three: the two    *)
(* share, and the one may keep them out.                                   *)
EXTENDS HwDevice

Widths == [c \in Ctx |-> IF c = "c1" THEN 1 ELSE 2]
Clock == [l \in 0..6 |-> 200 + 100 * l]
Requests ==
    [c \in Ctx |-> CASE c = "c1" -> [gops |-> 3, fps |-> 1, latency |-> 0, opc |-> 10]
                     [] c = "c2" -> [gops |-> 2, fps |-> 1, latency |-> 500, opc |-> 10]
                     [] OTHER -> [gops |-> 1, fps |-> 0, latency |-> 0, opc |-> 10]]
=============================================================================
