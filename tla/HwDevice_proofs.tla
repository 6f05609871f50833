-------------------------- MODULE HwDevice_proofs --------------------------
(***************************************************************************)
(* Proofs about the resource solver and the device with its hardware       *)
(* contexts, for any array, any requests, any number of contexts and any   *)
(* number of faults.                                                       *)
(***************************************************************************)
EXTENDS HwDevice, SeqLemmas, FiniteSetTheorems, TLAPS

(* A remainder is not negative and not more than what it is taken of.      *)
LEMMA ModBounds ==
    ASSUME NEW a \in Nat, NEW w \in Nat \ {0}
    PROVE  a % w \in 0..(w - 1) /\ a % w <= a
OBVIOUS

(* Every place aie2_ctx_col_list() offers has room for the context.        *)
LEMMA ColListFits ==
    ASSUME NEW c \in Ctx, NEW s \in col_list(c)
    PROVE  s \in Col /\ Cols(s, NumCol[c]) \subseteq Col /\ s \in Cols(s, NumCol[c])
<1> DEFINE width == IF AlignNature THEN NumCol[c] ELSE 1
           end == TotalCol - NumCol[c]
           start == IF FirstCol > 0 /\ end = 0 THEN 0 ELSE FirstCol
           first == start + ((width - (start % width)) % width)
           last == end - (end % width)
<1>1. /\ NumCol[c] \in 1..TotalCol /\ TotalCol \in Nat /\ FirstCol \in Nat
      /\ AlignNature \in BOOLEAN
  BY SolverAssumption
<1>2. width \in Nat \ {0} /\ end \in Nat /\ start \in Nat
  BY <1>1
<1>3. s \in first..last
  BY DEF col_list
<1> HIDE DEF width, start, end
<1>4. end % width \in Nat /\ start % width \in 0..(width - 1)
  BY <1>2, ModBounds
<1>5. width - (start % width) \in Nat
  BY <1>2, <1>4
<1>6. (width - (start % width)) % width \in Nat
  BY <1>2, <1>5, ModBounds
<1>7. first \in Nat /\ last <= end /\ last \in Int
  BY <1>2, <1>4, <1>6
<1> HIDE DEF first, last
<1>8. s \in Nat /\ s <= end
  BY <1>2, <1>3, <1>7
<1> QED BY <1>1, <1>8 DEF end, Col, Cols

(* The columns, the contexts and what is picked among them are finite.     *)
LEMMA SolverFinite ==
    ASSUME SolverTypeOK
    PROVE  /\ IsFiniteSet(Ctx) /\ IsFiniteSet(Col) /\ IsFiniteSet(node_list)
           /\ IsFiniteSet(pt_node_list) /\ \A s : IsFiniteSet(Users(s))
<1>1. IsFiniteSet(Col)
  BY SolverAssumption, FS_Interval DEF Col
<1>2. IsFiniteSet(Ctx)
  BY SolverAssumption
<1> QED BY <1>1, <1>2, FS_Subset DEF SolverTypeOK, Users

(* A partition covers the column it starts at.                             *)
LEMMA PartitionInUse ==
    ASSUME SolverInv, NEW s \in pt_node_list
    PROVE  s \in Col /\ ncols[s] >= 1 /\ s \in resbit
<1>1. s \in Col /\ nshared[s] > 0 /\ nshared[s] = Cardinality(Users(s))
  BY DEF SolverInv, SolverTypeOK, SharedExact
<1>2. Users(s) # {}
  BY <1>1, FS_EmptySet
<1>3. PICK c \in node_list : pt_node[c] = s
  BY <1>2 DEF Users
<1>4. ncols[s] = NumCol[c] /\ c \in Ctx
  BY <1>3 DEF SolverInv, SolverTypeOK, ShapeKept
<1>5. ncols[s] >= 1 /\ ncols[s] \in Nat
  BY <1>4, SolverAssumption
<1>6. s \in Cols(s, ncols[s])
  BY <1>1, <1>5 DEF Cols, Col
<1> QED BY <1>1, <1>5, <1>6 DEF SolverInv, ResbitExact

(* A new partition, at a place without a column in use.                    *)
LEMMA NewPartitionSound ==
    ASSUME SolverInv, NEW c \in Ctx, c \notin node_list, NEW s \in Col, NewPartition(c, s),
           pt_node' = [pt_node EXCEPT ![c] = s], node_list' = node_list \cup {c},
           nnode' = nnode + 1, node_dpm_level' = [node_dpm_level EXCEPT ![c] = 0]
    PROVE  SolverInv'
<1>0. /\ s \in col_list(c) /\ Cols(s, NumCol[c]) \cap resbit = {}
      /\ NumCol[c] \in Nat /\ NumCol[c] >= 1
  BY SolverAssumption DEF NewPartition, FreeStarts
<1>1. Cols(s, NumCol[c]) \subseteq Col /\ s \in Cols(s, NumCol[c])
  BY <1>0, ColListFits
<1>2. s \notin pt_node_list
  BY <1>0, <1>1, PartitionInUse
<1>3. nshared[s] = 0 /\ Users(s) = {}
  <2>1. nshared[s] \in Nat /\ ~(nshared[s] > 0) /\ nshared[s] = Cardinality(Users(s))
    BY <1>2 DEF SolverInv, SolverTypeOK, SharedExact
  <2>2. IsFiniteSet(Users(s))
    BY SolverFinite DEF SolverInv
  <2> QED BY <2>1, <2>2, FS_EmptySet
<1>4. \A t \in Col : /\ ncols'[t] = IF t = s THEN NumCol[c] ELSE ncols[t]
                     /\ nshared'[t] = IF t = s THEN 1 ELSE nshared[t]
  BY DEF SolverInv, SolverTypeOK, NewPartition
<1>5. SolverTypeOK'
  <2>1. node_dpm_level' \in [Ctx -> 0..MaxLevel]
    BY SolverAssumption DEF SolverInv, SolverTypeOK
  <2>2. ncols' \in [Col -> Nat] /\ nshared' \in [Col -> Nat]
    BY <1>0 DEF SolverInv, SolverTypeOK, NewPartition
  <2> QED BY <1>1, <2>1, <2>2 DEF SolverInv, SolverTypeOK, NewPartition
<1>6. \A t \in pt_node_list : t # s /\ t \in Col /\ ncols'[t] = ncols[t]
  BY <1>2, <1>4 DEF SolverInv, SolverTypeOK
<1>7. \A t \in pt_node_list : Cols(t, ncols[t]) \subseteq resbit
  BY DEF SolverInv, ResbitExact
<1>8. PartitionsDisjoint'
  BY <1>0, <1>4, <1>6, <1>7 DEF SolverInv, PartitionsDisjoint, NewPartition
<1>9. ResbitExact'
  BY <1>0, <1>4, <1>6 DEF SolverInv, ResbitExact, NewPartition
<1>10. SharedExact'
  <2>1. ASSUME NEW t \in Col
        PROVE  Users(t)' = IF t = s THEN {c} ELSE Users(t)
    BY <1>3 DEF SolverInv, SolverTypeOK, Users
  <2>2. Cardinality({c}) = 1
    BY FS_Singleton
  <2>3. ASSUME NEW t \in Col
        PROVE  /\ nshared'[t] = Cardinality(Users(t)')
               /\ t \in pt_node_list' <=> nshared'[t] > 0
    <3>1. CASE t = s
      BY <1>4, <2>1, <2>2, <3>1 DEF NewPartition
    <3>2. CASE t # s
      BY <1>4, <2>1, <3>2 DEF NewPartition, SolverInv, SharedExact
    <3> QED BY <3>1, <3>2
  <2> QED BY <2>3 DEF SharedExact
<1>11. ShapeKept'
  <2>1. \A d \in node_list : d # c /\ pt_node'[d] = pt_node[d] /\ pt_node[d] # s
    BY <1>3 DEF SolverInv, SolverTypeOK, Users
  <2>2. \A d \in node_list : pt_node[d] \in col_list(d) /\ ncols[pt_node[d]] = NumCol[d]
    BY DEF SolverInv, ShapeKept
  <2>3. \A d \in node_list : pt_node[d] \in Col
    BY <2>2, ColListFits DEF SolverInv, SolverTypeOK
  <2>4. pt_node'[c] = s
    BY DEF SolverInv, SolverTypeOK
  <2>5. \A d \in Ctx : col_list(d)' = col_list(d)
    BY DEF col_list
  <2> QED BY <1>0, <1>4, <2>1, <2>2, <2>3, <2>4, <2>5 DEF ShapeKept
<1>12. CountsExact'
  <2>1. IsFiniteSet(node_list) /\ IsFiniteSet(pt_node_list)
    BY SolverFinite DEF SolverInv
  <2>2. Cardinality(node_list \cup {c}) = Cardinality(node_list) + 1
    BY <2>1, FS_AddElement
  <2>3. Cardinality(pt_node_list \cup {s}) = Cardinality(pt_node_list) + 1
    BY <1>2, <2>1, FS_AddElement
  <2> QED BY <2>2, <2>3 DEF SolverInv, CountsExact, NewPartition
<1> QED BY <1>5, <1>8, <1>9, <1>10, <1>11, <1>12 DEF SolverInv

(* One more user of a partition of its shape.                              *)
LEMMA SharePartitionSound ==
    ASSUME SolverInv, NEW c \in Ctx, c \notin node_list, NEW s \in Col, SharePartition(c, s),
           pt_node' = [pt_node EXCEPT ![c] = s], node_list' = node_list \cup {c},
           nnode' = nnode + 1, node_dpm_level' = [node_dpm_level EXCEPT ![c] = 0]
    PROVE  SolverInv'
<1>1. /\ s \in pt_node_list /\ s \in col_list(c) /\ ncols[s] = NumCol[c]
      /\ UNCHANGED <<pt_node_list, ncols, resbit, npartition_node>>
  BY DEF SharePartition, Shareable
<1>2. SolverTypeOK'
  <2>1. node_dpm_level' \in [Ctx -> 0..MaxLevel]
    BY SolverAssumption DEF SolverInv, SolverTypeOK
  <2>2. nshared' \in [Col -> Nat]
    BY DEF SolverInv, SolverTypeOK, SharePartition
  <2> QED BY <1>1, <2>1, <2>2 DEF SolverInv, SolverTypeOK
<1>3. PartitionsDisjoint' /\ ResbitExact'
  BY <1>1 DEF SolverInv, PartitionsDisjoint, ResbitExact
<1>4. SharedExact'
  <2>1. ASSUME NEW t \in Col
        PROVE  Users(t)' = IF t = s THEN Users(t) \cup {c} ELSE Users(t)
    BY DEF SolverInv, SolverTypeOK, Users
  <2>2. c \notin Users(s) /\ IsFiniteSet(Users(s))
    BY SolverFinite DEF SolverInv, Users
  <2>3. Cardinality(Users(s) \cup {c}) = Cardinality(Users(s)) + 1
    BY <2>2, FS_AddElement
  <2>4. \A t \in Col : nshared'[t] = IF t = s THEN nshared[s] + 1 ELSE nshared[t]
    BY DEF SolverInv, SolverTypeOK, SharePartition
  <2>5. nshared[s] \in Nat /\ nshared[s] = Cardinality(Users(s))
    BY DEF SolverInv, SolverTypeOK, SharedExact
  <2>6. ASSUME NEW t \in Col
        PROVE  /\ nshared'[t] = Cardinality(Users(t)')
               /\ t \in pt_node_list' <=> nshared'[t] > 0
    <3>1. CASE t = s
      <4>1. Cardinality(Users(t)') = Cardinality(Users(s) \cup {c})
        BY <2>1, <3>1
      <4>2. nshared'[t] = nshared[s] + 1
        BY <2>4, <3>1
      <4> QED BY <1>1, <2>3, <2>5, <3>1, <4>1, <4>2
    <3>2. CASE t # s
      BY <1>1, <2>1, <2>4, <3>2 DEF SolverInv, SharedExact
    <3> QED BY <3>1, <3>2
  <2> QED BY <2>6 DEF SharedExact
<1>5. ShapeKept'
  <2>1. \A d \in node_list : d # c /\ pt_node'[d] = pt_node[d]
    BY DEF SolverInv, SolverTypeOK
  <2>2. pt_node'[c] = s
    BY DEF SolverInv, SolverTypeOK
  <2>3. \A d \in Ctx : col_list(d)' = col_list(d)
    BY DEF col_list
  <2>4. node_list \subseteq Ctx
    BY DEF SolverInv, SolverTypeOK
  <2> QED BY <1>1, <2>1, <2>2, <2>3, <2>4 DEF SolverInv, ShapeKept
<1>6. CountsExact'
  <2>1. Cardinality(node_list \cup {c}) = Cardinality(node_list) + 1
    BY SolverFinite, FS_AddElement DEF SolverInv
  <2> QED BY <1>1, <2>1 DEF SolverInv, CountsExact
<1> QED BY <1>2, <1>3, <1>4, <1>5, <1>6 DEF SolverInv

(* xrs_allocate_resource() keeps the solver's bookkeeping.                 *)
LEMMA CreateNodeSound ==
    ASSUME SolverInv, NEW c \in Ctx, create_solver_node(c)
    PROVE  SolverInv' /\ node_list' = node_list \cup {c} /\ pt_node'[c] \in Col
           /\ \A d \in Ctx \ {c} : pt_node'[d] = pt_node[d]
<1>1. PICK s \in Col : /\ NewPartition(c, s) \/ SharePartition(c, s)
                       /\ pt_node' = [pt_node EXCEPT ![c] = s]
  BY DEF create_solver_node
<1>2. SolverInv'
  BY <1>1, NewPartitionSound, SharePartitionSound DEF create_solver_node
<1> QED BY <1>1, <1>2 DEF create_solver_node, SolverInv, SolverTypeOK

(* A release, by the last user of a partition or by another.               *)
LEMMA RemoveNodeSound ==
    ASSUME SolverInv, NEW c \in Ctx, remove_solver_node(c)
    PROVE  SolverInv' /\ node_list' = node_list \ {c}
           /\ \A d \in Ctx \ {c} : pt_node'[d] = pt_node[d]
<1> DEFINE s == pt_node[c]
<1>0. c \in node_list /\ node_list' = node_list \ {c} /\ nnode' = nnode - 1
  BY DEF remove_solver_node
<1>1. s \in Col /\ c \in Users(s)
  BY <1>0, ColListFits DEF SolverInv, ShapeKept, Users
<1>2. /\ nshared[s] \in Nat /\ nshared[s] = Cardinality(Users(s))
      /\ IsFiniteSet(Users(s)) /\ nshared[s] >= 1
  <2>1. nshared[s] \in Nat /\ nshared[s] = Cardinality(Users(s)) /\ IsFiniteSet(Users(s))
    BY <1>1, SolverFinite DEF SolverInv, SolverTypeOK, SharedExact
  <2> QED BY <1>1, <2>1, FS_EmptySet
<1>3. s \in pt_node_list
  BY <1>1, <1>2 DEF SolverInv, SharedExact
<1>4. /\ \A d \in Ctx : pt_node'[d] = IF d = c THEN None ELSE pt_node[d]
      /\ \A t \in Col : nshared'[t] = IF t = s THEN nshared[s] - 1 ELSE nshared[t]
      /\ ncols' = ncols
  BY DEF SolverInv, SolverTypeOK, remove_solver_node, remove_partition_node
<1>5. nnode = Cardinality(node_list) /\ nnode >= 1 /\ Cardinality(node_list \ {c}) = nnode - 1
  <2>1. IsFiniteSet(node_list) /\ nnode \in Nat /\ nnode = Cardinality(node_list)
    BY SolverFinite DEF SolverInv, SolverTypeOK, CountsExact
  <2>2. nnode # 0
    BY <1>0, <2>1, FS_EmptySet
  <2> QED BY <1>0, <2>1, <2>2, FS_RemoveElement
<1>6. /\ npartition_node = Cardinality(pt_node_list) /\ npartition_node >= 1
      /\ Cardinality(pt_node_list \ {s}) = npartition_node - 1
  <2>1. /\ IsFiniteSet(pt_node_list) /\ npartition_node \in Nat
        /\ npartition_node = Cardinality(pt_node_list)
    BY SolverFinite DEF SolverInv, SolverTypeOK, CountsExact
  <2>2. npartition_node # 0
    BY <1>3, <2>1, FS_EmptySet
  <2>3. Cardinality(pt_node_list \ {s}) = Cardinality(pt_node_list) - 1
    BY <1>3, <2>1, FS_RemoveElement
  <2> QED BY <2>1, <2>2, <2>3
<1>7. SharedExact'
  <2>1. ASSUME NEW t \in Col
        PROVE  Users(t)' = IF t = s THEN Users(t) \ {c} ELSE Users(t)
    BY <1>0, <1>4 DEF SolverInv, SolverTypeOK, Users
  <2>2. Cardinality(Users(s) \ {c}) = nshared[s] - 1
    BY <1>1, <1>2, FS_RemoveElement
  <2>3. ASSUME NEW t \in Col
        PROVE  t \in pt_node_list' <=> t \in pt_node_list /\ ~(t = s /\ nshared[s] <= 1)
    BY <1>2 DEF remove_solver_node, remove_partition_node
  <2>4. ASSUME NEW t \in Col
        PROVE  /\ nshared'[t] = Cardinality(Users(t)')
               /\ t \in pt_node_list' <=> nshared'[t] > 0
    <3>1. CASE t = s
      <4>1. Cardinality(Users(t)') = Cardinality(Users(s) \ {c})
        BY <2>1, <3>1
      <4>2. nshared'[t] = nshared[s] - 1
        BY <1>4, <3>1
      <4>3. t \in pt_node_list' <=> ~(nshared[s] <= 1)
        BY <1>3, <2>3, <3>1
      <4> QED BY <1>2, <2>2, <4>1, <4>2, <4>3
    <3>2. CASE t # s
      BY <1>4, <2>1, <2>3, <3>2 DEF SolverInv, SharedExact
    <3> QED BY <3>1, <3>2
  <2> QED BY <2>4 DEF SharedExact
<1>8. ShapeKept'
  <2>1. \A d \in Ctx : col_list(d)' = col_list(d)
    BY DEF col_list
  <2> QED BY <1>0, <1>4, <2>1 DEF SolverInv, SolverTypeOK, ShapeKept
<1>9. /\ SolverTypeOK' /\ PartitionsDisjoint' /\ ResbitExact' /\ CountsExact'
  <2>1. /\ pt_node' \in [Ctx -> Col \cup {None}] /\ nshared' \in [Col -> Nat]
        /\ node_list' \subseteq Ctx /\ nnode' \in Nat /\ node_dpm_level' = node_dpm_level
    BY <1>0, <1>1, <1>2, <1>5
       DEF SolverInv, SolverTypeOK, remove_solver_node, remove_partition_node
  <2>2. CASE nshared[s] > 1
        BY <1>5, <2>1, <2>2
         DEF SolverInv, SolverTypeOK, remove_solver_node, remove_partition_node,
             PartitionsDisjoint, ResbitExact, CountsExact
  <2>3. CASE ~(nshared[s] > 1)
    <3>1. /\ pt_node_list' = pt_node_list \ {s} /\ npartition_node' = npartition_node - 1
          /\ resbit' = resbit \ Cols(s, ncols[s])
      BY <2>3 DEF remove_solver_node, remove_partition_node
    <3>2. ResbitExact'
      BY <1>3, <1>4, <3>1 DEF SolverInv, ResbitExact, PartitionsDisjoint
    <3>3. PartitionsDisjoint'
      BY <1>4, <3>1 DEF SolverInv, PartitionsDisjoint
    <3>4. CountsExact'
      BY <1>0, <1>5, <1>6, <3>1 DEF CountsExact
    <3>5. npartition_node' \in Nat
      BY <1>6, <3>1 DEF SolverInv, SolverTypeOK
    <3> QED BY <1>4, <2>1, <3>1, <3>2, <3>3, <3>4, <3>5 DEF SolverInv, SolverTypeOK
  <2> QED BY <2>2, <2>3
<1> QED BY <1>0, <1>4, <1>7, <1>8, <1>9 DEF SolverInv

(* The level for all sessions is one of the device's, and no session's is  *)
(* higher.                                                                 *)
LEMMA DpmLevelForType ==
    ASSUME SolverTypeOK, NEW c \in Ctx
    PROVE  /\ dpm_level_for(c) \in 0..MaxLevel /\ dpm_level_alone(c) \in 0..MaxLevel
           /\ dpm_level_alone(c) <= dpm_level_for(c)
           /\ \A d \in node_list : node_dpm_level[d] <= dpm_level_for(c)
<1> DEFINE ok == {l \in 0..(MaxLevel - 1) : qos_meet(Qos[c], l)}
           levels == {dpm_level_alone(c)} \cup {node_dpm_level[d] : d \in node_list}
<1>1. MaxLevel \in Nat
  BY SolverAssumption
<1>2. dpm_level_alone(c) \in 0..MaxLevel
  <2>1. ok # {} => (CHOOSE l \in ok : \A k \in ok : l <= k) \in ok
    <3>1. ok \in SUBSET Nat
      BY <1>1
    <3> HIDE DEF ok
    <3> QED BY <3>1, NatHasMin
  <2> QED BY <1>1, <2>1 DEF dpm_level_alone
<1>3. levels \subseteq 0..MaxLevel /\ levels # {}
  BY <1>2 DEF SolverTypeOK
<1> HIDE DEF levels
<1>4. \E l \in levels : \A k \in levels : k <= l
  <2> DEFINE T == {l + 1 : l \in levels}
  <2>1. T \in SUBSET (1..(MaxLevel + 1)) /\ MaxLevel + 1 \in Nat
    BY <1>1, <1>3
  <2>4. T # {}
    BY <1>3
  <2>2. PICK x \in T : \A y \in T : y <= x
    BY <2>1, <2>4, BoundedHasMax
  <2>3. x - 1 \in levels /\ \A k \in levels : k + 1 <= x
    BY <1>3, <2>2
  <2> QED BY <1>1, <1>3, <2>1, <2>2, <2>3
<1>5. /\ dpm_level_for(c) \in levels
      /\ \A k \in levels : k <= dpm_level_for(c)
  BY <1>4 DEF dpm_level_for, levels
<1>6. dpm_level_alone(c) \in levels /\ \A d \in node_list : node_dpm_level[d] \in levels
  BY DEF levels
<1> QED BY <1>2, <1>3, <1>5, <1>6

(* A higher level meets what a lower one meets, as long as the products do *)
(* not wrap.                                                               *)
LEMMA QosMonotone ==
    ASSUME RisingClock, ProductsFit, NEW c \in Ctx,
           NEW k \in 0..MaxLevel, NEW l \in 0..MaxLevel, k <= l, qos_meet(Qos[c], k)
    PROVE  qos_meet(Qos[c], l)
<1> DEFINE x == Qos[c].opc * Clk[k]
           y == Qos[c].opc * Clk[l]
<1>1. Qos[c].opc \in Nat /\ Clk[k] \in Nat /\ Clk[l] \in Nat /\ Clk[k] <= Clk[l]
  BY SolverAssumption DEF RisingClock
<1>2. x \in Nat /\ y \in Nat /\ x <= y
  <2>1. PICK d \in Nat : Clk[l] = Clk[k] + d
    <3>1. Clk[l] - Clk[k] \in Nat /\ Clk[l] = Clk[k] + (Clk[l] - Clk[k])
      BY <1>1
    <3> QED BY <3>1
  <2>2. \A m, a, b \in Nat : m * a \in Nat /\ m * (a + b) = m * a + m * b
    OBVIOUS
  <2> DEFINE z == Qos[c].opc * d
  <2>3. x \in Nat /\ z \in Nat
    BY <1>1, <2>1, <2>2
  <2>4. y = x + z
    <3>1. Qos[c].opc * (Clk[k] + d) = x + z
      BY <1>1, <2>1, <2>2
    <3> QED BY <2>1, <3>1
  <2> HIDE DEF x, y, z
  <2> QED BY <2>3, <2>4
<1>3. x < U32 /\ y < U32 /\ U32 \in Nat \ {0}
  BY SolverAssumption DEF ProductsFit
<1>4. calculate_gops(Qos[c]) \in Int
  <2>1. /\ Qos[c].latency \in Nat /\ Qos[c].fps \in Nat /\ Qos[c].gops \in Nat
    BY SolverAssumption
  <2> DEFINE rate == IF Qos[c].latency = 0 THEN 0 ELSE 1000 \div Qos[c].latency
             top == IF Qos[c].fps > rate THEN Qos[c].fps ELSE rate
  <2>2. top \in Int
    BY <2>1
  <2>3. top * Qos[c].gops \in Int
    <3> HIDE DEF top
    <3> QED BY <2>1, <2>2
  <2>4. (top * Qos[c].gops) % U32 \in Int
    <3> DEFINE prod == top * Qos[c].gops
    <3>1. prod \in Int
      BY <2>3
    <3> HIDE DEF prod
    <3>2. prod % U32 \in Int
      BY <1>3, <3>1
    <3> QED BY <3>2 DEF prod
  <2> QED BY <2>4 DEF calculate_gops
<1>5. calculate_gops(Qos[c]) <= (x % U32) \div 1000
  BY DEF qos_meet
<1> SUFFICES calculate_gops(Qos[c]) <= (y % U32) \div 1000
  BY DEF qos_meet
<1> HIDE DEF x, y
<1>6. x % U32 = x /\ y % U32 = y
  BY <1>2, <1>3
<1>7. x \div 1000 <= y \div 1000 /\ x \div 1000 \in Int /\ y \div 1000 \in Int
  BY <1>2
<1> QED BY <1>4, <1>5, <1>6, <1>7

(* set_dpm_level(): the level it takes covers every node's, and meets the  *)
(* request of the context, which sanity_check() let through.               *)
LEMMA DpmLevelFits ==
    ASSUME RisingClock, ProductsFit, SolverTypeOK, NEW c \in Ctx, sanity_check(c)
    PROVE  /\ \A d \in node_list : node_dpm_level[d] <= dpm_level_for(c)
           /\ qos_meet(Qos[c], dpm_level_for(c))
<1>1. /\ dpm_level_for(c) \in 0..MaxLevel /\ dpm_level_alone(c) \in 0..MaxLevel
      /\ dpm_level_alone(c) <= dpm_level_for(c)
      /\ \A d \in node_list : node_dpm_level[d] <= dpm_level_for(c)
  BY DpmLevelForType
<1>2. qos_meet(Qos[c], dpm_level_alone(c))
  <2> DEFINE ok == {l \in 0..(MaxLevel - 1) : qos_meet(Qos[c], l)}
  <2>1. ok # {} => (CHOOSE l \in ok : \A k \in ok : l <= k) \in ok
    <3>1. ok \in SUBSET Nat
      BY SolverAssumption
    <3> HIDE DEF ok
    <3> QED BY <3>1, NatHasMin
  <2>2. qos_meet(Qos[c], MaxLevel)
    BY DEF sanity_check
  <2>3. \A l \in ok : qos_meet(Qos[c], l)
    OBVIOUS
  <2>4. dpm_level_alone(c) = MaxLevel \/ dpm_level_alone(c) \in ok
    BY <2>1 DEF dpm_level_alone
  <2> QED BY <2>2, <2>3, <2>4
<1> QED BY <1>1, <1>2, QosMonotone

(* Recording the level of a context leaves everything else.                *)
LEMMA RecordLevelSound ==
    ASSUME SolverInv, NEW c \in Ctx, NEW l \in 0..MaxLevel, record_dpm_level(c, l)
    PROVE  SolverInv'
<1>1. UNCHANGED <<node_list, pt_node, nnode, pt_node_list, ncols, nshared, resbit,
                  npartition_node>>
  BY DEF record_dpm_level, partVars
<1>2. SolverTypeOK'
  BY <1>1 DEF SolverInv, SolverTypeOK, record_dpm_level
<1>3. \A s : Users(s)' = Users(s)
  BY <1>1 DEF Users
<1>4. SharedExact'
  BY <1>1, <1>3 DEF SolverInv, SharedExact
<1>5. PartitionsDisjoint' /\ ResbitExact' /\ CountsExact'
  BY <1>1 DEF SolverInv, PartitionsDisjoint, ResbitExact, CountsExact
<1>6. ShapeKept'
  BY <1>1 DEF SolverInv, ShapeKept, col_list
<1> QED BY <1>2, <1>4, <1>5, <1>6 DEF SolverInv

(* The solver's invariant is about the solver's state only.                *)
LEMMA SolverSame ==
    ASSUME SolverInv, UNCHANGED solverVars
    PROVE  SolverInv'
<1>1. UNCHANGED <<node_list, pt_node, node_dpm_level, nnode, pt_node_list, ncols, nshared,
                  resbit, npartition_node>>
  BY DEF solverVars, nodeVars, partVars
<1>2. \A s : Users(s)' = Users(s)
  BY <1>1 DEF Users
<1> QED BY <1>1, <1>2
     DEF SolverInv, SolverTypeOK, PartitionsDisjoint, ResbitExact, SharedExact,
         ShapeKept, CountsExact

(* The inductive invariant of the device.                                  *)
DevInv == DeviceInv /\ FirmwareMatchesLeases /\ ChannelsSound

(* The steps of aie2_hw_start(), of aie2_hw_stop() and of both error       *)
(* ladders, and those of a context's start and stop.                       *)
BootStep ==
    \/ HwStart \/ RunAll \/ PciEnable \/ SmuStart \/ PspStart \/ MgmtChannInfo
    \/ MboxCreate \/ StartChan \/ StartPm \/ StartGate \/ SkipProtocolVersion
    \/ CheckProtocolVersion \/ RuntimeCfg \/ AssignMgmtPasid \/ ResetSuspend
    \/ ResetResume \/ AsyncEventsSend
DownStep == Suspend \/ HwStop \/ UndoChan \/ UndoMbox \/ UndoPsp \/ UndoSmu \/ UndoPci \/ Off
LoadStep ==
    \/ SchedInit \/ Alloc \/ CreateContext \/ ForcePreempt \/ CreateChannel
    \/ NoChannel \/ SetDpmLevel \/ MapHostBuf \/ ConfigCu
    \/ \E c \in Ctx : HwctxStart(c)
UnloadStep ==
    \/ EntityDestroy \/ UnloadStop \/ UnloadDestroy \/ UnloadFree \/ FreeNode
    \/ SchedFini \/ \E c \in Ctx : HwctxStop(c)
ModeStep == SetModeGate \/ \E m \in Modes : SetMode(m)

(* A message leaves the channel as it is, or takes it down with a timeout. *)
LEMMA MgmtMsgEffect ==
    ASSUME TypeOK, NEW r \in Results, mgmt_msg(r)
    PROVE  /\ blame \subseteq blame' /\ blame' \subseteq Faults
           /\ mgmt_chann' \in {"open", "NULL"}
           /\ mgmt_chann' = mgmt_chann \/ (mgmt_chann' = "NULL" /\ "timeout" \in blame')
           /\ r = "ok" => mgmt_chann = "open" /\ mgmt_chann' = "open" /\ blame' = blame
           /\ r = "fail" => mgmt_chann' = "open" /\ "msg_fail" \in blame'
           /\ r = "time" => "timeout" \in blame'
           /\ r = "nodev" => mgmt_chann = "NULL" /\ blame' = blame
BY DEF TypeOK, mgmt_msg, Results, Met

(* Setting the clock records a level the device has, or fails with the SMU *)
(* to blame when that is on.                                               *)
LEMMA SetDpmEffect ==
    ASSUME TypeOK, NEW l \in 0..MaxLevel, NEW r \in {"ok", "fail"}, set_dpm(l, r)
    PROVE  /\ blame \subseteq blame' /\ blame' \subseteq Faults /\ dpm_level' \in 0..MaxLevel
           /\ r = "fail" /\ "smu" \in layers => "smu_fail" \in blame'
BY DEF TypeOK, set_dpm, Met

(* A step of the device's start moves along the ladder and leaves the      *)
(* contexts alone.                                                         *)
LEMMA BootFrame ==
    ASSUME DevInv, BootStep
    PROVE  /\ UNCHANGED <<solverVars, ctxVars, cur, fw_ctx, oops>>
           /\ at \in StartSteps \cup {"idle", "run_all"} /\ phase = "off"
           /\ at' \in StartSteps \cup StopSteps \cup {"off", "idle", "run_all"}
           /\ blame \subseteq blame' /\ blame' \subseteq Faults
           /\ UNCHANGED <<pw_mode, unsure>> \/ pw_mode' = "DEFAULT"
<1>1. TypeOK
  BY DEF DevInv, DeviceInv
<1>2. at \in StartSteps => phase = "off"
  BY DEF DevInv, DeviceInv, PhaseLadder
<1>3. CASE HwStart \/ RunAll
    BY <1>3
       DEF HwStart, RunAll, TypeOK, StartSteps, clkVars, DevInv, DeviceInv,
           PhaseLadder
<1>4. CASE PciEnable \/ SmuStart \/ PspStart \/ MgmtChannInfo \/ MboxCreate
    BY <1>1, <1>2, <1>4
       DEF PciEnable, SmuStart, PspStart, MgmtChannInfo, MboxCreate, BringUp,
           start_ladder, Met, Goto, TypeOK, StartSteps, StopSteps, clkVars
<1>5. CASE StartChan \/ SkipProtocolVersion \/ AsyncEventsSend
    BY <1>1, <1>2, <1>5
       DEF StartChan, SkipProtocolVersion, AsyncEventsSend, Met, Goto, TypeOK,
           StartSteps, StopSteps, clkVars
<1>6. CASE StartPm
  <2>1. PICK r \in {"ok", "fail"} :
           /\ set_dpm(IF dev_status = "UNINIT" THEN MaxLevel ELSE dpm_level, r)
           /\ Goto(IF r = "ok" THEN "gate" ELSE "f_chan")
    BY <1>6 DEF StartPm
  <2>2. (IF dev_status = "UNINIT" THEN MaxLevel ELSE dpm_level) \in 0..MaxLevel
    BY <1>1, SolverAssumption DEF TypeOK
  <2> QED BY <1>1, <1>2, <1>6, <2>1, <2>2, SetDpmEffect DEF StartPm, Goto, StartSteps, StopSteps
<1>7. CASE StartGate
  BY <1>1, <1>2, <1>7, MgmtMsgEffect DEF StartGate, Goto, StartSteps, StopSteps
<1>8. CASE CheckProtocolVersion \/ RuntimeCfg \/ AssignMgmtPasid \/ ResetSuspend \/ ResetResume
    BY <1>1, <1>2, <1>8, MgmtMsgEffect
       DEF CheckProtocolVersion, RuntimeCfg, AssignMgmtPasid, ResetSuspend,
           ResetResume, InitMsg, Goto, StartSteps, StopSteps, clkVars
<1> QED BY <1>3, <1>4, <1>5, <1>6, <1>7, <1>8 DEF BootStep

(* So does a step of its stop.                                             *)
LEMMA DownFrame ==
    ASSUME DevInv, DownStep
    PROVE  /\ UNCHANGED <<solverVars, ctxVars, pw_mode>>
           /\ at \in StopSteps \cup {"idle", "off"}
           /\ at' \in StopSteps \cup {"idle", "off", "dead"}
           /\ blame \subseteq blame' /\ blame' \subseteq Faults
<1>1. TypeOK
  BY DEF DevInv, DeviceInv
<1>2. CASE Suspend \/ UndoChan \/ UndoMbox \/ UndoPsp \/ UndoPci \/ Off
    BY <1>1, <1>2
       DEF Suspend, UndoChan, UndoMbox, UndoPsp, UndoPci, Off, Goto, TypeOK,
           StopSteps, clkVars
<1>3. CASE HwStop
  BY <1>1, <1>3, MgmtMsgEffect DEF HwStop, TypeOK, StopSteps, clkVars
<1>4. CASE UndoSmu
  BY <1>1, <1>4, SetDpmEffect, SolverAssumption DEF UndoSmu, Goto, StopSteps
<1> QED BY <1>2, <1>3, <1>4 DEF DownStep

(* A step of a context leaves the device up, and takes the management      *)
(* channel down only with a timeout.                                       *)
LEMMA CtxFrame ==
    ASSUME DevInv, LoadStep \/ UnloadStep
    PROVE  /\ UNCHANGED <<layerVars, phase, pw_mode, clk_gating>>
           /\ phase # "off" /\ dev_status = "START" /\ layers = Layers
           /\ at \in CtxSteps \cup {"idle"} /\ at' \in CtxSteps \cup {"off", "dead"}
           /\ at' \in CtxSteps => cur' \in Ctx
           /\ cur' \in Ctx \cup Mode \cup {"none"}
           /\ blame \subseteq blame' /\ blame' \subseteq Faults
           /\ mgmt_chann' \in {"open", "NULL"}
           /\ mgmt_chann' = mgmt_chann \/ (mgmt_chann' = "NULL" /\ "timeout" \in blame')
           /\ dft_dpm_level' \in 0..MaxLevel /\ dpm_level' \in 0..MaxLevel
           /\ unsure' \in BOOLEAN
<1>1. TypeOK /\ SolverTypeOK
  BY DEF DevInv, DeviceInv, SolverInv
<1>2. ASSUME at \in CtxSteps \/ (at = "idle" /\ (phase = "run" \/ started # {}))
      PROVE  phase # "off" /\ dev_status = "START" /\ layers = Layers
  BY <1>2 DEF DevInv, DeviceInv, DeviceLadder, PhaseLadder, RestSteps
<1>3. CASE \E c \in Ctx : HwctxStart(c) \/ HwctxStop(c)
  BY <1>1, <1>2, <1>3 DEF HwctxStart, HwctxStop, TypeOK, CtxSteps, clkVars
<1>4. CASE SchedInit \/ Alloc \/ CreateChannel
    BY <1>1, <1>2, <1>4
       DEF SchedInit, Alloc, CreateChannel, Met, Goto, TypeOK, CtxSteps, clkVars
<1>5. CASE CreateContext \/ ForcePreempt
    BY <1>1, <1>2, <1>5, MgmtMsgEffect
       DEF CreateContext, ForcePreempt, create_failed, Goto, TypeOK, CtxSteps, clkVars
<1>6. CASE NoChannel \/ UnloadDestroy
    BY <1>1, <1>2, <1>6, MgmtMsgEffect
       DEF NoChannel, UnloadDestroy, destroy_context, Goto, TypeOK, CtxSteps, clkVars
<1>7. CASE SetDpmLevel
  BY <1>1, <1>2, <1>7, SetDpmEffect, DpmLevelForType
     DEF SetDpmLevel, Goto, TypeOK, CtxSteps, layerVars
<1>8. CASE MapHostBuf
  BY <1>1, <1>2, <1>8, MgmtMsgEffect DEF MapHostBuf, Goto, TypeOK, CtxSteps, clkVars
<1>9. CASE ConfigCu
    BY <1>1, <1>2, <1>9, MgmtMsgEffect
       DEF ConfigCu, destroy_context, Goto, TypeOK, CtxSteps, clkVars
<1>10. CASE EntityDestroy \/ UnloadStop \/ UnloadFree \/ FreeNode \/ SchedFini
    BY <1>1, <1>2, <1>10
       DEF EntityDestroy, UnloadStop, UnloadFree, FreeNode, SchedFini, Goto, TypeOK,
           CtxSteps, clkVars
<1> QED BY <1>3, <1>4, <1>5, <1>6, <1>7, <1>8, <1>9, <1>10 DEF LoadStep, UnloadStep

(* A change of mode changes the clock, and the mode when the firmware      *)
(* agrees.                                                                 *)
LEMMA ModeFrame ==
    ASSUME DevInv, ModeStep
    PROVE  /\ UNCHANGED <<solverVars, layerVars, ctxVars, phase, fw_ctx, oops>>
           /\ at \in RestSteps /\ at' \in {"off", "mode_gate"}
           /\ at' = "mode_gate" => /\ cur' \in Mode
                                   /\ cur' = "TURBO" => hwctx_cnt = 0
           /\ cur' \in Ctx \cup Mode \cup {"none"}
           /\ pw_mode' = pw_mode \/ (at = "mode_gate" /\ pw_mode' = cur)
           /\ blame \subseteq blame' /\ blame' \subseteq Faults
           /\ mgmt_chann' \in {"open", "NULL"}
           /\ mgmt_chann' = mgmt_chann \/ (mgmt_chann' = "NULL" /\ "timeout" \in blame')
           /\ dft_dpm_level' = dft_dpm_level /\ dpm_level' \in 0..MaxLevel
           /\ unsure' \in BOOLEAN /\ clk_gating' \in BOOLEAN
<1>1. TypeOK
  BY DEF DevInv, DeviceInv
<1>2. CASE SetModeGate
  BY <1>1, <1>2, MgmtMsgEffect DEF SetModeGate, Goto, RestSteps, TypeOK
<1>3. CASE \E m \in Modes : SetMode(m)
  <2>1. PICK m \in Modes : SetMode(m)
    BY <1>3
  <2>2. m \in Mode /\ mode_level(m) \in 0..MaxLevel
    BY <1>1, DeviceAssumption, SolverAssumption DEF mode_level, Mode, TypeOK
  <2>3. PICK r \in {"ok", "fail"} :
          /\ set_dpm(mode_level(m), r)
          /\ at' = (IF r = "ok" THEN "mode_gate" ELSE "off")
          /\ unsure' = (unsure \/ r = "ok")
    BY <2>1 DEF SetMode
  <2>4. /\ blame \subseteq blame' /\ blame' \subseteq Faults /\ dpm_level' \in 0..MaxLevel
    BY <1>1, <2>2, <2>3, SetDpmEffect
  <2> QED BY <1>1, <2>1, <2>2, <2>3, <2>4 DEF SetMode, mode_allowed, RestSteps, TypeOK
<1> QED BY <1>2, <1>3 DEF ModeStep

(* What is up at each step.                                                *)
LEMMA DeviceLadderStep ==
    ASSUME DevInv, BootStep \/ DownStep \/ LoadStep \/ UnloadStep \/ ModeStep
    PROVE  DeviceLadder'
<1> USE DEF StartSteps, StopSteps, CtxSteps, RestSteps, Layers
<1>1. TypeOK /\ DeviceLadder /\ PhaseLadder
  BY DEF DevInv, DeviceInv
<1>2. CASE HwStart \/ RunAll \/ AsyncEventsSend \/ StartChan \/ SkipProtocolVersion
    BY <1>1, <1>2
       DEF HwStart, RunAll, AsyncEventsSend, StartChan, SkipProtocolVersion, Goto,
           layerVars, DeviceLadder, PhaseLadder
<1>3. CASE PciEnable \/ SmuStart \/ PspStart \/ MgmtChannInfo \/ MboxCreate
    BY <1>1, <1>3
       DEF PciEnable, SmuStart, PspStart, MgmtChannInfo, MboxCreate, BringUp,
           start_ladder, Goto, DeviceLadder, PhaseLadder
<1>4. CASE StartPm \/ StartGate
  BY <1>1, <1>4 DEF StartPm, StartGate, Goto, layerVars, DeviceLadder
<1>5. CASE CheckProtocolVersion \/ RuntimeCfg \/ AssignMgmtPasid \/ ResetSuspend \/ ResetResume
    BY <1>1, <1>5
       DEF CheckProtocolVersion, RuntimeCfg, AssignMgmtPasid, ResetSuspend,
           ResetResume, InitMsg, Goto, layerVars, DeviceLadder
<1>6. CASE Suspend \/ HwStop \/ UndoChan \/ Off
  BY <1>1, <1>6 DEF Suspend, HwStop, UndoChan, Off, Goto, layerVars, DeviceLadder
<1>9. CASE UndoMbox \/ UndoPsp \/ UndoSmu \/ UndoPci
  BY <1>1, <1>9 DEF UndoMbox, UndoPsp, UndoSmu, UndoPci, Goto, DeviceLadder
<1>7. CASE LoadStep \/ UnloadStep
  BY <1>7, CtxFrame DEF DeviceLadder, layerVars
<1>8. CASE ModeStep
  BY <1>1, <1>8, ModeFrame DEF DeviceLadder, layerVars
<1> QED BY <1>2, <1>3, <1>4, <1>5, <1>6, <1>7, <1>8, <1>9 DEF BootStep, DownStep

(* The phase and the device's status go together.                          *)
LEMMA PhaseLadderStep ==
    ASSUME DevInv, BootStep \/ DownStep \/ LoadStep \/ UnloadStep \/ ModeStep
    PROVE  PhaseLadder'
<1> USE DEF StartSteps, StopSteps, CtxSteps, RestSteps
<1>1. TypeOK /\ PhaseLadder
  BY DEF DevInv, DeviceInv
<1>2. CASE HwStart \/ RunAll \/ AsyncEventsSend \/ StartChan \/ SkipProtocolVersion
    BY <1>1, <1>2
       DEF HwStart, RunAll, AsyncEventsSend, StartChan, SkipProtocolVersion, Goto,
           layerVars, ctxVars, PhaseLadder
<1>3. CASE PciEnable \/ SmuStart \/ PspStart \/ MgmtChannInfo \/ MboxCreate
    BY <1>1, <1>3
       DEF PciEnable, SmuStart, PspStart, MgmtChannInfo, MboxCreate, BringUp,
           start_ladder, Goto, ctxVars, PhaseLadder
<1>4. CASE StartPm \/ StartGate
  BY <1>1, <1>4 DEF StartPm, StartGate, Goto, layerVars, ctxVars, PhaseLadder
<1>5. CASE CheckProtocolVersion \/ RuntimeCfg \/ AssignMgmtPasid \/ ResetSuspend \/ ResetResume
    BY <1>1, <1>5
       DEF CheckProtocolVersion, RuntimeCfg, AssignMgmtPasid, ResetSuspend,
           ResetResume, InitMsg, Goto, layerVars, ctxVars, PhaseLadder
<1>6. CASE DownStep
    BY <1>1, <1>6
       DEF DownStep, Suspend, HwStop, paused, UndoChan, UndoMbox, UndoPsp, UndoSmu,
           UndoPci, Off, Goto, layerVars, ctxVars, PhaseLadder
<1>7. CASE LoadStep \/ UnloadStep
  BY <1>7, CtxFrame DEF PhaseLadder, layerVars
<1>8. CASE ModeStep
  BY <1>1, <1>8, ModeFrame DEF PhaseLadder, layerVars, ctxVars
<1> QED BY <1>2, <1>3, <1>4, <1>5, <1>6, <1>7, <1>8 DEF BootStep

(* The management channel is there, or a message has timed out.            *)
LEMMA MgmtLadderStep ==
    ASSUME DevInv, BootStep \/ DownStep \/ LoadStep \/ UnloadStep \/ ModeStep
    PROVE  MgmtLadder'
<1> USE DEF StartSteps, StopSteps, CtxSteps, RestSteps
<1>1. TypeOK /\ PhaseLadder /\ MgmtLadder
  BY DEF DevInv, DeviceInv
<1>2. CASE HwStart \/ RunAll \/ AsyncEventsSend \/ StartChan \/ SkipProtocolVersion
    BY <1>1, <1>2
       DEF HwStart, RunAll, AsyncEventsSend, StartChan, SkipProtocolVersion, Goto,
           layerVars, PhaseLadder, MgmtLadder
<1>3. CASE PciEnable \/ SmuStart \/ PspStart \/ MgmtChannInfo \/ MboxCreate
    BY <1>1, <1>3
       DEF PciEnable, SmuStart, PspStart, MgmtChannInfo, MboxCreate, BringUp,
           start_ladder, Goto, PhaseLadder, MgmtLadder
<1>4. CASE StartPm
  BY <1>1, <1>4 DEF StartPm, Goto, layerVars, PhaseLadder, MgmtLadder
<1>5. CASE StartGate
  BY <1>1, <1>5, MgmtMsgEffect DEF StartGate, Goto, MgmtLadder
<1>6. CASE CheckProtocolVersion \/ RuntimeCfg \/ AssignMgmtPasid \/ ResetSuspend \/ ResetResume
    BY <1>1, <1>6, MgmtMsgEffect
       DEF CheckProtocolVersion, RuntimeCfg, AssignMgmtPasid, ResetSuspend,
           ResetResume, InitMsg, Goto, MgmtLadder
<1>7. CASE HwStop
  BY <1>1, <1>7, MgmtMsgEffect DEF HwStop, layerVars, PhaseLadder, MgmtLadder
<1>8. CASE Suspend \/ UndoChan \/ UndoMbox \/ UndoPsp \/ UndoSmu \/ UndoPci \/ Off
    BY <1>1, <1>8
       DEF Suspend, UndoChan, UndoMbox, UndoPsp, UndoSmu, UndoPci, Off, Goto,
           layerVars, PhaseLadder, MgmtLadder
<1>9. CASE LoadStep \/ UnloadStep
  BY <1>1, <1>9, CtxFrame DEF MgmtLadder, PhaseLadder, layerVars
<1>10. CASE ModeStep
  BY <1>1, <1>10, ModeFrame DEF MgmtLadder, PhaseLadder, layerVars
<1> QED BY <1>2, <1>3, <1>4, <1>5, <1>6, <1>7, <1>8, <1>9, <1>10 DEF BootStep, DownStep

(* The types of the state of a context.                                    *)
CtxTypes ==
    /\ id \in [Ctx -> Col \cup {None}]
    /\ mbox_chann \in [Ctx -> {"NULL", "irq", "poll", "freed"}]
    /\ sched \in [Ctx -> SUBSET {"sched", "entity"}] /\ started \subseteq Ctx
    /\ hwctx_cnt \in Nat /\ fw_ctx \subseteq Ctx \X Col /\ oops \in BOOLEAN

(* What the invariant says of the contexts.                                *)
CtxPart ==
    /\ SolverInv /\ CtxTypes /\ CtxLadder /\ IdOnLeasedColumns /\ IdLadder
    /\ FirmwareContextsOwned /\ OopsNeedsFault /\ StartedReachable /\ ChannelLadder

(* The scheduler of a context is initialised.                            *)
LEMMA SchedInitStep ==
    ASSUME DevInv, SchedInit
    PROVE  CtxPart'
<1> USE DEF CtxSteps, HasId, ctxVars
<1>1. /\ TypeOK /\ SolverInv /\ SolverTypeOK /\ CtxLadder /\ PhaseLadder /\ MgmtLadder
      /\ IdOnLeasedColumns /\ IdLadder /\ FirmwareContextsOwned
      /\ OopsNeedsFault /\ StartedReachable /\ ChannelLadder
  BY DEF DevInv, DeviceInv, SolverInv, FirmwareMatchesLeases, ChannelsSound
<1>2. /\ cur \in Ctx /\ UNCHANGED <<pw_mode, layers>> /\ layers = Layers /\ phase # "off"
      /\ blame \subseteq blame'
  BY <1>1, CtxFrame DEF LoadStep, UnloadStep, TypeOK, SchedInit, layerVars
<1>3. SolverInv'
  BY <1>1, SolverSame DEF SchedInit
<1>4. CtxTypes'
  BY <1>1, <1>2 DEF SchedInit, Met, Goto, TypeOK, CtxTypes
<1>5. CtxLadder'
  <2>1. \A c \in Ctx : c # cur => sched'[c] = sched[c]
    BY <1>1 DEF SchedInit, TypeOK
  <2>2. CASE at = "sched"
    <3>1. sched[cur] = {} /\ cur \notin started /\ cur \notin node_list
      BY <1>1, <2>2 DEF CtxLadder
    <3>2. \/ at' = "off" /\ sched' = sched
          \/ at' = "entity" /\ sched'[cur] = {"sched"}
      BY <1>1, <1>2, <2>2, <3>1 DEF SchedInit, Goto, TypeOK
    <3> QED BY <1>1, <1>2, <2>1, <2>2, <3>1, <3>2
            DEF SchedInit, Goto, CtxLadder, solverVars, nodeVars
  <2>3. CASE at = "entity"
    <3>1. sched[cur] = {"sched"} /\ cur \notin started /\ cur \notin node_list
      BY <1>1, <2>3 DEF CtxLadder
    <3>2. \/ at' = "x_sched" /\ sched' = sched
          \/ at' = "alloc" /\ sched'[cur] = {"sched", "entity"}
      BY <1>1, <1>2, <2>3, <3>1 DEF SchedInit, Goto, TypeOK
    <3> QED BY <1>1, <1>2, <2>1, <2>3, <3>1, <3>2
            DEF SchedInit, Goto, CtxLadder, solverVars, nodeVars
  <2> QED BY <2>2, <2>3 DEF SchedInit
<1>6. IdOnLeasedColumns' /\ IdLadder'
  BY <1>1, <1>2 DEF SchedInit, Goto, IdOnLeasedColumns, IdLadder, solverVars, nodeVars
<1>7. FirmwareContextsOwned'
  BY <1>1, <1>2 DEF SchedInit, FirmwareContextsOwned
<1>8. OopsNeedsFault' /\ StartedReachable' /\ ChannelLadder'
    BY <1>1, <1>2
       DEF SchedInit, Goto, OopsNeedsFault, StartedReachable, ChannelLadder, Reachable
<1> QED BY <1>3, <1>4, <1>5, <1>6, <1>7, <1>8 DEF CtxPart

(* xrs_allocate_resource() gives a context its columns.                  *)
LEMMA AllocStep ==
    ASSUME DevInv, Alloc
    PROVE  CtxPart'
<1> USE DEF CtxSteps, HasId, ctxVars
<1>1. /\ TypeOK /\ SolverInv /\ SolverTypeOK /\ CtxLadder /\ PhaseLadder /\ MgmtLadder
      /\ IdOnLeasedColumns /\ IdLadder /\ FirmwareContextsOwned
      /\ OopsNeedsFault /\ StartedReachable /\ ChannelLadder
  BY DEF DevInv, DeviceInv, SolverInv, FirmwareMatchesLeases, ChannelsSound
<1>2. /\ cur \in Ctx /\ UNCHANGED <<pw_mode, layers>> /\ layers = Layers /\ phase # "off"
      /\ blame \subseteq blame'
  BY <1>1, CtxFrame DEF LoadStep, UnloadStep, TypeOK, Alloc, layerVars
<1>3. SolverInv'
  <2>1. CASE sanity_check(cur) /\ CanAllocate(cur)
    BY <1>1, <1>2, <2>1, CreateNodeSound DEF Alloc
  <2>2. CASE ~(sanity_check(cur) /\ CanAllocate(cur))
    BY <1>1, <2>2, SolverSame DEF Alloc
  <2> QED BY <2>1, <2>2
<1>4. CtxTypes'
  BY <1>1, <1>2, CreateNodeSound DEF Alloc, Goto, TypeOK, CtxTypes
<1>5. CtxLadder'
  BY <1>1, <1>2, CreateNodeSound DEF Alloc, Goto, CtxLadder, solverVars, nodeVars
<1>6. IdOnLeasedColumns' /\ IdLadder'
    BY <1>1, <1>2, CreateNodeSound
       DEF Alloc, Goto, IdOnLeasedColumns, IdLadder, solverVars, nodeVars
<1>7. FirmwareContextsOwned'
  BY <1>1, <1>2 DEF Alloc, FirmwareContextsOwned
<1>8. OopsNeedsFault' /\ StartedReachable' /\ ChannelLadder'
    BY <1>1, <1>2
       DEF Alloc, Goto, OopsNeedsFault, StartedReachable, ChannelLadder, Reachable
<1> QED BY <1>3, <1>4, <1>5, <1>6, <1>7, <1>8 DEF CtxPart

(* The firmware creates a context on the columns leased to it.           *)
LEMMA CreateContextStep ==
    ASSUME DevInv, CreateContext
    PROVE  CtxPart'
<1> USE DEF CtxSteps, HasId, ctxVars
<1>1. /\ TypeOK /\ SolverInv /\ SolverTypeOK /\ CtxLadder /\ PhaseLadder /\ MgmtLadder
      /\ IdOnLeasedColumns /\ IdLadder /\ FirmwareContextsOwned
      /\ OopsNeedsFault /\ StartedReachable /\ ChannelLadder
  BY DEF DevInv, DeviceInv, SolverInv, FirmwareMatchesLeases, ChannelsSound
<1>2. /\ cur \in Ctx /\ UNCHANGED <<pw_mode, layers>> /\ layers = Layers /\ phase # "off"
      /\ blame \subseteq blame'
  BY <1>1, CtxFrame DEF LoadStep, UnloadStep, TypeOK, CreateContext, layerVars
<1>3. SolverInv'
  BY <1>1, SolverSame DEF CreateContext
<1>4. CtxTypes'
  <2>1. pt_node[cur] \in Col
    BY <1>1, <1>2, ColListFits DEF CtxLadder, CreateContext, SolverInv, ShapeKept
  <2>2. id' \in [Ctx -> Col \cup {None}]
    BY <1>1, <1>2, <2>1 DEF CreateContext, TypeOK
  <2>3. fw_ctx' \subseteq Ctx \X Col
    BY <1>1, <1>2, <2>1 DEF CreateContext, TypeOK
  <2> QED BY <1>1, <2>2, <2>3 DEF CreateContext, TypeOK, CtxTypes
<1>5. CtxLadder'
  BY <1>1 DEF CreateContext, create_failed, Goto, CtxLadder, solverVars, nodeVars
<1>6. IdOnLeasedColumns' /\ IdLadder'
    BY <1>1, MgmtMsgEffect
       DEF CreateContext, Goto, CtxLadder, IdOnLeasedColumns, IdLadder, solverVars,
           nodeVars
<1>7. FirmwareContextsOwned'
    BY <1>1, <1>2, MgmtMsgEffect
       DEF CreateContext, TypeOK, IdLadder, FirmwareContextsOwned, Layers, None, Col
<1>8. OopsNeedsFault' /\ StartedReachable' /\ ChannelLadder'
    BY <1>1, <1>2
       DEF CreateContext, create_failed, Goto, OopsNeedsFault, StartedReachable,
           ChannelLadder, Reachable
<1> QED BY <1>3, <1>4, <1>5, <1>6, <1>7, <1>8 DEF CtxPart

(* A message whose failure is only logged.                               *)
LEMMA ForcePreemptStep ==
    ASSUME DevInv, ForcePreempt
    PROVE  CtxPart'
<1> USE DEF CtxSteps, HasId, ctxVars
<1>1. /\ TypeOK /\ SolverInv /\ SolverTypeOK /\ CtxLadder /\ PhaseLadder /\ MgmtLadder
      /\ IdOnLeasedColumns /\ IdLadder /\ FirmwareContextsOwned
      /\ OopsNeedsFault /\ StartedReachable /\ ChannelLadder
  BY DEF DevInv, DeviceInv, SolverInv, FirmwareMatchesLeases, ChannelsSound
<1>2. /\ cur \in Ctx /\ UNCHANGED <<pw_mode, layers>> /\ layers = Layers /\ phase # "off"
      /\ blame \subseteq blame'
  BY <1>1, CtxFrame DEF LoadStep, UnloadStep, TypeOK, ForcePreempt, layerVars
<1>3. SolverInv'
  BY <1>1, SolverSame DEF ForcePreempt
<1>4. CtxTypes'
  BY <1>1, <1>2, MgmtMsgEffect DEF ForcePreempt, Goto, TypeOK, CtxTypes
<1>5. CtxLadder'
  BY <1>1 DEF ForcePreempt, Goto, CtxLadder, solverVars, nodeVars
<1>6. IdOnLeasedColumns' /\ IdLadder'
    BY <1>1, MgmtMsgEffect
       DEF ForcePreempt, Goto, IdOnLeasedColumns, IdLadder, solverVars, nodeVars
<1>7. FirmwareContextsOwned'
  BY <1>1, <1>2 DEF ForcePreempt, FirmwareContextsOwned
<1>8. OopsNeedsFault' /\ StartedReachable' /\ ChannelLadder'
    BY <1>1, <1>2
       DEF ForcePreempt, Goto, OopsNeedsFault, StartedReachable, ChannelLadder,
           Reachable
<1> QED BY <1>3, <1>4, <1>5, <1>6, <1>7, <1>8 DEF CtxPart

(* A context gets a channel, polled in turbo mode.                       *)
LEMMA CreateChannelStep ==
    ASSUME DevInv, CreateChannel
    PROVE  CtxPart'
<1> USE DEF CtxSteps, HasId, ctxVars
<1>1. /\ TypeOK /\ SolverInv /\ SolverTypeOK /\ CtxLadder /\ PhaseLadder /\ MgmtLadder
      /\ IdOnLeasedColumns /\ IdLadder /\ FirmwareContextsOwned
      /\ OopsNeedsFault /\ StartedReachable /\ ChannelLadder
  BY DEF DevInv, DeviceInv, SolverInv, FirmwareMatchesLeases, ChannelsSound
<1>2. /\ cur \in Ctx /\ UNCHANGED <<pw_mode, layers>> /\ layers = Layers /\ phase # "off"
      /\ blame \subseteq blame'
  BY <1>1, CtxFrame DEF LoadStep, UnloadStep, TypeOK, CreateChannel, layerVars
<1>3. SolverInv'
  BY <1>1, SolverSame DEF CreateChannel
<1>4. CtxTypes'
  BY <1>1, <1>2 DEF CreateChannel, Met, Goto, TypeOK, CtxTypes
<1>5. CtxLadder'
  BY <1>1 DEF CreateChannel, Goto, CtxLadder, solverVars, nodeVars
<1>6. IdOnLeasedColumns' /\ IdLadder'
    BY <1>1, <1>2
       DEF CreateChannel, Goto, IdOnLeasedColumns, IdLadder, solverVars, nodeVars
<1>7. FirmwareContextsOwned'
  BY <1>1, <1>2 DEF CreateChannel, FirmwareContextsOwned
<1>8. OopsNeedsFault' /\ StartedReachable' /\ ChannelLadder'
    BY <1>1, <1>2
       DEF CreateChannel, Met, Goto, TypeOK, OopsNeedsFault, StartedReachable,
           ChannelLadder, Reachable
<1> QED BY <1>3, <1>4, <1>5, <1>6, <1>7, <1>8 DEF CtxPart

(* Without a channel the firmware context goes again.                    *)
LEMMA NoChannelStep ==
    ASSUME DevInv, NoChannel
    PROVE  CtxPart'
<1> USE DEF CtxSteps, HasId, ctxVars
<1>1. /\ TypeOK /\ SolverInv /\ SolverTypeOK /\ CtxLadder /\ PhaseLadder /\ MgmtLadder
      /\ IdOnLeasedColumns /\ IdLadder /\ FirmwareContextsOwned
      /\ OopsNeedsFault /\ StartedReachable /\ ChannelLadder
  BY DEF DevInv, DeviceInv, SolverInv, FirmwareMatchesLeases, ChannelsSound
<1>2. /\ cur \in Ctx /\ UNCHANGED <<pw_mode, layers>> /\ layers = Layers /\ phase # "off"
      /\ blame \subseteq blame'
  BY <1>1, CtxFrame DEF LoadStep, UnloadStep, TypeOK, NoChannel, layerVars
<1>3. SolverInv'
  BY <1>1, SolverSame DEF NoChannel
<1>4. CtxTypes'
  BY <1>1 DEF NoChannel, destroy_context, forget_id, TypeOK, CtxTypes
<1>5. CtxLadder'
  BY <1>1 DEF NoChannel, Goto, CtxLadder, solverVars, nodeVars
<1>6. IdOnLeasedColumns' /\ IdLadder'
    BY <1>1, MgmtMsgEffect
       DEF NoChannel, destroy_context, forget_id, Goto, IdOnLeasedColumns, IdLadder,
           solverVars, nodeVars
<1>7. FirmwareContextsOwned'
    BY <1>1, <1>2, MgmtMsgEffect
       DEF NoChannel, destroy_context, forget_id, Results, TypeOK,
           FirmwareContextsOwned, MgmtLadder
<1>8. OopsNeedsFault' /\ StartedReachable' /\ ChannelLadder'
    BY <1>1, <1>2
       DEF NoChannel, destroy_context, forget_id, Goto, TypeOK, OopsNeedsFault,
           StartedReachable, ChannelLadder, Reachable
<1> QED BY <1>3, <1>4, <1>5, <1>6, <1>7, <1>8 DEF CtxPart

(* A clock that cannot be set leaves the firmware context behind.        *)
LEMMA SetDpmLevelStep ==
    ASSUME DevInv, SetDpmLevel
    PROVE  CtxPart'
<1> USE DEF CtxSteps, HasId, ctxVars
<1>1. /\ TypeOK /\ SolverInv /\ SolverTypeOK /\ CtxLadder /\ PhaseLadder /\ MgmtLadder
      /\ IdOnLeasedColumns /\ IdLadder /\ FirmwareContextsOwned
      /\ OopsNeedsFault /\ StartedReachable /\ ChannelLadder
  BY DEF DevInv, DeviceInv, SolverInv, FirmwareMatchesLeases, ChannelsSound
<1>2. /\ cur \in Ctx /\ UNCHANGED <<pw_mode, layers>> /\ layers = Layers /\ phase # "off"
      /\ blame \subseteq blame'
  BY <1>1, CtxFrame DEF LoadStep, UnloadStep, TypeOK, SetDpmLevel, layerVars
<1>3. SolverInv'
  <2>1. dpm_level_for(cur) \in 0..MaxLevel
    BY <1>1, <1>2, DpmLevelForType
  <2> QED BY <1>1, <1>2, <2>1, RecordLevelSound, SolverSame DEF SetDpmLevel
<1>4. CtxTypes'
  BY <1>1, <1>2, SetDpmEffect, DpmLevelForType, RecordLevelSound DEF SetDpmLevel, Goto, TypeOK, CtxTypes
<1>5. CtxLadder'
  <2>1. UNCHANGED <<node_list, id, mbox_chann, sched, started, hwctx_cnt>>
    BY DEF SetDpmLevel, record_dpm_level, solverVars, nodeVars
  <2> QED BY <1>1, <2>1 DEF SetDpmLevel, Goto, CtxLadder
<1>6. IdOnLeasedColumns' /\ IdLadder'
  <2>1. UNCHANGED <<node_list, pt_node, id>>
    BY DEF SetDpmLevel, record_dpm_level, solverVars, nodeVars
  <2>2. dpm_level_for(cur) \in 0..MaxLevel
    BY <1>1, <1>2, DpmLevelForType
  <2>3. at' = "map" \/ (at' = "x_node" /\ "smu_fail" \in blame')
    BY <1>1, <1>2, <2>2, SetDpmEffect DEF SetDpmLevel, Goto, Layers
  <2> QED BY <1>1, <1>2, <2>1, <2>3 DEF IdOnLeasedColumns, IdLadder
<1>7. FirmwareContextsOwned'
  BY <1>1, <1>2 DEF SetDpmLevel, FirmwareContextsOwned
<1>8. OopsNeedsFault' /\ StartedReachable' /\ ChannelLadder'
    BY <1>1, <1>2
       DEF SetDpmLevel, Goto, OopsNeedsFault, StartedReachable, ChannelLadder,
           Reachable
<1> QED BY <1>3, <1>4, <1>5, <1>6, <1>7, <1>8 DEF CtxPart

(* Only a context the firmware knows starts to run.                      *)
LEMMA MapHostBufStep ==
    ASSUME DevInv, MapHostBuf
    PROVE  CtxPart'
<1> USE DEF CtxSteps, HasId, ctxVars
<1>1. /\ TypeOK /\ SolverInv /\ SolverTypeOK /\ CtxLadder /\ PhaseLadder /\ MgmtLadder
      /\ IdOnLeasedColumns /\ IdLadder /\ FirmwareContextsOwned
      /\ OopsNeedsFault /\ StartedReachable /\ ChannelLadder
  BY DEF DevInv, DeviceInv, SolverInv, FirmwareMatchesLeases, ChannelsSound
<1>2. /\ cur \in Ctx /\ UNCHANGED <<pw_mode, layers>> /\ layers = Layers /\ phase # "off"
      /\ blame \subseteq blame'
  BY <1>1, CtxFrame DEF LoadStep, UnloadStep, TypeOK, MapHostBuf, layerVars
<1>3. SolverInv'
  BY <1>1, SolverSame DEF MapHostBuf
<1>4. CtxTypes'
  BY <1>1, <1>2, MgmtMsgEffect DEF MapHostBuf, Results, Goto, TypeOK, CtxTypes
<1>5. CtxLadder'
  <2>1. hwctx_cnt = Cardinality(started) /\ IsFiniteSet(started) /\ cur \notin started
    BY <1>1, <1>2, SolverFinite, FS_Subset DEF MapHostBuf, CtxLadder, TypeOK
  <2>2. Cardinality(started \cup {cur}) = Cardinality(started) + 1
    BY <2>1, FS_AddElement
  <2>3. CASE at' = "config"
    <3>1. started' = started \cup {cur} /\ hwctx_cnt' = hwctx_cnt + 1
      BY <2>3 DEF MapHostBuf, Goto
    <3> QED BY <1>1, <2>2 DEF MapHostBuf, Goto, CtxLadder, solverVars, nodeVars
  <2>4. CASE at' = "u_stop"
    <3>1. started' = started /\ hwctx_cnt' = hwctx_cnt
      BY <2>4 DEF MapHostBuf, Goto
    <3> QED BY <1>1, <3>1 DEF MapHostBuf, Goto, CtxLadder, solverVars, nodeVars
  <2> QED BY <2>3, <2>4 DEF MapHostBuf, Goto
<1>6. IdOnLeasedColumns' /\ IdLadder'
    BY <1>1, MgmtMsgEffect
       DEF MapHostBuf, Goto, IdOnLeasedColumns, IdLadder, solverVars, nodeVars
<1>7. FirmwareContextsOwned'
  BY <1>1, <1>2 DEF MapHostBuf, FirmwareContextsOwned
<1>8. OopsNeedsFault' /\ StartedReachable' /\ ChannelLadder'
    BY <1>1, <1>2
       DEF MapHostBuf, Goto, OopsNeedsFault, StartedReachable, ChannelLadder,
           Reachable
<1> QED BY <1>3, <1>4, <1>5, <1>6, <1>7, <1>8 DEF CtxPart

(* A context that cannot be configured is stopped.                       *)
LEMMA ConfigCuStep ==
    ASSUME DevInv, ConfigCu
    PROVE  CtxPart'
<1> USE DEF CtxSteps, HasId, ctxVars
<1>1. /\ TypeOK /\ SolverInv /\ SolverTypeOK /\ CtxLadder /\ PhaseLadder /\ MgmtLadder
      /\ IdOnLeasedColumns /\ IdLadder /\ FirmwareContextsOwned
      /\ OopsNeedsFault /\ StartedReachable /\ ChannelLadder
  BY DEF DevInv, DeviceInv, SolverInv, FirmwareMatchesLeases, ChannelsSound
<1>2. /\ cur \in Ctx /\ UNCHANGED <<pw_mode, layers>> /\ layers = Layers /\ phase # "off"
      /\ blame \subseteq blame'
  BY <1>1, CtxFrame DEF LoadStep, UnloadStep, TypeOK, ConfigCu, layerVars
<1>3. SolverInv'
  BY <1>1, SolverSame DEF ConfigCu
<1>4. CtxTypes'
  BY <1>1 DEF ConfigCu, destroy_context, forget_id, TypeOK, CtxTypes
<1>5. CtxLadder'
  BY <1>1 DEF ConfigCu, Goto, CtxLadder, solverVars, nodeVars
<1>6. IdOnLeasedColumns' /\ IdLadder'
    BY <1>1, MgmtMsgEffect
       DEF ConfigCu, destroy_context, forget_id, Goto, TypeOK, IdOnLeasedColumns,
           IdLadder, solverVars, nodeVars
<1>7. FirmwareContextsOwned'
    BY <1>1, <1>2, MgmtMsgEffect
       DEF ConfigCu, destroy_context, forget_id, Results, TypeOK,
           FirmwareContextsOwned, MgmtLadder
<1>8. OopsNeedsFault' /\ StartedReachable' /\ ChannelLadder'
    BY <1>1, <1>2
       DEF ConfigCu, Goto, OopsNeedsFault, StartedReachable, ChannelLadder, Reachable
<1> QED BY <1>3, <1>4, <1>5, <1>6, <1>7, <1>8 DEF CtxPart

(* The scheduler's entity goes.                                          *)
LEMMA EntityDestroyStep ==
    ASSUME DevInv, EntityDestroy
    PROVE  CtxPart'
<1> USE DEF CtxSteps, HasId, ctxVars
<1>1. /\ TypeOK /\ SolverInv /\ SolverTypeOK /\ CtxLadder /\ PhaseLadder /\ MgmtLadder
      /\ IdOnLeasedColumns /\ IdLadder /\ FirmwareContextsOwned
      /\ OopsNeedsFault /\ StartedReachable /\ ChannelLadder
  BY DEF DevInv, DeviceInv, SolverInv, FirmwareMatchesLeases, ChannelsSound
<1>2. /\ cur \in Ctx /\ UNCHANGED <<pw_mode, layers>> /\ layers = Layers /\ phase # "off"
      /\ blame \subseteq blame'
  BY <1>1, CtxFrame DEF LoadStep, UnloadStep, TypeOK, EntityDestroy, layerVars
<1>3. SolverInv'
  BY <1>1, SolverSame DEF EntityDestroy
<1>4. CtxTypes'
  BY <1>1, <1>2 DEF EntityDestroy, Goto, TypeOK, CtxTypes
<1>5. CtxLadder'
  BY <1>1 DEF EntityDestroy, Goto, TypeOK, CtxLadder, solverVars, nodeVars
<1>6. IdOnLeasedColumns' /\ IdLadder'
  BY <1>1 DEF EntityDestroy, Goto, IdOnLeasedColumns, IdLadder, solverVars, nodeVars
<1>7. FirmwareContextsOwned'
  BY <1>1, <1>2 DEF EntityDestroy, FirmwareContextsOwned
<1>8. OopsNeedsFault' /\ StartedReachable' /\ ChannelLadder'
    BY <1>1, <1>2
       DEF EntityDestroy, Goto, CtxLadder, OopsNeedsFault, StartedReachable,
           ChannelLadder, Reachable
<1> QED BY <1>3, <1>4, <1>5, <1>6, <1>7, <1>8 DEF CtxPart

(* The channel of a context is stopped, if it has one.                   *)
LEMMA UnloadStopStep ==
    ASSUME DevInv, UnloadStop
    PROVE  CtxPart'
<1> USE DEF CtxSteps, HasId, ctxVars
<1>1. /\ TypeOK /\ SolverInv /\ SolverTypeOK /\ CtxLadder /\ PhaseLadder /\ MgmtLadder
      /\ IdOnLeasedColumns /\ IdLadder /\ FirmwareContextsOwned
      /\ OopsNeedsFault /\ StartedReachable /\ ChannelLadder
  BY DEF DevInv, DeviceInv, SolverInv, FirmwareMatchesLeases, ChannelsSound
<1>2. /\ cur \in Ctx /\ UNCHANGED <<pw_mode, layers>> /\ layers = Layers /\ phase # "off"
      /\ blame \subseteq blame'
  BY <1>1, CtxFrame DEF LoadStep, UnloadStep, TypeOK, UnloadStop, layerVars
<1>3. SolverInv'
  BY <1>1, SolverSame DEF UnloadStop
<1>4. CtxTypes'
  BY <1>1, <1>2 DEF UnloadStop, Goto, TypeOK, CtxTypes
<1>5. CtxLadder'
  BY <1>1 DEF UnloadStop, Goto, CtxLadder, solverVars, nodeVars
<1>6. IdOnLeasedColumns' /\ IdLadder'
  BY <1>1 DEF UnloadStop, Goto, IdOnLeasedColumns, IdLadder, solverVars, nodeVars
<1>7. FirmwareContextsOwned'
  BY <1>1, <1>2 DEF UnloadStop, FirmwareContextsOwned
<1>8. OopsNeedsFault' /\ StartedReachable' /\ ChannelLadder'
    BY <1>1, <1>2
       DEF UnloadStop, Goto, OopsNeedsFault, StartedReachable, ChannelLadder,
           Reachable
<1> QED BY <1>3, <1>4, <1>5, <1>6, <1>7, <1>8 DEF CtxPart

(* The firmware context goes, or a message is to blame.                  *)
LEMMA UnloadDestroyStep ==
    ASSUME DevInv, UnloadDestroy
    PROVE  CtxPart'
<1> USE DEF CtxSteps, HasId, ctxVars
<1>1. /\ TypeOK /\ SolverInv /\ SolverTypeOK /\ CtxLadder /\ PhaseLadder /\ MgmtLadder
      /\ IdOnLeasedColumns /\ IdLadder /\ FirmwareContextsOwned
      /\ OopsNeedsFault /\ StartedReachable /\ ChannelLadder
  BY DEF DevInv, DeviceInv, SolverInv, FirmwareMatchesLeases, ChannelsSound
<1>2. /\ cur \in Ctx /\ UNCHANGED <<pw_mode, layers>> /\ layers = Layers /\ phase # "off"
      /\ blame \subseteq blame'
  BY <1>1, CtxFrame DEF LoadStep, UnloadStep, TypeOK, UnloadDestroy, layerVars
<1>3. SolverInv'
  BY <1>1, SolverSame DEF UnloadDestroy
<1>4. CtxTypes'
  BY <1>1 DEF UnloadDestroy, destroy_context, forget_id, TypeOK, CtxTypes
<1>5. CtxLadder'
  BY <1>1 DEF UnloadDestroy, Goto, CtxLadder, solverVars, nodeVars
<1>6. IdOnLeasedColumns' /\ IdLadder'
    BY <1>1, MgmtMsgEffect
       DEF UnloadDestroy, destroy_context, forget_id, Goto, TypeOK, IdOnLeasedColumns,
           IdLadder, solverVars, nodeVars
<1>7. FirmwareContextsOwned'
    BY <1>1, <1>2, MgmtMsgEffect
       DEF UnloadDestroy, destroy_context, forget_id, Results, TypeOK,
           FirmwareContextsOwned, MgmtLadder
<1>8. OopsNeedsFault' /\ StartedReachable' /\ ChannelLadder'
    BY <1>1, <1>2
       DEF UnloadDestroy, Goto, OopsNeedsFault, StartedReachable, ChannelLadder,
           Reachable
<1> QED BY <1>3, <1>4, <1>5, <1>6, <1>7, <1>8 DEF CtxPart

(* The channel of a context is freed.                                    *)
LEMMA UnloadFreeStep ==
    ASSUME DevInv, UnloadFree
    PROVE  CtxPart'
<1> USE DEF CtxSteps, HasId, ctxVars
<1>1. /\ TypeOK /\ SolverInv /\ SolverTypeOK /\ CtxLadder /\ PhaseLadder /\ MgmtLadder
      /\ IdOnLeasedColumns /\ IdLadder /\ FirmwareContextsOwned
      /\ OopsNeedsFault /\ StartedReachable /\ ChannelLadder
  BY DEF DevInv, DeviceInv, SolverInv, FirmwareMatchesLeases, ChannelsSound
<1>2. /\ cur \in Ctx /\ UNCHANGED <<pw_mode, layers>> /\ layers = Layers /\ phase # "off"
      /\ blame \subseteq blame'
  BY <1>1, CtxFrame DEF LoadStep, UnloadStep, TypeOK, UnloadFree, layerVars
<1>3. SolverInv'
  BY <1>1, SolverSame DEF UnloadFree
<1>4. CtxTypes'
  BY <1>1, <1>2 DEF UnloadFree, Goto, TypeOK, CtxTypes
<1>5. CtxLadder'
  BY <1>1 DEF UnloadFree, Goto, CtxLadder, solverVars, nodeVars
<1>6. IdOnLeasedColumns' /\ IdLadder'
  BY <1>1 DEF UnloadFree, Goto, IdOnLeasedColumns, IdLadder, solverVars, nodeVars
<1>7. FirmwareContextsOwned'
  BY <1>1, <1>2 DEF UnloadFree, FirmwareContextsOwned
<1>8. OopsNeedsFault' /\ StartedReachable' /\ ChannelLadder'
    BY <1>1, <1>2
       DEF UnloadFree, Goto, OopsNeedsFault, StartedReachable, ChannelLadder,
           Reachable
<1> QED BY <1>3, <1>4, <1>5, <1>6, <1>7, <1>8 DEF CtxPart

(* The columns are given back.                                           *)
LEMMA FreeNodeStep ==
    ASSUME DevInv, FreeNode
    PROVE  CtxPart'
<1> USE DEF CtxSteps, HasId, ctxVars
<1>1. /\ TypeOK /\ SolverInv /\ SolverTypeOK /\ CtxLadder /\ PhaseLadder /\ MgmtLadder
      /\ IdOnLeasedColumns /\ IdLadder /\ FirmwareContextsOwned
      /\ OopsNeedsFault /\ StartedReachable /\ ChannelLadder
  BY DEF DevInv, DeviceInv, SolverInv, FirmwareMatchesLeases, ChannelsSound
<1>2. /\ cur \in Ctx /\ UNCHANGED <<pw_mode, layers>> /\ layers = Layers /\ phase # "off"
      /\ blame \subseteq blame'
  BY <1>1, CtxFrame DEF LoadStep, UnloadStep, TypeOK, FreeNode, layerVars
<1>3. SolverInv'
  BY <1>1, <1>2, RemoveNodeSound DEF FreeNode, Goto
<1>4. CtxTypes'
  BY <1>1, <1>2, RemoveNodeSound DEF FreeNode, Goto, TypeOK, CtxTypes
<1>5. CtxLadder'
  BY <1>1, <1>2, RemoveNodeSound DEF FreeNode, Goto, CtxLadder
<1>6. IdOnLeasedColumns' /\ IdLadder'
  BY <1>1, <1>2, RemoveNodeSound DEF FreeNode, Goto, IdOnLeasedColumns, IdLadder
<1>7. FirmwareContextsOwned'
  BY <1>1, <1>2 DEF FreeNode, FirmwareContextsOwned
<1>8. OopsNeedsFault' /\ StartedReachable' /\ ChannelLadder'
    BY <1>1, <1>2
       DEF FreeNode, Goto, OopsNeedsFault, StartedReachable, ChannelLadder, Reachable
<1> QED BY <1>3, <1>4, <1>5, <1>6, <1>7, <1>8 DEF CtxPart

(* A context has stopped.                                                *)
LEMMA SchedFiniStep ==
    ASSUME DevInv, SchedFini
    PROVE  CtxPart'
<1> USE DEF CtxSteps, HasId, ctxVars
<1>1. /\ TypeOK /\ SolverInv /\ SolverTypeOK /\ CtxLadder /\ PhaseLadder /\ MgmtLadder
      /\ IdOnLeasedColumns /\ IdLadder /\ FirmwareContextsOwned
      /\ OopsNeedsFault /\ StartedReachable /\ ChannelLadder
  BY DEF DevInv, DeviceInv, SolverInv, FirmwareMatchesLeases, ChannelsSound
<1>2. /\ cur \in Ctx /\ UNCHANGED <<pw_mode, layers>> /\ layers = Layers /\ phase # "off"
      /\ blame \subseteq blame'
  BY <1>1, CtxFrame DEF LoadStep, UnloadStep, TypeOK, SchedFini, layerVars
<1>3. SolverInv'
  BY <1>1, SolverSame DEF SchedFini
<1>9. hwctx_cnt' = Cardinality(started') /\ hwctx_cnt' \in Nat
  <2>1. hwctx_cnt = Cardinality(started) /\ IsFiniteSet(started)
    BY <1>1, SolverFinite, FS_Subset DEF CtxLadder, TypeOK
  <2>2. CASE cur \in started
    <3>1. Cardinality(started \ {cur}) = Cardinality(started) - 1 /\ IsFiniteSet(started \ {cur})
      BY <2>1, <2>2, FS_RemoveElement
    <3>2. Cardinality(started \ {cur}) \in Nat
      BY <3>1, FS_CardinalityType
    <3> QED BY <2>1, <2>2, <3>1, <3>2 DEF SchedFini, still_counted
  <2>3. CASE cur \notin started
    <3>1. started \ {cur} = started
      BY <2>3
    <3> QED BY <1>1, <2>1, <2>3, <3>1 DEF SchedFini, still_counted, TypeOK
  <2> QED BY <2>2, <2>3
<1>4. CtxTypes'
  BY <1>1, <1>2, <1>9 DEF SchedFini, TypeOK, CtxTypes
<1>5. CtxLadder'
  BY <1>1, <1>9 DEF SchedFini, Goto, TypeOK, CtxLadder, solverVars, nodeVars
<1>6. IdOnLeasedColumns' /\ IdLadder'
  BY <1>1 DEF SchedFini, Goto, IdOnLeasedColumns, IdLadder, solverVars, nodeVars
<1>7. FirmwareContextsOwned'
  BY <1>1, <1>2 DEF SchedFini, FirmwareContextsOwned
<1>8. OopsNeedsFault' /\ StartedReachable' /\ ChannelLadder'
    BY <1>1, <1>2
       DEF SchedFini, Goto, OopsNeedsFault, StartedReachable, ChannelLadder, Reachable
<1> QED BY <1>3, <1>4, <1>5, <1>6, <1>7, <1>8 DEF CtxPart

(* A start or a stop of a context begins.                                  *)
LEMMA HwctxBegin ==
    ASSUME DevInv, NEW c \in Ctx, HwctxStart(c) \/ HwctxStop(c)
    PROVE  CtxPart'
<1> USE DEF CtxSteps, HasId, ctxVars
<1>1. /\ TypeOK /\ SolverInv /\ CtxLadder
      /\ IdOnLeasedColumns /\ FirmwareContextsOwned
      /\ OopsNeedsFault /\ StartedReachable /\ ChannelLadder
  BY DEF DevInv, DeviceInv, FirmwareMatchesLeases, ChannelsSound
<1>2. /\ at = "idle" /\ cur' = c
      /\ \/ at' = "sched" /\ c \notin started
         \/ at' = "stop_entity" /\ c \in started
      /\ UNCHANGED <<solverVars, ctxVars, layerVars, pw_mode, fw_ctx, blame, oops>>
  BY DEF HwctxStart, HwctxStop, clkVars
<1>3. SolverInv'
  BY <1>1, <1>2, SolverSame
<1>4. CtxTypes'
  BY <1>1, <1>2 DEF TypeOK, CtxTypes
<1>5. CtxLadder'
  BY <1>1, <1>2 DEF CtxLadder, solverVars, nodeVars
<1>6. IdOnLeasedColumns' /\ IdLadder'
  BY <1>1, <1>2 DEF CtxLadder, IdOnLeasedColumns, IdLadder, solverVars, nodeVars
<1>7. FirmwareContextsOwned'
  BY <1>1, <1>2 DEF FirmwareContextsOwned, layerVars
<1>8. OopsNeedsFault' /\ StartedReachable' /\ ChannelLadder'
  BY <1>1, <1>2 DEF OopsNeedsFault, StartedReachable, ChannelLadder, Reachable
<1> QED BY <1>3, <1>4, <1>5, <1>6, <1>7, <1>8 DEF CtxPart

(* The device starts, stops or changes its mode, and the contexts stay as  *)
(* they are.                                                               *)
LEMMA RestStep ==
    ASSUME DevInv, BootStep \/ DownStep \/ ModeStep
    PROVE  CtxPart'
<1>1. /\ TypeOK /\ SolverInv /\ SolverTypeOK /\ DeviceLadder /\ PhaseLadder /\ MgmtLadder
      /\ CtxLadder /\ IdOnLeasedColumns /\ IdLadder /\ FirmwareContextsOwned
      /\ OopsNeedsFault /\ StartedReachable /\ ChannelLadder
  BY DEF DevInv, DeviceInv, SolverInv, FirmwareMatchesLeases, ChannelsSound
<1>2. /\ UNCHANGED <<solverVars, ctxVars>> /\ blame \subseteq blame'
      /\ at \notin CtxSteps \cup {"dead"} /\ at' \notin CtxSteps
  BY BootFrame, DownFrame, ModeFrame DEF StartSteps, StopSteps, CtxSteps, RestSteps
<1>3. SolverInv'
  BY <1>1, <1>2, SolverSame
<1>4. (fw_ctx' = fw_ctx \/ fw_ctx' = {}) /\ oops' \in BOOLEAN
    BY <1>1, BootFrame, ModeFrame
       DEF DownStep, Suspend, HwStop, UndoChan, UndoMbox, UndoPsp, UndoSmu, UndoPci,
           Off, TypeOK
<1>5. CtxTypes'
  BY <1>1, <1>2, <1>4 DEF TypeOK, CtxTypes, ctxVars
<1>6. CtxLadder'
  BY <1>1, <1>2 DEF CtxLadder, CtxSteps, ctxVars, solverVars, nodeVars
<1>7. IdOnLeasedColumns' /\ IdLadder'
    BY <1>1, <1>2
       DEF IdOnLeasedColumns, IdLadder, HasId, CtxSteps, ctxVars, solverVars, nodeVars
<1>8. fw_ctx' # {} => "psp" \in layers'
  <2>1. CASE BootStep
    <3>1. layers \subseteq layers'
            BY <2>1
           DEF BootStep, HwStart, RunAll, PciEnable, SmuStart, PspStart,
               MgmtChannInfo, MboxCreate, BringUp, StartChan, StartPm, StartGate,
               SkipProtocolVersion, CheckProtocolVersion, RuntimeCfg, AssignMgmtPasid,
               ResetSuspend, ResetResume, InitMsg, AsyncEventsSend, layerVars
    <3> QED BY <1>1, <2>1, <3>1, BootFrame DEF FirmwareContextsOwned
  <2>2. CASE DownStep
        BY <1>1, <2>2
         DEF DownStep, Suspend, HwStop, UndoChan, UndoMbox, UndoPsp, UndoSmu, UndoPci,
             Off, layerVars, FirmwareContextsOwned
  <2>3. CASE ModeStep
    BY <1>1, <2>3, ModeFrame DEF FirmwareContextsOwned, layerVars
  <2> QED BY <2>1, <2>2, <2>3
<1>9. FirmwareContextsOwned'
  BY <1>1, <1>2, <1>4, <1>8 DEF FirmwareContextsOwned, ctxVars
<1>10. OopsNeedsFault'
  <2>1. CASE UndoChan
    BY <1>1, <2>1 DEF UndoChan, MgmtLadder, OopsNeedsFault, TypeOK
  <2>2. CASE oops' = oops
    BY <1>1, <1>2, <2>2 DEF OopsNeedsFault
    <2> QED BY <2>1, <2>2, BootFrame, ModeFrame
       DEF DownStep, Suspend, HwStop, UndoMbox, UndoPsp, UndoSmu, UndoPci, Off
<1>11. StartedReachable'
  <2>1. \A c \in started : mbox_chann[c] \in Reachable
    BY <1>1, <1>2 DEF StartedReachable, CtxSteps
  <2>2. started # {} => Reachable \subseteq Reachable'
    <3>1. CASE BootStep
      BY <1>1, <3>1, BootFrame DEF PhaseLadder
    <3>2. CASE DownStep
      BY <3>2, DownFrame DEF Reachable
    <3>3. CASE ModeStep
      BY <1>1, <3>3, ModeFrame DEF ChannelLadder, Reachable
    <3> QED BY <3>1, <3>2, <3>3
  <2> QED BY <1>2, <2>1, <2>2 DEF StartedReachable, ctxVars
<1>12. ChannelLadder'
  <2>1. at' = "mode_gate" /\ cur' = "TURBO" => hwctx_cnt = 0
    BY BootFrame, DownFrame, ModeFrame DEF StartSteps, StopSteps
  <2>2. hwctx_cnt = 0 => started = {}
    <3>1. IsFiniteSet(started)
      BY <1>1, SolverFinite, FS_Subset DEF TypeOK
    <3> QED BY <1>1, <3>1, FS_EmptySet DEF CtxLadder
  <2> QED BY <1>2, <2>1, <2>2 DEF ChannelLadder, CtxSteps, ctxVars
<1> QED BY <1>3, <1>5, <1>6, <1>7, <1>9, <1>10, <1>11, <1>12 DEF CtxPart

(* Every step of a context keeps its part.                                 *)
LEMMA CtxStep ==
    ASSUME DevInv, LoadStep \/ UnloadStep
    PROVE  CtxPart'
BY SchedInitStep, AllocStep, CreateContextStep, ForcePreemptStep, CreateChannelStep,
   NoChannelStep, SetDpmLevelStep, MapHostBufStep, ConfigCuStep, EntityDestroyStep,
   UnloadStopStep, UnloadDestroyStep, UnloadFreeStep, FreeNodeStep, SchedFiniStep, HwctxBegin
   DEF LoadStep, UnloadStep

(* The types of the state of the device.                                   *)
DeviceTypes ==
    /\ at \in StartSteps \cup StopSteps \cup CtxSteps \cup RestSteps \cup {"run_all", "dead"}
    /\ at \in CtxSteps => cur \in Ctx
    /\ at = "mode_gate" => cur \in Mode
    /\ phase \in {"run", "pausing", "off"} /\ cur \in Ctx \cup Mode \cup {"none"}
    /\ dev_status \in {"UNINIT", "INIT", "START"} /\ layers \subseteq Layers
    /\ mgmt_chann \in {"open", "NULL"}
    /\ dpm_level \in 0..MaxLevel /\ dft_dpm_level \in 0..MaxLevel
    /\ pw_mode \in Mode /\ clk_gating \in BOOLEAN /\ blame \subseteq Faults
    /\ unsure \in BOOLEAN

(* The start of the device keeps them.                                     *)
LEMMA BootTypes ==
    ASSUME DevInv, BootStep
    PROVE  DeviceTypes'
<1> USE DEF StartSteps, StopSteps, CtxSteps, RestSteps, Mode
<1>1. TypeOK
  BY DEF DevInv, DeviceInv
<1>2. /\ cur' \in Ctx \cup Mode \cup {"none"} /\ blame' \subseteq Faults
      /\ at' \in StartSteps \cup StopSteps \cup {"off", "idle", "run_all"}
  BY <1>1, BootFrame DEF TypeOK
<1>3. CASE HwStart \/ RunAll \/ SkipProtocolVersion \/ StartChan \/ AsyncEventsSend
    BY <1>1, <1>2, <1>3
       DEF HwStart, RunAll, SkipProtocolVersion, StartChan, AsyncEventsSend, Goto,
           TypeOK, DeviceTypes, layerVars, clkVars
<1>4. CASE PciEnable \/ SmuStart \/ PspStart \/ MgmtChannInfo \/ MboxCreate
  <2>1. layers' \subseteq Layers
        BY <1>1, <1>4
         DEF PciEnable, SmuStart, PspStart, MgmtChannInfo, MboxCreate, BringUp,
             TypeOK, Layers
  <2>2. /\ UNCHANGED <<cur, phase, dev_status, mgmt_chann, clkVars>>
        /\ at' \in {"smu", "psp", "info", "mbox", "chan", "off", "f_pci", "f_smu", "f_psp"}
        BY <1>4
         DEF PciEnable, SmuStart, PspStart, MgmtChannInfo, MboxCreate, BringUp, Goto,
             start_ladder
  <2> QED BY <1>1, <1>2, <2>1, <2>2 DEF TypeOK, DeviceTypes, clkVars
<1>5. CASE StartPm
  <2>1. (IF dev_status = "UNINIT" THEN MaxLevel ELSE dpm_level) \in 0..MaxLevel
    BY <1>1, SolverAssumption DEF TypeOK
  <2>2. dpm_level' \in 0..MaxLevel
    BY <1>1, <1>5, <2>1, SetDpmEffect DEF StartPm
  <2> QED BY <1>1, <1>2, <1>5, <2>2 DEF StartPm, Goto, TypeOK, DeviceTypes, layerVars
<1>6. CASE StartGate
  <2>1. MaxLevel \in 0..MaxLevel
    BY SolverAssumption
  <2>2. /\ UNCHANGED <<cur, phase, layerVars, dpm_level, unsure>> /\ at' \in {"version", "f_chan"}
        /\ mgmt_chann' \in {"open", "NULL"}
    BY <1>1, <1>6, MgmtMsgEffect DEF StartGate, Goto
  <2>3. dft_dpm_level' \in 0..MaxLevel /\ pw_mode' \in Mode /\ clk_gating' \in BOOLEAN
    BY <1>1, <1>6, <2>1 DEF StartGate, TypeOK
  <2> QED BY <1>1, <1>2, <2>2, <2>3 DEF TypeOK, DeviceTypes, layerVars
<1>7. CASE CheckProtocolVersion \/ RuntimeCfg \/ AssignMgmtPasid \/ ResetSuspend \/ ResetResume
    BY <1>1, <1>7, MgmtMsgEffect
       DEF CheckProtocolVersion, RuntimeCfg, AssignMgmtPasid, ResetSuspend,
           ResetResume, InitMsg, Goto, TypeOK, DeviceTypes, layerVars, clkVars
<1> QED BY <1>3, <1>4, <1>5, <1>6, <1>7 DEF BootStep

(* So does its stop.                                                       *)
LEMMA DownTypes ==
    ASSUME DevInv, DownStep
    PROVE  DeviceTypes'
<1> USE DEF StartSteps, StopSteps, CtxSteps, RestSteps, Mode
<1>1. TypeOK
  BY DEF DevInv, DeviceInv
<1>2. CASE Suspend \/ UndoChan \/ UndoMbox \/ UndoPsp \/ UndoPci \/ Off
    BY <1>1, <1>2
       DEF Suspend, UndoChan, UndoMbox, UndoPsp, UndoPci, Off, Goto, TypeOK,
           DeviceTypes, layerVars, clkVars
<1>3. CASE HwStop
  BY <1>1, <1>3, MgmtMsgEffect DEF HwStop, TypeOK, DeviceTypes, layerVars, clkVars
<1>4. CASE UndoSmu
  <2>1. 0 \in 0..MaxLevel
    BY SolverAssumption
  <2>2. dpm_level' \in 0..MaxLevel /\ blame' \subseteq Faults
    BY <1>1, <1>4, <2>1, SetDpmEffect DEF UndoSmu
  <2> QED BY <1>1, <1>4, <2>2 DEF UndoSmu, Goto, TypeOK, DeviceTypes
<1> QED BY <1>2, <1>3, <1>4 DEF DownStep

(* Every step keeps the inductive invariant.                               *)
LEMMA DevStep ==
    ASSUME DevInv, [Next]_vars
    PROVE  DevInv'
<1>1. CASE BootStep \/ DownStep \/ LoadStep \/ UnloadStep \/ ModeStep
  <2>1. DeviceLadder' /\ PhaseLadder' /\ MgmtLadder'
    BY <1>1, DeviceLadderStep, PhaseLadderStep, MgmtLadderStep
  <2>2. CtxPart'
    BY <1>1, RestStep, CtxStep
  <2>3. DeviceTypes'
    <3>1. TypeOK
      BY DEF DevInv, DeviceInv
    <3>2. CASE BootStep \/ DownStep
      BY <3>2, BootTypes, DownTypes
    <3>3. CASE LoadStep \/ UnloadStep
      BY <3>1, <3>3, CtxFrame DEF TypeOK, DeviceTypes, layerVars, CtxSteps, RestSteps
    <3>4. CASE ModeStep
      BY <3>1, <3>4, ModeFrame DEF TypeOK, DeviceTypes, layerVars, CtxSteps, RestSteps
    <3> QED BY <1>1, <3>2, <3>3, <3>4
  <2>4. TypeOK'
    BY <2>2, <2>3 DEF TypeOK, DeviceTypes, CtxPart, CtxTypes, SolverInv
  <2>5. ChannelsOnMailbox'
    <3>1. CASE started' = {}
      BY <3>1 DEF ChannelsOnMailbox
    <3>2. CASE started' # {}
      <4>1. phase' # "off" /\ dev_status' = "START"
        BY <2>1, <3>2 DEF PhaseLadder
      <4>2. at' # "dead" => layers' = Layers
        BY <2>1, <2>3, <4>1
           DEF PhaseLadder, DeviceLadder, DeviceTypes
      <4>3. at' = "dead" => layers' = Layers
        <5>1. CASE LoadStep \/ UnloadStep
          BY <5>1, CtxFrame DEF layerVars
        <5>2. CASE BootStep \/ ModeStep
          BY <5>2, BootFrame, ModeFrame DEF StartSteps, StopSteps
        <5>3. CASE DownStep
                    BY <5>3
               DEF DownStep, Suspend, HwStop, UndoChan, UndoMbox, UndoPsp, UndoSmu,
                   UndoPci, Off, Goto, layerVars, DevInv, DeviceInv, DeviceLadder
        <5> QED BY <1>1, <5>1, <5>2, <5>3
      <4> QED BY <4>2, <4>3 DEF ChannelsOnMailbox, Layers
    <3> QED BY <3>1, <3>2
  <2> QED BY <2>1, <2>2, <2>4, <2>5
          DEF DevInv, DeviceInv, FirmwareMatchesLeases, ChannelsSound, CtxPart
<1>2. CASE UNCHANGED vars
  <2>1. SolverInv'
    BY <1>2, SolverSame DEF vars, DevInv, DeviceInv
  <2>2. TypeOK'
        BY <1>2, <2>1
         DEF vars, opVars, layerVars, ctxVars, clkVars, DevInv, DeviceInv, TypeOK,
             SolverInv
  <2>3. DeviceLadder' /\ PhaseLadder' /\ MgmtLadder' /\ CtxLadder'
        BY <1>2
         DEF vars, opVars, layerVars, ctxVars, solverVars, nodeVars, DevInv,
             DeviceInv, DeviceLadder, PhaseLadder, MgmtLadder, CtxLadder
  <2>4. FirmwareMatchesLeases'
        BY <1>2
         DEF vars, opVars, layerVars, ctxVars, solverVars, nodeVars, DevInv,
             FirmwareMatchesLeases, IdOnLeasedColumns, IdLadder, FirmwareContextsOwned,
             HasId
  <2>5. ChannelsSound'
        BY <1>2
         DEF vars, opVars, layerVars, ctxVars, clkVars, DevInv, ChannelsSound,
             OopsNeedsFault, StartedReachable, ChannelLadder, ChannelsOnMailbox,
             Reachable, HasId
  <2> QED BY <2>1, <2>2, <2>3, <2>4, <2>5 DEF DevInv, DeviceInv
<1> QED BY <1>1, <1>2 DEF Next, Dead, BootStep, DownStep, LoadStep, UnloadStep, ModeStep

(* A device that nobody has started.                                       *)
LEMMA DevInit == Init => DevInv
<1> SUFFICES ASSUME Init PROVE DevInv
  OBVIOUS
<1> USE DEF Init, SolverInit
<1>1. 0 \in 0..MaxLevel /\ TotalCol \in Nat
  BY SolverAssumption
<1>2. \A s \in Col : Users(s) = {}
  BY DEF Users
<1>3. SolverTypeOK
  BY <1>1 DEF SolverTypeOK
<1>4. SolverInv
    BY <1>2, <1>3, FS_EmptySet
       DEF SolverInv, PartitionsDisjoint, ResbitExact, SharedExact, ShapeKept,
           CountsExact
<1>5. TypeOK
  BY <1>1, <1>3 DEF TypeOK, CtxSteps, RestSteps, Mode
<1>6. DeviceLadder /\ PhaseLadder /\ MgmtLadder /\ CtxLadder
  BY FS_EmptySet DEF DeviceLadder, PhaseLadder, MgmtLadder, CtxLadder, CtxSteps
<1>7. FirmwareMatchesLeases
  BY DEF FirmwareMatchesLeases, IdOnLeasedColumns, IdLadder, FirmwareContextsOwned, HasId
<1>8. ChannelsSound
  BY DEF ChannelsSound, OopsNeedsFault, StartedReachable, ChannelLadder, ChannelsOnMailbox
<1> QED BY <1>4, <1>5, <1>6, <1>7, <1>8 DEF DevInv, DeviceInv

(* The inductive invariant holds in every state.                           *)
LEMMA DevInvariant == Spec => []DevInv
BY DevInit, DevStep, PTL DEF Spec

(* The solver's bookkeeping, the layers of the device, the phase of the    *)
(* run queue, the management channel and what each context has agree at    *)
(* every step of every start, stop and error ladder.                       *)
THEOREM DeviceSound == Spec => []DeviceInv
<1>1. DevInv => DeviceInv
  BY DEF DevInv
<1> QED BY <1>1, DevInvariant, PTL

(* A firmware context sits on the columns the solver holds for it, and the *)
(* firmware has none that nobody will destroy, unless a message failed or  *)
(* the clock could not be set.                                             *)
THEOREM FirmwareAgrees == Spec => []FirmwareMatchesLeases
<1>1. DevInv => FirmwareMatchesLeases
  BY DEF DevInv
<1> QED BY <1>1, DevInvariant, PTL

(* A running context has a channel that is served, and no path uses one    *)
(* that is closed unless a message timed out or a channel was refused.     *)
THEOREM ChannelsServed == Spec => []ChannelsSound
<1>1. DevInv => ChannelsSound
  BY DEF DevInv
<1> QED BY <1>1, DevInvariant, PTL

(* Between operations everything that a failed or finished start or stop   *)
(* took is given back.                                                     *)
THEOREM LaddersUndone == Spec => []LaddersUndo
<1>1. DevInv => LaddersUndo
  <2> SUFFICES ASSUME DevInv PROVE LaddersUndo
    OBVIOUS
  <2>1. TypeOK /\ SolverTypeOK /\ DeviceLadder /\ MgmtLadder /\ CtxLadder
    BY DEF DevInv, DeviceInv, SolverInv
  <2> QED BY <2>1 DEF LaddersUndo, TypeOK, SolverTypeOK, CtxLadder, CtxSteps
<1> QED BY <1>1, DevInvariant, PTL

(* The columns of a context, as the abstract specification sees them.      *)
Held == [c \in Ctx |-> IF c \in node_list THEN Cols(pt_node[c], NumCol[c]) ELSE {}]

(* They are a partition's.                                                 *)
LEMMA HeldPartition ==
    ASSUME SolverInv, NEW c \in node_list
    PROVE  /\ c \in Ctx /\ pt_node[c] \in pt_node_list /\ ncols[pt_node[c]] = NumCol[c]
           /\ Cols(pt_node[c], NumCol[c]) \subseteq resbit
           /\ pt_node[c] \in Cols(pt_node[c], NumCol[c])
<1>1. c \in Ctx /\ pt_node[c] \in col_list(c) /\ ncols[pt_node[c]] = NumCol[c]
  BY DEF SolverInv, SolverTypeOK, ShapeKept
<1>2. pt_node[c] \in Col /\ pt_node[c] \in Cols(pt_node[c], NumCol[c])
  BY <1>1, ColListFits
<1>3. pt_node[c] \in pt_node_list
  <2>1. IsFiniteSet(Users(pt_node[c])) /\ c \in Users(pt_node[c])
    BY SolverFinite DEF SolverInv, Users
  <2>2. Cardinality(Users(pt_node[c])) \in Nat /\ Cardinality(Users(pt_node[c])) # 0
    BY <2>1, FS_EmptySet, FS_CardinalityType
  <2> QED BY <1>2, <2>2 DEF SolverInv, SharedExact
<1>4. Cols(pt_node[c], NumCol[c]) \subseteq resbit
  BY <1>1, <1>3 DEF SolverInv, ResbitExact
<1> QED BY <1>1, <1>2, <1>3, <1>4

(* A new node acquires its columns.                                        *)
LEMMA NodeAcquires ==
    ASSUME SolverInv, NEW c \in Ctx, create_solver_node(c)
    PROVE  Lease!Acquire(c)
<1>1. PICK s \in Col : /\ NewPartition(c, s) \/ SharePartition(c, s)
                       /\ pt_node' = [pt_node EXCEPT ![c] = s]
  BY DEF create_solver_node
<1> DEFINE R == Cols(s, NumCol[c])
<1>2. c \notin node_list /\ node_list' = node_list \cup {c}
  BY DEF create_solver_node
<1>3. s \in col_list(c)
  BY <1>1 DEF NewPartition, SharePartition, FreeStarts, Shareable
<1>4. R \in Lease!Ranges(c)
  <2>1. s \in Col /\ R \subseteq Col /\ NumCol[c] \in 1..TotalCol /\ TotalCol \in Nat
    BY <1>3, ColListFits, SolverAssumption
  <2>2. s + NumCol[c] - 1 \in R
    BY <2>1 DEF Cols, Col
  <2>3. s \in 0..(TotalCol - NumCol[c])
    BY <2>1, <2>2 DEF Col
  <2> QED BY <2>3 DEF Lease!Ranges, Cols
<1>5. \A d \in Ctx : Held[d] = R \/ Held[d] \cap R = {}
  <2> SUFFICES ASSUME NEW d \in node_list
               PROVE  Cols(pt_node[d], NumCol[d]) = R \/ Cols(pt_node[d], NumCol[d]) \cap R = {}
    BY DEF Held, SolverInv, SolverTypeOK
  <2>1. /\ pt_node[d] \in pt_node_list /\ ncols[pt_node[d]] = NumCol[d]
        /\ Cols(pt_node[d], NumCol[d]) \subseteq resbit
    BY HeldPartition
  <2>2. CASE NewPartition(c, s)
    BY <2>1, <2>2 DEF NewPartition, FreeStarts
  <2>3. CASE SharePartition(c, s)
    <3>1. s \in pt_node_list /\ ncols[s] = NumCol[c]
      BY <2>3 DEF SharePartition, Shareable
    <3> QED BY <2>1, <3>1 DEF SolverInv, PartitionsDisjoint
  <2> QED BY <1>1, <2>2, <2>3
<1>6. Held' = [Held EXCEPT ![c] = R]
  BY <1>1, <1>2 DEF Held, SolverInv, SolverTypeOK
<1>7. Held[c] = {}
  BY <1>2 DEF Held
<1> QED BY <1>4, <1>5, <1>6, <1>7 DEF Lease!Acquire, Held

(* A node that goes releases them.                                         *)
LEMMA NodeReleases ==
    ASSUME SolverInv, NEW c \in Ctx, remove_solver_node(c)
    PROVE  Lease!Release(c)
<1>1. c \in node_list /\ node_list' = node_list \ {c}
  BY DEF remove_solver_node
<1>2. \A d \in Ctx \ {c} : pt_node'[d] = pt_node[d]
  BY RemoveNodeSound
<1>3. Held[c] # {}
  BY <1>1, HeldPartition DEF Held
<1>4. Held' = [Held EXCEPT ![c] = {}]
  BY <1>1, <1>2 DEF Held, SolverInv, SolverTypeOK
<1> QED BY <1>3, <1>4 DEF Lease!Release, Held

(* Every other step leaves the leases alone.                               *)
LEMMA HeldSame ==
    ASSUME UNCHANGED <<node_list, pt_node>>
    PROVE  Held' = Held
BY DEF Held

(* The device leases columns as the solver's interface promises: a context *)
(* that has columns has as many neighbouring ones as it asked for, and     *)
(* shares them with others entirely or not at all.                         *)
THEOREM LeasesKept == Spec => ColumnsLeased
<1>1. Init => Lease!Init
  BY DEF Init, SolverInit, Lease!Init
<1>2. DevInv /\ [Next]_vars => [Lease!Next]_Held
  <2> SUFFICES ASSUME DevInv, [Next]_vars PROVE [Lease!Next]_Held
    OBVIOUS
  <2>1. SolverInv /\ TypeOK
    BY DEF DevInv, DeviceInv
  <2>2. CASE Alloc
    <3>1. cur \in Ctx
      BY <2>1, <2>2 DEF Alloc, TypeOK, CtxSteps
    <3>2. create_solver_node(cur) \/ UNCHANGED <<node_list, pt_node>>
      BY <2>2 DEF Alloc, solverVars, nodeVars
    <3> QED BY <2>1, <3>1, <3>2, NodeAcquires, HeldSame DEF Lease!Next
  <2>3. CASE FreeNode
    <3>1. cur \in Ctx /\ remove_solver_node(cur)
      BY <2>1, <2>3 DEF FreeNode, TypeOK, CtxSteps
    <3> QED BY <2>1, <3>1, NodeReleases DEF Lease!Next
  <2>4. CASE UNCHANGED <<node_list, pt_node>>
    BY <2>4, HeldSame
  <2>5. ~Alloc /\ ~FreeNode => UNCHANGED <<node_list, pt_node>>
    <3>1. CASE BootStep \/ DownStep \/ ModeStep \/ UNCHANGED vars
      BY <3>1, BootFrame, DownFrame, ModeFrame DEF solverVars, nodeVars, vars
    <3>2. CASE LoadStep \/ UnloadStep
            BY <3>2
           DEF LoadStep, UnloadStep, SchedInit, CreateContext, ForcePreempt,
               CreateChannel, NoChannel, SetDpmLevel, record_dpm_level, MapHostBuf,
               ConfigCu, HwctxStart, EntityDestroy, UnloadStop, UnloadDestroy, UnloadFree,
               SchedFini, HwctxStop, solverVars, nodeVars
        <3> QED BY <3>1, <3>2
         DEF Next, Dead, BootStep, DownStep, LoadStep, UnloadStep, ModeStep
  <2> QED BY <2>2, <2>3, <2>4, <2>5
<1> QED BY <1>1, <1>2, DevInvariant, PTL DEF Spec, ColumnsLeased, Lease!Spec, Held

(* What keeps the clock of a mode: the mode is recorded only when its      *)
(* level was, and a device that never started is in the default mode.      *)
ModeRecorded ==
    /\ dev_status = "UNINIT" => pw_mode = "DEFAULT"
    /\ pw_mode # "DEFAULT" /\ ~unsure => dpm_level = mode_level(pw_mode)
    /\ at = "mode_gate" /\ cur # "DEFAULT" => dpm_level = mode_level(cur)

(* No step loses the level of a mode without saying so.                    *)
LEMMA ModeStepKeepsLevel ==
    ASSUME DevInv, ModeRecorded, [Next]_vars
    PROVE  ModeRecorded'
<1>0. \A m : m # "DEFAULT" => mode_level(m)' = mode_level(m)
  BY DEF mode_level
<1>1. CASE /\ UNCHANGED <<dpm_level, pw_mode, unsure>> /\ at' # "mode_gate"
           /\ dev_status' = dev_status \/ dev_status' # "UNINIT"
  BY <1>0, <1>1 DEF ModeRecorded
<1>2. CASE UNCHANGED vars
  BY <1>0, <1>2 DEF vars, opVars, layerVars, clkVars, ModeRecorded
<1>3. ASSUME StartPm \/ StartGate
      PROVE  ModeRecorded'
  <2>1. CASE StartPm
    <3>1. /\ UNCHANGED <<dev_status, pw_mode, unsure>> /\ at' # "mode_gate"
          /\ dev_status = "UNINIT" \/ dpm_level' = dpm_level
      BY <2>1 DEF StartPm, set_dpm, Goto, layerVars
    <3> QED BY <3>1, <1>0 DEF ModeRecorded
  <2>2. CASE StartGate
    <3>1. /\ UNCHANGED <<dev_status, dpm_level, unsure>> /\ at' # "mode_gate"
          /\ pw_mode' = pw_mode \/ pw_mode' = "DEFAULT"
      BY <2>2 DEF StartGate, Goto, layerVars
    <3> QED BY <3>1, <1>0 DEF ModeRecorded
  <2> QED BY <1>3, <2>1, <2>2
<1>4. CASE UndoSmu
  <2>1. UNCHANGED <<dev_status, pw_mode>> /\ unsure' = TRUE /\ at' # "mode_gate"
    BY <1>4 DEF UndoSmu, Goto
  <2> QED BY <2>1 DEF ModeRecorded
<1>5. CASE SetDpmLevel
  <2>1. /\ UNCHANGED <<dev_status, pw_mode>> /\ at' # "mode_gate"
        /\ pw_mode # "DEFAULT" => dpm_level' = dpm_level /\ unsure' = unsure
    BY <1>5 DEF SetDpmLevel, no_dpm_change, Goto, layerVars, DevInv, DeviceInv, TypeOK
  <2> QED BY <2>1, <1>0 DEF ModeRecorded
<1>6. ASSUME NEW m \in Modes, SetMode(m)
      PROVE  ModeRecorded'
  <2>1. /\ UNCHANGED <<dev_status, pw_mode>> /\ cur' = m
        /\ \/ dpm_level' = mode_level(m) /\ unsure' = TRUE
           \/ dpm_level' = dpm_level /\ at' = "off" /\ unsure' = unsure
    BY <1>6 DEF SetMode, set_dpm, layerVars, DevInv, DeviceInv, TypeOK
  <2> QED BY <2>1, <1>0 DEF ModeRecorded
<1>7. CASE SetModeGate
  <2>1. /\ UNCHANGED <<dev_status, dpm_level>> /\ at' # "mode_gate" /\ at = "mode_gate"
        /\ \/ pw_mode' = cur /\ mgmt_chann = "open"
           \/ UNCHANGED <<pw_mode, unsure>>
    BY <1>7 DEF SetModeGate, mgmt_msg, Goto, layerVars
  <2>2. mgmt_chann = "open" => dev_status # "UNINIT"
    BY <2>1 DEF DevInv, DeviceInv, MgmtLadder, RestSteps
  <2> QED BY <2>1, <2>2, <1>0 DEF ModeRecorded
<1>8. CASE BootStep /\ ~StartPm /\ ~StartGate
  <2>1. UNCHANGED clkVars /\ at' # "mode_gate" /\ (dev_status' = dev_status \/ dev_status' # "UNINIT")
    BY <1>8 DEF BootStep, HwStart, RunAll, PciEnable, SmuStart, PspStart, MgmtChannInfo,
         MboxCreate, StartChan, SkipProtocolVersion, CheckProtocolVersion, RuntimeCfg,
         AssignMgmtPasid, ResetSuspend, ResetResume, AsyncEventsSend, InitMsg, BringUp,
         start_ladder, Goto, layerVars
  <2> QED BY <2>1, <1>1 DEF clkVars
<1>9. CASE DownStep /\ ~UndoSmu
  <2>1. UNCHANGED clkVars /\ at' # "mode_gate" /\ (dev_status' = dev_status \/ dev_status' # "UNINIT")
    BY <1>9 DEF DownStep, Suspend, HwStop, UndoChan, UndoMbox, UndoPsp, UndoPci, Off, Goto, layerVars
  <2> QED BY <2>1, <1>1 DEF clkVars
<1>10. CASE LoadStep /\ ~SetDpmLevel
  <2>1. UNCHANGED <<clkVars, layerVars>> /\ at' # "mode_gate"
    BY <1>10 DEF LoadStep, SchedInit, Alloc, CreateContext, ForcePreempt, CreateChannel,
         NoChannel, MapHostBuf, ConfigCu, HwctxStart, create_failed, Goto
  <2> QED BY <2>1, <1>1 DEF clkVars, layerVars
<1>11. CASE UnloadStep
  <2>1. UNCHANGED <<clkVars, layerVars>> /\ at' # "mode_gate"
    BY <1>11 DEF UnloadStep, EntityDestroy, UnloadStop, UnloadDestroy, UnloadFree, FreeNode,
         SchedFini, HwctxStop, Goto
  <2> QED BY <2>1, <1>1 DEF clkVars, layerVars
<1>12. CASE Dead
  BY <1>2, <1>12 DEF Dead
<1> QED BY <1>2, <1>3, <1>4, <1>5, <1>6, <1>7, <1>8, <1>9, <1>10, <1>11, <1>12
        DEF Next, BootStep, DownStep, LoadStep, UnloadStep

(* In every power mode but the default the clock is the mode's, whatever   *)
(* contexts start and stop in it, unless the device was suspended or a     *)
(* change of mode failed half-way.                                         *)
THEOREM ModeLevelStays == Spec => []ModeLevelKept
<1>1. Init => ModeRecorded
  BY DEF Init, ModeRecorded
<1>2. ModeRecorded => ModeLevelKept
  BY DEF ModeRecorded, ModeLevelKept
<1> QED BY <1>1, <1>2, ModeStepKeepsLevel, DevInvariant, PTL DEF Spec

(* The steps at which sanity_check() has let the context through and its   *)
(* level is not set yet.                                                   *)
Loading == {"create", "preempt", "channel", "no_chann", "dpm"}

(* Most steps change neither the clock nor what the sessions ask for; a    *)
(* node that goes asks for nothing.                                        *)
LEMMA ClockSame ==
    ASSUME ClockLadder, node_list' \subseteq node_list, started' \subseteq started,
           UNCHANGED <<node_dpm_level, dpm_level, dft_dpm_level, pw_mode, unsure>>,
           at' \notin Loading \cup {"map", "mode_gate"}
    PROVE  ClockLadder'
<1>1. \A c \in started' : qos_meet(Qos[c], node_dpm_level[c])'
  BY DEF ClockLadder, qos_meet
<1> QED BY <1>1 DEF ClockLadder, Loading

(* The steps of the device's start and stop that do not touch the clock.   *)
LEMMA ClockIdle ==
    ASSUME DevInv, ClockLadder, \/ BootStep /\ ~StartPm /\ ~StartGate
                                \/ DownStep /\ ~UndoSmu
    PROVE  ClockLadder'
<1>1. UNCHANGED <<solverVars, ctxVars>>
  BY BootFrame, DownFrame
<1>2. at' \notin Loading \cup {"map", "mode_gate"}
  BY BootFrame, DownFrame DEF StartSteps, StopSteps, Loading
<1>3. UNCHANGED clkVars
    BY DEF BootStep, HwStart, RunAll, PciEnable, SmuStart, PspStart, MgmtChannInfo,
         MboxCreate, StartChan, SkipProtocolVersion, CheckProtocolVersion, RuntimeCfg,
         AssignMgmtPasid, ResetSuspend, ResetResume, AsyncEventsSend, InitMsg, BringUp,
         DownStep, Suspend, HwStop, UndoChan, UndoMbox, UndoPsp, UndoPci, Off
<1> QED BY <1>1, <1>2, <1>3, ClockSame DEF solverVars, nodeVars, ctxVars, clkVars

(* The clock is restored, gated or lowered: only a device that never       *)
(* started raises it, and one that stops says that it lowers it.           *)
LEMMA ClockPower ==
    ASSUME DevInv, ModeRecorded, ClockLadder, StartPm \/ StartGate \/ UndoSmu
    PROVE  ClockLadder'
<1>1. TypeOK /\ SolverTypeOK
  BY DEF DevInv, DeviceInv, SolverInv
<1>2. /\ UNCHANGED <<node_list, node_dpm_level, started>>
      /\ at' \notin Loading \cup {"map", "mode_gate"}
  BY DEF StartPm, StartGate, UndoSmu, Goto, solverVars, nodeVars, ctxVars, Loading
<1>3. \A d \in node_list : node_dpm_level[d] \in 0..MaxLevel
  BY <1>1 DEF SolverTypeOK
<1>4. \A d \in node_list : node_dpm_level[d] <= dft_dpm_level'
  <2>1. dft_dpm_level' \in {dft_dpm_level, MaxLevel}
    BY DEF StartPm, StartGate, UndoSmu
  <2> QED BY <1>3, <2>1 DEF ClockLadder
<1>5. ~unsure' /\ pw_mode' = "DEFAULT" => \A d \in node_list : node_dpm_level[d] <= dpm_level'
  <2>1. CASE StartPm
    BY <1>3, <2>1 DEF StartPm, set_dpm, ClockLadder
  <2>2. CASE StartGate
    <3>1. UNCHANGED <<dpm_level, unsure>> /\ (pw_mode' = pw_mode \/ dev_status = "UNINIT")
      BY <2>2 DEF StartGate
    <3> QED BY <3>1 DEF ModeRecorded, ClockLadder
  <2>3. CASE UndoSmu
    BY <2>3 DEF UndoSmu
  <2> QED BY <2>1, <2>2, <2>3
<1>6. \A c \in started' : qos_meet(Qos[c], node_dpm_level[c])'
  BY <1>2 DEF ClockLadder, qos_meet
<1> QED BY <1>2, <1>4, <1>5, <1>6 DEF ClockLadder, Loading

(* A change of mode sets the level first, and says so; back in the default *)
(* mode that is the level of the sessions.                                 *)
LEMMA ClockMode ==
    ASSUME DevInv, ClockLadder, ModeStep
    PROVE  ClockLadder'
<1>1. TypeOK
  BY DEF DevInv, DeviceInv
<1>2. /\ UNCHANGED <<node_list, node_dpm_level, started, dft_dpm_level>>
      /\ at' \in {"off", "mode_gate"}
  BY ModeFrame DEF solverVars, nodeVars, ctxVars
<1>3. \A c \in started' : qos_meet(Qos[c], node_dpm_level[c])'
  BY <1>2 DEF ClockLadder, qos_meet
<1>4. CASE SetModeGate
  <2>1. /\ dpm_level' = dpm_level /\ at = "mode_gate" /\ at' = "off"
        /\ UNCHANGED <<pw_mode, unsure>> \/ pw_mode' = cur
    BY <1>4 DEF SetModeGate, Goto
  <2>2. ~unsure' /\ pw_mode' = "DEFAULT" => \A d \in node_list : node_dpm_level[d] <= dpm_level'
    BY <2>1 DEF ClockLadder
  <2> QED BY <1>2, <1>3, <2>1, <2>2 DEF ClockLadder
<1>5. ASSUME NEW m \in Modes, SetMode(m)
      PROVE  ClockLadder'
  <2>1. /\ pw_mode' = pw_mode /\ cur' = m
        /\ \/ dpm_level' = mode_level(m) /\ unsure' = TRUE
           \/ dpm_level' = dpm_level /\ at' = "off" /\ unsure' = unsure
    BY <1>1, <1>5 DEF SetMode, set_dpm, TypeOK
  <2>2. mode_level("DEFAULT") = dft_dpm_level
    BY DEF mode_level
  <2>3. ~unsure' /\ pw_mode' = "DEFAULT" => \A d \in node_list : node_dpm_level[d] <= dpm_level'
    BY <2>1 DEF ClockLadder
  <2>4. at' = "mode_gate" /\ cur' = "DEFAULT" => dpm_level' = dft_dpm_level'
    BY <1>2, <2>1, <2>2
  <2> QED BY <1>2, <1>3, <2>3, <2>4 DEF ClockLadder
<1> QED BY <1>4, <1>5 DEF ModeStep

(* A node comes without a level, past sanity_check().                      *)
LEMMA ClockAlloc ==
    ASSUME DevInv, ClockLadder, Alloc
    PROVE  ClockLadder'
<1>1. TypeOK /\ SolverTypeOK /\ CtxLadder
  BY DEF DevInv, DeviceInv, SolverInv
<1>2. at = "alloc" /\ cur' = cur /\ UNCHANGED <<started, clkVars>> /\ cur \in Ctx /\ cur \notin started
  BY <1>1 DEF Alloc, ctxVars, Goto, TypeOK, CtxSteps, CtxLadder
<1>3. CASE UNCHANGED solverVars /\ at' = "x_entity"
  BY <1>2, <1>3, ClockSame DEF solverVars, nodeVars, clkVars, Loading
<1>4. CASE sanity_check(cur) /\ create_solver_node(cur) /\ at' = "create"
  <2>1. /\ node_list' = node_list \cup {cur}
        /\ node_dpm_level' = [node_dpm_level EXCEPT ![cur] = 0]
    BY <1>4 DEF create_solver_node
  <2>2. \A d \in Ctx : node_dpm_level'[d] = IF d = cur THEN 0 ELSE node_dpm_level[d]
    BY <1>1, <2>1 DEF SolverTypeOK
  <2>3. \A d \in node_list' : node_dpm_level'[d] <= dft_dpm_level'
    BY <1>1, <1>2, <2>1, <2>2 DEF ClockLadder, clkVars, TypeOK, SolverTypeOK
  <2>4. pw_mode' = "DEFAULT" /\ ~unsure'
            => \A d \in node_list' : node_dpm_level'[d] <= dpm_level'
    BY <1>1, <1>2, <2>1, <2>2 DEF ClockLadder, clkVars, TypeOK, SolverTypeOK
  <2>5. \A c \in started' : qos_meet(Qos[c], node_dpm_level[c])'
    <3> SUFFICES ASSUME NEW c \in started' PROVE qos_meet(Qos[c], node_dpm_level[c])'
      OBVIOUS
    <3>1. node_dpm_level'[c] = node_dpm_level[c] /\ c \in started
      BY <1>1, <1>2, <2>2 DEF TypeOK
    <3> QED BY <3>1 DEF ClockLadder, qos_meet
  <2>6. sanity_check(cur)'
    BY <1>2, <1>4 DEF sanity_check, qos_meet
  <2> QED BY <1>4, <2>3, <2>4, <2>5, <2>6 DEF ClockLadder
<1> QED BY <1>3, <1>4 DEF Alloc, Goto

(* While a context is loaded nothing happens to the clock.                 *)
LEMMA ClockLoad ==
    ASSUME DevInv, ClockLadder, CreateContext \/ ForcePreempt \/ CreateChannel \/ NoChannel
    PROVE  ClockLadder'
<1>1. /\ at \in Loading /\ at' \in Loading \cup {"x_node"} /\ cur' = cur
      /\ UNCHANGED <<node_list, node_dpm_level, started, clkVars>>
  BY DEF CreateContext, ForcePreempt, CreateChannel, NoChannel, create_failed, Goto,
         solverVars, nodeVars, ctxVars, Loading
<1>2. \A c \in started' : qos_meet(Qos[c], node_dpm_level[c])'
  BY <1>1 DEF ClockLadder, qos_meet
<1>3. sanity_check(cur)'
  <2>1. sanity_check(cur)
    BY <1>1 DEF ClockLadder, Loading
  <2> QED BY <1>1, <2>1 DEF sanity_check, qos_meet
<1> QED BY <1>1, <1>2, <1>3 DEF ClockLadder, Loading, clkVars

(* set_dpm_level(): the new level covers every session, and in the default *)
(* mode it is the clock's.                                                 *)
LEMMA ClockSetLevel ==
    ASSUME RisingClock, ProductsFit, DevInv, ClockLadder, SetDpmLevel
    PROVE  ClockLadder'
<1> DEFINE new == dpm_level_for(cur)
<1>1. TypeOK /\ SolverTypeOK /\ CtxLadder
  BY DEF DevInv, DeviceInv, SolverInv
<1>2. /\ at = "dpm" /\ cur' = cur /\ cur \in Ctx /\ dft_dpm_level' = new
      /\ UNCHANGED <<started, pw_mode>> /\ cur \notin started /\ sanity_check(cur)
  BY <1>1 DEF SetDpmLevel, ctxVars, Goto, TypeOK, CtxSteps, CtxLadder, ClockLadder
<1>3. new \in 0..MaxLevel /\ qos_meet(Qos[cur], new) /\ \A d \in node_list : node_dpm_level[d] <= new
  BY <1>1, <1>2, DpmLevelFits, DpmLevelForType
<1>4. PICK r \in {"ok", "fail"} :
         /\ IF no_dpm_change(new) THEN r = "ok" /\ UNCHANGED <<dpm_level, blame>>
                                  ELSE set_dpm(new, r)
         /\ IF r = "ok" THEN record_dpm_level(cur, new) /\ Goto("map")
                        ELSE UNCHANGED solverVars /\ Goto("x_node")
         /\ unsure' = (unsure /\ ~(r = "ok" /\ pw_mode = "DEFAULT"))
  BY DEF SetDpmLevel
<1> HIDE DEF new
<1>5. CASE r = "fail"
  <2>1. /\ UNCHANGED <<node_list, node_dpm_level, dpm_level>> /\ at' = "x_node"
        /\ unsure' = unsure
    BY <1>1, <1>4, <1>5 DEF set_dpm, solverVars, nodeVars, Goto, TypeOK
  <2>2. \A c \in started' : qos_meet(Qos[c], node_dpm_level[c])'
    BY <1>2, <2>1 DEF ClockLadder, qos_meet
  <2> QED BY <1>2, <1>3, <2>1, <2>2 DEF ClockLadder
<1>6. CASE r = "ok"
  <2>1. /\ node_list' = node_list /\ at' = "map"
        /\ node_dpm_level' = [node_dpm_level EXCEPT ![cur] = new]
        /\ pw_mode = "DEFAULT" => dpm_level' = new
    BY <1>4, <1>6 DEF record_dpm_level, no_dpm_change, set_dpm, Goto
  <2>2. \A d \in Ctx : node_dpm_level'[d] = IF d = cur THEN new ELSE node_dpm_level[d]
    BY <1>1, <2>1 DEF SolverTypeOK
  <2>3. \A d \in node_list' : node_dpm_level'[d] <= new
    BY <1>1, <1>3, <2>1, <2>2 DEF SolverTypeOK
  <2>4. \A c \in started' : qos_meet(Qos[c], node_dpm_level[c])'
    <3> SUFFICES ASSUME NEW c \in started' PROVE qos_meet(Qos[c], node_dpm_level[c])'
      OBVIOUS
    <3>1. node_dpm_level'[c] = node_dpm_level[c] /\ c \in started
      BY <1>1, <1>2, <2>2 DEF TypeOK
    <3> QED BY <3>1 DEF ClockLadder, qos_meet
  <2>5. qos_meet(Qos[cur], node_dpm_level[cur])'
    <3>1. node_dpm_level'[cur'] = new /\ cur' = cur
      BY <1>2, <2>2
    <3> QED BY <1>3, <3>1 DEF qos_meet
  <2> QED BY <1>2, <2>1, <2>3, <2>4, <2>5 DEF ClockLadder
<1> QED BY <1>4, <1>5, <1>6

(* A context that is mapped runs at the level it was given; every other    *)
(* step of a start or a stop leaves levels and clock alone.                *)
LEMMA ClockContext ==
    ASSUME DevInv, ClockLadder,
           \/ SchedInit \/ MapHostBuf \/ ConfigCu \/ UnloadStep
           \/ \E c \in Ctx : HwctxStart(c)
    PROVE  ClockLadder'
<1>1. UNCHANGED <<node_dpm_level, clkVars>> /\ node_list' \subseteq node_list
  BY DEF SchedInit, MapHostBuf, ConfigCu, HwctxStart, UnloadStep, EntityDestroy, UnloadStop,
         UnloadDestroy, UnloadFree, FreeNode, remove_solver_node, SchedFini, HwctxStop,
         solverVars, nodeVars
<1>2. at' \notin Loading \cup {"map", "mode_gate"}
  BY DEF SchedInit, MapHostBuf, ConfigCu, HwctxStart, UnloadStep, EntityDestroy, UnloadStop,
         UnloadDestroy, UnloadFree, FreeNode, SchedFini, HwctxStop, Goto, Loading
<1>3. CASE started' \subseteq started
  BY <1>1, <1>2, <1>3, ClockSame DEF clkVars
<1>4. CASE MapHostBuf /\ started' = started \cup {cur}
  <2>1. \A c \in started' : qos_meet(Qos[c], node_dpm_level[c])
    BY <1>4 DEF MapHostBuf, ClockLadder
  <2>2. \A c \in started' : qos_meet(Qos[c], node_dpm_level[c])'
    BY <1>1, <2>1 DEF qos_meet
  <2> QED BY <1>1, <1>2, <2>2 DEF ClockLadder, clkVars, Loading
<1> QED BY <1>3, <1>4
   DEF SchedInit, MapHostBuf, ConfigCu, HwctxStart, UnloadStep, EntityDestroy, UnloadStop,
       UnloadDestroy, UnloadFree, FreeNode, SchedFini, HwctxStop, ctxVars

(* Every step keeps the clock above what the sessions ask for.             *)
LEMMA ClockStep ==
    ASSUME RisingClock, ProductsFit, DevInv, ModeRecorded, ClockLadder, [Next]_vars
    PROVE  ClockLadder'
<1>1. CASE UNCHANGED vars
  <2>1. UNCHANGED <<node_list, node_dpm_level, started, clkVars, at, cur>>
    BY <1>1 DEF vars, solverVars, nodeVars, ctxVars, opVars
  <2>2. \A c \in started' : qos_meet(Qos[c], node_dpm_level[c])'
    BY <2>1 DEF ClockLadder, qos_meet
  <2>3. at' = "map" => qos_meet(Qos[cur], node_dpm_level[cur])'
    BY <2>1 DEF ClockLadder, qos_meet
  <2>4. at' \in Loading => sanity_check(cur)'
    BY <2>1 DEF ClockLadder, Loading, sanity_check, qos_meet
  <2> QED BY <2>1, <2>2, <2>3, <2>4 DEF ClockLadder, Loading, clkVars
<1>2. CASE BootStep \/ DownStep
  BY <1>2, ClockIdle, ClockPower
<1>3. CASE ModeStep
  BY <1>3, ClockMode
<1>4. CASE LoadStep \/ UnloadStep
  BY <1>4, ClockAlloc, ClockLoad, ClockSetLevel, ClockContext DEF LoadStep
<1> QED BY <1>1, <1>2, <1>3, <1>4
        DEF Next, Dead, BootStep, DownStep, LoadStep, UnloadStep, ModeStep

(* On a device whose clock table ascends, and for requests whose products  *)
(* stay within 32 bits, the clock meets every running session in the       *)
(* default mode, and is the mode's in every other.                         *)
THEOREM ClockFollows ==
    ASSUME RisingClock, ProductsFit
    PROVE  Spec => []ClockFits
<1>1. Init => ModeRecorded /\ ClockLadder
  BY DEF Init, SolverInit, ModeRecorded, ClockLadder
<1>2. DevInv /\ ModeRecorded /\ ClockLadder /\ [Next]_vars => ModeRecorded' /\ ClockLadder'
  BY ModeStepKeepsLevel, ClockStep
<1>3. DevInv /\ ModeRecorded /\ ClockLadder => ClockFits
  <2> SUFFICES ASSUME DevInv, ModeRecorded, ClockLadder PROVE ClockFits
    OBVIOUS
  <2>1. ModeLevelKept
    BY DEF ModeRecorded, ModeLevelKept
  <2>2. SessionsFit
    <3> SUFFICES ASSUME at = "idle", pw_mode = "DEFAULT", ~unsure, NEW c \in started
                 PROVE  qos_meet(Qos[c], dpm_level)
      BY DEF SessionsFit
    <3>1. TypeOK /\ SolverTypeOK /\ CtxLadder
      BY DEF DevInv, DeviceInv, SolverInv
    <3>2. c \in Ctx /\ c \in node_list
      BY <3>1 DEF TypeOK, CtxLadder, CtxSteps
    <3>3. /\ node_dpm_level[c] \in 0..MaxLevel /\ dpm_level \in 0..MaxLevel
          /\ node_dpm_level[c] <= dpm_level /\ qos_meet(Qos[c], node_dpm_level[c])
      BY <3>1, <3>2 DEF TypeOK, SolverTypeOK, ClockLadder
    <3> QED BY <3>2, <3>3, QosMonotone
  <2> QED BY <2>1, <2>2 DEF ClockFits
<1> QED BY <1>1, <1>2, <1>3, DevInvariant, PTL DEF Spec
============================================================================
