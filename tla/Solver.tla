------------------------------- MODULE Solver -------------------------------
(***************************************************************************)
(* The resource solver (aie2_solver.c): which columns of the AIE array a   *)
(* hardware context gets, which contexts share a partition, and the clock  *)
(* level (DPM) that fits the sessions.  The columns a context may start at *)
(* come from aie2_ctx_col_list() (aie2_ctx.c).                             *)
(*                                                                         *)
(* Every call is made under aie2_lock.                                     *)
(***************************************************************************)
EXTENDS Integers, FiniteSets

CONSTANTS
    Ctx,          \* contexts; a context's address is its request id
    TotalCol,     \* ndev->total_col
    FirstCol,     \* dev_info->first_col
    AlignNature,  \* col_align = COL_ALIGN_NATURE
    NumCol,       \* NumCol[c]: the columns a context asks for
    Clk,          \* Clk[l]: the clock of DPM level l
    MaxLevel,     \* the highest level
    Qos,          \* Qos[c] = [gops, fps, latency, opc]
    U32           \* 2^32: where 32-bit products wrap

ASSUME SolverAssumption ==
    /\ IsFiniteSet(Ctx) /\ TotalCol \in Nat \ {0} /\ FirstCol \in Nat /\ AlignNature \in BOOLEAN
    \* aie2_ctx_col_list() refuses 0 and more than the device has.
    /\ NumCol \in [Ctx -> 1..TotalCol]
    /\ MaxLevel \in Nat /\ U32 \in Nat \ {0}
    /\ Clk \in [0..MaxLevel -> Nat]
    /\ Qos \in [Ctx -> [gops : Nat, fps : Nat, latency : Nat, opc : Nat]]

Col == 0..TotalCol-1
None == -1                       \* no partition

VARIABLES
    node_list,        \* the contexts with a solver_node
    pt_node,          \* pt_node[c]: the partition of a node, by its first column
    node_dpm_level,   \* node_dpm_level[c]
    pt_node_list,     \* the partitions, by their first column
    ncols, nshared,   \* ncols[s], nshared[s] of the partition that starts at s
    resbit,           \* the columns in use
    nnode, npartition_node

partVars == <<pt_node_list, ncols, nshared, resbit, npartition_node>>
nodeVars == <<node_list, pt_node, node_dpm_level, nnode>>
solverVars == <<nodeVars, partVars>>

\* xrsm_init()
SolverInit ==
    /\ node_list = {} /\ pt_node = [c \in Ctx |-> None]
    /\ node_dpm_level = [c \in Ctx |-> 0]
    /\ pt_node_list = {} /\ resbit = {}
    /\ ncols = [s \in Col |-> 0] /\ nshared = [s \in Col |-> 0]
    /\ nnode = 0 /\ npartition_node = 0
-----------------------------------------------------------------------------
(* Where a partition may start.                                            *)

\* aie2_ctx_col_list(): from the first to the last multiple of the width.
col_list(c) ==
    LET width == IF AlignNature THEN NumCol[c] ELSE 1
        end == TotalCol - NumCol[c]
        start == IF FirstCol > 0 /\ end = 0 THEN 0 ELSE FirstCol
        first == start + ((width - (start % width)) % width)
        last == end - (end % width)
    IN  {s \in first..last : (s - first) % width = 0}

Cols(s, n) == s..(s + n - 1)

\* The last column is not looked at.
FreeStarts_short(c) ==
    {s \in col_list(c) : Cols(s, NumCol[c] - 1) \cap resbit = {}}
\* get_free_partition(): find_next_bit() sees no column in use.
FreeStarts(c) == {s \in col_list(c) : Cols(s, NumCol[c]) \cap resbit = {}}

\* allocate_partition(): the partitions of the same shape.
Shareable(c) == {s \in pt_node_list \cap col_list(c) : ncols[s] = NumCol[c]}

\* The first free place in the list, which ascends.
NewPartition(c, s) ==
    /\ s \in FreeStarts(c) /\ \A t \in FreeStarts(c) : s <= t
    /\ pt_node_list' = pt_node_list \cup {s}
    /\ ncols' = [ncols EXCEPT ![s] = NumCol[c]]
    /\ nshared' = [nshared EXCEPT ![s] = 1]
    /\ npartition_node' = npartition_node + 1
    /\ resbit' = resbit \cup Cols(s, NumCol[c])

\* Only when nothing is free: the partition with the fewest users (the list's
\* first, when several have; here any).
SharePartition(c, s) ==
    /\ FreeStarts(c) = {}
    /\ s \in Shareable(c) /\ \A t \in Shareable(c) : nshared[s] <= nshared[t]
    /\ nshared' = [nshared EXCEPT ![s] = @ + 1]
    /\ UNCHANGED <<pt_node_list, ncols, resbit, npartition_node>>

CanAllocate(c) == FreeStarts(c) # {} \/ Shareable(c) # {}

\* create_solver_node(); the request id must not be in use.
create_solver_node(c) ==
    /\ c \notin node_list
    /\ \E s \in Col :
         /\ NewPartition(c, s) \/ SharePartition(c, s)
         /\ pt_node' = [pt_node EXCEPT ![c] = s]
    /\ node_list' = node_list \cup {c} /\ nnode' = nnode + 1
    /\ node_dpm_level' = [node_dpm_level EXCEPT ![c] = 0]

\* The columns are given back whoever else shares them.
remove_partition_node_always(s) ==
    /\ nshared' = [nshared EXCEPT ![s] = @ - 1]
    /\ pt_node_list' = pt_node_list \ {s}
    /\ npartition_node' = npartition_node - 1
    /\ resbit' = resbit \ Cols(s, ncols[s])
    /\ UNCHANGED ncols
\* remove_partition_node(): the last user gives the columns back.
remove_partition_node(s) ==
    /\ nshared' = [nshared EXCEPT ![s] = @ - 1]
    /\ IF nshared[s] > 1
       THEN UNCHANGED <<pt_node_list, resbit, npartition_node>>
       ELSE /\ pt_node_list' = pt_node_list \ {s}
            /\ npartition_node' = npartition_node - 1
            /\ resbit' = resbit \ Cols(s, ncols[s])
    /\ UNCHANGED ncols

remove_solver_node(c) ==
    /\ c \in node_list
    /\ node_list' = node_list \ {c} /\ nnode' = nnode - 1
    /\ remove_partition_node(pt_node[c])
    /\ pt_node' = [pt_node EXCEPT ![c] = None]
    /\ UNCHANGED node_dpm_level
-----------------------------------------------------------------------------
(* Quality of service and the clock.                                       *)

calculate_gops(q) ==
    LET service_rate == IF q.latency = 0 THEN 0 ELSE 1000 \div q.latency
    IN  ((IF q.fps > service_rate THEN q.fps ELSE service_rate) * q.gops) % U32

\* sys_eff_factor is 1.
qos_meet(q, l) == calculate_gops(q) <= ((q.opc * Clk[l]) % U32) \div 1000

sanity_check(c) == NumCol[c] <= TotalCol /\ qos_meet(Qos[c], MaxLevel)

is_valid_qos_dpm_params(q) == q.gops > 0 /\ (q.fps > 0 \/ q.latency > 0)

\* The level of the request alone.
dpm_level_alone(c) ==
    IF ~is_valid_qos_dpm_params(Qos[c]) THEN MaxLevel
    ELSE LET ok == {l \in 0..MaxLevel-1 : qos_meet(Qos[c], l)}
         IN  IF ok = {} THEN MaxLevel ELSE CHOOSE l \in ok : \A k \in ok : l <= k
\* set_dpm_level(): "set the dpm level which fits all the sessions".
dpm_level_for(c) ==
    LET levels == {dpm_level_alone(c)} \cup {node_dpm_level[d] : d \in node_list}
    IN  CHOOSE l \in levels : \A k \in levels : k <= l

record_dpm_level(c, l) ==
    /\ node_dpm_level' = [node_dpm_level EXCEPT ![c] = l]
    /\ UNCHANGED <<node_list, pt_node, nnode, partVars>>
-----------------------------------------------------------------------------
\* The solver by itself: nodes come, are given their level, and go, whether
\* the context was loaded or not.
SolverNext ==
    \E c \in Ctx : \/ create_solver_node(c)
                   \/ c \in node_list /\ record_dpm_level(c, dpm_level_for(c))
                   \/ remove_solver_node(c)

SolverSpec == SolverInit /\ [][SolverNext]_solverVars
-----------------------------------------------------------------------------
(* Properties *)

\* When a higher level meets every request that a lower one meets: the clock
\* tables of npu1_regs.c and npu4_regs.c ascend, and no request's operations
\* per cycle, which the user gives, wrap the 32-bit product.
RisingClock == \A k, l \in 0..MaxLevel : k <= l => Clk[k] <= Clk[l]
ProductsFit == \A c \in Ctx, l \in 0..MaxLevel : Qos[c].opc * Clk[l] < U32

\* Type invariant of the solver.
SolverTypeOK ==
    /\ node_list \subseteq Ctx /\ pt_node \in [Ctx -> Col \cup {None}]
    /\ node_dpm_level \in [Ctx -> 0..MaxLevel]
    /\ pt_node_list \subseteq Col /\ resbit \subseteq Col
    /\ ncols \in [Col -> Nat] /\ nshared \in [Col -> Nat]
    /\ nnode \in Nat /\ npartition_node \in Nat

\* Two partitions never overlap: contexts have the same columns or none in
\* common, after any sequence of requests of different widths and releases.
PartitionsDisjoint ==
    \A s, t \in pt_node_list :
        s # t => Cols(s, ncols[s]) \cap Cols(t, ncols[t]) = {}

\* The bitmap is the union of the partitions: no column is lost by a release
\* and none is handed out twice.
ResbitExact == resbit = UNION {Cols(s, ncols[s]) : s \in pt_node_list}

Users(s) == {c \in node_list : pt_node[c] = s}

\* nshared counts the users of a partition, and a partition without users is
\* gone, however allocations failed half-way.
SharedExact ==
    \A s \in Col :
        /\ nshared[s] = Cardinality(Users(s))
        /\ s \in pt_node_list <=> nshared[s] > 0

\* A context runs on as many columns as it asked for, at a place of its list.
ShapeKept ==
    \A c \in node_list : /\ pt_node[c] \in col_list(c)
                         /\ ncols[pt_node[c]] = NumCol[c]

CountsExact == nnode = Cardinality(node_list)
               /\ npartition_node = Cardinality(pt_node_list)

\* The inductive invariant of the solver.
SolverInv == SolverTypeOK /\ PartitionsDisjoint /\ ResbitExact /\ SharedExact
             /\ ShapeKept /\ CountsExact
=============================================================================
