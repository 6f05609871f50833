-------------------------------- MODULE Hmm ---------------------------------
(***************************************************************************)
(* The mappings of a process's buffers and the jobs that use them: mmap    *)
(* and the MMU notifier of amdxdna_gem.c, the notifier's workqueue, and    *)
(* the part of aie2_cmd_submit() (aie2_ctx.c) that finds a buffer's        *)
(* mappings invalid and faults them in again.                              *)
(*                                                                         *)
(* notifier_lock is held over each step that uses it; the steps of a       *)
(* function end where it is dropped or where the function waits.           *)
(***************************************************************************)
EXTENDS Integers, Sequences, FiniteSets, SequencesExt

CONSTANTS
    Bo,           \* buffers
    Vma,          \* user mappings, each made once
    Job,          \* submitting threads, each with one job
    Faults,       \* what may go wrong in this instance
    MaxMoves      \* bound: invalidations that leave a mapping in place

\* Pages cannot be inserted in a new mapping, hmm_range_fault() fails or
\* takes too long, the thread in the notifier has a signal pending.
Fault == {"insert", "fault", "timeout", "signal"}

None == "none"
ASSUME HmmAssumption ==
    /\ Faults \subseteq Fault /\ MaxMoves \in Nat
    /\ IsFiniteSet(Job) /\ None \notin Vma

VARIABLES
    vma,          \* vma[v]: "none", "mapping", "mapped", "failed" or "gone"
    bo_of,        \* the buffer of a mapping
    umap,         \* mapp: "none", "live", "removing" (its last reference is
                  \* dropped) or "freed"
    umap_list,    \* the mappings of a buffer, oldest first
    refcnt, invalid, unmapped,
    inv,          \* the notifier of v is running: "no", "move", "part" or "unmap"
    map_invalid,
    work,         \* the mappings whose hmm_unreg_work is queued
    working,      \* the mapping whose work runs
    wq,           \* notifier_wq exists
    job,          \* the next step of a submission
    job_bos, pv,  \* the job's buffers, and the mapping it faults in
    raced,        \* the notifier ran since mmu_interval_read_begin()
    mm,           \* the process: "live", "exit" (the last thread is gone) or "dead"
    \* History
    moves, puts, mm_kept, blame, oops

mapVars == <<vma, bo_of, umap, umap_list, refcnt, invalid, unmapped>>
wqVars == <<work, working, wq>>
jobVars == <<job, job_bos, pv, raced>>
vars == <<mapVars, inv, map_invalid, wqVars, jobVars, mm, moves, puts, mm_kept,
          blame, oops>>

Init ==
    /\ vma = [v \in Vma |-> "none"] /\ bo_of = [v \in Vma |-> None]
    /\ umap = [v \in Vma |-> "none"] /\ umap_list = [b \in Bo |-> <<>>]
    /\ refcnt = [v \in Vma |-> 0] /\ invalid = [v \in Vma |-> FALSE]
    /\ unmapped = [v \in Vma |-> FALSE] /\ inv = [v \in Vma |-> "no"]
    /\ map_invalid = [b \in Bo |-> FALSE]
    /\ work = {} /\ working = None /\ wq = TRUE
    /\ job = [j \in Job |-> "idle"] /\ job_bos = [j \in Job |-> {}]
    /\ pv = [j \in Job |-> None] /\ raced = [j \in Job |-> FALSE]
    /\ mm = "live" /\ moves = 0 /\ puts = [v \in Vma |-> 0] /\ mm_kept = FALSE
    /\ blame = {} /\ oops = "no"

Alive == oops = "no"
Fails(f) == f \in Faults /\ blame' = blame \cup {f}
Works == UNCHANGED blame

\* queue_work(notifier_wq, &mapp->hmm_unreg_work): once queued, it is.
QueueUnreg(v) == IF wq THEN work' = work \cup {v} /\ UNCHANGED oops
                       ELSE oops' = "dead_wq" /\ UNCHANGED work
-----------------------------------------------------------------------------
(* mmap.                                                                   *)

\* amdxdna_hmm_register(), with mmap_lock for writing.
MmapRegister(v, b) ==
    /\ mm = "live" /\ vma[v] = "none" /\ vma' = [vma EXCEPT ![v] = "mapping"]
    /\ bo_of' = [bo_of EXCEPT ![v] = b] /\ umap' = [umap EXCEPT ![v] = "live"]
    /\ umap_list' = [umap_list EXCEPT ![b] = Append(@, v)]
    /\ refcnt' = [refcnt EXCEPT ![v] = 1]
    /\ UNCHANGED <<invalid, unmapped, inv, map_invalid, wqVars, jobVars, mm, moves,
                   puts, mm_kept, blame, oops>>

\* The mapping is filled; when that fails amdxdna_hmm_unregister() queues the
\* work that drops it.
MmapInsert(v) ==
    /\ vma[v] = "mapping"
    /\ \/ vma' = [vma EXCEPT ![v] = "mapped"] /\ Works /\ UNCHANGED <<work, oops>>
       \/ Fails("insert") /\ vma' = [vma EXCEPT ![v] = "failed"] /\ QueueUnreg(v)
    /\ UNCHANGED <<bo_of, umap, umap_list, refcnt, invalid, unmapped, inv,
                   map_invalid, working, wq, jobVars, mm, moves, puts, mm_kept>>

\* The kernel takes a mapping apart that no notifier watches any more, after
\* mmap() failed or munmap() of a part.
VmaGone(v) ==
    /\ vma[v] = "failed" \/ (vma[v] = "mapped" /\ mm = "exit" /\ ~mm_kept)
    /\ umap[v] = "freed" /\ vma' = [vma EXCEPT ![v] = "gone"]
    /\ UNCHANGED <<bo_of, umap, umap_list, refcnt, invalid, unmapped, inv,
                   map_invalid, wqVars, jobVars, mm, moves, puts, mm_kept, blame, oops>>
-----------------------------------------------------------------------------
(* amdxdna_hmm_invalidate().                                               *)

\* The notifier of v is called: for pages that move, for munmap() of a part or
\* the whole, at the exit of the process, and when a mapping that failed is
\* taken apart.
InvalidateBegin(v, why) ==
    /\ inv[v] = "no" /\ umap[v] \in {"live", "removing"}
    /\ vma[v] = "mapped" \/ (why = "unmap" /\ vma[v] = "failed")
    /\ why # "unmap" => moves < MaxMoves
    /\ moves' = IF why # "unmap" THEN moves + 1 ELSE moves
    /\ inv' = [inv EXCEPT ![v] = why]
    /\ map_invalid' = [map_invalid EXCEPT ![bo_of[v]] = TRUE]
    /\ invalid' = [invalid EXCEPT ![v] = TRUE]
    /\ raced' = [j \in Job |-> raced[j] \/ pv[j] = v]
    /\ UNCHANGED <<vma, bo_of, umap, umap_list, refcnt, unmapped, wqVars, job,
                   job_bos, pv, mm, puts, mm_kept, blame, oops>>

\* The notifier returns without waiting.
Fenced_none(v) == FALSE
\* The jobs the notifier waits for: dma_resv_wait_timeout() on the buffer.
Fenced(v) == \E j \in Job : job[j] = "pushed" /\ bo_of[v] \in job_bos[j]

\* MMU_NOTIFY_UNMAP, whatever part of the mapping it is for.
Unmaps(v) == inv[v] \in {"part", "unmap"}
\* The work is queued by every call, or by none.
QueueOnce_always(v) == TRUE
QueueOnce_never(v) == FALSE
\* The work is queued by the first call that unmaps.
QueueOnce(v) == ~unmapped[v]

\* aie2_hmm_invalidate() waits for the fences of the buffer, unless a signal
\* is pending; an unmap then queues the work once.
InvalidateEnd(v) ==
    /\ inv[v] # "no" /\ inv' = [inv EXCEPT ![v] = "no"]
    /\ IF Fenced(v) THEN Fails("signal") ELSE Works
    /\ IF Unmaps(v) /\ QueueOnce(v)
       THEN QueueUnreg(v) /\ unmapped' = [unmapped EXCEPT ![v] = TRUE]
       ELSE UNCHANGED <<work, oops, unmapped>>
    /\ vma' = IF inv[v] = "unmap" THEN [vma EXCEPT ![v] = "gone"] ELSE vma
    /\ UNCHANGED <<bo_of, umap, umap_list, refcnt, invalid, map_invalid, working,
                   wq, jobVars, mm, moves, puts, mm_kept>>
-----------------------------------------------------------------------------
(* References to a mapping.                                                *)

\* amdxdna_umap_put(): the last one starts amdxdna_umap_release().
Put(v) ==
    /\ refcnt' = [refcnt EXCEPT ![v] = @ - 1]
    /\ umap' = IF refcnt[v] = 1 THEN [umap EXCEPT ![v] = "removing"] ELSE umap

\* amdxdna_hmm_unreg_work(), on an ordered workqueue.  The work of a mapping
\* that is being released is one too many.
UnregWork(v) ==
    /\ working = None /\ v \in work /\ work' = work \ {v}
    /\ IF umap[v] = "live"
       THEN /\ Put(v) /\ puts' = [puts EXCEPT ![v] = @ + 1]
            /\ working' = IF refcnt[v] = 1 THEN v ELSE None
            /\ UNCHANGED oops
       ELSE oops' = "freed_work" /\ UNCHANGED <<refcnt, umap, puts, working>>
    /\ UNCHANGED <<vma, bo_of, umap_list, invalid, unmapped, inv, map_invalid, wq,
                   jobVars, mm, moves, mm_kept, blame>>

UmapUnlink(v) ==
    umap_list' = [umap_list EXCEPT ![bo_of[v]] = RemoveFirst(@, v)]

\* mmu_interval_notifier_remove() has waited for the notifier: the mapping
\* leaves the list and is freed, with a work item that may be queued.
UmapRelease(v) ==
    /\ umap[v] = "removing" /\ inv[v] = "no" /\ umap' = [umap EXCEPT ![v] = "freed"]
    /\ UmapUnlink(v)
    /\ oops' = IF v \in work THEN "freed_work" ELSE oops
    /\ working' = IF working = v THEN None ELSE working
    /\ UNCHANGED <<vma, bo_of, refcnt, invalid, unmapped, inv, map_invalid, work, wq,
                   jobVars, mm, moves, puts, mm_kept, blame>>

\* remove() destroys the workqueue first, whatever is still mapped.
DriverRemove ==
    /\ wq /\ work = {} /\ working = None /\ wq' = FALSE
    /\ UNCHANGED <<mapVars, inv, map_invalid, work, working, jobVars, mm, moves,
                   puts, mm_kept, blame, oops>>
-----------------------------------------------------------------------------
(* aie2_cmd_submit() and aie2_populate_range().                            *)

Goto(j, pc) == job' = [job EXCEPT ![j] = pc]

Submit(j, bs) ==
    /\ mm = "live" /\ job[j] = "idle" /\ Goto(j, "check")
    /\ job_bos' = [job_bos EXCEPT ![j] = bs]
    /\ UNCHANGED <<mapVars, inv, map_invalid, wqVars, pv, raced, mm, moves, puts,
                   mm_kept, blame, oops>>

InvalidBos(j) == {b \in job_bos[j] : map_invalid[b]}

\* With the objects locked: the job is pushed, its fence with it, when no
\* buffer is invalid; else the thread goes and populates one, or gives up.
SubmitCheck(j) ==
    /\ job[j] = "check"
    /\ IF InvalidBos(j) = {} THEN Goto(j, "pushed") /\ Works
       ELSE \/ Goto(j, "populate") /\ Works
            \/ Fails("timeout") /\ Goto(j, "failed")
    /\ UNCHANGED <<mapVars, inv, map_invalid, wqVars, job_bos, pv, raced, mm, moves,
                   puts, mm_kept, oops>>

JobDone(j) ==
    /\ job[j] = "pushed" /\ Goto(j, "done")
    /\ UNCHANGED <<mapVars, inv, map_invalid, wqVars, job_bos, pv, raced, mm, moves,
                   puts, mm_kept, blame, oops>>

\* Where the first mapping of a buffer that has to be faulted in is on its
\* list; 0 when there is none.
ToPopulate(b) == SelectInSeq(umap_list[b], LAMBDA v : invalid[v])

\* The first mapping of the buffer that is invalid gets a reference, also one
\* whose last reference has just been dropped; without one, the buffer is
\* valid again.
PopulateScan(j) ==
    /\ job[j] = "populate"
    /\ \E b \in InvalidBos(j) :
         LET found == ToPopulate(b)
             v == umap_list[b][found]
         IN  IF found = 0
             THEN /\ map_invalid' = [map_invalid EXCEPT ![b] = FALSE] /\ Goto(j, "check")
                  /\ UNCHANGED <<refcnt, pv, oops>>
             ELSE /\ oops' = IF refcnt[v] = 0 THEN "ref0" ELSE oops
                  /\ refcnt' = [refcnt EXCEPT ![v] = @ + 1]
                  /\ pv' = [pv EXCEPT ![j] = v] /\ Goto(j, "begin")
                  /\ UNCHANGED map_invalid
    /\ UNCHANGED <<vma, bo_of, umap, umap_list, invalid, unmapped, inv, wqVars,
                   job_bos, raced, mm, moves, puts, mm_kept, blame>>
\* Another thread validated the buffers meanwhile.
PopulateNone(j) ==
    /\ job[j] = "populate" /\ InvalidBos(j) = {} /\ Goto(j, "check")
    /\ UNCHANGED <<mapVars, inv, map_invalid, wqVars, job_bos, pv, raced, mm, moves,
                   puts, mm_kept, blame, oops>>

\* mmget_not_zero(), and mmu_interval_read_begin(), which waits for the
\* notifier.
PopulateBegin(j) ==
    /\ job[j] = "begin" /\ umap[pv[j]] = "live" /\ inv[pv[j]] = "no" /\ Goto(j, "fault")
    /\ raced' = [raced EXCEPT ![j] = FALSE]
    /\ UNCHANGED <<mapVars, inv, map_invalid, wqVars, job_bos, pv, mm, moves, puts,
                   mm_kept, blame, oops>>

\* mmu_interval_read_retry()
Retry(j) == raced[j]

\* hmm_range_fault(): a range that is gone cannot be faulted in.  After
\* success, and after a collision with the notifier, the thread looks again,
\* keeping its reference to mm; only an error drops it.
PopulateFault(j) ==
    LET v == pv[j]
        ok == vma[v] = "mapped" /\ inv[v] = "no"
    IN  /\ job[j] = "fault" /\ umap[v] = "live"
        /\ \/ /\ ok \/ raced[j]
              /\ invalid' = IF ~Retry(j) THEN [invalid EXCEPT ![v] = FALSE] ELSE invalid
              /\ mm_kept' = TRUE /\ Goto(j, "populate") /\ Works
           \/ /\ IF vma[v] = "gone" THEN Works ELSE Fails("fault")
              /\ Goto(j, "failed") /\ UNCHANGED <<invalid, mm_kept>>
        /\ Put(v) /\ pv' = [pv EXCEPT ![j] = None]
        /\ UNCHANGED <<vma, bo_of, umap_list, unmapped, inv, map_invalid, wqVars,
                       job_bos, raced, mm, moves, puts, oops>>

\* The mapping was released under the thread.
PopulateFreed(j) ==
    /\ job[j] \in {"begin", "fault"} /\ umap[pv[j]] # "live" /\ oops' = "used_freed"
    /\ UNCHANGED <<mapVars, inv, map_invalid, wqVars, jobVars, mm, moves, puts,
                   mm_kept, blame>>

\* The process exits: its mappings go when nobody keeps its mm.
Exit ==
    /\ mm = "live" /\ \A v \in Vma : vma[v] # "mapping"
    /\ \A j \in Job : job[j] \in {"idle", "pushed", "done", "failed"}
    /\ mm' = "exit"
    /\ UNCHANGED <<mapVars, inv, map_invalid, wqVars, jobVars, moves, puts, mm_kept,
                   blame, oops>>
ExitMmap ==
    /\ mm = "exit" /\ ~mm_kept /\ \A v \in Vma : vma[v] \in {"none", "gone"}
    /\ mm' = "dead"
    /\ UNCHANGED <<mapVars, inv, map_invalid, wqVars, jobVars, moves, puts, mm_kept,
                   blame, oops>>
-----------------------------------------------------------------------------
JobStep(j) == \/ SubmitCheck(j) \/ JobDone(j) \/ PopulateScan(j) \/ PopulateNone(j)
              \/ PopulateBegin(j) \/ PopulateFault(j) \/ PopulateFreed(j)
\* What is under way goes on: the callbacks, the workqueue, the firmware.
UnmapForced(v) == /\ vma[v] = "failed" \/ (mm = "exit" /\ ~mm_kept)
                  /\ InvalidateBegin(v, "unmap")
MapStep(v) == MmapInsert(v) \/ VmaGone(v) \/ UmapRelease(v)

Next ==
    \/ /\ Alive
       /\ \/ \E v \in Vma : \/ MapStep(v) \/ InvalidateEnd(v) \/ UnregWork(v)
                            \/ \E why \in {"move", "part"} : InvalidateBegin(v, why)
                            \/ mm = "live" /\ InvalidateBegin(v, "unmap")
                            \/ UnmapForced(v)
                            \/ \E b \in Bo : MmapRegister(v, b)
          \/ \E j \in Job : JobStep(j) \/ \E bs \in SUBSET Bo \ {{}} : Submit(j, bs)
          \/ DriverRemove \/ Exit \/ ExitMmap
    \/ (~Alive \/ mm \in {"exit", "dead"}) /\ UNCHANGED vars

\* No signal is needed for the notifier to return.
Fairness ==
    /\ \A v \in Vma : /\ WF_vars(Alive /\ MapStep(v)) /\ WF_vars(Alive /\ UnmapForced(v))
                      /\ WF_vars(Alive /\ UnregWork(v))
                      /\ WF_vars(Alive /\ ~Fenced(v) /\ InvalidateEnd(v))
    /\ \A j \in Job : WF_vars(Alive /\ JobStep(j))
    /\ WF_vars(Alive /\ ExitMmap)
Spec == Init /\ [][Next]_vars /\ Fairness
-----------------------------------------------------------------------------
\* Type invariant.
TypeOK ==
    /\ vma \in [Vma -> {"none", "mapping", "mapped", "failed", "gone"}]
    /\ bo_of \in [Vma -> Bo \cup {None}]
    /\ umap \in [Vma -> {"none", "live", "removing", "freed"}]
    /\ umap_list \in [Bo -> Seq(Vma)]
    /\ refcnt \in [Vma -> Nat] /\ invalid \in [Vma -> BOOLEAN]
    /\ unmapped \in [Vma -> BOOLEAN]
    /\ inv \in [Vma -> {"no", "move", "part", "unmap"}]
    /\ map_invalid \in [Bo -> BOOLEAN]
    /\ work \subseteq Vma /\ working \in Vma \cup {None} /\ wq \in BOOLEAN
    /\ job \in [Job -> {"idle", "check", "pushed", "done", "failed", "populate",
                        "begin", "fault"}]
    /\ job_bos \in [Job -> SUBSET Bo] /\ pv \in [Job -> Vma \cup {None}]
    /\ raced \in [Job -> BOOLEAN] /\ mm \in {"live", "exit", "dead"}
    /\ moves \in 0..MaxMoves /\ puts \in [Vma -> Nat] /\ mm_kept \in BOOLEAN
    /\ blame \subseteq Fault
    /\ oops \in {"no", "dead_wq", "freed_work", "ref0", "used_freed"}

\* A job is only in the device's hands while the mappings of its buffers are
\* valid, or the notifier of the one that is not waits for it: the check and
\* the fence of aie2_cmd_submit() against the flag and the wait of
\* amdxdna_hmm_invalidate().  A signal cuts the wait short.
NoDmaToInvalid ==
    "signal" \notin blame =>
        \A j \in Job, v \in Vma :
            (job[j] = "pushed" /\ umap[v] = "live" /\ bo_of[v] \in job_bos[j] /\ invalid[v])
                => inv[v] # "no"

\* The buffer's flag covers its mappings: as long as one is invalid, no
\* submission believes the buffer valid, whoever populates another mapping.
FlagCoversMappings ==
    \A v \in Vma : (umap[v] = "live" /\ invalid[v]) => map_invalid[bo_of[v]]

\* A mapping is on its buffer's list, once, from mmap() until it is released,
\* and on no other.
UmapListed ==
    /\ \A b \in Bo : IsInjective(umap_list[b])
    /\ \A b \in Bo, v \in Vma :
         Contains(umap_list[b], v) <=> umap[v] \in {"live", "removing"} /\ bo_of[v] = b

\* Nothing of the driver knows a mapping that was not made yet, and a thread
\* holds one exactly while it faults it in.
UmapKnown ==
    /\ \A v \in Vma : /\ vma[v] = "none" <=> umap[v] = "none"
                      /\ umap[v] # "none" => bo_of[v] \in Bo
                      /\ umap[v] = "none" =>
                           /\ ~invalid[v] /\ inv[v] = "no" /\ v \notin work
                           /\ refcnt[v] = 0 /\ puts[v] = 0 /\ \A j \in Job : pv[j] # v
    /\ \A j \in Job : pv[j] # None <=> job[j] \in {"begin", "fault"}

\* A mapping has a reference of its own, unless its work dropped that, and one
\* of each thread that faults it in; without any it is being released.
Holders(v) == {j \in Job : pv[j] = v}
UmapRefsExact ==
    \A v \in Vma :
        /\ umap[v] # "none" => refcnt[v] = 1 - puts[v] + Cardinality(Holders(v))
        /\ umap[v] = "live" => refcnt[v] >= 1
        /\ (umap[v] \in {"removing", "freed"} /\ Alive) => refcnt[v] = 0

\* The work drops a mapping's own reference once, unless a failed mmap() and
\* the unmap that follows both queue it.
WorkDropsOnce ==
    "insert" \notin blame =>
        \A v \in Vma : /\ puts[v] <= 1 /\ (puts[v] = 1 => unmapped[v])
                       /\ v \in work => unmapped[v] /\ puts[v] = 0

\* A thread that populates finds a mapping without a reference only while its
\* release waits for the notifier to go away; a mapping in use and a work item
\* in the queue are freed only after a failed mmap().
FreedOnlyInRelease ==
    /\ oops \in {"freed_work", "used_freed"} => "insert" \in blame
    /\ oops = "ref0" => \E v \in Vma : umap[v] = "removing" /\ puts[v] >= 1

\* Nothing of a mapping that is gone remains in the driver.
GoneIsFreed ==
    \A v \in Vma : vma[v] = "gone" ~> (umap[v] = "freed" \/ ~Alive)

\* A process that exits gives up its mappings: the notifiers return, because
\* the jobs they wait for end and no new one slips in.  A reference to the mm
\* that aie2_populate_range() has kept prevents it.
ExitUnmaps == mm = "exit" ~> (mm = "dead" \/ mm_kept \/ ~Alive)

\* No job runs on pages that have moved, and none that is submitted later will.
DmaSafe == NoDmaToInvalid /\ FlagCoversMappings

\* A mapping lives as long as somebody holds it.
UmapInv == /\ TypeOK /\ UmapListed /\ UmapKnown /\ UmapRefsExact /\ WorkDropsOnce
           /\ FreedOnlyInRelease

\* What munmap() and exit take away, the driver gives up.
MappingsEnd == GoneIsFreed /\ ExitUnmaps
=============================================================================
