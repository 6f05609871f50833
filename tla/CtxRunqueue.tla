---------------------------- MODULE CtxRunqueue ----------------------------
(***************************************************************************)
(* The context run queue of the AIE2 driver (aie2_ctx_runqueue.c): more    *)
(* user contexts exist than the device has hardware contexts, so contexts  *)
(* are connected on demand, marked to be blocked when a context of no      *)
(* lower priority waits, and disconnected when their commands are done.    *)
(*                                                                         *)
(* Actors: submitting threads (aie2_cmd_submit), one ordered work queue    *)
(* running sched_work / dispatch_work / yield_work, one mailbox completion *)
(* handler per connected context (aie2_sched_notify), the TDR work, and    *)
(* suspend / resume.  dev_lock serialises everything but the submitters'   *)
(* fast path and the completion handlers.  A section that runs from        *)
(* mutex_lock to mutex_unlock and waits only for one io_sem is one action  *)
(* whose guard is the wait; a section that waits several times (sched_work,*)
(* the TDR scan, pause_all) keeps dev_lock between its actions.            *)
(***************************************************************************)
EXTENDS Integers, Sequences, FiniteSets, SequencesExt

CONSTANTS
    Ctx,            \* context objects
    Thread,         \* threads of user processes that submit commands
    CtxOf,          \* CtxOf[t]: the contexts thread t submits to
    Prio,           \* ctx->qos.priority, 1 (real time) .. NumPriority (low)
    NumPriority,    \* AMDXDNA_NUM_PRIORITY
    CtxLimit,       \* rq->ctx_limit
    HwctxLimit,     \* rq->hwctx_limit
    MaxCmds,        \* CTX_MAX_CMDS, tokens of job_sem
    IdleCount,      \* RQ_CTX_IDLE_COUNT
    MaxJobs,        \* bound: commands ever submitted to one context
    MaxDepth,       \* bound: commands a client keeps outstanding per context
    Env,            \* which of EnvClass the environment may do
    NoCtx, NoWork   \* "NULL" context, no work item

EnvClass == {"destroy", "signal", "connect_fail", "run_fail", "submit_fail",
             "hang", "tdr", "suspend"}

Priority == 1..NumPriority

ASSUME ConstantsAssumption ==
    /\ NumPriority \in Nat /\ Prio \in [Ctx -> Priority]
    /\ CtxOf \in [Thread -> SUBSET Ctx]
    /\ CtxLimit \in Nat \ {0} /\ HwctxLimit \in Nat \ {0}
    /\ MaxCmds \in Nat \ {0} /\ IdleCount \in Nat \ {0}
    /\ MaxJobs \in Nat /\ MaxDepth \in Nat
    /\ Env \subseteq EnvClass
    /\ NoCtx \notin Ctx /\ IsFiniteSet(Thread) /\ IsFiniteSet(Ctx)

Kind == {"dispatch", "yield"}
SchedWork == [kind |-> "sched", ctx |-> NoCtx]
DispatchWork(c) == [kind |-> "dispatch", ctx |-> c]
YieldWork(c) == [kind |-> "yield", ctx |-> c]
Work == {SchedWork} \cup [kind : Kind, ctx : Ctx]
ASSUME NoWorkAssumption == NoWork \notin Work /\ NoWork \notin Ctx

VARIABLES
    alive,           \* ctx in ctx_xa ("live"), erased ("dying"), off the
                     \* run queue ("deleted"), freed or never created ("none")
    status, should_block, job_pending_cnt, idle_cnt, last_completed,
    submitted, completed, job_free_cnt,
    queued, inflight,                      \* jobs in the DRM entity, in firmware
    comp,                                  \* completion handler of the context
    conn_list, disconn_list, runqueue, cnt, runqueue_total,
    hwctx_cnt, ctx_cnt, paused,
    work_q, cur, wpc, nxt, blk,            \* work queue, running item, its locals
    dev_lock,                              \* who keeps dev_lock across actions
    todo, found, tpc, ppc,                 \* loop cursor, TDR and PM progress
    pc, tctx                               \* submitting threads

jobVars  == <<submitted, completed, job_free_cnt, queued, inflight>>
listVars == <<conn_list, disconn_list, runqueue, cnt, runqueue_total, hwctx_cnt>>
ctxVars  == <<alive, should_block, job_pending_cnt, idle_cnt, last_completed, ctx_cnt>>
workVars == <<cur, wpc, nxt, blk>>
lockVars == <<dev_lock, todo, found, tpc, ppc, paused>>
thrVars  == <<pc, tctx>>
vars == <<jobVars, listVars, ctxVars, workVars, lockVars, thrVars,
          status, comp, work_q>>

Status == {"DISCONNECTED", "DISPATCHED", "CONNECTED", "DISCONNECTING", "DEAD"}
ThreadPc == {"out", "enter", "slow", "wait", "granted", "in", "cancel", "cleanup"}

CtxTypes ==
    /\ alive \in [Ctx -> {"none", "live", "dying", "deleted"}]
    /\ should_block \in [Ctx -> BOOLEAN]
    /\ job_pending_cnt \in [Ctx -> Int] /\ idle_cnt \in [Ctx -> Nat]
    /\ last_completed \in [Ctx -> Int] /\ ctx_cnt \in Int

JobTypes ==
    /\ submitted \in [Ctx -> Nat] /\ completed \in [Ctx -> Nat]
    /\ job_free_cnt \in [Ctx -> Nat]
    /\ queued \in [Ctx -> Nat] /\ inflight \in [Ctx -> Nat]
    /\ comp \in [Ctx -> {"idle", "check", "yield"}]

ListTypes ==
    /\ status \in [Ctx -> Status]
    /\ conn_list \in Seq(Ctx) /\ disconn_list \subseteq Ctx
    /\ runqueue \in [Priority -> Seq(Ctx)]
    /\ cnt \in [Priority -> Int] /\ runqueue_total \in Int
    /\ hwctx_cnt \in Nat

WorkTypes ==
    /\ work_q \in Seq(Work) /\ cur \in Work \cup {NoWork}
    /\ wpc \in {"idle", "lock", "connect", "mark", "check"}
    /\ nxt \in Ctx \cup {NoCtx} /\ blk \in Ctx \cup {NoCtx}

LockTypes ==
    /\ dev_lock \in {"free", "sched", "tdr", "pm"}
    /\ todo \in Seq(Ctx) /\ found \in BOOLEAN
    /\ tpc \in {"off", "scan", "stuck", "recover", "pause"}
    /\ ppc \in {"running", "pause", "suspended"} /\ paused \in BOOLEAN

ThreadTypes ==
    /\ pc \in [Thread -> ThreadPc] /\ tctx \in [Thread -> Ctx \cup {NoCtx}]

TypeOK == CtxTypes /\ JobTypes /\ ListTypes /\ WorkTypes /\ LockTypes /\ ThreadTypes

Init ==
    /\ alive = [c \in Ctx |-> "none"]
    /\ status = [c \in Ctx |-> "DISCONNECTED"]
    /\ should_block = [c \in Ctx |-> FALSE]
    /\ job_pending_cnt = [c \in Ctx |-> 0] /\ idle_cnt = [c \in Ctx |-> 0]
    /\ last_completed = [c \in Ctx |-> -1]
    /\ submitted = [c \in Ctx |-> 0] /\ completed = [c \in Ctx |-> 0]
    /\ job_free_cnt = [c \in Ctx |-> 0]
    /\ queued = [c \in Ctx |-> 0] /\ inflight = [c \in Ctx |-> 0]
    /\ comp = [c \in Ctx |-> "idle"]
    /\ conn_list = <<>> /\ disconn_list = {}
    /\ runqueue = [p \in Priority |-> <<>>]
    /\ cnt = [p \in Priority |-> 0] /\ runqueue_total = 0
    /\ hwctx_cnt = 0 /\ ctx_cnt = 0 /\ paused = FALSE
    /\ work_q = <<>> /\ cur = NoWork /\ wpc = "idle" /\ nxt = NoCtx /\ blk = NoCtx
    /\ dev_lock = "free" /\ todo = <<>> /\ found = FALSE
    /\ tpc = "off" /\ ppc = "running"
    /\ pc = [t \in Thread |-> "out"] /\ tctx = [t \in Thread |-> NoCtx]

-----------------------------------------------------------------------------
(* Helpers                                                                 *)

(* queue_work(): a no-op while the item is pending.                        *)
QueueWork(q, w) == IF Contains(q, w) THEN q ELSE Append(q, w)

(* Between aie2_rq_add() and aie2_rq_del(), and on which list.             *)
Listed(c) == alive[c] \in {"live", "dying"}
Connected(c) == Contains(conn_list, c)
Waiting(c) == Contains(runqueue[Prio[c]], c)

(* Mutant: writers do not wait for io_sem.                                 *)
Readers_unlocked(c) == {}

(* Submitters that hold io_sem for reading, from aie2_rq_submit_enter() to *)
(* aie2_rq_submit_exit().  Writers always hold dev_lock.                   *)
Readers(c) == {t \in Thread : pc[t] = "in" /\ tctx[t] = c}

(* Threads inside the submit ioctl of c: what synchronize_srcu() waits for.*)
InIoctl(c) == {t \in Thread : pc[t] # "out" /\ tctx[t] = c}

(* Tokens of job_sem that are taken: by threads on their way to submit and *)
(* by commands whose completion has not released them yet.                 *)
JobSemTaken(c) == Cardinality(InIoctl(c)) + submitted[c] - job_free_cnt[c]

ctx_should_stop(c) == status[c] \in {"CONNECTED", "DISCONNECTING"}

(* Mutant: off by one.                                                     *)
rq_connect_is_full_late == hwctx_cnt > HwctxLimit

rq_connect_is_full == hwctx_cnt = HwctxLimit

(* The first context of the first non-empty queue from priority p on.  The *)
(* code tests the counter and takes the list's first entry, so NoWork      *)
(* stands for the entry it would make up when only the counter is stale.   *)
FirstFrom(p) ==
    LET busy == {q \in p..NumPriority : cnt[q] # 0}
    IN IF busy = {} THEN NoCtx
       ELSE LET q == CHOOSE q \in busy : \A r \in busy : q <= r
            IN IF runqueue[q] = <<>> THEN NoWork ELSE Head(runqueue[q])

select_next_ctx(c) ==
    IF runqueue_total = 0 THEN NoCtx
    ELSE IF c = NoCtx THEN FirstFrom(1)
    ELSE LET q == runqueue[Prio[c]]
             i == CHOOSE i \in 1..Len(q) : q[i] = c
         IN IF q[Len(q)] = c THEN FirstFrom(Prio[c] + 1) ELSE q[i + 1]

(* Mutant: the newest context goes to the tail.                            *)
insert_at_tail(list, c) == Append(list, c)

(* Connected contexts are kept from high to low priority and, within a     *)
(* priority, from new to old.                                              *)
insert_ctx_to_conn_list(list, c) ==
    IF list = <<>> \/ Prio[Last(list)] < Prio[c] THEN Append(list, c)
    ELSE LET i == CHOOSE i \in 1..Len(list) :
                    /\ Prio[list[i]] >= Prio[c]
                    /\ \A j \in 1..(i-1) : Prio[list[j]] < Prio[c]
         IN InsertAt(list, i, c)

(* From the tail: the first context of no higher priority than prio that   *)
(* is not being blocked already.                                           *)
select_ctx_to_block(prio) ==
    LET able == {i \in 1..Len(conn_list) :
                    /\ Prio[conn_list[i]] >= prio
                    /\ ~should_block[conn_list[i]]}
    IN IF able = {} THEN NoCtx
       ELSE conn_list[CHOOSE i \in able : \A j \in able : j <= i]

(* list_move_tail(&ctx->entry, &rq->disconn_list) from whatever list.      *)
MoveToDisconn(c) ==
    /\ conn_list' = RemoveFirst(conn_list, c)
    /\ runqueue' = [runqueue EXCEPT ![Prio[c]] = RemoveFirst(@, c)]
    /\ disconn_list' = disconn_list \cup {c}

(* aie2_hwctx_stop() can finish: the DRM entity was flushed (or its wait   *)
(* timed out), with "wait" the last command is done (or 2 s passed), no    *)
(* completion handler runs, and every submitted job can be freed.          *)
Drained(c, wait) ==
    /\ comp[c] = "idle"
    /\ submitted[c] = job_free_cnt[c] + queued[c] + inflight[c]
    /\ "hang" \in Env \/ (queued[c] = 0 /\ (wait => inflight[c] = 0))

(* Work queued by aie2_rq_yield() when the mailbox channel aborts the      *)
(* commands in flight.                                                     *)
AfterAbort(c) ==
    IF /\ ctx_should_stop(c) /\ should_block[c] /\ inflight[c] > 0
       /\ submitted[c] = completed[c] + inflight[c]
    THEN QueueWork(work_q, YieldWork(c)) ELSE work_q

(* Mutant: killed jobs are never freed.                                    *)
StopHwctx_leak(c, wait) ==
    /\ Connected(c) /\ Drained(c, wait)
    /\ completed' = [completed EXCEPT ![c] = @ + inflight[c]]
    /\ job_free_cnt' = [job_free_cnt EXCEPT ![c] = @ + inflight[c]]
    /\ inflight' = [inflight EXCEPT ![c] = 0] /\ queued' = [queued EXCEPT ![c] = 0]
    /\ hwctx_cnt' = hwctx_cnt - 1
    /\ status' = [status EXCEPT ![c] = "DISCONNECTED"]
    /\ UNCHANGED submitted

(* aie2_ctx_disconnect() as rq_ctx_stop_wait() uses it: queued jobs are    *)
(* killed with their entity and never counted as completed; commands in    *)
(* firmware are aborted through their response handlers, which count them. *)
(* Stopping a context that has no hardware context finalises its scheduler *)
(* a second time, which is undefined: such behaviours end in the state     *)
(* before.                                                                 *)
StopHwctx(c, wait) ==
    /\ Connected(c)
    /\ Drained(c, wait)
    /\ completed' = [completed EXCEPT ![c] = @ + inflight[c]]
    /\ job_free_cnt' = [job_free_cnt EXCEPT ![c] = @ + inflight[c] + queued[c]]
    /\ inflight' = [inflight EXCEPT ![c] = 0]
    /\ queued' = [queued EXCEPT ![c] = 0]
    /\ hwctx_cnt' = hwctx_cnt - 1
    /\ status' = [status EXCEPT ![c] = "DISCONNECTED"]
    /\ UNCHANGED submitted

(* rq_ctx_stop_wait(); rq_ctx_stop() is the case wait = TRUE.              *)
StopCtx(c, wait) ==
    IF ctx_should_stop(c)
    THEN StopHwctx(c, wait) /\ MoveToDisconn(c) /\ UNCHANGED <<cnt, runqueue_total>>
    ELSE UNCHANGED <<status, jobVars, listVars>>

-----------------------------------------------------------------------------
(* Context life: create / destroy ioctls and client close                  *)

(* amdxdna_drm_create_ctx_ioctl() down to aie2_rq_add(); at the limit the  *)
(* ioctl fails and changes nothing.  Nothing cancels a dispatch_work that   *)
(* outlives its context; a context here is reused only when none is left.  *)
CtxCreate(c) ==
    /\ alive[c] = "none" /\ dev_lock = "free"
    /\ DispatchWork(c) \notin ToSet(work_q) \cup {cur}
    /\ ctx_cnt # CtxLimit
    /\ alive' = [alive EXCEPT ![c] = "live"]
    /\ status' = [status EXCEPT ![c] = "DISCONNECTED"]
    /\ should_block' = [should_block EXCEPT ![c] = FALSE]
    /\ job_pending_cnt' = [job_pending_cnt EXCEPT ![c] = 0]
    /\ idle_cnt' = [idle_cnt EXCEPT ![c] = 0]
    /\ last_completed' = [last_completed EXCEPT ![c] = -1]
    /\ submitted' = [submitted EXCEPT ![c] = 0]
    /\ completed' = [completed EXCEPT ![c] = 0]
    /\ job_free_cnt' = [job_free_cnt EXCEPT ![c] = 0]
    /\ disconn_list' = disconn_list \cup {c}
    /\ ctx_cnt' = ctx_cnt + 1
    /\ UNCHANGED <<queued, inflight, comp, conn_list, runqueue, cnt,
                   runqueue_total, hwctx_cnt, work_q, workVars, lockVars, thrVars>>

(* The context leaves ctx_xa; the caller then waits for the SRCU readers.  *)
CtxErase(c) ==
    /\ "destroy" \in Env
    /\ alive[c] = "live"
    /\ alive' = [alive EXCEPT ![c] = "dying"]
    /\ UNCHANGED <<jobVars, listVars, status, should_block, job_pending_cnt, idle_cnt,
                   last_completed, ctx_cnt, comp, work_q, workVars, lockVars, thrVars>>

(* aie2_rq_del() under dev_lock: stop, list_del, ctx_cnt--.  No counter of *)
(* the run queue follows a context deleted while it is dispatched.         *)
RqDel(c) ==
    /\ alive[c] = "dying" /\ dev_lock = "free"
    /\ InIoctl(c) = {}
    /\ IF ctx_should_stop(c) THEN StopHwctx(c, TRUE)
       ELSE UNCHANGED <<status, jobVars, hwctx_cnt>>
    /\ conn_list' = RemoveFirst(conn_list, c)
    /\ runqueue' = [runqueue EXCEPT ![Prio[c]] = RemoveFirst(@, c)]
    /\ disconn_list' = disconn_list \ {c}
    /\ ctx_cnt' = ctx_cnt - 1
    /\ alive' = [alive EXCEPT ![c] = "deleted"]
    /\ work_q' = AfterAbort(c)
    /\ UNCHANGED <<cnt, runqueue_total, should_block, job_pending_cnt, idle_cnt,
                   last_completed, comp, workVars, lockVars, thrVars>>

(* cancel_work_sync(&ctx->yield_work), the rest of aie2_ctx_fini(), kfree. *)
CtxFree(c) ==
    /\ alive[c] = "deleted"
    /\ cur # YieldWork(c)
    /\ work_q' = RemoveFirst(work_q, YieldWork(c))
    /\ alive' = [alive EXCEPT ![c] = "none"]
    /\ UNCHANGED <<jobVars, listVars, status, should_block, job_pending_cnt, idle_cnt,
                   last_completed, ctx_cnt, comp, workVars, lockVars, thrVars>>

-----------------------------------------------------------------------------
(* Submitting threads                                                      *)

(* The ioctl returns.                                                      *)
Leave(t) ==
    /\ pc' = [pc EXCEPT ![t] = "out"]
    /\ tctx' = [tctx EXCEPT ![t] = NoCtx]

(* amdxdna_cmd_submit(): xa_load under SRCU, then down(job_sem).           *)
SubmitStart(t, c) ==
    /\ pc[t] = "out" /\ c \in CtxOf[t] /\ alive[c] = "live" /\ ppc = "running"
    /\ JobSemTaken(c) < MaxCmds
    /\ JobSemTaken(c) < MaxDepth                                    \* bound
    /\ submitted[c] + Cardinality(InIoctl(c)) < MaxJobs             \* bound
    /\ pc' = [pc EXCEPT ![t] = "enter"]
    /\ tctx' = [tctx EXCEPT ![t] = c]
    /\ UNCHANGED <<jobVars, listVars, ctxVars, status, comp, work_q, workVars, lockVars>>

(* aie2_rq_submit_enter(): the status is read under io_sem, which is kept  *)
(* on the fast path only.                                                  *)
SubmitEnter(t) ==
    /\ pc[t] = "enter"
    /\ IF status[tctx[t]] = "DEAD" THEN Leave(t)
       ELSE /\ pc' = [pc EXCEPT ![t] = IF status[tctx[t]] = "CONNECTED"
                                       THEN "in" ELSE "slow"]
            /\ UNCHANGED tctx
    /\ UNCHANGED <<jobVars, listVars, ctxVars, status, comp, work_q, workVars, lockVars>>

(* rq_submit_enter_slow() up to the wait.                                  *)
SubmitSlow(t) ==
    /\ pc[t] = "slow"
    /\ job_pending_cnt' = [job_pending_cnt EXCEPT ![tctx[t]] = @ + 1]
    /\ work_q' = QueueWork(work_q, DispatchWork(tctx[t]))
    /\ pc' = [pc EXCEPT ![t] = "wait"]
    /\ UNCHANGED <<jobVars, listVars, alive, should_block, idle_cnt, last_completed,
                   ctx_cnt, status, comp, workVars, lockVars, tctx>>

(* The wait is over: the context is connected, or dead (-EIO).             *)
SubmitWake(t) ==
    /\ pc[t] = "wait"
    /\ \/ /\ status[tctx[t]] = "CONNECTED"
          /\ pc' = [pc EXCEPT ![t] = "granted"]
          /\ UNCHANGED <<job_pending_cnt, tctx>>
       \/ /\ status[tctx[t]] = "DEAD"
          /\ Leave(t)
          /\ job_pending_cnt' = [job_pending_cnt EXCEPT ![tctx[t]] = @ - 1]
    /\ UNCHANGED <<jobVars, listVars, alive, should_block, idle_cnt, last_completed,
                   ctx_cnt, status, comp, work_q, workVars, lockVars>>

(* down_read(io_sem) after the wait; the status is not read again.         *)
SubmitGranted(t) ==
    /\ pc[t] = "granted"
    /\ job_pending_cnt' = [job_pending_cnt EXCEPT ![tctx[t]] = @ - 1]
    /\ pc' = [pc EXCEPT ![t] = "in"]
    /\ UNCHANGED <<jobVars, listVars, alive, should_block, idle_cnt, last_completed,
                   ctx_cnt, status, comp, work_q, workVars, lockVars, tctx>>

(* A signal ends wait_event_interruptible().                               *)
SubmitSignal(t) ==
    /\ "signal" \in Env
    /\ pc[t] = "wait" /\ status[tctx[t]] \notin {"CONNECTED", "DEAD"}
    /\ pc' = [pc EXCEPT ![t] = "cancel"]
    /\ UNCHANGED <<jobVars, listVars, ctxVars, status, comp, work_q, workVars, lockVars, tctx>>

(* Mutant: the interrupted waiter stays counted.                           *)
SubmitCancelWork_no_dec(t) ==
    LET c == tctx[t] IN
    /\ pc[t] = "cancel"
    /\ cur # DispatchWork(c)
    /\ work_q' = RemoveFirst(work_q, DispatchWork(c))
    /\ pc' = [pc EXCEPT ![t] = "cleanup"]
    /\ UNCHANGED <<jobVars, listVars, ctxVars, status, comp, workVars, lockVars, tctx>>

(* cancel_work_sync(&ctx->dispatch_work): whoever queued it.               *)
SubmitCancelWork(t) ==
    LET c == tctx[t] IN
    /\ pc[t] = "cancel"
    /\ cur # DispatchWork(c)
    /\ work_q' = RemoveFirst(work_q, DispatchWork(c))
    /\ job_pending_cnt' = [job_pending_cnt EXCEPT ![c] = @ - 1]
    /\ pc' = [pc EXCEPT ![t] = "cleanup"]
    /\ UNCHANGED <<jobVars, listVars, alive, should_block, idle_cnt, last_completed,
                   ctx_cnt, status, comp, workVars, lockVars, tctx>>

(* rq_ctx_cancel(): a dispatched context goes back to disconn_list.        *)
rq_ctx_cancel(c) ==
    /\ MoveToDisconn(c)
    /\ status' = [status EXCEPT ![c] = "DISCONNECTED"]
    /\ cnt' = [cnt EXCEPT ![Prio[c]] = @ - 1]
    /\ runqueue_total' = runqueue_total - 1
    /\ UNCHANGED <<jobVars, hwctx_cnt>>

(* The locked part of exit_and_cleanup, then sched_work is queued.         *)
SubmitCleanup(t) ==
    LET c == tctx[t] IN
    /\ pc[t] = "cleanup" /\ dev_lock = "free" /\ Readers(c) = {}
    /\ \/ status[c] = "DISPATCHED" /\ rq_ctx_cancel(c)
       \/ status[c] = "CONNECTED" /\ StopCtx(c, TRUE)
       \/ /\ status[c] \notin {"DISPATCHED", "CONNECTED"}
          /\ UNCHANGED <<status, jobVars, listVars>>
    /\ work_q' = QueueWork(IF status[c] = "CONNECTED" THEN AfterAbort(c) ELSE work_q,
                           SchedWork)
    /\ Leave(t)
    /\ UNCHANGED <<ctxVars, comp, workVars, lockVars>>

(* The end of aie2_cmd_submit(): the job is armed and pushed.  An entity   *)
(* that was destroyed by a disconnect drops the job it is given.           *)
SubmitJob(t) ==
    LET c == tctx[t] IN
    /\ pc[t] = "in"
    /\ submitted' = [submitted EXCEPT ![c] = @ + 1]
    /\ queued' = [queued EXCEPT ![c] = IF Connected(c) THEN @ + 1 ELSE @]
    /\ Leave(t)
    /\ UNCHANGED <<completed, job_free_cnt, inflight, listVars, ctxVars, status, comp,
                   work_q, workVars, lockVars>>

(* Mutant: the yield work is not queued.                                   *)
aie2_rq_yield_no_work(c) ==
    /\ status' = [status EXCEPT ![c] = "DISCONNECTING"]
    /\ UNCHANGED work_q

(* aie2_rq_yield(): no lock, and the status is overwritten whatever it is. *)
aie2_rq_yield(c) ==
    /\ status' = [status EXCEPT ![c] = "DISCONNECTING"]
    /\ work_q' = IF submitted[c] = completed[c]
                 THEN QueueWork(work_q, YieldWork(c)) ELSE work_q

(* An error path of aie2_cmd_submit() past aie2_rq_submit_enter().         *)
SubmitFail(t) ==
    LET c == tctx[t] IN
    /\ "submit_fail" \in Env
    /\ pc[t] = "in"
    /\ IF should_block[c] THEN aie2_rq_yield(c) ELSE UNCHANGED <<status, work_q>>
    /\ Leave(t)
    /\ UNCHANGED <<jobVars, listVars, ctxVars, comp, workVars, lockVars>>

-----------------------------------------------------------------------------
(* Commands: DRM scheduler, firmware and the completion handler            *)

(* aie2_sched_job_run(): the command goes to the mailbox.                  *)
JobRun(c) ==
    /\ queued[c] > 0
    /\ queued' = [queued EXCEPT ![c] = @ - 1]
    /\ inflight' = [inflight EXCEPT ![c] = @ + 1]
    /\ UNCHANGED <<submitted, completed, job_free_cnt, listVars, ctxVars, status, comp,
                   work_q, workVars, lockVars, thrVars>>

(* aie2_sched_job_run() fails: aie2_sched_job_free() returns the token of  *)
(* job_sem and nothing counts the command as completed.                    *)
JobRunFail(c) ==
    /\ "run_fail" \in Env
    /\ queued[c] > 0
    /\ queued' = [queued EXCEPT ![c] = @ - 1]
    /\ job_free_cnt' = [job_free_cnt EXCEPT ![c] = @ + 1]
    /\ UNCHANGED <<submitted, completed, inflight, listVars, ctxVars, status, comp,
                   work_q, workVars, lockVars, thrVars>>

(* The firmware answers and aie2_sched_notify() starts.                    *)
JobComplete(c) ==
    /\ inflight[c] > 0 /\ comp[c] = "idle"
    /\ inflight' = [inflight EXCEPT ![c] = @ - 1]
    /\ completed' = [completed EXCEPT ![c] = @ + 1]
    /\ comp' = [comp EXCEPT ![c] = "check"]
    /\ UNCHANGED <<submitted, job_free_cnt, queued, listVars, ctxVars, status,
                   work_q, workVars, lockVars, thrVars>>

(* aie2_rq_yield() in the handler reads should_block ...                   *)
NotifyCheck(c) ==
    /\ comp[c] = "check"
    /\ IF should_block[c]
       THEN comp' = [comp EXCEPT ![c] = "yield"] /\ UNCHANGED job_free_cnt
       ELSE /\ comp' = [comp EXCEPT ![c] = "idle"]
            /\ job_free_cnt' = [job_free_cnt EXCEPT ![c] = @ + 1]
    /\ UNCHANGED <<submitted, completed, queued, inflight, listVars, ctxVars, status,
                   work_q, workVars, lockVars, thrVars>>

(* ... and then writes the status; the job is released last.               *)
NotifyYield(c) ==
    /\ comp[c] = "yield"
    /\ aie2_rq_yield(c)
    /\ comp' = [comp EXCEPT ![c] = "idle"]
    /\ job_free_cnt' = [job_free_cnt EXCEPT ![c] = @ + 1]
    /\ UNCHANGED <<submitted, completed, queued, inflight, listVars, ctxVars,
                   workVars, lockVars, thrVars>>

-----------------------------------------------------------------------------
(* The ordered work queue                                                  *)

(* The item is taken off the queue (and may be queued again) before it     *)
(* gets dev_lock.                                                          *)
WorkStart ==
    /\ wpc = "idle" /\ work_q # <<>>
    /\ cur' = Head(work_q) /\ work_q' = Tail(work_q)
    /\ wpc' = "lock"
    /\ UNCHANGED <<jobVars, listVars, ctxVars, status, comp, nxt, blk, lockVars, thrVars>>

WorkEnd == cur' = NoWork /\ wpc' = "idle" /\ nxt' = NoCtx /\ blk' = NoCtx

(* Mutant: the total is not counted.                                       *)
rq_ctx_dispatch_untotalled(c) ==
    /\ conn_list' = RemoveFirst(conn_list, c)
    /\ disconn_list' = disconn_list \ {c}
    /\ runqueue' = [runqueue EXCEPT ![Prio[c]] = Append(RemoveFirst(@, c), c)]
    /\ status' = [status EXCEPT ![c] = "DISPATCHED"]
    /\ cnt' = [cnt EXCEPT ![Prio[c]] = @ + 1]
    /\ UNCHANGED <<hwctx_cnt, runqueue_total>>

(* rq_ctx_dispatch(): disconn_list to the tail of its priority's queue.    *)
rq_ctx_dispatch(c) ==
    /\ conn_list' = RemoveFirst(conn_list, c)
    /\ disconn_list' = disconn_list \ {c}
    /\ runqueue' = [runqueue EXCEPT ![Prio[c]] = Append(RemoveFirst(@, c), c)]
    /\ status' = [status EXCEPT ![c] = "DISPATCHED"]
    /\ cnt' = [cnt EXCEPT ![Prio[c]] = @ + 1]
    /\ runqueue_total' = runqueue_total + 1
    /\ UNCHANGED hwctx_cnt

(* Mutant: sched_work is not queued after a dispatch.                      *)
RqDispatchWork_no_sched ==
    LET c == cur.ctx IN
    /\ wpc = "lock" /\ cur.kind = "dispatch" /\ dev_lock = "free"
    /\ Listed(c) /\ Readers(c) = {}
    /\ IF status[c] = "DISCONNECTED" THEN rq_ctx_dispatch(c) ELSE UNCHANGED <<listVars, status>>
    /\ WorkEnd
    /\ UNCHANGED <<jobVars, ctxVars, comp, work_q, lockVars, thrVars>>

(* Moving the entry of a context after list_del(), or running an item of a *)
(* freed context, is undefined: such behaviours end here, in a state that  *)
(* NoStaleWork rejects.                                                    *)
RqDispatchWork ==
    LET c == cur.ctx IN
    /\ wpc = "lock" /\ cur.kind = "dispatch" /\ dev_lock = "free"
    /\ Listed(c) /\ Readers(c) = {}
    /\ IF status[c] = "DISCONNECTED"
       THEN rq_ctx_dispatch(c) /\ work_q' = QueueWork(work_q, SchedWork)
       ELSE UNCHANGED <<listVars, status, work_q>>
    /\ WorkEnd
    /\ UNCHANGED <<jobVars, ctxVars, comp, lockVars, thrVars>>

(* rq_yield_work(): still busy, nobody waits (keep the connection), or     *)
(* disconnect.  The status is not consulted before it is set to CONNECTED. *)
RqYieldWork ==
    LET c == cur.ctx IN
    /\ wpc = "lock" /\ cur.kind = "yield" /\ dev_lock = "free"
    /\ alive[c] # "none" /\ Readers(c) = {}
    /\ \/ /\ submitted[c] # completed[c]
          /\ UNCHANGED <<jobVars, listVars, status, should_block, work_q>>
       \/ /\ submitted[c] = completed[c] /\ runqueue_total = 0
          /\ should_block' = [should_block EXCEPT ![c] = FALSE]
          /\ status' = [status EXCEPT ![c] = "CONNECTED"]
          /\ UNCHANGED <<jobVars, listVars, work_q>>
       \/ /\ submitted[c] = completed[c] /\ runqueue_total # 0
          /\ should_block' = [should_block EXCEPT ![c] = FALSE]
          /\ StopCtx(c, TRUE)
          /\ work_q' = QueueWork(work_q, SchedWork)
    /\ WorkEnd
    /\ UNCHANGED <<alive, job_pending_cnt, idle_cnt, last_completed, ctx_cnt, comp,
                   lockVars, thrVars>>

(* rq_sched_work(): takes dev_lock for all of its steps.                   *)
RqSchedLock ==
    /\ wpc = "lock" /\ cur = SchedWork /\ dev_lock = "free"
    /\ dev_lock' = "sched" /\ wpc' = "connect"
    /\ UNCHANGED <<jobVars, listVars, ctxVars, status, comp, work_q, cur, nxt, blk,
                   todo, found, tpc, ppc, paused, thrVars>>

SchedUnlock == dev_lock' = "free" /\ UNCHANGED <<todo, found, tpc, ppc, paused>>

(* One round of the connect loop: rq_ctx_start() of the highest priority   *)
(* context, which dies when aie2_ctx_connect() fails.                      *)
RqSchedConnect ==
    LET c == select_next_ctx(NoCtx) IN
    /\ wpc = "connect" /\ c \in Ctx /\ ~rq_connect_is_full
    /\ Readers(c) = {}
    /\ \/ /\ ppc # "suspended"
          /\ conn_list' = insert_ctx_to_conn_list(conn_list, c)
          /\ hwctx_cnt' = hwctx_cnt + 1
          /\ status' = [status EXCEPT ![c] = "CONNECTED"]
          /\ UNCHANGED disconn_list
       \/ /\ "connect_fail" \in Env \/ ppc = "suspended"
          /\ disconn_list' = disconn_list \cup {c}
          /\ status' = [status EXCEPT ![c] = "DEAD"]
          /\ UNCHANGED <<conn_list, hwctx_cnt>>
    /\ runqueue' = [runqueue EXCEPT ![Prio[c]] = RemoveFirst(@, c)]
    /\ cnt' = [cnt EXCEPT ![Prio[c]] = @ - 1]
    /\ runqueue_total' = runqueue_total - 1
    /\ UNCHANGED <<jobVars, ctxVars, comp, work_q, workVars, lockVars, thrVars>>

(* The loop ends; somebody is blocked only if the device is full and a     *)
(* context waits.                                                          *)
RqSchedConnectDone ==
    LET c == select_next_ctx(NoCtx) IN
    /\ wpc = "connect" /\ (c = NoCtx \/ rq_connect_is_full)
    /\ IF c \in Ctx
       THEN /\ wpc' = "mark" /\ nxt' = c
            /\ UNCHANGED <<cur, blk, lockVars>>
       ELSE WorkEnd /\ SchedUnlock
    /\ UNCHANGED <<jobVars, listVars, ctxVars, status, comp, work_q, thrVars>>

(* should_block is set before io_sem is waited for.                        *)
RqSchedMark ==
    LET c == select_ctx_to_block(Prio[nxt]) IN
    /\ wpc = "mark"
    /\ IF c = NoCtx
       THEN WorkEnd /\ SchedUnlock /\ UNCHANGED should_block
       ELSE /\ should_block' = [should_block EXCEPT ![c] = TRUE]
            /\ blk' = c /\ wpc' = "check"
            /\ UNCHANGED <<cur, nxt, lockVars>>
    /\ UNCHANGED <<jobVars, listVars, alive, job_pending_cnt, idle_cnt, last_completed,
                   ctx_cnt, status, comp, work_q, thrVars>>

(* An idle context without pending submitters yields at once; the others   *)
(* yield from their completion handler.                                    *)
RqSchedCheck ==
    LET n == select_next_ctx(nxt) IN
    /\ wpc = "check" /\ Readers(blk) = {}
    /\ IF job_pending_cnt[blk] = 0 /\ submitted[blk] = completed[blk]
       THEN /\ status' = [status EXCEPT ![blk] = "DISCONNECTING"]
            /\ work_q' = QueueWork(work_q, YieldWork(blk))
       ELSE UNCHANGED <<status, work_q>>
    /\ IF n \in Ctx
       THEN nxt' = n /\ wpc' = "mark" /\ blk' = NoCtx /\ UNCHANGED <<cur, lockVars>>
       ELSE WorkEnd /\ SchedUnlock
    /\ UNCHANGED <<jobVars, listVars, ctxVars, comp, thrVars>>

-----------------------------------------------------------------------------
(* TDR: amdxdna_tdr_work() runs aie2_detect() and then aie2_recover()      *)

(* The timer period is long: unless the firmware may hang, a command that  *)
(* was outstanding at the last look has been answered at the next one.     *)
Prompt == \A c \in ToSet(conn_list) :
    queued[c] + inflight[c] > 0 => last_completed[c] # completed[c]

TdrLock ==
    /\ "tdr" \in Env /\ tpc = "off" /\ dev_lock = "free"
    /\ "hang" \in Env \/ Prompt
    /\ dev_lock' = "tdr" /\ todo' = conn_list /\ found' = FALSE /\ tpc' = "scan"
    /\ UNCHANGED <<jobVars, listVars, ctxVars, status, comp, work_q, workVars,
                   ppc, paused, thrVars>>

(* aie2_rq_handle_idle_ctx(), one connected context.                       *)
TdrScan ==
    LET c == Head(todo)
        idle == IF submitted[c] = completed[c] THEN idle_cnt[c] + 1 ELSE 0
    IN
    /\ tpc = "scan" /\ todo # <<>> /\ Readers(c) = {}
    /\ IF idle = IdleCount
       THEN /\ idle_cnt' = [idle_cnt EXCEPT ![c] = 0]
            /\ work_q' = QueueWork(work_q, YieldWork(c))
            /\ found' = TRUE
       ELSE /\ idle_cnt' = [idle_cnt EXCEPT ![c] = idle]
            /\ UNCHANGED <<work_q, found>>
    /\ todo' = Tail(todo)
    /\ UNCHANGED <<jobVars, listVars, alive, should_block, job_pending_cnt, last_completed,
                   ctx_cnt, status, comp, workVars, dev_lock, tpc, ppc, paused, thrVars>>

TdrScanDone ==
    /\ tpc = "scan" /\ todo = <<>>
    /\ dev_lock' = "free" /\ tpc' = IF found THEN "off" ELSE "stuck"
    /\ found' = FALSE
    /\ UNCHANGED <<jobVars, listVars, ctxVars, status, comp, work_q, workVars,
                   todo, ppc, paused, thrVars>>

(* Connected contexts with outstanding commands, and those of them whose   *)
(* completed counter moved since the last look.                            *)
Running == {c \in ToSet(conn_list) : submitted[c] # completed[c]}
Progressing == {c \in Running : last_completed[c] # completed[c]}

(* aie2_rq_is_all_context_stuck()                                          *)
TdrStuck ==
    /\ tpc = "stuck" /\ dev_lock = "free"
    /\ last_completed' = [c \in Ctx |-> IF c \in Progressing THEN completed[c]
                                        ELSE last_completed[c]]
    /\ tpc' = IF Running # {} /\ Progressing = {} THEN "recover" ELSE "off"
    /\ UNCHANGED <<jobVars, listVars, alive, should_block, job_pending_cnt, idle_cnt,
                   ctx_cnt, status, comp, work_q, workVars, dev_lock, todo, found, ppc,
                   paused, thrVars>>

(* aie2_recover(): dev_lock is taken again, whatever happened meanwhile.   *)
TdrRecover ==
    /\ tpc = "recover" /\ dev_lock = "free"
    /\ dev_lock' = "tdr" /\ todo' = conn_list /\ tpc' = "pause"
    /\ UNCHANGED <<jobVars, listVars, ctxVars, status, comp, work_q, workVars,
                   found, ppc, paused, thrVars>>

(* aie2_rq_pause_all_nolock(), one connected context.                      *)
RqPauseCtx ==
    LET c == Head(todo) IN
    /\ tpc = "pause" \/ ppc = "pause"
    /\ todo # <<>> /\ Readers(c) = {}
    /\ StopCtx(c, FALSE)
    /\ work_q' = AfterAbort(c)
    /\ todo' = Tail(todo)
    /\ UNCHANGED <<ctxVars, comp, workVars, dev_lock, found, tpc, ppc, paused, thrVars>>

(* The end of the recovery: aie2_rq_run_all_nolock() queues sched_work.    *)
TdrRunAll ==
    /\ tpc = "pause" /\ dev_lock = "tdr" /\ todo = <<>>
    /\ work_q' = QueueWork(work_q, SchedWork)
    /\ paused' = FALSE /\ dev_lock' = "free" /\ tpc' = "off"
    /\ UNCHANGED <<jobVars, listVars, ctxVars, status, comp, workVars, todo, found, ppc, thrVars>>

-----------------------------------------------------------------------------
(* System sleep: user threads are frozen outside the driver                *)

Suspend ==
    /\ "suspend" \in Env /\ ppc = "running" /\ dev_lock = "free"
    /\ \A t \in Thread : pc[t] = "out"
    /\ dev_lock' = "pm" /\ todo' = conn_list /\ ppc' = "pause"
    /\ UNCHANGED <<jobVars, listVars, ctxVars, status, comp, work_q, workVars,
                   found, tpc, paused, thrVars>>

SuspendDone ==
    /\ ppc = "pause" /\ dev_lock = "pm" /\ todo = <<>>
    /\ paused' = TRUE /\ dev_lock' = "free" /\ ppc' = "suspended"
    /\ UNCHANGED <<jobVars, listVars, ctxVars, status, comp, work_q, workVars,
                   todo, found, tpc, thrVars>>

Resume ==
    /\ ppc = "suspended" /\ dev_lock = "free"
    /\ work_q' = QueueWork(work_q, SchedWork)
    /\ paused' = FALSE /\ ppc' = "running"
    /\ UNCHANGED <<jobVars, listVars, ctxVars, status, comp, workVars,
                   dev_lock, todo, found, tpc, thrVars>>
-----------------------------------------------------------------------------
CtxStep(c) == CtxCreate(c) \/ CtxErase(c) \/ RqDel(c) \/ CtxFree(c)

JobStep(c) == JobRun(c) \/ JobRunFail(c) \/ JobComplete(c) \/ NotifyCheck(c) \/ NotifyYield(c)

(* What a thread does by itself once it is in the ioctl.                   *)
ThreadStep(t) ==
    \/ SubmitEnter(t) \/ SubmitSlow(t) \/ SubmitWake(t) \/ SubmitGranted(t)
    \/ SubmitCancelWork(t) \/ SubmitCleanup(t) \/ SubmitJob(t) \/ SubmitFail(t)

WorkStep ==
    \/ WorkStart \/ RqDispatchWork \/ RqYieldWork \/ RqSchedLock \/ RqSchedConnect
    \/ RqSchedConnectDone \/ RqSchedMark \/ RqSchedCheck

TdrStep ==
    \/ TdrLock \/ TdrScan \/ TdrScanDone \/ TdrStuck \/ TdrRecover \/ TdrRunAll

PmStep == RqPauseCtx \/ Suspend \/ SuspendDone \/ Resume

Next ==
    \/ \E c \in Ctx : CtxStep(c) \/ JobStep(c)
    \/ \E t \in Thread : \/ \E c \in Ctx : SubmitStart(t, c)
                         \/ ThreadStep(t) \/ SubmitSignal(t)
    \/ WorkStep \/ TdrStep \/ PmStep

Spec == Init /\ [][Next]_vars
(* The kernel runs queued work, wakes waiters, hands over mutexes and      *)
(* rwsems; the firmware answers commands unless it may hang; the TDR timer *)
(* re-arms itself.  Nobody has to submit, signal, destroy or suspend.      *)
Fairness ==
    /\ WF_vars(WorkStep)
    /\ \A t \in Thread : WF_vars(ThreadStep(t))
    /\ \A c \in Ctx : /\ WF_vars(JobRun(c)) /\ WF_vars(NotifyCheck(c)) /\ WF_vars(NotifyYield(c))
                      /\ "hang" \notin Env => WF_vars(JobComplete(c))
                      /\ WF_vars(RqDel(c)) /\ WF_vars(CtxFree(c))
    /\ WF_vars(TdrStep) /\ WF_vars(RqPauseCtx) /\ WF_vars(SuspendDone)

FairSpec == Spec /\ Fairness

-----------------------------------------------------------------------------
(* Properties                                                              *)

(* Every context between aie2_rq_add() and aie2_rq_del() is linked into    *)
(* exactly one of conn_list, disconn_list and the queue of its priority,   *)
(* once, and no other context is linked anywhere: list_move_tail() never   *)
(* duplicates or loses an entry.                                           *)
OneList ==
    /\ IsInjective(conn_list)
    /\ \A p \in Priority : IsInjective(runqueue[p])
    /\ \A p \in Priority, c \in Ctx : Contains(runqueue[p], c) => Prio[c] = p
    /\ \A c \in Ctx : /\ c \in disconn_list => ~Connected(c) /\ ~Waiting(c)
                      /\ ~(Connected(c) /\ Waiting(c))
                      /\ Listed(c) <=> c \in disconn_list \/ Connected(c) \/ Waiting(c)

(* The counters that select_next_ctx() trusts instead of the lists agree   *)
(* with the lists.                                                         *)
CountersMatchLists ==
    /\ \A p \in Priority : cnt[p] = Len(runqueue[p])
    /\ runqueue_total = Cardinality({c \in Ctx : Waiting(c)})

(* No counter is below its list: a zero, on which select_next_ctx() stops   *)
(* looking, means that nobody waits.  ctx_cnt is exact.                    *)
CountersCoverLists ==
    /\ \A p \in Priority : cnt[p] >= Len(runqueue[p])
    /\ runqueue_total >= Cardinality({c \in Ctx : Waiting(c)})
    /\ ctx_cnt = Cardinality({c \in Ctx : Listed(c)})

(* By how much each counter exceeds its list.                              *)
Excess == [p \in Priority |-> cnt[p] - Len(runqueue[p])]
ExcessTotal == runqueue_total - Cardinality({c \in Ctx : Waiting(c)})

(* A step leaves counters and lists alone, or changes the counters as it   *)
(* changes the lists, but for one: aie2_rq_del() of a context that waits   *)
(* leaves both counters one too high for good.                             *)
CountersFollow ==
    \/ UNCHANGED <<cnt, runqueue, runqueue_total>>
    \/ UNCHANGED <<Excess, ExcessTotal>>
    \/ \E c \in Ctx : /\ Waiting(c) /\ ~Listed(c)'
                      /\ Excess' = [Excess EXCEPT ![Prio[c]] = @ + 1]
                      /\ ExcessTotal' = ExcessTotal + 1

(* hwctx_cnt counts the connected contexts and stays within the limit:     *)
(* WARN_ON(rq->hwctx_cnt > rq->hwctx_limit) in rq_connect_is_full() never  *)
(* fires.                                                                  *)
HwctxCntExact == hwctx_cnt = Len(conn_list) /\ hwctx_cnt <= HwctxLimit

(* "From rq->conn_list head, context is ordered by priority from high to   *)
(* low": what select_ctx_to_block() relies on to find the lowest priority. *)
ConnListOrdered ==
    \A i, j \in DOMAIN conn_list : i < j => Prio[conn_list[i]] <= Prio[conn_list[j]]

(* "When there is ongoing IO, use this sem avoid runqueue disconnect ctx": *)
(* a thread between aie2_rq_submit_enter() and aie2_rq_submit_exit() works *)
(* on a connected context.                                                 *)
IoOnConnectedCtx == \A t \in Thread : pc[t] = "in" => Connected(tctx[t])

(* The commands of a context that nobody accounts for: neither queued, nor  *)
(* in the firmware, nor being completed, nor freed.                        *)
Lost(c) == submitted[c] - job_free_cnt[c] - queued[c] - inflight[c]
           - (IF comp[c] = "idle" THEN 0 ELSE 1)

(* A command that a connected context accepted is run and freed, or freed  *)
(* by the abort, exactly once, whatever stops the context meanwhile: only  *)
(* a submission to a context that is not connected loses a command.        *)
NoLostCommand ==
    [][\A c \in Ctx : Connected(c) => Lost(c)' = Lost(c)]_vars

(* The threads in the slow path of a submission.                           *)
Pending(c) == {t \in InIoctl(c) : pc[t] \in {"wait", "granted", "cancel"}}

(* job_pending_cnt, which keeps rq_sched_work() from disconnecting a       *)
(* context under a waiter, counts exactly the threads in the slow path.    *)
PendingCntExact == \A c \in Ctx : Listed(c) => job_pending_cnt[c] = Cardinality(Pending(c))

(* aie2_rq_del() cancels yield_work and waits for it: no yield is pending  *)
(* or running for a context that was freed.                                *)
NoStaleWork ==
    \A w \in ToSet(work_q) \cup ({cur} \ {NoWork}) :
        w.kind = "yield" => alive[w.ctx] # "none"

(* A thread that waits for its context is served.                          *)
WaiterServed == \A t \in Thread : pc[t] = "wait" ~> pc[t] # "wait"

(* A context leaves the connected list only while no submitter holds its   *)
(* io_sem.                                                                 *)
KeepsBusyCtx ==
    \A c \in Ctx : Connected(c) /\ (\E t \in Thread : pc[t] = "in" /\ tctx[t] = c)
                  => Connected(c)'
NoDisconnectUnderIo == [][KeepsBusyCtx]_vars

(* A context that was marked to be blocked gives way or is unmarked.       *)
BlockResolved == \A c \in Ctx : should_block[c] ~> ~should_block[c] \/ ~Listed(c)

(* A connected context has the status of one, whatever the environment     *)
(* does.  The converse is false: a stale yield gives that status to a      *)
(* context without connection.                                             *)
ConnStatus == \A c \in Ctx : Connected(c) => ctx_should_stop(c)

(* The SRCU read section of the submit ioctl keeps the context on the      *)
(* lists: aie2_rq_del() waits for the threads that have looked it up.      *)
ThreadsListed == \A t \in Thread : pc[t] # "out" => tctx[t] \in Ctx /\ Listed(tctx[t])

(* The worker holds an item from the moment it takes it off the queue, and *)
(* a context it has marked.                                                *)
WorkerHoldsItem == /\ wpc # "idle" => cur \in Work
                   /\ wpc = "check" => blk \in Ctx

(* Who may still queue a yield: the commands and the completion handler of *)
(* a context that is connected, and the holder of dev_lock for a context   *)
(* that stays on the lists as long as the lock is kept.                    *)
YieldersListed ==
    /\ \A c \in Ctx : inflight[c] > 0 \/ queued[c] > 0 \/ comp[c] # "idle" => Connected(c)
    /\ wpc \in {"connect", "mark", "check"} => dev_lock = "sched"
    /\ wpc = "check" => Listed(blk)
    /\ tpc = "scan" => dev_lock = "tdr" /\ \A c \in Ctx : Contains(todo, c) => Listed(c)

(* A work item is queued once, and not for a context that is gone.         *)
WorkSafe == IsInjective(work_q) /\ NoStaleWork /\ YieldersListed

(* Status and queue agree as far as rq_ctx_dispatch() and rq_ctx_cancel(), *)
(* which count, rely on it.  The converse is false: a stale yield          *)
(* overwrites the status of a context that waits.                          *)
DispatchedWaits ==
    \A c \in Ctx : /\ Waiting(c) => status[c] # "DISCONNECTED"
                   /\ Listed(c) /\ status[c] = "DISPATCHED" => Waiting(c)

(* Only a deletion makes the counters wrong.                               *)
CountersSound ==
    /\ DispatchedWaits /\ CountersCoverLists
    /\ "destroy" \notin Env => /\ CountersMatchLists
                               /\ \A c \in Ctx : alive[c] \in {"none", "live"}

(* The inductive invariant: what every step of every actor preserves.      *)
ListInv == OneList /\ ConnStatus /\ ConnListOrdered /\ HwctxCntExact
RqInv ==
    /\ TypeOK /\ ListInv /\ ThreadsListed /\ WorkerHoldsItem /\ WorkSafe
    /\ CountersSound

(* select_next_ctx() finds a context if and only if one waits; it neither  *)
(* overlooks one nor makes one up from the head of an empty list.          *)
SelectsWaiting ==
    IF \E c \in Ctx : Waiting(c) THEN select_next_ctx(NoCtx) \in Ctx
                                 ELSE select_next_ctx(NoCtx) = NoCtx

(* What select_next_ctx() and the ordered work queue rely on survives every *)
(* creation, destruction, failed connection and sleep: no waiting context   *)
(* is overlooked, the counters go astray in one way only, and no work is    *)
(* left for a context that was freed.                                       *)
BookkeepingSound ==
    /\ [](CountersCoverLists /\ NoStaleWork)
    /\ [][CountersFollow]_vars
=============================================================================
