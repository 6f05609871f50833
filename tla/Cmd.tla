-------------------------------- MODULE Cmd ---------------------------------
(***************************************************************************)
(* The commands of a context, from the ioctl to the last reference: the    *)
(* ladder of amdxdna_cmd_submit() and aie2_cmd_submit(), the DRM scheduler *)
(* that runs and frees jobs, the responses of the firmware, the fences     *)
(* user space waits on, the command buffers of lists, and the creation,    *)
(* disconnection and destruction of the context around them.               *)
(*                                                                         *)
(* Whether a context may connect is the run queue's business               *)
(* (CtxRunqueue), buffer objects are Gem's: here both are calls that work  *)
(* or fail.  A call refused before it has taken anything is not a step.    *)
(***************************************************************************)
EXTENDS Integers, FiniteSets, FiniteSetsExt, Sequences

CONSTANTS
    Slots,        \* CTX_MAX_CMDS
    MaxSeq,       \* bound: commands ever submitted
    Thread,       \* threads of the client
    Ops,          \* the commands they submit
    Faults,       \* what may go wrong in this instance
    BufSize, Header, Payloads,  \* bytes of a command buffer, of a slot's
                                \* header, and of the commands of a list
    U32           \* how many values the integers of a list's layout have

\* user: one command; list: a chain, or one command under force_cmdlist;
\* nocmd: a sync or the registration of a debug buffer; noop: a dependency.
Op == {"user", "list", "nocmd", "noop"}
\* No memory; a full mailbox or a bad command; a process that is gone; a signal
\* or a timeout; a context that cannot connect; a firmware that stops; another
\* thread that guesses the handle of a context in creation.
Fault == {"nomem", "send", "mm", "interrupt", "enter", "hang", "guess"}
ASSUME CmdAssumption ==
    /\ Slots \in Nat \ {0} /\ MaxSeq \in Nat /\ Ops \subseteq Op /\ Faults \subseteq Fault
    /\ BufSize \in Nat /\ Header \in Nat /\ Payloads \subseteq Nat /\ U32 \in Nat \ {0}
    /\ IsFiniteSet(Thread)

JobSeq == 0..(MaxSeq - 1)
NoJob == -1
\* One slot fewer than the semaphore lets in.
get_job_idx_fewer(s) == s % (Slots - 1)
get_job_idx(s) == s % Slots

VARIABLES
    job,          \* the jobs by sequence number, see NoneJob
    ctx,          \* see CtxInit
    stop,         \* how far aie2_hwctx_stop() is
    hung,         \* the firmware has stopped answering
    pc, arg, on,  \* the next step of a thread, its job, the job it waits on
    oops          \* how the kernel went down, if it did

thrVars == <<pc, arg, on>>
vars == <<job, ctx, stop, hung, thrVars, oops>>

\* at: where the job is, as the scheduler sees it.  err: its fence carries an
\* error.  cmd: what the command buffer object shows.  lost: the job's slot of
\* priv->cmd_buf was written for another.  past: its list goes past the end of
\* the buffer although the check of its size did not wrap.
NoneJob == [op |-> "none", at |-> "none", ref |-> 0, done |-> FALSE, err |-> FALSE,
            cmd |-> "new", lost |-> FALSE, past |-> FALSE]
\* sem: job_sem.  Sequence numbers, points of the timeline and commands are
\* given out together under io_lock: submitted stands for all three.
CtxInit == [state |-> "none", connected |-> FALSE, submitted |-> 0, free_cnt |-> 0, sem |-> Slots]
Point == ctx.submitted - 1

Init ==
    /\ job = [s \in JobSeq |-> NoneJob] /\ ctx = CtxInit
    /\ stop = "no" /\ hung = FALSE /\ pc = [t \in Thread |-> "idle"]
    /\ arg = [t \in Thread |-> NoJob] /\ on = [t \in Thread |-> NoJob]
    /\ oops = "no"

Alive == oops = "no"
Fails(f) == f \in Faults
Goto(t, next) == pc' = [pc EXCEPT ![t] = next] /\ UNCHANGED <<arg, on>>
Returns(t) == /\ pc' = [pc EXCEPT ![t] = "idle"] /\ arg' = [arg EXCEPT ![t] = NoJob]
              /\ on' = [on EXCEPT ![t] = NoJob]
At(place) == {s \in JobSeq : job[s].at = place}
Signalled(s) == job[s].at \in {"finished", "freed"}
-----------------------------------------------------------------------------
(* References to a job, and what its end does to the context.              *)

\* aie2_job_put(): the last reference frees the job, and counts it.
JobPut(j) == IF j.ref > 1 THEN [j EXCEPT !.ref = @ - 1]
             ELSE [NoneJob EXCEPT !.op = IF j.op = "noop" THEN "noop" ELSE "other", !.at = "freed"]
FreeCnt(c, j) == IF j.ref = 0 THEN [c EXCEPT !.free_cnt = @ + 1] ELSE c

\* aie2_sched_notify(): whoever reports the end of a job, which has no more
\* use for its slot.
Notify(j) == JobPut([j EXCEPT !.at = "finished", !.done = TRUE, !.lost = FALSE, !.past = FALSE])
UpSem(c) == [c EXCEPT !.sem = @ + 1]

\* aie2_sched_resp_handler(), _nocmd_ and _cmdlist_resp_handler(): what the
\* command shows afterwards.  Without data, a plain command shows nothing.
Answer == {"status", "no_data"}
CmdState(j, answer) ==
    CASE j.op = "nocmd" -> j.cmd
      [] j.op = "user" /\ answer = "no_data" -> j.cmd
      [] OTHER -> "final"
Ends(s, answer) ==
    LET j == Notify([job[s] EXCEPT !.cmd = CmdState(job[s], answer)])
    IN  job' = [job EXCEPT ![s] = j] /\ ctx' = FreeCnt(UpSem(ctx), j)

\* Every job gives back a place when it is freed.
GivesBack_always(j) == TRUE
\* aie2_sched_job_free(): a job nobody reported gives back its place here.
GivesBack(j) == ~j.done
Frees(s) ==
    LET j == JobPut([job[s] EXCEPT !.at = "freed", !.err = @ \/ job[s].at = "killed"])
    IN  /\ job' = [job EXCEPT ![s] = j]
        /\ ctx' = FreeCnt(IF GivesBack(job[s]) THEN UpSem(ctx) ELSE ctx, j)
-----------------------------------------------------------------------------
(* amdxdna_drm_create_ctx_ioctl() and amdxdna_drm_destroy_ctx_ioctl().     *)

\* The threads in an SRCU section with the context.
Inside == {t \in Thread : pc[t] \notin {"idle", "create", "sync", "fini"}}

CreatePublish(t) ==
    /\ pc[t] = "idle" /\ ctx.state = "none"
    /\ ctx' = [ctx EXCEPT !.state = "published"] /\ Goto(t, "create")
    /\ UNCHANGED <<job, stop, hung, oops>>
\* aie2_ctx_init(); when it fails the context is freed at once.
CreateInit(t) ==
    /\ pc[t] = "create"
    /\ \/ /\ ctx' = [ctx EXCEPT !.state = "ready", !.free_cnt = 0] /\ Returns(t)
       \/ /\ Fails("nomem") /\ ctx' = [ctx EXCEPT !.state = "gone"] /\ Returns(t)
    /\ UNCHANGED <<job, stop, hung, oops>>

Destroy(t) ==
    /\ pc[t] = "idle" /\ ctx.state = "ready" /\ ctx' = [ctx EXCEPT !.state = "erased"]
    /\ Goto(t, "sync") /\ UNCHANGED <<job, stop, hung, oops>>
\* synchronize_srcu().
DestroySync(t) ==
    /\ pc[t] = "sync" /\ Inside = {} /\ Goto(t, "fini")
    /\ UNCHANGED <<job, ctx, stop, hung, oops>>
\* The rest of aie2_ctx_fini(), when the context is off the device.
DestroyFini(t) ==
    /\ pc[t] = "fini" /\ ~ctx.connected /\ stop = "no"
    /\ ctx' = [ctx EXCEPT !.state = "gone"] /\ Returns(t)
    /\ UNCHANGED <<job, stop, hung, oops>>
-----------------------------------------------------------------------------
(* amdxdna_cmd_submit() and aie2_cmd_submit().                             *)

\* A context is found in ctx_xa from the moment it has a number, before
\* aie2_ctx_init() has given it a private part.
Early(t) == /\ pc[t] = "idle" /\ ctx.state = "published" /\ Fails("guess") /\ oops' = "early"
            /\ UNCHANGED <<job, ctx, stop, hung, thrVars>>
MayUse(t) == pc[t] = "idle" /\ ctx.state = "ready"

Submit(t) ==
    /\ MayUse(t) /\ ctx.submitted < MaxSeq /\ Goto(t, "sem")
    /\ UNCHANGED <<job, ctx, stop, hung, oops>>
DownSem(t) ==
    /\ pc[t] = "sem" /\ ctx.sem > 0 /\ ctx' = [ctx EXCEPT !.sem = @ - 1] /\ Goto(t, "enter")
    /\ UNCHANGED <<job, stop, hung, oops>>
\* aie2_rq_submit_enter(): connected, with io_sem held.
RqEnter(t) ==
    /\ pc[t] = "enter" /\ stop = "no"
    /\ \/ ctx' = [ctx EXCEPT !.connected = TRUE] /\ Goto(t, "arm")
       \/ Fails("enter") /\ ctx' = UpSem(ctx) /\ Returns(t)
    /\ UNCHANGED <<job, stop, hung, oops>>
\* Under io_lock the job gets its number, its place in the queue and its point
\* of the timeline.  It has a reference for the scheduler and one for its
\* submitter.
Arm(t, op) ==
    LET s == ctx.submitted
    IN  /\ pc[t] = "arm" /\ s \in JobSeq
        /\ job' = [job EXCEPT ![s] = [NoneJob EXCEPT !.op = op, !.at = "queued", !.ref = 2]]
        /\ ctx' = [ctx EXCEPT !.submitted = @ + 1]
        /\ pc' = [pc EXCEPT ![t] = "put"] /\ arg' = [arg EXCEPT ![t] = s]
        /\ UNCHANGED <<stop, hung, on, oops>>
\* No chain node, no job, no dependency, locks or pages: the ladder.  A job
\* past the bound of the instance goes this way too.
ArmFails(t) ==
    /\ pc[t] = "arm" /\ (Fails("nomem") \/ ctx.submitted = MaxSeq)
    /\ ctx' = UpSem(ctx) /\ Returns(t)
    /\ UNCHANGED <<job, stop, hung, oops>>
PutJob(t) ==
    LET s == arg[t]  j == JobPut(job[s])
    IN  /\ pc[t] = "put" /\ job' = [job EXCEPT ![s] = j] /\ ctx' = FreeCnt(ctx, j)
        /\ Returns(t) /\ UNCHANGED <<stop, hung, oops>>
-----------------------------------------------------------------------------
(* aie2_cmd_wait().                                                        *)

\* aie2_cmd_get_out_fence(): the timeline forgets points whose fences and all
\* before them are signalled, and takes 0 for its newest point.
OutFence_newest(s) == IF s > Point THEN NoJob ELSE Point
OutFence_before(s) == IF s >= Point THEN NoJob ELSE s
OutFence(s) ==
    LET open == {k \in 0..s : ~Signalled(k)}
    IN  IF s > Point THEN NoJob
        ELSE IF s \in {0, Point} THEN Point
        ELSE IF open = {} THEN NoJob ELSE Max(open)

Wait(t, s) ==
    /\ MayUse(t) /\ s <= Point
    /\ IF OutFence(s) = NoJob
       THEN oops' = "no_fence" /\ pc' = pc ELSE oops' = oops /\ pc' = [pc EXCEPT ![t] = "wait"]
    /\ arg' = [arg EXCEPT ![t] = s] /\ on' = [on EXCEPT ![t] = OutFence(s)]
    /\ UNCHANGED <<job, ctx, stop, hung>>
WaitEnds(t) ==
    /\ pc[t] = "wait" /\ Signalled(on[t]) /\ Returns(t)
    /\ UNCHANGED <<job, ctx, stop, hung, oops>>
\* A timeout, or a signal here or at the semaphore.
GivesUp(t) ==
    /\ pc[t] \in {"wait", "sem"} /\ Fails("interrupt") /\ ~(pc[t] = "wait" /\ Signalled(on[t]))
    /\ Returns(t) /\ UNCHANGED <<job, ctx, stop, hung, oops>>
-----------------------------------------------------------------------------
(* The DRM scheduler: jobs run in order, and are freed in order.           *)

First(S) == CHOOSE s \in S : \A x \in S : s <= x

\* slot_cf_has_space(), slot_dpu_has_space(): in unsigned arithmetic.
slot_has_space(offset, payload) == (BufSize - (offset + payload)) % U32 > Header
\* The slots of a list of one command or two, up to the first refused.  A
\* command lies "in" the buffer or goes "past" its end, or its check "wrapped".
FillSlot(offset, p) ==
    [fits |-> slot_has_space(offset, p), size |-> offset + Header + p,
     list |-> IF offset + p > BufSize THEN "wrapped"
              ELSE IF offset + Header + p > BufSize THEN "past" ELSE "in"]
Lists == {<<p>> : p \in Payloads} \cup (Payloads \X Payloads)
Filled(l) ==
    LET a == FillSlot(0, l[1])
    IN  IF Len(l) = 1 \/ ~a.fits \/ a.list # "in" THEN a ELSE FillSlot(a.size, l[2])
Layouts == {[fits |-> Filled(l).fits, list |-> Filled(l).list] : l \in Lists}
Plain == {[fits |-> TRUE, list |-> "in"]}

\* aie2_sched_job_run(): a job whose process is gone ...
RunFails(j) == [j EXCEPT !.at = "finished", !.err = TRUE]
RunNoMm(s) ==
    Fails("mm") /\ job' = [job EXCEPT ![s] = RunFails(@)] /\ UNCHANGED ctx
\* ... a no-op, which ends without the firmware ...
RunNoop(s) ==
    /\ job[s].op = "noop"
    /\ LET j == Notify([job[s] EXCEPT !.ref = @ + 1])
       IN  job' = [job EXCEPT ![s] = j] /\ ctx' = FreeCnt(UpSem(ctx), j)
\* ... and one that is sent, with a reference for the response.  A list is
\* written into the command buffer of the job's slot, also in vain.
Sent(j) == [j EXCEPT !.at = "fw", !.ref = @ + 1]
Written(s) ==
    [k \in JobSeq |->
        IF job[s].op = "list" /\ job[k].at = "fw" /\ get_job_idx(k) = get_job_idx(s)
        THEN [job[k] EXCEPT !.lost = TRUE] ELSE job[k]]
Refused(f) == ~f.fits \/ Fails("send")
RunSend(s) ==
    /\ job[s].op # "noop" /\ UNCHANGED ctx
    /\ \E f \in IF job[s].op = "list" THEN Layouts ELSE Plain :
         \/ f.fits /\ job' = [Written(s) EXCEPT ![s] = [Sent(@) EXCEPT !.past = f.list = "past"]]
         \/ Refused(f) /\ job' = [Written(s) EXCEPT ![s] = RunFails(@)]

RunJob(s) ==
    /\ stop = "no" /\ At("queued") # {} /\ s = First(At("queued"))
    /\ Cardinality(At("fw")) < Slots
    /\ RunNoMm(s) \/ RunNoop(s) \/ RunSend(s)
    /\ UNCHANGED <<stop, hung, thrVars, oops>>

FreeJob(s) ==
    /\ job[s].at = "finished" /\ s = First(At("finished") \cup At("fw")) /\ Frees(s)
    /\ UNCHANGED <<stop, hung, thrVars, oops>>

\* The firmware answers in order, or no more.
Respond(s) ==
    /\ job[s].at = "fw" /\ s = First(At("fw")) /\ ~hung /\ stop = "no"
    /\ Ends(s, "status")
    /\ UNCHANGED <<stop, hung, thrVars, oops>>
Hang == /\ Fails("hang") /\ ~hung /\ At("fw") # {} /\ hung' = TRUE
        /\ UNCHANGED <<job, ctx, stop, thrVars, oops>>
-----------------------------------------------------------------------------
(* aie2_hwctx_stop(): the context leaves the device, with its commands.    *)

\* Nobody is between aie2_rq_submit_enter() and _exit().
NoReader == \A t \in Thread : pc[t] # "arm"
\* drm_sched_entity_destroy(): jobs that have not run are killed.
StopBegin ==
    /\ ctx.connected /\ stop = "no" /\ NoReader /\ stop' = "abort"
    /\ job' = [s \in JobSeq |-> IF job[s].at = "queued" THEN [job[s] EXCEPT !.at = "killed"]
                               ELSE job[s]]
    /\ UNCHANGED <<ctx, hung, thrVars, oops>>
\* In order, each after the one before it has ended.
KillWork(s) ==
    /\ job[s].at = "killed" /\ (\A k \in 0..(s - 1) : Signalled(k)) /\ Frees(s)
    /\ UNCHANGED <<stop, hung, thrVars, oops>>
\* The channel forgets what it still has.
StopAbort_silent ==
    /\ stop = "abort" /\ stop' = "wait" /\ UNCHANGED <<job, ctx, hung, thrVars, oops>>
\* aie2_release_resource(): the channel calls back what it still has.
StopAbort ==
    /\ stop = "abort"
    /\ IF At("fw") # {} THEN Ends(First(At("fw")), "no_data") /\ stop' = stop
       ELSE stop' = "wait" /\ UNCHANGED <<job, ctx>>
    /\ UNCHANGED <<hung, thrVars, oops>>
StopEnd ==
    /\ stop = "wait" /\ ctx.submitted = ctx.free_cnt
    /\ stop' = "no" /\ hung' = FALSE /\ ctx' = [ctx EXCEPT !.connected = FALSE]
    /\ UNCHANGED <<job, thrVars, oops>>
-----------------------------------------------------------------------------
Create(t) == CreatePublish(t) \/ CreateInit(t)
SubmitGoes(t) == DownSem(t) \/ RqEnter(t) \/ (\E op \in Ops : Arm(t, op)) \/ ArmFails(t) \/ PutJob(t)
DestroyStep(t) == DestroySync(t) \/ DestroyFini(t)
JobStep(s) == RunJob(s) \/ FreeJob(s) \/ Respond(s) \/ KillWork(s)
StopStep == StopAbort \/ StopEnd
Next ==
    /\ Alive
    /\ \/ \E t \in Thread : \/ Create(t) \/ Submit(t) \/ SubmitGoes(t) \/ Early(t) \/ WaitEnds(t) \/ GivesUp(t)
                            \/ Destroy(t) \/ DestroyStep(t) \/ \E s \in JobSeq : Wait(t, s)
       \/ \E s \in JobSeq : JobStep(s)
       \/ Hang \/ StopBegin \/ StopStep

\* Worker threads run, the firmware answers unless it hangs, and then TDR
\* takes the context off the device; dependencies are signalled.  Threads in
\* an ioctl go on, but need not begin another; job_sem and the run queue serve
\* their waiters in order, so none is passed over for ever.
Fairness ==
    /\ WF_vars(Alive /\ \E s \in JobSeq : JobStep(s))
    /\ WF_vars(Alive /\ StopStep)
    /\ WF_vars(Alive /\ StopBegin /\ (hung \/ \E t \in Thread : pc[t] = "fini"))
    /\ \A t \in Thread : /\ SF_vars(Alive /\ SubmitGoes(t))
                         /\ WF_vars(Alive /\ (WaitEnds(t) \/ DestroyStep(t)))
Spec == Init /\ [][Next]_vars
FairSpec == Spec /\ Fairness
-----------------------------------------------------------------------------
Place == {"none", "queued", "fw", "finished", "killed", "freed"}
Job == [op : Op \cup {"none", "other"}, at : Place, ref : 0..3, done : BOOLEAN,
        err : BOOLEAN, cmd : {"new", "final"}, lost : BOOLEAN, past : BOOLEAN]
Context == [state : {"none", "published", "ready", "erased", "gone"}, connected : BOOLEAN,
            submitted : 0..MaxSeq, free_cnt : Nat, sem : Nat]

\* Type invariant.
TypeOK ==
    /\ job \in [JobSeq -> Job]
    /\ ctx \in Context
    /\ stop \in {"no", "abort", "wait"} /\ hung \in BOOLEAN
    /\ pc \in [Thread -> {"idle", "create", "sync", "fini", "sem", "enter", "arm",
                          "put", "wait"}]
    /\ arg \in [Thread -> JobSeq \cup {NoJob}] /\ on \in [Thread -> JobSeq \cup {NoJob}]
    /\ oops \in {"no", "early", "no_fence"}

One(p) == IF p THEN 1 ELSE 0
Putting(s) == {t \in Thread : pc[t] = "put" /\ arg[t] = s}
Gone == {s \in JobSeq : job[s].at = "freed" /\ job[s].ref = 0}

\* A job is kept by the scheduler until free_job, by its one submitter until
\* it has set the point of the timeline, and by the response that is to come;
\* the kernel's memory of it goes with the last of the three, whichever that
\* is, and job_free_cnt counts exactly the jobs that are gone.
JobRefsExact ==
    /\ \A s \in JobSeq : job[s].ref = One(job[s].at \notin {"none", "freed"})
                                    + One(job[s].at = "fw") + One(Putting(s) # {})
    /\ \A s \in JobSeq : \A t, u \in Putting(s) : t = u
    /\ ctx.free_cnt = Cardinality(Gone)

Entering == {t \in Thread : pc[t] \in {"enter", "arm"}}
Holding == {s \in JobSeq : \/ job[s].at \in {"queued", "fw", "killed"}
                          \/ (job[s].at = "finished" /\ ~job[s].done)}

\* A place of job_sem is taken by a submitter on its way or by a job that
\* neither ended nor was freed: a job gives its place back exactly once,
\* whether it ends, fails to run or is killed.
SemExact == ctx.sem + Cardinality(Entering) + Cardinality(Holding) = Slots

\* The list of a command the firmware works on stays in the command buffer,
\* unless a no-op that was submitted later has ended before it: only then is
\* a slot given to the next job too early.
CmdBufStable ==
    \A s \in At("fw") : (job[s].op = "list" /\ job[s].lost) =>
        \E k \in (s + 1)..(MaxSeq - 1) : job[k].op = "noop" /\ Signalled(k)

\* A list that was sent lies inside its command buffer, unless the unsigned
\* difference of the check wrapped.
ListInBuffer == \A s \in At("fw") : ~job[s].past

\* A command whose fence is signalled without an error shows how it ended,
\* unless it is a plain command whose channel was destroyed.
EndShown ==
    \A s \in At("finished") : (job[s].op \in {"user", "list"} /\ ~job[s].err) =>
        job[s].cmd # "new" \/ (job[s].op = "user" /\ stop # "no")

\* A wait for a command that was submitted finds a fence, unless the command
\* has ended and is not the newest.  A context is used before it has a
\* private part only by a thread that guessed its handle.
OopsNeedsCause ==
    /\ oops = "early" => ctx.state = "published"
    /\ oops = "no_fence" =>
          \E t \in Thread : arg[t] \in JobSeq /\ Signalled(arg[t]) /\ arg[t] < Point

\* When the context is freed, its jobs are, and no thread is in it.
GoneIsQuiet ==
    ctx.state = "gone" =>
        /\ Inside = {} /\ stop = "no"
        /\ \A s \in JobSeq : job[s].at \in {"none", "freed"} /\ job[s].ref = 0

\* A wait that ends with success is for a command that has ended, unless it
\* is for number 0, which stands for the newest point.
WaitMeansDone ==
    [][\A t \in Thread : (pc[t] = "wait" /\ pc'[t] = "idle" /\ Signalled(on[t])) =>
          Signalled(arg[t]) \/ arg[t] = 0]_vars

\* Destroying a context ends: its waiters and its commands do, also when the
\* firmware hangs.
DestroyEnds == ctx.state = "erased" ~> (ctx.state = "gone" \/ ~Alive)

\* Who is in the context: its creator before it is used, its destroyer after
\* all users.  A submitter has its job; the fence of a waiter is the last that
\* was open up to its job, or the newest.
ThreadsSound ==
    /\ \A t \in Thread : /\ pc[t] = "create" => ctx.state = "published"
                         /\ pc[t] \in {"sync", "fini"} => ctx.state = "erased"
                         /\ pc[t] = "fini" => Inside = {}
                         /\ pc[t] = "put" => arg[t] \in 0..Point
                         /\ pc[t] = "wait" =>
                               /\ on[t] \in JobSeq /\ arg[t] \in JobSeq
                               /\ \/ arg[t] = 0
                                  \/ /\ on[t] <= arg[t]
                                     /\ \A k \in (on[t] + 1)..arg[t] : Signalled(k)
    /\ \A t, u \in Thread : pc[t] = "create" /\ pc[u] = "create" => t = u
    /\ \A t, u \in Thread : {pc[t], pc[u]} \subseteq {"sync", "fini"} => t = u
    /\ ctx.state \in {"none", "published", "gone"} => Inside = {} /\ ~ctx.connected
    /\ ctx.state \in {"none", "published"} => ctx.submitted = 0

\* Where the jobs can be: those off the device are gone, those that are killed
\* wait for it, and each place is left in the order of submission.
JobsPlaced ==
    /\ \A s \in JobSeq :
         /\ job[s].at = "none" <=> s >= ctx.submitted
         /\ job[s].at \in {"queued", "fw", "killed"} => ~job[s].done
         /\ job[s].at = "queued" => stop = "no" /\ ~job[s].lost
         /\ job[s].at = "killed" => stop # "no"
    /\ stop # "no" => ctx.connected /\ NoReader
    /\ ~ctx.connected => NoReader /\ ctx.submitted = ctx.free_cnt
    /\ \A s \in JobSeq : \A k \in (s + 1)..(MaxSeq - 1) :
         /\ job[s].at = "queued" => job[k].at \in {"none", "queued"}
         /\ job[s].at = "fw" => /\ job[k].at # "freed"
                                /\ job[k].at = "finished" /\ job[k].done => job[k].op = "noop"

\* Jobs, their references and their places in job_sem are accounted for until
\* the context is gone.  The last two are what makes this inductive.
JobsInv == TypeOK /\ JobRefsExact /\ SemExact /\ GoneIsQuiet /\ ThreadsSound /\ JobsPlaced

\* The firmware reads the list that was written for it, from inside the buffer.
CmdBufSound == CmdBufStable /\ ListInBuffer

\* User space learns how a command ended, and only when it has.
EndsTold == []EndShown /\ WaitMeansDone
=============================================================================
