----------------------------- MODULE Cmd_proofs -----------------------------
(***************************************************************************)
(* Proofs about Cmd: references, places of the semaphore and the end of a  *)
(* context are exact for any number of slots, commands and threads; the    *)
(* firmware reads the list that was written for it; user space learns how  *)
(* a command ended, and only when it has.                                  *)
(***************************************************************************)
EXTENDS Cmd, SeqLemmas, FiniteSetTheorems

(* What is true of any step on one member of a finite set.                 *)
LEMMA CardAdd ==
    ASSUME NEW S, NEW T, NEW x, IsFiniteSet(S), x \notin S, T = S \cup {x}
    PROVE  /\ IsFiniteSet(T) /\ Cardinality(T) = Cardinality(S) + 1
           /\ Cardinality(S) \in Nat
BY FS_AddElement, FS_CardinalityType

(* The same for a member that leaves.                                      *)
LEMMA CardRemove ==
    ASSUME NEW S, NEW T, NEW x, IsFiniteSet(S), x \in S, T = S \ {x}
    PROVE  /\ IsFiniteSet(T) /\ Cardinality(T) = Cardinality(S) - 1
           /\ Cardinality(S) \in Nat \ {0}
<1>1. IsFiniteSet(T) /\ Cardinality(T) = Cardinality(S) - 1 /\ Cardinality(T) \in Nat
  BY FS_RemoveElement, FS_CardinalityType
<1>2. Cardinality(S) \in Nat
  BY FS_CardinalityType
<1> QED BY <1>1, <1>2

(* The sets of jobs and threads that are counted are finite.               *)
LEMMA CountedFinite ==
    /\ IsFiniteSet(Gone) /\ IsFiniteSet(Holding) /\ IsFiniteSet(Entering)
    /\ Cardinality(Gone) \in Nat /\ Cardinality(Holding) \in Nat
    /\ Cardinality(Entering) \in Nat
<1>1. IsFiniteSet(JobSeq)
  <2>1. 0 \in Int /\ MaxSeq - 1 \in Int
    BY CmdAssumption
  <2> QED BY <2>1, FS_Interval DEF JobSeq
<1>2. IsFiniteSet(Gone) /\ IsFiniteSet(Holding)
  BY <1>1, FS_Subset DEF Gone, Holding
<1>3. IsFiniteSet(Entering)
  BY CmdAssumption, FS_Subset DEF Entering
<1> QED BY <1>2, <1>3, FS_CardinalityType

(* The first of a set of jobs.                                             *)
LEMMA FirstIs ==
    ASSUME NEW S \in SUBSET JobSeq, S # {}
    PROVE  First(S) \in S /\ \A x \in S : First(S) <= x
<1>1. S \in SUBSET Nat
  BY DEF JobSeq
<1> QED BY <1>1, NatHasMin DEF First

(* A job that has not been submitted.                                      *)
LEMMA NoneJobIs ==
    /\ NoneJob \in Job /\ NoneJob.op = "none" /\ NoneJob.at = "none" /\ NoneJob.ref = 0
    /\ ~NoneJob.done /\ ~NoneJob.lost /\ ~NoneJob.past
BY DEF NoneJob, Job, Op, Place

(* aie2_job_put() takes a reference, and frees the job with the last.      *)
LEMMA JobPutIs ==
    ASSUME NEW j \in Job, j.ref # 0
    PROVE  LET r == JobPut(j) IN
           /\ r \in Job /\ r.ref = j.ref - 1
           /\ j.op = "noop" => r.op = "noop"
           /\ r.ref # 0 => /\ r.at = j.at /\ r.op = j.op /\ r.done = j.done /\ r.err = j.err
                           /\ r.cmd = j.cmd /\ r.lost = j.lost /\ r.past = j.past
           /\ r.ref = 0 => r.at = "freed"
<1>1. CASE j.ref > 1
  BY <1>1 DEF JobPut, Job
<1>2. CASE ~(j.ref > 1)
  <2>1. j.ref = 1
    BY <1>2 DEF Job
  <2> DEFINE n == [NoneJob EXCEPT !.op = IF j.op = "noop" THEN "noop" ELSE "other",
                                  !.at = "freed"]
  <2>2. JobPut(j) = n
    BY <2>1 DEF JobPut
  <2>3. n \in Job /\ n.ref = 0 /\ n.at = "freed" /\ (j.op = "noop" => n.op = "noop")
    BY NoneJobIs DEF Job, Op, Place
  <2> HIDE DEF n
  <2> QED BY <2>1, <2>2, <2>3
<1> QED BY <1>1, <1>2

(* aie2_sched_notify() of a job that somebody still keeps.                 *)
LEMMA NotifyIs ==
    ASSUME NEW j \in Job, j.ref > 1
    PROVE  LET r == Notify(j) IN
           /\ r \in Job /\ r.ref = j.ref - 1 /\ r.at = "finished" /\ r.done
           /\ r.op = j.op /\ r.err = j.err /\ r.cmd = j.cmd /\ ~r.lost /\ ~r.past
<1> DEFINE i == [j EXCEPT !.at = "finished", !.done = TRUE, !.lost = FALSE, !.past = FALSE]
<1>1. i \in Job /\ i.ref = j.ref /\ i.at = "finished" /\ i.done
      /\ i.op = j.op /\ i.err = j.err /\ i.cmd = j.cmd /\ ~i.lost /\ ~i.past
  BY DEF Job, Place
<1>2. i.ref \in 0..3
  BY <1>1 DEF Job
<1>3. Notify(j) = JobPut(i)
  BY DEF Notify
<1> HIDE DEF i
<1>4. i.ref # 0 /\ i.ref - 1 # 0
  BY <1>1, <1>2
<1>5. /\ JobPut(i) \in Job /\ JobPut(i).ref = i.ref - 1
      /\ JobPut(i).ref # 0 => /\ JobPut(i).at = i.at /\ JobPut(i).op = i.op
                               /\ JobPut(i).done = i.done /\ JobPut(i).err = i.err
                               /\ JobPut(i).cmd = i.cmd /\ JobPut(i).lost = i.lost
                               /\ JobPut(i).past = i.past
  BY <1>1, <1>4, JobPutIs
<1> QED BY <1>1, <1>3, <1>4, <1>5

(* A place of job_sem is given back.                                       *)
LEMMA UpSemIs ==
    ASSUME NEW c \in Context
    PROVE  /\ UpSem(c) \in Context /\ UpSem(c).sem = c.sem + 1
           /\ UpSem(c).state = c.state /\ UpSem(c).connected = c.connected
           /\ UpSem(c).submitted = c.submitted /\ UpSem(c).free_cnt = c.free_cnt
BY DEF Context, UpSem

(* The end of a job is counted when its last reference is gone.            *)
LEMMA FreeCntIs ==
    ASSUME NEW c \in Context, NEW j
    PROVE  /\ FreeCnt(c, j) \in Context /\ FreeCnt(c, j).sem = c.sem
           /\ FreeCnt(c, j).state = c.state /\ FreeCnt(c, j).connected = c.connected
           /\ FreeCnt(c, j).submitted = c.submitted
           /\ FreeCnt(c, j).free_cnt = IF j.ref = 0 THEN c.free_cnt + 1 ELSE c.free_cnt
BY DEF Context, FreeCnt

(* When all that was submitted has been counted as freed, it is gone.      *)
LEMMA AllGone ==
    ASSUME JobsInv, ctx.submitted = ctx.free_cnt
    PROVE  \A s \in JobSeq : job[s].at \in {"none", "freed"} /\ job[s].ref = 0
<1> USE CmdAssumption
<1>0. ctx.submitted \in Nat /\ ctx.submitted \in 0..MaxSeq
  BY DEF JobsInv, TypeOK, Context
<1> DEFINE N == 0..(ctx.submitted - 1)
<1>1. IsFiniteSet(N) /\ Cardinality(N) = ctx.submitted
  <2>1. 0 \in Int /\ ctx.submitted - 1 \in Int
    BY <1>0
  <2>2. IsFiniteSet(N) /\ Cardinality(N) = IF 0 > ctx.submitted - 1 THEN 0
                                          ELSE (ctx.submitted - 1) - 0 + 1
    BY <2>1, FS_Interval
  <2> QED BY <2>2, <1>0
<1>2. Gone \subseteq N
  BY <1>0 DEF Gone, JobSeq, JobsInv, JobsPlaced
<1>3. Gone = N
  <2>1. Cardinality(Gone) = Cardinality(N)
    BY <1>1 DEF JobsInv, JobRefsExact
  <2> HIDE DEF N
  <2> QED BY <2>1, <1>1, <1>2, FS_Subset
<1> SUFFICES ASSUME NEW s \in JobSeq
             PROVE  job[s].at \in {"none", "freed"} /\ job[s].ref = 0
  OBVIOUS
<1>4. CASE s < ctx.submitted
  <2>1. s \in Gone
    BY <1>0, <1>3, <1>4 DEF JobSeq
  <2> QED BY <2>1 DEF Gone
<1>5. CASE ~(s < ctx.submitted)
  <2>1. job[s].at = "none"
    BY <1>0, <1>5 DEF JobSeq, JobsInv, JobsPlaced
  <2>2. Putting(s) = {}
    BY <1>0, <1>5 DEF Putting, Point, JobSeq, JobsInv, ThreadsSound
  <2> QED BY <2>1, <2>2 DEF JobsInv, JobRefsExact, One
<1> QED BY <1>4, <1>5 DEF JobSeq

(* The jobs off the device, or of a context that is not in use, are gone.  *)
LEMMA BusyConnected ==
    ASSUME JobsInv, NEW s \in JobSeq, job[s].at \notin {"none", "freed"}
    PROVE  /\ ctx.connected /\ ctx.state \notin {"none", "published", "gone"}
           /\ s < ctx.submitted
<1>1. ctx.connected
  BY AllGone DEF JobsInv, JobsPlaced
<1>2. s < ctx.submitted
  BY CmdAssumption DEF JobsInv, JobsPlaced, TypeOK, Context, JobSeq
<1> QED BY <1>1, <1>2 DEF JobsInv, ThreadsSound
-----------------------------------------------------------------------------
(* A step of the scheduler, the firmware or the teardown moves one job on. *)
LEMMA JobMovesKeepsInv ==
    ASSUME JobsInv, NEW s \in JobSeq,
           job' \in [JobSeq -> Job], ctx' \in Context,
           UNCHANGED <<stop, hung, thrVars, oops>>,
           \A k \in JobSeq : k # s => /\ job'[k].at = job[k].at /\ job'[k].ref = job[k].ref
                                      /\ job'[k].done = job[k].done /\ job'[k].op = job[k].op
                                      /\ job[k].at = "queued" => job'[k].lost = job[k].lost,
           job[s].at \notin {"none", "freed"},
           job'[s].at \in {"fw", "finished", "freed"},
           job'[s].ref = One(job'[s].at # "freed") + One(job'[s].at = "fw")
                         + One(Putting(s) # {}),
           job'[s].at = "fw" => job[s].at = "queued" /\ ~job'[s].done,
           job[s].at = "finished" => job'[s].at = "freed",
           job'[s].at = "freed" => \A k \in 0..(s - 1) : job[k].at # "fw",
           job'[s].at = "finished" /\ job'[s].done =>
              job'[s].op = "noop" \/ \A k \in 0..(s - 1) : job[k].at # "fw",
           \A k \in 0..(s - 1) : job[s].at = "queued" => job[k].at # "queued",
           ctx'.state = ctx.state, ctx'.connected = ctx.connected,
           ctx'.submitted = ctx.submitted,
           ctx'.free_cnt = IF job'[s].ref = 0 THEN ctx.free_cnt + 1 ELSE ctx.free_cnt,
           ctx'.sem + One(s \in Holding') = ctx.sem + One(s \in Holding)
    PROVE  JobsInv'
<1> USE CmdAssumption
<1>0. /\ s < ctx.submitted /\ ctx.connected /\ ctx.state \notin {"none", "published", "gone"}
      /\ ctx.submitted \in Nat /\ ctx.sem \in Nat /\ ctx.free_cnt \in Nat
      /\ ctx'.sem \in Nat /\ s \in Nat
  BY BusyConnected DEF JobsInv, TypeOK, Context, JobSeq
<1>1. UNCHANGED <<pc, arg, on>>
  BY DEF thrVars
<1>2. /\ \A k \in JobSeq : Putting(k)' = Putting(k)
      /\ Entering' = Entering /\ Inside' = Inside /\ NoReader' = NoReader
  BY <1>1 DEF Putting, Entering, Inside, NoReader
<1>3. TypeOK'
  BY <1>1 DEF JobsInv, TypeOK
<1>4. job'[s].ref = 0 => job'[s].at = "freed"
  BY DEF One
<1>5. JobRefsExact'
  <2>1. \A k \in JobSeq : (job[k].ref = One(job[k].at \notin {"none", "freed"})
                                    + One(job[k].at = "fw") + One(Putting(k) # {}))'
    <3> SUFFICES ASSUME NEW k \in JobSeq
                 PROVE  job'[k].ref = One(job'[k].at \notin {"none", "freed"})
                                    + One(job'[k].at = "fw") + One(Putting(k) # {})
      BY <1>2 DEF One
    <3>1. CASE k = s
      BY <3>1 DEF One
    <3>2. CASE k # s
      BY <3>2 DEF JobsInv, JobRefsExact, One
    <3> QED BY <3>1, <3>2
  <2>2. \A k \in JobSeq : \A t, u \in Putting(k)' : t = u
    BY <1>2 DEF JobsInv, JobRefsExact
  <2>3. ctx'.free_cnt = Cardinality(Gone')
    <3>0. s \notin Gone /\ ctx.free_cnt = Cardinality(Gone)
      BY DEF Gone, JobsInv, JobRefsExact
    <3>1. CASE job'[s].ref = 0
      <4>1. Gone' = Gone \cup {s}
        BY <3>1, <1>4 DEF Gone
      <4>2. Cardinality(Gone') = Cardinality(Gone) + 1
        BY <4>1, <3>0, CardAdd, CountedFinite
      <4> QED BY <4>2, <3>0, <3>1 DEF One
    <3>2. CASE job'[s].ref # 0
      <4>1. Gone' = Gone
        BY <3>0, <3>2 DEF Gone
      <4> QED BY <4>1, <3>0, <3>2, <1>0 DEF One
    <3> QED BY <3>1, <3>2
  <2> QED BY <2>1, <2>2, <2>3 DEF JobRefsExact
<1>6. SemExact'
  <2>0. /\ ctx.sem + Cardinality(Entering) + Cardinality(Holding) = Slots
        /\ Cardinality(Entering) \in Nat /\ Cardinality(Holding) \in Nat
    BY CountedFinite DEF JobsInv, SemExact
  <2>1. \A k \in JobSeq : k # s => (k \in Holding' <=> k \in Holding)
    BY DEF Holding
  <2>2. Holding' \subseteq JobSeq /\ Holding \subseteq JobSeq
    BY DEF Holding
  <2>3. CASE s \in Holding /\ s \notin Holding'
    <3>1. Holding' = Holding \ {s}
      BY <2>1, <2>2, <2>3
    <3>2. Cardinality(Holding') = Cardinality(Holding) - 1
      BY <3>1, <2>3, CardRemove, CountedFinite
    <3>3. ctx'.sem = ctx.sem + 1
      BY <2>3, <1>0 DEF One
    <3> QED BY <3>2, <3>3, <2>0, <1>0, <1>2 DEF SemExact
  <2>4. CASE s \notin Holding /\ s \in Holding'
    <3>1. Holding' = Holding \cup {s}
      BY <2>1, <2>2, <2>4
    <3>2. Cardinality(Holding') = Cardinality(Holding) + 1
      BY <3>1, <2>4, CardAdd, CountedFinite
    <3>3. ctx'.sem = ctx.sem - 1
      BY <2>4, <1>0 DEF One
    <3> QED BY <3>2, <3>3, <2>0, <1>0, <1>2 DEF SemExact
  <2>5. CASE s \in Holding <=> s \in Holding'
    <3>1. Holding' = Holding
      <4>1. \A k \in JobSeq : k \in Holding' <=> k \in Holding
        BY <2>1, <2>5
      <4> QED BY <4>1, <2>2
    <3>2. ctx'.sem = ctx.sem
      BY <2>5, <1>0 DEF One
    <3> QED BY <3>1, <3>2, <2>0, <1>2 DEF SemExact
  <2> QED BY <2>3, <2>4, <2>5
<1>7. GoneIsQuiet'
  BY <1>0 DEF GoneIsQuiet
<1>8. ThreadsSound'
  <2>1. \A k \in JobSeq : Signalled(k) => Signalled(k)'
    BY DEF Signalled
  <2>2. ASSUME NEW t \in Thread, pc[t] = "wait"
        PROVE  /\ on[t] \in JobSeq /\ arg[t] \in JobSeq
               /\ arg[t] = 0 \/ (on[t] <= arg[t] /\ \A k \in (on[t] + 1)..arg[t] : Signalled(k)')
    <3>1. /\ on[t] \in JobSeq /\ arg[t] \in JobSeq
          /\ arg[t] = 0 \/ (on[t] <= arg[t] /\ \A k \in (on[t] + 1)..arg[t] : Signalled(k))
      BY <2>2 DEF JobsInv, ThreadsSound
    <3>2. \A k \in (on[t] + 1)..arg[t] : k \in JobSeq
      BY <3>1 DEF JobSeq
    <3> QED BY <3>1, <3>2, <2>1
  <2>3. Point' = Point
    BY DEF Point
  <2> HIDE DEF Signalled
  <2> QED BY <2>2, <2>3, <1>0, <1>1, <1>2 DEF JobsInv, ThreadsSound
<1>9. JobsPlaced'
  <2>1. ASSUME NEW k \in JobSeq
        PROVE  /\ job'[k].at = "none" <=> k >= ctx'.submitted
               /\ job'[k].at \in {"queued", "fw", "killed"} => ~job'[k].done
               /\ job'[k].at = "queued" => stop = "no" /\ ~job'[k].lost
               /\ job'[k].at = "killed" => stop # "no"
    <3>1. CASE k = s
      BY <3>1, <1>0
    <3>2. CASE k # s
      BY <3>2 DEF JobsInv, JobsPlaced
    <3> QED BY <3>1, <3>2
  <2>2. ASSUME NEW a \in JobSeq, NEW k \in (a + 1)..(MaxSeq - 1)
        PROVE  /\ job'[a].at = "queued" => job'[k].at \in {"none", "queued"}
               /\ job'[a].at = "fw" =>
                     /\ job'[k].at # "freed"
                     /\ job'[k].at = "finished" /\ job'[k].done => job'[k].op = "noop"
    <3>0. /\ k \in JobSeq /\ k # a /\ (k = s => a \in 0..(s - 1))
          /\ job[a].at = "queued" => job[k].at \in {"none", "queued"}
          /\ job[a].at = "fw" =>
                /\ job[k].at # "freed"
                /\ job[k].at = "finished" /\ job[k].done => job[k].op = "noop"
      BY <1>0 DEF JobSeq, JobsInv, JobsPlaced
    <3>1. CASE a = s
      BY <3>0, <3>1
    <3>2. CASE k = s
      BY <3>0, <3>2
    <3>3. CASE a # s /\ k # s
      BY <3>0, <3>3
    <3> QED BY <3>1, <3>2, <3>3
  <2>3. /\ stop # "no" => ctx.connected /\ NoReader
    BY DEF JobsInv, JobsPlaced
  <2> QED BY <2>1, <2>2, <2>3, <1>0, <1>2 DEF JobsPlaced
<1> QED BY <1>3, <1>5, <1>6, <1>7, <1>8, <1>9 DEF JobsInv

(* A response, or the callback of a channel that is torn down.             *)
LEMMA EndsKeepsInv ==
    ASSUME JobsInv, NEW s \in JobSeq, NEW answer \in Answer, job[s].at = "fw",
           s = First(At("fw")), Ends(s, answer), UNCHANGED <<stop, hung, thrVars, oops>>
    PROVE  JobsInv' /\ job'[s].at = "finished" /\ job'[s].op = job[s].op
           /\ job'[s].err = job[s].err /\ job'[s].cmd = CmdState(job[s], answer)
<1> USE CmdAssumption
<1>0. job[s] \in Job /\ ctx \in Context
  BY DEF JobsInv, TypeOK
<1> DEFINE i == [job[s] EXCEPT !.cmd = CmdState(job[s], answer)]
           j == Notify(i)
<1>1. job[s].ref = 2 + One(Putting(s) # {})
  BY DEF JobsInv, JobRefsExact, One
<1>2. CmdState(job[s], answer) \in {"new", "final"}
  BY <1>0 DEF CmdState, Job
<1>3. /\ i \in Job /\ i.ref = job[s].ref /\ i.op = job[s].op /\ i.err = job[s].err
      /\ i.cmd = CmdState(job[s], answer) /\ i.ref > 1
  BY <1>0, <1>1, <1>2 DEF Job, One
<1>4. job' = [job EXCEPT ![s] = j] /\ ctx' = FreeCnt(UpSem(ctx), j)
  BY DEF Ends
<1> HIDE DEF i
<1>5. /\ j \in Job /\ j.ref = job[s].ref - 1 /\ j.at = "finished" /\ j.done
      /\ j.op = job[s].op /\ j.err = job[s].err /\ j.cmd = CmdState(job[s], answer)
  BY <1>3, NotifyIs
<1> HIDE DEF j
<1>6. job'[s] = j /\ job' \in [JobSeq -> Job] /\ \A k \in JobSeq : k # s => job'[k] = job[k]
  BY <1>4, <1>5 DEF JobsInv, TypeOK
<1>7. j.ref = 1 + One(Putting(s) # {}) /\ j.ref # 0
  BY <1>1, <1>5 DEF One
<1>8. /\ ctx' \in Context /\ ctx'.state = ctx.state /\ ctx'.connected = ctx.connected
      /\ ctx'.submitted = ctx.submitted
      /\ ctx'.free_cnt = IF j.ref = 0 THEN ctx.free_cnt + 1 ELSE ctx.free_cnt
      /\ ctx'.sem = ctx.sem + 1
  <2>1. /\ UpSem(ctx) \in Context /\ UpSem(ctx).sem = ctx.sem + 1
        /\ UpSem(ctx).state = ctx.state /\ UpSem(ctx).connected = ctx.connected
        /\ UpSem(ctx).submitted = ctx.submitted /\ UpSem(ctx).free_cnt = ctx.free_cnt
    BY <1>0, UpSemIs
  <2>2. PICK c \in Context : c = UpSem(ctx)
    BY <2>1
  <2> QED BY <2>1, <2>2, <1>4, FreeCntIs
<1>9. s \in Holding /\ s \notin Holding'
  BY <1>5, <1>6 DEF Holding
<1>10. \A k \in 0..(s - 1) : job[k].at # "fw"
  <2>1. At("fw") \in SUBSET JobSeq /\ s \in At("fw")
    BY DEF At
  <2>2. At("fw") # {}
    BY <2>1
  <2>3. \A x \in At("fw") : s <= x
    BY <2>1, <2>2, FirstIs
  <2>4. \A k \in 0..(s - 1) : k \in JobSeq /\ ~(s <= k)
    BY DEF JobSeq
  <2> QED BY <2>3, <2>4 DEF At
<1>11. job'[s].ref = One(job'[s].at # "freed") + One(job'[s].at = "fw") + One(Putting(s) # {})
  BY <1>5, <1>6, <1>7 DEF One
<1>12. ctx'.sem + One(s \in Holding') = ctx.sem + One(s \in Holding)
  BY <1>0, <1>8, <1>9 DEF One, Context
<1>13. JobsInv'
  BY <1>5, <1>6, <1>8, <1>10, <1>11, <1>12, JobMovesKeepsInv
<1> QED BY <1>5, <1>6, <1>13

(* aie2_sched_job_free() of a job that has ended or was killed.            *)
LEMMA FreesKeepsInv ==
    ASSUME JobsInv, NEW s \in JobSeq, job[s].at \in {"finished", "killed"},
           \A k \in 0..(s - 1) : job[k].at # "fw",
           Frees(s), UNCHANGED <<stop, hung, thrVars, oops>>
    PROVE  /\ JobsInv' /\ job'[s].at = "freed"
           /\ job[s].op = "noop" => job'[s].op = "noop"
<1> USE CmdAssumption
<1>0. job[s] \in Job /\ ctx \in Context
  BY DEF JobsInv, TypeOK
<1> DEFINE i == [job[s] EXCEPT !.at = "freed", !.err = @ \/ job[s].at = "killed"]
           j == JobPut(i)
           c == IF GivesBack(job[s]) THEN UpSem(ctx) ELSE ctx
<1>1. job[s].ref = 1 + One(Putting(s) # {})
  BY DEF JobsInv, JobRefsExact, One
<1>3. i \in Job /\ i.ref = job[s].ref /\ i.at = "freed" /\ i.op = job[s].op /\ i.ref # 0
  <2>1. i \in Job
    BY <1>0 DEF Job, Place
  <2>2. i.ref = job[s].ref /\ i.at = "freed" /\ i.op = job[s].op
    BY <1>0 DEF Job
  <2>3. job[s].ref # 0
    BY <1>1 DEF One
  <2> QED BY <2>1, <2>2, <2>3
<1>4. job' = [job EXCEPT ![s] = j] /\ ctx' = FreeCnt(c, j)
  BY DEF Frees
<1> HIDE DEF i
<1>5. /\ j \in Job /\ j.ref = job[s].ref - 1 /\ j.at = "freed"
      /\ job[s].op = "noop" => j.op = "noop"
  BY <1>3, JobPutIs
<1> HIDE DEF j
<1>6. job'[s] = j /\ job' \in [JobSeq -> Job] /\ \A k \in JobSeq : k # s => job'[k] = job[k]
  BY <1>4, <1>5 DEF JobsInv, TypeOK
<1>7. c \in Context /\ c.state = ctx.state /\ c.connected = ctx.connected
      /\ c.submitted = ctx.submitted /\ c.free_cnt = ctx.free_cnt
      /\ c.sem = IF GivesBack(job[s]) THEN ctx.sem + 1 ELSE ctx.sem
  <2>1. /\ UpSem(ctx) \in Context /\ UpSem(ctx).sem = ctx.sem + 1
        /\ UpSem(ctx).state = ctx.state /\ UpSem(ctx).connected = ctx.connected
        /\ UpSem(ctx).submitted = ctx.submitted /\ UpSem(ctx).free_cnt = ctx.free_cnt
    BY <1>0, UpSemIs
  <2>2. ctx.sem \in Nat
    BY <1>0 DEF Context
  <2> QED BY <2>1, <2>2, <1>0 DEF One
<1> HIDE DEF c
<1>8. /\ ctx' \in Context /\ ctx'.state = ctx.state /\ ctx'.connected = ctx.connected
      /\ ctx'.submitted = ctx.submitted
      /\ ctx'.free_cnt = IF j.ref = 0 THEN ctx.free_cnt + 1 ELSE ctx.free_cnt
      /\ ctx'.sem = IF GivesBack(job[s]) THEN ctx.sem + 1 ELSE ctx.sem
  BY <1>4, <1>7, FreeCntIs
<1>9. s \notin Holding' /\ (s \in Holding <=> GivesBack(job[s]))
  BY <1>5, <1>6 DEF Holding, GivesBack, JobsInv, JobsPlaced
<1>11. job'[s].ref = One(job'[s].at # "freed") + One(job'[s].at = "fw") + One(Putting(s) # {})
  BY <1>1, <1>5, <1>6 DEF One
<1>12. ctx'.sem + One(s \in Holding') = ctx.sem + One(s \in Holding)
  BY <1>0, <1>8, <1>9 DEF One, Context
<1>13. JobsInv'
  BY <1>5, <1>6, <1>8, <1>11, <1>12, JobMovesKeepsInv
<1> QED BY <1>5, <1>6, <1>13

(* Free_job, in order of submission.                                       *)
LEMMA FreeJobKeepsInv ==
    ASSUME JobsInv, NEW s \in JobSeq, FreeJob(s)
    PROVE  /\ JobsInv' /\ job'[s].at = "freed" /\ job[s].at = "finished"
           /\ job[s].op = "noop" => job'[s].op = "noop"
           /\ \A k \in 0..(s - 1) : job[k].at # "fw"
           /\ \A k \in JobSeq : k # s => job'[k] = job[k]
           /\ UNCHANGED <<stop, hung, thrVars, oops>>
<1>1. At("finished") \cup At("fw") \in SUBSET JobSeq /\ s \in At("finished") \cup At("fw")
  BY DEF FreeJob, At
<1>2. \A x \in At("finished") \cup At("fw") : s <= x
  BY <1>1, FirstIs DEF FreeJob
<1>3. \A k \in 0..(s - 1) : job[k].at # "fw"
  BY <1>2, CmdAssumption DEF At, JobSeq
<1>4. \A k \in JobSeq : k # s => job'[k] = job[k]
  BY DEF FreeJob, Frees, JobsInv, TypeOK
<1> QED BY <1>3, <1>4, FreesKeepsInv DEF FreeJob

(* drm_sched_entity_kill_jobs_work(), in order of submission.              *)
LEMMA KillWorkKeepsInv ==
    ASSUME JobsInv, NEW s \in JobSeq, KillWork(s)
    PROVE  /\ JobsInv' /\ job'[s].at = "freed" /\ job[s].at = "killed"
           /\ job[s].op = "noop" => job'[s].op = "noop"
           /\ \A k \in JobSeq : k # s => job'[k] = job[k]
           /\ UNCHANGED <<stop, hung, thrVars, oops>>
<1>1. \A k \in 0..(s - 1) : job[k].at # "fw"
  BY DEF KillWork, Signalled
<1>2. \A k \in JobSeq : k # s => job'[k] = job[k]
  BY DEF KillWork, Frees, JobsInv, TypeOK
<1> QED BY <1>1, <1>2, FreesKeepsInv DEF KillWork

(* aie2_sched_job_run() leaves a job with the firmware, or finished: by an *)
(* error, or because it was a no-op.  Of the other jobs it can only take   *)
(* the list, of one that has the same slot.                                *)
LEMMA RunJobIs ==
    ASSUME JobsInv, NEW s \in JobSeq, RunJob(s)
    PROVE  /\ job[s].at = "queued" /\ stop = "no" /\ ~job[s].lost /\ ~job[s].done
           /\ \A k \in 0..(s - 1) : job[k].at # "queued"
           /\ job' \in [JobSeq -> Job]
           /\ \A k \in JobSeq : k # s =>
                 /\ job'[k].at = job[k].at /\ job'[k].op = job[k].op /\ job'[k].ref = job[k].ref
                 /\ job'[k].done = job[k].done /\ job'[k].err = job[k].err
                 /\ job'[k].cmd = job[k].cmd /\ job'[k].past = job[k].past
                 /\ \/ job'[k].lost = job[k].lost
                    \/ job[k].at = "fw" /\ get_job_idx(k) = get_job_idx(s)
           /\ job'[s].op = job[s].op
           /\ \/ /\ job'[s].at = "fw" /\ job'[s].ref = job[s].ref + 1 /\ ~job'[s].done
                 /\ ~job'[s].lost /\ UNCHANGED ctx
                 /\ \E f \in Layouts \cup Plain : f.fits /\ job'[s].past = (f.list = "past")
              \/ /\ job'[s].at = "finished" /\ job'[s].ref = job[s].ref /\ ~job'[s].done
                 /\ job'[s].err /\ UNCHANGED ctx
              \/ /\ job'[s].at = "finished" /\ job'[s].ref = job[s].ref /\ job'[s].done
                 /\ job[s].op = "noop"
                 /\ \E j \in Job : j.ref # 0 /\ ctx' = FreeCnt(UpSem(ctx), j)
<1> USE CmdAssumption
<1>1. At("queued") \in SUBSET JobSeq /\ At("queued") # {} /\ s = First(At("queued"))
  BY DEF RunJob, At
<1>2. /\ job[s].at = "queued" /\ stop = "no" /\ ~job[s].lost /\ ~job[s].done
      /\ \A k \in 0..(s - 1) : job[k].at # "queued"
  <2>1. s \in At("queued") /\ \A x \in At("queued") : s <= x
    BY <1>1, FirstIs
  <2> QED BY <2>1 DEF At, JobSeq, JobsInv, JobsPlaced
<1>3. job \in [JobSeq -> Job] /\ job[s] \in Job
  BY DEF JobsInv, TypeOK
<1>4. job[s].ref = 1 + One(Putting(s) # {})
  BY <1>2 DEF JobsInv, JobRefsExact, One
<1>5. job[s].ref \in {1, 2}
  BY <1>4 DEF One
<1>6. CASE RunNoMm(s)
  <2>1. job' = [job EXCEPT ![s] = RunFails(job[s])] /\ UNCHANGED ctx
    BY <1>6 DEF RunNoMm
  <2>2. /\ RunFails(job[s]) \in Job /\ RunFails(job[s]).at = "finished" /\ RunFails(job[s]).err
        /\ RunFails(job[s]).ref = job[s].ref /\ RunFails(job[s]).done = job[s].done
        /\ RunFails(job[s]).op = job[s].op
    BY <1>3 DEF RunFails, Job, Place
  <2>3. /\ job' \in [JobSeq -> Job] /\ job'[s] = RunFails(job[s])
        /\ \A k \in JobSeq : k # s => job'[k] = job[k]
    BY <2>1, <2>2, <1>3
  <2> QED BY <2>1, <2>2, <2>3, <1>2
<1>7. CASE RunNoop(s)
  <2> DEFINE i == [job[s] EXCEPT !.ref = @ + 1]
             j == Notify(i)
  <2>1. job' = [job EXCEPT ![s] = j] /\ ctx' = FreeCnt(UpSem(ctx), j) /\ job[s].op = "noop"
    BY <1>7 DEF RunNoop
  <2>2. i \in Job /\ i.ref = job[s].ref + 1 /\ i.ref > 1 /\ i.op = job[s].op
    BY <1>3, <1>5 DEF Job
  <2> HIDE DEF i
  <2>3. /\ j \in Job /\ j.ref = i.ref - 1 /\ j.at = "finished" /\ j.done /\ j.op = job[s].op
    BY <2>2, NotifyIs
  <2>4. j.ref = job[s].ref /\ j.ref # 0
    BY <2>2, <2>3, <1>5
  <2> HIDE DEF j
  <2>5. /\ job' \in [JobSeq -> Job] /\ job'[s] = j
        /\ \A k \in JobSeq : k # s => job'[k] = job[k]
    BY <2>1, <2>3, <1>3
  <2> QED BY <2>1, <2>3, <2>4, <2>5, <1>2
<1>8. CASE RunSend(s)
  <2>1. PICK f \in Layouts \cup Plain :
          \/ f.fits /\ job' = [Written(s) EXCEPT ![s] = [Sent(@) EXCEPT !.past = f.list = "past"]]
          \/ job' = [Written(s) EXCEPT ![s] = RunFails(@)]
    BY <1>8 DEF RunSend
  <2>0. UNCHANGED ctx
    BY <1>8 DEF RunSend
  <2>2. /\ Written(s) \in [JobSeq -> Job] /\ Written(s)[s] = job[s]
        /\ \A k \in JobSeq : \/ Written(s)[k] = job[k]
                             \/ /\ Written(s)[k] = [job[k] EXCEPT !.lost = TRUE]
                                /\ job[k].at = "fw" /\ get_job_idx(k) = get_job_idx(s)
    <3>1. \A k \in JobSeq : [job[k] EXCEPT !.lost = TRUE] \in Job
      BY <1>3 DEF Job
    <3> QED BY <3>1, <1>2, <1>3 DEF Written
  <2>3. \A k \in JobSeq : k # s =>
           /\ Written(s)[k].at = job[k].at /\ Written(s)[k].op = job[k].op
           /\ Written(s)[k].ref = job[k].ref
           /\ Written(s)[k].done = job[k].done /\ Written(s)[k].err = job[k].err
           /\ Written(s)[k].cmd = job[k].cmd /\ Written(s)[k].past = job[k].past
           /\ \/ Written(s)[k].lost = job[k].lost
              \/ job[k].at = "fw" /\ get_job_idx(k) = get_job_idx(s)
    BY <2>2, <1>3 DEF Job
  <2> HIDE DEF Written
  <2>4. CASE f.fits /\ job' = [Written(s) EXCEPT ![s] = [Sent(@) EXCEPT !.past = f.list = "past"]]
    <3> DEFINE j == [Sent(job[s]) EXCEPT !.past = f.list = "past"]
    <3>1. Sent(job[s]) \in Job /\ Sent(job[s]).at = "fw" /\ Sent(job[s]).ref = job[s].ref + 1
          /\ Sent(job[s]).op = job[s].op /\ Sent(job[s]).done = job[s].done
          /\ Sent(job[s]).lost = job[s].lost
      <4>1. Sent(job[s]).at = "fw" /\ Sent(job[s]).ref = job[s].ref + 1
            /\ Sent(job[s]).op = job[s].op /\ Sent(job[s]).done = job[s].done
            /\ Sent(job[s]).lost = job[s].lost
        BY <1>3 DEF Sent, Job
      <4>2. job[s].ref + 1 \in 0..3 /\ "fw" \in Place
        BY <1>5 DEF Place
      <4>3. Sent(job[s]) \in Job
        BY <1>3, <4>2 DEF Sent, Job
      <4> QED BY <4>1, <4>3
    <3>2. j \in Job /\ j.at = "fw" /\ j.ref = job[s].ref + 1 /\ j.op = job[s].op
          /\ j.done = job[s].done /\ j.lost = job[s].lost /\ j.past = (f.list = "past")
      BY <3>1 DEF Job
    <3>3. job' = [Written(s) EXCEPT ![s] = j]
      BY <2>2, <2>4
    <3> HIDE DEF j
    <3>4. /\ job' \in [JobSeq -> Job] /\ job'[s] = j
          /\ \A k \in JobSeq : k # s => job'[k] = Written(s)[k]
      BY <2>2, <3>2, <3>3
    <3> QED BY <2>0, <2>3, <2>4, <3>2, <3>4, <1>2
  <2>5. CASE job' = [Written(s) EXCEPT ![s] = RunFails(@)]
    <3>1. /\ RunFails(job[s]) \in Job /\ RunFails(job[s]).at = "finished" /\ RunFails(job[s]).err
          /\ RunFails(job[s]).ref = job[s].ref /\ RunFails(job[s]).done = job[s].done
          /\ RunFails(job[s]).op = job[s].op
      BY <1>3 DEF RunFails, Job, Place
    <3>2. /\ job' \in [JobSeq -> Job] /\ job'[s] = RunFails(job[s])
          /\ \A k \in JobSeq : k # s => job'[k] = Written(s)[k]
      BY <2>2, <2>5, <3>1
    <3> QED BY <2>0, <2>3, <3>1, <3>2, <1>2
  <2> QED BY <2>1, <2>4, <2>5
<1> QED BY <1>6, <1>7, <1>8 DEF RunJob

(* A job runs.                                                             *)
LEMMA RunJobKeepsInv ==
    ASSUME JobsInv, NEW s \in JobSeq, RunJob(s)
    PROVE  JobsInv'
<1> USE CmdAssumption
<1>0. ctx \in Context
  BY DEF JobsInv, TypeOK
<1>1. /\ job[s].at = "queued" /\ ~job[s].done
      /\ \A k \in 0..(s - 1) : job[k].at # "queued"
      /\ job' \in [JobSeq -> Job]
      /\ \A k \in JobSeq : k # s =>
            /\ job'[k].at = job[k].at /\ job'[k].op = job[k].op /\ job'[k].ref = job[k].ref
            /\ job'[k].done = job[k].done
            /\ job[k].at = "queued" => job'[k].lost = job[k].lost
      /\ job'[s].op = job[s].op
  BY RunJobIs
<1>2. UNCHANGED <<stop, hung, thrVars, oops>>
  BY DEF RunJob
<1>3. job[s].ref = 1 + One(Putting(s) # {})
  BY <1>1 DEF JobsInv, JobRefsExact, One
<1>4. job'[s].at \in {"fw", "finished"} /\ job[s].ref # 0
  BY <1>3, RunJobIs DEF One
<1>5. job'[s].ref = One(job'[s].at # "freed") + One(job'[s].at = "fw") + One(Putting(s) # {})
  <2>1. \/ job'[s].at = "fw" /\ job'[s].ref = job[s].ref + 1
        \/ job'[s].at = "finished" /\ job'[s].ref = job[s].ref
    BY RunJobIs
  <2> QED BY <2>1, <1>3 DEF One
<1>6. job'[s].ref # 0
  BY <1>4, <1>5 DEF One
<1>7. s \in Holding /\ (s \in Holding' <=> job'[s].at = "fw" \/ ~job'[s].done)
  BY <1>1, <1>4 DEF Holding
<1>8. /\ ctx' \in Context /\ ctx'.state = ctx.state /\ ctx'.connected = ctx.connected
      /\ ctx'.submitted = ctx.submitted /\ ctx'.free_cnt = ctx.free_cnt
      /\ ctx'.sem = IF s \in Holding' THEN ctx.sem ELSE ctx.sem + 1
      /\ job'[s].at = "finished" /\ job'[s].done => job'[s].op = "noop"
      /\ job'[s].at = "fw" => ~job'[s].done
  <2>1. CASE UNCHANGED ctx /\ ~job'[s].done
    BY <2>1, <1>0, <1>7
  <2>2. CASE /\ job'[s].at = "finished" /\ job'[s].done /\ job[s].op = "noop"
             /\ \E j \in Job : j.ref # 0 /\ ctx' = FreeCnt(UpSem(ctx), j)
    <3>1. PICK j \in Job : j.ref # 0 /\ ctx' = FreeCnt(UpSem(ctx), j)
      BY <2>2
    <3>2. PICK c \in Context : c = UpSem(ctx)
      BY <1>0, UpSemIs
    <3>3. /\ c.sem = ctx.sem + 1 /\ c.state = ctx.state /\ c.connected = ctx.connected
          /\ c.submitted = ctx.submitted /\ c.free_cnt = ctx.free_cnt
      BY <3>2, <1>0, UpSemIs
    <3>4. /\ ctx' \in Context /\ ctx'.sem = c.sem /\ ctx'.state = c.state
          /\ ctx'.connected = c.connected /\ ctx'.submitted = c.submitted
          /\ ctx'.free_cnt = c.free_cnt
      BY <3>1, <3>2, FreeCntIs
    <3> QED BY <3>3, <3>4, <2>2, <1>1, <1>7
  <2> QED BY <2>1, <2>2, RunJobIs
<1>9. ctx'.sem + One(s \in Holding') = ctx.sem + One(s \in Holding)
  BY <1>0, <1>7, <1>8 DEF One, Context
<1> QED BY <1>1, <1>2, <1>4, <1>5, <1>6, <1>8, <1>9, JobMovesKeepsInv
-----------------------------------------------------------------------------
(* Steps of threads that touch no job and no count: they wait, give up, go *)
(* on to submit, begin to create or to destroy.                            *)
LEMMA ThreadStepKeepsBooks ==
    ASSUME JobsInv, UNCHANGED <<job, stop>>, ctx' \in Context,
           ctx'.connected = ctx.connected, ctx'.submitted = ctx.submitted,
           ctx'.free_cnt = ctx.free_cnt, ctx'.sem = ctx.sem,
           \A t \in Thread : \A p \in {"enter", "arm"} : pc'[t] = p <=> pc[t] = p,
           \A t \in Thread : pc'[t] = "put" <=> pc[t] = "put",
           \A t \in Thread : pc[t] = "put" => arg'[t] = arg[t]
    PROVE  JobRefsExact' /\ SemExact' /\ JobsPlaced'
<1>1. /\ \A k \in JobSeq : Putting(k)' = Putting(k)
      /\ Entering' = Entering /\ NoReader' = NoReader /\ Gone' = Gone /\ Holding' = Holding
  BY DEF Putting, Entering, NoReader, Gone, Holding
<1>2. JobRefsExact'
  BY <1>1 DEF JobsInv, JobRefsExact
<1>3. SemExact'
  BY <1>1 DEF JobsInv, SemExact
<1>4. JobsPlaced'
  BY <1>1 DEF JobsInv, JobsPlaced
<1> QED BY <1>2, <1>3, <1>4

(* What a thread's step does to its place, its job and its fence.          *)
LEMMA GotoIs ==
    ASSUME TypeOK, NEW t \in Thread, NEW p, Goto(t, p)
    PROVE  /\ pc'[t] = p /\ \A u \in Thread : u # t => pc'[u] = pc[u]
           /\ UNCHANGED <<arg, on>>
           /\ p \in {"idle", "create", "sync", "fini", "sem", "enter", "arm", "put", "wait"} =>
                 pc' \in [Thread -> {"idle", "create", "sync", "fini", "sem", "enter", "arm",
                                     "put", "wait"}]
BY DEF TypeOK, Goto

(* An ioctl returns.                                                       *)
LEMMA ReturnsIs ==
    ASSUME TypeOK, NEW t \in Thread, Returns(t)
    PROVE  /\ pc'[t] = "idle"
           /\ \A u \in Thread : u # t => pc'[u] = pc[u] /\ arg'[u] = arg[u] /\ on'[u] = on[u]
           /\ pc' \in [Thread -> {"idle", "create", "sync", "fini", "sem", "enter", "arm",
                                  "put", "wait"}]
           /\ arg' \in [Thread -> JobSeq \cup {NoJob}] /\ on' \in [Thread -> JobSeq \cup {NoJob}]
BY DEF TypeOK, Returns

(* aie2_cmd_get_out_fence(): what a wait is for.                           *)
LEMMA OutFenceIs ==
    ASSUME JobsInv, NEW s \in JobSeq, s <= Point
    PROVE  \/ /\ OutFence(s) = NoJob /\ s < Point /\ Signalled(s)
           \/ /\ OutFence(s) \in JobSeq
              /\ s = 0 \/ (OutFence(s) <= s /\ \A k \in (OutFence(s) + 1)..s : Signalled(k))
<1> USE CmdAssumption
<1>0. s \in Nat /\ s <= MaxSeq - 1 /\ ctx.submitted \in 0..MaxSeq
  BY DEF JobSeq, JobsInv, TypeOK, Context
<1>1. Point \in JobSeq /\ Point \in Nat /\ ~(s > Point)
  BY <1>0 DEF Point, JobSeq
<1> DEFINE open == {k \in 0..s : ~Signalled(k)}
<1>2. CASE s \in {0, Point}
  <2>1. OutFence(s) = Point
    BY <1>1, <1>2 DEF OutFence
  <2> QED BY <2>1, <1>0, <1>1, <1>2
<1>3. CASE s \notin {0, Point} /\ open = {}
  <2>1. OutFence(s) = NoJob
    BY <1>1, <1>3 DEF OutFence
  <2>2. Signalled(s)
    BY <1>0, <1>3
  <2>3. s < Point
    BY <1>0, <1>1, <1>3
  <2> QED BY <2>1, <2>2, <2>3
<1>4. CASE s \notin {0, Point} /\ open # {}
  <2>1. OutFence(s) = Max(open)
    BY <1>1, <1>4 DEF OutFence
  <2>2. \E x \in open : \A y \in open : y <= x
    <3> DEFINE up == {k + 1 : k \in open}
    <3>1. up \in SUBSET (1..(s + 1)) /\ up # {} /\ s + 1 \in Nat
      BY <1>0, <1>4
    <3> HIDE DEF up
    <3>2. PICK x \in up : \A y \in up : y <= x
      BY <3>1, BoundedHasMax
    <3>3. PICK m \in open : x = m + 1
      BY <3>2 DEF up
    <3>4. ASSUME NEW y \in open
          PROVE  y <= m
      <4>1. y + 1 \in up
        BY DEF up
      <4>2. y + 1 <= m + 1
        BY <3>2, <3>3, <4>1
      <4>3. y \in Nat /\ m \in Nat
        BY <1>0
      <4> QED BY <4>2, <4>3
    <3> QED BY <3>4
  <2>3. Max(open) \in open /\ \A y \in open : y <= Max(open)
    BY <2>2 DEF Max
  <2>4. PICK m \in 0..s : m = Max(open)
    BY <2>3
  <2>5. \A k \in (m + 1)..s : k \in 0..s /\ ~(k <= m)
    BY <2>4, <1>0
  <2>6. \A k \in (m + 1)..s : Signalled(k)
    BY <2>3, <2>4, <2>5
  <2>7. m \in JobSeq
    BY <2>4, <1>0 DEF JobSeq
  <2> QED BY <2>1, <2>4, <2>6, <2>7
<1> QED BY <1>2, <1>3, <1>4
-----------------------------------------------------------------------------
(* A step of a thread that leaves the jobs alone keeps the books when what *)
(* it takes from job_sem is what it carries on its way.                    *)
LEMMA EnterKeepsBooks ==
    ASSUME JobsInv, UNCHANGED <<job, stop>>,
           ctx'.submitted = ctx.submitted, ctx'.free_cnt = ctx.free_cnt,
           \A u \in Thread : pc'[u] = "put" <=> pc[u] = "put",
           \A u \in Thread : pc[u] = "put" => arg'[u] = arg[u],
           stop # "no" => NoReader' /\ ctx'.connected,
           ~ctx'.connected => NoReader' /\ ~ctx.connected,
           ctx'.sem + Cardinality(Entering') = ctx.sem + Cardinality(Entering)
    PROVE  JobRefsExact' /\ SemExact' /\ JobsPlaced'
<1>1. /\ \A k \in JobSeq : Putting(k)' = Putting(k)
      /\ Gone' = Gone /\ Holding' = Holding
  BY DEF Putting, Gone, Holding
<1>2. JobRefsExact'
  BY <1>1 DEF JobsInv, JobRefsExact
<1>3. SemExact'
  BY <1>1 DEF JobsInv, SemExact
<1>4. JobsPlaced'
  BY <1>1 DEF JobsInv, JobsPlaced
<1> QED BY <1>2, <1>3, <1>4

(* A thread goes on in a context that it uses, or begins to use one that   *)
(* is ready: creators and destroyers do not notice.                        *)
LEMMA UserKeepsThreads ==
    ASSUME JobsInv, NEW t \in Thread, ctx' \in Context, ctx'.state = ctx.state, stop' = stop,
           \A u \in Thread : u # t => pc'[u] = pc[u] /\ arg'[u] = arg[u] /\ on'[u] = on[u],
           \A k \in JobSeq : Signalled(k) => Signalled(k)',
           ctx'.submitted >= ctx.submitted,
           t \notin Inside => /\ pc'[t] = "idle" \/ ctx.state = "ready"
                              /\ ctx'.submitted = ctx.submitted
                              /\ ctx'.connected = ctx.connected /\ job' = job,
           pc'[t] \in {"idle", "sem", "enter", "arm", "put", "wait"},
           pc'[t] = "put" => arg'[t] \in 0..Point',
           pc'[t] = "wait" =>
              /\ on'[t] \in JobSeq /\ arg'[t] \in JobSeq
              /\ arg'[t] = 0 \/ (/\ on'[t] <= arg'[t]
                                  /\ \A k \in (on'[t] + 1)..arg'[t] : Signalled(k)')
    PROVE  ThreadsSound' /\ GoneIsQuiet'
<1> USE CmdAssumption
<1>0. /\ ctx.submitted \in Nat /\ ctx'.submitted \in Nat /\ Point \in Int /\ Point' \in Int
      /\ Point <= Point'
  BY DEF JobsInv, TypeOK, Context, Point
<1>1. t \in Inside => /\ ctx.state \notin {"none", "published", "gone"}
                      /\ \A u \in Thread : pc[u] # "fini"
  BY DEF JobsInv, ThreadsSound
<1>2. ctx.state = "ready" => \A u \in Thread : pc[u] # "fini"
  BY DEF JobsInv, ThreadsSound
<1>3. (\E u \in Thread : pc[u] = "fini") \/ ctx.state \in {"none", "published", "gone"} =>
         Inside' = {}
  <2>1. SUFFICES ASSUME (\E u \in Thread : pc[u] = "fini")
                        \/ ctx.state \in {"none", "published", "gone"}
                 PROVE  Inside' = {}
    OBVIOUS
  <2>2. Inside = {} /\ t \notin Inside /\ ctx.state # "ready"
    BY <2>1, <1>2 DEF JobsInv, ThreadsSound
  <2>3. pc'[t] = "idle"
    BY <2>2
  <2> QED BY <2>2, <2>3 DEF Inside
<1>4. ASSUME NEW u \in Thread
      PROVE  /\ pc'[u] = "create" => ctx'.state = "published"
             /\ pc'[u] \in {"sync", "fini"} => ctx'.state = "erased"
             /\ pc'[u] = "fini" => Inside' = {}
             /\ pc'[u] = "put" => arg'[u] \in 0..Point'
  <2>1. CASE u = t
    BY <2>1
  <2>2. CASE u # t
    <3>1. /\ pc[u] = "create" => ctx.state = "published"
          /\ pc[u] \in {"sync", "fini"} => ctx.state = "erased"
          /\ pc[u] = "put" => arg[u] \in 0..Point
      BY DEF JobsInv, ThreadsSound
    <3>2. pc'[u] = pc[u] /\ arg'[u] = arg[u]
      BY <2>2
    <3>3. pc[u] = "put" => arg[u] \in 0..Point'
      BY <3>1, <1>0
    <3> QED BY <3>1, <3>2, <3>3, <1>3
  <2> QED BY <2>1, <2>2
<1>5. ASSUME NEW u \in Thread, pc'[u] = "wait"
      PROVE  /\ on'[u] \in JobSeq /\ arg'[u] \in JobSeq
             /\ arg'[u] = 0 \/ (on'[u] <= arg'[u] /\ \A k \in (on'[u] + 1)..arg'[u] : Signalled(k)')
  <2>1. CASE u = t
    BY <1>5, <2>1
  <2>2. CASE u # t
    <3>0. pc[u] = "wait" /\ arg'[u] = arg[u] /\ on'[u] = on[u]
      BY <1>5, <2>2
    <3>1. /\ on[u] \in JobSeq /\ arg[u] \in JobSeq
          /\ arg[u] = 0 \/ (on[u] <= arg[u] /\ \A k \in (on[u] + 1)..arg[u] : Signalled(k))
      BY <3>0 DEF JobsInv, ThreadsSound
    <3>2. \A k \in (on[u] + 1)..arg[u] : k \in JobSeq
      BY <3>1 DEF JobSeq
    <3> QED BY <3>0, <3>1, <3>2
  <2> QED BY <2>1, <2>2
<1>6. /\ \A u, v \in Thread : pc'[u] = "create" /\ pc'[v] = "create" => u = v
      /\ \A u, v \in Thread : {pc'[u], pc'[v]} \subseteq {"sync", "fini"} => u = v
  <2>1. \A u \in Thread : pc'[u] \in {"create", "sync", "fini"} => pc[u] = pc'[u]
    OBVIOUS
  <2> QED BY <2>1 DEF JobsInv, ThreadsSound
<1>7. /\ ctx.state \in {"none", "published", "gone"} => Inside' = {} /\ ~ctx'.connected
      /\ ctx.state \in {"none", "published"} => ctx'.submitted = 0
  BY <1>1, <1>3 DEF JobsInv, ThreadsSound
<1>8. ThreadsSound'
  BY <1>4, <1>5, <1>6, <1>7 DEF ThreadsSound
<1>9. GoneIsQuiet'
  BY <1>1, <1>3 DEF JobsInv, GoneIsQuiet
<1> QED BY <1>8, <1>9

(* Submitters up to the job, and waiters.                                  *)
LEMMA UserKeepsInv ==
    ASSUME JobsInv, NEW t \in Thread,
           \/ Submit(t) \/ DownSem(t) \/ RqEnter(t) \/ ArmFails(t) \/ WaitEnds(t) \/ GivesUp(t)
    PROVE  JobsInv'
<1> USE CmdAssumption
<1>0. TypeOK /\ ctx \in Context /\ IsFiniteSet(Entering) /\ Cardinality(Entering) \in Nat
      /\ UNCHANGED <<job, stop, hung, oops>>
  BY CountedFinite DEF JobsInv, TypeOK, Submit, DownSem, RqEnter, ArmFails, WaitEnds, GivesUp
<1>1. Goto(t, "sem") \/ Goto(t, "enter") \/ Goto(t, "arm") \/ Returns(t)
  BY DEF Submit, DownSem, RqEnter, ArmFails, WaitEnds, GivesUp
<1>2. /\ pc'[t] \in {"idle", "sem", "enter", "arm"}
      /\ \A u \in Thread : u # t => pc'[u] = pc[u] /\ arg'[u] = arg[u] /\ on'[u] = on[u]
      /\ pc' \in [Thread -> {"idle", "create", "sync", "fini", "sem", "enter", "arm",
                             "put", "wait"}]
      /\ arg' \in [Thread -> JobSeq \cup {NoJob}] /\ on' \in [Thread -> JobSeq \cup {NoJob}]
  BY <1>0, <1>1, GotoIs, ReturnsIs DEF TypeOK
<1>3. pc[t] # "put" /\ (t \in Inside \/ ctx.state = "ready")
  BY DEF Submit, MayUse, DownSem, RqEnter, ArmFails, WaitEnds, GivesUp, Inside
<1>4. /\ ctx' \in Context /\ ctx'.state = ctx.state /\ ctx'.submitted = ctx.submitted
      /\ ctx'.free_cnt = ctx.free_cnt
      /\ ctx'.connected = ctx.connected \/ (ctx'.connected /\ stop = "no" /\ t \in Inside)
  <2>1. CASE Submit(t) \/ WaitEnds(t) \/ GivesUp(t)
    BY <2>1, <1>0 DEF Submit, WaitEnds, GivesUp
  <2>2. CASE DownSem(t)
    BY <2>2, <1>0 DEF DownSem, Context
  <2>3. CASE ArmFails(t) \/ (RqEnter(t) /\ ctx' = UpSem(ctx))
    BY <2>3, <1>0, UpSemIs DEF ArmFails, RqEnter
  <2>4. CASE RqEnter(t) /\ ctx' = [ctx EXCEPT !.connected = TRUE]
    BY <2>4, <1>0 DEF RqEnter, Context, Inside
  <2> QED BY <2>1, <2>2, <2>3, <2>4 DEF RqEnter
<1>5. ctx'.sem + Cardinality(Entering') = ctx.sem + Cardinality(Entering)
  <2>1. CASE Submit(t) \/ WaitEnds(t) \/ GivesUp(t)
    <3>1. pc[t] \notin {"enter", "arm"} /\ pc'[t] \notin {"enter", "arm"} /\ ctx' = ctx
      BY <2>1, <1>0, GotoIs, ReturnsIs DEF Submit, MayUse, WaitEnds, GivesUp
    <3>2. Entering' = Entering
      BY <3>1, <1>2 DEF Entering
    <3> QED BY <3>1, <3>2
  <2>2. CASE DownSem(t)
    <3>1. pc[t] = "sem" /\ pc'[t] = "enter" /\ ctx'.sem = ctx.sem - 1
      BY <2>2, <1>0, GotoIs DEF DownSem, Context
    <3>2. Entering' = Entering \cup {t} /\ t \notin Entering
      BY <3>1, <1>2 DEF Entering
    <3>3. Cardinality(Entering') = Cardinality(Entering) + 1
      BY <3>2, <1>0, CardAdd
    <3> QED BY <3>1, <3>3, <1>0 DEF Context
  <2>3. CASE ArmFails(t) \/ (RqEnter(t) /\ ctx' = UpSem(ctx) /\ Returns(t))
    <3>1. pc[t] \in {"enter", "arm"} /\ pc'[t] = "idle" /\ ctx'.sem = ctx.sem + 1
      BY <2>3, <1>0, ReturnsIs, UpSemIs DEF ArmFails, RqEnter
    <3>2. Entering' = Entering \ {t} /\ t \in Entering
      BY <3>1, <1>2 DEF Entering
    <3>3. Cardinality(Entering') = Cardinality(Entering) - 1
      BY <3>2, <1>0, CardRemove
    <3> QED BY <3>1, <3>3, <1>0 DEF Context
  <2>4. CASE RqEnter(t) /\ ctx' = [ctx EXCEPT !.connected = TRUE] /\ Goto(t, "arm")
    <3>1. pc[t] = "enter" /\ pc'[t] = "arm" /\ ctx'.sem = ctx.sem
      BY <2>4, <1>0, GotoIs DEF RqEnter, Context
    <3>2. Entering' = Entering
      BY <3>1, <1>2 DEF Entering
    <3> QED BY <3>1, <3>2
  <2> QED BY <2>1, <2>2, <2>3, <2>4 DEF RqEnter
<1>6. pc'[t] = "arm" => ctx'.connected /\ stop = "no"
  <2>1. CASE RqEnter(t) /\ ctx' = [ctx EXCEPT !.connected = TRUE]
    BY <2>1, <1>0 DEF RqEnter, Context
  <2>2. CASE ~(RqEnter(t) /\ ctx' = [ctx EXCEPT !.connected = TRUE])
    <3>1. Goto(t, "sem") \/ Goto(t, "enter") \/ Returns(t)
      BY <2>2 DEF Submit, DownSem, RqEnter, ArmFails, WaitEnds, GivesUp
    <3>2. pc'[t] # "arm"
      BY <3>1, <1>0, GotoIs, ReturnsIs
    <3> QED BY <3>2
  <2> QED BY <2>1, <2>2
<1>7. /\ stop # "no" => NoReader' /\ ctx'.connected
      /\ ~ctx'.connected => NoReader' /\ ~ctx.connected
  <2>1. /\ stop # "no" => NoReader /\ ctx.connected
        /\ ~ctx.connected => NoReader
    BY DEF JobsInv, JobsPlaced
  <2>2. NoReader /\ pc'[t] # "arm" => NoReader'
    BY <1>2 DEF NoReader
  <2> QED BY <2>1, <2>2, <1>4, <1>6
<1>8. JobRefsExact' /\ SemExact' /\ JobsPlaced'
  <2>1. \A u \in Thread : /\ pc'[u] = "put" <=> pc[u] = "put"
                          /\ pc[u] = "put" => arg'[u] = arg[u]
    BY <1>2, <1>3
  <2> QED BY <2>1, <1>0, <1>4, <1>5, <1>7, EnterKeepsBooks
<1>9. ThreadsSound' /\ GoneIsQuiet'
  <2>1. \A k \in JobSeq : Signalled(k) => Signalled(k)'
    BY <1>0 DEF Signalled
  <2>2. ctx'.submitted >= ctx.submitted
    BY <1>4, <1>0 DEF Context
  <2>3. t \notin Inside => /\ pc'[t] = "idle" \/ ctx.state = "ready"
                           /\ ctx'.submitted = ctx.submitted
                           /\ ctx'.connected = ctx.connected /\ job' = job
    BY <1>0, <1>3, <1>4
  <2>4. pc'[t] \in {"idle", "sem", "enter", "arm"} /\ pc'[t] # "put" /\ pc'[t] # "wait"
    BY <1>2
  <2> QED BY <2>1, <2>2, <2>3, <2>4, <1>0, <1>2, <1>4, UserKeepsThreads
<1>10. TypeOK'
  BY <1>0, <1>2, <1>4 DEF TypeOK
<1> QED BY <1>8, <1>9, <1>10 DEF JobsInv

(* aie2_cmd_submit() arms its job and pushes it.                           *)
LEMMA ArmKeepsInv ==
    ASSUME JobsInv, NEW t \in Thread, NEW op \in Ops, Arm(t, op)
    PROVE  /\ JobsInv'
           /\ \A k \in JobSeq : job'[k] = job[k] \/ (job[k].at = "none" /\ job'[k].at = "queued")
<1> USE CmdAssumption
<1>0. TypeOK /\ ctx \in Context /\ ctx.submitted \in Nat /\ ctx.sem \in Nat
  BY DEF JobsInv, TypeOK, Context
<1>1. PICK s \in JobSeq : s = ctx.submitted
  BY DEF Arm
<1> DEFINE j == [NoneJob EXCEPT !.op = op, !.at = "queued", !.ref = 2]
<1>2. j \in Job /\ j.at = "queued" /\ j.ref = 2 /\ ~j.done /\ ~j.lost
  <2>1. op \in Op \cup {"none", "other"} /\ "queued" \in Place /\ 2 \in 0..3
    BY DEF Place
  <2>2. j \in Job
    BY <2>1, NoneJobIs DEF Job
  <2>3. j.at = "queued" /\ j.ref = 2 /\ ~j.done /\ ~j.lost
    BY DEF NoneJob
  <2> QED BY <2>2, <2>3
<1>3. /\ job' = [job EXCEPT ![s] = j] /\ UNCHANGED <<stop, hung, on, oops>>
      /\ ctx' = [ctx EXCEPT !.submitted = @ + 1] /\ pc[t] = "arm"
      /\ pc' = [pc EXCEPT ![t] = "put"] /\ arg' = [arg EXCEPT ![t] = s]
  BY <1>1 DEF Arm
<1> HIDE DEF j
<1>4. /\ job' \in [JobSeq -> Job] /\ job'[s] = j
      /\ \A k \in JobSeq : k # s => job'[k] = job[k]
  BY <1>0, <1>2, <1>3 DEF TypeOK
<1>5. /\ ctx'.submitted = s + 1 /\ ctx'.state = ctx.state /\ ctx'.connected = ctx.connected
      /\ ctx'.free_cnt = ctx.free_cnt /\ ctx'.sem = ctx.sem
  BY <1>0, <1>1, <1>3 DEF Context
<1>6. ctx' \in Context
  <2>1. s + 1 \in 0..MaxSeq
    BY <1>1 DEF JobSeq
  <2> QED BY <1>0, <1>1, <1>3, <2>1 DEF Context
<1>7. /\ pc'[t] = "put" /\ arg'[t] = s
      /\ \A u \in Thread : u # t => pc'[u] = pc[u] /\ arg'[u] = arg[u] /\ on'[u] = on[u]
      /\ pc' \in [Thread -> {"idle", "create", "sync", "fini", "sem", "enter", "arm",
                             "put", "wait"}]
      /\ arg' \in [Thread -> JobSeq \cup {NoJob}]
  BY <1>0, <1>3 DEF TypeOK
<1>8. TypeOK'
  BY <1>0, <1>3, <1>4, <1>6, <1>7 DEF TypeOK
<1>9. job[s].at = "none" /\ ctx.connected /\ stop = "no"
  BY <1>0, <1>1, <1>3 DEF JobsInv, JobsPlaced, NoReader, JobSeq
<1>10. Putting(s) = {} /\ Putting(s)' = {t}
       /\ \A k \in JobSeq : k # s => Putting(k)' = Putting(k)
  <2>1. \A u \in Thread : ~(pc[u] = "put" /\ arg[u] = s)
    BY <1>0, <1>1 DEF JobsInv, ThreadsSound, Point
  <2>2. \A k \in JobSeq : \A u \in Thread :
          (pc'[u] = "put" /\ arg'[u] = k) <=> (pc[u] = "put" /\ arg[u] = k) \/ (u = t /\ k = s)
    BY <1>3, <1>7
  <2> QED BY <2>1, <2>2 DEF Putting
<1>11. JobRefsExact'
  <2>1. ASSUME NEW k \in JobSeq
        PROVE  job'[k].ref = One(job'[k].at \notin {"none", "freed"})
                             + One(job'[k].at = "fw") + One(Putting(k)' # {})
    <3>1. CASE k = s
      BY <3>1, <1>2, <1>4, <1>10 DEF One
    <3>2. CASE k # s
      <4>1. job[k].ref = One(job[k].at \notin {"none", "freed"})
                             + One(job[k].at = "fw") + One(Putting(k) # {})
        BY DEF JobsInv, JobRefsExact
      <4> QED BY <3>2, <4>1, <1>4, <1>10
    <3> QED BY <3>1, <3>2
  <2>2. ASSUME NEW k \in JobSeq
        PROVE  \A u, v \in Putting(k)' : u = v
    <3>1. CASE k = s
      BY <3>1, <1>10
    <3>2. CASE k # s
      BY <3>2, <1>10 DEF JobsInv, JobRefsExact
    <3> QED BY <3>1, <3>2
  <2>3. Gone' = Gone
    <3>1. \A k \in JobSeq : k \in Gone' <=> k \in Gone
      BY <1>2, <1>4, <1>9 DEF Gone
    <3> QED BY <3>1 DEF Gone
  <2>4. ctx'.free_cnt = Cardinality(Gone')
    BY <2>3, <1>5 DEF JobsInv, JobRefsExact
  <2> QED BY <2>1, <2>2, <2>4 DEF JobRefsExact
<1>12. SemExact'
  <2>1. Entering' = Entering \ {t} /\ t \in Entering
    BY <1>3, <1>7 DEF Entering
  <2>2. Holding' = Holding \cup {s} /\ s \notin Holding
    BY <1>2, <1>4, <1>9 DEF Holding
  <2>3. /\ Cardinality(Entering') = Cardinality(Entering) - 1
        /\ Cardinality(Entering) \in Nat /\ Cardinality(Holding) \in Nat
    BY <2>1, CardRemove, CountedFinite
  <2>4. Cardinality(Holding') = Cardinality(Holding) + 1
    BY <2>2, CardAdd, CountedFinite
  <2> QED BY <2>3, <2>4, <1>0, <1>5 DEF JobsInv, SemExact
<1>13. ThreadsSound' /\ GoneIsQuiet'
  <2>1. \A k \in JobSeq : Signalled(k) => Signalled(k)'
    BY <1>4, <1>9 DEF Signalled
  <2>2. ctx'.submitted >= ctx.submitted /\ s \in 0..Point'
    BY <1>0, <1>1, <1>5 DEF Point, JobSeq
  <2>3. t \in Inside /\ stop' = stop
    BY <1>3 DEF Inside
  <2> QED BY <2>1, <2>2, <2>3, <1>5, <1>6, <1>7, UserKeepsThreads
<1>14. JobsPlaced'
  <2>1. ASSUME NEW k \in JobSeq
        PROVE  /\ job'[k].at = "none" <=> k >= ctx'.submitted
               /\ job'[k].at \in {"queued", "fw", "killed"} => ~job'[k].done
               /\ job'[k].at = "queued" => stop = "no" /\ ~job'[k].lost
               /\ job'[k].at = "killed" => stop # "no"
    <3>1. CASE k = s
      BY <3>1, <1>0, <1>1, <1>2, <1>4, <1>5, <1>9
    <3>2. CASE k # s
      <4>1. k >= ctx'.submitted <=> k >= ctx.submitted
        BY <3>2, <1>1, <1>5 DEF JobSeq
      <4>2. /\ job[k].at = "none" <=> k >= ctx.submitted
            /\ job[k].at \in {"queued", "fw", "killed"} => ~job[k].done
            /\ job[k].at = "queued" => stop = "no" /\ ~job[k].lost
            /\ job[k].at = "killed" => stop # "no"
        BY DEF JobsInv, JobsPlaced
      <4> QED BY <3>2, <4>1, <4>2, <1>4
    <3> QED BY <3>1, <3>2
  <2>2. ASSUME NEW a \in JobSeq, NEW k \in (a + 1)..(MaxSeq - 1)
        PROVE  /\ job'[a].at = "queued" => job'[k].at \in {"none", "queued"}
               /\ job'[a].at = "fw" =>
                     /\ job'[k].at # "freed"
                     /\ job'[k].at = "finished" /\ job'[k].done => job'[k].op = "noop"
    <3>0. /\ k \in JobSeq /\ k # a /\ (a = s => k > ctx.submitted)
          /\ job[a].at = "queued" => job[k].at \in {"none", "queued"}
          /\ job[a].at = "fw" =>
                /\ job[k].at # "freed"
                /\ job[k].at = "finished" /\ job[k].done => job[k].op = "noop"
          /\ k > ctx.submitted => job[k].at = "none"
      BY <1>0, <1>1 DEF JobSeq, JobsInv, JobsPlaced
    <3>1. CASE a = s
      BY <3>0, <3>1, <1>2, <1>4
    <3>2. CASE k = s
      BY <3>0, <3>2, <1>2, <1>4
    <3>3. CASE a # s /\ k # s
      BY <3>0, <3>3, <1>4
    <3> QED BY <3>1, <3>2, <3>3
  <2> QED BY <2>1, <2>2, <1>3, <1>5, <1>9 DEF JobsPlaced
<1>15. \A k \in JobSeq : job'[k] = job[k] \/ (job[k].at = "none" /\ job'[k].at = "queued")
  BY <1>2, <1>4, <1>9
<1> QED BY <1>8, <1>11, <1>12, <1>13, <1>14, <1>15 DEF JobsInv

(* The submitter puts its reference: the job stays where it is.            *)
LEMMA PutJobKeepsInv ==
    ASSUME JobsInv, NEW t \in Thread, PutJob(t)
    PROVE  /\ JobsInv'
           /\ \A k \in JobSeq :
                 /\ job'[k].at = job[k].at /\ (job[k].op = "noop" => job'[k].op = "noop")
                 /\ job[k].at # "freed" =>
                       /\ job'[k].op = job[k].op /\ job'[k].err = job[k].err
                       /\ job'[k].cmd = job[k].cmd /\ job'[k].lost = job[k].lost
                       /\ job'[k].past = job[k].past
<1> USE CmdAssumption
<1>0. TypeOK /\ ctx \in Context /\ ctx.submitted \in 0..MaxSeq /\ ctx.sem \in Nat
      /\ ctx.free_cnt \in Nat
  BY DEF JobsInv, TypeOK, Context
<1>1. pc[t] = "put" /\ arg[t] \in 0..Point
  BY DEF PutJob, JobsInv, ThreadsSound
<1>2. PICK s \in JobSeq : s = arg[t] /\ s < ctx.submitted
  BY <1>0, <1>1 DEF Point, JobSeq
<1>3. t \in Putting(s) /\ \A u \in Putting(s) : u = t
  BY <1>1, <1>2 DEF Putting, JobsInv, JobRefsExact
<1>4. /\ job[s] \in Job /\ job[s].at # "none"
      /\ job[s].ref = One(job[s].at # "freed") + One(job[s].at = "fw") + 1
  <2>1. job[s] \in Job
    BY <1>0 DEF TypeOK
  <2>2. job[s].at # "none"
    BY <1>0, <1>2 DEF JobsInv, JobsPlaced, JobSeq
  <2>3. job[s].ref = One(job[s].at \notin {"none", "freed"})
                     + One(job[s].at = "fw") + One(Putting(s) # {})
    BY DEF JobsInv, JobRefsExact
  <2> QED BY <2>1, <2>2, <2>3, <1>3 DEF One
<1>5. job[s].ref # 0 /\ (job[s].ref = 1 <=> job[s].at = "freed")
  BY <1>4 DEF One
<1> DEFINE j == JobPut(job[s])
<1>6. /\ j \in Job /\ j.ref = job[s].ref - 1
      /\ job[s].op = "noop" => j.op = "noop"
      /\ j.ref # 0 => /\ j.at = job[s].at /\ j.op = job[s].op /\ j.done = job[s].done
                      /\ j.err = job[s].err
                      /\ j.cmd = job[s].cmd /\ j.lost = job[s].lost /\ j.past = job[s].past
      /\ j.ref = 0 => j.at = "freed"
  BY <1>4, <1>5, JobPutIs
<1>7. job' = [job EXCEPT ![s] = j] /\ ctx' = FreeCnt(ctx, j) /\ Returns(t)
      /\ UNCHANGED <<stop, hung, oops>>
  BY <1>2 DEF PutJob
<1> HIDE DEF j
<1>8. /\ j.at = job[s].at /\ (j.ref = 0 <=> job[s].at = "freed")
      /\ job[s].at # "freed" =>
            /\ j.op = job[s].op /\ j.done = job[s].done /\ j.err = job[s].err
            /\ j.cmd = job[s].cmd /\ j.lost = job[s].lost /\ j.past = job[s].past
  <2>1. j.ref = 0 <=> job[s].at = "freed"
    BY <1>4, <1>5, <1>6 DEF One
  <2> QED BY <2>1, <1>6
<1>9. /\ job' \in [JobSeq -> Job] /\ job'[s] = j
      /\ \A k \in JobSeq : k # s => job'[k] = job[k]
  BY <1>0, <1>6, <1>7 DEF TypeOK
<1>10. /\ ctx' \in Context /\ ctx'.sem = ctx.sem /\ ctx'.state = ctx.state
       /\ ctx'.connected = ctx.connected /\ ctx'.submitted = ctx.submitted
       /\ ctx'.free_cnt = IF j.ref = 0 THEN ctx.free_cnt + 1 ELSE ctx.free_cnt
  BY <1>0, <1>7, FreeCntIs
<1>11. /\ pc'[t] = "idle"
       /\ \A u \in Thread : u # t => pc'[u] = pc[u] /\ arg'[u] = arg[u] /\ on'[u] = on[u]
       /\ pc' \in [Thread -> {"idle", "create", "sync", "fini", "sem", "enter", "arm",
                              "put", "wait"}]
       /\ arg' \in [Thread -> JobSeq \cup {NoJob}] /\ on' \in [Thread -> JobSeq \cup {NoJob}]
  BY <1>0, <1>7, ReturnsIs
<1>12. TypeOK'
  BY <1>0, <1>7, <1>9, <1>10, <1>11 DEF TypeOK
<1>13. /\ \A k \in JobSeq : k # s => Putting(k)' = Putting(k)
       /\ Putting(s)' = {} /\ Entering' = Entering /\ NoReader' = NoReader
  <2>1. \A k \in JobSeq : k # s => Putting(k)' = Putting(k)
    BY <1>1, <1>2, <1>11 DEF Putting
  <2>2. Putting(s)' = {}
    BY <1>3, <1>11 DEF Putting
  <2> QED BY <2>1, <2>2, <1>1, <1>11 DEF Entering, NoReader
<1>14. JobRefsExact'
  <2>1. ASSUME NEW k \in JobSeq
        PROVE  job'[k].ref = One(job'[k].at \notin {"none", "freed"})
                             + One(job'[k].at = "fw") + One(Putting(k)' # {})
    <3>1. CASE k = s
      <4>1. j.ref = One(j.at # "freed") + One(j.at = "fw")
        BY <1>4, <1>6, <1>8 DEF One
      <4> QED BY <3>1, <4>1, <1>4, <1>8, <1>9, <1>13 DEF One
    <3>2. CASE k # s
      <4>1. job[k].ref = One(job[k].at \notin {"none", "freed"})
                             + One(job[k].at = "fw") + One(Putting(k) # {})
        BY DEF JobsInv, JobRefsExact
      <4> QED BY <3>2, <4>1, <1>9, <1>13
    <3> QED BY <3>1, <3>2
  <2>2. ASSUME NEW k \in JobSeq
        PROVE  \A u, v \in Putting(k)' : u = v
    <3>1. CASE k = s
      BY <3>1, <1>13
    <3>2. CASE k # s
      BY <3>2, <1>13 DEF JobsInv, JobRefsExact
    <3> QED BY <3>1, <3>2
  <2>3. ctx'.free_cnt = Cardinality(Gone')
    <3>0. s \notin Gone /\ ctx.free_cnt = Cardinality(Gone)
      BY <1>5 DEF Gone, JobsInv, JobRefsExact
    <3>1. CASE j.ref = 0
      <4>1. Gone' = Gone \cup {s}
        BY <3>1, <1>6, <1>9 DEF Gone
      <4>2. Cardinality(Gone') = Cardinality(Gone) + 1
        BY <4>1, <3>0, CardAdd, CountedFinite
      <4> QED BY <4>2, <3>0, <3>1, <1>10
    <3>2. CASE j.ref # 0
      <4>1. Gone' = Gone
        BY <3>0, <3>2, <1>9 DEF Gone
      <4> QED BY <4>1, <3>0, <3>2, <1>10
    <3> QED BY <3>1, <3>2
  <2> QED BY <2>1, <2>2, <2>3 DEF JobRefsExact
<1>15. SemExact'
  <2>1. Holding' = Holding
    <3>1. s \in Holding' <=> s \in Holding
      BY <1>8, <1>9 DEF Holding
    <3>2. \A k \in JobSeq : k # s => (k \in Holding' <=> k \in Holding)
      BY <1>9 DEF Holding
    <3>3. Holding' \subseteq JobSeq /\ Holding \subseteq JobSeq
      BY DEF Holding
    <3> QED BY <3>1, <3>2, <3>3
  <2> QED BY <2>1, <1>10, <1>13 DEF JobsInv, SemExact
<1>16. \A k \in JobSeq :
          /\ job'[k].at = job[k].at /\ (job[k].op = "noop" => job'[k].op = "noop")
          /\ job[k].at # "freed" =>
                /\ job'[k].op = job[k].op /\ job'[k].done = job[k].done
                /\ job'[k].err = job[k].err /\ job'[k].cmd = job[k].cmd
                /\ job'[k].lost = job[k].lost /\ job'[k].past = job[k].past
  BY <1>6, <1>8, <1>9
<1>17. ThreadsSound' /\ GoneIsQuiet'
  <2>1. \A k \in JobSeq : Signalled(k) => Signalled(k)'
    BY <1>16 DEF Signalled
  <2>2. ctx'.submitted >= ctx.submitted
    BY <1>0, <1>10
  <2>3. t \in Inside /\ stop' = stop
    BY <1>1, <1>7 DEF Inside
  <2> QED BY <2>1, <2>2, <2>3, <1>10, <1>11, UserKeepsThreads
<1>18. JobsPlaced'
  <2>1. ASSUME NEW k \in JobSeq
        PROVE  /\ job'[k].at = "none" <=> k >= ctx'.submitted
               /\ job'[k].at \in {"queued", "fw", "killed"} => ~job'[k].done
               /\ job'[k].at = "queued" => stop = "no" /\ ~job'[k].lost
               /\ job'[k].at = "killed" => stop # "no"
    BY <1>10, <1>16 DEF JobsInv, JobsPlaced
  <2>2. ASSUME NEW a \in JobSeq, NEW k \in (a + 1)..(MaxSeq - 1)
        PROVE  /\ job'[a].at = "queued" => job'[k].at \in {"none", "queued"}
               /\ job'[a].at = "fw" =>
                     /\ job'[k].at # "freed"
                     /\ job'[k].at = "finished" /\ job'[k].done => job'[k].op = "noop"
    <3>0. k \in JobSeq
      BY DEF JobSeq
    <3> QED BY <3>0, <1>16 DEF JobsInv, JobsPlaced
  <2>3. /\ stop # "no" => ctx'.connected /\ NoReader'
        /\ ~ctx'.connected => NoReader' /\ ctx'.submitted = ctx'.free_cnt
    <3>1. ctx.connected => ctx'.connected
      BY <1>10
    <3>2. ASSUME ~ctx.connected
          PROVE  ctx.submitted = ctx.free_cnt /\ j.ref # 0
      <4>1. ctx.submitted = ctx.free_cnt
        BY <3>2 DEF JobsInv, JobsPlaced
      <4>2. job[s].ref = 0
        BY <4>1, AllGone
      <4> QED BY <4>2, <1>5
    <3>3. /\ stop # "no" => ctx.connected /\ NoReader
          /\ ~ctx.connected => NoReader
      BY DEF JobsInv, JobsPlaced
    <3> QED BY <3>1, <3>2, <3>3, <1>10, <1>13
  <2> QED BY <2>1, <2>2, <2>3, <1>7 DEF JobsPlaced
<1> QED BY <1>12, <1>14, <1>15, <1>16, <1>17, <1>18 DEF JobsInv

(* aie2_cmd_wait() takes its fence.                                        *)
LEMMA WaitKeepsInv ==
    ASSUME JobsInv, NEW t \in Thread, NEW s \in JobSeq, Wait(t, s)
    PROVE  JobsInv'
<1> USE CmdAssumption
<1>0. TypeOK /\ ctx \in Context /\ s <= Point /\ pc[t] = "idle" /\ ctx.state = "ready"
      /\ UNCHANGED <<job, ctx, stop, hung>>
  BY DEF JobsInv, TypeOK, Wait, MayUse
<1>1. /\ OutFence(s) \in JobSeq \cup {NoJob}
      /\ OutFence(s) # NoJob =>
            /\ OutFence(s) \in JobSeq
            /\ s = 0 \/ (OutFence(s) <= s /\ \A k \in (OutFence(s) + 1)..s : Signalled(k))
  BY <1>0, OutFenceIs
<1>2. PICK f \in JobSeq \cup {NoJob} : f = OutFence(s)
  BY <1>1
<1>3. /\ pc' = IF f = NoJob THEN pc ELSE [pc EXCEPT ![t] = "wait"]
      /\ oops' = IF f = NoJob THEN "no_fence" ELSE oops
      /\ arg' = [arg EXCEPT ![t] = s] /\ on' = [on EXCEPT ![t] = f]
  BY <1>2 DEF Wait
<1>4. /\ pc'[t] = IF f = NoJob THEN "idle" ELSE "wait"
      /\ arg'[t] = s /\ on'[t] = f
      /\ \A u \in Thread : u # t => pc'[u] = pc[u] /\ arg'[u] = arg[u] /\ on'[u] = on[u]
  BY <1>0, <1>3 DEF TypeOK
<1>5. TypeOK'
  <2>1. pc' \in [Thread -> {"idle", "create", "sync", "fini", "sem", "enter", "arm",
                            "put", "wait"}]
    BY <1>0, <1>3 DEF TypeOK
  <2>2. arg' \in [Thread -> JobSeq \cup {NoJob}] /\ on' \in [Thread -> JobSeq \cup {NoJob}]
    BY <1>0, <1>3 DEF TypeOK
  <2>3. oops' \in {"no", "early", "no_fence"}
    BY <1>0, <1>3 DEF TypeOK
  <2> QED BY <1>0, <2>1, <2>2, <2>3 DEF TypeOK
<1>6. JobRefsExact' /\ SemExact' /\ JobsPlaced'
  <2>1. \A u \in Thread : /\ \A p \in {"enter", "arm"} : pc'[u] = p <=> pc[u] = p
                          /\ pc'[u] = "put" <=> pc[u] = "put"
                          /\ pc[u] = "put" => arg'[u] = arg[u]
    BY <1>0, <1>4
  <2> QED BY <2>1, <1>0, ThreadStepKeepsBooks
<1>7. ThreadsSound' /\ GoneIsQuiet'
  <2>1. \A k \in JobSeq : Signalled(k) => Signalled(k)'
    BY <1>0 DEF Signalled
  <2>2. ctx'.submitted >= ctx.submitted
    BY <1>0 DEF Context
  <2>3. f # NoJob => /\ f \in JobSeq
                     /\ s = 0 \/ (f <= s /\ \A k \in (f + 1)..s : Signalled(k)')
    <3>1. ASSUME f # NoJob
          PROVE  \A k \in (f + 1)..s : k \in JobSeq
      BY <3>1 DEF JobSeq
    <3> QED BY <3>1, <2>1, <1>1, <1>2
  <2>4. pc'[t] \in {"idle", "sem", "enter", "arm", "put", "wait"} /\ pc'[t] # "put"
    BY <1>4
  <2>5. pc'[t] = "wait" =>
           /\ on'[t] \in JobSeq /\ arg'[t] \in JobSeq
           /\ arg'[t] = 0 \/ (on'[t] <= arg'[t] /\ \A k \in (on'[t] + 1)..arg'[t] : Signalled(k)')
    BY <2>3, <1>4
  <2> QED BY <2>1, <2>2, <2>4, <2>5, <1>0, <1>4, UserKeepsThreads
<1> QED BY <1>5, <1>6, <1>7 DEF JobsInv

(* A context is published, initialised and, after its last user, freed.    *)
LEMMA CreateDestroyKeepsInv ==
    ASSUME JobsInv, NEW t \in Thread,
           \/ CreatePublish(t) \/ CreateInit(t) \/ Destroy(t) \/ DestroySync(t) \/ DestroyFini(t)
    PROVE  JobsInv'
<1> USE CmdAssumption
<1>0. TypeOK /\ ctx \in Context /\ UNCHANGED <<job, stop, hung, oops>>
  BY DEF JobsInv, TypeOK, CreatePublish, CreateInit, Destroy, DestroySync, DestroyFini
<1>1. Goto(t, "create") \/ Goto(t, "sync") \/ Goto(t, "fini") \/ Returns(t)
  BY DEF CreatePublish, CreateInit, Destroy, DestroySync, DestroyFini
<1>2. /\ pc'[t] \in {"idle", "create", "sync", "fini"}
      /\ \A u \in Thread : u # t => pc'[u] = pc[u] /\ arg'[u] = arg[u] /\ on'[u] = on[u]
      /\ pc' \in [Thread -> {"idle", "create", "sync", "fini", "sem", "enter", "arm",
                             "put", "wait"}]
      /\ arg' \in [Thread -> JobSeq \cup {NoJob}] /\ on' \in [Thread -> JobSeq \cup {NoJob}]
  BY <1>0, <1>1, GotoIs, ReturnsIs DEF TypeOK
<1>3. pc[t] \in {"idle", "create", "sync", "fini"}
  BY DEF CreatePublish, CreateInit, Destroy, DestroySync, DestroyFini
<1>4. Inside' = Inside
  <2>1. \A u \in Thread : u \in Inside' <=> u \in Inside
    BY <1>2, <1>3 DEF Inside
  <2> QED BY <2>1 DEF Inside
<1>5. ctx.state \in {"none", "published"} =>
         ctx.submitted = 0 /\ ctx.free_cnt = 0 /\ ~ctx.connected /\ Inside = {} /\ stop = "no"
  BY DEF JobsInv, ThreadsSound, JobsPlaced
<1>6. /\ ctx' \in Context /\ ctx'.connected = ctx.connected /\ ctx'.submitted = ctx.submitted
      /\ ctx'.free_cnt = ctx.free_cnt /\ ctx'.sem = ctx.sem
      /\ \/ CreatePublish(t) /\ ctx'.state = "published"
         \/ CreateInit(t) /\ ctx'.state \in {"ready", "gone"}
         \/ Destroy(t) /\ ctx'.state = "erased"
         \/ DestroySync(t) /\ ctx'.state = ctx.state
         \/ DestroyFini(t) /\ ctx'.state = "gone"
  <2>1. CASE CreatePublish(t)
    BY <2>1, <1>0 DEF CreatePublish, Context
  <2>2. CASE CreateInit(t)
    <3>1. ctx.free_cnt = 0
      BY <2>2, <1>5 DEF CreateInit, JobsInv, ThreadsSound
    <3> QED BY <2>2, <3>1, <1>0 DEF CreateInit, Context
  <2>3. CASE Destroy(t)
    BY <2>3, <1>0 DEF Destroy, Context
  <2>4. CASE DestroySync(t)
    BY <2>4, <1>0 DEF DestroySync
  <2>5. CASE DestroyFini(t)
    BY <2>5, <1>0 DEF DestroyFini, Context
  <2> QED BY <2>1, <2>2, <2>3, <2>4, <2>5
<1>7. TypeOK'
  BY <1>0, <1>2, <1>6 DEF TypeOK
<1>8. JobRefsExact' /\ SemExact' /\ JobsPlaced'
  <2>1. \A u \in Thread : /\ \A p \in {"enter", "arm"} : pc'[u] = p <=> pc[u] = p
                          /\ pc'[u] = "put" <=> pc[u] = "put"
                          /\ pc[u] = "put" => arg'[u] = arg[u]
    BY <1>2, <1>3
  <2> QED BY <2>1, <1>0, <1>6, ThreadStepKeepsBooks
<1>9. ctx'.state = "gone" =>
         /\ Inside = {} /\ stop = "no" /\ ~ctx.connected
         /\ \A s \in JobSeq : job[s].at \in {"none", "freed"} /\ job[s].ref = 0
  <2>1. CASE CreateInit(t)
    <3>1. ctx.state = "published"
      BY <2>1 DEF CreateInit, JobsInv, ThreadsSound
    <3>2. Inside = {} /\ stop = "no" /\ ~ctx.connected /\ ctx.submitted = ctx.free_cnt
      BY <3>1, <1>5
    <3> QED BY <3>2, AllGone
  <2>2. CASE DestroyFini(t)
    <3>1. Inside = {} /\ stop = "no" /\ ~ctx.connected /\ ctx.submitted = ctx.free_cnt
      BY <2>2 DEF DestroyFini, JobsInv, ThreadsSound, JobsPlaced
    <3> QED BY <3>1, AllGone
  <2>3. CASE ctx'.state = "gone" /\ DestroySync(t) /\ ctx'.state = ctx.state
    BY <2>3 DEF DestroySync, JobsInv, ThreadsSound
  <2> QED BY <2>1, <2>2, <2>3, <1>6
<1>10. GoneIsQuiet'
  BY <1>0, <1>4, <1>9 DEF GoneIsQuiet
<1>11. ThreadsSound'
  <2>0. /\ \A u \in Thread : pc[u] = "create" => ctx.state = "published"
        /\ \A u \in Thread : pc[u] \in {"sync", "fini"} => ctx.state = "erased"
        /\ \A u, v \in Thread : pc[u] = "create" /\ pc[v] = "create" => u = v
        /\ \A u, v \in Thread : {pc[u], pc[v]} \subseteq {"sync", "fini"} => u = v
    BY DEF JobsInv, ThreadsSound
  <2>1. \A u \in Thread : u # t =>
           /\ pc[u] = "create" => ctx'.state = "published" /\ pc'[t] # "create"
           /\ pc[u] \in {"sync", "fini"} =>
                 ctx'.state = "erased" /\ pc'[t] \notin {"sync", "fini"}
    <3>1. CASE CreatePublish(t)
      <4>1. ctx.state = "none"
        BY <3>1 DEF CreatePublish
      <4> QED BY <4>1, <2>0
    <3>2. CASE CreateInit(t)
      <4>1. ctx.state = "published" /\ pc[t] = "create"
        BY <3>2, <2>0 DEF CreateInit
      <4> QED BY <4>1, <2>0
    <3>3. CASE Destroy(t)
      <4>1. ctx.state = "ready"
        BY <3>3 DEF Destroy
      <4> QED BY <4>1, <2>0
    <3>4. CASE DestroySync(t) \/ DestroyFini(t)
      <4>1. pc[t] \in {"sync", "fini"} /\ ctx.state = "erased"
        BY <3>4, <2>0 DEF DestroySync, DestroyFini
      <4> QED BY <4>1, <2>0
    <3> QED BY <3>1, <3>2, <3>3, <3>4
  <2>2. /\ pc'[t] = "create" => ctx'.state = "published"
        /\ pc'[t] \in {"sync", "fini"} => ctx'.state = "erased"
        /\ pc'[t] = "fini" => Inside = {}
    <3>1. CASE CreatePublish(t)
      BY <3>1, <1>0, <1>6, GotoIs DEF CreatePublish, Context
    <3>2. CASE CreateInit(t) \/ DestroyFini(t)
      BY <3>2, <1>0, ReturnsIs DEF CreateInit, DestroyFini
    <3>3. CASE Destroy(t)
      <4>1. pc'[t] = "sync"
        BY <3>3, <1>0, GotoIs DEF Destroy
      <4>2. ctx'.state = "erased"
        BY <3>3, <1>0 DEF Destroy, Context
      <4> QED BY <4>1, <4>2
    <3>4. CASE DestroySync(t)
      <4>1. pc'[t] = "fini" /\ ctx' = ctx /\ Inside = {} /\ pc[t] = "sync"
        BY <3>4, <1>0, GotoIs DEF DestroySync
      <4> QED BY <4>1, <2>0
    <3> QED BY <3>1, <3>2, <3>3, <3>4
  <2>3. ASSUME NEW u \in Thread
        PROVE  /\ pc'[u] = "create" => ctx'.state = "published"
               /\ pc'[u] \in {"sync", "fini"} => ctx'.state = "erased"
               /\ pc'[u] = "fini" => Inside' = {}
               /\ pc'[u] = "put" => arg'[u] \in 0..Point'
               /\ pc'[u] = "wait" =>
                     /\ on'[u] \in JobSeq /\ arg'[u] \in JobSeq
                     /\ arg'[u] = 0 \/ (/\ on'[u] <= arg'[u]
                                  /\ \A k \in (on'[u] + 1)..arg'[u] : Signalled(k)')
    <3>1. CASE u = t
      BY <3>1, <2>2, <1>2, <1>4
    <3>2. CASE u # t
      <4>1. pc'[u] = pc[u] /\ arg'[u] = arg[u] /\ on'[u] = on[u] /\ Point' = Point
        BY <3>2, <1>2, <1>6 DEF Point
      <4>2. \A k : Signalled(k)' <=> Signalled(k)
        BY <1>0 DEF Signalled
      <4>3. /\ pc[u] = "fini" => Inside = {}
            /\ pc[u] = "put" => arg[u] \in 0..Point
            /\ pc[u] = "wait" =>
                  /\ on[u] \in JobSeq /\ arg[u] \in JobSeq
                  /\ arg[u] = 0 \/ (on[u] <= arg[u] /\ \A k \in (on[u] + 1)..arg[u] : Signalled(k))
        BY DEF JobsInv, ThreadsSound
      <4> QED BY <4>1, <4>2, <4>3, <3>2, <2>1, <1>4
    <3> QED BY <3>1, <3>2
  <2>4. /\ \A u, v \in Thread : pc'[u] = "create" /\ pc'[v] = "create" => u = v
        /\ \A u, v \in Thread : {pc'[u], pc'[v]} \subseteq {"sync", "fini"} => u = v
    BY <2>0, <2>1, <1>2
  <2>5. /\ ctx'.state \in {"none", "published", "gone"} => Inside = {} /\ ~ctx.connected
        /\ ctx'.state \in {"none", "published"} => ctx.submitted = 0
    <3>1. CASE CreatePublish(t)
      BY <3>1, <1>5 DEF CreatePublish
    <3>2. CASE DestroySync(t)
      BY <3>2, <2>0 DEF DestroySync
    <3>3. CASE ctx'.state \in {"ready", "erased", "gone"}
      BY <3>3, <1>9
    <3> QED BY <3>1, <3>2, <3>3, <1>6
  <2> QED BY <2>3, <2>4, <2>5, <1>4, <1>6 DEF ThreadsSound
<1> QED BY <1>7, <1>8, <1>10, <1>11 DEF JobsInv
-----------------------------------------------------------------------------
(* The entity is destroyed: what has not run will not.                     *)
LEMMA StopBeginKeepsInv ==
    ASSUME JobsInv, StopBegin
    PROVE  /\ JobsInv'
           /\ \A k \in JobSeq : job[k].at # "queued" => job'[k] = job[k]
           /\ \A k \in JobSeq : job[k].at = "queued" => job'[k].at = "killed"
<1> USE CmdAssumption
<1>0. /\ TypeOK /\ UNCHANGED <<ctx, hung, pc, arg, on, oops>> /\ stop = "no" /\ stop' = "abort"
      /\ ctx.connected /\ NoReader
      /\ job' = [s \in JobSeq |-> IF job[s].at = "queued" THEN [job[s] EXCEPT !.at = "killed"]
                                 ELSE job[s]]
  BY DEF JobsInv, StopBegin, thrVars
<1>1. ASSUME NEW k \in JobSeq
      PROVE  /\ job'[k] \in Job /\ job'[k].ref = job[k].ref /\ job'[k].done = job[k].done
             /\ job'[k].op = job[k].op
             /\ job[k].at # "queued" => job'[k] = job[k]
             /\ job[k].at = "queued" => job'[k].at = "killed"
  <2>1. job[k] \in Job
    BY <1>0 DEF TypeOK
  <2>2. job'[k] = IF job[k].at = "queued" THEN [job[k] EXCEPT !.at = "killed"] ELSE job[k]
    BY <1>0
  <2> QED BY <2>1, <2>2 DEF Job, Place
<1>2. job' \in [JobSeq -> Job]
  BY <1>0, <1>1
<1>3. TypeOK'
  BY <1>0, <1>2 DEF TypeOK
<1>4. /\ \A k \in JobSeq : Putting(k)' = Putting(k)
      /\ Entering' = Entering /\ NoReader' = NoReader /\ Inside' = Inside /\ Point' = Point
  BY <1>0 DEF Putting, Entering, NoReader, Inside, Point
<1>5. Gone' = Gone /\ Holding' = Holding
  <2>1. \A k \in JobSeq : (k \in Gone' <=> k \in Gone) /\ (k \in Holding' <=> k \in Holding)
    BY <1>1 DEF Gone, Holding
  <2> QED BY <2>1 DEF Gone, Holding
<1>6. JobRefsExact'
  <2>1. ASSUME NEW k \in JobSeq
        PROVE  job'[k].ref = One(job'[k].at \notin {"none", "freed"})
                             + One(job'[k].at = "fw") + One(Putting(k)' # {})
    <3>1. job[k].ref = One(job[k].at \notin {"none", "freed"})
                       + One(job[k].at = "fw") + One(Putting(k) # {})
      BY DEF JobsInv, JobRefsExact
    <3>2. /\ job'[k].at \notin {"none", "freed"} <=> job[k].at \notin {"none", "freed"}
          /\ job'[k].at = "fw" <=> job[k].at = "fw"
      BY <1>1
    <3> QED BY <3>1, <3>2, <1>1, <1>4 DEF One
  <2>2. \A k \in JobSeq : \A t, u \in Putting(k)' : t = u
    BY <1>4 DEF JobsInv, JobRefsExact
  <2> QED BY <2>1, <2>2, <1>0, <1>5 DEF JobsInv, JobRefsExact
<1>7. SemExact'
  BY <1>0, <1>4, <1>5 DEF JobsInv, SemExact
<1>8. ctx.state # "gone"
  BY <1>0 DEF JobsInv, ThreadsSound
<1>9. GoneIsQuiet'
  BY <1>0, <1>8 DEF GoneIsQuiet
<1>10. ThreadsSound'
  <2>1. ASSUME NEW t \in Thread, pc[t] = "wait"
        PROVE  /\ on[t] \in JobSeq /\ arg[t] \in JobSeq
               /\ arg[t] = 0 \/ (on[t] <= arg[t] /\ \A k \in (on[t] + 1)..arg[t] : Signalled(k)')
    <3>1. /\ on[t] \in JobSeq /\ arg[t] \in JobSeq
          /\ arg[t] = 0 \/ (on[t] <= arg[t] /\ \A k \in (on[t] + 1)..arg[t] : Signalled(k))
      BY <2>1 DEF JobsInv, ThreadsSound
    <3>2. \A k \in (on[t] + 1)..arg[t] : k \in JobSeq
      BY <3>1 DEF JobSeq
    <3>3. \A k \in JobSeq : Signalled(k) => Signalled(k)'
      BY <1>1 DEF Signalled
    <3> QED BY <3>1, <3>2, <3>3
  <2> HIDE DEF Signalled
  <2> QED BY <2>1, <1>0, <1>4 DEF JobsInv, ThreadsSound
<1>11. JobsPlaced'
  <2>1. ASSUME NEW k \in JobSeq
        PROVE  /\ job'[k].at = "none" <=> k >= ctx.submitted
               /\ job'[k].at \in {"queued", "fw", "killed"} => ~job'[k].done
               /\ job'[k].at # "queued"
    <3>1. /\ job[k].at = "none" <=> k >= ctx.submitted
          /\ job[k].at \in {"queued", "fw", "killed"} => ~job[k].done
      BY DEF JobsInv, JobsPlaced
    <3> QED BY <3>1, <1>1
  <2>2. ASSUME NEW a \in JobSeq, NEW k \in (a + 1)..(MaxSeq - 1)
        PROVE  job'[a].at = "fw" =>
                  /\ job'[k].at # "freed"
                  /\ job'[k].at = "finished" /\ job'[k].done => job'[k].op = "noop"
    <3>1. /\ k \in JobSeq
          /\ job[a].at = "fw" =>
                /\ job[k].at # "freed"
                /\ job[k].at = "finished" /\ job[k].done => job[k].op = "noop"
      BY DEF JobSeq, JobsInv, JobsPlaced
    <3> QED BY <3>1, <1>1
  <2> QED BY <2>1, <2>2, <1>0, <1>4 DEF JobsPlaced
<1> QED BY <1>1, <1>3, <1>6, <1>7, <1>9, <1>10, <1>11 DEF JobsInv

(* Steps of aie2_hwctx_stop(), or a fault, that leave the jobs alone.      *)
LEMMA QuietKeepsInv ==
    ASSUME JobsInv, UNCHANGED <<job, thrVars>>,
           stop' \in {"no", "abort", "wait"}, hung' \in BOOLEAN,
           oops' \in {"no", "early", "no_fence"}, ctx' \in Context,
           ctx'.state = ctx.state, ctx'.submitted = ctx.submitted,
           ctx'.free_cnt = ctx.free_cnt, ctx'.sem = ctx.sem,
           \/ stop' = stop /\ ctx'.connected = ctx.connected
           \/ stop # "no" /\ stop' # "no" /\ ctx'.connected = ctx.connected
           \/ /\ stop # "no" /\ stop' = "no" /\ ~ctx'.connected
              /\ ctx.submitted = ctx.free_cnt
    PROVE  JobsInv'
<1>0. TypeOK /\ UNCHANGED <<pc, arg, on>>
  BY DEF JobsInv, thrVars
<1>1. TypeOK'
  BY <1>0 DEF TypeOK
<1>2. /\ \A k \in JobSeq : Putting(k)' = Putting(k)
      /\ Entering' = Entering /\ NoReader' = NoReader /\ Inside' = Inside /\ Point' = Point
      /\ Gone' = Gone /\ Holding' = Holding
  BY <1>0 DEF Putting, Entering, NoReader, Inside, Point, Gone, Holding
<1>3. JobRefsExact' /\ SemExact'
  BY <1>2 DEF JobsInv, JobRefsExact, SemExact
<1>4. stop # "no" => ctx.connected /\ NoReader /\ ctx.state # "gone"
  BY DEF JobsInv, JobsPlaced, ThreadsSound
<1>5. GoneIsQuiet'
  BY <1>2, <1>4 DEF JobsInv, GoneIsQuiet
<1>6. ThreadsSound'
  <2>1. \A k : Signalled(k)' <=> Signalled(k)
    BY DEF Signalled
  <2>2. ctx'.connected => ctx.connected
    BY <1>4
  <2> HIDE DEF Signalled
  <2> QED BY <2>1, <2>2, <1>0, <1>2 DEF JobsInv, ThreadsSound
<1>7. JobsPlaced'
  <2>1. ASSUME NEW k \in JobSeq
        PROVE  /\ job[k].at = "none" <=> k >= ctx'.submitted
               /\ job[k].at \in {"queued", "fw", "killed"} => ~job[k].done
               /\ job[k].at = "queued" => stop' = "no" /\ ~job[k].lost
               /\ job[k].at = "killed" => stop' # "no"
    <3>1. /\ job[k].at = "none" <=> k >= ctx.submitted
          /\ job[k].at \in {"queued", "fw", "killed"} => ~job[k].done
          /\ job[k].at = "queued" => stop = "no" /\ ~job[k].lost
          /\ job[k].at = "killed" => stop # "no"
      BY DEF JobsInv, JobsPlaced
    <3>2. ctx.submitted = ctx.free_cnt => job[k].at \in {"none", "freed"}
      BY AllGone
    <3> QED BY <3>1, <3>2
  <2>2. /\ stop' # "no" => ctx'.connected /\ NoReader
        /\ ~ctx'.connected => NoReader /\ ctx'.submitted = ctx'.free_cnt
    BY <1>4 DEF JobsInv, JobsPlaced
  <2>3. \A s \in JobSeq : \A k \in (s + 1)..(MaxSeq - 1) :
          /\ job[s].at = "queued" => job[k].at \in {"none", "queued"}
          /\ job[s].at = "fw" => /\ job[k].at # "freed"
                                 /\ job[k].at = "finished" /\ job[k].done => job[k].op = "noop"
    BY DEF JobsInv, JobsPlaced
  <2> QED BY <2>1, <2>2, <2>3, <1>2 DEF JobsPlaced
<1> QED BY <1>1, <1>3, <1>5, <1>6, <1>7 DEF JobsInv

(* The initial state.                                                      *)
LEMMA InitJobsInv == Init => JobsInv
<1> SUFFICES ASSUME Init PROVE JobsInv
  OBVIOUS
<1> USE CmdAssumption
<1>0. /\ \A s \in JobSeq : job[s] = NoneJob
      /\ \A t \in Thread : pc[t] = "idle"
      /\ stop = "no"
  BY DEF Init
<1>1. /\ ctx \in Context /\ ctx.state = "none" /\ ~ctx.connected /\ ctx.submitted = 0
      /\ ctx.free_cnt = 0 /\ ctx.sem = Slots
  BY DEF Init, CtxInit, Context
<1>2. TypeOK
  <2>1. job \in [JobSeq -> Job]
    BY NoneJobIs DEF Init
  <2> QED BY <2>1, <1>1 DEF Init, TypeOK
<1>3. Gone = {} /\ Holding = {} /\ Entering = {} /\ Inside = {} /\ NoReader
      /\ \A s \in JobSeq : Putting(s) = {}
  <2>1. Gone = {} /\ Holding = {}
    BY <1>0, NoneJobIs DEF Gone, Holding
  <2> QED BY <2>1, <1>0 DEF Entering, Inside, NoReader, Putting
<1>4. JobRefsExact /\ SemExact
  <2>1. Cardinality({}) = 0
    BY FS_EmptySet
  <2>2. JobRefsExact
    BY <1>0, <1>1, <1>3, <2>1, NoneJobIs DEF JobRefsExact, One
  <2>3. SemExact
    BY <1>1, <1>3, <2>1 DEF SemExact
  <2> QED BY <2>2, <2>3
<1>5. GoneIsQuiet /\ ThreadsSound
  BY <1>0, <1>1, <1>3 DEF GoneIsQuiet, ThreadsSound
<1>6. JobsPlaced
  BY <1>0, <1>1, <1>3, NoneJobIs DEF JobsPlaced, JobSeq
<1> QED BY <1>2, <1>4, <1>5, <1>6 DEF JobsInv

(* Respond and the abort of the channel end the first job of the firmware. *)
LEMMA ReportKeepsInv ==
    ASSUME JobsInv, NEW s \in JobSeq, NEW answer \in Answer, At("fw") # {}, s = First(At("fw")),
           Ends(s, answer), UNCHANGED <<stop, hung, thrVars, oops>>
    PROVE  /\ JobsInv' /\ job[s].at = "fw" /\ job'[s].at = "finished" /\ job'[s].op = job[s].op
           /\ job'[s].cmd = CmdState(job[s], answer)
           /\ \A k \in JobSeq : k # s => job'[k] = job[k]
<1>1. At("fw") \in SUBSET JobSeq
  BY DEF At
<1>2. job[s].at = "fw"
  BY <1>1, FirstIs DEF At
<1>3. \A k \in JobSeq : k # s => job'[k] = job[k]
  BY DEF Ends, JobsInv, TypeOK
<1> QED BY <1>2, <1>3, EndsKeepsInv

(* No step breaks the books.                                               *)
LEMMA NextKeepsInv == JobsInv /\ [Next]_vars => JobsInv'
<1> SUFFICES ASSUME JobsInv, [Next]_vars PROVE JobsInv'
  OBVIOUS
<1>0. ctx \in Context /\ stop \in {"no", "abort", "wait"} /\ hung \in BOOLEAN
      /\ oops \in {"no", "early", "no_fence"}
  BY DEF JobsInv, TypeOK
<1>1. CASE UNCHANGED vars
  BY <1>0, <1>1, QuietKeepsInv DEF vars
<1>2. ASSUME NEW t \in Thread, Create(t) \/ Destroy(t) \/ DestroyStep(t)
      PROVE  JobsInv'
  BY <1>2, CreateDestroyKeepsInv DEF Create, DestroyStep
<1>3. ASSUME NEW t \in Thread, Submit(t) \/ SubmitGoes(t) \/ WaitEnds(t) \/ GivesUp(t)
      PROVE  JobsInv'
  BY <1>3, UserKeepsInv, ArmKeepsInv, PutJobKeepsInv DEF SubmitGoes
<1>4. ASSUME NEW t \in Thread, Early(t)
      PROVE  JobsInv'
  BY <1>0, <1>4, QuietKeepsInv DEF Early
<1>5. ASSUME NEW t \in Thread, NEW s \in JobSeq, Wait(t, s)
      PROVE  JobsInv'
  BY <1>5, WaitKeepsInv
<1>6. ASSUME NEW s \in JobSeq, JobStep(s)
      PROVE  JobsInv'
  <2>1. CASE Respond(s)
    <3>1. At("fw") # {} /\ "status" \in Answer
      BY <2>1 DEF Respond, At, Answer
    <3> QED BY <2>1, <3>1, ReportKeepsInv DEF Respond
  <2> QED BY <1>6, <2>1, RunJobKeepsInv, FreeJobKeepsInv, KillWorkKeepsInv DEF JobStep
<1>7. CASE Hang
  BY <1>0, <1>7, QuietKeepsInv DEF Hang
<1>8. CASE StopBegin
  BY <1>8, StopBeginKeepsInv
<1>9. CASE StopAbort
  <2>1. CASE At("fw") # {}
    <3>1. At("fw") \in SUBSET JobSeq /\ "no_data" \in Answer
      BY DEF At, Answer
    <3>2. PICK s \in JobSeq : s = First(At("fw"))
      BY <2>1, <3>1, FirstIs
    <3>3. Ends(s, "no_data") /\ UNCHANGED <<stop, hung, thrVars, oops>>
      BY <1>9, <2>1, <3>2 DEF StopAbort
    <3> QED BY <2>1, <3>1, <3>2, <3>3, ReportKeepsInv
  <2>2. CASE At("fw") = {}
    BY <1>0, <1>9, <2>2, QuietKeepsInv DEF StopAbort
  <2> QED BY <2>1, <2>2
<1>10. CASE StopEnd
  <2>1. /\ UNCHANGED <<job, thrVars, oops>> /\ stop # "no" /\ stop' = "no" /\ hung' = FALSE
        /\ ctx.submitted = ctx.free_cnt /\ ctx' = [ctx EXCEPT !.connected = FALSE]
    BY <1>10 DEF StopEnd
  <2>2. /\ ctx' \in Context /\ ctx'.state = ctx.state /\ ctx'.submitted = ctx.submitted
        /\ ctx'.free_cnt = ctx.free_cnt /\ ctx'.sem = ctx.sem /\ ~ctx'.connected
    BY <1>0, <2>1 DEF Context
  <2> QED BY <1>0, <2>1, <2>2, QuietKeepsInv
<1> QED BY <1>1, <1>2, <1>3, <1>4, <1>5, <1>6, <1>7, <1>8, <1>9, <1>10 DEF Next, StopStep

(* The books of a context are exact, whatever fails: every reference to a  *)
(* job is the scheduler's, its submitter's or its response's, job_free_cnt *)
(* counts the jobs that are gone, each place of job_sem belongs to a       *)
(* submitter or to a job that has not ended, and a context is freed after  *)
(* its jobs and its last user.                                             *)
THEOREM JobsAccounted == Spec => []JobsInv
BY InitJobsInv, NextKeepsInv, PTL DEF Spec
-----------------------------------------------------------------------------
(* The steps that touch a job; the others do not bring the context back    *)
(* before its jobs are gone.                                               *)
LEMMA StepIs ==
    ASSUME JobsInv, [Next]_vars
    PROVE  \/ job' = job /\ (stop' = stop \/ stop' # "no" \/ ctx.submitted = ctx.free_cnt)
           \/ \E t \in Thread, op \in Ops : Arm(t, op)
           \/ \E t \in Thread : PutJob(t)
           \/ \E s \in JobSeq : RunJob(s) \/ FreeJob(s) \/ KillWork(s) \/ Respond(s)
           \/ \E s \in JobSeq : /\ stop = "abort" /\ s = First(At("fw")) /\ At("fw") # {}
                                /\ Ends(s, "no_data")
                                /\ UNCHANGED <<stop, hung, thrVars, oops>>
           \/ StopBegin
<1>1. CASE UNCHANGED vars
  BY <1>1 DEF vars
<1>2. ASSUME NEW t \in Thread,
             \/ Create(t) \/ Submit(t) \/ Early(t) \/ WaitEnds(t) \/ GivesUp(t)
             \/ Destroy(t) \/ DestroyStep(t) \/ \E s \in JobSeq : Wait(t, s)
             \/ DownSem(t) \/ RqEnter(t) \/ ArmFails(t)
      PROVE  job' = job /\ stop' = stop
  BY <1>2 DEF Create, CreatePublish, CreateInit, Submit, Early, WaitEnds, GivesUp, Destroy,
              DestroyStep, DestroySync, DestroyFini, Wait, DownSem, RqEnter, ArmFails
<1>3. CASE Hang
  BY <1>3 DEF Hang
<1>4. CASE StopEnd
  BY <1>4 DEF StopEnd
<1>5. CASE StopAbort
  <2>1. CASE At("fw") # {}
    <3>1. At("fw") \in SUBSET JobSeq
      BY DEF At
    <3>2. PICK s \in JobSeq : s = First(At("fw"))
      BY <2>1, <3>1, FirstIs
    <3> QED BY <1>5, <2>1, <3>2 DEF StopAbort
  <2>2. CASE At("fw") = {}
    BY <1>5, <2>2 DEF StopAbort
  <2> QED BY <2>1, <2>2
<1>6. CASE \E t \in Thread : SubmitGoes(t)
  BY <1>2, <1>6 DEF SubmitGoes
<1>7. CASE \E s \in JobSeq : JobStep(s)
  BY <1>7 DEF JobStep
<1> QED BY <1>1, <1>2, <1>3, <1>4, <1>5, <1>6, <1>7 DEF Next, StopStep

(* A step that is not a run leaves a job with the firmware as it was, or   *)
(* takes it from there; one that is not the end of a job leaves the jobs   *)
(* that have ended as they were.                                           *)
LEMMA OtherStepIs ==
    ASSUME JobsInv, [Next]_vars, ~\E s \in JobSeq : RunJob(s), NEW k \in JobSeq
    PROVE  /\ job'[k].at = "fw" => /\ job[k].at = "fw" /\ job'[k].op = job[k].op
                                   /\ job'[k].lost = job[k].lost /\ job'[k].past = job[k].past
           /\ job[k].at \in {"finished", "freed"} /\ job[k].op = "noop" =>
                 job'[k].at \in {"finished", "freed"} /\ job'[k].op = "noop"
           /\ job'[k].at = "finished" =>
                 \/ /\ job[k].at = "finished" /\ job'[k].op = job[k].op
                    /\ job'[k].err = job[k].err /\ job'[k].cmd = job[k].cmd
                 \/ /\ job[k].at = "fw" /\ job'[k].op = job[k].op
                    /\ \/ job'[k].cmd = CmdState(job[k], "status")
                       \/ job'[k].cmd = CmdState(job[k], "no_data") /\ stop' = "abort"
           /\ stop # "no" /\ stop' = "no" => job'[k].at # "finished"
<1> USE DEF Answer
<1>1. CASE job' = job /\ (stop' = stop \/ stop' # "no" \/ ctx.submitted = ctx.free_cnt)
  <2>1. ctx.submitted = ctx.free_cnt => job[k].at # "finished"
    BY AllGone
  <2> QED BY <1>1, <2>1
<1>2. CASE \E t \in Thread, op \in Ops : Arm(t, op)
  <2>1. /\ job'[k] = job[k] \/ (job[k].at = "none" /\ job'[k].at = "queued")
        /\ stop' = stop
    BY <1>2, ArmKeepsInv DEF Arm
  <2> QED BY <2>1
<1>3. CASE \E t \in Thread : PutJob(t)
  <2>1. stop' = stop
    BY <1>3 DEF PutJob
  <2> QED BY <1>3, <2>1, PutJobKeepsInv
<1>4. ASSUME NEW s \in JobSeq, FreeJob(s) \/ KillWork(s)
      PROVE  /\ job'[s].at = "freed" /\ (job[s].op = "noop" => job'[s].op = "noop")
             /\ \A x \in JobSeq : x # s => job'[x] = job[x]
             /\ stop' = stop
  BY <1>4, FreeJobKeepsInv, KillWorkKeepsInv
<1>5. CASE \E s \in JobSeq : FreeJob(s) \/ KillWork(s)
  <2>1. PICK s \in JobSeq : FreeJob(s) \/ KillWork(s)
    BY <1>5
  <2>2. CASE k = s
    BY <2>1, <2>2, <1>4
  <2>3. CASE k # s
    BY <2>1, <2>3, <1>4
  <2> QED BY <2>2, <2>3
<1>6. CASE \E s \in JobSeq : Respond(s)
  <2>1. PICK s \in JobSeq : Respond(s)
    BY <1>6
  <2>2. At("fw") # {} /\ UNCHANGED <<stop, hung, thrVars, oops>>
    BY <2>1 DEF Respond, At
  <2>3. /\ job[s].at = "fw" /\ job'[s].at = "finished" /\ job'[s].op = job[s].op
        /\ job'[s].cmd = CmdState(job[s], "status")
        /\ \A x \in JobSeq : x # s => job'[x] = job[x]
    BY <2>1, <2>2, ReportKeepsInv DEF Respond
  <2>4. CASE k = s
    BY <2>2, <2>3, <2>4
  <2>5. CASE k # s
    BY <2>2, <2>3, <2>5
  <2> QED BY <2>4, <2>5
<1>7. CASE \E s \in JobSeq : /\ stop = "abort" /\ s = First(At("fw")) /\ At("fw") # {}
                             /\ Ends(s, "no_data")
                             /\ UNCHANGED <<stop, hung, thrVars, oops>>
  <2>1. PICK s \in JobSeq : /\ stop = "abort" /\ s = First(At("fw")) /\ At("fw") # {}
                            /\ Ends(s, "no_data")
                            /\ UNCHANGED <<stop, hung, thrVars, oops>>
    BY <1>7
  <2>3. /\ job[s].at = "fw" /\ job'[s].at = "finished" /\ job'[s].op = job[s].op
        /\ job'[s].cmd = CmdState(job[s], "no_data")
        /\ \A x \in JobSeq : x # s => job'[x] = job[x]
    BY <2>1, ReportKeepsInv
  <2>4. CASE k = s
    BY <2>1, <2>3, <2>4
  <2>5. CASE k # s
    BY <2>1, <2>3, <2>5
  <2> QED BY <2>4, <2>5
<1>8. CASE StopBegin
  <2>1. stop' = "abort"
    BY <1>8 DEF StopBegin
  <2> QED BY <1>8, <2>1, StopBeginKeepsInv
<1> QED BY <1>1, <1>2, <1>3, <1>5, <1>6, <1>7, <1>8, StepIs

(* The slots of two jobs are the same only when they are Slots apart.      *)
LEMMA SameSlot ==
    ASSUME NEW a \in Nat, NEW b \in Nat, a < b, get_job_idx(a) = get_job_idx(b)
    PROVE  b - a >= Slots
<1> USE CmdAssumption
<1>1. PICK r \in Nat : r = a % Slots /\ r = b % Slots
  BY DEF get_job_idx
<1>2. PICK p \in Nat : a = Slots * p + r
  <2>1. a \div Slots \in Nat /\ a = Slots * (a \div Slots) + (a % Slots)
    OBVIOUS
  <2> QED BY <1>1, <2>1
<1>3. PICK q \in Nat : b = Slots * q + r
  <2>1. b \div Slots \in Nat /\ b = Slots * (b \div Slots) + (b % Slots)
    OBVIOUS
  <2> QED BY <1>1, <2>1
<1>4. b - a = Slots * (q - p)
  BY <1>2, <1>3
<1>5. q - p >= 1
  BY <1>4
<1>6. \A n \in Nat \ {0}, d \in Int : d >= 1 => n * d >= n
  OBVIOUS
<1> QED BY <1>4, <1>5, <1>6

(* A list that passed the check without a wrap ends inside the buffer: the *)
(* difference is at least the header, so the header fits too.              *)
LEMMA FillSlotIn ==
    ASSUME NEW offset \in Nat, NEW p \in Nat, FillSlot(offset, p).fits
    PROVE  FillSlot(offset, p).list # "past"
<1> USE CmdAssumption
<1>1. (BufSize - (offset + p)) % U32 > Header
  BY DEF FillSlot, slot_has_space
<1>2. CASE offset + p > BufSize
  BY <1>2 DEF FillSlot
<1>3. CASE ~(offset + p > BufSize)
  <2>1. BufSize - (offset + p) \in Nat
    BY <1>3
  <2>2. PICK x \in Nat : x = BufSize - (offset + p)
    BY <2>1
  <2>3. x % U32 <= x /\ x % U32 \in Nat
    OBVIOUS
  <2>4. x > Header
    BY <1>1, <2>2, <2>3
  <2>5. ~(offset + Header + p > BufSize)
    BY <2>2, <2>4
  <2> QED BY <1>3, <2>5 DEF FillSlot
<1> QED BY <1>2, <1>3

(* The same of a whole list.                                               *)
LEMMA LayoutIn ==
    ASSUME NEW f \in Layouts \cup Plain, f.fits
    PROVE  f.list # "past"
<1> USE CmdAssumption
<1>1. CASE f \in Plain
  BY <1>1 DEF Plain
<1>2. CASE f \in Layouts
  <2>1. PICK l \in Lists : f = [fits |-> Filled(l).fits, list |-> Filled(l).list]
    BY <1>2 DEF Layouts
  <2>2. l[1] \in Nat /\ (Len(l) # 1 => l[2] \in Nat)
    <3>1. CASE l \in {<<p>> : p \in Payloads}
      BY <3>1
    <3>2. CASE l \in Payloads \X Payloads
      BY <3>2
    <3> QED BY <3>1, <3>2 DEF Lists
  <2> DEFINE a == FillSlot(0, l[1])
  <2>3. CASE Len(l) = 1 \/ ~a.fits \/ a.list # "in"
    <3>1. Filled(l) = a
      BY <2>3 DEF Filled
    <3>2. f.fits = a.fits /\ f.list = a.list
      BY <2>1, <3>1
    <3> QED BY <3>2, <2>2, FillSlotIn
  <2>4. CASE ~(Len(l) = 1 \/ ~a.fits \/ a.list # "in")
    <3>1. Filled(l) = FillSlot(a.size, l[2])
      BY <2>4 DEF Filled
    <3>2. a.size \in Nat /\ l[2] \in Nat
      BY <2>2, <2>4 DEF FillSlot
    <3>3. f.fits = FillSlot(a.size, l[2]).fits /\ f.list = FillSlot(a.size, l[2]).list
      BY <2>1, <3>1
    <3> QED BY <3>2, <3>3, FillSlotIn
  <2> QED BY <2>3, <2>4
<1> QED BY <1>1, <1>2

(* A job that runs takes the slot of a command the firmware still works on *)
(* only after a no-op between the two: otherwise both, and all between     *)
(* them, hold places of job_sem, and these are more than Slots.            *)
LEMMA SlotStillUsed ==
    ASSUME JobsInv, NEW s \in JobSeq, NEW k \in JobSeq, job[s].at = "queued", job[k].at = "fw",
           get_job_idx(k) = get_job_idx(s)
    PROVE  \E x \in (k + 1)..(s - 1) : job[x].op = "noop" /\ job[x].at = "finished"
<1> USE CmdAssumption
<1>0. s \in Nat /\ k \in Nat /\ s <= MaxSeq - 1 /\ k <= MaxSeq - 1
  BY DEF JobSeq
<1>1. k < s
  <2>1. k # s
    OBVIOUS
  <2>2. k > s => k \in (s + 1)..(MaxSeq - 1)
    BY <1>0
  <2>3. ~(k > s)
    BY <2>2 DEF JobsInv, JobsPlaced
  <2> QED BY <2>1, <2>3, <1>0
<1>2. s - k >= Slots
  BY <1>0, <1>1, SameSlot
<1> SUFFICES ASSUME \A x \in (k + 1)..(s - 1) : ~(job[x].op = "noop" /\ job[x].at = "finished")
             PROVE  FALSE
  OBVIOUS
<1>3. ASSUME NEW x \in k..s
      PROVE  x \in Holding
  <2>1. x \in JobSeq
    BY <1>0 DEF JobSeq
  <2>2. CASE x = k \/ x = s
    BY <2>1, <2>2 DEF Holding
  <2>3. CASE x # k /\ x # s
    <3>1. x \in (k + 1)..(s - 1) /\ x \in (k + 1)..(MaxSeq - 1)
      BY <2>3, <1>0
    <3>2. s < ctx.submitted /\ ctx.submitted \in Nat
      BY <1>0 DEF JobsInv, JobsPlaced, TypeOK, Context
    <3>3. job[x].at \in Place /\ job[x].done \in BOOLEAN
      BY <2>1 DEF JobsInv, TypeOK, Job
    <3>4. job[x].at # "none"
      BY <2>1, <3>1, <3>2, <1>0 DEF JobsInv, JobsPlaced
    <3>5. job[x].at # "freed" /\ (job[x].at = "finished" /\ job[x].done => job[x].op = "noop")
      BY <3>1 DEF JobsInv, JobsPlaced
    <3> QED BY <2>1, <3>1, <3>3, <3>4, <3>5 DEF Holding, Place
  <2> QED BY <2>2, <2>3
<1>4. IsFiniteSet(k..s) /\ Cardinality(k..s) = s - k + 1
  <2>1. k \in Int /\ s \in Int
    BY <1>0
  <2>2. IsFiniteSet(k..s) /\ Cardinality(k..s) = IF k > s THEN 0 ELSE s - k + 1
    BY <2>1, FS_Interval
  <2> QED BY <2>2, <1>0, <1>1
<1>5. Cardinality(k..s) <= Cardinality(Holding)
  BY <1>3, CountedFinite, FS_Subset
<1>6. /\ ctx.sem \in Nat /\ Cardinality(Entering) \in Nat /\ Cardinality(Holding) \in Nat
      /\ ctx.sem + Cardinality(Entering) + Cardinality(Holding) = Slots
  BY CountedFinite DEF JobsInv, SemExact, TypeOK, Context
<1> QED BY <1>0, <1>2, <1>4, <1>5, <1>6

(* No step takes a list from the firmware, or sends one that ends outside. *)
LEMMA NextKeepsBuf ==
    ASSUME JobsInv, [Next]_vars, CmdBufSound
    PROVE  CmdBufSound'
<1> USE CmdAssumption
<1>1. ASSUME ~\E s \in JobSeq : RunJob(s)
      PROVE  CmdBufSound'
  <2>1. ASSUME NEW s \in JobSeq, job'[s].at = "fw"
        PROVE  /\ ~job'[s].past
               /\ job'[s].op = "list" /\ job'[s].lost =>
                     \E k \in (s + 1)..(MaxSeq - 1) :
                        job'[k].op = "noop" /\ job'[k].at \in {"finished", "freed"}
    <3>1. job[s].at = "fw" /\ job'[s].op = job[s].op /\ job'[s].lost = job[s].lost
          /\ job'[s].past = job[s].past
      BY <1>1, <2>1, OtherStepIs
    <3>2. ~job[s].past
      BY <3>1 DEF CmdBufSound, ListInBuffer, At
    <3>3. ASSUME job[s].op = "list" /\ job[s].lost
          PROVE  \E k \in (s + 1)..(MaxSeq - 1) :
                        job'[k].op = "noop" /\ job'[k].at \in {"finished", "freed"}
      <4>1. PICK k \in (s + 1)..(MaxSeq - 1) : job[k].op = "noop" /\ Signalled(k)
        BY <3>1, <3>3 DEF CmdBufSound, CmdBufStable, At
      <4>2. k \in JobSeq
        BY DEF JobSeq
      <4> QED BY <4>1, <4>2, <1>1, OtherStepIs DEF Signalled
    <3> QED BY <3>1, <3>2, <3>3
  <2> QED BY <2>1 DEF CmdBufSound, CmdBufStable, ListInBuffer, At, Signalled
<1>2. ASSUME NEW r \in JobSeq, RunJob(r)
      PROVE  CmdBufSound'
  <2>0. job[r].at = "queued"
    BY <1>2, RunJobIs
  <2>1. ASSUME NEW k \in JobSeq, Signalled(k), job[k].op = "noop"
        PROVE  job'[k].op = "noop" /\ job'[k].at \in {"finished", "freed"}
    <3>1. k # r
      BY <2>0, <2>1 DEF Signalled
    <3> QED BY <2>1, <3>1, <1>2, RunJobIs DEF Signalled
  <2>2. ASSUME NEW s \in JobSeq, job'[s].at = "fw"
        PROVE  /\ ~job'[s].past
               /\ job'[s].op = "list" /\ job'[s].lost =>
                     \E k \in (s + 1)..(MaxSeq - 1) :
                        job'[k].op = "noop" /\ job'[k].at \in {"finished", "freed"}
    <3>1. CASE s = r
      <4>1. PICK f \in Layouts \cup Plain : f.fits /\ job'[s].past = (f.list = "past")
        BY <2>2, <3>1, <1>2, RunJobIs
      <4>2. ~job'[s].lost
        BY <2>2, <3>1, <1>2, RunJobIs
      <4> QED BY <4>1, <4>2, LayoutIn
    <3>2. CASE s # r
      <4>1. /\ job[s].at = "fw" /\ job'[s].op = job[s].op /\ job'[s].past = job[s].past
            /\ job'[s].lost = job[s].lost \/ get_job_idx(s) = get_job_idx(r)
        BY <2>2, <3>2, <1>2, RunJobIs
      <4>2. ~job[s].past
        BY <4>1 DEF CmdBufSound, ListInBuffer, At
      <4>3. CASE job[s].op = "list" /\ job[s].lost
        <5>1. PICK k \in (s + 1)..(MaxSeq - 1) : job[k].op = "noop" /\ Signalled(k)
          BY <4>1, <4>3 DEF CmdBufSound, CmdBufStable, At
        <5>2. k \in JobSeq
          BY DEF JobSeq
        <5> QED BY <5>1, <5>2, <4>1, <4>2, <2>1
      <4>4. CASE get_job_idx(s) = get_job_idx(r)
        <5>1. PICK k \in (s + 1)..(r - 1) : job[k].op = "noop" /\ job[k].at = "finished"
          BY <4>1, <4>4, <2>0, SlotStillUsed
        <5>2. k \in JobSeq /\ k \in (s + 1)..(MaxSeq - 1) /\ Signalled(k)
          BY <5>1 DEF JobSeq, Signalled
        <5> QED BY <5>1, <5>2, <4>1, <4>2, <2>1
      <4> QED BY <4>1, <4>2, <4>3, <4>4
    <3> QED BY <3>1, <3>2
  <2> QED BY <2>2 DEF CmdBufSound, CmdBufStable, ListInBuffer, At, Signalled
<1> QED BY <1>1, <1>2

(* The firmware reads the list that was written for it, from inside the    *)
(* command buffer, unless a later no-op ended first and gave its slot away *)
(* early or the 32-bit check of the size wrapped.                          *)
THEOREM ListsAreRead == Spec => []CmdBufSound
<1>1. Init => CmdBufSound
  BY NoneJobIs DEF Init, CmdBufSound, CmdBufStable, ListInBuffer, At
<1> QED BY <1>1, NextKeepsBuf, JobsAccounted, PTL DEF Spec

(* No step ends a command silently.                                        *)
LEMMA NextKeepsShown ==
    ASSUME JobsInv, [Next]_vars, EndShown
    PROVE  EndShown'
<1>1. SUFFICES ASSUME NEW s \in JobSeq, job'[s].at = "finished",
                      job'[s].op \in {"user", "list"}, ~job'[s].err
               PROVE  job'[s].cmd # "new" \/ (job'[s].op = "user" /\ stop' # "no")
  BY DEF EndShown, At
<1>2. CASE \E r \in JobSeq : RunJob(r)
  <2>1. PICK r \in JobSeq : RunJob(r)
    BY <1>2
  <2>2. s # r
    BY <1>1, <2>1, RunJobIs
  <2>3. /\ job[s].at = "finished" /\ job[s].op = job'[s].op /\ job'[s].err = job[s].err
        /\ job'[s].cmd = job[s].cmd /\ stop' = stop
    BY <1>1, <2>1, <2>2, RunJobIs DEF RunJob
  <2> QED BY <1>1, <2>3 DEF EndShown, At
<1>3. CASE ~\E r \in JobSeq : RunJob(r)
  <2>1. CASE /\ job[s].at = "finished" /\ job'[s].op = job[s].op
             /\ job'[s].err = job[s].err /\ job'[s].cmd = job[s].cmd
    <3>1. job[s].cmd # "new" \/ (job[s].op = "user" /\ stop # "no")
      BY <1>1, <2>1 DEF EndShown, At
    <3>2. stop # "no" => stop' # "no"
      BY <1>1, <1>3, OtherStepIs
    <3> QED BY <3>1, <3>2, <2>1
  <2>2. CASE /\ job[s].at = "fw" /\ job'[s].op = job[s].op
             /\ \/ job'[s].cmd = CmdState(job[s], "status")
                \/ job'[s].cmd = CmdState(job[s], "no_data") /\ stop' = "abort"
    BY <1>1, <2>2 DEF CmdState
  <2> QED BY <1>1, <1>3, <2>1, <2>2, OtherStepIs
<1> QED BY <1>2, <1>3

(* A wait that ends because its fence is signalled is for a command that   *)
(* has ended.                                                              *)
LEMMA FenceMeansDone ==
    ASSUME JobsInv, NEW t \in Thread, pc[t] = "wait", Signalled(on[t])
    PROVE  Signalled(arg[t]) \/ arg[t] = 0
<1>1. /\ on[t] \in JobSeq /\ arg[t] \in JobSeq
      /\ arg[t] = 0 \/ (on[t] <= arg[t] /\ \A k \in (on[t] + 1)..arg[t] : Signalled(k))
  BY DEF JobsInv, ThreadsSound
<1>2. CASE on[t] = arg[t]
  BY <1>2
<1>3. CASE on[t] # arg[t] /\ arg[t] # 0
  <2>1. arg[t] \in (on[t] + 1)..arg[t]
    BY <1>1, <1>3, CmdAssumption DEF JobSeq
  <2> QED BY <2>1, <1>1, <1>3
<1> QED BY <1>2, <1>3

(* User space learns how a command ended, and only when it has: a fence    *)
(* without an error goes with a final state of the command, and a wait     *)
(* that succeeds is for a command that has ended.                          *)
THEOREM EndsAreTold == Spec => EndsTold
<1>1. Init => EndShown
  BY NoneJobIs DEF Init, EndShown, At
<1>2. JobsInv /\ [Next]_vars =>
         [\A t \in Thread : (pc[t] = "wait" /\ pc'[t] = "idle" /\ Signalled(on[t])) =>
             Signalled(arg[t]) \/ arg[t] = 0]_vars
  BY FenceMeansDone
<1>3. Spec => []EndShown
  BY <1>1, NextKeepsShown, JobsAccounted, PTL DEF Spec
<1>4. Spec => WaitMeansDone
  BY <1>2, JobsAccounted, PTL DEF Spec, WaitMeansDone
<1> QED BY <1>3, <1>4 DEF EndsTold

(* No step oopses without a cause, and none follows an oops.               *)
LEMMA NextKeepsCause ==
    ASSUME JobsInv, [Next]_vars, OopsNeedsCause
    PROVE  OopsNeedsCause'
<1>1. CASE UNCHANGED vars
  <2>1. UNCHANGED <<job, ctx, arg, oops>>
    BY <1>1 DEF vars, thrVars
  <2> QED BY <2>1 DEF OopsNeedsCause, Signalled, Point
<1>2. ASSUME oops' = "no"
      PROVE  OopsNeedsCause'
  BY <1>2 DEF OopsNeedsCause
<1>3. ASSUME NEW t \in Thread, Early(t)
      PROVE  OopsNeedsCause'
  BY <1>3 DEF Early, OopsNeedsCause
<1>4. ASSUME NEW t \in Thread, NEW s \in JobSeq, Wait(t, s), oops = "no", oops' # "no"
      PROVE  OopsNeedsCause'
  <2>1. OutFence(s) = NoJob /\ oops' = "no_fence" /\ s <= Point
        /\ arg' = [arg EXCEPT ![t] = s] /\ UNCHANGED <<job, ctx>>
    BY <1>4 DEF Wait
  <2>2. NoJob \notin JobSeq
    BY DEF NoJob, JobSeq
  <2>3. s < Point /\ Signalled(s)
    BY <2>1, <2>2, OutFenceIs
  <2>4. arg'[t] = s
    BY <2>1 DEF JobsInv, TypeOK
  <2>5. job'[s].at \in {"finished", "freed"} /\ s < Point'
    BY <2>1, <2>3 DEF Signalled, Point
  <2>6. \E u \in Thread : /\ arg'[u] \in JobSeq /\ job'[arg'[u]].at \in {"finished", "freed"}
                           /\ arg'[u] < Point'
    BY <2>4, <2>5
  <2> QED BY <2>1, <2>6 DEF OopsNeedsCause, Signalled
<1>5. CASE oops = "no" /\ Next
  <2>1. ASSUME NEW t \in Thread,
               \/ Create(t) \/ Submit(t) \/ SubmitGoes(t) \/ WaitEnds(t) \/ GivesUp(t)
               \/ Destroy(t) \/ DestroyStep(t)
        PROVE  oops' = oops
    BY <2>1 DEF Create, CreatePublish, CreateInit, Submit, SubmitGoes, DownSem, RqEnter, Arm,
                ArmFails, PutJob, WaitEnds, GivesUp, Destroy, DestroyStep, DestroySync, DestroyFini
  <2>2. ASSUME NEW s \in JobSeq, JobStep(s)
        PROVE  oops' = oops
    BY <2>2 DEF JobStep, RunJob, FreeJob, Respond, KillWork
  <2>3. CASE Hang \/ StopBegin \/ StopStep
    BY <2>3, <1>2, <1>5 DEF Hang, StopBegin, StopStep, StopAbort, StopEnd
  <2> QED BY <1>2, <1>3, <1>4, <1>5, <2>1, <2>2, <2>3 DEF Next
<1> QED BY <1>1, <1>5 DEF Next, Alive

(* A wait on a command that was submitted always finds a fence, unless the *)
(* command has ended and is not the newest; a context is used too early    *)
(* only before aie2_ctx_init() is done.                                    *)
THEOREM OopsHasCause == Spec => []OopsNeedsCause
<1>1. Init => OopsNeedsCause
  BY DEF Init, OopsNeedsCause
<1> QED BY <1>1, NextKeepsCause, JobsAccounted, PTL DEF Spec
=============================================================================
