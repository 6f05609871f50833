------------------------ MODULE CtxRunqueue_proofs ------------------------
(***************************************************************************)
(* Proofs about the context run queue, for any number of contexts, threads *)
(* and priorities, any limits and any environment.                         *)
(***************************************************************************)
EXTENDS CtxRunqueue, SeqLemmas, FiniteSetTheorems, TLAPS

(* queue_work() keeps the queue a queue of work items.                     *)
LEMMA QueueWorkType ==
    ASSUME NEW q \in Seq(Work), NEW w \in Work
    PROVE  QueueWork(q, w) \in Seq(Work)
BY AppendProperties DEF QueueWork

(* Cancelling a work item keeps the queue a queue of work items.           *)
LEMMA CancelWorkType ==
    ASSUME NEW q \in Seq(Work), NEW w
    PROVE  RemoveFirst(q, w) \in Seq(Work)
<1>1. CASE Contains(q, w)
  BY <1>1, RemoveFirstShape
<1>2. CASE ~Contains(q, w)
  BY <1>2 DEF RemoveFirst, Contains
<1> QED BY <1>1, <1>2

(* The three kinds of work items.                                          *)
LEMMA WorkItems ==
    /\ SchedWork \in Work
    /\ \A c \in Ctx : DispatchWork(c) \in Work /\ YieldWork(c) \in Work
    /\ \A w \in Work : w.kind \in Kind => w.ctx \in Ctx
BY DEF Work, SchedWork, DispatchWork, YieldWork, Kind

(* Unlinking a context keeps the lists lists of contexts.                  *)
LEMMA RemoveType ==
    ASSUME NEW s \in Seq(Ctx), NEW c
    PROVE  RemoveFirst(s, c) \in Seq(Ctx)
<1>1. CASE Contains(s, c)
  BY <1>1, RemoveFirstShape
<1>2. CASE ~Contains(s, c)
  BY <1>2 DEF RemoveFirst, Contains
<1> QED BY <1>1, <1>2

(* Releasing the hardware context keeps the types; hwctx_cnt does not go   *)
(* below zero because the context is connected.                            *)
LEMMA StopHwctxType ==
    ASSUME RqInv, NEW c \in Ctx, NEW wait, StopHwctx(c, wait)
    PROVE  /\ status' \in [Ctx -> Status] /\ hwctx_cnt' \in Nat
           /\ (UNCHANGED comp => JobTypes')
<1>1. hwctx_cnt - 1 \in Nat
  BY DEF RqInv, TypeOK, ListTypes, ListInv, HwctxCntExact, StopHwctx, Connected, Contains
<1>2. status' \in [Ctx -> Status] /\ hwctx_cnt' \in Nat
  BY <1>1 DEF RqInv, TypeOK, ListTypes, StopHwctx, Status
<1>3. /\ inflight[c] \in Nat /\ queued[c] \in Nat
      /\ completed[c] \in Nat /\ job_free_cnt[c] \in Nat
  BY DEF RqInv, TypeOK, JobTypes
<1>4. completed' \in [Ctx -> Nat]
  BY <1>3 DEF RqInv, TypeOK, JobTypes, StopHwctx
<1>5. job_free_cnt' \in [Ctx -> Nat]
  BY <1>3 DEF RqInv, TypeOK, JobTypes, StopHwctx
<1>6. /\ submitted' \in [Ctx -> Nat] /\ queued' \in [Ctx -> Nat]
      /\ inflight' \in [Ctx -> Nat]
  BY DEF RqInv, TypeOK, JobTypes, StopHwctx
<1> QED BY <1>2, <1>4, <1>5, <1>6 DEF JobTypes, RqInv, TypeOK

(* Stopping a context, with or without waiting for its last command, keeps *)
(* the types.                                                              *)
LEMMA StopCtxType ==
    ASSUME RqInv, NEW c \in Ctx, NEW wait, StopCtx(c, wait)
    PROVE  ListTypes' /\ (UNCHANGED comp => JobTypes')
<1>1. CASE ctx_should_stop(c)
  <2>1. StopHwctx(c, wait) /\ MoveToDisconn(c) /\ UNCHANGED <<cnt, runqueue_total>>
    BY <1>1 DEF StopCtx
  <2>2. /\ status' \in [Ctx -> Status] /\ hwctx_cnt' \in Nat
        /\ (UNCHANGED comp => JobTypes')
    BY <2>1, StopHwctxType
  <2>3. /\ conn_list' \in Seq(Ctx) /\ disconn_list' \subseteq Ctx
        /\ runqueue' \in [Priority -> Seq(Ctx)]
    BY <2>1, RemoveType, ConstantsAssumption DEF MoveToDisconn, RqInv, TypeOK, ListTypes
  <2> QED BY <2>1, <2>2, <2>3 DEF ListTypes, RqInv, TypeOK
<1>2. CASE ~ctx_should_stop(c)
  BY <1>2 DEF StopCtx, ListTypes, JobTypes, RqInv, TypeOK, jobVars, listVars
<1> QED BY <1>1, <1>2

(* Work that the abort of a context's commands queues.                     *)
LEMMA AfterAbortType ==
    ASSUME RqInv, NEW c \in Ctx
    PROVE  AfterAbort(c) \in Seq(Work)
BY QueueWorkType, WorkItems DEF RqInv, TypeOK, WorkTypes, AfterAbort

(* The position at which a context is connected, when it is not the tail.  *)
LEMMA ConnectPosition ==
    ASSUME NEW s \in Seq(Ctx), NEW c \in Ctx, s # <<>>, ~(Prio[Last(s)] < Prio[c])
    PROVE  \E i \in 1..Len(s) :
             /\ insert_ctx_to_conn_list(s, c) = InsertAt(s, i, c)
             /\ Prio[s[i]] >= Prio[c]
             /\ \A j \in 1..(i-1) : Prio[s[j]] < Prio[c]
<1> DEFINE I == {i \in 1..Len(s) : Prio[s[i]] >= Prio[c]}
           P(i) == /\ Prio[s[i]] >= Prio[c]
                   /\ \A j \in 1..(i-1) : Prio[s[j]] < Prio[c]
           k == CHOOSE i \in 1..Len(s) : P(i)
<1>0. /\ Len(s) \in Nat \ {0} /\ \A i \in 1..Len(s) : s[i] \in Ctx
      /\ \A d \in Ctx : Prio[d] \in Int
  <2>1. \A d \in Ctx : Prio[d] \in Int
    BY ConstantsAssumption DEF Priority
  <2>2. Len(s) \in Nat \ {0} /\ \A i \in 1..Len(s) : s[i] \in Ctx
    BY EmptySeq, ElementOfSeq
  <2> QED BY <2>1, <2>2
<1>1. Len(s) \in I
  BY <1>0 DEF Last
<1>2. PICK m \in I : \A y \in I : m <= y
  <2>1. I \in SUBSET Nat /\ I # {}
    BY <1>0, <1>1
  <2> HIDE DEF I
  <2> QED BY <2>1, NatHasMin
<1>3. m \in 1..Len(s) /\ P(m)
  BY <1>0, <1>2
<1>4. k \in 1..Len(s) /\ P(k)
  BY <1>3
<1>5. insert_ctx_to_conn_list(s, c) = InsertAt(s, k, c)
  BY DEF insert_ctx_to_conn_list
<1> QED BY <1>4, <1>5

(* Connecting keeps conn_list a list of contexts.                          *)
LEMMA ConnectType ==
    ASSUME NEW s \in Seq(Ctx), NEW c \in Ctx
    PROVE  insert_ctx_to_conn_list(s, c) \in Seq(Ctx)
<1>1. CASE s = <<>> \/ Prio[Last(s)] < Prio[c]
  BY <1>1, AppendProperties DEF insert_ctx_to_conn_list
<1>2. CASE ~(s = <<>> \/ Prio[Last(s)] < Prio[c])
  BY <1>2, ConnectPosition, InsertAtShape
<1> QED BY <1>1, <1>2

(* select_ctx_to_block() returns a connected context or none.              *)
LEMMA BlockType ==
    ASSUME conn_list \in Seq(Ctx), NEW p
    PROVE  select_ctx_to_block(p) \in Ctx \cup {NoCtx}
<1> DEFINE able == {i \in 1..Len(conn_list) : /\ Prio[conn_list[i]] >= p
                                             /\ ~should_block[conn_list[i]]}
           k == CHOOSE i \in able : \A j \in able : j <= i
<1>1. CASE able = {}
  BY <1>1 DEF select_ctx_to_block
<1>2. CASE able # {}
  <2>1. able \in SUBSET (1..Len(conn_list)) /\ Len(conn_list) \in Nat
    OBVIOUS
  <2>2. \E i \in able : \A j \in able : j <= i
    BY <1>2, <2>1, BoundedHasMax
  <2>3. k \in able
    BY <2>2
  <2>4. select_ctx_to_block(p) = conn_list[k]
    BY <1>2 DEF select_ctx_to_block
  <2> QED BY <2>1, <2>3, <2>4
<1> QED BY <1>1, <1>2
(* A group of variables that a step leaves alone keeps its types.          *)
LEMMA FrameTypes ==
    /\ CtxTypes /\ UNCHANGED ctxVars => CtxTypes'
    /\ JobTypes /\ UNCHANGED <<jobVars, comp>> => JobTypes'
    /\ ListTypes /\ UNCHANGED <<listVars, status>> => ListTypes'
    /\ WorkTypes /\ UNCHANGED <<workVars, work_q>> => WorkTypes'
    /\ LockTypes /\ UNCHANGED lockVars => LockTypes'
    /\ ThreadTypes /\ UNCHANGED thrVars => ThreadTypes'
<1>1. CtxTypes /\ UNCHANGED ctxVars => CtxTypes'
  BY DEF CtxTypes, ctxVars
<1>2. JobTypes /\ UNCHANGED <<jobVars, comp>> => JobTypes'
  BY DEF JobTypes, jobVars
<1>3. ListTypes /\ UNCHANGED <<listVars, status>> => ListTypes'
  BY DEF ListTypes, listVars
<1>4. WorkTypes /\ UNCHANGED <<workVars, work_q>> => WorkTypes'
  BY DEF WorkTypes, workVars
<1>5. LockTypes /\ UNCHANGED lockVars => LockTypes'
  BY DEF LockTypes, lockVars
<1>6. ThreadTypes /\ UNCHANGED thrVars => ThreadTypes'
  BY DEF ThreadTypes, thrVars
<1> QED BY <1>1, <1>2, <1>3, <1>4, <1>5, <1>6

(* Every step keeps the types, given the inductive invariant: it puts      *)
(* contexts where the code dereferences one, and keeps hwctx_cnt positive  *)
(* where it is decremented.                                                *)
LEMMA TypeStep ==
    ASSUME RqInv, [Next]_vars
    PROVE  TypeOK'
<1>t. TypeOK
  BY DEF RqInv
<1>c. \A t \in Thread : pc[t] # "out" => tctx[t] \in Ctx
  BY DEF RqInv, ThreadsListed
<1>1. ASSUME NEW c \in Ctx, CtxCreate(c) PROVE TypeOK'
  <2>1. CtxTypes'
    BY <1>1, <1>t DEF CtxCreate, TypeOK, CtxTypes, ctxVars
  <2>2. JobTypes'
    BY <1>1, <1>t DEF CtxCreate, TypeOK, JobTypes, jobVars
  <2>3. ListTypes'
    BY <1>1, <1>t DEF CtxCreate, TypeOK, ListTypes, listVars, Status
  <2> QED BY <2>1, <2>2, <2>3, <1>1, <1>t, FrameTypes DEF CtxCreate, TypeOK
<1>2. ASSUME NEW c \in Ctx, CtxErase(c) PROVE TypeOK'
  <2>1. CtxTypes'
    BY <1>2, <1>t DEF CtxErase, TypeOK, CtxTypes, ctxVars
  <2> QED BY <2>1, <1>2, <1>t, FrameTypes DEF CtxErase, TypeOK
<1>3. ASSUME NEW c \in Ctx, RqDel(c) PROVE TypeOK'
  <2>1. CtxTypes'
    BY <1>3, <1>t DEF RqDel, TypeOK, CtxTypes
  <2>2. WorkTypes'
    <3>1. work_q' \in Seq(Work)
      BY <1>3, AfterAbortType DEF RqDel
    <3> QED BY <3>1, <1>3, <1>t DEF RqDel, TypeOK, WorkTypes, workVars
  <2>3. disconn_list' \subseteq Ctx /\ conn_list' \in Seq(Ctx)
        /\ runqueue' \in [Priority -> Seq(Ctx)]
    BY <1>3, <1>t, RemoveType, ConstantsAssumption DEF RqDel, TypeOK, ListTypes
  <2>4. CASE ctx_should_stop(c)
    <3>1. StopHwctx(c, TRUE) /\ UNCHANGED <<cnt, runqueue_total, comp>>
      BY <1>3, <2>4 DEF RqDel
    <3>2. /\ status' \in [Ctx -> Status] /\ hwctx_cnt' \in Nat
          /\ (UNCHANGED comp => JobTypes')
      BY <3>1, StopHwctxType
    <3>3. ListTypes'
      BY <2>3, <3>1, <3>2, <1>t DEF TypeOK, ListTypes
    <3> QED BY <2>1, <2>2, <3>1, <3>2, <3>3, <1>3, <1>t, FrameTypes DEF TypeOK, RqDel
  <2>5. CASE ~ctx_should_stop(c)
    <3>1. UNCHANGED <<jobVars, status, hwctx_cnt, cnt, runqueue_total, comp>>
      BY <1>3, <2>5 DEF RqDel
    <3>2. ListTypes'
      BY <2>3, <3>1, <1>t DEF TypeOK, ListTypes
    <3> QED BY <2>1, <2>2, <3>1, <3>2, <1>3, <1>t, FrameTypes DEF TypeOK, RqDel
  <2> QED BY <2>4, <2>5
<1>4. ASSUME NEW c \in Ctx, CtxFree(c) PROVE TypeOK'
  <2>1. CtxTypes'
    BY <1>4, <1>t DEF CtxFree, TypeOK, CtxTypes, ctxVars
  <2>2. WorkTypes'
    BY <1>4, <1>t, CancelWorkType DEF CtxFree, TypeOK, WorkTypes, workVars
  <2> QED BY <2>1, <2>2, <1>4, <1>t, FrameTypes DEF CtxFree, TypeOK
<1>5. ASSUME NEW c \in Ctx, JobRun(c) PROVE TypeOK'
  <2>1. JobTypes'
    BY <1>5, <1>t DEF JobRun, TypeOK, JobTypes, jobVars
  <2> QED BY <2>1, <1>5, <1>t, FrameTypes DEF JobRun, TypeOK
<1>6. ASSUME NEW c \in Ctx, JobRunFail(c) PROVE TypeOK'
  <2>1. JobTypes'
    BY <1>6, <1>t DEF JobRunFail, TypeOK, JobTypes, jobVars
  <2> QED BY <2>1, <1>6, <1>t, FrameTypes DEF JobRunFail, TypeOK
<1>7. ASSUME NEW c \in Ctx, JobComplete(c) PROVE TypeOK'
  <2>1. JobTypes'
    BY <1>7, <1>t DEF JobComplete, TypeOK, JobTypes, jobVars
  <2> QED BY <2>1, <1>7, <1>t, FrameTypes DEF JobComplete, TypeOK
<1>8. ASSUME NEW c \in Ctx, NotifyCheck(c) PROVE TypeOK'
  <2>1. JobTypes'
    BY <1>8, <1>t DEF NotifyCheck, TypeOK, JobTypes, jobVars
  <2> QED BY <2>1, <1>8, <1>t, FrameTypes DEF NotifyCheck, TypeOK
<1>9. ASSUME NEW c \in Ctx, NotifyYield(c) PROVE TypeOK'
  <2>1. JobTypes'
    BY <1>9, <1>t DEF NotifyYield, TypeOK, JobTypes, jobVars
  <2>2. ListTypes'
    BY <1>9, <1>t DEF NotifyYield, TypeOK, ListTypes, listVars, aie2_rq_yield, Status
  <2>3. WorkTypes'
    BY <1>9, <1>t, QueueWorkType, WorkItems DEF NotifyYield, TypeOK, WorkTypes, workVars, aie2_rq_yield
  <2> QED BY <2>1, <2>2, <2>3, <1>9, <1>t, FrameTypes DEF NotifyYield, TypeOK
<1>10. ASSUME NEW t \in Thread, NEW c \in Ctx, SubmitStart(t, c) PROVE TypeOK'
  <2>1. ThreadTypes'
    BY <1>10, <1>t DEF SubmitStart, TypeOK, ThreadTypes, thrVars, ThreadPc
  <2> QED BY <2>1, <1>10, <1>t, FrameTypes DEF SubmitStart, TypeOK
<1>11. ASSUME NEW t \in Thread, SubmitEnter(t) PROVE TypeOK'
  <2>1. ThreadTypes'
    BY <1>11, <1>t DEF SubmitEnter, TypeOK, ThreadTypes, thrVars, ThreadPc, Leave
  <2> QED BY <2>1, <1>11, <1>t, FrameTypes DEF SubmitEnter, TypeOK
<1>12. ASSUME NEW t \in Thread, SubmitSlow(t) PROVE TypeOK'
  <2>1. CtxTypes'
    BY <1>12, <1>t, <1>c DEF SubmitSlow, TypeOK, CtxTypes, ctxVars
  <2>2. WorkTypes'
    BY <1>12, <1>t, QueueWorkType, WorkItems DEF SubmitSlow, TypeOK, WorkTypes, workVars, RqInv, ThreadsListed
  <2>3. ThreadTypes'
    BY <1>12, <1>t DEF SubmitSlow, TypeOK, ThreadTypes, thrVars, ThreadPc
  <2> QED BY <2>1, <2>2, <2>3, <1>12, <1>t, FrameTypes DEF SubmitSlow, TypeOK
<1>13. ASSUME NEW t \in Thread, SubmitWake(t) PROVE TypeOK'
  <2>1. CtxTypes'
    BY <1>13, <1>t, <1>c DEF SubmitWake, TypeOK, CtxTypes, ctxVars
  <2>2. ThreadTypes'
    BY <1>13, <1>t DEF SubmitWake, TypeOK, ThreadTypes, thrVars, ThreadPc, Leave
  <2> QED BY <2>1, <2>2, <1>13, <1>t, FrameTypes DEF SubmitWake, TypeOK
<1>14. ASSUME NEW t \in Thread, SubmitGranted(t) PROVE TypeOK'
  <2>1. CtxTypes'
    BY <1>14, <1>t, <1>c DEF SubmitGranted, TypeOK, CtxTypes, ctxVars
  <2>2. ThreadTypes'
    BY <1>14, <1>t DEF SubmitGranted, TypeOK, ThreadTypes, thrVars, ThreadPc
  <2> QED BY <2>1, <2>2, <1>14, <1>t, FrameTypes DEF SubmitGranted, TypeOK
<1>15. ASSUME NEW t \in Thread, SubmitSignal(t) PROVE TypeOK'
  <2>1. ThreadTypes'
    BY <1>15, <1>t DEF SubmitSignal, TypeOK, ThreadTypes, thrVars, ThreadPc
  <2> QED BY <2>1, <1>15, <1>t, FrameTypes DEF SubmitSignal, TypeOK
<1>16. ASSUME NEW t \in Thread, SubmitCancelWork(t) PROVE TypeOK'
  <2>1. CtxTypes'
    BY <1>16, <1>t, <1>c DEF SubmitCancelWork, TypeOK, CtxTypes, ctxVars
  <2>2. WorkTypes'
    BY <1>16, <1>t, CancelWorkType DEF SubmitCancelWork, TypeOK, WorkTypes, workVars
  <2>3. ThreadTypes'
    BY <1>16, <1>t DEF SubmitCancelWork, TypeOK, ThreadTypes, thrVars, ThreadPc
  <2> QED BY <2>1, <2>2, <2>3, <1>16, <1>t, FrameTypes DEF SubmitCancelWork, TypeOK
<1>17. ASSUME NEW t \in Thread, SubmitCleanup(t) PROVE TypeOK'
  <2> DEFINE c == tctx[t]
  <2>1. c \in Ctx
    BY <1>17 DEF SubmitCleanup, RqInv, ThreadsListed
  <2>2. ThreadTypes'
    BY <1>17, <1>t DEF SubmitCleanup, Leave, TypeOK, ThreadTypes, ThreadPc
  <2>3. WorkTypes'
    <3>1. work_q' \in Seq(Work)
      BY <1>17, <1>t, <2>1, AfterAbortType, QueueWorkType, WorkItems
      DEF SubmitCleanup, TypeOK, WorkTypes
    <3> QED BY <3>1, <1>17, <1>t DEF SubmitCleanup, TypeOK, WorkTypes, workVars
  <2>4. ListTypes' /\ JobTypes'
    <3>0. UNCHANGED comp
      BY <1>17 DEF SubmitCleanup
    <3>1. CASE rq_ctx_cancel(c)
      <4>1. /\ conn_list' \in Seq(Ctx) /\ disconn_list' \subseteq Ctx
            /\ runqueue' \in [Priority -> Seq(Ctx)]
        BY <3>1, <2>1, <1>t, RemoveType, ConstantsAssumption
        DEF rq_ctx_cancel, MoveToDisconn, TypeOK, ListTypes
      <4>2. ListTypes'
        BY <4>1, <3>1, <2>1, <1>t, ConstantsAssumption DEF rq_ctx_cancel, TypeOK, ListTypes, Status
      <4> QED BY <4>2, <3>1, <3>0, <1>t, FrameTypes DEF rq_ctx_cancel, TypeOK
    <3>2. CASE StopCtx(c, TRUE)
      BY <3>0, <3>2, <2>1, StopCtxType
    <3>3. CASE UNCHANGED <<status, jobVars, listVars>>
      BY <3>0, <3>3, <1>t, FrameTypes DEF TypeOK
    <3> QED BY <1>17, <3>1, <3>2, <3>3 DEF SubmitCleanup
  <2> QED BY <2>2, <2>3, <2>4, <1>17, <1>t, FrameTypes DEF TypeOK, SubmitCleanup
<1>18. ASSUME NEW t \in Thread, SubmitJob(t) PROVE TypeOK'
  <2>1. JobTypes'
    BY <1>18, <1>t, <1>c DEF SubmitJob, TypeOK, JobTypes, jobVars
  <2>2. ThreadTypes'
    BY <1>18, <1>t DEF SubmitJob, TypeOK, ThreadTypes, thrVars, ThreadPc, Leave
  <2> QED BY <2>1, <2>2, <1>18, <1>t, FrameTypes DEF SubmitJob, TypeOK
<1>19. ASSUME NEW t \in Thread, SubmitFail(t) PROVE TypeOK'
  <2>1. ListTypes'
    BY <1>19, <1>t DEF SubmitFail, TypeOK, ListTypes, listVars, aie2_rq_yield, Status
  <2>2. WorkTypes'
    BY <1>19, <1>t, QueueWorkType, WorkItems DEF SubmitFail, TypeOK, WorkTypes, workVars, aie2_rq_yield, RqInv, ThreadsListed
  <2>3. ThreadTypes'
    BY <1>19, <1>t DEF SubmitFail, TypeOK, ThreadTypes, thrVars, ThreadPc, Leave
  <2> QED BY <2>1, <2>2, <2>3, <1>19, <1>t, FrameTypes DEF SubmitFail, TypeOK
<1>20. ASSUME WorkStart PROVE TypeOK'
  <2>1. WorkTypes'
    BY <1>20, <1>t, HeadTailProperties DEF WorkStart, TypeOK, WorkTypes, workVars
  <2> QED BY <2>1, <1>20, <1>t, FrameTypes DEF WorkStart, TypeOK
<1>21. ASSUME RqDispatchWork PROVE TypeOK'
  <2> DEFINE c == cur.ctx
  <2>1. c \in Ctx
    BY <1>21, WorkItems DEF RqDispatchWork, RqInv, WorkerHoldsItem, Kind
  <2>2. WorkTypes'
    BY <1>21, <1>t, QueueWorkType, WorkItems DEF RqDispatchWork, TypeOK, WorkTypes, WorkEnd
  <2>3. ListTypes'
    <3>1. CASE rq_ctx_dispatch(c)
      <4>1. conn_list' \in Seq(Ctx) /\ disconn_list' \subseteq Ctx
        BY <3>1, <1>t, RemoveType DEF rq_ctx_dispatch, TypeOK, ListTypes
      <4>2. runqueue' \in [Priority -> Seq(Ctx)]
        <5>1. Append(RemoveFirst(runqueue[Prio[c]], c), c) \in Seq(Ctx)
          BY <2>1, <1>t, RemoveType, AppendProperties, ConstantsAssumption DEF TypeOK, ListTypes
        <5> QED BY <5>1, <3>1, <1>t DEF rq_ctx_dispatch, TypeOK, ListTypes
      <4> QED BY <4>1, <4>2, <3>1, <2>1, <1>t, ConstantsAssumption
              DEF rq_ctx_dispatch, TypeOK, ListTypes, Status
    <3>2. CASE UNCHANGED <<listVars, status>>
      BY <3>2, <1>t, FrameTypes DEF TypeOK
    <3> QED BY <1>21, <3>1, <3>2 DEF RqDispatchWork
  <2> QED BY <2>2, <2>3, <1>21, <1>t, FrameTypes DEF TypeOK, RqDispatchWork
<1>22. ASSUME RqYieldWork PROVE TypeOK'
  <2> DEFINE c == cur.ctx
  <2>1. c \in Ctx
    BY <1>22, WorkItems DEF RqYieldWork, RqInv, WorkerHoldsItem, Kind
  <2>2. WorkTypes'
    BY <1>22, <1>t, QueueWorkType, WorkItems DEF RqYieldWork, TypeOK, WorkTypes, WorkEnd
  <2>3. CtxTypes'
    BY <1>22, <1>t DEF RqYieldWork, TypeOK, CtxTypes
  <2>4. ListTypes' /\ JobTypes'
    <3>0. UNCHANGED comp
      BY <1>22 DEF RqYieldWork
    <3>1. CASE UNCHANGED <<jobVars, listVars, status>>
      BY <3>0, <3>1, <1>t, FrameTypes DEF TypeOK
    <3>2. CASE UNCHANGED <<jobVars, listVars>> /\ status' = [status EXCEPT ![c] = "CONNECTED"]
      <4>1. ListTypes'
        BY <3>2, <1>t DEF TypeOK, ListTypes, listVars, Status
      <4> QED BY <4>1, <3>0, <3>2, <1>t, FrameTypes DEF TypeOK
    <3>3. CASE StopCtx(c, TRUE)
      BY <3>0, <3>3, <2>1, StopCtxType
    <3> QED BY <1>22, <3>1, <3>2, <3>3 DEF RqYieldWork
  <2> QED BY <2>2, <2>3, <2>4, <1>22, <1>t, FrameTypes DEF TypeOK, RqYieldWork
<1>23. ASSUME RqSchedLock PROVE TypeOK'
  <2>1. WorkTypes'
    BY <1>23, <1>t DEF RqSchedLock, TypeOK, WorkTypes, workVars
  <2>2. LockTypes'
    BY <1>23, <1>t DEF RqSchedLock, TypeOK, LockTypes, lockVars
  <2> QED BY <2>1, <2>2, <1>23, <1>t, FrameTypes DEF RqSchedLock, TypeOK
<1>24. ASSUME RqSchedConnect PROVE TypeOK'
  <2> DEFINE c == select_next_ctx(NoCtx)
  <2>1. c \in Ctx
    BY <1>24 DEF RqSchedConnect
  <2>2. conn_list' \in Seq(Ctx) /\ hwctx_cnt' \in Nat
    BY <1>24, <1>t, <2>1, ConnectType DEF RqSchedConnect, TypeOK, ListTypes
  <2>3. disconn_list' \subseteq Ctx /\ runqueue' \in [Priority -> Seq(Ctx)]
    BY <1>24, <1>t, <2>1, RemoveType, ConstantsAssumption DEF RqSchedConnect, TypeOK, ListTypes
  <2>4. /\ status' \in [Ctx -> Status]
        /\ cnt' \in [Priority -> Int] /\ runqueue_total' \in Int
    <3>1. Prio[c] \in Priority /\ cnt[Prio[c]] \in Int
      BY <1>t, <2>1, ConstantsAssumption DEF TypeOK, ListTypes
    <3>2. /\ cnt' = [cnt EXCEPT ![Prio[c]] = cnt[Prio[c]] - 1]
          /\ runqueue_total' = runqueue_total - 1
          /\ \E v \in Status : status' = [status EXCEPT ![c] = v]
      BY <1>24 DEF RqSchedConnect, Status
    <3> HIDE DEF c
    <3>3. /\ cnt \in [Priority -> Int] /\ runqueue_total \in Int
          /\ status \in [Ctx -> Status]
      BY <1>t DEF TypeOK, ListTypes
    <3>4. status' \in [Ctx -> Status]
      BY <3>2, <3>3
    <3>5. cnt' \in [Priority -> Int] /\ runqueue_total' \in Int
      BY <3>1, <3>2, <3>3
    <3> QED BY <3>4, <3>5
  <2>5. ListTypes'
    BY <2>2, <2>3, <2>4 DEF ListTypes
  <2> QED BY <2>5, <1>24, <1>t, FrameTypes DEF TypeOK, RqSchedConnect
<1>25. ASSUME RqSchedConnectDone PROVE TypeOK'
  <2>1. WorkTypes'
    BY <1>25, <1>t DEF RqSchedConnectDone, TypeOK, WorkTypes, workVars, WorkEnd
  <2>2. LockTypes'
    BY <1>25, <1>t DEF RqSchedConnectDone, TypeOK, LockTypes, lockVars, SchedUnlock
  <2> QED BY <2>1, <2>2, <1>25, <1>t, FrameTypes DEF RqSchedConnectDone, TypeOK
<1>26. ASSUME RqSchedMark PROVE TypeOK'
  <2>1. select_ctx_to_block(Prio[nxt]) \in Ctx \cup {NoCtx}
    BY <1>t, BlockType DEF TypeOK, ListTypes
  <2>2. WorkTypes'
    BY <1>26, <1>t, <2>1 DEF RqSchedMark, TypeOK, WorkTypes, WorkEnd
  <2>3. CtxTypes'
    BY <1>26, <1>t DEF RqSchedMark, TypeOK, CtxTypes
  <2>4. LockTypes'
    BY <1>26, <1>t DEF RqSchedMark, TypeOK, LockTypes, SchedUnlock, lockVars
  <2> QED BY <2>2, <2>3, <2>4, <1>26, <1>t, FrameTypes DEF TypeOK, RqSchedMark
<1>27. ASSUME RqSchedCheck PROVE TypeOK'
  <2>1. ListTypes'
    BY <1>27, <1>t DEF RqSchedCheck, TypeOK, ListTypes, listVars, Status
  <2>2. WorkTypes'
    BY <1>27, <1>t, QueueWorkType, WorkItems DEF RqSchedCheck, TypeOK, WorkTypes, workVars, RqInv, WorkerHoldsItem, WorkEnd
  <2>3. LockTypes'
    BY <1>27, <1>t DEF RqSchedCheck, TypeOK, LockTypes, lockVars, SchedUnlock
  <2> QED BY <2>1, <2>2, <2>3, <1>27, <1>t, FrameTypes DEF RqSchedCheck, TypeOK
<1>28. ASSUME TdrLock PROVE TypeOK'
  <2>1. LockTypes'
    BY <1>28, <1>t DEF TdrLock, TypeOK, LockTypes, lockVars, ListTypes
  <2> QED BY <2>1, <1>28, <1>t, FrameTypes DEF TdrLock, TypeOK
<1>29. ASSUME TdrScan PROVE TypeOK'
  <2>1. Head(todo) \in Ctx /\ Tail(todo) \in Seq(Ctx)
    BY <1>29, <1>t, HeadTailProperties DEF TdrScan, TypeOK, LockTypes
  <2>2. LockTypes'
    BY <1>29, <1>t, <2>1 DEF TdrScan, TypeOK, LockTypes
  <2>3. WorkTypes'
    BY <1>29, <1>t, <2>1, QueueWorkType, WorkItems DEF TdrScan, TypeOK, WorkTypes, workVars
  <2>4. CtxTypes'
    <3>1. idle_cnt[Head(todo)] + 1 \in Nat
      BY <1>t, <2>1 DEF TypeOK, CtxTypes
    <3>2. /\ \E v \in Nat : idle_cnt' = [idle_cnt EXCEPT ![Head(todo)] = v]
          /\ UNCHANGED <<alive, should_block, job_pending_cnt, last_completed, ctx_cnt>>
      BY <1>29, <3>1 DEF TdrScan
    <3> QED BY <1>t, <3>2 DEF TypeOK, CtxTypes
  <2> QED BY <2>2, <2>3, <2>4, <1>29, <1>t, FrameTypes DEF TypeOK, TdrScan
<1>30. ASSUME TdrScanDone PROVE TypeOK'
  <2>1. LockTypes'
    BY <1>30, <1>t DEF TdrScanDone, TypeOK, LockTypes, lockVars
  <2> QED BY <2>1, <1>30, <1>t, FrameTypes DEF TdrScanDone, TypeOK
<1>31. ASSUME TdrStuck PROVE TypeOK'
  <2>1. CtxTypes'
    BY <1>31, <1>t DEF TdrStuck, TypeOK, CtxTypes, ctxVars, JobTypes
  <2>2. LockTypes'
    BY <1>31, <1>t DEF TdrStuck, TypeOK, LockTypes, lockVars
  <2> QED BY <2>1, <2>2, <1>31, <1>t, FrameTypes DEF TdrStuck, TypeOK
<1>32. ASSUME TdrRecover PROVE TypeOK'
  <2>1. LockTypes'
    BY <1>32, <1>t DEF TdrRecover, TypeOK, LockTypes, lockVars, ListTypes
  <2> QED BY <2>1, <1>32, <1>t, FrameTypes DEF TdrRecover, TypeOK
<1>33. ASSUME RqPauseCtx PROVE TypeOK'
  <2>1. Head(todo) \in Ctx /\ Tail(todo) \in Seq(Ctx)
    BY <1>33, <1>t, HeadTailProperties DEF RqPauseCtx, TypeOK, LockTypes
  <2>2. LockTypes'
    BY <1>33, <1>t, <2>1 DEF RqPauseCtx, TypeOK, LockTypes
  <2>3. WorkTypes'
    <3>1. work_q' \in Seq(Work)
      BY <1>33, <2>1, AfterAbortType DEF RqPauseCtx
    <3> QED BY <3>1, <1>33, <1>t DEF RqPauseCtx, TypeOK, WorkTypes, workVars
  <2>4. ListTypes' /\ JobTypes'
    BY <1>33, <2>1, StopCtxType DEF RqPauseCtx
  <2> QED BY <2>2, <2>3, <2>4, <1>33, <1>t, FrameTypes DEF TypeOK, RqPauseCtx
<1>34. ASSUME TdrRunAll PROVE TypeOK'
  <2>1. WorkTypes'
    BY <1>34, <1>t, QueueWorkType, WorkItems DEF TdrRunAll, TypeOK, WorkTypes, workVars
  <2>2. LockTypes'
    BY <1>34, <1>t DEF TdrRunAll, TypeOK, LockTypes, lockVars
  <2> QED BY <2>1, <2>2, <1>34, <1>t, FrameTypes DEF TdrRunAll, TypeOK
<1>35. ASSUME Suspend PROVE TypeOK'
  <2>1. LockTypes'
    BY <1>35, <1>t DEF Suspend, TypeOK, LockTypes, lockVars, ListTypes
  <2> QED BY <2>1, <1>35, <1>t, FrameTypes DEF Suspend, TypeOK
<1>36. ASSUME SuspendDone PROVE TypeOK'
  <2>1. LockTypes'
    BY <1>36, <1>t DEF SuspendDone, TypeOK, LockTypes, lockVars
  <2> QED BY <2>1, <1>36, <1>t, FrameTypes DEF SuspendDone, TypeOK
<1>37. ASSUME Resume PROVE TypeOK'
  <2>1. WorkTypes'
    BY <1>37, <1>t, QueueWorkType, WorkItems DEF Resume, TypeOK, WorkTypes, workVars
  <2>2. LockTypes'
    BY <1>37, <1>t DEF Resume, TypeOK, LockTypes, lockVars
  <2> QED BY <2>1, <2>2, <1>37, <1>t, FrameTypes DEF Resume, TypeOK
<1>38. CASE UNCHANGED vars
  BY <1>38, <1>t, FrameTypes DEF TypeOK, vars
<1> QED BY <1>1, <1>2, <1>3, <1>4, <1>5, <1>6, <1>7, <1>8, <1>9, <1>10, <1>11, <1>12, <1>13, <1>14, <1>15, <1>16, <1>17, <1>18, <1>19, <1>20, <1>21, <1>22, <1>23, <1>24, <1>25, <1>26, <1>27, <1>28, <1>29, <1>30, <1>31, <1>32, <1>33, <1>34, <1>35, <1>36, <1>37, <1>38
        DEF Next, CtxStep, JobStep, ThreadStep, WorkStep, TdrStep, PmStep

-----------------------------------------------------------------------------
(* The lists                                                               *)

(* A step that moves no context, and changes a status to a connected one   *)
(* only, keeps the lists in order.                                         *)
LEMMA FrameList ==
    ASSUME ListInv, UNCHANGED <<conn_list, disconn_list, runqueue, hwctx_cnt>>,
           \A c \in Ctx : Listed(c)' <=> Listed(c),
           \A c \in Ctx : \/ status'[c] = status[c]
                          \/ status'[c] \in {"CONNECTED", "DISCONNECTING"}
    PROVE  ListInv' /\ KeepsBusyCtx
<1>1. OneList'
  BY DEF ListInv, OneList, Connected, Waiting
<1>2. ConnStatus'
  BY DEF ListInv, ConnStatus, Connected, ctx_should_stop
<1>3. ConnListOrdered' /\ HwctxCntExact'
  BY DEF ListInv, ConnListOrdered, HwctxCntExact
<1> QED BY <1>1, <1>2, <1>3 DEF ListInv, KeepsBusyCtx, Connected

(* Unlinking a context from conn_list keeps its order.                     *)
LEMMA UnlinkConn ==
    ASSUME TypeOK, ListInv, NEW c \in Ctx, conn_list' = RemoveFirst(conn_list, c)
    PROVE  /\ IsInjective(conn_list')
           /\ \A d \in Ctx : Connected(d)' <=> Connected(d) /\ d # c
           /\ Len(conn_list') = IF Connected(c) THEN Len(conn_list) - 1 ELSE Len(conn_list)
           /\ ConnListOrdered'
<1> DEFINE s == conn_list
           r == RemoveFirst(s, c)
<1>1. s \in Seq(Ctx) /\ IsInjective(s)
  BY DEF TypeOK, ListTypes, ListInv, OneList
<1>2. /\ IsInjective(r)
      /\ Len(r) = IF Contains(s, c) THEN Len(s) - 1 ELSE Len(s)
      /\ \A x : Contains(r, x) <=> Contains(s, x) /\ x # c
      /\ \A i, j \in DOMAIN r : i < j =>
            \E k, l \in DOMAIN s : k < l /\ r[i] = s[k] /\ r[j] = s[l]
  BY <1>1, RemoveFirstProperties
<1> HIDE DEF r
<1>3. ConnListOrdered'
  <2> SUFFICES ASSUME NEW i \in DOMAIN r, NEW j \in DOMAIN r, i < j
               PROVE  Prio[r[i]] <= Prio[r[j]]
    BY DEF ConnListOrdered, r
  <2>1. PICK k, l \in DOMAIN s : k < l /\ r[i] = s[k] /\ r[j] = s[l]
    BY <1>2
  <2> QED BY <2>1 DEF ListInv, ConnListOrdered
<1> QED BY <1>2, <1>3 DEF Connected, r

(* Unlinking a context from the run queue leaves the others where they are.*)
LEMMA UnlinkQueue ==
    ASSUME TypeOK, ListInv, NEW c \in Ctx,
           runqueue' = [runqueue EXCEPT ![Prio[c]] = RemoveFirst(@, c)]
    PROVE  /\ \A p \in Priority : IsInjective(runqueue'[p])
           /\ \A p \in Priority, d \in Ctx : Contains(runqueue'[p], d) => Prio[d] = p
           /\ \A d \in Ctx : Waiting(d)' <=> Waiting(d) /\ d # c
<1>1. /\ Prio \in [Ctx -> Priority]
      /\ runqueue \in [Priority -> Seq(Ctx)]
      /\ \A p \in Priority : IsInjective(runqueue[p])
      /\ \A p \in Priority, d \in Ctx : Contains(runqueue[p], d) => Prio[d] = p
  BY ConstantsAssumption DEF TypeOK, ListTypes, ListInv, OneList
<1> DEFINE r == RemoveFirst(runqueue[Prio[c]], c)
<1>2. IsInjective(r) /\ \A x : Contains(r, x) <=> Contains(runqueue[Prio[c]], x) /\ x # c
  BY <1>1, RemoveFirstProperties
<1> HIDE DEF r
<1>3. \A p \in Priority : runqueue'[p] = IF p = Prio[c] THEN r ELSE runqueue[p]
  BY <1>1 DEF r
<1>4. \A d \in Ctx : Waiting(d)' <=> Waiting(d) /\ d # c
  BY <1>1, <1>2, <1>3 DEF Waiting
<1> QED BY <1>1, <1>2, <1>3, <1>4

(* rq_ctx_stop_wait() of any context.                                      *)
LEMMA StopCtxList ==
    ASSUME TypeOK, ListInv, NEW c \in Ctx, NEW wait, StopCtx(c, wait),
           UNCHANGED alive, Readers(c) = {}
    PROVE  ListInv' /\ KeepsBusyCtx
<1>1. CASE ctx_should_stop(c)
  <2>1. /\ Connected(c) /\ hwctx_cnt' = hwctx_cnt - 1
        /\ status' = [status EXCEPT ![c] = "DISCONNECTED"]
        /\ conn_list' = RemoveFirst(conn_list, c)
        /\ runqueue' = [runqueue EXCEPT ![Prio[c]] = RemoveFirst(@, c)]
        /\ disconn_list' = disconn_list \cup {c}
    BY <1>1 DEF StopCtx, StopHwctx, MoveToDisconn
  <2>2. /\ IsInjective(conn_list')
        /\ \A d \in Ctx : Connected(d)' <=> Connected(d) /\ d # c
        /\ Len(conn_list') = Len(conn_list) - 1
        /\ ConnListOrdered'
    BY <2>1, UnlinkConn
  <2>3. /\ \A p \in Priority : IsInjective(runqueue'[p])
        /\ \A p \in Priority, d \in Ctx : Contains(runqueue'[p], d) => Prio[d] = p
        /\ \A d \in Ctx : Waiting(d)' <=> Waiting(d) /\ d # c
    BY <2>1, UnlinkQueue
  <2>4. OneList'
    BY <2>1, <2>2, <2>3 DEF ListInv, OneList, Listed
  <2>5. ConnStatus'
    BY <2>1, <2>2 DEF ListInv, ConnStatus, ctx_should_stop, TypeOK, ListTypes
  <2>6. HwctxCntExact'
    BY <2>1, <2>2, ConstantsAssumption DEF ListInv, HwctxCntExact, TypeOK, ListTypes
  <2> QED BY <2>2, <2>4, <2>5, <2>6 DEF ListInv, KeepsBusyCtx, Readers
<1>2. CASE ~ctx_should_stop(c)
  BY <1>2, FrameList DEF StopCtx, Listed, listVars
<1> QED BY <1>1, <1>2

(* rq_ctx_cancel() of a dispatched context.                                *)
LEMMA CancelList ==
    ASSUME TypeOK, ListInv, NEW c \in Ctx, status[c] = "DISPATCHED", rq_ctx_cancel(c),
           Listed(c), UNCHANGED alive
    PROVE  ListInv' /\ KeepsBusyCtx
<1>1. /\ ~Connected(c) /\ hwctx_cnt' = hwctx_cnt
      /\ status' = [status EXCEPT ![c] = "DISCONNECTED"]
      /\ conn_list' = RemoveFirst(conn_list, c)
      /\ runqueue' = [runqueue EXCEPT ![Prio[c]] = RemoveFirst(@, c)]
      /\ disconn_list' = disconn_list \cup {c}
  BY DEF rq_ctx_cancel, MoveToDisconn, ListInv, ConnStatus, ctx_should_stop
<1>2. /\ IsInjective(conn_list')
      /\ \A d \in Ctx : Connected(d)' <=> Connected(d) /\ d # c
      /\ Len(conn_list') = Len(conn_list)
      /\ ConnListOrdered'
  BY <1>1, UnlinkConn
<1>3. /\ \A p \in Priority : IsInjective(runqueue'[p])
      /\ \A p \in Priority, d \in Ctx : Contains(runqueue'[p], d) => Prio[d] = p
      /\ \A d \in Ctx : Waiting(d)' <=> Waiting(d) /\ d # c
  BY <1>1, UnlinkQueue
<1>4. OneList'
  BY <1>1, <1>2, <1>3 DEF ListInv, OneList, Listed
<1>5. ConnStatus'
  BY <1>1, <1>2 DEF ListInv, ConnStatus, ctx_should_stop, TypeOK, ListTypes
<1>6. HwctxCntExact'
  BY <1>1, <1>2 DEF ListInv, HwctxCntExact
<1> QED BY <1>1, <1>2, <1>4, <1>5, <1>6 DEF ListInv, KeepsBusyCtx

(* rq_ctx_dispatch() of a disconnected context.                            *)
LEMMA DispatchList ==
    ASSUME TypeOK, ListInv, NEW c \in Ctx, status[c] = "DISCONNECTED", rq_ctx_dispatch(c),
           Listed(c), UNCHANGED alive
    PROVE  ListInv' /\ KeepsBusyCtx
<1>1. /\ ~Connected(c) /\ hwctx_cnt' = hwctx_cnt
      /\ status' = [status EXCEPT ![c] = "DISPATCHED"]
      /\ conn_list' = RemoveFirst(conn_list, c)
      /\ runqueue' = [runqueue EXCEPT ![Prio[c]] = Append(RemoveFirst(@, c), c)]
      /\ disconn_list' = disconn_list \ {c}
  BY DEF rq_ctx_dispatch, ListInv, ConnStatus, ctx_should_stop
<1>2. /\ IsInjective(conn_list')
      /\ \A d \in Ctx : Connected(d)' <=> Connected(d) /\ d # c
      /\ Len(conn_list') = Len(conn_list)
      /\ ConnListOrdered'
  BY <1>1, UnlinkConn
<1>3. /\ Prio \in [Ctx -> Priority]
      /\ runqueue \in [Priority -> Seq(Ctx)]
      /\ \A p \in Priority : IsInjective(runqueue[p])
      /\ \A p \in Priority, d \in Ctx : Contains(runqueue[p], d) => Prio[d] = p
  BY ConstantsAssumption DEF TypeOK, ListTypes, ListInv, OneList
<1> DEFINE r == RemoveFirst(runqueue[Prio[c]], c)
           a == Append(r, c)
<1>4. /\ r \in Seq(Ctx) /\ IsInjective(r)
      /\ \A x : Contains(r, x) <=> Contains(runqueue[Prio[c]], x) /\ x # c
  BY <1>3, RemoveFirstProperties
<1>5. \A p \in Priority : runqueue'[p] = IF p = Prio[c] THEN a ELSE runqueue[p]
  BY <1>1, <1>3
<1> HIDE DEF r
<1>6. IsInjective(a) /\ \A x : Contains(a, x) <=> Contains(r, x) \/ x = c
  BY <1>4, AppendInjectiveProperties
<1> HIDE DEF a
<1>7. /\ \A p \in Priority : IsInjective(runqueue'[p])
      /\ \A p \in Priority, d \in Ctx : Contains(runqueue'[p], d) => Prio[d] = p
      /\ \A d \in Ctx : Waiting(d)' <=> Waiting(d) \/ d = c
  <2>1. \A p \in Priority : IsInjective(runqueue'[p])
    BY <1>3, <1>5, <1>6
  <2>2. \A p \in Priority, d \in Ctx : Contains(runqueue'[p], d) => Prio[d] = p
    BY <1>3, <1>4, <1>5, <1>6
  <2>3. \A d \in Ctx : Waiting(d)' <=> Waiting(d) \/ d = c
    <3>1. \A d \in Ctx : Prio[d] = Prio[c] => (Contains(a, d) <=> Waiting(d) \/ d = c)
      BY <1>4, <1>6 DEF Waiting
    <3>2. \A d \in Ctx : Prio[d] \in Priority
      BY <1>3
    <3> QED BY <1>5, <3>1, <3>2 DEF Waiting
  <2> QED BY <2>1, <2>2, <2>3
<1>8. OneList'
  BY <1>1, <1>2, <1>7 DEF ListInv, OneList, Listed
<1>9. ConnStatus'
  BY <1>1, <1>2 DEF ListInv, ConnStatus, ctx_should_stop, TypeOK, ListTypes
<1>10. HwctxCntExact'
  BY <1>1, <1>2 DEF ListInv, HwctxCntExact
<1> QED BY <1>1, <1>2, <1>8, <1>9, <1>10 DEF ListInv, KeepsBusyCtx

(* The context that rq_sched_work() connects next waits in the run queue,  *)
(* whatever the counters say.                                              *)
LEMMA NextIsWaiting ==
    ASSUME TypeOK, ListInv, select_next_ctx(NoCtx) \in Ctx
    PROVE  Waiting(select_next_ctx(NoCtx))
<1> DEFINE busy == {q \in 1..NumPriority : cnt[q] # 0}
           k == CHOOSE q \in busy : \A r \in busy : q <= r
           c == select_next_ctx(NoCtx)
<1>1. NoCtx \notin Ctx /\ NoWork \notin Ctx /\ Priority = 1..NumPriority
  BY ConstantsAssumption, NoWorkAssumption DEF Priority
<1>2. c = IF busy = {} THEN NoCtx
          ELSE IF runqueue[k] = <<>> THEN NoWork ELSE Head(runqueue[k])
  BY <1>1 DEF select_next_ctx, FirstFrom
<1>3. busy # {} /\ runqueue[k] # <<>> /\ c = Head(runqueue[k])
  BY <1>1, <1>2
<1>4. k \in Priority
  <2>1. busy \in SUBSET Nat
    BY ConstantsAssumption
  <2>2. \E q \in busy : \A r \in busy : q <= r
    BY <1>3, <2>1, NatHasMin
  <2> QED BY <1>1, <2>2
<1> HIDE DEF k, c
<1>5. Contains(runqueue[k], c)
  <2>1. runqueue[k] \in Seq(Ctx)
    BY <1>4 DEF TypeOK, ListTypes
  <2>2. Len(runqueue[k]) \in Nat \ {0} /\ c = runqueue[k][1]
    BY <2>1, <1>3, EmptySeq
  <2> QED BY <2>2 DEF Contains
<1>6. Prio[c] = k
  BY <1>4, <1>5 DEF ListInv, OneList, c
<1> QED BY <1>5, <1>6 DEF Waiting, c

(* Connecting a context keeps conn_list ordered and free of duplicates.    *)
LEMMA ConnectConn ==
    ASSUME TypeOK, ListInv, NEW c \in Ctx, ~Connected(c),
           conn_list' = insert_ctx_to_conn_list(conn_list, c)
    PROVE  /\ IsInjective(conn_list')
           /\ \A d \in Ctx : Connected(d)' <=> Connected(d) \/ d = c
           /\ Len(conn_list') = Len(conn_list) + 1
           /\ ConnListOrdered'
<1> DEFINE s == conn_list
<1>1. /\ s \in Seq(Ctx) /\ IsInjective(s) /\ ~Contains(s, c)
      /\ Len(s) \in Nat /\ DOMAIN s = 1..Len(s)
      /\ \A i \in 1..Len(s) : s[i] \in Ctx
      /\ \A d \in Ctx : Prio[d] \in Int
  <2>1. s \in Seq(Ctx) /\ IsInjective(s) /\ ~Contains(s, c)
    BY DEF TypeOK, ListTypes, ListInv, OneList, Connected
  <2>2. \A d \in Ctx : Prio[d] \in Int
    BY ConstantsAssumption DEF Priority
  <2> QED BY <2>1, <2>2, LenProperties, ElementOfSeq
<1>2. \A i, j \in 1..Len(s) : i < j => Prio[s[i]] <= Prio[s[j]]
  BY <1>1 DEF ListInv, ConnListOrdered
<1>3. CASE s = <<>> \/ Prio[Last(s)] < Prio[c]
  <2> DEFINE r == Append(s, c)
  <2>1. conn_list' = r
    BY <1>3 DEF insert_ctx_to_conn_list
  <2>2. /\ r \in Seq(Ctx) /\ IsInjective(r) /\ Len(r) = Len(s) + 1
        /\ \A x : Contains(r, x) <=> Contains(s, x) \/ x = c
    BY <1>1, AppendInjectiveProperties
  <2>3. (\A i \in 1..Len(s) : r[i] = s[i]) /\ r[Len(s) + 1] = c
    BY <1>1, AppendProperties
  <2>4. DOMAIN r = 1..(Len(s) + 1)
    BY <2>2, LenProperties
  <2> HIDE DEF r
  <2>5. ConnListOrdered'
    <3> SUFFICES ASSUME NEW i \in 1..(Len(s) + 1), NEW j \in 1..(Len(s) + 1), i < j
                 PROVE  Prio[r[i]] <= Prio[r[j]]
      BY <2>1, <2>4 DEF ConnListOrdered
    <3>1. CASE j <= Len(s)
      BY <3>1, <1>1, <1>2, <2>3
    <3>2. CASE j = Len(s) + 1
      <4>1. i \in 1..Len(s) /\ Len(s) # 0 /\ r[i] = s[i] /\ r[j] = c
        BY <3>2, <1>1, <2>3
      <4>2. Prio[s[Len(s)]] < Prio[c]
        BY <4>1, <1>3 DEF Last
      <4>3. Prio[s[i]] <= Prio[s[Len(s)]]
        BY <4>1, <1>1, <1>2
      <4>4. Prio[s[i]] \in Int /\ Prio[s[Len(s)]] \in Int /\ Prio[c] \in Int
        BY <4>1, <1>1
      <4> QED BY <4>1, <4>2, <4>3, <4>4
    <3>3. j <= Len(s) \/ j = Len(s) + 1
      BY <1>1
    <3> QED BY <3>1, <3>2, <3>3
  <2> QED BY <2>1, <2>2, <2>5 DEF Connected
<1>4. CASE ~(s = <<>> \/ Prio[Last(s)] < Prio[c])
  <2>1. PICK k \in 1..Len(s) :
          /\ insert_ctx_to_conn_list(s, c) = InsertAt(s, k, c)
          /\ Prio[s[k]] >= Prio[c]
          /\ \A j \in 1..(k-1) : Prio[s[j]] < Prio[c]
    BY <1>1, <1>4, ConnectPosition
  <2> DEFINE r == InsertAt(s, k, c)
  <2>2. conn_list' = r
    BY <2>1
  <2> HIDE DEF s
  <2>3. /\ r \in Seq(Ctx) /\ Len(r) = Len(s) + 1
        /\ \A j \in 1..(Len(s) + 1) :
              r[j] = IF j < k THEN s[j] ELSE IF j = k THEN c ELSE s[j - 1]
    <3>1. s \in Seq(Ctx)
      BY <1>1
    <3> QED BY ONLY <3>1, c \in Ctx, k \in 1..Len(s), InsertAtShape DEF r
  <2>4. IsInjective(r) /\ \A x : Contains(r, x) <=> Contains(s, x) \/ x = c
    BY <1>1, InsertAtProperties
  <2>5. DOMAIN r = 1..(Len(s) + 1)
    BY <2>3, LenProperties
  <2> HIDE DEF r
  <2>6. ConnListOrdered'
    <3> SUFFICES ASSUME NEW i \in 1..(Len(s) + 1), NEW j \in 1..(Len(s) + 1), i < j
                 PROVE  Prio[r[i]] <= Prio[r[j]]
      BY <2>2, <2>5 DEF ConnListOrdered
    <3> DEFINE d(n) == IF n < k THEN n ELSE n - 1
    <3>1. CASE i # k /\ j # k
      <4>1. d(i) \in 1..Len(s) /\ d(j) \in 1..Len(s) /\ d(i) < d(j)
        BY <3>1, <1>1
      <4>2. r[i] = s[d(i)] /\ r[j] = s[d(j)]
        BY <3>1, <1>1, <2>3
      <4> QED BY <4>1, <4>2, <1>2
    <3>2. CASE i = k
      <4>1. j - 1 \in 1..Len(s) /\ k <= j - 1 /\ r[i] = c /\ r[j] = s[j - 1]
        BY <3>2, <1>1, <2>3
      <4>2. Prio[s[k]] <= Prio[s[j - 1]]
        BY <4>1, <1>1, <1>2
      <4> QED BY <4>1, <4>2, <2>1, <1>1
    <3>3. CASE j = k
      <4>1. i \in 1..(k - 1) /\ r[i] = s[i] /\ r[j] = c
        BY <3>3, <1>1, <2>3
      <4> QED BY <4>1, <2>1, <1>1
    <3> QED BY <3>1, <3>2, <3>3
  <2> QED BY <2>2, <2>3, <2>4, <2>6 DEF Connected, s
<1> QED BY <1>3, <1>4

(* rq_ctx_start(): the waiting context is connected, or dies.              *)
LEMMA ConnectList ==
    ASSUME TypeOK, ListInv, RqSchedConnect
    PROVE  ListInv' /\ KeepsBusyCtx
<1> DEFINE c == select_next_ctx(NoCtx)
<1>1. c \in Ctx /\ Waiting(c) /\ hwctx_cnt # HwctxLimit
  BY NextIsWaiting DEF RqSchedConnect, rq_connect_is_full
<1>2. /\ runqueue' = [runqueue EXCEPT ![Prio[c]] = RemoveFirst(@, c)]
      /\ UNCHANGED alive
      /\ \/ /\ conn_list' = insert_ctx_to_conn_list(conn_list, c)
            /\ hwctx_cnt' = hwctx_cnt + 1
            /\ status' = [status EXCEPT ![c] = "CONNECTED"]
            /\ UNCHANGED disconn_list
         \/ /\ disconn_list' = disconn_list \cup {c}
            /\ status' = [status EXCEPT ![c] = "DEAD"]
            /\ UNCHANGED <<conn_list, hwctx_cnt>>
  BY DEF RqSchedConnect, ctxVars
<1> HIDE DEF c
<1>3. ~Connected(c) /\ c \notin disconn_list /\ Listed(c)
  BY <1>1 DEF ListInv, OneList
<1>4. /\ \A p \in Priority : IsInjective(runqueue'[p])
      /\ \A p \in Priority, d \in Ctx : Contains(runqueue'[p], d) => Prio[d] = p
      /\ \A d \in Ctx : Waiting(d)' <=> Waiting(d) /\ d # c
  BY <1>1, <1>2, UnlinkQueue
<1>5. CASE /\ conn_list' = insert_ctx_to_conn_list(conn_list, c)
           /\ hwctx_cnt' = hwctx_cnt + 1
           /\ status' = [status EXCEPT ![c] = "CONNECTED"]
           /\ UNCHANGED disconn_list
  <2>1. /\ IsInjective(conn_list')
        /\ \A d \in Ctx : Connected(d)' <=> Connected(d) \/ d = c
        /\ Len(conn_list') = Len(conn_list) + 1
        /\ ConnListOrdered'
    BY <1>1, <1>3, <1>5, ConnectConn
  <2>2. OneList'
    BY <1>1, <1>2, <1>3, <1>4, <1>5, <2>1 DEF ListInv, OneList, Listed
  <2>3. ConnStatus'
    BY <1>1, <1>5, <2>1 DEF ListInv, ConnStatus, ctx_should_stop, TypeOK, ListTypes
  <2>4. HwctxCntExact'
    BY <1>1, <1>5, <2>1, ConstantsAssumption DEF ListInv, HwctxCntExact, TypeOK, ListTypes
  <2> QED BY <2>1, <2>2, <2>3, <2>4 DEF ListInv, KeepsBusyCtx
<1>6. CASE /\ disconn_list' = disconn_list \cup {c}
           /\ status' = [status EXCEPT ![c] = "DEAD"]
           /\ UNCHANGED <<conn_list, hwctx_cnt>>
  <2>1. \A d \in Ctx : Connected(d)' <=> Connected(d)
    BY <1>6 DEF Connected
  <2>2. OneList'
    BY <1>1, <1>2, <1>3, <1>4, <1>6, <2>1 DEF ListInv, OneList, Listed
  <2>3. ConnStatus'
    BY <1>1, <1>3, <1>6, <2>1 DEF ListInv, ConnStatus, ctx_should_stop, TypeOK, ListTypes
  <2>4. HwctxCntExact' /\ ConnListOrdered'
    BY <1>6 DEF ListInv, HwctxCntExact, ConnListOrdered
  <2> QED BY <2>1, <2>2, <2>3, <2>4 DEF ListInv, KeepsBusyCtx
<1> QED BY <1>2, <1>5, <1>6

(* aie2_rq_add().                                                          *)
LEMMA CreateList ==
    ASSUME TypeOK, ListInv, NEW c \in Ctx, CtxCreate(c)
    PROVE  ListInv' /\ KeepsBusyCtx
<1>1. /\ ~Listed(c) /\ UNCHANGED <<conn_list, runqueue, hwctx_cnt>>
      /\ alive' = [alive EXCEPT ![c] = "live"]
      /\ status' = [status EXCEPT ![c] = "DISCONNECTED"]
      /\ disconn_list' = disconn_list \cup {c}
  BY DEF CtxCreate, Listed
<1>2. ~Connected(c) /\ ~Waiting(c)
  BY <1>1 DEF ListInv, OneList
<1>3. \A d \in Ctx : (Connected(d)' <=> Connected(d)) /\ (Waiting(d)' <=> Waiting(d))
  BY <1>1 DEF Connected, Waiting
<1>4. \A d \in Ctx : Listed(d)' <=> Listed(d) \/ d = c
  BY <1>1 DEF Listed, TypeOK, CtxTypes
<1>5. OneList'
  BY <1>1, <1>2, <1>3, <1>4 DEF ListInv, OneList
<1>6. ConnStatus'
  BY <1>1, <1>2, <1>3 DEF ListInv, ConnStatus, ctx_should_stop, TypeOK, ListTypes
<1>7. HwctxCntExact' /\ ConnListOrdered'
  BY <1>1 DEF ListInv, HwctxCntExact, ConnListOrdered
<1> QED BY <1>3, <1>5, <1>6, <1>7 DEF ListInv, KeepsBusyCtx

(* aie2_rq_del(): the context leaves every list, and its hardware context  *)
(* is released exactly if it had one.                                      *)
LEMMA DeleteList ==
    ASSUME TypeOK, ListInv, NEW c \in Ctx, RqDel(c)
    PROVE  ListInv' /\ KeepsBusyCtx
<1>1. /\ InIoctl(c) = {}
      /\ conn_list' = RemoveFirst(conn_list, c)
      /\ runqueue' = [runqueue EXCEPT ![Prio[c]] = RemoveFirst(@, c)]
      /\ disconn_list' = disconn_list \ {c}
      /\ alive' = [alive EXCEPT ![c] = "deleted"]
  BY DEF RqDel
<1>2. /\ IsInjective(conn_list')
      /\ \A d \in Ctx : Connected(d)' <=> Connected(d) /\ d # c
      /\ Len(conn_list') = IF Connected(c) THEN Len(conn_list) - 1 ELSE Len(conn_list)
      /\ ConnListOrdered'
  BY <1>1, UnlinkConn
<1>3. /\ \A p \in Priority : IsInjective(runqueue'[p])
      /\ \A p \in Priority, d \in Ctx : Contains(runqueue'[p], d) => Prio[d] = p
      /\ \A d \in Ctx : Waiting(d)' <=> Waiting(d) /\ d # c
  BY <1>1, UnlinkQueue
<1>4. \A d \in Ctx : Listed(d)' <=> Listed(d) /\ d # c
  BY <1>1 DEF Listed, TypeOK, CtxTypes
<1>5. OneList'
  BY <1>1, <1>2, <1>3, <1>4 DEF ListInv, OneList
<1>6. \/ /\ Connected(c) /\ hwctx_cnt' = hwctx_cnt - 1
         /\ status' = [status EXCEPT ![c] = "DISCONNECTED"]
      \/ ~Connected(c) /\ UNCHANGED <<status, hwctx_cnt>>
  BY DEF RqDel, StopHwctx, ListInv, ConnStatus
<1>7. ConnStatus'
  BY <1>2, <1>6 DEF ListInv, ConnStatus, ctx_should_stop, TypeOK, ListTypes
<1>8. HwctxCntExact'
  BY <1>2, <1>6, ConstantsAssumption DEF ListInv, HwctxCntExact, TypeOK, ListTypes
<1>9. KeepsBusyCtx
  BY <1>1, <1>2 DEF KeepsBusyCtx, InIoctl
<1> QED BY <1>2, <1>5, <1>7, <1>8, <1>9 DEF ListInv

(* No step of any actor loses or duplicates an entry, disorders conn_list, *)
(* miscounts the hardware contexts, or disconnects a context whose io_sem  *)
(* a submitter holds.                                                      *)
LEMMA ListStep ==
    ASSUME RqInv, [Next]_vars
    PROVE  ListInv' /\ KeepsBusyCtx
<1>i. TypeOK /\ ListInv
  BY DEF RqInv
<1>1. ASSUME NEW c \in Ctx, CtxCreate(c) PROVE ListInv' /\ KeepsBusyCtx
  BY <1>1, <1>i, CreateList
<1>2. ASSUME NEW c \in Ctx, CtxErase(c) PROVE ListInv' /\ KeepsBusyCtx
  <2>1. \A d \in Ctx : Listed(d)' <=> Listed(d)
    BY <1>2, <1>i DEF CtxErase, Listed, TypeOK, CtxTypes
  <2> QED BY <2>1, <1>2, <1>i, FrameList DEF CtxErase, listVars
<1>3. ASSUME NEW c \in Ctx, RqDel(c) PROVE ListInv' /\ KeepsBusyCtx
  BY <1>3, <1>i, DeleteList
<1>4. ASSUME NEW c \in Ctx, CtxFree(c) PROVE ListInv' /\ KeepsBusyCtx
  <2>1. \A d \in Ctx : Listed(d)' <=> Listed(d)
    BY <1>4, <1>i DEF CtxFree, Listed, TypeOK, CtxTypes
  <2> QED BY <2>1, <1>4, <1>i, FrameList DEF CtxFree, listVars
<1>5. ASSUME NEW c \in Ctx, JobRun(c) PROVE ListInv' /\ KeepsBusyCtx
  BY <1>5, <1>i, FrameList DEF JobRun, Listed, listVars, ctxVars
<1>6. ASSUME NEW c \in Ctx, JobRunFail(c) PROVE ListInv' /\ KeepsBusyCtx
  BY <1>6, <1>i, FrameList DEF JobRunFail, Listed, listVars, ctxVars
<1>7. ASSUME NEW c \in Ctx, JobComplete(c) PROVE ListInv' /\ KeepsBusyCtx
  BY <1>7, <1>i, FrameList DEF JobComplete, Listed, listVars, ctxVars
<1>8. ASSUME NEW c \in Ctx, NotifyCheck(c) PROVE ListInv' /\ KeepsBusyCtx
  BY <1>8, <1>i, FrameList DEF NotifyCheck, Listed, listVars, ctxVars
<1>9. ASSUME NEW c \in Ctx, NotifyYield(c) PROVE ListInv' /\ KeepsBusyCtx
  <2>1. \A d \in Ctx : status'[d] = status[d] \/ status'[d] = "DISCONNECTING"
    BY <1>9, <1>i DEF NotifyYield, aie2_rq_yield, TypeOK, ListTypes
  <2> QED BY <2>1, <1>9, <1>i, FrameList DEF NotifyYield, Listed, listVars, ctxVars
<1>10. ASSUME NEW t \in Thread, NEW c \in Ctx, SubmitStart(t, c) PROVE ListInv' /\ KeepsBusyCtx
  BY <1>10, <1>i, FrameList DEF SubmitStart, Listed, listVars, ctxVars
<1>11. ASSUME NEW t \in Thread, SubmitEnter(t) PROVE ListInv' /\ KeepsBusyCtx
  BY <1>11, <1>i, FrameList DEF SubmitEnter, Listed, listVars, ctxVars
<1>12. ASSUME NEW t \in Thread, SubmitSlow(t) PROVE ListInv' /\ KeepsBusyCtx
  BY <1>12, <1>i, FrameList DEF SubmitSlow, Listed, listVars, ctxVars
<1>13. ASSUME NEW t \in Thread, SubmitWake(t) PROVE ListInv' /\ KeepsBusyCtx
  BY <1>13, <1>i, FrameList DEF SubmitWake, Listed, listVars, ctxVars
<1>14. ASSUME NEW t \in Thread, SubmitGranted(t) PROVE ListInv' /\ KeepsBusyCtx
  BY <1>14, <1>i, FrameList DEF SubmitGranted, Listed, listVars, ctxVars
<1>15. ASSUME NEW t \in Thread, SubmitSignal(t) PROVE ListInv' /\ KeepsBusyCtx
  BY <1>15, <1>i, FrameList DEF SubmitSignal, Listed, listVars, ctxVars
<1>16. ASSUME NEW t \in Thread, SubmitCancelWork(t) PROVE ListInv' /\ KeepsBusyCtx
  BY <1>16, <1>i, FrameList DEF SubmitCancelWork, Listed, listVars, ctxVars
<1>17. ASSUME NEW t \in Thread, SubmitCleanup(t) PROVE ListInv' /\ KeepsBusyCtx
  <2> DEFINE c == tctx[t]
  <2>1. c \in Ctx /\ Listed(c)
    BY <1>17 DEF SubmitCleanup, RqInv, ThreadsListed
  <2>2. UNCHANGED alive /\ Readers(c) = {}
    BY <1>17 DEF SubmitCleanup, ctxVars
  <2>3. CASE status[c] = "DISPATCHED" /\ rq_ctx_cancel(c)
    BY <2>1, <2>2, <2>3, <1>i, CancelList
  <2>4. CASE StopCtx(c, TRUE)
    BY <2>1, <2>2, <2>4, <1>i, StopCtxList
  <2>5. CASE UNCHANGED <<status, jobVars, listVars>>
    BY <2>2, <2>5, <1>i, FrameList DEF Listed, listVars
  <2> QED BY <1>17, <2>3, <2>4, <2>5 DEF SubmitCleanup
<1>18. ASSUME NEW t \in Thread, SubmitJob(t) PROVE ListInv' /\ KeepsBusyCtx
  BY <1>18, <1>i, FrameList DEF SubmitJob, Listed, listVars, ctxVars
<1>19. ASSUME NEW t \in Thread, SubmitFail(t) PROVE ListInv' /\ KeepsBusyCtx
  <2>1. \A d \in Ctx : status'[d] = status[d] \/ status'[d] = "DISCONNECTING"
    BY <1>19, <1>i DEF SubmitFail, aie2_rq_yield, TypeOK, ListTypes
  <2> QED BY <2>1, <1>19, <1>i, FrameList DEF SubmitFail, Listed, listVars, ctxVars
<1>20. ASSUME WorkStart PROVE ListInv' /\ KeepsBusyCtx
  BY <1>20, <1>i, FrameList DEF WorkStart, Listed, listVars, ctxVars
<1>21. ASSUME RqDispatchWork PROVE ListInv' /\ KeepsBusyCtx
  <2> DEFINE c == cur.ctx
  <2>1. c \in Ctx /\ Listed(c) /\ UNCHANGED alive
    BY <1>21, WorkItems DEF RqDispatchWork, RqInv, WorkerHoldsItem, Kind, ctxVars
  <2>2. CASE status[c] = "DISCONNECTED"
    BY <1>21, <2>1, <2>2, <1>i, DispatchList DEF RqDispatchWork
  <2>3. CASE status[c] # "DISCONNECTED"
    BY <1>21, <2>1, <2>3, <1>i, FrameList DEF RqDispatchWork, Listed, listVars
  <2> QED BY <2>2, <2>3
<1>22. ASSUME RqYieldWork PROVE ListInv' /\ KeepsBusyCtx
  <2> DEFINE c == cur.ctx
  <2>1. c \in Ctx /\ UNCHANGED alive /\ Readers(c) = {}
    BY <1>22, WorkItems DEF RqYieldWork, RqInv, WorkerHoldsItem, Kind
  <2>2. CASE StopCtx(c, TRUE)
    BY <2>1, <2>2, <1>i, StopCtxList
  <2>3. CASE UNCHANGED <<jobVars, listVars, status>>
    BY <2>1, <2>3, <1>i, FrameList DEF Listed, listVars
  <2>4. CASE UNCHANGED <<jobVars, listVars>> /\ status' = [status EXCEPT ![c] = "CONNECTED"]
    <3>1. \A d \in Ctx : status'[d] = status[d] \/ status'[d] = "CONNECTED"
      BY <2>4, <1>i DEF TypeOK, ListTypes
    <3> QED BY <2>1, <2>4, <3>1, <1>i, FrameList DEF Listed, listVars
  <2> QED BY <1>22, <2>2, <2>3, <2>4 DEF RqYieldWork
<1>23. ASSUME RqSchedLock PROVE ListInv' /\ KeepsBusyCtx
  BY <1>23, <1>i, FrameList DEF RqSchedLock, Listed, listVars, ctxVars
<1>24. ASSUME RqSchedConnect PROVE ListInv' /\ KeepsBusyCtx
  BY <1>24, <1>i, ConnectList
<1>25. ASSUME RqSchedConnectDone PROVE ListInv' /\ KeepsBusyCtx
  BY <1>25, <1>i, FrameList DEF RqSchedConnectDone, Listed, listVars, ctxVars
<1>26. ASSUME RqSchedMark PROVE ListInv' /\ KeepsBusyCtx
  BY <1>26, <1>i, FrameList DEF RqSchedMark, Listed, listVars, ctxVars
<1>27. ASSUME RqSchedCheck PROVE ListInv' /\ KeepsBusyCtx
  <2>1. \A d \in Ctx : status'[d] = status[d] \/ status'[d] = "DISCONNECTING"
    BY <1>27, <1>i DEF RqSchedCheck, TypeOK, ListTypes
  <2> QED BY <2>1, <1>27, <1>i, FrameList DEF RqSchedCheck, Listed, listVars, ctxVars
<1>28. ASSUME TdrLock PROVE ListInv' /\ KeepsBusyCtx
  BY <1>28, <1>i, FrameList DEF TdrLock, Listed, listVars, ctxVars
<1>29. ASSUME TdrScan PROVE ListInv' /\ KeepsBusyCtx
  BY <1>29, <1>i, FrameList DEF TdrScan, Listed, listVars, ctxVars
<1>30. ASSUME TdrScanDone PROVE ListInv' /\ KeepsBusyCtx
  BY <1>30, <1>i, FrameList DEF TdrScanDone, Listed, listVars, ctxVars
<1>31. ASSUME TdrStuck PROVE ListInv' /\ KeepsBusyCtx
  BY <1>31, <1>i, FrameList DEF TdrStuck, Listed, listVars, ctxVars
<1>32. ASSUME TdrRecover PROVE ListInv' /\ KeepsBusyCtx
  BY <1>32, <1>i, FrameList DEF TdrRecover, Listed, listVars, ctxVars
<1>33. ASSUME RqPauseCtx PROVE ListInv' /\ KeepsBusyCtx
  <2>1. Head(todo) \in Ctx
    BY <1>33, <1>i, HeadTailProperties DEF RqPauseCtx, TypeOK, LockTypes
  <2> QED BY <2>1, <1>33, <1>i, StopCtxList DEF RqPauseCtx, ctxVars
<1>34. ASSUME TdrRunAll PROVE ListInv' /\ KeepsBusyCtx
  BY <1>34, <1>i, FrameList DEF TdrRunAll, Listed, listVars, ctxVars
<1>35. ASSUME Suspend PROVE ListInv' /\ KeepsBusyCtx
  BY <1>35, <1>i, FrameList DEF Suspend, Listed, listVars, ctxVars
<1>36. ASSUME SuspendDone PROVE ListInv' /\ KeepsBusyCtx
  BY <1>36, <1>i, FrameList DEF SuspendDone, Listed, listVars, ctxVars
<1>37. ASSUME Resume PROVE ListInv' /\ KeepsBusyCtx
  BY <1>37, <1>i, FrameList DEF Resume, Listed, listVars, ctxVars
<1>38. CASE UNCHANGED vars
  BY <1>38, <1>i, FrameList DEF vars, Listed, listVars, ctxVars
<1> QED BY <1>1, <1>2, <1>3, <1>4, <1>5, <1>6, <1>7, <1>8, <1>9, <1>10, <1>11, <1>12, <1>13, <1>14, <1>15, <1>16, <1>17, <1>18, <1>19, <1>20, <1>21, <1>22, <1>23, <1>24, <1>25, <1>26, <1>27, <1>28, <1>29, <1>30, <1>31, <1>32, <1>33, <1>34, <1>35, <1>36, <1>37, <1>38
        DEF Next, CtxStep, JobStep, ThreadStep, WorkStep, TdrStep, PmStep

(* A thread in the ioctl keeps its context on the lists, and the worker    *)
(* keeps the item it runs.                                                 *)
LEMMA ActorStep ==
    ASSUME RqInv, [Next]_vars
    PROVE  ThreadsListed' /\ WorkerHoldsItem'
<1>i. TypeOK /\ ThreadsListed /\ WorkerHoldsItem
  BY DEF RqInv
<1>f. UNCHANGED <<thrVars, alive>> => ThreadsListed'
  BY <1>i DEF ThreadsListed, Listed, thrVars
<1>w. UNCHANGED workVars => WorkerHoldsItem'
  BY <1>i DEF WorkerHoldsItem, workVars
<1>1. ASSUME NEW c \in Ctx, CtxCreate(c) PROVE ThreadsListed' /\ WorkerHoldsItem'
  <2>1. ThreadsListed'
    BY <1>1, <1>i DEF CtxCreate, ThreadsListed, Listed, TypeOK, CtxTypes, thrVars
  <2> QED BY <2>1, <1>1, <1>w DEF CtxCreate
<1>2. ASSUME NEW c \in Ctx, CtxErase(c) PROVE ThreadsListed' /\ WorkerHoldsItem'
  <2>1. ThreadsListed'
    BY <1>2, <1>i DEF CtxErase, ThreadsListed, Listed, TypeOK, CtxTypes, thrVars
  <2> QED BY <2>1, <1>2, <1>w DEF CtxErase
<1>3. ASSUME NEW c \in Ctx, RqDel(c) PROVE ThreadsListed' /\ WorkerHoldsItem'
  <2>1. ThreadsListed'
    BY <1>3, <1>i DEF RqDel, ThreadsListed, Listed, InIoctl, TypeOK, CtxTypes, thrVars
  <2> QED BY <2>1, <1>3, <1>w DEF RqDel
<1>4. ASSUME NEW c \in Ctx, CtxFree(c) PROVE ThreadsListed' /\ WorkerHoldsItem'
  <2>1. ThreadsListed'
    BY <1>4, <1>i DEF CtxFree, ThreadsListed, Listed, TypeOK, CtxTypes, thrVars
  <2> QED BY <2>1, <1>4, <1>w DEF CtxFree
<1>5. ASSUME NEW c \in Ctx, JobRun(c) PROVE ThreadsListed' /\ WorkerHoldsItem'
  BY <1>5, <1>f, <1>w DEF JobRun, ctxVars
<1>6. ASSUME NEW c \in Ctx, JobRunFail(c) PROVE ThreadsListed' /\ WorkerHoldsItem'
  BY <1>6, <1>f, <1>w DEF JobRunFail, ctxVars
<1>7. ASSUME NEW c \in Ctx, JobComplete(c) PROVE ThreadsListed' /\ WorkerHoldsItem'
  BY <1>7, <1>f, <1>w DEF JobComplete, ctxVars
<1>8. ASSUME NEW c \in Ctx, NotifyCheck(c) PROVE ThreadsListed' /\ WorkerHoldsItem'
  BY <1>8, <1>f, <1>w DEF NotifyCheck, ctxVars
<1>9. ASSUME NEW c \in Ctx, NotifyYield(c) PROVE ThreadsListed' /\ WorkerHoldsItem'
  BY <1>9, <1>f, <1>w DEF NotifyYield, ctxVars
<1>10. ASSUME NEW t \in Thread, NEW c \in Ctx, SubmitStart(t, c) PROVE ThreadsListed' /\ WorkerHoldsItem'
  <2>1. ThreadsListed'
    BY <1>10, <1>i DEF SubmitStart, ThreadsListed, Listed, ctxVars, TypeOK, ThreadTypes
  <2> QED BY <2>1, <1>10, <1>w DEF SubmitStart
<1>11. ASSUME NEW t \in Thread, SubmitEnter(t) PROVE ThreadsListed' /\ WorkerHoldsItem'
  <2>1. ThreadsListed'
    BY <1>11, <1>i DEF SubmitEnter, ThreadsListed, Listed, ctxVars, TypeOK, ThreadTypes, Leave
  <2> QED BY <2>1, <1>11, <1>w DEF SubmitEnter
<1>12. ASSUME NEW t \in Thread, SubmitSlow(t) PROVE ThreadsListed' /\ WorkerHoldsItem'
  <2>1. ThreadsListed'
    BY <1>12, <1>i DEF SubmitSlow, ThreadsListed, Listed, ctxVars, TypeOK, ThreadTypes, Leave
  <2> QED BY <2>1, <1>12, <1>w DEF SubmitSlow
<1>13. ASSUME NEW t \in Thread, SubmitWake(t) PROVE ThreadsListed' /\ WorkerHoldsItem'
  <2>1. ThreadsListed'
    BY <1>13, <1>i DEF SubmitWake, ThreadsListed, Listed, ctxVars, TypeOK, ThreadTypes, Leave
  <2> QED BY <2>1, <1>13, <1>w DEF SubmitWake
<1>14. ASSUME NEW t \in Thread, SubmitGranted(t) PROVE ThreadsListed' /\ WorkerHoldsItem'
  <2>1. ThreadsListed'
    BY <1>14, <1>i DEF SubmitGranted, ThreadsListed, Listed, ctxVars, TypeOK, ThreadTypes, Leave
  <2> QED BY <2>1, <1>14, <1>w DEF SubmitGranted
<1>15. ASSUME NEW t \in Thread, SubmitSignal(t) PROVE ThreadsListed' /\ WorkerHoldsItem'
  <2>1. ThreadsListed'
    BY <1>15, <1>i DEF SubmitSignal, ThreadsListed, Listed, ctxVars, TypeOK, ThreadTypes, Leave
  <2> QED BY <2>1, <1>15, <1>w DEF SubmitSignal
<1>16. ASSUME NEW t \in Thread, SubmitCancelWork(t) PROVE ThreadsListed' /\ WorkerHoldsItem'
  <2>1. ThreadsListed'
    BY <1>16, <1>i DEF SubmitCancelWork, ThreadsListed, Listed, ctxVars, TypeOK, ThreadTypes, Leave
  <2> QED BY <2>1, <1>16, <1>w DEF SubmitCancelWork
<1>17. ASSUME NEW t \in Thread, SubmitCleanup(t) PROVE ThreadsListed' /\ WorkerHoldsItem'
  <2>1. ThreadsListed'
    BY <1>17, <1>i DEF SubmitCleanup, ThreadsListed, Listed, ctxVars, TypeOK, ThreadTypes, Leave
  <2> QED BY <2>1, <1>17, <1>w DEF SubmitCleanup
<1>18. ASSUME NEW t \in Thread, SubmitJob(t) PROVE ThreadsListed' /\ WorkerHoldsItem'
  <2>1. ThreadsListed'
    BY <1>18, <1>i DEF SubmitJob, ThreadsListed, Listed, ctxVars, TypeOK, ThreadTypes, Leave
  <2> QED BY <2>1, <1>18, <1>w DEF SubmitJob
<1>19. ASSUME NEW t \in Thread, SubmitFail(t) PROVE ThreadsListed' /\ WorkerHoldsItem'
  <2>1. ThreadsListed'
    BY <1>19, <1>i DEF SubmitFail, ThreadsListed, Listed, ctxVars, TypeOK, ThreadTypes, Leave
  <2> QED BY <2>1, <1>19, <1>w DEF SubmitFail
<1>20. ASSUME WorkStart PROVE ThreadsListed' /\ WorkerHoldsItem'
  <2>1. Head(work_q) \in Work
    BY <1>20, <1>i, HeadTailProperties DEF WorkStart, TypeOK, WorkTypes
  <2> QED BY <2>1, <1>20, <1>f DEF WorkStart, WorkerHoldsItem, ctxVars
<1>21. ASSUME RqDispatchWork PROVE ThreadsListed' /\ WorkerHoldsItem'
  BY <1>21, <1>i, <1>f DEF RqDispatchWork, WorkEnd, WorkerHoldsItem, ctxVars
<1>22. ASSUME RqYieldWork PROVE ThreadsListed' /\ WorkerHoldsItem'
  BY <1>22, <1>i, <1>f DEF RqYieldWork, WorkEnd, WorkerHoldsItem, ctxVars
<1>23. ASSUME RqSchedLock PROVE ThreadsListed' /\ WorkerHoldsItem'
  BY <1>23, <1>i, <1>f DEF RqSchedLock, WorkEnd, WorkerHoldsItem, ctxVars
<1>24. ASSUME RqSchedConnect PROVE ThreadsListed' /\ WorkerHoldsItem'
  BY <1>24, <1>f, <1>w DEF RqSchedConnect, ctxVars
<1>25. ASSUME RqSchedConnectDone PROVE ThreadsListed' /\ WorkerHoldsItem'
  BY <1>25, <1>i, <1>f DEF RqSchedConnectDone, WorkEnd, WorkerHoldsItem, ctxVars
<1>26. ASSUME RqSchedMark PROVE ThreadsListed' /\ WorkerHoldsItem'
  <2>1. select_ctx_to_block(Prio[nxt]) \in Ctx \cup {NoCtx}
    BY <1>i, BlockType DEF TypeOK, ListTypes
  <2> QED BY <2>1, <1>26, <1>i, <1>f DEF RqSchedMark, WorkEnd, WorkerHoldsItem
<1>27. ASSUME RqSchedCheck PROVE ThreadsListed' /\ WorkerHoldsItem'
  BY <1>27, <1>i, <1>f DEF RqSchedCheck, WorkEnd, WorkerHoldsItem, ctxVars
<1>28. ASSUME TdrLock PROVE ThreadsListed' /\ WorkerHoldsItem'
  BY <1>28, <1>f, <1>w DEF TdrLock, ctxVars
<1>29. ASSUME TdrScan PROVE ThreadsListed' /\ WorkerHoldsItem'
  BY <1>29, <1>f, <1>w DEF TdrScan, ctxVars
<1>30. ASSUME TdrScanDone PROVE ThreadsListed' /\ WorkerHoldsItem'
  BY <1>30, <1>f, <1>w DEF TdrScanDone, ctxVars
<1>31. ASSUME TdrStuck PROVE ThreadsListed' /\ WorkerHoldsItem'
  BY <1>31, <1>f, <1>w DEF TdrStuck, ctxVars
<1>32. ASSUME TdrRecover PROVE ThreadsListed' /\ WorkerHoldsItem'
  BY <1>32, <1>f, <1>w DEF TdrRecover, ctxVars
<1>33. ASSUME RqPauseCtx PROVE ThreadsListed' /\ WorkerHoldsItem'
  BY <1>33, <1>f, <1>w DEF RqPauseCtx, ctxVars
<1>34. ASSUME TdrRunAll PROVE ThreadsListed' /\ WorkerHoldsItem'
  BY <1>34, <1>f, <1>w DEF TdrRunAll, ctxVars
<1>35. ASSUME Suspend PROVE ThreadsListed' /\ WorkerHoldsItem'
  BY <1>35, <1>f, <1>w DEF Suspend, ctxVars
<1>36. ASSUME SuspendDone PROVE ThreadsListed' /\ WorkerHoldsItem'
  BY <1>36, <1>f, <1>w DEF SuspendDone, ctxVars
<1>37. ASSUME Resume PROVE ThreadsListed' /\ WorkerHoldsItem'
  BY <1>37, <1>f, <1>w DEF Resume, ctxVars
<1>38. CASE UNCHANGED vars
  BY <1>38, <1>f, <1>w DEF vars, ctxVars
<1> QED BY <1>1, <1>2, <1>3, <1>4, <1>5, <1>6, <1>7, <1>8, <1>9, <1>10, <1>11, <1>12, <1>13, <1>14, <1>15, <1>16, <1>17, <1>18, <1>19, <1>20, <1>21, <1>22, <1>23, <1>24, <1>25, <1>26, <1>27, <1>28, <1>29, <1>30, <1>31, <1>32, <1>33, <1>34, <1>35, <1>36, <1>37, <1>38
        DEF Next, CtxStep, JobStep, ThreadStep, WorkStep, TdrStep, PmStep

-----------------------------------------------------------------------------
(* The slow path                                                           *)

(* What is not a step of a submitter or of a context's life keeps the      *)
(* threads, the pending counters and the lives.                            *)
LEMMA OthersKeepThreads ==
    ASSUME (\E c \in Ctx : JobStep(c)) \/ WorkStep \/ TdrStep \/ PmStep
    PROVE  UNCHANGED <<thrVars, job_pending_cnt, alive>>
<1>1. ASSUME NEW c \in Ctx, JobStep(c) PROVE UNCHANGED <<thrVars, job_pending_cnt, alive>>
  BY <1>1 DEF JobStep, JobRun, JobRunFail, JobComplete, NotifyCheck, NotifyYield, ctxVars
<1>2. CASE WorkStep
  BY <1>2 DEF WorkStep, WorkStart, RqDispatchWork, RqYieldWork, RqSchedLock, RqSchedConnect,
     RqSchedConnectDone, RqSchedMark, RqSchedCheck, ctxVars
<1>3. CASE TdrStep
  BY <1>3 DEF TdrStep, TdrLock, TdrScan, TdrScanDone, TdrStuck, TdrRecover, TdrRunAll, ctxVars
<1>4. CASE PmStep
  BY <1>4 DEF PmStep, RqPauseCtx, Suspend, SuspendDone, Resume, ctxVars
<1> QED BY <1>1, <1>2, <1>3, <1>4

(* Nobody enters or leaves the slow path.                                  *)
LEMMA PendingSame ==
    ASSUME PendingCntExact, UNCHANGED <<job_pending_cnt, alive>>,
           \A c \in Ctx : Pending(c)' = Pending(c)
    PROVE  PendingCntExact'
BY DEF PendingCntExact, Listed

(* A thread enters it.                                                     *)
LEMMA PendingEnter ==
    ASSUME TypeOK, PendingCntExact, UNCHANGED alive, NEW t \in Thread, NEW c \in Ctx,
           job_pending_cnt' = [job_pending_cnt EXCEPT ![c] = @ + 1],
           t \notin Pending(c), Pending(c)' = Pending(c) \cup {t},
           \A x \in Ctx \ {c} : Pending(x)' = Pending(x)
    PROVE  PendingCntExact'
<1>1. IsFiniteSet(Pending(c))
  <2>1. Pending(c) \subseteq Thread
    BY DEF Pending, InIoctl
  <2> QED BY <2>1, ConstantsAssumption, FS_Subset
<1>2. Cardinality(Pending(c) \cup {t}) = Cardinality(Pending(c)) + 1
  BY <1>1, FS_AddElement
<1>3. \A x \in Ctx : job_pending_cnt'[x] = IF x = c THEN job_pending_cnt[x] + 1
                                                   ELSE job_pending_cnt[x]
  BY DEF TypeOK, CtxTypes
<1> QED BY <1>2, <1>3 DEF PendingCntExact, Listed

(* A thread leaves it.                                                     *)
LEMMA PendingLeave ==
    ASSUME TypeOK, PendingCntExact, UNCHANGED alive, NEW t \in Thread, NEW c \in Ctx,
           job_pending_cnt' = [job_pending_cnt EXCEPT ![c] = @ - 1],
           t \in Pending(c), Pending(c)' = Pending(c) \ {t},
           \A x \in Ctx \ {c} : Pending(x)' = Pending(x)
    PROVE  PendingCntExact'
<1>1. IsFiniteSet(Pending(c))
  <2>1. Pending(c) \subseteq Thread
    BY DEF Pending, InIoctl
  <2> QED BY <2>1, ConstantsAssumption, FS_Subset
<1>2. Cardinality(Pending(c) \ {t}) = Cardinality(Pending(c)) - 1
  BY <1>1, FS_RemoveElement
<1>3. \A x \in Ctx : job_pending_cnt'[x] = IF x = c THEN job_pending_cnt[x] - 1
                                                   ELSE job_pending_cnt[x]
  BY DEF TypeOK, CtxTypes
<1> QED BY <1>2, <1>3 DEF PendingCntExact, Listed

(* The counter follows every thread into the slow path and out of it, and  *)
(* a new context has nobody there.                                         *)
LEMMA PendingStep ==
    ASSUME RqInv, PendingCntExact, [Next]_vars
    PROVE  PendingCntExact'
<1>t. TypeOK /\ ThreadsListed
  BY DEF RqInv
<1>1. CASE (\E c \in Ctx : JobStep(c)) \/ WorkStep \/ TdrStep \/ PmStep \/ UNCHANGED vars
  <2>1. UNCHANGED <<thrVars, job_pending_cnt, alive>>
    BY <1>1, OthersKeepThreads DEF vars, ctxVars
  <2> QED BY <2>1, PendingSame DEF Pending, InIoctl, thrVars
<1>2. ASSUME NEW c \in Ctx, CtxStep(c) PROVE PendingCntExact'
  <2>1. \A x \in Ctx : Pending(x)' = Pending(x)
    BY <1>2 DEF CtxStep, CtxCreate, CtxErase, RqDel, CtxFree, Pending, InIoctl, thrVars
  <2>2. CASE CtxCreate(c)
    <3>1. Pending(c) = {}
      BY <1>t, <2>2 DEF CtxCreate, ThreadsListed, Listed, Pending, InIoctl
    <3>2. \A x \in Ctx \ {c} : /\ job_pending_cnt'[x] = job_pending_cnt[x]
                               /\ Listed(x)' <=> Listed(x)
      BY <1>t, <2>2 DEF CtxCreate, Listed, TypeOK, CtxTypes
    <3>3. job_pending_cnt'[c] = 0
      BY <1>t, <2>2 DEF CtxCreate, TypeOK, CtxTypes
    <3> QED BY <2>1, <3>1, <3>2, <3>3, FS_EmptySet DEF PendingCntExact
  <2>3. CASE CtxErase(c) \/ RqDel(c) \/ CtxFree(c)
    <3>1. UNCHANGED job_pending_cnt /\ \A x \in Ctx : Listed(x)' => Listed(x)
      BY <1>t, <2>3 DEF CtxErase, RqDel, CtxFree, Listed, TypeOK, CtxTypes
    <3> QED BY <2>1, <3>1 DEF PendingCntExact
  <2> QED BY <1>2, <2>2, <2>3 DEF CtxStep
<1>3. ASSUME NEW t \in Thread, NEW c \in Ctx, SubmitStart(t, c) PROVE PendingCntExact'
  <2>1. \A x \in Ctx : Pending(x)' = Pending(x)
    BY <1>t, <1>3 DEF SubmitStart, Pending, InIoctl, TypeOK, ThreadTypes
  <2> QED BY <1>3, <2>1, PendingSame DEF SubmitStart, ctxVars
<1>4. ASSUME NEW t \in Thread, SubmitEnter(t) \/ SubmitSignal(t) \/ SubmitCleanup(t)
                               \/ SubmitJob(t) \/ SubmitFail(t)
      PROVE  PendingCntExact'
  <2>1. \A x \in Ctx : Pending(x)' = Pending(x)
    BY <1>t, <1>4 DEF SubmitEnter, SubmitSignal, SubmitCleanup, SubmitJob, SubmitFail, Leave,
       Pending, InIoctl, TypeOK, ThreadTypes
  <2>2. UNCHANGED <<job_pending_cnt, alive>>
    BY <1>4 DEF SubmitEnter, SubmitSignal, SubmitCleanup, SubmitJob, SubmitFail, ctxVars
  <2> QED BY <2>1, <2>2, PendingSame
<1>5. ASSUME NEW t \in Thread, SubmitSlow(t) PROVE PendingCntExact'
  <2>1. tctx[t] \in Ctx /\ t \notin Pending(tctx[t])
    BY <1>t, <1>5 DEF SubmitSlow, ThreadsListed, Pending, InIoctl
  <2>2. /\ Pending(tctx[t])' = Pending(tctx[t]) \cup {t}
        /\ \A x \in Ctx \ {tctx[t]} : Pending(x)' = Pending(x)
    BY <1>t, <1>5 DEF SubmitSlow, Pending, InIoctl, TypeOK, ThreadTypes
  <2> QED BY <1>t, <1>5, <2>1, <2>2, PendingEnter DEF SubmitSlow
<1>6. ASSUME NEW t \in Thread, SubmitWake(t) PROVE PendingCntExact'
  <2>1. PICK c \in Ctx : c = tctx[t] /\ t \in Pending(c)
    BY <1>t, <1>6 DEF SubmitWake, ThreadsListed, Pending, InIoctl
  <2>2. CASE UNCHANGED <<job_pending_cnt, tctx>> /\ pc' = [pc EXCEPT ![t] = "granted"]
    <3>1. \A x \in Ctx : Pending(x)' = Pending(x)
      BY <1>t, <1>6, <2>2 DEF SubmitWake, Pending, InIoctl, TypeOK, ThreadTypes
    <3> QED BY <1>6, <2>2, <3>1, PendingSame DEF SubmitWake
  <2>3. CASE Leave(t) /\ job_pending_cnt' = [job_pending_cnt EXCEPT ![tctx[t]] = @ - 1]
    <3>1. /\ Pending(c)' = Pending(c) \ {t}
          /\ \A x \in Ctx \ {c} : Pending(x)' = Pending(x)
      BY <1>t, <1>6, <2>1, <2>3 DEF Leave, Pending, InIoctl, TypeOK, ThreadTypes
    <3> QED BY <1>t, <1>6, <2>1, <2>3, <3>1, PendingLeave DEF SubmitWake
  <2> QED BY <1>6, <2>2, <2>3 DEF SubmitWake
<1>7. ASSUME NEW t \in Thread, SubmitGranted(t) \/ SubmitCancelWork(t) PROVE PendingCntExact'
  <2>1. tctx[t] \in Ctx /\ t \in Pending(tctx[t])
    BY <1>t, <1>7 DEF SubmitGranted, SubmitCancelWork, ThreadsListed, Pending, InIoctl
  <2>2. /\ Pending(tctx[t])' = Pending(tctx[t]) \ {t}
        /\ \A x \in Ctx \ {tctx[t]} : Pending(x)' = Pending(x)
    BY <1>t, <1>7 DEF SubmitGranted, SubmitCancelWork, Pending, InIoctl, TypeOK, ThreadTypes
  <2> QED BY <1>t, <1>7, <2>1, <2>2, PendingLeave DEF SubmitGranted, SubmitCancelWork
<1> QED BY <1>1, <1>2, <1>3, <1>4, <1>5, <1>6, <1>7 DEF Next, ThreadStep

-----------------------------------------------------------------------------
(* The commands                                                            *)

(* Stopping a context frees all its commands, and none of another one.     *)
LEMMA StopKeepsLost ==
    ASSUME TypeOK, NEW c \in Ctx, NEW wait, StopHwctx(c, wait), UNCHANGED comp, NEW x \in Ctx
    PROVE  Lost(x)' = Lost(x)
<1>1. /\ submitted[x] \in Nat /\ job_free_cnt[x] \in Nat /\ queued[x] \in Nat
      /\ inflight[x] \in Nat
  BY DEF TypeOK, JobTypes
<1>2. CASE x = c
  <2>1. /\ job_free_cnt'[x] = job_free_cnt[x] + inflight[x] + queued[x]
        /\ inflight'[x] = 0 /\ queued'[x] = 0 /\ submitted'[x] = submitted[x]
        /\ comp'[x] = comp[x]
    BY <1>2 DEF StopHwctx, TypeOK, JobTypes
  <2> QED BY <1>1, <2>1 DEF Lost
<1>3. CASE x # c
  <2>1. /\ job_free_cnt'[x] = job_free_cnt[x] /\ inflight'[x] = inflight[x]
        /\ queued'[x] = queued[x] /\ submitted'[x] = submitted[x] /\ comp'[x] = comp[x]
    BY <1>3 DEF StopHwctx, TypeOK, JobTypes
  <2> QED BY <2>1 DEF Lost
<1> QED BY <1>2, <1>3

(* The same for rq_ctx_stop_wait() whether it stops or not.                *)
LEMMA StopCtxKeepsLost ==
    ASSUME TypeOK, NEW c \in Ctx, NEW wait, StopCtx(c, wait), UNCHANGED comp, NEW x \in Ctx
    PROVE  Lost(x)' = Lost(x)
<1>1. CASE ctx_should_stop(c)
  BY <1>1, StopKeepsLost DEF StopCtx
<1>2. CASE ~ctx_should_stop(c)
  BY <1>2 DEF StopCtx, Lost, jobVars
<1> QED BY <1>1, <1>2

(* No step loses a command of a connected context.                         *)
LEMMA LostStep ==
    ASSUME RqInv, [Next]_vars, NEW x \in Ctx, Connected(x)
    PROVE  Lost(x)' = Lost(x)
<1>t. TypeOK /\ ThreadsListed /\ WorkerHoldsItem
  BY DEF RqInv
<1>x. Listed(x)
  BY DEF RqInv, ListInv, OneList
<1>n. /\ submitted[x] \in Nat /\ job_free_cnt[x] \in Nat /\ queued[x] \in Nat
      /\ inflight[x] \in Nat
  BY <1>t DEF TypeOK, JobTypes
<1>f. UNCHANGED <<jobVars, comp>> => Lost(x)' = Lost(x)
  BY DEF Lost, jobVars
<1>1. ASSUME NEW c \in Ctx, CtxCreate(c) PROVE Lost(x)' = Lost(x)
  <2>1. x # c
    BY <1>1, <1>x DEF CtxCreate, Listed
  <2> QED BY <1>1, <1>t, <2>1 DEF CtxCreate, Lost, TypeOK, JobTypes
<1>2. ASSUME NEW c \in Ctx, CtxErase(c) \/ CtxFree(c) PROVE Lost(x)' = Lost(x)
  BY <1>2, <1>f DEF CtxErase, CtxFree
<1>3. ASSUME NEW c \in Ctx, RqDel(c) PROVE Lost(x)' = Lost(x)
  BY <1>3, <1>f, <1>t, StopKeepsLost DEF RqDel
<1>4. ASSUME NEW c \in Ctx, JobStep(c) PROVE Lost(x)' = Lost(x)
  <2>1. CASE x = c
    <3>1. CASE JobRun(c) \/ JobRunFail(c)
      BY <1>n, <1>t, <2>1, <3>1 DEF JobRun, JobRunFail, Lost, TypeOK, JobTypes
    <3>2. CASE JobComplete(c)
      BY <1>n, <1>t, <2>1, <3>2 DEF JobComplete, Lost, TypeOK, JobTypes
    <3>3. CASE NotifyCheck(c) \/ NotifyYield(c)
      BY <1>n, <1>t, <2>1, <3>3 DEF NotifyCheck, NotifyYield, Lost, TypeOK, JobTypes
    <3> QED BY <1>4, <3>1, <3>2, <3>3 DEF JobStep
  <2>2. CASE x # c
    BY <1>4, <1>t, <2>2 DEF JobStep, JobRun, JobRunFail, JobComplete, NotifyCheck, NotifyYield,
       Lost, TypeOK, JobTypes
  <2> QED BY <2>1, <2>2
<1>5. ASSUME NEW t \in Thread, NEW c \in Ctx, SubmitStart(t, c) PROVE Lost(x)' = Lost(x)
  BY <1>5, <1>f DEF SubmitStart
<1>6. ASSUME NEW t \in Thread, ThreadStep(t) \/ SubmitSignal(t) PROVE Lost(x)' = Lost(x)
  <2>1. CASE SubmitCleanup(t)
    <3>1. tctx[t] \in Ctx /\ UNCHANGED comp
      BY <1>t, <2>1 DEF SubmitCleanup, ThreadsListed
    <3>2. StopCtx(tctx[t], TRUE) \/ UNCHANGED jobVars
      BY <2>1 DEF SubmitCleanup, rq_ctx_cancel
    <3> QED BY <1>f, <1>t, <3>1, <3>2, StopCtxKeepsLost
  <2>2. CASE SubmitJob(t)
    <3>1. CASE x = tctx[t]
      BY <1>n, <1>t, <2>2, <3>1 DEF SubmitJob, Lost, TypeOK, JobTypes
    <3>2. CASE x # tctx[t]
      BY <1>t, <2>2, <3>2 DEF SubmitJob, Lost, TypeOK, JobTypes
    <3> QED BY <3>1, <3>2
  <2>3. CASE ~SubmitCleanup(t) /\ ~SubmitJob(t)
    BY <1>6, <1>f, <2>3 DEF ThreadStep, SubmitEnter, SubmitSlow, SubmitWake, SubmitGranted,
       SubmitSignal, SubmitCancelWork, SubmitFail
  <2> QED BY <2>1, <2>2, <2>3
<1>7. CASE WorkStep
  <2>1. CASE RqYieldWork
    <3>1. cur.ctx \in Ctx
      BY <1>t, <2>1, WorkItems DEF RqYieldWork, WorkerHoldsItem, Kind
    <3>2. UNCHANGED comp /\ (StopCtx(cur.ctx, TRUE) \/ UNCHANGED jobVars)
      BY <2>1 DEF RqYieldWork
    <3> QED BY <1>f, <1>t, <3>1, <3>2, StopCtxKeepsLost
  <2>2. CASE ~RqYieldWork
    BY <1>7, <1>f, <2>2 DEF WorkStep, WorkStart, RqDispatchWork, RqSchedLock, RqSchedConnect,
       RqSchedConnectDone, RqSchedMark, RqSchedCheck
  <2> QED BY <2>1, <2>2
<1>8. CASE TdrStep
  BY <1>8, <1>f DEF TdrStep, TdrLock, TdrScan, TdrScanDone, TdrStuck, TdrRecover, TdrRunAll
<1>9. CASE PmStep
  <2>1. CASE RqPauseCtx
    <3>1. Head(todo) \in Ctx
      BY <2>1, <1>t, HeadTailProperties DEF RqPauseCtx, TypeOK, LockTypes
    <3> QED BY <1>t, <2>1, <3>1, StopCtxKeepsLost DEF RqPauseCtx
  <2>2. CASE ~RqPauseCtx
    BY <1>9, <1>f, <2>2 DEF PmStep, Suspend, SuspendDone, Resume
  <2> QED BY <2>1, <2>2
<1>10. CASE UNCHANGED vars
  BY <1>10, <1>f DEF vars
<1> QED BY <1>1, <1>2, <1>3, <1>4, <1>5, <1>6, <1>7, <1>8, <1>9, <1>10 DEF Next, CtxStep

-----------------------------------------------------------------------------
(* The work queue                                                          *)

(* Work items of different kinds or contexts differ.                       *)
LEMMA WorkDistinct ==
    /\ \A c, e \in Ctx : YieldWork(c) = YieldWork(e) => c = e
    /\ \A c, e : YieldWork(c) # DispatchWork(e)
    /\ \A c : YieldWork(c) # SchedWork
    /\ \A c \in Ctx : YieldWork(c) # NoWork
    /\ \A w \in Work : w.kind = "yield" => w.ctx \in Ctx /\ w = YieldWork(w.ctx)
BY NoWorkAssumption DEF YieldWork, DispatchWork, SchedWork, Work, Kind

(* No yield is left for a context that is gone, in terms of contexts.      *)
LEMMA StaleByCtx ==
    ASSUME NEW q \in Seq(Work), NEW k \in Work \cup {NoWork}, NEW al
    PROVE  (\A w \in ToSet(q) \cup ({k} \ {NoWork}) : w.kind = "yield" => al[w.ctx] # "none")
           <=> \A c \in Ctx : Contains(q, YieldWork(c)) \/ k = YieldWork(c) => al[c] # "none"
<1>1. \A w : w \in ToSet(q) <=> Contains(q, w)
  BY DEF ToSet, Contains
<1>2. \A w \in ToSet(q) : w \in Work
  BY DEF ToSet
<1>3. \A c \in Ctx : YieldWork(c).kind = "yield" /\ YieldWork(c).ctx = c
  BY DEF YieldWork
<1> QED BY <1>1, <1>2, <1>3, WorkDistinct

(* queue_work() adds an item that is not there.                            *)
LEMMA QueueWorkOnce ==
    ASSUME NEW q \in Seq(Work), IsInjective(q), NEW w \in Work
    PROVE  /\ QueueWork(q, w) \in Seq(Work) /\ IsInjective(QueueWork(q, w))
           /\ \A x : Contains(QueueWork(q, w), x) <=> Contains(q, x) \/ x = w
<1>1. CASE Contains(q, w)
  BY <1>1 DEF QueueWork
<1>2. CASE ~Contains(q, w)
  BY <1>2, AppendInjectiveProperties, QueueWorkType DEF QueueWork
<1> QED BY <1>1, <1>2

(* An abort queues a yield only for a context with commands in flight.     *)
LEMMA AfterAbortOnce ==
    ASSUME TypeOK, WorkSafe, NEW c \in Ctx
    PROVE  /\ AfterAbort(c) \in Seq(Work) /\ IsInjective(AfterAbort(c))
           /\ \A x : Contains(AfterAbort(c), x) =>
                        Contains(work_q, x) \/ (x = YieldWork(c) /\ Connected(c))
<1>1. work_q \in Seq(Work) /\ IsInjective(work_q) /\ YieldWork(c) \in Work
  BY WorkItems DEF TypeOK, WorkTypes, WorkSafe
<1>2. inflight[c] > 0 => Connected(c)
  BY DEF WorkSafe, YieldersListed
<1> QED BY <1>1, <1>2, QueueWorkOnce DEF AfterAbort

(* What a step has to do to the queue and the lives of the contexts.       *)
LEMMA QueueKept ==
    ASSUME RqInv, TypeOK', IsInjective(work_q'),
           \A c \in Ctx : Contains(work_q', YieldWork(c)) \/ cur' = YieldWork(c)
                          => \/ alive'[c] # "none"
                             \/ /\ Contains(work_q, YieldWork(c)) \/ cur = YieldWork(c)
                                /\ alive'[c] = alive[c]
    PROVE  IsInjective(work_q') /\ NoStaleWork'
<1>1. work_q \in Seq(Work) /\ cur \in Work \cup {NoWork}
  BY DEF RqInv, TypeOK, WorkTypes
<1>2. work_q' \in Seq(Work) /\ cur' \in Work \cup {NoWork}
  BY DEF TypeOK, WorkTypes
<1>3. \A c \in Ctx : Contains(work_q, YieldWork(c)) \/ cur = YieldWork(c) => alive[c] # "none"
  BY <1>1, StaleByCtx DEF RqInv, WorkSafe, NoStaleWork
<1>4. \A c \in Ctx : Contains(work_q', YieldWork(c)) \/ cur' = YieldWork(c)
                     => alive'[c] # "none"
  BY <1>3
<1> QED BY <1>2, <1>4, StaleByCtx DEF NoStaleWork

(* Items are queued once and for contexts that are there, and a freed      *)
(* context takes its yield with it.                                        *)
LEMMA QueueStep ==
    ASSUME RqInv, TypeOK', [Next]_vars
    PROVE  IsInjective(work_q') /\ NoStaleWork'
<1>t. /\ TypeOK /\ ListInv /\ ThreadsListed /\ WorkerHoldsItem /\ WorkSafe
      /\ work_q \in Seq(Work) /\ IsInjective(work_q)
  BY DEF RqInv, TypeOK, WorkTypes, WorkSafe
<1>l. \A c \in Ctx : Connected(c) \/ Listed(c) => alive[c] # "none"
  BY <1>t DEF ListInv, OneList, Listed
<1>s. /\ QueueWork(work_q, SchedWork) \in Seq(Work)
      /\ IsInjective(QueueWork(work_q, SchedWork))
      /\ \A c : Contains(QueueWork(work_q, SchedWork), YieldWork(c))
                <=> Contains(work_q, YieldWork(c))
  BY <1>t, QueueWorkOnce, WorkItems, WorkDistinct
<1>y. ASSUME NEW c \in Ctx
      PROVE  /\ IsInjective(QueueWork(work_q, YieldWork(c)))
             /\ \A x \in Ctx : Contains(QueueWork(work_q, YieldWork(c)), YieldWork(x))
                               <=> Contains(work_q, YieldWork(x)) \/ x = c
  BY <1>t, QueueWorkOnce, WorkItems, WorkDistinct
<1>f. (UNCHANGED <<work_q, alive>> /\ cur' \in {cur, NoWork}) \/ UNCHANGED <<work_q, cur, alive>>
         => IsInjective(work_q') /\ NoStaleWork'
  BY <1>t, QueueKept, WorkDistinct
<1>1. ASSUME NEW c \in Ctx, CtxCreate(c) \/ CtxErase(c)
      PROVE  IsInjective(work_q') /\ NoStaleWork'
  <2>1. UNCHANGED <<work_q, cur>> /\ \A x \in Ctx : alive'[x] # "none" \/ alive'[x] = alive[x]
    BY <1>1, <1>t DEF CtxCreate, CtxErase, workVars, TypeOK, CtxTypes
  <2> QED BY <1>t, <2>1, QueueKept
<1>2. ASSUME NEW c \in Ctx, RqDel(c) PROVE IsInjective(work_q') /\ NoStaleWork'
  <2>1. /\ work_q' = AfterAbort(c) /\ UNCHANGED cur /\ alive'[c] # "none"
        /\ \A x \in Ctx \ {c} : alive'[x] = alive[x]
    BY <1>2, <1>t DEF RqDel, workVars, TypeOK, CtxTypes
  <2> QED BY <1>t, <2>1, QueueKept, AfterAbortOnce, WorkDistinct
<1>3. ASSUME NEW c \in Ctx, CtxFree(c) PROVE IsInjective(work_q') /\ NoStaleWork'
  <2>1. /\ work_q' = RemoveFirst(work_q, YieldWork(c)) /\ UNCHANGED cur /\ cur # YieldWork(c)
        /\ \A x \in Ctx \ {c} : alive'[x] = alive[x]
    BY <1>3, <1>t DEF CtxFree, workVars, TypeOK, CtxTypes
  <2>2. /\ IsInjective(work_q')
        /\ \A x : Contains(work_q', x) <=> Contains(work_q, x) /\ x # YieldWork(c)
    BY <1>t, <2>1, RemoveFirstProperties
  <2> QED BY <2>1, <2>2, QueueKept
<1>4. ASSUME NEW c \in Ctx, JobStep(c) PROVE IsInjective(work_q') /\ NoStaleWork'
  <2>1. CASE NotifyYield(c)
    <3>1. UNCHANGED <<cur, alive>> /\ work_q' \in {work_q, QueueWork(work_q, YieldWork(c))}
      BY <2>1 DEF NotifyYield, aie2_rq_yield, workVars, ctxVars
    <3>2. alive[c] # "none"
      BY <1>l, <1>t, <2>1 DEF NotifyYield, WorkSafe, YieldersListed
    <3> QED BY <1>t, <1>y, <3>1, <3>2, QueueKept
  <2>2. CASE ~NotifyYield(c)
    BY <1>4, <1>f, <2>2 DEF JobStep, JobRun, JobRunFail, JobComplete, NotifyCheck, workVars, ctxVars
  <2> QED BY <2>1, <2>2
<1>5. ASSUME NEW t \in Thread, NEW c \in Ctx, SubmitStart(t, c)
      PROVE  IsInjective(work_q') /\ NoStaleWork'
  BY <1>5, <1>f DEF SubmitStart, workVars, ctxVars
<1>6. ASSUME NEW t \in Thread, ThreadStep(t) \/ SubmitSignal(t)
      PROVE  IsInjective(work_q') /\ NoStaleWork'
  <2>1. CASE SubmitSlow(t)
    <3>1. UNCHANGED <<cur, alive>> /\ work_q' = QueueWork(work_q, DispatchWork(tctx[t]))
          /\ DispatchWork(tctx[t]) \in Work
      BY <1>t, <2>1, WorkItems DEF SubmitSlow, workVars, ThreadsListed
    <3>2. IsInjective(work_q')
          /\ \A x : Contains(work_q', YieldWork(x)) <=> Contains(work_q, YieldWork(x))
      BY <1>t, <3>1, QueueWorkOnce, WorkDistinct
    <3> QED BY <3>1, <3>2, QueueKept
  <2>2. CASE SubmitCancelWork(t)
    <3>1. UNCHANGED <<cur, alive>> /\ work_q' = RemoveFirst(work_q, DispatchWork(tctx[t]))
      BY <2>2 DEF SubmitCancelWork, workVars
    <3>2. IsInjective(work_q') /\ \A x : Contains(work_q', x) => Contains(work_q, x)
      BY <1>t, <3>1, RemoveFirstProperties
    <3> QED BY <3>1, <3>2, QueueKept
  <2>3. CASE SubmitCleanup(t)
    <3>1. /\ UNCHANGED <<cur, alive>> /\ tctx[t] \in Ctx
          /\ work_q' = QueueWork(AfterAbort(tctx[t]), SchedWork)
             \/ work_q' = QueueWork(work_q, SchedWork)
      BY <1>t, <2>3 DEF SubmitCleanup, workVars, ctxVars, ThreadsListed
    <3>2. CASE work_q' = QueueWork(work_q, SchedWork)
      BY <1>s, <3>1, <3>2, QueueKept
    <3>3. CASE work_q' = QueueWork(AfterAbort(tctx[t]), SchedWork)
      <4>1. /\ AfterAbort(tctx[t]) \in Seq(Work) /\ IsInjective(AfterAbort(tctx[t]))
            /\ \A x : Contains(AfterAbort(tctx[t]), x) =>
                         Contains(work_q, x) \/ (x = YieldWork(tctx[t]) /\ Connected(tctx[t]))
        BY <1>t, <3>1, AfterAbortOnce
      <4>2. /\ IsInjective(work_q')
            /\ \A x : Contains(work_q', x) <=> Contains(AfterAbort(tctx[t]), x) \/ x = SchedWork
        BY <3>3, <4>1, QueueWorkOnce, WorkItems
      <4> QED BY <1>l, <3>1, <4>1, <4>2, QueueKept, WorkDistinct
    <3> QED BY <3>1, <3>2, <3>3
  <2>4. CASE SubmitFail(t)
    <3>1. /\ UNCHANGED <<cur, alive>> /\ tctx[t] \in Ctx /\ alive[tctx[t]] # "none"
          /\ work_q' \in {work_q, QueueWork(work_q, YieldWork(tctx[t]))}
      BY <1>l, <1>t, <2>4 DEF SubmitFail, aie2_rq_yield, workVars, ctxVars, ThreadsListed
    <3> QED BY <1>t, <1>y, <3>1, QueueKept
  <2>5. CASE ~SubmitSlow(t) /\ ~SubmitCancelWork(t) /\ ~SubmitCleanup(t) /\ ~SubmitFail(t)
    BY <1>6, <1>f, <2>5 DEF ThreadStep, SubmitEnter, SubmitWake, SubmitGranted, SubmitJob,
       SubmitSignal, workVars, ctxVars
  <2> QED BY <2>1, <2>2, <2>3, <2>4, <2>5
<1>7. CASE WorkStep
  <2>1. CASE WorkStart
    <3>1. /\ work_q # <<>> /\ work_q' = Tail(work_q) /\ cur' = Head(work_q) /\ UNCHANGED alive
      BY <2>1 DEF WorkStart, ctxVars
    <3>2. /\ Len(work_q) \in Nat \ {0} /\ Len(work_q') = Len(work_q) - 1
          /\ \A i \in 1..Len(work_q') : work_q'[i] = work_q[i + 1]
          /\ cur' = work_q[1]
      BY <1>t, <3>1, EmptySeq, HeadTailProperties
    <3>3. IsInjective(work_q')
      <4>1. DOMAIN work_q = 1..Len(work_q) /\ DOMAIN work_q' = 1..Len(work_q')
        BY <1>t, <3>1
      <4> QED BY <1>t, <3>2, <4>1 DEF IsInjective
    <3>4. /\ \A w : Contains(work_q', w) => Contains(work_q, w)
          /\ Contains(work_q, cur')
      BY <3>2 DEF Contains
    <3> QED BY <3>1, <3>3, <3>4, QueueKept
  <2>2. CASE RqDispatchWork \/ RqYieldWork
    <3>1. UNCHANGED alive /\ cur' = NoWork /\ work_q' \in {work_q, QueueWork(work_q, SchedWork)}
      BY <2>2 DEF RqDispatchWork, RqYieldWork, WorkEnd, ctxVars
    <3> QED BY <1>s, <1>t, <3>1, QueueKept, WorkDistinct
  <2>3. CASE RqSchedCheck
    <3>1. /\ UNCHANGED alive /\ cur' \in {cur, NoWork} /\ blk \in Ctx /\ alive[blk] # "none"
          /\ work_q' \in {work_q, QueueWork(work_q, YieldWork(blk))}
      BY <1>l, <1>t, <2>3
         DEF RqSchedCheck, WorkEnd, ctxVars, WorkerHoldsItem, WorkSafe, YieldersListed
    <3> QED BY <1>t, <1>y, <3>1, QueueKept, WorkDistinct
  <2>4. CASE RqSchedLock \/ RqSchedConnect \/ RqSchedConnectDone \/ RqSchedMark
    BY <1>f, <2>4 DEF RqSchedLock, RqSchedConnect, RqSchedConnectDone, RqSchedMark, WorkEnd,
       workVars, ctxVars
  <2> QED BY <1>7, <2>1, <2>2, <2>3, <2>4 DEF WorkStep
<1>8. CASE TdrStep
  <2>1. CASE TdrScan
    <3>1. Head(todo) \in Ctx /\ Contains(todo, Head(todo))
      <4>1. todo \in Seq(Ctx) /\ todo # <<>>
        BY <1>t, <2>1 DEF TdrScan, TypeOK, LockTypes
      <4>2. Len(todo) \in Nat \ {0} /\ Head(todo) = todo[1]
        BY <4>1, EmptySeq
      <4> QED BY <4>1, <4>2 DEF Contains
    <3>2. /\ UNCHANGED <<cur, alive>> /\ alive[Head(todo)] # "none"
          /\ work_q' \in {work_q, QueueWork(work_q, YieldWork(Head(todo)))}
      BY <1>l, <1>t, <2>1, <3>1 DEF TdrScan, workVars, WorkSafe, YieldersListed
    <3> QED BY <1>t, <1>y, <3>1, <3>2, QueueKept
  <2>2. CASE TdrRunAll
    <3>1. UNCHANGED <<cur, alive>> /\ work_q' = QueueWork(work_q, SchedWork)
      BY <2>2 DEF TdrRunAll, workVars, ctxVars
    <3> QED BY <1>s, <3>1, QueueKept
  <2>3. CASE TdrLock \/ TdrScanDone \/ TdrStuck \/ TdrRecover
    BY <1>f, <2>3 DEF TdrLock, TdrScanDone, TdrStuck, TdrRecover, workVars, ctxVars
  <2> QED BY <1>8, <2>1, <2>2, <2>3 DEF TdrStep
<1>9. CASE PmStep
  <2>1. CASE RqPauseCtx
    <3>1. Head(todo) \in Ctx /\ UNCHANGED <<cur, alive>> /\ work_q' = AfterAbort(Head(todo))
      BY <2>1, <1>t, HeadTailProperties DEF RqPauseCtx, TypeOK, LockTypes, workVars, ctxVars
    <3> QED BY <1>l, <1>t, <3>1, AfterAbortOnce, QueueKept, WorkDistinct
  <2>2. CASE Resume
    <3>1. UNCHANGED <<cur, alive>> /\ work_q' = QueueWork(work_q, SchedWork)
      BY <2>2 DEF Resume, workVars, ctxVars
    <3> QED BY <1>s, <3>1, QueueKept
  <2>3. CASE Suspend \/ SuspendDone
    BY <1>f, <2>3 DEF Suspend, SuspendDone, workVars, ctxVars
  <2> QED BY <1>9, <2>1, <2>2, <2>3 DEF PmStep
<1>10. CASE UNCHANGED vars
  BY <1>10, <1>f DEF vars, workVars, ctxVars
<1> QED BY <1>1, <1>2, <1>3, <1>4, <1>5, <1>6, <1>7, <1>8, <1>9, <1>10 DEF Next, CtxStep

-----------------------------------------------------------------------------
(* Who may still queue a yield                                             *)

(* Stopping a context that has commands or a handler leaves it without.    *)
LEMMA StopLeavesIdle ==
    ASSUME TypeOK, ListInv, YieldersListed, NEW c \in Ctx, NEW wait, StopHwctx(c, wait),
           UNCHANGED comp, conn_list' = RemoveFirst(conn_list, c), NEW x \in Ctx,
           inflight'[x] > 0 \/ queued'[x] > 0 \/ comp'[x] # "idle"
    PROVE  Connected(x)'
<1>1. Connected(x)' <=> Connected(x) /\ x # c
  BY UnlinkConn
<1>2. x # c
  BY DEF StopHwctx, Drained, TypeOK, JobTypes
<1>3. inflight[x] > 0 \/ queued[x] > 0 \/ comp[x] # "idle"
  BY <1>2 DEF StopHwctx, TypeOK, JobTypes
<1> QED BY <1>1, <1>2, <1>3 DEF YieldersListed

(* rq_ctx_stop_wait() whether it stops or not.                             *)
LEMMA StopCtxLeavesIdle ==
    ASSUME TypeOK, ListInv, YieldersListed, NEW c \in Ctx, NEW wait, StopCtx(c, wait),
           UNCHANGED comp, NEW x \in Ctx,
           inflight'[x] > 0 \/ queued'[x] > 0 \/ comp'[x] # "idle"
    PROVE  Connected(x)'
<1>1. CASE ctx_should_stop(c)
  BY <1>1, StopLeavesIdle DEF StopCtx, MoveToDisconn
<1>2. CASE ~ctx_should_stop(c)
  BY <1>2 DEF StopCtx, YieldersListed, Connected, jobVars, listVars
<1> QED BY <1>1, <1>2

(* A context with commands or with a running handler is connected.         *)
LEMMA BusyStep ==
    ASSUME RqInv, [Next]_vars, NEW x \in Ctx,
           inflight'[x] > 0 \/ queued'[x] > 0 \/ comp'[x] # "idle"
    PROVE  Connected(x)'
<1>t. /\ TypeOK /\ ListInv /\ ThreadsListed /\ WorkerHoldsItem /\ YieldersListed
  BY DEF RqInv, WorkSafe
<1>n. inflight[x] \in Nat /\ queued[x] \in Nat
  BY <1>t DEF TypeOK, JobTypes
<1>b. inflight[x] > 0 \/ queued[x] > 0 \/ comp[x] # "idle" => Connected(x)
  BY <1>t DEF YieldersListed
<1>f. UNCHANGED <<queued, inflight, comp, conn_list>> => Connected(x)'
  BY <1>b DEF Connected
<1>u. ASSUME NEW c \in Ctx, ~Connected(c), conn_list' = RemoveFirst(conn_list, c),
             UNCHANGED <<queued, inflight, comp>>
      PROVE  Connected(x)'
  BY <1>u, <1>b, <1>t, UnlinkConn
<1>1. ASSUME NEW c \in Ctx, CtxCreate(c) \/ CtxErase(c) \/ CtxFree(c) PROVE Connected(x)'
  BY <1>1, <1>f DEF CtxCreate, CtxErase, CtxFree, jobVars, listVars
<1>2. ASSUME NEW c \in Ctx, RqDel(c) PROVE Connected(x)'
  <2>1. UNCHANGED comp /\ conn_list' = RemoveFirst(conn_list, c)
    BY <1>2 DEF RqDel
  <2>2. CASE ctx_should_stop(c)
    BY <1>2, <1>t, <2>1, <2>2, StopLeavesIdle DEF RqDel
  <2>3. CASE ~ctx_should_stop(c)
    <3>1. ~Connected(c) /\ UNCHANGED <<queued, inflight>>
      BY <1>2, <1>t, <2>3 DEF RqDel, ListInv, ConnStatus, jobVars
    <3> QED BY <1>u, <2>1, <3>1
  <2> QED BY <2>2, <2>3
<1>3. ASSUME NEW c \in Ctx, JobStep(c) PROVE Connected(x)'
  <2>1. UNCHANGED conn_list
    BY <1>3 DEF JobStep, JobRun, JobRunFail, JobComplete, NotifyCheck, NotifyYield, listVars
  <2>2. CASE x = c
    BY <1>3, <1>t, <1>n, <1>b, <2>1, <2>2 DEF JobStep, JobRun, JobRunFail, JobComplete, NotifyCheck,
       NotifyYield, Connected
  <2>3. CASE x # c
    <3>1. inflight'[x] = inflight[x] /\ queued'[x] = queued[x] /\ comp'[x] = comp[x]
      BY <1>3, <1>t, <2>3 DEF JobStep, JobRun, JobRunFail, JobComplete, NotifyCheck, NotifyYield,
         TypeOK, JobTypes
    <3> QED BY <1>b, <2>1, <3>1 DEF Connected
  <2> QED BY <2>2, <2>3
<1>4. ASSUME NEW t \in Thread, NEW c \in Ctx, SubmitStart(t, c) PROVE Connected(x)'
  BY <1>4, <1>f DEF SubmitStart, jobVars, listVars
<1>5. ASSUME NEW t \in Thread, ThreadStep(t) \/ SubmitSignal(t) PROVE Connected(x)'
  <2>1. CASE SubmitCleanup(t)
    <3>1. tctx[t] \in Ctx /\ UNCHANGED comp
      BY <1>t, <2>1 DEF SubmitCleanup, ThreadsListed
    <3>2. CASE status[tctx[t]] = "DISPATCHED" /\ rq_ctx_cancel(tctx[t])
      <4>1. ~Connected(tctx[t])
        BY <1>t, <3>1, <3>2 DEF ListInv, ConnStatus, ctx_should_stop
      <4> QED BY <1>u, <3>1, <3>2, <4>1 DEF rq_ctx_cancel, MoveToDisconn, jobVars
    <3>3. CASE StopCtx(tctx[t], TRUE)
      BY <1>t, <3>1, <3>3, StopCtxLeavesIdle
    <3>4. CASE UNCHANGED <<status, jobVars, listVars>>
      BY <1>f, <3>1, <3>4 DEF jobVars, listVars
    <3> QED BY <2>1, <3>2, <3>3, <3>4 DEF SubmitCleanup
  <2>2. CASE SubmitJob(t)
    <3>1. UNCHANGED <<inflight, comp, conn_list>>
      BY <2>2 DEF SubmitJob, listVars
    <3>2. queued'[x] = queued[x] \/ Connected(x)
      BY <1>t, <2>2 DEF SubmitJob, TypeOK, JobTypes
    <3> QED BY <1>b, <3>1, <3>2 DEF Connected
  <2>3. CASE ~SubmitCleanup(t) /\ ~SubmitJob(t)
    BY <1>5, <1>f, <2>3 DEF ThreadStep, SubmitEnter, SubmitSlow, SubmitWake, SubmitGranted,
       SubmitSignal, SubmitCancelWork, SubmitFail, jobVars, listVars
  <2> QED BY <2>1, <2>2, <2>3
<1>6. CASE WorkStep
  <2>1. CASE RqDispatchWork
    <3>1. cur.ctx \in Ctx /\ UNCHANGED <<queued, inflight, comp>>
      BY <1>t, <2>1, WorkItems DEF RqDispatchWork, WorkerHoldsItem, Kind, jobVars
    <3>2. CASE status[cur.ctx] = "DISCONNECTED"
      <4>1. ~Connected(cur.ctx)
        BY <1>t, <3>1, <3>2 DEF ListInv, ConnStatus, ctx_should_stop
      <4> QED BY <1>u, <2>1, <3>1, <3>2, <4>1 DEF RqDispatchWork, rq_ctx_dispatch
    <3>3. CASE status[cur.ctx] # "DISCONNECTED"
      BY <1>f, <2>1, <3>1, <3>3 DEF RqDispatchWork, listVars
    <3> QED BY <3>2, <3>3
  <2>2. CASE RqYieldWork
    <3>1. cur.ctx \in Ctx /\ UNCHANGED comp
      BY <1>t, <2>2, WorkItems DEF RqYieldWork, WorkerHoldsItem, Kind
    <3>2. StopCtx(cur.ctx, TRUE) \/ UNCHANGED <<jobVars, listVars>>
      BY <2>2 DEF RqYieldWork
    <3>3. CASE UNCHANGED <<jobVars, listVars>>
      BY <1>f, <3>1, <3>3 DEF jobVars, listVars
    <3> QED BY <1>t, <3>1, <3>2, <3>3, StopCtxLeavesIdle
  <2>3. CASE RqSchedConnect
    <3> DEFINE c == select_next_ctx(NoCtx)
    <3>1. /\ c \in Ctx /\ Waiting(c) /\ UNCHANGED <<queued, inflight, comp>>
          /\ conn_list' = conn_list \/ conn_list' = insert_ctx_to_conn_list(conn_list, c)
      BY <1>t, <2>3, NextIsWaiting DEF RqSchedConnect, jobVars
    <3> HIDE DEF c
    <3>2. ~Connected(c)
      BY <1>t, <3>1 DEF ListInv, OneList
    <3>3. Connected(x) => Connected(x)'
      BY <1>t, <3>1, <3>2, ConnectConn DEF Connected
    <3> QED BY <1>b, <3>1, <3>3
  <2>4. CASE WorkStart \/ RqSchedLock \/ RqSchedConnectDone \/ RqSchedMark \/ RqSchedCheck
    BY <1>f, <2>4 DEF WorkStart, RqSchedLock, RqSchedConnectDone, RqSchedMark, RqSchedCheck,
       jobVars, listVars
  <2> QED BY <1>6, <2>1, <2>2, <2>3, <2>4 DEF WorkStep
<1>7. CASE TdrStep
  BY <1>7, <1>f DEF TdrStep, TdrLock, TdrScan, TdrScanDone, TdrStuck, TdrRecover, TdrRunAll,
     jobVars, listVars
<1>8. CASE PmStep
  <2>1. CASE RqPauseCtx
    <3>1. Head(todo) \in Ctx
      BY <2>1, <1>t, HeadTailProperties DEF RqPauseCtx, TypeOK, LockTypes
    <3> QED BY <1>t, <2>1, <3>1, StopCtxLeavesIdle DEF RqPauseCtx
  <2>2. CASE ~RqPauseCtx
    BY <1>8, <1>f, <2>2 DEF PmStep, Suspend, SuspendDone, Resume, jobVars, listVars
  <2> QED BY <2>1, <2>2
<1>9. CASE UNCHANGED vars
  BY <1>9, <1>f DEF vars, jobVars, listVars
<1> QED BY <1>1, <1>2, <1>3, <1>4, <1>5, <1>6, <1>7, <1>8, <1>9 DEF Next, CtxStep

(* Only a step of its own life changes whether a context lives.            *)
LEMMA LifeSteps ==
    ASSUME [Next]_vars, alive' # alive
    PROVE  \E c \in Ctx : CtxStep(c)
BY DEF Next, vars, ctxVars, JobStep, ThreadStep, WorkStep, TdrStep, PmStep,
   JobRun, JobRunFail, JobComplete, NotifyCheck, NotifyYield,
   SubmitStart, SubmitEnter, SubmitSlow, SubmitWake, SubmitGranted, SubmitSignal,
   SubmitCancelWork, SubmitCleanup, SubmitJob, SubmitFail,
   WorkStart, RqDispatchWork, RqYieldWork, RqSchedLock, RqSchedConnect, RqSchedConnectDone,
   RqSchedMark, RqSchedCheck, TdrLock, TdrScan, TdrScanDone, TdrStuck, TdrRecover, TdrRunAll,
   RqPauseCtx, Suspend, SuspendDone, Resume

(* A context is taken off the lists only by aie2_rq_del(), and while nobody *)
(* keeps dev_lock.                                                         *)
LEMMA ListedStep ==
    ASSUME RqInv, [Next]_vars, NEW x \in Ctx, Listed(x), ~Listed(x)'
    PROVE  /\ dev_lock = "free" /\ UNCHANGED <<dev_lock, wpc, blk, tpc, todo>>
           /\ alive[x] = "dying"
<1>f. alive' # alive
  BY DEF Listed
<1>1. PICK c \in Ctx : CtxStep(c)
  BY <1>f, LifeSteps
<1>2. RqDel(c) /\ c = x
  BY <1>1 DEF CtxStep, CtxCreate, CtxErase, RqDel, CtxFree, Listed, RqInv, TypeOK, CtxTypes
<1> QED BY <1>2 DEF RqDel, workVars, lockVars

(* The context that rq_sched_work() marks is a connected one.              *)
LEMMA BlockConnected ==
    ASSUME TypeOK, NEW prio, select_ctx_to_block(prio) # NoCtx
    PROVE  select_ctx_to_block(prio) \in Ctx /\ Connected(select_ctx_to_block(prio))
<1> DEFINE able == {i \in 1..Len(conn_list) : /\ Prio[conn_list[i]] >= prio
                                              /\ ~should_block[conn_list[i]]}
           k == CHOOSE i \in able : \A j \in able : j <= i
<1>1. conn_list \in Seq(Ctx) /\ Len(conn_list) \in Nat
  BY DEF TypeOK, ListTypes
<1>2. able # {} /\ select_ctx_to_block(prio) = conn_list[k]
  BY DEF select_ctx_to_block
<1>3. k \in able
  <2>1. able \subseteq 1..Len(conn_list)
    OBVIOUS
  <2> HIDE DEF able
  <2>2. \E i \in able : \A j \in able : j <= i
    BY <1>1, <1>2, <2>1, BoundedHasMax
  <2> QED BY <2>2
<1>4. k \in 1..Len(conn_list)
  BY <1>3
<1> HIDE DEF k
<1> QED BY <1>1, <1>2, <1>4 DEF Connected, Contains

(* The rest of a list holds nothing new.                                   *)
LEMMA TailContains ==
    ASSUME NEW s \in Seq(Ctx), s # <<>>, NEW x, Contains(Tail(s), x)
    PROVE  Contains(s, x)
<1>1. /\ Len(s) \in Nat \ {0} /\ Len(Tail(s)) = Len(s) - 1
      /\ \A i \in 1..Len(Tail(s)) : Tail(s)[i] = s[i + 1]
  BY EmptySeq, HeadTailProperties
<1>2. DOMAIN s = 1..Len(s) /\ DOMAIN Tail(s) = 1..Len(Tail(s))
  BY <1>1, HeadTailProperties
<1> QED BY <1>1, <1>2 DEF Contains

(* Whoever keeps dev_lock across its steps keeps it, and the contexts it   *)
(* is about to look at stay on the lists.                                  *)
LEMMA HolderStep ==
    ASSUME RqInv, TypeOK', WorkerHoldsItem', [Next]_vars
    PROVE  /\ wpc' \in {"connect", "mark", "check"} => dev_lock' = "sched"
           /\ wpc' = "check" => Listed(blk)'
           /\ tpc' = "scan" => dev_lock' = "tdr" /\ \A c \in Ctx : Contains(todo', c) => Listed(c)'
<1> DEFINE Kept == /\ wpc' \in {"connect", "mark", "check"} => dev_lock' = "sched"
                   /\ wpc' = "check" => Listed(blk)'
                   /\ tpc' = "scan" =>
                        dev_lock' = "tdr" /\ \A c \in Ctx : Contains(todo', c) => Listed(c)'
<1>t. TypeOK /\ ListInv /\ WorkerHoldsItem /\ YieldersListed
  BY DEF RqInv, WorkSafe
<1>l. \A c \in Ctx : Listed(c) /\ dev_lock # "free" => Listed(c)'
  BY ListedStep
<1>c. \A c \in Ctx : Connected(c) => Listed(c)
  BY <1>t DEF ListInv, OneList
<1>f. UNCHANGED <<dev_lock, wpc, blk, tpc, todo>> => Kept
  <2> SUFFICES ASSUME UNCHANGED <<dev_lock, wpc, blk, tpc, todo>> PROVE Kept
    OBVIOUS
  <2>1. wpc' = "check" => Listed(blk)'
    BY <1>l, <1>t DEF YieldersListed, WorkerHoldsItem, Listed
  <2>2. tpc' = "scan" => \A c \in Ctx : Contains(todo', c) => Listed(c)'
    BY <1>l, <1>t DEF YieldersListed
  <2> QED BY <1>t, <2>1, <2>2 DEF YieldersListed
<1>e. UNCHANGED <<alive, dev_lock, tpc, todo>> /\ wpc' \in {"idle", "lock"} => Kept
  BY <1>t DEF YieldersListed, Listed
<1>d. ASSUME UNCHANGED <<alive, tpc, todo>>, dev_lock' = "free", wpc' = "idle",
             dev_lock = "sched"
      PROVE  Kept
  BY <1>d, <1>t DEF YieldersListed
<1>1. ASSUME NEW c \in Ctx, CtxStep(c) \/ JobStep(c) PROVE Kept
  BY <1>1, <1>f DEF CtxStep, CtxCreate, CtxErase, RqDel, CtxFree, JobStep, JobRun, JobRunFail,
     JobComplete, NotifyCheck, NotifyYield, workVars, lockVars
<1>2. ASSUME NEW t \in Thread, ThreadStep(t) \/ SubmitSignal(t) \/ \E c \in Ctx : SubmitStart(t, c)
      PROVE  Kept
  BY <1>2, <1>f DEF ThreadStep, SubmitStart, SubmitEnter, SubmitSlow, SubmitWake, SubmitGranted,
     SubmitSignal, SubmitCancelWork, SubmitCleanup, SubmitJob, SubmitFail, workVars, lockVars
<1>3. CASE WorkStep
  <2>1. CASE WorkStart \/ RqDispatchWork \/ RqYieldWork
    BY <1>e, <2>1 DEF WorkStart, RqDispatchWork, RqYieldWork, WorkEnd, lockVars, ctxVars
  <2>2. CASE RqSchedLock
    BY <1>t, <2>2 DEF RqSchedLock, YieldersListed
  <2>3. CASE RqSchedConnect
    BY <1>f, <2>3 DEF RqSchedConnect, workVars, lockVars
  <2>4. CASE RqSchedConnectDone
    <3>1. UNCHANGED <<alive, tpc, todo>> /\ dev_lock = "sched"
      BY <1>t, <2>4 DEF RqSchedConnectDone, YieldersListed, SchedUnlock, lockVars, ctxVars
    <3>2. (wpc' = "mark" /\ UNCHANGED dev_lock) \/ (wpc' = "idle" /\ dev_lock' = "free")
      BY <2>4 DEF RqSchedConnectDone, WorkEnd, SchedUnlock, lockVars
    <3> QED BY <1>d, <1>t, <3>1, <3>2 DEF YieldersListed
  <2>5. CASE RqSchedMark
    <3> DEFINE b == select_ctx_to_block(Prio[nxt])
    <3>1. UNCHANGED <<alive, tpc, todo>> /\ dev_lock = "sched"
      BY <1>t, <2>5 DEF RqSchedMark, YieldersListed, SchedUnlock, lockVars
    <3>2. CASE b = NoCtx
      BY <1>d, <2>5, <3>1, <3>2 DEF RqSchedMark, WorkEnd, SchedUnlock
    <3>3. CASE b # NoCtx
      <4>1. blk' = b /\ wpc' = "check" /\ UNCHANGED dev_lock
        BY <2>5, <3>3 DEF RqSchedMark, lockVars
      <4>2. b \in Ctx /\ Connected(b)
        BY <1>t, <3>3, BlockConnected
      <4> QED BY <1>c, <1>t, <3>1, <4>1, <4>2 DEF YieldersListed, Listed
    <3> QED BY <3>2, <3>3
  <2>6. CASE RqSchedCheck
    <3>1. UNCHANGED <<alive, tpc, todo>> /\ dev_lock = "sched"
      BY <1>t, <2>6 DEF RqSchedCheck, YieldersListed, SchedUnlock, lockVars, ctxVars
    <3>2. (wpc' = "mark" /\ UNCHANGED dev_lock) \/ (wpc' = "idle" /\ dev_lock' = "free")
      BY <2>6 DEF RqSchedCheck, WorkEnd, SchedUnlock, lockVars
    <3> QED BY <1>d, <1>t, <3>1, <3>2 DEF YieldersListed
  <2> QED BY <1>3, <2>1, <2>2, <2>3, <2>4, <2>5, <2>6 DEF WorkStep
<1>4. CASE TdrStep
  <2>1. CASE TdrLock
    <3>1. /\ dev_lock = "free" /\ dev_lock' = "tdr" /\ todo' = conn_list
          /\ UNCHANGED <<alive, wpc, blk>>
      BY <2>1 DEF TdrLock, ctxVars, workVars
    <3> QED BY <1>c, <1>t, <3>1 DEF YieldersListed, Connected, Listed
  <2>2. CASE TdrScan
    <3>1. UNCHANGED <<alive, dev_lock, tpc, wpc, blk>> /\ todo' = Tail(todo) /\ todo # <<>>
      BY <2>2 DEF TdrScan, workVars
    <3>2. \A c : Contains(todo', c) => Contains(todo, c)
      BY <1>t, <3>1, TailContains DEF TypeOK, LockTypes
    <3> QED BY <1>t, <3>1, <3>2 DEF YieldersListed, Listed
  <2>3. CASE TdrScanDone
    BY <1>t, <2>3 DEF TdrScanDone, YieldersListed, workVars
  <2>4. CASE TdrStuck
    BY <1>t, <2>4 DEF TdrStuck, YieldersListed, workVars
  <2>5. CASE TdrRecover
    BY <1>t, <2>5 DEF TdrRecover, YieldersListed, workVars
  <2>6. CASE TdrRunAll
    BY <1>t, <2>6 DEF TdrRunAll, YieldersListed, workVars
  <2> QED BY <1>4, <2>1, <2>2, <2>3, <2>4, <2>5, <2>6 DEF TdrStep
<1>5. CASE PmStep
  <2>1. CASE RqPauseCtx
    <3>1. UNCHANGED <<alive, dev_lock, tpc, wpc, blk>> /\ todo' = Tail(todo) /\ todo # <<>>
      BY <2>1 DEF RqPauseCtx, workVars, ctxVars
    <3>2. \A c : Contains(todo', c) => Contains(todo, c)
      BY <1>t, <3>1, TailContains DEF TypeOK, LockTypes
    <3> QED BY <1>t, <3>1, <3>2 DEF YieldersListed, Listed
  <2>2. CASE Suspend
    BY <1>t, <2>2 DEF Suspend, YieldersListed, workVars
  <2>3. CASE SuspendDone
    BY <1>t, <2>3 DEF SuspendDone, YieldersListed, workVars
  <2>4. CASE Resume
    BY <1>f, <2>4 DEF Resume, workVars
  <2> QED BY <1>5, <2>1, <2>2, <2>3, <2>4 DEF PmStep
<1>6. CASE UNCHANGED vars
  BY <1>6, <1>f DEF vars, workVars, lockVars
<1> QED BY <1>1, <1>2, <1>3, <1>4, <1>5, <1>6 DEF Next

-----------------------------------------------------------------------------
(* The counters                                                            *)

(* Nobody enters or leaves a queue, and a status changes only to one that  *)
(* says nothing about the queues.                                          *)
LEMMA FrameCount ==
    ASSUME DispatchedWaits, UNCHANGED <<runqueue, cnt, runqueue_total>>,
           \A c \in Ctx : \/ status'[c] = status[c] /\ (Listed(c)' => Listed(c))
                          \/ status'[c] \in {"CONNECTED", "DISCONNECTING"}
                          \/ status'[c] = "DISCONNECTED" /\ ~Waiting(c)
    PROVE  DispatchedWaits' /\ CountersFollow
<1>1. \A c \in Ctx : Waiting(c)' <=> Waiting(c)
  BY DEF Waiting
<1>2. DispatchedWaits'
  BY <1>1 DEF DispatchedWaits
<1>3. Excess' = Excess
  BY DEF Excess
<1>4. {c \in Ctx : Waiting(c)}' = {c \in Ctx : Waiting(c)}
  BY <1>1
<1>5. ExcessTotal' = ExcessTotal
  BY <1>4 DEF ExcessTotal
<1> QED BY <1>2, <1>3, <1>5 DEF CountersFollow

(* Unlinking a context shortens the queue of its priority by one, if it is *)
(* on it, and the set of those that wait.                                  *)
LEMMA UnlinkCount ==
    ASSUME TypeOK, ListInv, NEW c \in Ctx,
           runqueue' = [runqueue EXCEPT ![Prio[c]] = RemoveFirst(@, c)]
    PROVE  /\ ~Waiting(c) => runqueue' = runqueue
           /\ Waiting(c) =>
                /\ \A p \in Priority : Len(runqueue'[p]) =
                     IF p = Prio[c] THEN Len(runqueue[p]) - 1 ELSE Len(runqueue[p])
                /\ Cardinality({d \in Ctx : Waiting(d)'})
                     = Cardinality({d \in Ctx : Waiting(d)}) - 1
<1>1. /\ Prio[c] \in Priority
      /\ runqueue \in [Priority -> Seq(Ctx)] /\ runqueue[Prio[c]] \in Seq(Ctx)
      /\ IsInjective(runqueue[Prio[c]])
  BY ConstantsAssumption DEF TypeOK, ListTypes, ListInv, OneList
<1> DEFINE r == RemoveFirst(runqueue[Prio[c]], c)
<1>2. /\ Waiting(c) => Len(r) = Len(runqueue[Prio[c]]) - 1
      /\ ~Waiting(c) => r = runqueue[Prio[c]]
  BY <1>1, RemoveFirstProperties DEF Waiting
<1> HIDE DEF r
<1>3. \A p \in Priority : runqueue'[p] = IF p = Prio[c] THEN r ELSE runqueue[p]
  BY <1>1 DEF r
<1>4. ASSUME ~Waiting(c) PROVE runqueue' = runqueue
  BY <1>1, <1>2, <1>4 DEF r
<1>5. ASSUME Waiting(c)
      PROVE  Cardinality({d \in Ctx : Waiting(d)'}) = Cardinality({d \in Ctx : Waiting(d)}) - 1
  <2> DEFINE W == {d \in Ctx : Waiting(d)}
             V == {d \in Ctx : Waiting(d)'}
  <2>1. \A d \in Ctx : Waiting(d)' <=> Waiting(d) /\ d # c
    BY UnlinkQueue
  <2>2. V = W \ {c} /\ c \in W
    BY <2>1, <1>5
  <2>3. IsFiniteSet(W)
    BY ConstantsAssumption, FS_Subset
  <2> HIDE DEF V, W
  <2>4. Cardinality(V) = Cardinality(W) - 1
    BY <2>2, <2>3, FS_RemoveElement
  <2> QED BY <2>4 DEF V, W
<1> QED BY <1>2, <1>3, <1>4, <1>5

(* A context leaves its queue and both counters follow.                    *)
LEMMA LeaveCount ==
    ASSUME TypeOK, ListInv, DispatchedWaits, NEW c \in Ctx, Waiting(c), UNCHANGED alive,
           runqueue' = [runqueue EXCEPT ![Prio[c]] = RemoveFirst(@, c)],
           cnt' = [cnt EXCEPT ![Prio[c]] = @ - 1], runqueue_total' = runqueue_total - 1,
           NEW s, status' = [status EXCEPT ![c] = s], s # "DISPATCHED"
    PROVE  DispatchedWaits' /\ CountersFollow
<1>1. /\ \A p \in Priority : Len(runqueue'[p]) =
                     IF p = Prio[c] THEN Len(runqueue[p]) - 1 ELSE Len(runqueue[p])
      /\ Cardinality({d \in Ctx : Waiting(d)'}) = Cardinality({d \in Ctx : Waiting(d)}) - 1
  BY UnlinkCount
<1>2. \A d \in Ctx : Waiting(d)' <=> Waiting(d) /\ d # c
  BY UnlinkQueue
<1>3. \A d \in Ctx : status'[d] = IF d = c THEN s ELSE status[d]
  BY DEF TypeOK, ListTypes
<1>4. DispatchedWaits'
  BY <1>2, <1>3 DEF DispatchedWaits, Listed
<1>5. \A p \in Priority : /\ cnt[p] \in Int /\ Len(runqueue[p]) \in Nat
                          /\ cnt'[p] = IF p = Prio[c] THEN cnt[p] - 1 ELSE cnt[p]
  BY LenProperties DEF TypeOK, ListTypes
<1>6. \A p \in Priority : cnt'[p] - Len(runqueue'[p]) = cnt[p] - Len(runqueue[p])
  BY <1>1, <1>5
<1>7. Excess' = Excess
  BY <1>6 DEF Excess
<1>8. ExcessTotal' = ExcessTotal
  <2> DEFINE W == Cardinality({d \in Ctx : Waiting(d)})
             V == Cardinality({d \in Ctx : Waiting(d)'})
  <2>1. W \in Nat /\ runqueue_total \in Int
    BY ConstantsAssumption, FS_Subset, FS_CardinalityType DEF TypeOK, ListTypes
  <2>2. V = W - 1
    BY <1>1
  <2>3. ExcessTotal = runqueue_total - W /\ ExcessTotal' = runqueue_total' - V
    BY DEF ExcessTotal
  <2> HIDE DEF V, W
  <2> QED BY <2>1, <2>2, <2>3
<1> QED BY <1>4, <1>7, <1>8 DEF CountersFollow

(* rq_ctx_dispatch(): a context that is on no queue enters one.            *)
LEMMA EnterCount ==
    ASSUME TypeOK, ListInv, DispatchedWaits, NEW c \in Ctx, status[c] = "DISCONNECTED",
           rq_ctx_dispatch(c), UNCHANGED alive
    PROVE  DispatchedWaits' /\ CountersFollow
<1>1. /\ runqueue' = [runqueue EXCEPT ![Prio[c]] = Append(RemoveFirst(@, c), c)]
      /\ status' = [status EXCEPT ![c] = "DISPATCHED"]
      /\ cnt' = [cnt EXCEPT ![Prio[c]] = @ + 1]
      /\ runqueue_total' = runqueue_total + 1
  BY DEF rq_ctx_dispatch
<1>2. /\ Prio \in [Ctx -> Priority]
      /\ runqueue \in [Priority -> Seq(Ctx)]
      /\ runqueue[Prio[c]] \in Seq(Ctx) /\ IsInjective(runqueue[Prio[c]])
  BY ConstantsAssumption DEF TypeOK, ListTypes, ListInv, OneList
<1>3. ~Waiting(c)
  BY DEF DispatchedWaits
<1> DEFINE a == Append(runqueue[Prio[c]], c)
<1>4. RemoveFirst(runqueue[Prio[c]], c) = runqueue[Prio[c]]
  BY <1>2, <1>3, RemoveFirstProperties DEF Waiting
<1>5. /\ Len(a) = Len(runqueue[Prio[c]]) + 1
      /\ \A x : Contains(a, x) <=> Contains(runqueue[Prio[c]], x) \/ x = c
  BY <1>2, <1>3, AppendInjectiveProperties DEF Waiting
<1>6. \A p \in Priority : runqueue'[p] = IF p = Prio[c] THEN a ELSE runqueue[p]
  BY <1>1, <1>2, <1>4
<1> HIDE DEF a
<1>7. \A d \in Ctx : Waiting(d)' <=> Waiting(d) \/ d = c
  <2>1. \A d \in Ctx : Prio[d] \in Priority
    BY <1>2
  <2> QED BY <1>5, <1>6, <2>1 DEF Waiting
<1>8. \A d \in Ctx : status'[d] = IF d = c THEN "DISPATCHED" ELSE status[d]
  BY <1>1 DEF TypeOK, ListTypes
<1>9. DispatchedWaits'
  BY <1>7, <1>8 DEF DispatchedWaits, Listed
<1>10. \A p \in Priority : /\ cnt[p] \in Int /\ Len(runqueue[p]) \in Nat
                           /\ cnt'[p] = IF p = Prio[c] THEN cnt[p] + 1 ELSE cnt[p]
  BY <1>1, LenProperties DEF TypeOK, ListTypes
<1>11. \A p \in Priority : cnt'[p] - Len(runqueue'[p]) = cnt[p] - Len(runqueue[p])
  <2> SUFFICES ASSUME NEW p \in Priority
               PROVE  cnt'[p] - Len(runqueue'[p]) = cnt[p] - Len(runqueue[p])
    OBVIOUS
  <2>1. CASE p = Prio[c]
    <3>1. cnt'[p] = cnt[p] + 1 /\ Len(runqueue'[p]) = Len(runqueue[p]) + 1
      BY <1>5, <1>6, <1>10, <2>1
    <3> QED BY <1>10, <3>1
  <2>2. CASE p # Prio[c]
    BY <1>6, <1>10, <2>2
  <2> QED BY <2>1, <2>2
<1>12. Excess' = Excess
  BY <1>11 DEF Excess
<1>13. ExcessTotal' = ExcessTotal
  <2> DEFINE W == {d \in Ctx : Waiting(d)}
             V == {d \in Ctx : Waiting(d)'}
  <2>1. IsFiniteSet(W) /\ runqueue_total \in Int
    BY ConstantsAssumption, FS_Subset DEF TypeOK, ListTypes
  <2>2. V = W \cup {c} /\ c \notin W
    BY <1>3, <1>7
  <2>3. /\ ExcessTotal = runqueue_total - Cardinality(W)
        /\ ExcessTotal' = runqueue_total' - Cardinality(V)
    BY DEF ExcessTotal
  <2> HIDE DEF V, W
  <2>4. Cardinality(V) = Cardinality(W) + 1 /\ Cardinality(W) \in Nat
    BY <2>1, <2>2, FS_AddElement, FS_CardinalityType
  <2> QED BY <1>1, <2>1, <2>3, <2>4
<1> QED BY <1>9, <1>12, <1>13 DEF CountersFollow

(* rq_ctx_stop_wait() of any context: a connected one is on no queue.      *)
LEMMA StopCount ==
    ASSUME TypeOK, ListInv, DispatchedWaits, NEW c \in Ctx, NEW wait, StopCtx(c, wait),
           UNCHANGED alive
    PROVE  DispatchedWaits' /\ CountersFollow
<1>1. CASE ctx_should_stop(c)
  <2>1. /\ Connected(c) /\ UNCHANGED <<cnt, runqueue_total>>
        /\ status' = [status EXCEPT ![c] = "DISCONNECTED"]
        /\ runqueue' = [runqueue EXCEPT ![Prio[c]] = RemoveFirst(@, c)]
    BY <1>1 DEF StopCtx, StopHwctx, MoveToDisconn
  <2>2. ~Waiting(c)
    BY <2>1 DEF ListInv, OneList
  <2>3. runqueue' = runqueue
    BY <2>1, <2>2, UnlinkCount
  <2>4. \A d \in Ctx : status'[d] = IF d = c THEN "DISCONNECTED" ELSE status[d]
    BY <2>1 DEF TypeOK, ListTypes
  <2> QED BY <2>1, <2>2, <2>3, <2>4, FrameCount DEF Listed
<1>2. CASE ~ctx_should_stop(c)
  BY <1>2, FrameCount DEF StopCtx, listVars, Listed
<1> QED BY <1>1, <1>2

(* aie2_rq_del(): the context leaves its queue, and no counter follows.    *)
LEMMA DeleteCount ==
    ASSUME TypeOK, ListInv, DispatchedWaits, NEW c \in Ctx, RqDel(c)
    PROVE  DispatchedWaits' /\ CountersFollow
<1>1. /\ runqueue' = [runqueue EXCEPT ![Prio[c]] = RemoveFirst(@, c)]
      /\ UNCHANGED <<cnt, runqueue_total>>
      /\ alive' = [alive EXCEPT ![c] = "deleted"]
  BY DEF RqDel
<1>2. \A d \in Ctx : Listed(d)' <=> Listed(d) /\ d # c
  BY <1>1 DEF Listed, TypeOK, CtxTypes
<1>3. \/ Connected(c) /\ status' = [status EXCEPT ![c] = "DISCONNECTED"]
      \/ UNCHANGED status
  BY DEF RqDel, StopHwctx
<1>4. \A d \in Ctx : \/ status'[d] = status[d]
                     \/ d = c /\ Connected(c) /\ status'[d] = "DISCONNECTED"
  BY <1>3 DEF TypeOK, ListTypes
<1>5. CASE ~Waiting(c)
  <2>1. runqueue' = runqueue
    BY <1>1, <1>5, UnlinkCount
  <2> QED BY <1>1, <1>2, <1>4, <1>5, <2>1, FrameCount
<1>6. CASE Waiting(c)
  <2>1. /\ \A p \in Priority : Len(runqueue'[p]) =
                     IF p = Prio[c] THEN Len(runqueue[p]) - 1 ELSE Len(runqueue[p])
        /\ Cardinality({d \in Ctx : Waiting(d)'}) = Cardinality({d \in Ctx : Waiting(d)}) - 1
    BY <1>1, <1>6, UnlinkCount
  <2>2. \A d \in Ctx : Waiting(d)' <=> Waiting(d) /\ d # c
    BY <1>1, UnlinkQueue
  <2>3. \A d \in Ctx : status'[d] = status[d]
    BY <1>4, <1>6 DEF ListInv, OneList
  <2>4. DispatchedWaits'
    BY <1>2, <2>2, <2>3 DEF DispatchedWaits
  <2>5. /\ Prio[c] \in Priority
        /\ \A p \in Priority : cnt[p] \in Int /\ Len(runqueue[p]) \in Nat
    BY ConstantsAssumption, LenProperties DEF TypeOK, ListTypes
  <2>6. \A p \in Priority : cnt[p] - Len(runqueue'[p]) =
            IF p = Prio[c] THEN cnt[p] - Len(runqueue[p]) + 1 ELSE cnt[p] - Len(runqueue[p])
    <3> SUFFICES ASSUME NEW p \in Priority
                 PROVE  cnt[p] - Len(runqueue'[p]) =
                    IF p = Prio[c] THEN cnt[p] - Len(runqueue[p]) + 1
                                   ELSE cnt[p] - Len(runqueue[p])
      OBVIOUS
    <3>1. CASE p = Prio[c]
      <4>1. Len(runqueue'[p]) = Len(runqueue[p]) - 1
        BY <2>1, <3>1
      <4>2. cnt[p] \in Int /\ Len(runqueue[p]) \in Int
        BY <2>5
      <4>3. cnt[p] - (Len(runqueue[p]) - 1) = cnt[p] - Len(runqueue[p]) + 1
        BY <4>2
      <4> QED BY <3>1, <4>1, <4>3
    <3>2. CASE p # Prio[c]
      BY <2>1, <3>2
    <3> QED BY <3>1, <3>2
  <2>7. Excess' = [Excess EXCEPT ![Prio[c]] = @ + 1]
    BY <1>1, <2>5, <2>6 DEF Excess
  <2>8. ExcessTotal' = ExcessTotal + 1
    <3> DEFINE W == Cardinality({d \in Ctx : Waiting(d)})
               V == Cardinality({d \in Ctx : Waiting(d)'})
    <3>1. W \in Nat /\ runqueue_total \in Int
      BY ConstantsAssumption, FS_Subset, FS_CardinalityType DEF TypeOK, ListTypes
    <3>2. V = W - 1
      BY <2>1
    <3>3. ExcessTotal = runqueue_total - W /\ ExcessTotal' = runqueue_total' - V
      BY DEF ExcessTotal
    <3> HIDE DEF V, W
    <3> QED BY <1>1, <3>1, <3>2, <3>3
  <2>9. ~Listed(c)'
    BY <1>2
  <2> QED BY <1>6, <2>4, <2>7, <2>8, <2>9 DEF CountersFollow
<1> QED BY <1>5, <1>6

(* Every step of every actor keeps the status and the queues in agreement  *)
(* and counts as it links, but for aie2_rq_del().                          *)
LEMMA CountStep ==
    ASSUME RqInv, [Next]_vars
    PROVE  DispatchedWaits' /\ CountersFollow
<1>i. TypeOK /\ ListInv /\ DispatchedWaits
  BY DEF RqInv, CountersSound
<1>f. ASSUME UNCHANGED <<listVars, status, alive>> PROVE DispatchedWaits' /\ CountersFollow
  BY <1>f, <1>i, FrameCount DEF Listed, listVars
<1>1. ASSUME NEW c \in Ctx, CtxCreate(c) PROVE DispatchedWaits' /\ CountersFollow
  <2>1. ~Waiting(c)
    BY <1>1, <1>i DEF CtxCreate, Listed, ListInv, OneList
  <2>2. \A d \in Ctx : \/ status'[d] = status[d] /\ (Listed(d)' => Listed(d))
                       \/ d = c /\ status'[d] = "DISCONNECTED"
    BY <1>1, <1>i DEF CtxCreate, Listed, TypeOK, CtxTypes, ListTypes
  <2> QED BY <1>1, <1>i, <2>1, <2>2, FrameCount DEF CtxCreate
<1>2. ASSUME NEW c \in Ctx, CtxErase(c) \/ CtxFree(c) PROVE DispatchedWaits' /\ CountersFollow
  <2>1. \A d \in Ctx : Listed(d)' => Listed(d)
    BY <1>2, <1>i DEF CtxErase, CtxFree, Listed, TypeOK, CtxTypes
  <2> QED BY <1>2, <1>i, <2>1, FrameCount DEF CtxErase, CtxFree, listVars
<1>3. ASSUME NEW c \in Ctx, RqDel(c) PROVE DispatchedWaits' /\ CountersFollow
  BY <1>3, <1>i, DeleteCount
<1>4. ASSUME NEW c \in Ctx, JobStep(c) PROVE DispatchedWaits' /\ CountersFollow
  <2>1. CASE NotifyYield(c)
    <3>1. \A d \in Ctx : status'[d] = status[d] \/ status'[d] = "DISCONNECTING"
      BY <2>1, <1>i DEF NotifyYield, aie2_rq_yield, TypeOK, ListTypes
    <3> QED BY <2>1, <3>1, <1>i, FrameCount DEF NotifyYield, Listed, listVars, ctxVars
  <2>2. CASE JobRun(c) \/ JobRunFail(c) \/ JobComplete(c) \/ NotifyCheck(c)
    BY <2>2, <1>f DEF JobRun, JobRunFail, JobComplete, NotifyCheck, ctxVars
  <2> QED BY <1>4, <2>1, <2>2 DEF JobStep
<1>5. ASSUME NEW t \in Thread,
             \/ \E c \in Ctx : SubmitStart(t, c)
             \/ SubmitEnter(t) \/ SubmitSlow(t) \/ SubmitWake(t) \/ SubmitGranted(t)
             \/ SubmitSignal(t) \/ SubmitCancelWork(t) \/ SubmitJob(t)
      PROVE  DispatchedWaits' /\ CountersFollow
  BY <1>5, <1>f DEF SubmitStart, SubmitEnter, SubmitSlow, SubmitWake, SubmitGranted,
     SubmitSignal, SubmitCancelWork, SubmitJob, ctxVars
<1>6. ASSUME NEW t \in Thread, SubmitCleanup(t) PROVE DispatchedWaits' /\ CountersFollow
  <2> DEFINE c == tctx[t]
  <2>1. c \in Ctx /\ Listed(c) /\ UNCHANGED alive
    BY <1>6 DEF SubmitCleanup, RqInv, ThreadsListed, ctxVars
  <2>2. CASE status[c] = "DISPATCHED" /\ rq_ctx_cancel(c)
    <3>1. Waiting(c)
      BY <2>1, <2>2, <1>i DEF DispatchedWaits
    <3> QED BY <2>1, <2>2, <3>1, <1>i, LeaveCount DEF rq_ctx_cancel, MoveToDisconn
  <2>3. CASE StopCtx(c, TRUE)
    BY <2>1, <2>3, <1>i, StopCount
  <2>4. CASE UNCHANGED <<status, jobVars, listVars>>
    BY <2>1, <2>4, <1>f
  <2> QED BY <1>6, <2>2, <2>3, <2>4 DEF SubmitCleanup
<1>7. ASSUME NEW t \in Thread, SubmitFail(t) PROVE DispatchedWaits' /\ CountersFollow
  <2>1. \A d \in Ctx : status'[d] = status[d] \/ status'[d] = "DISCONNECTING"
    BY <1>7, <1>i DEF SubmitFail, aie2_rq_yield, TypeOK, ListTypes
  <2> QED BY <2>1, <1>7, <1>i, FrameCount DEF SubmitFail, Listed, listVars, ctxVars
<1>8. ASSUME RqDispatchWork PROVE DispatchedWaits' /\ CountersFollow
  <2> DEFINE c == cur.ctx
  <2>1. c \in Ctx /\ UNCHANGED alive
    BY <1>8, WorkItems DEF RqDispatchWork, RqInv, WorkerHoldsItem, Kind, ctxVars
  <2>2. CASE status[c] = "DISCONNECTED"
    BY <1>8, <2>1, <2>2, <1>i, EnterCount DEF RqDispatchWork
  <2>3. CASE status[c] # "DISCONNECTED"
    BY <1>8, <2>1, <2>3, <1>f DEF RqDispatchWork
  <2> QED BY <2>2, <2>3
<1>9. ASSUME RqYieldWork PROVE DispatchedWaits' /\ CountersFollow
  <2> DEFINE c == cur.ctx
  <2>1. c \in Ctx /\ UNCHANGED alive
    BY <1>9, WorkItems DEF RqYieldWork, RqInv, WorkerHoldsItem, Kind
  <2>2. CASE StopCtx(c, TRUE)
    BY <2>1, <2>2, <1>i, StopCount
  <2>3. CASE UNCHANGED <<jobVars, listVars, status>>
    BY <2>1, <2>3, <1>f
  <2>4. CASE UNCHANGED <<jobVars, listVars>> /\ status' = [status EXCEPT ![c] = "CONNECTED"]
    <3>1. \A d \in Ctx : status'[d] = status[d] \/ status'[d] = "CONNECTED"
      BY <2>4, <1>i DEF TypeOK, ListTypes
    <3> QED BY <2>1, <2>4, <3>1, <1>i, FrameCount DEF Listed, listVars
  <2> QED BY <1>9, <2>2, <2>3, <2>4 DEF RqYieldWork
<1>10. ASSUME RqSchedConnect PROVE DispatchedWaits' /\ CountersFollow
  <2> DEFINE c == select_next_ctx(NoCtx)
  <2>1. c \in Ctx /\ Waiting(c)
    BY <1>10, <1>i, NextIsWaiting DEF RqSchedConnect
  <2>2. /\ runqueue' = [runqueue EXCEPT ![Prio[c]] = RemoveFirst(@, c)]
        /\ cnt' = [cnt EXCEPT ![Prio[c]] = @ - 1] /\ runqueue_total' = runqueue_total - 1
        /\ UNCHANGED alive
        /\ \E s \in {"CONNECTED", "DEAD"} : status' = [status EXCEPT ![c] = s]
    BY <1>10 DEF RqSchedConnect, ctxVars
  <2> HIDE DEF c
  <2>3. PICK s \in {"CONNECTED", "DEAD"} : status' = [status EXCEPT ![c] = s]
    BY <2>2
  <2>4. s # "DISPATCHED"
    BY <2>3
  <2> QED BY <2>1, <2>2, <2>3, <2>4, <1>i, LeaveCount
<1>11. ASSUME WorkStart \/ RqSchedLock \/ RqSchedConnectDone \/ RqSchedMark
       PROVE  DispatchedWaits' /\ CountersFollow
  BY <1>11, <1>f DEF WorkStart, RqSchedLock, RqSchedConnectDone, RqSchedMark, ctxVars
<1>12. ASSUME RqSchedCheck PROVE DispatchedWaits' /\ CountersFollow
  <2>1. \A d \in Ctx : status'[d] = status[d] \/ status'[d] = "DISCONNECTING"
    BY <1>12, <1>i DEF RqSchedCheck, TypeOK, ListTypes
  <2> QED BY <2>1, <1>12, <1>i, FrameCount DEF RqSchedCheck, Listed, listVars, ctxVars
<1>13. ASSUME TdrStep \/ Suspend \/ SuspendDone \/ Resume \/ UNCHANGED vars
       PROVE  DispatchedWaits' /\ CountersFollow
  BY <1>13, <1>f DEF TdrStep, TdrLock, TdrScan, TdrScanDone, TdrStuck, TdrRecover, TdrRunAll,
     Suspend, SuspendDone, Resume, vars, ctxVars
<1>14. ASSUME RqPauseCtx PROVE DispatchedWaits' /\ CountersFollow
  <2>1. Head(todo) \in Ctx
    BY <1>14, <1>i, HeadTailProperties DEF RqPauseCtx, TypeOK, LockTypes
  <2> QED BY <2>1, <1>14, <1>i, StopCount DEF RqPauseCtx, ctxVars
<1> QED BY <1>1, <1>2, <1>3, <1>4, <1>5, <1>6, <1>7, <1>8, <1>9, <1>10, <1>11, <1>12, <1>13, <1>14
        DEF Next, CtxStep, ThreadStep, WorkStep, PmStep

(* Who is on the lists changes with ctx_cnt only, and without "destroy"    *)
(* nobody leaves them.                                                     *)
LEMMA LivesStep ==
    ASSUME RqInv, [Next]_vars
    PROVE  /\ ctx_cnt' = Cardinality({c \in Ctx : Listed(c)'})
           /\ "destroy" \notin Env => \A c \in Ctx : alive'[c] \in {"none", "live"}
<1> DEFINE L == {c \in Ctx : Listed(c)}
           M == {c \in Ctx : Listed(c)'}
<1>0. /\ IsFiniteSet(L) /\ ctx_cnt = Cardinality(L)
      /\ ("destroy" \notin Env => \A c \in Ctx : alive[c] \in {"none", "live"})
  BY ConstantsAssumption, FS_Subset DEF RqInv, CountersSound, CountersCoverLists
<1>t. alive \in [Ctx -> {"none", "live", "dying", "deleted"}]
  BY DEF RqInv, TypeOK, CtxTypes
<1>1. CASE UNCHANGED <<alive, ctx_cnt>>
  <2>1. M = L
    BY <1>1 DEF Listed
  <2> QED BY <1>0, <1>1, <2>1
<1>2. ASSUME NEW c \in Ctx, CtxCreate(c)
      PROVE  /\ ctx_cnt' = Cardinality(M)
             /\ "destroy" \notin Env => \A d \in Ctx : alive'[d] \in {"none", "live"}
  <2>1. /\ alive[c] = "none" /\ alive' = [alive EXCEPT ![c] = "live"]
        /\ ctx_cnt' = ctx_cnt + 1
    BY <1>2 DEF CtxCreate
  <2>2. M = L \cup {c} /\ c \notin L
    BY <1>t, <2>1 DEF Listed
  <2> HIDE DEF L, M
  <2>3. Cardinality(M) = Cardinality(L) + 1
    BY <1>0, <2>2, FS_AddElement
  <2>4. "destroy" \notin Env => \A d \in Ctx : alive'[d] \in {"none", "live"}
    BY <1>0, <1>t, <2>1
  <2> QED BY <1>0, <2>1, <2>3, <2>4
<1>3. ASSUME NEW c \in Ctx, RqDel(c)
      PROVE  /\ ctx_cnt' = Cardinality(M)
             /\ "destroy" \notin Env => \A d \in Ctx : alive'[d] \in {"none", "live"}
  <2>1. /\ alive[c] = "dying" /\ alive' = [alive EXCEPT ![c] = "deleted"]
        /\ ctx_cnt' = ctx_cnt - 1
    BY <1>3 DEF RqDel
  <2>2. M = L \ {c} /\ c \in L
    BY <1>t, <2>1 DEF Listed
  <2> HIDE DEF L, M
  <2>3. Cardinality(M) = Cardinality(L) - 1
    BY <1>0, <2>2, FS_RemoveElement
  <2>4. "destroy" \in Env
    BY <1>0, <2>1
  <2> QED BY <1>0, <2>1, <2>3, <2>4
<1>4. ASSUME NEW c \in Ctx, CtxErase(c) \/ CtxFree(c)
      PROVE  /\ ctx_cnt' = Cardinality(M)
             /\ "destroy" \notin Env => \A d \in Ctx : alive'[d] \in {"none", "live"}
  <2>1. M = L /\ ctx_cnt' = ctx_cnt
    BY <1>4, <1>t DEF CtxErase, CtxFree, Listed
  <2>2. "destroy" \in Env
    BY <1>4, <1>0 DEF CtxErase, CtxFree
  <2> QED BY <1>0, <2>1, <2>2
<1>5. ASSUME NEW t \in Thread, (\E c \in Ctx : SubmitStart(t, c)) \/ ThreadStep(t) \/ SubmitSignal(t)
      PROVE  UNCHANGED <<alive, ctx_cnt>>
  BY <1>5 DEF ThreadStep, SubmitStart, SubmitEnter, SubmitSlow, SubmitWake, SubmitGranted,
     SubmitSignal, SubmitCancelWork, SubmitCleanup, SubmitJob, SubmitFail, ctxVars
<1>6. ASSUME NEW c \in Ctx, JobStep(c) PROVE UNCHANGED <<alive, ctx_cnt>>
  BY <1>6 DEF JobStep, JobRun, JobRunFail, JobComplete, NotifyCheck, NotifyYield, ctxVars
<1>7. ASSUME WorkStep PROVE UNCHANGED <<alive, ctx_cnt>>
  BY <1>7 DEF WorkStep, WorkStart, RqDispatchWork, RqYieldWork, RqSchedLock, RqSchedConnect,
     RqSchedConnectDone, RqSchedMark, RqSchedCheck, ctxVars
<1>8. ASSUME TdrStep \/ PmStep \/ UNCHANGED vars PROVE UNCHANGED <<alive, ctx_cnt>>
  BY <1>8 DEF TdrStep, TdrLock, TdrScan, TdrScanDone, TdrStuck, TdrRecover, TdrRunAll, PmStep,
     RqPauseCtx, Suspend, SuspendDone, Resume, ctxVars, vars
<1> QED BY <1>1, <1>2, <1>3, <1>4, <1>5, <1>6, <1>7, <1>8 DEF Next, CtxStep

(* What the counters exceed the lists by never shrinks, and grows only     *)
(* when somebody is taken off the lists.                                   *)
LEMMA CountersStep ==
    ASSUME RqInv, TypeOK', [Next]_vars
    PROVE  CountersSound'
<1> DEFINE W == Cardinality({c \in Ctx : Waiting(c)})
           V == Cardinality({c \in Ctx : Waiting(c)'})
<1>1. DispatchedWaits' /\ CountersFollow
  BY CountStep
<1>2. /\ ctx_cnt' = Cardinality({c \in Ctx : Listed(c)'})
      /\ "destroy" \notin Env => \A c \in Ctx : alive'[c] \in {"none", "live"}
  BY LivesStep
<1>3. /\ \A p \in Priority : /\ cnt[p] \in Int /\ Len(runqueue[p]) \in Int
                             /\ cnt'[p] \in Int /\ Len(runqueue'[p]) \in Int
                             /\ Excess[p] = cnt[p] - Len(runqueue[p])
                             /\ Excess'[p] = cnt'[p] - Len(runqueue'[p])
      /\ runqueue_total \in Int /\ runqueue_total' \in Int /\ W \in Int /\ V \in Int
      /\ ExcessTotal = runqueue_total - W /\ ExcessTotal' = runqueue_total' - V
  <2>1. \A p \in Priority : /\ cnt[p] \in Int /\ Len(runqueue[p]) \in Int
                            /\ cnt'[p] \in Int /\ Len(runqueue'[p]) \in Int
    BY LenProperties DEF RqInv, TypeOK, ListTypes
  <2>2. W \in Int /\ V \in Int
    BY ConstantsAssumption, FS_Subset, FS_CardinalityType
  <2>3. runqueue_total \in Int /\ runqueue_total' \in Int
    BY DEF RqInv, TypeOK, ListTypes
  <2> QED BY <2>1, <2>2, <2>3 DEF Excess, ExcessTotal
<1>4. /\ \A p \in Priority : cnt[p] >= Len(runqueue[p])
      /\ runqueue_total >= W
      /\ "destroy" \notin Env =>
            /\ \A p \in Priority : cnt[p] = Len(runqueue[p])
            /\ runqueue_total = W
  BY DEF RqInv, CountersSound, CountersCoverLists, CountersMatchLists
<1>5. /\ \A p \in Priority : Excess[p] >= 0
      /\ ExcessTotal >= 0
      /\ "destroy" \notin Env => ExcessTotal = 0 /\ \A p \in Priority : Excess[p] = 0
  <2>1. ASSUME NEW p \in Priority PROVE Excess[p] >= 0 /\ ("destroy" \notin Env => Excess[p] = 0)
    BY <1>3, <1>4
  <2>2. ExcessTotal >= 0 /\ ("destroy" \notin Env => ExcessTotal = 0)
    BY <1>3, <1>4
  <2> QED BY <2>1, <2>2
<1>6. /\ \A p \in Priority : Excess'[p] >= 0
      /\ ExcessTotal' >= 0
      /\ "destroy" \notin Env => ExcessTotal' = 0 /\ \A p \in Priority : Excess'[p] = 0
  <2>1. CASE UNCHANGED <<Excess, ExcessTotal>>
    BY <1>5, <2>1
  <2>2. CASE ~UNCHANGED <<Excess, ExcessTotal>>
    <3>0. ~UNCHANGED <<cnt, runqueue, runqueue_total>>
      BY <2>2 DEF Excess, ExcessTotal, Waiting
    <3>1. PICK c \in Ctx : /\ Waiting(c) /\ ~Listed(c)'
                           /\ Excess' = [Excess EXCEPT ![Prio[c]] = @ + 1]
                           /\ ExcessTotal' = ExcessTotal + 1
      BY <1>1, <2>2, <3>0 DEF CountersFollow
    <3>2. "destroy" \in Env
      <4>1. Listed(c)
        BY <3>1 DEF RqInv, ListInv, OneList
      <4>2. alive[c] = "dying"
        BY <3>1, <4>1, ListedStep
      <4> QED BY <4>2 DEF RqInv, CountersSound
    <3>3. \A p \in Priority : Excess'[p] = Excess[p] \/ Excess'[p] = Excess[p] + 1
      BY <3>1 DEF Excess
    <3>4. \A p \in Priority : Excess[p] \in Int
      BY <1>3
    <3>5. ASSUME NEW p \in Priority PROVE Excess'[p] >= 0
      BY <1>5, <3>3, <3>4
    <3> QED BY <1>3, <1>5, <3>1, <3>2, <3>5
  <2> QED BY <2>1, <2>2
<1>7. /\ \A p \in Priority : cnt'[p] >= Len(runqueue'[p])
      /\ runqueue_total' >= V
      /\ "destroy" \notin Env =>
            /\ \A p \in Priority : cnt'[p] = Len(runqueue'[p])
            /\ runqueue_total' = V
  <2>1. ASSUME NEW p \in Priority
        PROVE  /\ cnt'[p] >= Len(runqueue'[p])
               /\ "destroy" \notin Env => cnt'[p] = Len(runqueue'[p])
    <3>1. /\ cnt'[p] \in Int /\ Len(runqueue'[p]) \in Int
          /\ cnt'[p] - Len(runqueue'[p]) >= 0
          /\ "destroy" \notin Env => cnt'[p] - Len(runqueue'[p]) = 0
      BY <1>3, <1>6
    <3> QED BY <3>1
  <2>2. runqueue_total' >= V /\ ("destroy" \notin Env => runqueue_total' = V)
    BY <1>3, <1>6
  <2> QED BY <2>1, <2>2
<1> QED BY <1>1, <1>2, <1>7 DEF CountersSound, CountersCoverLists, CountersMatchLists

(* With exact counters select_next_ctx() returns what waits.               *)
LEMMA SelectStep ==
    ASSUME TypeOK, ListInv, CountersMatchLists
    PROVE  SelectsWaiting
<1> DEFINE busy == {q \in 1..NumPriority : cnt[q] # 0}
           k == CHOOSE q \in busy : \A r \in busy : q <= r
           W == {c \in Ctx : Waiting(c)}
<1>1. select_next_ctx(NoCtx) =
        IF runqueue_total = 0 THEN NoCtx
        ELSE IF busy = {} THEN NoCtx
        ELSE IF runqueue[k] = <<>> THEN NoWork ELSE Head(runqueue[k])
  BY DEF select_next_ctx, FirstFrom
<1>2. /\ Priority = 1..NumPriority /\ IsFiniteSet(W) /\ Prio \in [Ctx -> Priority]
      /\ \A p \in Priority : runqueue[p] \in Seq(Ctx) /\ cnt[p] = Len(runqueue[p])
      /\ runqueue_total = Cardinality(W)
  BY ConstantsAssumption, FS_Subset DEF Priority, TypeOK, ListTypes, CountersMatchLists
<1>3. CASE \E c \in Ctx : Waiting(c)
  <2>1. PICK c \in Ctx : Waiting(c)
    BY <1>3
  <2>2. runqueue_total # 0
    <3>1. c \in W
      BY <2>1
    <3> HIDE DEF W
    <3> QED BY <3>1, <1>2, FS_EmptySet
  <2>3. Prio[c] \in busy
    <3>1. Len(runqueue[Prio[c]]) # 0
      BY <2>1, <1>2 DEF Waiting, Contains
    <3> QED BY <3>1, <1>2
  <2>4. k \in busy
    <3>1. busy \in SUBSET Nat /\ busy # {}
      BY <2>3, ConstantsAssumption
    <3>2. \E q \in busy : \A r \in busy : q <= r
      BY <3>1, NatHasMin
    <3> QED BY <3>2
  <2>5. runqueue[k] \in Seq(Ctx) /\ runqueue[k] # <<>>
    BY <2>4, <1>2, EmptySeq
  <2>6. Head(runqueue[k]) \in Ctx
    BY <2>5, HeadTailProperties
  <2>7. select_next_ctx(NoCtx) \in Ctx
    <3> HIDE DEF k, busy
    <3> QED BY <1>1, <2>2, <2>3, <2>5, <2>6
  <2> QED BY <1>3, <2>7 DEF SelectsWaiting
<1>4. CASE ~\E c \in Ctx : Waiting(c)
  <2>1. W = {}
    BY <1>4
  <2>2. runqueue_total = 0
    <3> HIDE DEF W
    <3> QED BY <2>1, <1>2, FS_EmptySet
  <2> QED BY <1>1, <1>4, <2>2 DEF SelectsWaiting
<1> QED BY <1>3, <1>4

-----------------------------------------------------------------------------
(* The theorems                                                            *)

(* aie2_rq_init() establishes the invariant.                               *)
LEMMA InitInv == Init => RqInv
<1> SUFFICES ASSUME Init PROVE RqInv
  OBVIOUS
<1> USE DEF Init
<1>1. CtxTypes /\ JobTypes
  BY DEF CtxTypes, JobTypes
<1>2. ListTypes
  BY EmptySeq DEF ListTypes, Status
<1>3. WorkTypes /\ LockTypes /\ ThreadTypes
  BY EmptySeq DEF WorkTypes, LockTypes, ThreadTypes, ThreadPc
<1>4. \A x : ~Contains(<<>>, x)
  BY DEF Contains
<1>5. IsInjective(<<>>)
  BY DEF IsInjective
<1>6. \A c \in Ctx : ~Connected(c) /\ ~Waiting(c) /\ ~Listed(c)
  BY <1>4, ConstantsAssumption DEF Connected, Waiting, Listed
<1>7. OneList
  BY <1>4, <1>5, <1>6 DEF OneList
<1>8. ConnStatus /\ ConnListOrdered /\ HwctxCntExact
  BY <1>6, ConstantsAssumption DEF ConnStatus, ConnListOrdered, HwctxCntExact
<1>9. ThreadsListed /\ WorkerHoldsItem
  BY DEF ThreadsListed, WorkerHoldsItem
<1>10. NoStaleWork /\ YieldersListed
  BY <1>4 DEF NoStaleWork, YieldersListed, ToSet
<1>11. /\ {c \in Ctx : Waiting(c)} = {} /\ {c \in Ctx : Listed(c)} = {}
       /\ Cardinality({}) = 0 /\ Len(<<>>) = 0
  BY <1>6, FS_EmptySet
<1>12. CountersCoverLists /\ CountersMatchLists
  <2>1. \A p \in Priority : cnt[p] = 0 /\ runqueue[p] = <<>>
    OBVIOUS
  <2>2. \A p \in Priority : cnt[p] = Len(runqueue[p]) /\ cnt[p] >= Len(runqueue[p])
    BY <1>11, <2>1
  <2>3. /\ runqueue_total = Cardinality({c \in Ctx : Waiting(c)})
        /\ runqueue_total >= Cardinality({c \in Ctx : Waiting(c)})
        /\ ctx_cnt = Cardinality({c \in Ctx : Listed(c)})
    <3>1. runqueue_total = 0 /\ ctx_cnt = 0 /\ 0 >= 0
      OBVIOUS
    <3> HIDE DEF Init
    <3> QED BY <1>11, <3>1
  <2> HIDE DEF Init
  <2> QED BY <2>2, <2>3 DEF CountersCoverLists, CountersMatchLists
<1>13. CountersSound
  BY <1>6, <1>12 DEF CountersSound, DispatchedWaits
<1> QED BY <1>1, <1>2, <1>3, <1>5, <1>7, <1>8, <1>9, <1>10, <1>13
        DEF RqInv, TypeOK, ListInv, WorkSafe

(* The inductive invariant holds in every reachable state, for every set   *)
(* of contexts and threads, every limit and every environment.             *)
THEOREM Invariance == Spec => []RqInv
<1>1. ASSUME RqInv, [Next]_vars PROVE RqInv'
  <2>1. TypeOK' /\ ListInv' /\ ThreadsListed' /\ WorkerHoldsItem'
    BY <1>1, TypeStep, ListStep, ActorStep DEF RqInv
  <2>2. IsInjective(work_q') /\ NoStaleWork'
    BY <1>1, <2>1, QueueStep
  <2>3. YieldersListed'
    BY <1>1, <2>1, BusyStep, HolderStep DEF YieldersListed
  <2>4. CountersSound'
    BY <1>1, <2>1, CountersStep
  <2> QED BY <2>1, <2>2, <2>3, <2>4 DEF RqInv, WorkSafe
<1> QED BY <1>1, InitInv, PTL DEF Spec

(* Every variable keeps its type; in particular hwctx_cnt, a u32, never    *)
(* wraps below zero.                                                       *)
THEOREM TypeCorrect == Spec => []TypeOK
<1>1. RqInv => TypeOK
  BY DEF RqInv
<1> QED BY <1>1, Invariance, PTL

(* No context is lost from or linked twice into the lists of the run       *)
(* queue, in any environment, destroy and suspend included.                *)
THEOREM ListsDisjoint == Spec => []OneList
<1>1. RqInv => OneList
  BY DEF RqInv, ListInv
<1> QED BY <1>1, Invariance, PTL

(* hwctx_cnt is the number of connected contexts and never exceeds the     *)
(* limit: the WARN_ON in rq_connect_is_full() cannot fire.                 *)
THEOREM HwctxLimitKept == Spec => []HwctxCntExact
<1>1. RqInv => HwctxCntExact
  BY DEF RqInv, ListInv
<1> QED BY <1>1, Invariance, PTL

(* conn_list is ordered from high to low priority.                         *)
THEOREM ConnListSorted == Spec => []ConnListOrdered
<1>1. RqInv => ConnListOrdered
  BY DEF RqInv, ListInv
<1> QED BY <1>1, Invariance, PTL

(* No context is disconnected while a submitter holds its io_sem.          *)
THEOREM IoSemRespected == Spec => NoDisconnectUnderIo
<1>1. RqInv /\ [Next]_vars => [KeepsBusyCtx]_vars
  BY ListStep
<1> QED BY <1>1, Invariance, PTL DEF Spec, NoDisconnectUnderIo

(* job_pending_cnt counts exactly the threads in the slow path of a        *)
(* submission, whatever they are interrupted by: rq_sched_work() never     *)
(* takes a context for idle that a thread still waits for.                 *)
THEOREM PendingCounted == Spec => []PendingCntExact
<1>1. Init => PendingCntExact
  BY DEF Init, PendingCntExact, Listed
<1>2. RqInv /\ PendingCntExact /\ [Next]_vars => PendingCntExact'
  BY PendingStep
<1> QED BY <1>1, <1>2, Invariance, PTL DEF Spec

(* No command that a connected context accepted is ever lost: stopping,    *)
(* aborting, failing and suspending free each of them exactly once.        *)
THEOREM NothingLost == Spec => NoLostCommand
<1>1. RqInv /\ [Next]_vars => [\A c \in Ctx : Connected(c) => Lost(c)' = Lost(c)]_vars
  BY LostStep
<1> QED BY <1>1, Invariance, PTL DEF Spec, NoLostCommand

(* No yield is pending or running for a context that was freed: nobody who *)
(* can still queue one outlives the place of its context on the lists.     *)
THEOREM NoYieldAfterFree == Spec => []NoStaleWork
<1>1. RqInv => NoStaleWork
  BY DEF RqInv, WorkSafe
<1> QED BY <1>1, Invariance, PTL

(* In every environment the counters that select_next_ctx() trusts follow  *)
(* the lists, except that aie2_rq_del() of a dispatched context leaves them *)
(* one too high; they are never too low, so no context that waits is       *)
(* overlooked, and no yield outlives its context.                          *)
THEOREM BookkeepingKept == Spec => BookkeepingSound
<1>1. RqInv => CountersCoverLists /\ NoStaleWork
  BY DEF RqInv, CountersSound, WorkSafe
<1>2. RqInv /\ [Next]_vars => [CountersFollow]_vars
  BY CountStep
<1> QED BY <1>1, <1>2, Invariance, PTL DEF Spec, BookkeepingSound

(* As long as no context is destroyed every counter is the length of its   *)
(* list, and select_next_ctx() returns a context if and only if one waits. *)
THEOREM CountersExact ==
    ASSUME "destroy" \notin Env
    PROVE  Spec => [](CountersMatchLists /\ SelectsWaiting)
<1>1. RqInv => CountersMatchLists /\ SelectsWaiting
  BY SelectStep DEF RqInv, CountersSound
<1> QED BY <1>1, Invariance, PTL

=============================================================================
