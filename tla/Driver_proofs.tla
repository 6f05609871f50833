--------------------------- MODULE Driver_proofs ---------------------------
(***************************************************************************)
(* Proofs about the life of the driver, for any number of events, clients  *)
(* and faults.                                                             *)
(***************************************************************************)
EXTENDS Driver, SeqLemmas, FiniteSetTheorems, TLAPS

(* The inductive invariant of the driver.                                  *)
DrvInv == DriverInv /\ FailuresNeedFault /\ EventsRegistered /\ TraceSound

(* The steps of the driver, by what they do.                               *)
SetUpStep == Probe \/ InitResources \/ InitRq \/ InitXrs \/ ProbeSysfs \/ ProbeRegister
InitStep == InitHwStart \/ InitEvents \/ InitSend \/ InitTrace
AskStep == QueryFirmwareVersion \/ QueryAieVersion \/ QueryAieMetadata \/ InitRequery
LabelStep == LabelEvents \/ LabelFree \/ RqFini \/ FiniEvents
EndStep == LabelRes \/ LabelWq \/ LabelTdr \/ RemoveStart \/ RemoveFini \/ FiniTrace
SleepStep == (RpmSuspend \/ SysSuspend) /\ slept'
EventStep == WorkerSend \/ \E e \in Event : FwReport(e) \/ WorkerTake(e)
InfoStep == GetAieStatus \/ GetTelemetry
TraceSend == TraceStart \/ TraceStop
TraceStep == SwitchStep \/ TraceInterrupt \/ TraceWork
ClientStep == RemoveClient \/ \E c \in Client : Open(c) \/ CreateCtx(c) \/ Flush(c) \/ Close(c)
DrvStep ==
    /\ Alive /\ slept' \in BOOLEAN /\ (slept => slept')
    /\ \/ SetUpStep \/ InitStep \/ AskStep \/ LabelStep \/ EndStep \/ SleepStep \/ HwStop \/ Resume
       \/ EventStep \/ InfoStep \/ TraceSend \/ TraceStep \/ ClientStep

(* A management message: only one that times out does more than cost a     *)
(* fault, it takes the channel and the registrations with it.              *)
LEMMA MsgEffect ==
    ASSUME TypeOK, NEW r \in Results, MgmtMsg(r)
    PROVE  /\ blame \subseteq blame' /\ blame' \subseteq Faults
           /\ r \in {"ok", "fail", "nodev"} => UNCHANGED <<mgmt_chann, evVars, oops>>
           /\ r \in {"ok", "nodev"} => UNCHANGED blame
           /\ r \in {"ok", "fail", "time"} => mgmt_chann = "open"
           /\ r = "nodev" => mgmt_chann = "NULL"
           /\ r = "fail" => "refused" \in blame'
           /\ r = "time" => "timeout" \in blame' /\ ReleaseChannel
BY DEF TypeOK, Results, MgmtMsg, Answer, Fails, Works


(* What is behind the head of a list is on its tail.                       *)
LEMMA TailContains ==
    ASSUME NEW S, NEW s \in Seq(S), s # <<>>, NEW e, Contains(s, e), e # Head(s)
    PROVE  Contains(Tail(s), e)
<1>1. PICK i \in 1..Len(s) : s[i] = e
  BY DEF Contains
<1>2. i # 1 /\ i - 1 \in 1..Len(Tail(s)) /\ Tail(s)[i - 1] = s[i]
  BY <1>1
<1> QED BY <1>1, <1>2 DEF Contains

(* A query of a client changes nothing, or costs a fault, or takes the     *)
(* channel down.                                                           *)
LEMMA InfoFrame ==
    ASSUME TypeOK, UpLadder, InfoStep
    PROVE  /\ d \in {"bound", "s_stop"} /\ blame \subseteq blame' /\ blame' \subseteq Faults
           /\ UNCHANGED <<d, lock, up, hw, trVars, clVars>>
           /\ \/ UNCHANGED <<mgmt_chann, evVars, oops>>
              \/ mgmt_chann = "open" /\ "timeout" \in blame' /\ ReleaseChannel
<1>1. PICK r \in Results : MgmtMsg(r)
  BY DEF InfoStep, GetAieStatus, GetTelemetry
<1>2. Plugged /\ UNCHANGED <<d, lock, up, hw, trVars, clVars>>
  BY DEF InfoStep, GetAieStatus, GetTelemetry, GetInfo
<1>3. d \in {"bound", "s_stop"}
  BY <1>2 DEF TypeOK, UpLadder, Plugged, ProbeSteps
<1> QED BY <1>1, <1>2, <1>3, MsgEffect DEF Results

(* Faults are remembered.                                                  *)
LEMMA BlameGrows ==
    ASSUME TypeOK, UpLadder, DrvStep
    PROVE  blame \subseteq blame' /\ blame' \subseteq Faults
<1>1. blame \subseteq Faults
  BY DEF TypeOK
<1>2. CASE SetUpStep
  BY <1>1, <1>2 DEF SetUpStep, Probe, InitResources, InitRq, InitXrs, ProbeSysfs, ProbeRegister,
     SetUp, Fails, Works
<1>3. CASE InitStep
  BY <1>1, <1>3 DEF InitStep, InitHwStart, InitEvents, InitSend, InitTrace, Fails, Works
<1>4. CASE AskStep
  BY <1>1, <1>4, MsgEffect DEF AskStep, QueryFirmwareVersion, QueryAieVersion, QueryAieMetadata,
     InitRequery, Query
<1>5. CASE LabelStep
  BY <1>1, <1>5 DEF LabelStep, LabelEvents, LabelFree, RqFini, FiniEvents
<1>6. CASE EndStep
  BY <1>1, <1>6 DEF EndStep, LabelRes, LabelWq, LabelTdr, RemoveStart, RemoveFini, FiniTrace
<1>7. CASE SleepStep
  BY <1>1, <1>7 DEF SleepStep, RpmSuspend, SysSuspend
<1>8. CASE HwStop
  BY <1>1, <1>8 DEF HwStop, Answer, Results, Fails, Works
<1>9. CASE Resume
  BY <1>1, <1>9 DEF Resume, Fails, Works
<1>10. CASE EventStep
  BY <1>1, <1>10 DEF EventStep, WorkerSend, FwReport, WorkerTake, Fails, Works
<1>11. CASE InfoStep
  BY <1>1, <1>11, MsgEffect, InfoFrame DEF InfoStep
<1>12. CASE TraceSend
  BY <1>1, <1>12, MsgEffect DEF TraceSend, TraceStart, TraceStop
<1>13. CASE TraceStep
  BY <1>1, <1>13 DEF TraceStep, SwitchStep, TraceIrq, TraceLog, TraceCancel, TraceFree,
     TraceInterrupt, TraceWork, Fails, Works
<1>14. CASE ClientStep
  BY <1>1, <1>14 DEF ClientStep, RemoveClient, Open, CreateCtx, Flush, Close
<1> QED BY <1>2, <1>3, <1>4, <1>5, <1>6, <1>7, <1>8, <1>9, <1>10, <1>11, <1>12,
           <1>13, <1>14 DEF DrvStep

(* Only a step of a client, or a removal of one, is about clients.         *)
LEMMA ClientFrame ==
    ASSUME \/ SetUpStep \/ InitStep \/ AskStep \/ LabelStep \/ EndStep \/ SleepStep \/ HwStop
           \/ Resume \/ EventStep \/ InfoStep \/ TraceSend \/ TraceStep
    PROVE  UNCHANGED clVars
<1>2. CASE SetUpStep
  BY <1>2 DEF SetUpStep, Probe, InitResources, InitRq, InitXrs, ProbeSysfs, ProbeRegister, SetUp
<1>3. CASE InitStep
  BY <1>3 DEF InitStep, InitHwStart, InitEvents, InitSend, InitTrace
<1>4. CASE AskStep
  BY <1>4 DEF AskStep, QueryFirmwareVersion, QueryAieVersion, QueryAieMetadata, InitRequery,
     Query
<1>5. CASE LabelStep
  BY <1>5 DEF LabelStep, LabelEvents, LabelFree, RqFini, FiniEvents
<1>6. CASE EndStep
  BY <1>6 DEF EndStep, LabelRes, LabelWq, LabelTdr, RemoveStart, RemoveFini, FiniTrace
<1>7. CASE SleepStep
  BY <1>7 DEF SleepStep, RpmSuspend, SysSuspend
<1>8. CASE HwStop
  BY <1>8 DEF HwStop, Answer
<1>9. CASE Resume
  BY <1>9 DEF Resume
<1>10. CASE EventStep
  BY <1>10 DEF EventStep, WorkerSend, FwReport, WorkerTake
<1>11. CASE InfoStep
  BY <1>11 DEF InfoStep, GetAieStatus, GetTelemetry, GetInfo
<1>12. CASE TraceSend
  BY <1>12 DEF TraceSend, TraceStart, TraceStop
<1>13. CASE TraceStep
  BY <1>13 DEF TraceStep, SwitchStep, TraceIrq, TraceLog, TraceCancel, TraceFree,
     TraceInterrupt, TraceWork
<1> QED BY <1>2, <1>3, <1>4, <1>5, <1>6, <1>7, <1>8, <1>9, <1>10, <1>11, <1>12, <1>13

(* The trace changes by its own steps, and the firmware's end of it when   *)
(* the device stops.                                                       *)
LEMMA TraceFrame ==
    ASSUME \/ SetUpStep \/ AskStep \/ LabelStep \/ SleepStep \/ Resume \/ EventStep \/ InfoStep
           \/ ClientStep
    PROVE  UNCHANGED trVars
<1>2. CASE SetUpStep
  BY <1>2 DEF SetUpStep, Probe, InitResources, InitRq, InitXrs, ProbeSysfs, ProbeRegister, SetUp
<1>4. CASE AskStep
  BY <1>4 DEF AskStep, QueryFirmwareVersion, QueryAieVersion, QueryAieMetadata, InitRequery,
     Query
<1>5. CASE LabelStep
  BY <1>5 DEF LabelStep, LabelEvents, LabelFree, RqFini, FiniEvents
<1>7. CASE SleepStep
  BY <1>7 DEF SleepStep, RpmSuspend, SysSuspend
<1>8. CASE Resume
  BY <1>8 DEF Resume
<1>9. CASE EventStep
  BY <1>9 DEF EventStep, WorkerSend, FwReport, WorkerTake
<1>10. CASE InfoStep
  BY <1>10 DEF InfoStep, GetAieStatus, GetTelemetry, GetInfo
<1>11. CASE ClientStep
  BY <1>11 DEF ClientStep, RemoveClient, Open, CreateCtx, Flush, Close
<1> QED BY <1>2, <1>4, <1>5, <1>7, <1>8, <1>9, <1>10, <1>11

(* What a step of a client leaves alone.                                   *)
LEMMA ClientStepFrame ==
    ASSUME ClientStep
    PROVE  /\ UNCHANGED <<d, lock, up, hw, mgmt_chann, evVars, trVars, blame>>
           /\ oops' \in {oops, "freed_client"}
BY DEF ClientStep, RemoveClient, Open, CreateCtx, Flush, Close, hwVars

(* What a step of the trace leaves alone.                                  *)
LEMMA TraceStepFrame ==
    ASSUME TraceStep
    PROVE  /\ UNCHANGED <<d, up, hw, mgmt_chann, evVars, clVars, trace_req>>
           /\ oops' \in {oops, "no_trace_buf", "freed_trace", "dead_wq", "no_log_buf"}
BY DEF TraceStep, SwitchStep, TraceIrq, TraceLog, TraceCancel, TraceFree, TraceInterrupt,
   TraceWork,
   hwVars

(* What a step of the events leaves alone.                                 *)
LEMMA EventStepFrame ==
    ASSUME EventStep
    PROVE  /\ UNCHANGED <<d, lock, up, hw, mgmt_chann, trVars, clVars, async_events>>
           /\ oops' \in {oops, "freed_event", "null_event"}
BY DEF EventStep, WorkerSend, FwReport, WorkerTake, hwVars, evVars


(* A trace that a step does not touch stays as it was, if the device it    *)
(* runs on does.                                                           *)
LEMMA TraceQuiet ==
    ASSUME TraceLadder, UNCHANGED trVars, blame \subseteq blame', fw_trace => hw' = "START",
           enabled \/ trace_op # "none" => d' \in {"bound", "s_stop", "r_clients", "f_trace"}
    PROVE  TraceLadder'
BY DEF TraceLadder, trVars, Unanswered

(* The same for what may have gone wrong with it.                          *)
LEMMA TraceRestQuiet ==
    ASSUME TraceBufferOwned, TraceHandlersSafe, UNCHANGED trVars, blame \subseteq blame',
           oops' \in {oops, "freed_event", "null_chann", "null_event", "freed_client"}
    PROVE  TraceBufferOwned' /\ TraceHandlersSafe'
BY DEF TraceBufferOwned, TraceHandlersSafe, trVars, Unanswered

(* What is up at each step.                                              *)
LEMMA UpLadderStep ==
    ASSUME DrvInv, DrvStep
    PROVE  UpLadder'
<1> USE DEF ProbeSteps, Alive, hwVars, evVars, trVars, clVars
<1>1. /\ TypeOK /\ UpLadder /\ LockLadder /\ HwLadder /\ ChannLadder /\ EventLadder
      /\ Alive
  BY DEF DrvInv, DriverInv, TraceSound, DrvStep
<1>2. CASE SetUpStep
  BY <1>1, <1>2 DEF SetUpStep, Probe, InitResources, InitRq, InitXrs, ProbeSysfs, ProbeRegister,
     SetUp, step_order, step_label, Fails, Works, TypeOK, UpLadder, LockLadder, HwLadder
<1>3. CASE InitStep
  BY <1>1, <1>3 DEF InitStep, InitHwStart, InitEvents, InitSend, InitTrace, Register,
     step_label, Fails, Works, TypeOK, UpLadder, LockLadder, HwLadder
<1>4. CASE AskStep
  BY <1>1, <1>4, MsgEffect DEF AskStep, QueryFirmwareVersion, QueryAieVersion, QueryAieMetadata,
     InitRequery, Query, step_order, step_label, Results, ReleaseChannel, TypeOK, UpLadder,
     LockLadder, HwLadder
<1>5. CASE LabelStep
  BY <1>1, <1>5 DEF LabelStep, LabelEvents, LabelFree, RqFini, FiniEvents, fini_order,
     FreeEvents, EventsDrained, TypeOK, UpLadder, LockLadder, HwLadder
<1>6. CASE EndStep
  BY <1>1, <1>6 DEF EndStep, LabelRes, LabelWq, LabelTdr, RemoveStart, RemoveFini, FiniTrace,
     TypeOK, UpLadder, LockLadder, HwLadder
<1>7. CASE SleepStep
  BY <1>1, <1>7 DEF SleepStep, RpmSuspend, SysSuspend, TypeOK, UpLadder, LockLadder, HwLadder
<1>8. CASE HwStop
  BY <1>1, <1>8 DEF HwStop, fini_order, Answer, Results, ReleaseChannel, Fails, Works, TypeOK,
     UpLadder, LockLadder, HwLadder
<1>9. CASE Resume
  BY <1>1, <1>9 DEF Resume, Register, Fails, Works, TypeOK, UpLadder, LockLadder, HwLadder
<1>10. CASE EventStep
  BY <1>1, <1>10 DEF EventStep, WorkerSend, FwReport, WorkerTake, has_column, Draining,
     Register, Fails, Works, TypeOK, UpLadder, LockLadder, HwLadder
<1>11. CASE InfoStep
  BY <1>1, <1>11, MsgEffect DEF InfoStep, GetAieStatus, GetTelemetry, GetInfo, Plugged,
     ReleaseChannel, TypeOK, UpLadder, LockLadder, HwLadder
<1>12. CASE TraceSend
  BY <1>1, <1>12, MsgEffect DEF TraceSend, TraceStart, TraceStop, MayTrace, Plugged,
     ReleaseChannel, Results, TypeOK, UpLadder, LockLadder, HwLadder
<1>13. CASE TraceStep
  BY <1>1, <1>13 DEF TraceStep, SwitchStep, TraceIrq, TraceLog, TraceCancel, TraceFree,
     TraceInterrupt, TraceWork, Fails, Works, TypeOK, UpLadder, LockLadder, HwLadder
<1>14. CASE ClientStep
  BY <1>1, <1>14, ClientStepFrame DEF UpLadder
<1> QED BY <1>2, <1>3, <1>4, <1>5, <1>6, <1>7, <1>8, <1>9, <1>10, <1>11, <1>12, <1>13, <1>14
   DEF DrvStep

(* Who holds aie2_lock.                                                  *)
LEMMA LockLadderStep ==
    ASSUME DrvInv, DrvStep
    PROVE  LockLadder'
<1> USE DEF ProbeSteps, Alive, hwVars, evVars, trVars, clVars
<1>1. /\ TypeOK /\ UpLadder /\ LockLadder /\ HwLadder /\ ChannLadder /\ EventLadder
      /\ Alive
  BY DEF DrvInv, DriverInv, TraceSound, DrvStep
<1>2. CASE SetUpStep
  BY <1>1, <1>2 DEF SetUpStep, Probe, InitResources, InitRq, InitXrs, ProbeSysfs, ProbeRegister,
     SetUp, step_order, step_label, Fails, Works, TypeOK, UpLadder, LockLadder, HwLadder
<1>3. CASE InitStep
  BY <1>1, <1>3 DEF InitStep, InitHwStart, InitEvents, InitSend, InitTrace, Register,
     step_label, Fails, Works, TypeOK, UpLadder, LockLadder, HwLadder
<1>4. CASE AskStep
  BY <1>1, <1>4, MsgEffect DEF AskStep, QueryFirmwareVersion, QueryAieVersion, QueryAieMetadata,
     InitRequery, Query, step_order, step_label, Results, ReleaseChannel, TypeOK, UpLadder,
     LockLadder, HwLadder
<1>5. CASE LabelStep
  BY <1>1, <1>5 DEF LabelStep, LabelEvents, LabelFree, RqFini, FiniEvents, fini_order,
     FreeEvents, EventsDrained, TypeOK, UpLadder, LockLadder, HwLadder
<1>6. CASE EndStep
  BY <1>1, <1>6 DEF EndStep, LabelRes, LabelWq, LabelTdr, RemoveStart, RemoveFini, FiniTrace,
     TypeOK, UpLadder, LockLadder, HwLadder
<1>7. CASE SleepStep
  BY <1>1, <1>7 DEF SleepStep, RpmSuspend, SysSuspend, TypeOK, UpLadder, LockLadder, HwLadder
<1>8. CASE HwStop
  BY <1>1, <1>8 DEF HwStop, fini_order, Answer, Results, ReleaseChannel, Fails, Works, TypeOK,
     UpLadder, LockLadder, HwLadder
<1>9. CASE Resume
  BY <1>1, <1>9 DEF Resume, Register, Fails, Works, TypeOK, UpLadder, LockLadder, HwLadder
<1>10. CASE EventStep
  BY <1>1, <1>10 DEF EventStep, WorkerSend, FwReport, WorkerTake, has_column, Draining,
     Register, Fails, Works, TypeOK, UpLadder, LockLadder, HwLadder
<1>11. CASE InfoStep
  BY <1>1, <1>11, MsgEffect DEF InfoStep, GetAieStatus, GetTelemetry, GetInfo, Plugged,
     ReleaseChannel, TypeOK, UpLadder, LockLadder, HwLadder
<1>12. CASE TraceSend
  BY <1>1, <1>12, MsgEffect DEF TraceSend, TraceStart, TraceStop, MayTrace, Plugged,
     ReleaseChannel, Results, TypeOK, UpLadder, LockLadder, HwLadder
<1>13. CASE TraceStep
  BY <1>1, <1>13 DEF TraceStep, SwitchStep, TraceIrq, TraceLog, TraceCancel, TraceFree,
     TraceInterrupt, TraceWork, Fails, Works, TypeOK, UpLadder, LockLadder, HwLadder
<1>14. CASE ClientStep
  BY <1>1, <1>14 DEF ClientStep, RemoveClient, Open, CreateCtx, Flush, Close, Plugged, TypeOK,
     UpLadder, LockLadder, HwLadder
<1> QED BY <1>2, <1>3, <1>4, <1>5, <1>6, <1>7, <1>8, <1>9, <1>10, <1>11, <1>12, <1>13, <1>14
   DEF DrvStep

(* When the device runs.                                                 *)
LEMMA HwLadderStep ==
    ASSUME DrvInv, DrvStep
    PROVE  HwLadder'
<1> USE DEF ProbeSteps, Alive, hwVars, evVars, trVars, clVars
<1>1. /\ TypeOK /\ UpLadder /\ LockLadder /\ HwLadder /\ ChannLadder /\ EventLadder
      /\ Alive /\ slept' \in BOOLEAN /\ (slept => slept')
  BY DEF DrvInv, DriverInv, TraceSound, DrvStep
<1>2. CASE SetUpStep
  BY <1>1, <1>2 DEF SetUpStep, Probe, InitResources, InitRq, InitXrs, ProbeSysfs, ProbeRegister,
     SetUp, step_order, step_label, Fails, Works, TypeOK, UpLadder, LockLadder, HwLadder
<1>3. CASE InitStep
  BY <1>1, <1>3 DEF InitStep, InitHwStart, InitEvents, InitSend, InitTrace, Register,
     step_label, Fails, Works, TypeOK, UpLadder, LockLadder, HwLadder
<1>4. CASE AskStep
  BY <1>1, <1>4, MsgEffect DEF AskStep, QueryFirmwareVersion, QueryAieVersion, QueryAieMetadata,
     InitRequery, Query, step_order, step_label, Results, ReleaseChannel, TypeOK, UpLadder,
     LockLadder, HwLadder
<1>5. CASE LabelStep
  BY <1>1, <1>5 DEF LabelStep, LabelEvents, LabelFree, RqFini, FiniEvents, fini_order,
     FreeEvents, EventsDrained, TypeOK, UpLadder, LockLadder, HwLadder
<1>6. CASE EndStep
  BY <1>1, <1>6 DEF EndStep, LabelRes, LabelWq, LabelTdr, RemoveStart, RemoveFini, FiniTrace,
     TypeOK, UpLadder, LockLadder, HwLadder
<1>7. CASE SleepStep
  BY <1>1, <1>7 DEF SleepStep, RpmSuspend, SysSuspend, TypeOK, UpLadder, LockLadder, HwLadder
<1>8. CASE HwStop
  BY <1>1, <1>8 DEF HwStop, fini_order, Answer, Results, ReleaseChannel, Fails, Works, TypeOK,
     UpLadder, LockLadder, HwLadder
<1>9. CASE Resume
  BY <1>1, <1>9 DEF Resume, Register, Fails, Works, TypeOK, UpLadder, LockLadder, HwLadder
<1>10. CASE EventStep
  BY <1>1, <1>10 DEF EventStep, WorkerSend, FwReport, WorkerTake, has_column, Draining,
     Register, Fails, Works, TypeOK, UpLadder, LockLadder, HwLadder
<1>11. CASE InfoStep
  BY <1>1, <1>11, MsgEffect DEF InfoStep, GetAieStatus, GetTelemetry, GetInfo, Plugged,
     ReleaseChannel, TypeOK, UpLadder, LockLadder, HwLadder
<1>12. CASE TraceSend
  BY <1>1, <1>12, MsgEffect DEF TraceSend, TraceStart, TraceStop, MayTrace, Plugged,
     ReleaseChannel, Results, TypeOK, UpLadder, LockLadder, HwLadder
<1>13. CASE TraceStep
  BY <1>1, <1>13 DEF TraceStep, SwitchStep, TraceIrq, TraceLog, TraceCancel, TraceFree,
     TraceInterrupt, TraceWork, Fails, Works, TypeOK, UpLadder, LockLadder, HwLadder
<1>14. CASE ClientStep
  BY <1>1, <1>14 DEF ClientStep, RemoveClient, Open, CreateCtx, Flush, Close, Plugged, TypeOK,
     UpLadder, LockLadder, HwLadder
<1> QED BY <1>2, <1>3, <1>4, <1>5, <1>6, <1>7, <1>8, <1>9, <1>10, <1>11, <1>12, <1>13, <1>14
   DEF DrvStep

(* When the management channel is open.                                  *)
LEMMA ChannLadderStep ==
    ASSUME DrvInv, DrvStep
    PROVE  ChannLadder'
<1> USE DEF ProbeSteps, Alive, hwVars, evVars, trVars, clVars
<1>1. /\ TypeOK /\ UpLadder /\ LockLadder /\ HwLadder /\ ChannLadder /\ EventLadder
      /\ Alive
  BY DEF DrvInv, DriverInv, TraceSound, DrvStep
<1>2. CASE SetUpStep
  BY <1>1, <1>2 DEF SetUpStep, Probe, InitResources, InitRq, InitXrs, ProbeSysfs, ProbeRegister,
     SetUp, step_order, step_label, Fails, Works, TypeOK, UpLadder, HwLadder, ChannLadder,
     EventLadder
<1>3. CASE InitStep
  BY <1>1, <1>3 DEF InitStep, InitHwStart, InitEvents, InitSend, InitTrace, Register,
     step_label, Fails, Works, TypeOK, UpLadder, HwLadder, ChannLadder, EventLadder
<1>4. CASE AskStep
  BY <1>1, <1>4, MsgEffect DEF AskStep, QueryFirmwareVersion, QueryAieVersion, QueryAieMetadata,
     InitRequery, Query, step_order, step_label, Results, ReleaseChannel, TypeOK, UpLadder,
     HwLadder, ChannLadder, EventLadder
<1>5. CASE LabelStep
  BY <1>1, <1>5 DEF LabelStep, LabelEvents, LabelFree, RqFini, FiniEvents, fini_order,
     FreeEvents, EventsDrained, TypeOK, UpLadder, HwLadder, ChannLadder, EventLadder
<1>6. CASE EndStep
  BY <1>1, <1>6 DEF EndStep, LabelRes, LabelWq, LabelTdr, RemoveStart, RemoveFini, FiniTrace,
     TypeOK, UpLadder, HwLadder, ChannLadder, EventLadder
<1>7. CASE SleepStep
  BY <1>1, <1>7 DEF SleepStep, RpmSuspend, SysSuspend, TypeOK, UpLadder, HwLadder, ChannLadder,
     EventLadder
<1>8. CASE HwStop
  BY <1>1, <1>8 DEF HwStop, fini_order, Answer, Results, ReleaseChannel, Fails, Works, TypeOK,
     UpLadder, HwLadder, ChannLadder, EventLadder
<1>9. CASE Resume
  BY <1>1, <1>9 DEF Resume, Register, Fails, Works, TypeOK, UpLadder, HwLadder, ChannLadder,
     EventLadder
<1>10. CASE EventStep
  BY <1>1, <1>10 DEF EventStep, WorkerSend, FwReport, WorkerTake, has_column, Draining,
     Register, Fails, Works, TypeOK, UpLadder, HwLadder, ChannLadder, EventLadder
<1>11. CASE InfoStep
  <2>1. CASE UNCHANGED <<mgmt_chann, evVars, oops>>
    BY <1>1, <1>11, <2>1, InfoFrame DEF ChannLadder
  <2>2. CASE ReleaseChannel /\ "timeout" \in blame'
    BY <1>1, <1>11, <2>2, InfoFrame DEF ReleaseChannel, ChannLadder
  <2> QED BY <1>1, <1>11, <2>1, <2>2, InfoFrame
<1>12. CASE TraceSend
  BY <1>1, <1>12, MsgEffect DEF TraceSend, TraceStart, TraceStop, MayTrace, Plugged,
     ReleaseChannel, Results, TypeOK, UpLadder, HwLadder, ChannLadder, EventLadder
<1>13. CASE TraceStep
  BY <1>1, <1>13 DEF TraceStep, SwitchStep, TraceIrq, TraceLog, TraceCancel, TraceFree,
     TraceInterrupt, TraceWork, Fails, Works, TypeOK, UpLadder, HwLadder, ChannLadder, EventLadder
<1>14. CASE ClientStep
  BY <1>1, <1>14 DEF ClientStep, RemoveClient, Open, CreateCtx, Flush, Close, Plugged, TypeOK,
     UpLadder, HwLadder, ChannLadder, EventLadder
<1> QED BY <1>2, <1>3, <1>4, <1>5, <1>6, <1>7, <1>8, <1>9, <1>10, <1>11, <1>12, <1>13, <1>14
   DEF DrvStep

(* Where the events and their registrations are.                         *)
LEMMA EventLadderStep ==
    ASSUME DrvInv, DrvStep
    PROVE  EventLadder'
<1> USE DEF ProbeSteps, Alive, hwVars, evVars, trVars, clVars
<1>1. /\ TypeOK /\ UpLadder /\ LockLadder /\ HwLadder /\ ChannLadder /\ EventLadder
      /\ Alive
  BY DEF DrvInv, DriverInv, TraceSound, DrvStep
<1>2. CASE SetUpStep
  BY <1>1, <1>2 DEF SetUpStep, Probe, InitResources, InitRq, InitXrs, ProbeSysfs, ProbeRegister,
     SetUp, step_order, step_label, Fails, Works, TypeOK, UpLadder, HwLadder, LockLadder,
     ChannLadder, EventLadder, Unanswered
<1>3. CASE InitStep
  BY <1>1, <1>3 DEF InitStep, InitHwStart, InitEvents, InitSend, InitTrace, Register,
     step_label, Fails, Works, TypeOK, UpLadder, HwLadder, LockLadder, ChannLadder, EventLadder,
     Unanswered
<1>4. CASE AskStep
  BY <1>1, <1>4, MsgEffect DEF AskStep, QueryFirmwareVersion, QueryAieVersion, QueryAieMetadata,
     InitRequery, Query, step_order, step_label, Results, ReleaseChannel, TypeOK, UpLadder,
     HwLadder, LockLadder, ChannLadder, EventLadder, Unanswered
<1>5. CASE LabelStep
  BY <1>1, <1>5 DEF LabelStep, LabelEvents, LabelFree, RqFini, FiniEvents, fini_order,
     FreeEvents, EventsDrained, TypeOK, UpLadder, HwLadder, LockLadder, ChannLadder, EventLadder,
     Unanswered
<1>6. CASE EndStep
  BY <1>1, <1>6 DEF EndStep, LabelRes, LabelWq, LabelTdr, RemoveStart, RemoveFini, FiniTrace,
     TypeOK, UpLadder, HwLadder, LockLadder, ChannLadder, EventLadder, Unanswered
<1>7. CASE SleepStep
  BY <1>1, <1>7 DEF SleepStep, RpmSuspend, SysSuspend, TypeOK, UpLadder, HwLadder, LockLadder,
     ChannLadder, EventLadder, Unanswered
<1>8. CASE HwStop
  BY <1>1, <1>8 DEF HwStop, fini_order, Answer, Results, ReleaseChannel, Fails, Works, TypeOK,
     UpLadder, HwLadder, LockLadder, ChannLadder, EventLadder, Unanswered
<1>9. CASE Resume
  BY <1>1, <1>9 DEF Resume, Register, Fails, Works, TypeOK, UpLadder, HwLadder, LockLadder,
     ChannLadder, EventLadder, Unanswered
<1>10. CASE EventStep
  <2>1. UNCHANGED <<d, mgmt_chann, async_events>> /\ blame \subseteq blame'
    BY <1>1, <1>10, EventStepFrame, BlameGrows
  <2>2. d \notin {"unbound", "res", "hw_start", "rq", "query", "query_version", "query_metadata",
                  "xrs", "events", "send"}
    BY <1>1, <1>10 DEF EventStep, WorkerSend, FwReport, WorkerTake, EventLadder
  <2>3. ASSUME NEW x \in Event
        PROVE  armed'[x] + (IF worker' = x THEN 1 ELSE 0) + (IF x \in queued' THEN 1 ELSE 0) <= 3
    <3>1. /\ armed[x] \in Nat
          /\ armed[x] + (IF worker = x THEN 1 ELSE 0) + (IF x \in queued THEN 1 ELSE 0) <= 3
      BY <1>1 DEF EventLadder, TypeOK
    <3>2. ASSUME NEW e \in Event, FwReport(e)
          PROVE  armed'[x] + (IF worker' = x THEN 1 ELSE 0) + (IF x \in queued' THEN 1 ELSE 0) <= 3
      BY <1>1, <3>1, <3>2 DEF FwReport, TypeOK
    <3>3. ASSUME NEW e \in Event, WorkerTake(e)
          PROVE  armed'[x] + (IF worker' = x THEN 1 ELSE 0) + (IF x \in queued' THEN 1 ELSE 0) <= 3
      BY <1>1, <3>1, <3>3, DriverAssumption DEF WorkerTake, TypeOK
    <3>4. CASE WorkerSend
      BY <1>1, <3>1, <3>4, DriverAssumption DEF WorkerSend, Register, TypeOK
    <3> QED BY <1>10, <3>2, <3>3, <3>4 DEF EventStep
  <2> QED BY <1>1, <2>1, <2>2, <2>3 DEF EventLadder, Unanswered
<1>11. CASE InfoStep
  <2>1. CASE UNCHANGED <<mgmt_chann, evVars, oops>>
    BY <1>1, <1>11, <2>1, InfoFrame DEF EventLadder, Unanswered
  <2>2. CASE ReleaseChannel
    BY <1>1, <1>11, <2>2, InfoFrame DEF ReleaseChannel, EventLadder, Unanswered, TypeOK
  <2> QED BY <1>1, <1>11, <2>1, <2>2, InfoFrame
<1>12. CASE TraceSend
  BY <1>1, <1>12, MsgEffect DEF TraceSend, TraceStart, TraceStop, MayTrace, Plugged,
     ReleaseChannel, Results, TypeOK, UpLadder, HwLadder, LockLadder, ChannLadder, EventLadder,
     Unanswered
<1>13. CASE TraceStep
  BY <1>1, <1>13 DEF TraceStep, SwitchStep, TraceIrq, TraceLog, TraceCancel, TraceFree,
     TraceInterrupt, TraceWork, Fails, Works, TypeOK, UpLadder, HwLadder, LockLadder, ChannLadder,
     EventLadder, Unanswered
<1>14. CASE ClientStep
  BY <1>1, <1>14 DEF ClientStep, RemoveClient, Open, CreateCtx, Flush, Close, Plugged, TypeOK,
     UpLadder, HwLadder, LockLadder, ChannLadder, EventLadder, Unanswered
<1> QED BY <1>2, <1>3, <1>4, <1>5, <1>6, <1>7, <1>8, <1>9, <1>10, <1>11, <1>12, <1>13, <1>14
   DEF DrvStep

(* Who hangs or trips over the events.                                   *)
LEMMA FailuresNeedFaultStep ==
    ASSUME DrvInv, DrvStep
    PROVE  FailuresNeedFault'
<1> USE DEF ProbeSteps, Alive, hwVars, evVars, trVars, clVars
<1>1. /\ TypeOK /\ UpLadder /\ LockLadder /\ HwLadder /\ ChannLadder /\ EventLadder
      /\ FailuresNeedFault /\ Alive
  BY DEF DrvInv, DriverInv, TraceSound, DrvStep
<1>2. CASE SetUpStep
  BY <1>1, <1>2 DEF SetUpStep, Probe, InitResources, InitRq, InitXrs, ProbeSysfs, ProbeRegister,
     SetUp, step_order, step_label, Fails, Works, TypeOK, UpLadder, HwLadder, LockLadder,
     ChannLadder, EventLadder, FailuresNeedFault, HangNeedsFault, EventsOutliveChannel, Unanswered
<1>3. CASE InitStep
  BY <1>1, <1>3 DEF InitStep, InitHwStart, InitEvents, InitSend, InitTrace, Register,
     step_label, Fails, Works, TypeOK, UpLadder, HwLadder, LockLadder, ChannLadder, EventLadder,
     FailuresNeedFault, HangNeedsFault, EventsOutliveChannel, Unanswered
<1>4. CASE AskStep
  BY <1>1, <1>4, MsgEffect DEF AskStep, QueryFirmwareVersion, QueryAieVersion, QueryAieMetadata,
     InitRequery, Query, step_order, step_label, Results, ReleaseChannel, TypeOK, UpLadder,
     HwLadder, LockLadder, ChannLadder, EventLadder, FailuresNeedFault, HangNeedsFault,
     EventsOutliveChannel, Unanswered
<1>5. CASE LabelStep
  BY <1>1, <1>5 DEF LabelStep, LabelEvents, LabelFree, RqFini, FiniEvents, fini_order,
     FreeEvents, EventsDrained, TypeOK, UpLadder, HwLadder, LockLadder, ChannLadder, EventLadder,
     FailuresNeedFault, HangNeedsFault, EventsOutliveChannel, Unanswered
<1>6. CASE EndStep
  BY <1>1, <1>6 DEF EndStep, LabelRes, LabelWq, LabelTdr, RemoveStart, RemoveFini, FiniTrace,
     TypeOK, UpLadder, HwLadder, LockLadder, ChannLadder, EventLadder, FailuresNeedFault,
     HangNeedsFault, EventsOutliveChannel, Unanswered
<1>7. CASE SleepStep
  BY <1>1, <1>7 DEF SleepStep, RpmSuspend, SysSuspend, TypeOK, UpLadder, HwLadder, LockLadder,
     ChannLadder, EventLadder, FailuresNeedFault, HangNeedsFault, EventsOutliveChannel, Unanswered
<1>8. CASE HwStop
  BY <1>1, <1>8 DEF HwStop, fini_order, Answer, Results, ReleaseChannel, Fails, Works, TypeOK,
     UpLadder, HwLadder, LockLadder, ChannLadder, EventLadder, FailuresNeedFault, HangNeedsFault,
     EventsOutliveChannel, Unanswered
<1>9. CASE Resume
  BY <1>1, <1>9 DEF Resume, Register, Fails, Works, TypeOK, UpLadder, HwLadder, LockLadder,
     ChannLadder, EventLadder, FailuresNeedFault, HangNeedsFault, EventsOutliveChannel, Unanswered
<1>10. CASE EventStep
  BY <1>1, <1>10 DEF EventStep, WorkerSend, FwReport, WorkerTake, has_column, Draining,
     Register, Fails, Works, TypeOK, UpLadder, HwLadder, LockLadder, ChannLadder, EventLadder,
     FailuresNeedFault, HangNeedsFault, EventsOutliveChannel, Unanswered
<1>11. CASE InfoStep
  <2>1. CASE UNCHANGED <<mgmt_chann, evVars, oops>>
    BY <1>1, <1>11, <2>1, InfoFrame DEF FailuresNeedFault, HangNeedsFault,
       EventsOutliveChannel, Unanswered
  <2>2. CASE ReleaseChannel
    BY <1>1, <1>11, <2>2, InfoFrame DEF ReleaseChannel, FailuresNeedFault, HangNeedsFault,
       EventsOutliveChannel, Unanswered, EventLadder
  <2> QED BY <1>1, <1>11, <2>1, <2>2, InfoFrame
<1>12. CASE TraceSend
  BY <1>1, <1>12, MsgEffect DEF TraceSend, TraceStart, TraceStop, MayTrace, Plugged,
     ReleaseChannel, Results, TypeOK, UpLadder, HwLadder, LockLadder, ChannLadder, EventLadder,
     FailuresNeedFault, HangNeedsFault, EventsOutliveChannel, Unanswered
<1>13. CASE TraceStep
  BY <1>1, <1>13 DEF TraceStep, SwitchStep, TraceIrq, TraceLog, TraceCancel, TraceFree,
     TraceInterrupt, TraceWork, Fails, Works, TypeOK, UpLadder, HwLadder, LockLadder, ChannLadder,
     EventLadder, FailuresNeedFault, HangNeedsFault, EventsOutliveChannel, Unanswered
<1>14. CASE ClientStep
  BY <1>1, <1>14 DEF ClientStep, RemoveClient, Open, CreateCtx, Flush, Close, Plugged, TypeOK,
     UpLadder, HwLadder, LockLadder, ChannLadder, EventLadder, FailuresNeedFault, HangNeedsFault,
     EventsOutliveChannel, Unanswered
<1> QED BY <1>2, <1>3, <1>4, <1>5, <1>6, <1>7, <1>8, <1>9, <1>10, <1>11, <1>12, <1>13, <1>14
   DEF DrvStep

(* Every event is registered or on its way.                              *)
LEMMA EventsRegisteredStep ==
    ASSUME DrvInv, DrvStep
    PROVE  EventsRegistered'
<1> USE DEF ProbeSteps, Alive, hwVars, evVars, trVars, clVars
<1>1. /\ TypeOK /\ UpLadder /\ LockLadder /\ HwLadder /\ ChannLadder /\ EventLadder
      /\ EventsRegistered /\ Alive /\ slept' \in BOOLEAN /\ (slept => slept')
  BY DEF DrvInv, DriverInv, TraceSound, DrvStep
<1>2. CASE SetUpStep
  BY <1>1, <1>2 DEF SetUpStep, Probe, InitResources, InitRq, InitXrs, ProbeSysfs, ProbeRegister,
     SetUp, step_order, step_label, Fails, Works, TypeOK, UpLadder, HwLadder, LockLadder,
     ChannLadder, EventLadder, EventsRegistered, Back
<1>3. CASE InitStep
  <2>1. CASE InitSend
    BY <1>1, <2>1, DriverAssumption DEF InitSend, Register, step_label, EventLadder,
       EventsRegistered,
       Back, TypeOK
  <2>2. CASE InitHwStart \/ InitEvents \/ InitTrace
    BY <1>1, <2>2 DEF InitHwStart, InitEvents, InitTrace, step_label, EventsRegistered, Back,
       Fails,
       Works
  <2> QED BY <1>3, <2>1, <2>2 DEF InitStep
<1>4. CASE AskStep
  BY <1>1, <1>4, MsgEffect DEF AskStep, QueryFirmwareVersion, QueryAieVersion, QueryAieMetadata,
     InitRequery, Query, step_order, step_label, Results, ReleaseChannel, TypeOK, UpLadder,
     HwLadder, LockLadder, ChannLadder, EventLadder, EventsRegistered, Back
<1>5. CASE LabelStep
  BY <1>1, <1>5 DEF LabelStep, LabelEvents, LabelFree, RqFini, FiniEvents, fini_order,
     FreeEvents, EventsDrained, TypeOK, UpLadder, HwLadder, LockLadder, ChannLadder, EventLadder,
     EventsRegistered, Back
<1>6. CASE EndStep
  BY <1>1, <1>6 DEF EndStep, LabelRes, LabelWq, LabelTdr, RemoveStart, RemoveFini, FiniTrace,
     TypeOK, UpLadder, HwLadder, LockLadder, ChannLadder, EventLadder, EventsRegistered, Back
<1>7. CASE SleepStep
  BY <1>1, <1>7 DEF SleepStep, RpmSuspend, SysSuspend, TypeOK, UpLadder, HwLadder, LockLadder,
     ChannLadder, EventLadder, EventsRegistered, Back
<1>8. CASE HwStop
  BY <1>1, <1>8 DEF HwStop, fini_order, Answer, Results, ReleaseChannel, Fails, Works, TypeOK,
     UpLadder, HwLadder, LockLadder, ChannLadder, EventLadder, EventsRegistered, Back
<1>9. CASE Resume
  <2>1. CASE mgmt_chann' = "NULL"
    BY <2>1 DEF EventsRegistered
  <2>2. CASE mgmt_chann' # "NULL"
    <3>1. slept /\ mgmt_chann = "NULL" /\ Register(Event) /\ UNCHANGED <<worker, queued, status>>
      BY <1>1, <1>9, <2>2 DEF Resume, HwLadder, ChannLadder, TypeOK
    <3>2. \A e \in Event : armed'[e] = 1
      BY <1>1, <3>1 DEF Register, ChannLadder
    <3>3. \A e \in Event : Back(e)' \in 0..2
      BY DEF Back
    <3> QED BY <1>1, <3>1, <3>2, <3>3 DEF EventsRegistered
  <2> QED BY <2>1, <2>2
<1>10. CASE EventStep
  <2> SUFFICES ASSUME Alive', mgmt_chann' = "open", blame' \cap {"malformed", "refused"} = {},
                      d' \in {"requery", "trace", "sysfs", "register", "bound", "s_stop"},
                      NEW x \in Event
               PROVE  armed'[x] + Back(x)' >= 1 /\ (slept' \/ armed'[x] + Back(x)' = 1)
    BY DEF EventsRegistered
  <2>1. /\ armed[x] \in Nat /\ armed[x] + Back(x) >= 1 /\ (slept \/ armed[x] + Back(x) = 1)
        /\ async_events # "freed"
    BY <1>1, <1>10, EventStepFrame, BlameGrows DEF EventsRegistered, EventLadder, TypeOK
  <2>2. ASSUME NEW e \in Event, FwReport(e)
        PROVE  armed'[x] + Back(x)' >= 1 /\ (slept' \/ armed'[x] + Back(x)' = 1)
    <3>1. /\ armed[e] > 0 /\ armed'[e] = armed[e] - 1 /\ status'[e] = "good" /\ e \in queued'
          /\ \A y \in Event \ {e} : /\ armed'[y] = armed[y] /\ status'[y] = status[y]
                                    /\ y \in queued' <=> y \in queued
          /\ worker' = worker
      <4>1. status' = [status EXCEPT ![e] = "good"] \/ "malformed" \in blame'
        BY <2>1, <2>2 DEF FwReport, Fails
      <4>2. ~Draining
        BY <2>2 DEF FwReport, Draining
      <4> QED BY <1>1, <2>1, <2>2, <4>1, <4>2 DEF FwReport, TypeOK
    <3>2. CASE x = e
      BY <1>1, <2>1, <3>1, <3>2 DEF Back
    <3>3. CASE x # e
      <4>1. /\ armed'[x] = armed[x] /\ status'[x] = status[x] /\ worker' = worker
            /\ x \in queued' <=> x \in queued
        BY <3>1, <3>3
      <4> QED BY <1>1, <2>1, <4>1 DEF Back
    <3> QED BY <3>2, <3>3
  <2>3. ASSUME NEW e \in Event, WorkerTake(e)
        PROVE  armed'[x] + Back(x)' >= 1 /\ (slept' \/ armed'[x] + Back(x)' = 1)
    BY <1>1, <2>1, <2>3, DriverAssumption DEF WorkerTake, has_column, Back, TypeOK
  <2>4. CASE WorkerSend
    <3>1. /\ worker \in Event /\ worker' = NoEvent /\ UNCHANGED <<status, queued>>
          /\ armed'[x] = IF x = worker THEN armed[x] + 1 ELSE armed[x]
      BY <1>1, <2>4 DEF WorkerSend, Register, TypeOK, Fails
    <3> QED BY <1>1, <2>1, <3>1, DriverAssumption DEF Back
  <2> QED BY <1>10, <2>2, <2>3, <2>4 DEF EventStep
<1>11. CASE InfoStep
  <2>1. CASE UNCHANGED <<mgmt_chann, evVars, oops>>
    BY <1>1, <1>11, <2>1, InfoFrame DEF EventsRegistered, Back
  <2>2. CASE ReleaseChannel
    BY <2>2 DEF ReleaseChannel, EventsRegistered
  <2> QED BY <1>1, <1>11, <2>1, <2>2, InfoFrame
<1>12. CASE TraceSend
  BY <1>1, <1>12, MsgEffect DEF TraceSend, TraceStart, TraceStop, MayTrace, Plugged,
     ReleaseChannel, Results, TypeOK, UpLadder, HwLadder, LockLadder, ChannLadder, EventLadder,
     EventsRegistered, Back
<1>13. CASE TraceStep
  BY <1>1, <1>13 DEF TraceStep, SwitchStep, TraceIrq, TraceLog, TraceCancel, TraceFree,
     TraceInterrupt, TraceWork, Fails, Works, TypeOK, UpLadder, HwLadder, LockLadder, ChannLadder,
     EventLadder, EventsRegistered, Back
<1>14. CASE ClientStep
  BY <1>1, <1>14 DEF ClientStep, RemoveClient, Open, CreateCtx, Flush, Close, Plugged, TypeOK,
     UpLadder, HwLadder, LockLadder, ChannLadder, EventLadder, EventsRegistered, Back
<1> QED BY <1>2, <1>3, <1>4, <1>5, <1>6, <1>7, <1>8, <1>9, <1>10, <1>11, <1>12, <1>13, <1>14
   DEF DrvStep

(* What the trace has.                                                   *)
LEMMA TraceLadderStep ==
    ASSUME DrvInv, DrvStep
    PROVE  TraceLadder'
<1> USE DEF ProbeSteps, Alive, hwVars, evVars, trVars, clVars
<1>1. /\ TypeOK /\ UpLadder /\ LockLadder /\ HwLadder /\ ChannLadder /\ EventLadder
      /\ TraceLadder /\ Alive
  BY DEF DrvInv, DriverInv, TraceSound, DrvStep
<1>2. CASE SetUpStep
  <2>1. UNCHANGED trVars /\ blame \subseteq blame'
    BY <1>1, <1>2, TraceFrame, BlameGrows
  <2> QED BY <1>1, <1>2, <2>1, TraceQuiet DEF SetUpStep, Probe, InitResources, InitRq,
     InitXrs, ProbeSysfs, ProbeRegister, SetUp, step_order, step_label, Fails, Works, TypeOK,
     TraceLadder, HwLadder
<1>3. CASE InitStep
  BY <1>1, <1>3 DEF InitStep, InitHwStart, InitEvents, InitSend, InitTrace, Register,
     step_label, Fails, Works, TypeOK, UpLadder, HwLadder, LockLadder, ChannLadder, TraceLadder,
     Unanswered
<1>4. CASE AskStep
  <2>1. UNCHANGED trVars /\ blame \subseteq blame'
    BY <1>1, <1>4, TraceFrame, BlameGrows
  <2> QED BY <1>1, <1>4, <2>1, TraceQuiet DEF AskStep, QueryFirmwareVersion, QueryAieVersion,
     QueryAieMetadata, InitRequery, Query, step_order, step_label, Results, ReleaseChannel,
     TypeOK, TraceLadder, HwLadder
<1>5. CASE LabelStep
  <2>1. UNCHANGED trVars /\ blame \subseteq blame'
    BY <1>1, <1>5, TraceFrame, BlameGrows
  <2> QED BY <1>1, <1>5, <2>1, TraceQuiet DEF LabelStep, LabelEvents, LabelFree, RqFini,
     FiniEvents, fini_order, FreeEvents, EventsDrained, TypeOK, TraceLadder, HwLadder
<1>6. CASE EndStep
  <2>1. CASE FiniTrace
    BY <1>1, <2>1 DEF FiniTrace, TraceLadder, Unanswered
  <2>2. CASE ~FiniTrace
    <3>1. UNCHANGED <<trVars, hw, blame>> /\ (trace_op = "none" \/ d' = "f_trace")
      BY <1>1, <1>6, <2>2 DEF EndStep, LabelRes, LabelWq, LabelTdr, RemoveStart, RemoveFini,
         TraceLadder
    <3>2. enabled => d' \in {"bound", "s_stop", "r_clients", "f_trace"}
      BY <1>1, <1>6, <2>2 DEF EndStep, LabelRes, LabelWq, LabelTdr, RemoveStart, RemoveFini,
         TraceLadder
    <3> QED BY <1>1, <3>1, <3>2, TraceQuiet DEF TraceLadder
  <2> QED BY <2>1, <2>2
<1>7. CASE SleepStep
  <2>1. UNCHANGED trVars /\ blame \subseteq blame'
    BY <1>1, <1>7, TraceFrame, BlameGrows
  <2> QED BY <1>1, <1>7, <2>1, TraceQuiet DEF SleepStep, RpmSuspend, SysSuspend, TypeOK,
     TraceLadder, HwLadder
<1>8. CASE HwStop
  BY <1>1, <1>8 DEF HwStop, fini_order, Answer, Results, ReleaseChannel, Fails, Works, TypeOK,
     UpLadder, HwLadder, LockLadder, ChannLadder, TraceLadder, Unanswered
<1>9. CASE Resume
  <2>1. UNCHANGED trVars /\ blame \subseteq blame'
    BY <1>1, <1>9, TraceFrame, BlameGrows
  <2> QED BY <1>1, <1>9, <2>1, TraceQuiet DEF Resume, Register, Fails, Works, TypeOK,
     TraceLadder, HwLadder
<1>10. CASE EventStep
  BY <1>1, <1>10, TraceFrame, BlameGrows, EventStepFrame, TraceQuiet DEF TraceLadder
<1>11. CASE InfoStep
  BY <1>1, <1>11, TraceFrame, BlameGrows, InfoFrame, TraceQuiet DEF TraceLadder
<1>12. CASE TraceSend
  <2>1. CASE TraceStart
    <3>1. PICK r \in Results : /\ MgmtMsg(r)
                              /\ IF r = "ok" THEN /\ fw_trace' = TRUE /\ trace_res' = {"buf"}
                                                 /\ trace_op' = "irq" /\ lock' = "dbg"
                                 ELSE UNCHANGED <<fw_trace, trace_res, trace_op, lock>>
      BY <2>1 DEF TraceStart
    <3>2. /\ UNCHANGED <<d, hw, trace_req, enabled, trace_work>> /\ d \in {"bound", "s_stop"}
          /\ trace_req = "live" /\ ~enabled /\ blame \subseteq blame'
      BY <1>1, <1>12, <2>1, BlameGrows DEF TraceStart, MayTrace, Plugged, TypeOK, UpLadder
    <3>3. CASE r = "ok"
      <4>1. hw = "START"
        BY <1>1, <3>1, <3>3, MsgEffect DEF ChannLadder
      <4> QED BY <3>1, <3>2, <3>3, <4>1 DEF TraceLadder
    <3>4. CASE r # "ok"
      BY <1>1, <3>1, <3>2, <3>4, TraceQuiet DEF TraceLadder
    <3> QED BY <3>3, <3>4
  <2>2. CASE TraceStop
    <3>1. PICK r \in Results :
             /\ MgmtMsg(r)
             /\ IF r = "ok" THEN fw_trace' = FALSE /\ trace_op' = "cancel"
                            ELSE UNCHANGED <<fw_trace, trace_op>>
             /\ IF d = "f_trace" /\ r # "ok"
                THEN trace_req' = "none" /\ enabled' = FALSE /\ d' = "f_rq"
                ELSE UNCHANGED <<trace_req, enabled, d>>
      BY <2>2 DEF TraceStop
    <3>2. /\ enabled /\ trace_op = "none" /\ UNCHANGED <<hw, trace_res, trace_work>>
          /\ blame \subseteq blame'
      BY <1>1, <1>12, <2>2, BlameGrows DEF TraceStop
    <3>3. CASE r = "ok"
      BY <1>1, <3>1, <3>2, <3>3 DEF TraceLadder
    <3>4. CASE r # "ok" /\ d # "f_trace"
      BY <1>1, <3>1, <3>2, <3>4, TraceQuiet DEF TraceLadder
    <3>5. CASE r # "ok" /\ d = "f_trace"
      <4>1. Unanswered' \/ ("hw_start" \in blame' /\ hw # "START")
        BY <1>1, <3>1, <3>2, <3>5, MsgEffect
           DEF Results, HwLadder, ChannLadder, Unanswered
      <4> QED BY <1>1, <3>1, <3>2, <3>5, <4>1 DEF TraceLadder
    <3> QED BY <3>3, <3>4, <3>5
  <2> QED BY <1>12, <2>1, <2>2 DEF TraceSend
<1>13. CASE TraceStep
  BY <1>1, <1>13 DEF TraceStep, SwitchStep, TraceIrq, TraceLog, TraceCancel, TraceFree,
     TraceInterrupt, TraceWork, Fails, Works, TypeOK, UpLadder, HwLadder, LockLadder, ChannLadder,
     TraceLadder, Unanswered
<1>14. CASE ClientStep
  BY <1>1, <1>14, TraceFrame, BlameGrows, ClientStepFrame, TraceQuiet DEF TraceLadder
<1> QED BY <1>2, <1>3, <1>4, <1>5, <1>6, <1>7, <1>8, <1>9, <1>10, <1>11, <1>12, <1>13, <1>14
   DEF DrvStep

(* Who trips over the trace.                                             *)
LEMMA TraceRestStep ==
    ASSUME DrvInv, DrvStep
    PROVE  TraceBufferOwned' /\ TraceHandlersSafe'
<1> USE DEF ProbeSteps, Alive, hwVars, evVars, trVars, clVars
<1>1. /\ TypeOK /\ UpLadder /\ LockLadder /\ HwLadder /\ ChannLadder /\ EventLadder
      /\ TraceLadder /\ TraceBufferOwned /\ TraceHandlersSafe /\ Alive
  BY DEF DrvInv, DriverInv, TraceSound, DrvStep
<1>2. CASE SetUpStep
  <2>1. UNCHANGED trVars /\ blame \subseteq blame'
    BY <1>1, <1>2, TraceFrame, BlameGrows
  <2>2. oops' \in {oops, "freed_event", "null_chann", "null_event", "freed_client"}
    BY <1>2 DEF SetUpStep, Probe, InitResources, InitRq, InitXrs, ProbeSysfs, ProbeRegister,
       SetUp, step_order, step_label, Fails, Works
  <2> QED BY <1>1, <2>1, <2>2, TraceRestQuiet
<1>3. CASE InitStep
  BY <1>1, <1>3, BlameGrows DEF InitStep, InitHwStart, InitEvents, InitSend, InitTrace,
     Register, step_label, Fails, Works, TypeOK, HwLadder, ChannLadder, TraceLadder,
     TraceBufferOwned, TraceHandlersSafe, Unanswered
<1>4. CASE AskStep
  <2>1. UNCHANGED trVars /\ blame \subseteq blame'
    BY <1>1, <1>4, TraceFrame, BlameGrows
  <2>2. oops' \in {oops, "freed_event", "null_chann", "null_event", "freed_client"}
    BY <1>1, <1>4, MsgEffect DEF AskStep, QueryFirmwareVersion, QueryAieVersion,
       QueryAieMetadata, InitRequery, Query, step_order, step_label, Results, ReleaseChannel
  <2> QED BY <1>1, <2>1, <2>2, TraceRestQuiet
<1>5. CASE LabelStep
  <2>1. UNCHANGED trVars /\ blame \subseteq blame'
    BY <1>1, <1>5, TraceFrame, BlameGrows
  <2>2. oops' \in {oops, "freed_event", "null_chann", "null_event", "freed_client"}
    BY <1>5 DEF LabelStep, LabelEvents, LabelFree, RqFini, FiniEvents, fini_order, FreeEvents,
       EventsDrained
  <2> QED BY <1>1, <2>1, <2>2, TraceRestQuiet
<1>6. CASE EndStep
  BY <1>1, <1>6, BlameGrows DEF EndStep, LabelRes, LabelWq, LabelTdr, RemoveStart, RemoveFini,
     FiniTrace, TypeOK, HwLadder, ChannLadder, TraceLadder, TraceBufferOwned, TraceHandlersSafe,
     Unanswered
<1>7. CASE SleepStep
  <2>1. UNCHANGED trVars /\ blame \subseteq blame'
    BY <1>1, <1>7, TraceFrame, BlameGrows
  <2>2. oops' \in {oops, "freed_event", "null_chann", "null_event", "freed_client"}
    BY <1>7 DEF SleepStep, RpmSuspend, SysSuspend
  <2> QED BY <1>1, <2>1, <2>2, TraceRestQuiet
<1>8. CASE HwStop
  BY <1>1, <1>8, BlameGrows DEF HwStop, fini_order, Answer, Results, ReleaseChannel, Fails,
     Works, TypeOK, HwLadder, ChannLadder, TraceLadder, TraceBufferOwned, TraceHandlersSafe,
     Unanswered
<1>9. CASE Resume
  <2>1. UNCHANGED trVars /\ blame \subseteq blame'
    BY <1>1, <1>9, TraceFrame, BlameGrows
  <2>2. oops' \in {oops, "freed_event", "null_chann", "null_event", "freed_client"}
    BY <1>9 DEF Resume, Register, Fails, Works
  <2> QED BY <1>1, <2>1, <2>2, TraceRestQuiet
<1>10. CASE EventStep
  <2>1. UNCHANGED trVars /\ blame \subseteq blame'
    BY <1>1, <1>10, TraceFrame, BlameGrows
  <2>2. oops' \in {oops, "freed_event", "null_chann", "null_event", "freed_client"}
    BY <1>10, EventStepFrame
  <2> QED BY <1>1, <2>1, <2>2, TraceRestQuiet
<1>11. CASE InfoStep
  <2>1. UNCHANGED trVars /\ blame \subseteq blame'
    BY <1>1, <1>11, TraceFrame, BlameGrows
  <2>2. oops' \in {oops, "freed_event", "null_chann", "null_event", "freed_client"}
    BY <1>1, <1>11, InfoFrame DEF ReleaseChannel
  <2> QED BY <1>1, <2>1, <2>2, TraceRestQuiet
<1>12. CASE TraceSend
  BY <1>1, <1>12, MsgEffect, BlameGrows DEF TraceSend, TraceStart, TraceStop, MayTrace, Plugged,
     ReleaseChannel, Results, TypeOK, HwLadder, ChannLadder, TraceLadder, TraceBufferOwned,
     TraceHandlersSafe, Unanswered
<1>13. CASE TraceStep
  BY <1>1, <1>13, BlameGrows DEF TraceStep, SwitchStep, TraceIrq, TraceLog, TraceCancel,
     TraceFree, TraceInterrupt, TraceWork, Fails, Works, TypeOK, HwLadder, ChannLadder,
     TraceLadder, TraceBufferOwned, TraceHandlersSafe, Unanswered
<1>14. CASE ClientStep
  <2>1. UNCHANGED trVars /\ blame \subseteq blame'
    BY <1>1, <1>14, TraceFrame, BlameGrows
  <2>2. oops' \in {oops, "freed_event", "null_chann", "null_event", "freed_client"}
    BY <1>14, ClientStepFrame
  <2> QED BY <1>1, <2>1, <2>2, TraceRestQuiet
<1> QED BY <1>2, <1>3, <1>4, <1>5, <1>6, <1>7, <1>8, <1>9, <1>10, <1>11, <1>12, <1>13, <1>14
   DEF DrvStep

(* Where the clients are.                                                *)
LEMMA ClientLadderStep ==
    ASSUME DrvInv, DrvStep
    PROVE  ClientLadder'
<1> USE DEF ProbeSteps, Alive, hwVars, evVars, trVars, clVars
<1>1. /\ TypeOK /\ UpLadder /\ LockLadder /\ HwLadder /\ ChannLadder /\ EventLadder
      /\ ClientsListed /\ ClientLadder /\ Alive
  BY DEF DrvInv, DriverInv, TraceSound, DrvStep
<1>2. CASE SetUpStep
  <2>1. UNCHANGED clVars
    BY <1>2, ClientFrame
  <2>2. d \in {"unbound", "l_tdr"} \cup ProbeSteps \/ d' \notin ProbeSteps \cup {"unbound", "l_tdr"}
    BY <1>1, <1>2 DEF SetUpStep, Probe, InitResources, InitRq, InitXrs, ProbeSysfs,
       ProbeRegister, SetUp, step_order, step_label, Fails, Works, TypeOK
  <2>3. d' \in {"f_trace", "f_rq", "f_stop", "f_events"} => client_list = <<>>
    BY <1>1, <1>2 DEF SetUpStep, Probe, InitResources, InitRq, InitXrs, ProbeSysfs,
       ProbeRegister, SetUp, step_order, step_label, Fails, Works, TypeOK, ClientLadder
  <2> QED BY <1>1, <2>1, <2>2, <2>3 DEF ClientLadder
<1>3. CASE InitStep
  <2>1. UNCHANGED clVars
    BY <1>3, ClientFrame
  <2>2. d \in {"unbound", "l_tdr"} \cup ProbeSteps \/ d' \notin ProbeSteps \cup {"unbound", "l_tdr"}
    BY <1>1, <1>3 DEF InitStep, InitHwStart, InitEvents, InitSend, InitTrace, Register,
       step_label, Fails, Works, TypeOK
  <2>3. d' \in {"f_trace", "f_rq", "f_stop", "f_events"} => client_list = <<>>
    BY <1>1, <1>3 DEF InitStep, InitHwStart, InitEvents, InitSend, InitTrace, Register,
       step_label, Fails, Works, TypeOK, ClientLadder
  <2> QED BY <1>1, <2>1, <2>2, <2>3 DEF ClientLadder
<1>4. CASE AskStep
  <2>1. UNCHANGED clVars
    BY <1>4, ClientFrame
  <2>2. d \in {"unbound", "l_tdr"} \cup ProbeSteps \/ d' \notin ProbeSteps \cup {"unbound", "l_tdr"}
    BY <1>1, <1>4, MsgEffect DEF AskStep, QueryFirmwareVersion, QueryAieVersion,
       QueryAieMetadata, InitRequery, Query, step_order, step_label, Results, ReleaseChannel,
       TypeOK
  <2>3. d' \in {"f_trace", "f_rq", "f_stop", "f_events"} => client_list = <<>>
    BY <1>1, <1>4, MsgEffect DEF AskStep, QueryFirmwareVersion, QueryAieVersion,
       QueryAieMetadata, InitRequery, Query, step_order, step_label, Results, ReleaseChannel,
       TypeOK, ClientLadder
  <2> QED BY <1>1, <2>1, <2>2, <2>3 DEF ClientLadder
<1>5. CASE LabelStep
  <2>1. UNCHANGED clVars
    BY <1>5, ClientFrame
  <2>2. d \in {"unbound", "l_tdr"} \cup ProbeSteps \/ d' \notin ProbeSteps \cup {"unbound", "l_tdr"}
    BY <1>1, <1>5 DEF LabelStep, LabelEvents, LabelFree, RqFini, FiniEvents, fini_order,
       FreeEvents, EventsDrained, TypeOK
  <2>3. d' \in {"f_trace", "f_rq", "f_stop", "f_events"} => client_list = <<>>
    BY <1>1, <1>5 DEF LabelStep, LabelEvents, LabelFree, RqFini, FiniEvents, fini_order,
       FreeEvents, EventsDrained, TypeOK, ClientLadder
  <2> QED BY <1>1, <2>1, <2>2, <2>3 DEF ClientLadder
<1>6. CASE EndStep
  <2>1. UNCHANGED clVars
    BY <1>6, ClientFrame
  <2>2. d \in {"unbound", "l_tdr"} \cup ProbeSteps \/ d' \notin ProbeSteps \cup {"unbound", "l_tdr"}
    BY <1>1, <1>6 DEF EndStep, LabelRes, LabelWq, LabelTdr, RemoveStart, RemoveFini,
       FiniTrace, TypeOK
  <2>3. d' \in {"f_trace", "f_rq", "f_stop", "f_events"} => client_list = <<>>
    BY <1>1, <1>6 DEF EndStep, LabelRes, LabelWq, LabelTdr, RemoveStart, RemoveFini,
       FiniTrace, TypeOK, ClientLadder
  <2> QED BY <1>1, <2>1, <2>2, <2>3 DEF ClientLadder
<1>7. CASE SleepStep
  <2>1. UNCHANGED clVars
    BY <1>7, ClientFrame
  <2>2. d \in {"unbound", "l_tdr"} \cup ProbeSteps \/ d' \notin ProbeSteps \cup {"unbound", "l_tdr"}
    BY <1>1, <1>7 DEF SleepStep, RpmSuspend, SysSuspend, TypeOK
  <2>3. d' \in {"f_trace", "f_rq", "f_stop", "f_events"} => client_list = <<>>
    BY <1>1, <1>7 DEF SleepStep, RpmSuspend, SysSuspend, TypeOK, ClientLadder
  <2> QED BY <1>1, <2>1, <2>2, <2>3 DEF ClientLadder
<1>8. CASE HwStop
  <2>1. UNCHANGED clVars
    BY <1>8, ClientFrame
  <2>2. d \in {"unbound", "l_tdr"} \cup ProbeSteps \/ d' \notin ProbeSteps \cup {"unbound", "l_tdr"}
    BY <1>1, <1>8 DEF HwStop, fini_order, Answer, Results, ReleaseChannel, Fails, Works, TypeOK
  <2>3. d' \in {"f_trace", "f_rq", "f_stop", "f_events"} => client_list = <<>>
    BY <1>1, <1>8 DEF HwStop, fini_order, Answer, Results, ReleaseChannel, Fails, Works,
       TypeOK, ClientLadder
  <2> QED BY <1>1, <2>1, <2>2, <2>3 DEF ClientLadder
<1>9. CASE Resume
  <2>1. UNCHANGED clVars
    BY <1>9, ClientFrame
  <2>2. d \in {"unbound", "l_tdr"} \cup ProbeSteps \/ d' \notin ProbeSteps \cup {"unbound", "l_tdr"}
    BY <1>1, <1>9 DEF Resume, Register, Fails, Works, TypeOK
  <2>3. d' \in {"f_trace", "f_rq", "f_stop", "f_events"} => client_list = <<>>
    BY <1>1, <1>9 DEF Resume, Register, Fails, Works, TypeOK, ClientLadder
  <2> QED BY <1>1, <2>1, <2>2, <2>3 DEF ClientLadder
<1>10. CASE EventStep
  BY <1>1, <1>10, EventStepFrame DEF ClientLadder
<1>11. CASE InfoStep
  BY <1>1, <1>11, InfoFrame DEF ClientLadder
<1>12. CASE TraceSend
  <2>1. UNCHANGED clVars
    BY <1>12, ClientFrame
  <2>2. d \in {"unbound", "l_tdr"} \cup ProbeSteps \/ d' \notin ProbeSteps \cup {"unbound", "l_tdr"}
    BY <1>1, <1>12, MsgEffect DEF TraceSend, TraceStart, TraceStop, MayTrace, Plugged,
       ReleaseChannel, Results, TypeOK
  <2>3. d' \in {"f_trace", "f_rq", "f_stop", "f_events"} => client_list = <<>>
    BY <1>1, <1>12, MsgEffect DEF TraceSend, TraceStart, TraceStop, MayTrace, Plugged,
       ReleaseChannel, Results, TypeOK, ClientLadder
  <2> QED BY <1>1, <2>1, <2>2, <2>3 DEF ClientLadder
<1>13. CASE TraceStep
  BY <1>1, <1>13, TraceStepFrame DEF ClientLadder
<1>14. CASE ClientStep
  <2>1. CASE RemoveClient
    <3>1. client_list # <<>> /\ client_list \in Seq(Client)
      BY <1>1, <2>1 DEF RemoveClient, TypeOK
    <3>2. \A c : Contains(client_list, c) /\ c # Head(client_list) => Contains(Tail(client_list), c)
      BY <3>1, TailContains
    <3>3. Head(client_list) \in Client
      BY <3>1
    <3> QED BY <1>1, <2>1, <3>2, <3>3 DEF RemoveClient, ClientLadder, TypeOK
  <2>2. ASSUME NEW c \in Client, Open(c) PROVE ClientLadder'
    <3>1. ~Contains(client_list, c) /\ IsInjective(client_list) /\ client_list \in Seq(Client)
      BY <1>1, <2>2 DEF Open, ClientsListed, TypeOK
    <3>2. \A x : Contains(client_list', x) <=> Contains(client_list, x) \/ x = c
      BY <2>2, <3>1, AppendInjectiveProperties DEF Open
    <3> QED BY <1>1, <2>2, <3>2 DEF Open, ClientLadder
  <2>3. ASSUME NEW c \in Client, CreateCtx(c) PROVE ClientLadder'
    BY <1>1, <2>3 DEF CreateCtx, ClientLadder, ClientsListed, TypeOK
  <2>4. ASSUME NEW c \in Client, Flush(c) PROVE ClientLadder'
    <3>1. CASE Plugged
      <4>1. \A x : Contains(client_list', x) <=> Contains(client_list, x) /\ x # c
        <5>1. /\ client_list \in Seq(Client) /\ IsInjective(client_list)
              /\ client_list' = RemoveFirst(client_list, c)
          BY <1>1, <2>4, <3>1 DEF Flush, TypeOK, ClientsListed
        <5> QED BY <5>1, RemoveFirstProperties
      <4>2. d \in {"bound", "s_stop"}
        BY <1>1, <3>1 DEF UpLadder, TypeOK, Plugged
      <4>3. \A x \in Client : ctxs'[x] = IF x = c THEN {} ELSE ctxs[x]
        BY <1>1, <2>4, <3>1 DEF Flush, TypeOK
      <4> QED BY <1>1, <2>4, <4>1, <4>2, <4>3 DEF Flush, ClientLadder
    <3>2. CASE ~Plugged
      BY <1>1, <2>4, <3>2 DEF Flush, ClientLadder, TypeOK
    <3> QED BY <3>1, <3>2
  <2>5. ASSUME NEW c \in Client, Close(c) PROVE ClientLadder'
    BY <1>1, <2>5 DEF Close, ClientLadder, TypeOK
  <2> QED BY <1>14, <2>1, <2>2, <2>3, <2>4, <2>5 DEF ClientStep
<1> QED BY <1>2, <1>3, <1>4, <1>5, <1>6, <1>7, <1>8, <1>9, <1>10, <1>11, <1>12, <1>13, <1>14
   DEF DrvStep

(* The list of clients and the references.                               *)
LEMMA ClientsListedStep ==
    ASSUME DrvInv, DrvStep
    PROVE  ClientsListed'
<1> USE DEF ProbeSteps, Alive, hwVars, evVars, trVars, clVars
<1>1. /\ TypeOK /\ UpLadder /\ LockLadder /\ HwLadder /\ ChannLadder /\ EventLadder
      /\ ClientsListed /\ ClientLadder /\ Alive
  BY DEF DrvInv, DriverInv, TraceSound, DrvStep
<1>0. IsFiniteSet(Client) /\ Files \subseteq Client /\ IsFiniteSet(Files)
  BY DriverAssumption, FS_Subset DEF Files
<1>3. CASE \/ SetUpStep \/ InitStep \/ AskStep \/ LabelStep \/ EndStep \/ SleepStep \/ HwStop
           \/ Resume \/ EventStep \/ InfoStep \/ TraceSend \/ TraceStep
  <2>1. UNCHANGED clVars
    BY <1>3, ClientFrame
  <2>2. Files' = Files
    BY <2>1 DEF Files
  <2>3. CASE ProbeRegister
    BY <1>1, <2>1, <2>2, <2>3 DEF ProbeRegister, SetUp, ClientsListed, ClientLadder,
       IsInjective, Contains
  <2>4. CASE ~ProbeRegister
    <3>1. Plugged' => Plugged
      BY <1>3, <2>4, InfoFrame, EventStepFrame, TraceStepFrame, <1>1
         DEF SetUpStep, Probe, InitResources, InitRq, InitXrs, ProbeSysfs, SetUp, InitStep,
         InitHwStart, InitEvents, InitSend, InitTrace, AskStep, QueryFirmwareVersion,
         QueryAieVersion, QueryAieMetadata, InitRequery, Query, LabelStep, LabelEvents, LabelFree,
         RqFini, FiniEvents, EndStep, LabelRes, LabelWq, LabelTdr, RemoveStart, RemoveFini,
         FiniTrace, SleepStep, RpmSuspend, SysSuspend, HwStop, Resume, TraceSend, TraceStart,
         TraceStop, Plugged
    <3> QED BY <1>1, <2>1, <2>2, <3>1 DEF ClientsListed
  <2> QED BY <2>3, <2>4
<1>2. CASE ClientStep
  <2>1. CASE RemoveClient
    <3>1. ~Plugged' /\ client' = client /\ rpm_usage' = rpm_usage
      BY <1>1, <2>1 DEF RemoveClient, UpLadder, Plugged
    <3>2. Files' = Files
      BY <3>1 DEF Files
    <3> QED BY <1>1, <3>1, <3>2 DEF ClientsListed
  <2>2. ASSUME NEW c \in Client, Open(c) PROVE ClientsListed'
    <3>1. Files' = Files \cup {c} /\ c \notin Files
      BY <1>1, <2>2 DEF Open, Files, TypeOK
    <3>2. Cardinality(Files') = rpm_usage'
      BY <1>0, <1>1, <2>2, <3>1, FS_AddElement DEF Open, ClientsListed
    <3>3. ~Contains(client_list, c) /\ IsInjective(client_list)
      BY <1>1, <2>2 DEF Open, ClientsListed
    <3>4. /\ IsInjective(client_list')
          /\ \A x : Contains(client_list', x) <=> Contains(client_list, x) \/ x = c
      BY <1>1, <2>2, <3>3, AppendInjectiveProperties DEF Open, TypeOK
    <3>5. \A x \in Client : client'[x] = IF x = c THEN "open" ELSE client[x]
      BY <1>1, <2>2 DEF Open, TypeOK
    <3> QED BY <1>1, <2>2, <3>2, <3>4, <3>5 DEF Open, ClientsListed, Plugged
  <2>3. ASSUME NEW c \in Client, CreateCtx(c) PROVE ClientsListed'
    <3>1. Files' = Files
      BY <2>3 DEF CreateCtx, Files
    <3> QED BY <1>1, <2>3, <3>1 DEF CreateCtx, ClientsListed, Plugged
  <2>4. ASSUME NEW c \in Client, Flush(c) PROVE ClientsListed'
    <3>1. Files' = Files
      BY <1>1, <2>4 DEF Flush, Files, TypeOK
    <3>2. CASE Plugged
      <4>1. /\ IsInjective(client_list')
            /\ \A x : Contains(client_list', x) <=> Contains(client_list, x) /\ x # c
        <5>1. /\ client_list \in Seq(Client) /\ IsInjective(client_list)
              /\ client_list' = RemoveFirst(client_list, c)
          BY <1>1, <2>4, <3>2 DEF Flush, TypeOK, ClientsListed
        <5> QED BY <5>1, RemoveFirstProperties
      <4>2. \A x \in Client : client'[x] = IF x = c THEN "flushed" ELSE client[x]
        BY <1>1, <2>4 DEF Flush, TypeOK
      <4> QED BY <1>1, <2>4, <3>1, <3>2, <4>1, <4>2 DEF Flush, ClientsListed
    <3>3. CASE ~Plugged
      BY <1>1, <2>4, <3>1, <3>3 DEF Flush, ClientsListed, Plugged
    <3> QED BY <3>2, <3>3
  <2>5. ASSUME NEW c \in Client, Close(c) PROVE ClientsListed'
    <3>1. Files' = Files \ {c} /\ c \in Files
      BY <1>1, <2>5 DEF Close, Files, TypeOK
    <3>2. Cardinality(Files') = rpm_usage'
      BY <1>0, <1>1, <2>5, <3>1, FS_RemoveElement DEF Close, ClientsListed
    <3>3. \A x \in Client : client'[x] = IF x = c THEN "none" ELSE client[x]
      BY <1>1, <2>5 DEF Close, TypeOK
    <3> QED BY <1>1, <2>5, <3>2, <3>3 DEF Close, ClientsListed, Plugged
  <2> QED BY <1>2, <2>1, <2>2, <2>3, <2>4, <2>5 DEF ClientStep
<1> QED BY <1>2, <1>3 DEF DrvStep

(* Where the thread of the device is, what it holds and has set up.       *)
DevTypes ==
    /\ d \in {"unbound", "bound", "gone", "l_wq", "l_res", "l_events", "l_free",
              "l_rq", "l_stop", "l_tdr", "f_trace", "f_rq", "f_stop", "f_events",
              "r_clients", "s_stop"} \cup ProbeSteps
    /\ lock \in {"free", "dev", "dbg"} /\ hw \in {"UNINIT", "INIT", "START"}
    /\ up \subseteq {"wq", "res", "rq", "sysfs", "tdr", "drm"}
    /\ mgmt_chann \in {"NULL", "open"}
    /\ oops \in {"no", "freed_event", "null_chann", "null_event", "freed_client",
                 "no_trace_buf", "freed_trace", "dead_wq", "no_log_buf"}

(* The types of the device.                                              *)
LEMMA DevTypesStep ==
    ASSUME DrvInv, DrvStep
    PROVE  DevTypes'
<1> USE DEF ProbeSteps, Alive, hwVars, evVars, trVars, clVars
<1>1. TypeOK /\ UpLadder /\ DevTypes /\ Alive
  BY DEF DrvInv, DriverInv, DrvStep, TypeOK, DevTypes
<1>2. CASE SetUpStep
  BY <1>1, <1>2 DEF SetUpStep, Probe, InitResources, InitRq, InitXrs, ProbeSysfs,
     ProbeRegister, SetUp, step_order, step_label, Fails, Works, DevTypes
<1>3. CASE InitStep
  BY <1>1, <1>3 DEF InitStep, InitHwStart, InitEvents, InitSend, InitTrace, Register,
     step_label, Fails, Works, DevTypes
<1>4. CASE AskStep
  <2>1. PICK r \in Results : MgmtMsg(r)
    BY <1>4 DEF AskStep, QueryFirmwareVersion, QueryAieVersion, QueryAieMetadata, Query,
       InitRequery
  <2>2. mgmt_chann' \in {"NULL", "open"} /\ oops' \in {oops, "freed_event"}
    BY <1>1, <2>1 DEF MgmtMsg, ReleaseChannel, DevTypes
  <2>3. /\ d' \in {"query_version", "query_metadata", "xrs", "trace", "l_rq", "l_events"}
        /\ lock' \in {lock, "dev", "free"} /\ UNCHANGED <<up, hw>>
    BY <1>4 DEF AskStep, QueryFirmwareVersion, QueryAieVersion, QueryAieMetadata, Query,
       InitRequery,
       step_order, step_label
  <2> QED BY <1>1, <2>2, <2>3 DEF DevTypes
<1>5. CASE LabelStep
  <2>1. d' \in {"l_free", "l_rq", "l_stop", "f_stop", "l_res"}
    BY <1>5 DEF LabelStep, LabelEvents, LabelFree, RqFini, FiniEvents, fini_order
  <2>2. /\ lock' \in {lock, "free"} /\ up' \subseteq up /\ UNCHANGED <<hw, mgmt_chann, oops>>
    BY <1>5 DEF LabelStep, LabelEvents, LabelFree, RqFini, FiniEvents
  <2> QED BY <1>1, <2>1, <2>2 DEF DevTypes
<1>6. CASE EndStep
  BY <1>1, <1>6 DEF EndStep, LabelRes, LabelWq, LabelTdr, RemoveStart, RemoveFini, FiniTrace,
     DevTypes
<1>7. CASE SleepStep
  BY <1>1, <1>7 DEF SleepStep, RpmSuspend, SysSuspend, DevTypes
<1>8. CASE HwStop
  BY <1>1, <1>8 DEF HwStop, fini_order, Answer, Results, ReleaseChannel, Fails, Works,
     DevTypes
<1>9. CASE Resume
  BY <1>1, <1>9 DEF Resume, Register, Fails, Works, DevTypes
<1>10. CASE EventStep
  BY <1>1, <1>10, EventStepFrame DEF DevTypes
<1>11. CASE InfoStep
  BY <1>1, <1>11, InfoFrame DEF DevTypes, ReleaseChannel
<1>12. CASE TraceSend
  <2>1. PICK r \in Results : MgmtMsg(r)
    BY <1>12 DEF TraceSend, TraceStart, TraceStop
  <2>2. mgmt_chann' \in {"NULL", "open"} /\ oops' \in {oops, "freed_event"}
    BY <1>1, <2>1 DEF MgmtMsg, ReleaseChannel, DevTypes
  <2>3. d' \in {d, "f_rq"} /\ lock' \in {lock, "dbg"} /\ UNCHANGED <<up, hw>>
    BY <1>12 DEF TraceSend, TraceStart, TraceStop
  <2> QED BY <1>1, <2>2, <2>3 DEF DevTypes
<1>13. CASE TraceStep
  BY <1>1, <1>13, TraceStepFrame DEF TraceStep, SwitchStep, TraceIrq, TraceLog, TraceCancel,
     TraceFree, TraceInterrupt, TraceWork, DevTypes
<1>14. CASE ClientStep
  BY <1>1, <1>14, ClientStepFrame DEF DevTypes
<1> QED BY <1>2, <1>3, <1>4, <1>5, <1>6, <1>7, <1>8, <1>9, <1>10, <1>11, <1>12, <1>13, <1>14
   DEF DrvStep

(* The events, but for the bound on registrations.                         *)
EventTypes == /\ async_events \in {"none", "live", "freed"} /\ queued \subseteq Event
              /\ armed \in [Event -> Nat] /\ status \in [Event -> {"MAX", "good", "bad"}]
              /\ worker \in Event \cup {NoEvent}

(* A channel that is released leaves the events well typed.                *)
LEMMA ReleaseEvents ==
    ASSUME EventTypes, ReleaseChannel
    PROVE  EventTypes'
BY DEF EventTypes, ReleaseChannel

(* So does a registration of some of them.                                 *)
LEMMA RegisterTypes ==
    ASSUME armed \in [Event -> Nat], NEW es, Register(es)
    PROVE  armed' \in [Event -> Nat]
BY DEF Register

(* The types of the events.                                              *)
LEMMA EventTypesStep ==
    ASSUME DrvInv, DrvStep
    PROVE  EventTypes'
<1> USE DEF ProbeSteps, Alive, hwVars, evVars, trVars, clVars
<1>1. EventTypes
  BY DEF DrvInv, DriverInv, TypeOK, EventTypes
<1>2. CASE SetUpStep \/ EndStep \/ SleepStep \/ TraceStep \/ ClientStep
  BY <1>1, <1>2, TraceStepFrame, ClientStepFrame DEF EventTypes, SetUpStep, Probe,
     InitResources,
     InitRq, InitXrs, ProbeSysfs, ProbeRegister, SetUp, EndStep, LabelRes, LabelWq, LabelTdr,
     RemoveStart, RemoveFini, FiniTrace, SleepStep, RpmSuspend, SysSuspend
<1>3. CASE InitStep
  BY <1>1, <1>3, RegisterTypes DEF EventTypes, InitStep, InitHwStart, InitEvents, InitSend,
     InitTrace
<1>4. CASE AskStep
  <2>1. PICK r \in Results : MgmtMsg(r)
    BY <1>4 DEF AskStep, QueryFirmwareVersion, QueryAieVersion, QueryAieMetadata, Query,
       InitRequery
  <2> QED BY <1>1, <2>1, ReleaseEvents DEF MgmtMsg, EventTypes
<1>5. CASE LabelStep
  BY <1>1, <1>5 DEF EventTypes, LabelStep, LabelEvents, LabelFree, RqFini, FiniEvents,
     FreeEvents
<1>6. CASE HwStop
  BY <1>1, <1>6, ReleaseEvents DEF HwStop, EventTypes
<1>7. CASE Resume
  BY <1>1, <1>7, RegisterTypes DEF Resume, EventTypes
<1>8. CASE EventStep
  <2>1. CASE WorkerSend
    BY <1>1, <2>1, RegisterTypes DEF WorkerSend, EventTypes
  <2>2. ASSUME NEW e \in Event, FwReport(e) PROVE EventTypes'
    BY <1>1, <2>2 DEF FwReport, EventTypes
  <2>3. ASSUME NEW e \in Event, WorkerTake(e) PROVE EventTypes'
    BY <1>1, <2>3 DEF WorkerTake, EventTypes
  <2> QED BY <1>8, <2>1, <2>2, <2>3 DEF EventStep
<1>9. CASE InfoStep
  <2>1. PICK r \in Results : MgmtMsg(r)
    BY <1>9 DEF InfoStep, GetAieStatus, GetTelemetry
  <2> QED BY <1>1, <2>1, ReleaseEvents DEF MgmtMsg, EventTypes
<1>10. CASE TraceSend
  <2>1. PICK r \in Results : MgmtMsg(r)
    BY <1>10 DEF TraceSend, TraceStart, TraceStop
  <2> QED BY <1>1, <2>1, ReleaseEvents DEF MgmtMsg, EventTypes
<1> QED BY <1>2, <1>3, <1>4, <1>5, <1>6, <1>7, <1>8, <1>9, <1>10 DEF DrvStep

(* The trace.                                                              *)
TraceTypes == /\ trace_req \in {"none", "live"} /\ trace_res \subseteq {"buf", "wq", "irq", "log"}
              /\ trace_op \in {"none", "irq", "log", "cancel", "free"}
              /\ enabled \in BOOLEAN /\ fw_trace \in BOOLEAN /\ trace_work \in BOOLEAN

(* The types of the trace.                                               *)
LEMMA TraceTypesStep ==
    ASSUME DrvInv, DrvStep
    PROVE  TraceTypes'
<1> USE DEF ProbeSteps, Alive, hwVars, evVars, trVars, clVars
<1>1. TraceTypes
  BY DEF DrvInv, DriverInv, TypeOK, TraceTypes
<1>2. CASE SetUpStep \/ AskStep \/ LabelStep \/ SleepStep \/ Resume \/ EventStep \/ InfoStep \/ ClientStep
  BY <1>1, <1>2, TraceFrame DEF TraceTypes
<1>3. CASE InitStep
  BY <1>1, <1>3 DEF InitStep, InitHwStart, InitEvents, InitSend, InitTrace, TraceTypes
<1>4. CASE EndStep
  BY <1>1, <1>4 DEF EndStep, LabelRes, LabelWq, LabelTdr, RemoveStart, RemoveFini, FiniTrace,
     TraceTypes
<1>5. CASE HwStop
  BY <1>1, <1>5 DEF HwStop, TraceTypes
<1>6. CASE TraceSend
  BY <1>1, <1>6 DEF TraceSend, TraceStart, TraceStop, TraceTypes
<1>7. CASE TraceStep
  BY <1>1, <1>7 DEF TraceStep, SwitchStep, TraceIrq, TraceLog, TraceCancel, TraceFree,
     TraceInterrupt, TraceWork, TraceTypes
<1> QED BY <1>2, <1>3, <1>4, <1>5, <1>6, <1>7 DEF DrvStep

(* The clients, but for the bound on references.                           *)
ClientTypes ==
    /\ client \in [Client -> {"none", "open", "flushed"}] /\ client_list \in Seq(Client)
    /\ ctxs \in [Client -> SUBSET {"early", "late"}] /\ orphans \subseteq {"early", "late"}

(* The types of the clients.                                             *)
LEMMA ClientTypesStep ==
    ASSUME DrvInv, DrvStep
    PROVE  ClientTypes'
<1> USE DEF ProbeSteps, Alive, hwVars, evVars, trVars, clVars
<1>1. ClientTypes
  BY DEF DrvInv, DriverInv, TypeOK, ClientTypes
<1>2. CASE SetUpStep \/ InitStep \/ AskStep \/ LabelStep \/ EndStep \/ SleepStep \/ HwStop \/ Resume \/ EventStep \/ InfoStep \/ TraceSend \/ TraceStep
  BY <1>1, <1>2, ClientFrame DEF ClientTypes
<1>3. CASE ClientStep
  <2>1. CASE RemoveClient
    BY <1>1, <2>1 DEF RemoveClient, ClientTypes
  <2>2. ASSUME NEW c \in Client, Open(c) PROVE ClientTypes'
    BY <1>1, <2>2 DEF Open, ClientTypes
  <2>3. ASSUME NEW c \in Client, CreateCtx(c) PROVE ClientTypes'
    BY <1>1, <2>3 DEF CreateCtx, ClientTypes
  <2>4. ASSUME NEW c \in Client, Flush(c) PROVE ClientTypes'
    <3>1. Plugged => IsInjective(client_list)
      BY DEF DrvInv, DriverInv, ClientsListed
    <3>2. Plugged => RemoveFirst(client_list, c) \in Seq(Client)
      BY <1>1, <3>1, RemoveFirstProperties DEF ClientTypes
    <3> QED BY <1>1, <2>4, <3>2 DEF Flush, ClientTypes
  <2>5. ASSUME NEW c \in Client, Close(c) PROVE ClientTypes'
    BY <1>1, <2>5 DEF Close, ClientTypes
  <2> QED BY <1>3, <2>1, <2>2, <2>3, <2>4, <2>5 DEF ClientStep
<1> QED BY <1>2, <1>3 DEF DrvStep

(* All the types, with the bounds from the accounts of registrations and   *)
(* of open files.                                                          *)
LEMMA TypeOKStep ==
    ASSUME DrvInv, DrvStep
    PROVE  TypeOK'
<1>1. DevTypes' /\ EventTypes' /\ TraceTypes' /\ ClientTypes'
  BY DevTypesStep, EventTypesStep, TraceTypesStep, ClientTypesStep
<1>2. blame' \subseteq Faults /\ slept' \in BOOLEAN
  BY BlameGrows DEF DrvInv, DriverInv, DrvStep
<1>3. armed' \in [Event -> 0..3]
  <2>1. ASSUME NEW e \in Event PROVE armed'[e] \in 0..3
    BY <1>1, EventLadderStep DEF EventLadder, EventTypes
  <2> QED BY <1>1, <2>1 DEF EventTypes
<1>4. rpm_usage' \in 0..Cardinality(Client)
  <2>1. rpm_usage' = Cardinality(Files')
    BY ClientsListedStep DEF ClientsListed
  <2>2. Files' \subseteq Client /\ IsFiniteSet(Client)
    BY DriverAssumption DEF Files
  <2>3. Cardinality(Files') \in Nat /\ Cardinality(Client) \in Nat
        /\ Cardinality(Files') <= Cardinality(Client)
    BY <2>2, FS_Subset, FS_CardinalityType
  <2> QED BY <2>1, <2>3
<1> QED BY <1>1, <1>2, <1>3, <1>4
     DEF TypeOK, DevTypes, EventTypes, TraceTypes, ClientTypes

(* The contexts before aie2_fini().                                      *)
LEMMA CtxsGoneBeforeFiniStep ==
    ASSUME DrvInv, DrvStep
    PROVE  CtxsGoneBeforeFini'
<1> USE DEF ProbeSteps, Alive, hwVars, evVars, trVars, clVars
<1>1. /\ TypeOK /\ UpLadder /\ LockLadder /\ HwLadder /\ ChannLadder /\ EventLadder
      /\ ClientsListed /\ ClientLadder /\ CtxsGoneBeforeFini /\ Alive
  BY DEF DrvInv, DriverInv, DrvStep
<1>2. d' \in {"f_rq", "f_stop", "f_events"} => \A c \in Client : "early" \notin ctxs'[c]
  <2>1. \A c \in Client : ~Contains(<<>>, c)
    BY DEF Contains
  <2> QED BY <2>1, ClientLadderStep DEF ClientLadder
<1>3. up' \cap {"tdr", "drm"} # {} => "rq" \in up'
  BY UpLadderStep, TypeOKStep DEF UpLadder, TypeOK
<1>4. Plugged' => orphans' \subseteq {"late"}
  <2>1. CASE \/ SetUpStep \/ InitStep \/ AskStep \/ LabelStep \/ EndStep \/ SleepStep \/ HwStop
             \/ Resume \/ EventStep \/ InfoStep \/ TraceSend \/ TraceStep
    <3>1. orphans' = orphans
      BY <2>1, ClientFrame
    <3>2. Plugged' => Plugged \/ orphans = {}
      BY <1>1, <2>1, InfoFrame, EventStepFrame, TraceStepFrame
         DEF SetUpStep, Probe, InitResources, InitRq, InitXrs, ProbeSysfs, ProbeRegister, SetUp,
         InitStep,
         InitHwStart, InitEvents, InitSend, InitTrace, AskStep, QueryFirmwareVersion,
         QueryAieVersion, QueryAieMetadata, InitRequery, Query, LabelStep, LabelEvents, LabelFree,
         RqFini, FiniEvents, EndStep, LabelRes, LabelWq, LabelTdr, RemoveStart, RemoveFini,
         FiniTrace, SleepStep, RpmSuspend, SysSuspend, HwStop, Resume, TraceSend, TraceStart,
         TraceStop, Plugged, ClientLadder
    <3> QED BY <1>1, <3>1, <3>2 DEF CtxsGoneBeforeFini
  <2>2. CASE ClientStep
    <3>1. CASE \E c \in Client : Close(c)
      <4>1. PICK c \in Client : Close(c)
        BY <3>1
      <4>2. Plugged => "early" \notin ctxs[c]
        BY <1>1, <4>1 DEF Close, ClientLadder, ClientsListed
      <4> QED BY <1>1, <4>1, <4>2 DEF Close, Plugged, CtxsGoneBeforeFini, TypeOK
    <3>2. CASE ~\E c \in Client : Close(c)
      BY <1>1, <2>2, <3>2 DEF ClientStep, RemoveClient, Open, CreateCtx, Flush, Plugged,
         CtxsGoneBeforeFini
    <3> QED BY <3>1, <3>2
  <2> QED BY <2>1, <2>2 DEF DrvStep
<1> QED BY <1>2, <1>3, <1>4 DEF CtxsGoneBeforeFini

(* A remainder by the size of the ring, for a position that is in it or    *)
(* has wrapped once.                                                       *)
LEMMA ModWrap ==
    ASSUME NEW x \in 0..(2 * RB - 1)
    PROVE  x % RB = IF x < RB THEN x ELSE x - RB
<1>1. RB \in Nat /\ RB > 0
  BY DriverAssumption
<1>2. CASE x < RB
  BY <1>1, <1>2
<1>3. CASE x >= RB
  BY <1>1, <1>3
<1> QED BY <1>1, <1>2, <1>3

(* The positions from one to another.                                      *)
Span(a, b) == [i \in 1..(b - a) |-> a + i - 1]

(* They are a sequence as long as the way between them.                    *)
LEMMA SpanSeq ==
    ASSUME NEW a \in Nat, NEW b \in Nat, a <= b
    PROVE  /\ Span(a, b) \in Seq(Int) /\ Len(Span(a, b)) = b - a
           /\ \A i \in 1..(b - a) : Span(a, b)[i] = a + i - 1
<1>1. \A i \in 1..(b - a) : a + i - 1 \in Int
  OBVIOUS
<1>2. b - a \in Nat
  OBVIOUS
<1> QED BY <1>1, <1>2, IsASeq DEF Span

(* The copy, by the order of its ends.                                     *)
LEMMA ContentParts ==
    ASSUME NEW head \in Nat, NEW tail \in Nat
    PROVE  /\ tail > head => Content(head, tail) = Span(head, tail)
           /\ tail < head => Content(head, tail) = Span(head, RB) \o Span(0, tail)
           /\ tail = head => Content(head, tail) = <<>>
<1>1. CASE tail > head
  BY <1>1 DEF Content, Span
<1>2. CASE tail < head
  <2>1. ~(tail > head)
    BY <1>2
  <2> QED BY <1>2, <2>1 DEF Content, Span
<1>3. CASE tail = head
  <2>1. ~(tail > head) /\ ~(tail < head)
    BY <1>3
  <2> QED BY <2>1 DEF Content
<1> QED BY <1>1, <1>2, <1>3

(* What aie2_get_trace_event_content() copies is what was written.         *)
LEMMA CopyExact ==
    ASSUME NEW head \in 0..RB-1, NEW n \in 0..RB-1
    PROVE  Content(head, (head + n) % RB) = [i \in 1..n |-> (head + i - 1) % RB]
<1> DEFINE want == [i \in 1..n |-> (head + i - 1) % RB]
<1>1. RB \in Nat /\ RB > 0
  BY DriverAssumption
<1>2. PICK tail \in Nat : tail = (head + n) % RB
                          /\ tail = IF head + n < RB THEN head + n ELSE head + n - RB
  BY <1>1, ModWrap
<1>3. \A i \in 1..n :
         (head + i - 1) % RB = IF head + i - 1 < RB THEN head + i - 1 ELSE head + i - 1 - RB
  BY <1>1, ModWrap
<1>4. want \in Seq(Int) /\ Len(want) = n
  BY <1>1, <1>3, IsASeq
<1> SUFFICES Content(head, tail) = want
  BY <1>2
<1>5. CASE n = 0
  <2>1. tail = head
    BY <1>1, <1>2, <1>5
  <2>2. want = <<>>
    BY <1>4, <1>5, EmptySeq
  <2> QED BY <2>1, <2>2, ContentParts
<1>6. CASE n > 0 /\ head + n < RB
  <2>1. tail = head + n /\ tail > head
    BY <1>1, <1>2, <1>6
  <2>2. Span(head, tail) = want
    <3>1. tail - head = n
      BY <2>1
    <3>2. \A i \in 1..n : head + i - 1 = (head + i - 1) % RB
      BY <1>1, <1>3, <1>6
    <3> QED BY <3>1, <3>2 DEF Span
  <2> QED BY <2>1, <2>2, ContentParts
<1>7. CASE n > 0 /\ head + n >= RB
  <2>1. tail = head + n - RB /\ tail < head
    BY <1>1, <1>2, <1>7
  <2>2. Content(head, tail) = Span(head, RB) \o Span(0, tail)
    BY <1>1, <2>1, ContentParts
  <2>3. /\ Span(head, RB) \in Seq(Int) /\ Len(Span(head, RB)) = RB - head
        /\ \A i \in 1..(RB - head) : Span(head, RB)[i] = head + i - 1
    BY <1>1, SpanSeq
  <2>4. /\ Span(0, tail) \in Seq(Int) /\ Len(Span(0, tail)) = tail
        /\ \A i \in 1..tail : Span(0, tail)[i] = i - 1
    <3>1. tail - 0 = tail /\ 0 <= tail /\ \A i \in 1..tail : 0 + i - 1 = i - 1
      OBVIOUS
    <3> HIDE DEF want
    <3> QED BY <3>1, SpanSeq
  <2>5. /\ Content(head, tail) \in Seq(Int)
        /\ Len(Content(head, tail)) = Len(Span(head, RB)) + Len(Span(0, tail))
        /\ \A i \in 1..(Len(Span(head, RB)) + Len(Span(0, tail))) : Content(head, tail)[i] =
              IF i <= Len(Span(head, RB)) THEN Span(head, RB)[i]
                                          ELSE Span(0, tail)[i - Len(Span(head, RB))]
    BY <2>2, <2>3, <2>4, ConcatProperties
  <2>6. Len(Content(head, tail)) = n /\ RB - head + tail = n
    BY <1>1, <2>1, <2>3, <2>4, <2>5
  <2>7. \A i \in 1..n : Content(head, tail)[i] =
           IF i <= RB - head THEN Span(head, RB)[i] ELSE Span(0, tail)[i - (RB - head)]
    BY <2>3, <2>4, <2>5, <2>6
  <2>8. ASSUME NEW i \in 1..n
        PROVE  Content(head, tail)[i] = want[i]
    <3>1. CASE i <= RB - head
      <4>1. Content(head, tail)[i] = head + i - 1
        BY <1>1, <2>3, <2>7, <3>1
      <4> QED BY <1>1, <1>3, <3>1, <4>1
    <3>2. CASE i > RB - head
      <4>1. i - (RB - head) \in 1..tail
        BY <1>1, <2>1, <2>6, <3>2
      <4>2. Content(head, tail)[i] = i - (RB - head) - 1
        BY <1>1, <2>4, <2>7, <3>2, <4>1
      <4> QED BY <1>1, <1>3, <3>2, <4>2
    <3> QED BY <1>1, <3>1, <3>2
  <2>9. Len(want) = Len(Content(head, tail))
    BY <1>4, <2>6
  <2> QED BY <1>4, <2>5, <2>6, <2>8, <2>9, SeqEqual
<1> QED BY <1>1, <1>5, <1>6, <1>7

-----------------------------------------------------------------------------
(* A step of the driver is a step of one of its parts.                     *)
LEMMA NextIsDrvStep ==
    ASSUME Next, ~UNCHANGED vars, slept \in BOOLEAN
    PROVE  DrvStep
<1>1. Alive
  BY DEF Next, Ended
<1>2. CASE Live /\ UNCHANGED slept
  BY <1>1, <1>2
     DEF Live, DeviceStep, WorkerStep, DrvStep, SetUpStep, InitStep, AskStep, LabelStep, EndStep,
     EventStep, InfoStep, TraceSend, TraceStep, ClientStep
<1>3. CASE (RpmSuspend \/ SysSuspend) /\ slept' = TRUE
  BY <1>1, <1>3 DEF DrvStep, SleepStep
<1> QED BY <1>2, <1>3 DEF Next, Ended

(* The driver starts in the invariant.                                     *)
LEMMA DrvInvInit ==
    ASSUME Init
    PROVE  DrvInv
<1> USE DEF Init
<1>1. TypeOK
  <2>1. Cardinality(Client) \in Nat
    BY DriverAssumption, FS_CardinalityType
  <2>2. rpm_usage \in 0..Cardinality(Client)
    BY <2>1
  <2>3. client_list \in Seq(Client)
    BY EmptySeq
  <2>4. DevTypes /\ TraceTypes
    BY DEF DevTypes, TraceTypes, ProbeSteps
  <2>5. /\ armed \in [Event -> 0..3] /\ status \in [Event -> {"MAX", "good", "bad"}]
        /\ queued \subseteq Event /\ worker \in Event \cup {NoEvent}
    OBVIOUS
  <2>6. /\ client \in [Client -> {"none", "open", "flushed"}]
        /\ ctxs \in [Client -> SUBSET {"early", "late"}] /\ orphans \subseteq {"early", "late"}
    OBVIOUS
  <2> QED BY <2>2, <2>3, <2>4, <2>5, <2>6 DEF TypeOK, DevTypes, TraceTypes
<1>2. UpLadder /\ LockLadder /\ HwLadder /\ ChannLadder /\ EventLadder
  BY DriverAssumption DEF UpLadder, LockLadder, HwLadder, ChannLadder, EventLadder, ProbeSteps
<1>3. ClientsListed
  <2>1. Files = {}
    BY DEF Files
  <2> QED BY <2>1, FS_EmptySet DEF ClientsListed, Plugged
<1>4. ClientLadder /\ CtxsGoneBeforeFini
  BY DEF ClientLadder, CtxsGoneBeforeFini
<1>5. FailuresNeedFault /\ EventsRegistered
  BY DEF FailuresNeedFault, HangNeedsFault, EventsOutliveChannel, EventsRegistered
<1>6. TraceSound
  BY DEF TraceSound, TraceLadder, TraceBufferOwned, TraceHandlersSafe, TraceCopyExact
<1> QED BY <1>1, <1>2, <1>3, <1>4, <1>5, <1>6 DEF DrvInv, DriverInv

(* Every step keeps it.                                                    *)
LEMMA DrvInvNext ==
    ASSUME DrvInv, [Next]_vars
    PROVE  DrvInv'
<1>1. CASE UNCHANGED vars
  <2> USE <1>1 DEF vars, hwVars, evVars, trVars, clVars, Alive
  <2>1. TypeOK'
    BY DEF DrvInv, DriverInv, TypeOK
  <2>2. UpLadder' /\ LockLadder' /\ HwLadder' /\ ChannLadder'
    BY DEF DrvInv, DriverInv, UpLadder, LockLadder, HwLadder, ChannLadder
  <2>3. EventLadder' /\ FailuresNeedFault'
    BY DEF DrvInv, DriverInv, EventLadder, FailuresNeedFault, HangNeedsFault,
       EventsOutliveChannel, Unanswered
  <2>4. EventsRegistered'
    BY DEF DrvInv, EventsRegistered, Back
  <2>5. ClientsListed' /\ ClientLadder' /\ CtxsGoneBeforeFini'
    BY DEF DrvInv, DriverInv, ClientsListed, ClientLadder, CtxsGoneBeforeFini, Files, Plugged
  <2>6. TraceSound'
    BY DEF DrvInv, TraceSound, TraceLadder, TraceBufferOwned, TraceHandlersSafe, TraceCopyExact,
       Unanswered
  <2> QED BY <2>1, <2>2, <2>3, <2>4, <2>5, <2>6 DEF DrvInv, DriverInv
<1>2. CASE Next /\ ~UNCHANGED vars
  <2>1. DrvStep
    BY <1>2, NextIsDrvStep DEF DrvInv, DriverInv, TypeOK
  <2>2. TraceCopyExact'
    BY CopyExact DEF TraceCopyExact
  <2> QED BY <2>1, <2>2, TypeOKStep, UpLadderStep, LockLadderStep, HwLadderStep,
     ChannLadderStep,
             EventLadderStep, FailuresNeedFaultStep, EventsRegisteredStep, TraceLadderStep,
             TraceRestStep, ClientLadderStep, ClientsListedStep, CtxsGoneBeforeFiniStep
          DEF DrvInv, DriverInv, TraceSound
<1> QED BY <1>1, <1>2

(* The invariant holds in every behaviour.                                 *)
LEMMA DrvInvariant == Spec => []DrvInv
BY DrvInvInit, DrvInvNext, PTL DEF Spec

(* Every step of probe, remove, suspend and resume finds what it expects   *)
(* set up, locked, running and registered; clients and contexts are        *)
(* accounted for until aie2_fini() ends the run queue.                     *)
THEOREM DriverSound == Spec => []DriverInv
<1>1. DrvInv => DriverInv
  BY DEF DrvInv
<1> QED BY <1>1, DrvInvariant, PTL

(* Whoever waits for the lock it holds, or finds the events freed or the   *)
(* channel gone, got there by a step that failed.                          *)
THEOREM OnlyFaultsHurt == Spec => []FailuresNeedFault
<1>1. DrvInv => FailuresNeedFault
  BY DEF DrvInv
<1> QED BY <1>1, DrvInvariant, PTL

(* Every event is registered with the firmware or on its way back to it,   *)
(* also over a sleep.                                                      *)
THEOREM EventsReturn == Spec => []EventsRegistered
<1>1. DrvInv => EventsRegistered
  BY DEF DrvInv
<1> QED BY <1>1, DrvInvariant, PTL

(* The trace finds its buffers at any moment it is turned on or off, but   *)
(* for the windows named, and is copied whole.                             *)
THEOREM TraceIsSound == Spec => []TraceSound
<1>1. DrvInv => TraceSound
  BY DEF DrvInv
<1> QED BY <1>1, DrvInvariant, PTL

(* A failed probe and a remove() leave nothing behind.                     *)
THEOREM LeavesNothing == Spec => []UnboundClean
<1>1. ASSUME DrvInv, Alive, d = "gone"
      PROVE  /\ up = {} /\ lock = "free" /\ mgmt_chann = "NULL" /\ hw # "START"
             /\ async_events # "live" /\ ~fw_trace
             /\ (trace_res # {} => Unanswered \/ "hw_start" \in blame)
  <2>1. TypeOK /\ UpLadder /\ LockLadder /\ HwLadder /\ ChannLadder /\ EventLadder /\ TraceLadder
    BY <1>1 DEF DrvInv, DriverInv, TraceSound
  <2>2. up = {} /\ lock = "free" /\ hw # "START" /\ mgmt_chann = "NULL"
    BY <1>1, <2>1 DEF TypeOK, UpLadder, LockLadder, HwLadder, ChannLadder
  <2>3. async_events # "live"
    BY <1>1, <2>1 DEF EventLadder
  <2> QED BY <1>1, <2>1, <2>2, <2>3 DEF TraceLadder
<1>2. DrvInv => UnboundClean
  BY <1>1 DEF UnboundClean
<1> QED BY <1>2, DrvInvariant, PTL
============================================================================
