------------------------------ MODULE HwDevice ------------------------------
(***************************************************************************)
(* The device and the hardware contexts on it: starting and stopping the   *)
(* NPU (aie2_pci.c, aie2_smu.c, aie2_psp.c), its clock (aie2_pm.c), and    *)
(* starting and stopping a context on it (aie2_hwctx.c), which reserves    *)
(* columns (Solver), creates a firmware context (aie2_message.c), opens a  *)
(* mailbox channel and picks a clock level.                                *)
(*                                                                         *)
(* One operation runs at a time, under aie2_lock: "at" is the next step of *)
(* it.  Every step that talks to the firmware, the SMU or the PSP, or that *)
(* needs memory or an interrupt, may fail; the steps after a failure are   *)
(* the error ladder of the code.  Allocations of a few bytes do not fail.  *)
(***************************************************************************)
EXTENDS Solver

CONSTANTS
    Faults,       \* what may go wrong in this instance
    MaxFaults,    \* bound: how many kinds of fault one behaviour meets
    DpmChecked,   \* npu4_set_dpm(): an SMU error is returned; npu1 ignores it
    Modes         \* the power modes a client sets

Fault == {"msg_fail", "timeout", "smu_fail", "start_fail", "chan_fail"}
Mode == {"DEFAULT", "LOW", "MEDIUM", "HIGH", "TURBO"}

ASSUME DeviceAssumption ==
    /\ Faults \subseteq Fault /\ MaxFaults \in Nat
    /\ DpmChecked \in BOOLEAN /\ Modes \subseteq Mode

VARIABLES
    at, cur,          \* the next step, and the context or mode it is about
    phase,            \* "run", "pausing" (aie2_rq_pause_all()) or "off"
    dev_status,
    layers,           \* what aie2_hw_start() has brought up
    mgmt_chann,       \* "open" or "NULL"
    id,               \* id[c]: the firmware context of c, by its first column
    mbox_chann,       \* mbox_chann[c]: "NULL", "irq", "poll" or "freed"
    sched,            \* sched[c]: what of the DRM scheduler is initialised
    started,          \* the contexts whose aie2_hwctx_start() succeeded
    hwctx_cnt,
    dpm_level, dft_dpm_level, pw_mode, clk_gating,
    fw_ctx,           \* the contexts the firmware has: <<context, first column>>
    \* History
    blame,            \* the kinds of fault met so far
    unsure,           \* the clock was changed and the mode was not
    oops              \* a channel function was given no live channel

opVars == <<at, cur, phase>>
layerVars == <<dev_status, layers>>
ctxVars == <<id, mbox_chann, sched, started, hwctx_cnt>>
clkVars == <<dpm_level, dft_dpm_level, pw_mode, clk_gating, unsure>>
vars == <<solverVars, opVars, layerVars, mgmt_chann, ctxVars, clkVars, fw_ctx,
          blame, oops>>

Layers == {"pci", "smu", "psp", "mbox"}

Init ==
    /\ SolverInit
    /\ at = "idle" /\ cur = "none" /\ phase = "off"
    /\ dev_status = "UNINIT" /\ layers = {} /\ mgmt_chann = "NULL"
    /\ id = [c \in Ctx |-> None]
    /\ mbox_chann = [c \in Ctx |-> "NULL"] /\ sched = [c \in Ctx |-> {}]
    /\ started = {} /\ hwctx_cnt = 0
    /\ dpm_level = 0 /\ dft_dpm_level = 0 /\ pw_mode = "DEFAULT"
    /\ clk_gating = FALSE
    /\ fw_ctx = {} /\ blame = {} /\ unsure = FALSE /\ oops = FALSE

Met(f) ==
    /\ f \in Faults /\ Cardinality(blame \cup {f}) <= MaxFaults
    /\ blame' = blame \cup {f}

Goto(l) == at' = l /\ UNCHANGED <<cur, phase>>
-----------------------------------------------------------------------------
(* The firmware and the clock.                                             *)

\* aie2_send_mgmt_msg_wait(): a timeout destroys the management channel, and
\* nothing but a restart of the device brings it back.
mgmt_msg(r) ==
    \/ r = "ok" /\ mgmt_chann = "open" /\ UNCHANGED <<mgmt_chann, blame>>
    \/ r = "fail" /\ mgmt_chann = "open" /\ Met("msg_fail") /\ UNCHANGED mgmt_chann
    \/ r = "time" /\ mgmt_chann = "open" /\ Met("timeout") /\ mgmt_chann' = "NULL"
    \/ r = "nodev" /\ mgmt_chann = "NULL" /\ UNCHANGED <<mgmt_chann, blame>>

Results == {"ok", "fail", "time", "nodev"}

\* hw_ops.set_dpm(): the level is recorded once the SMU has taken it.
set_dpm(l, r) ==
    \/ /\ r = "ok" /\ ("smu" \in layers \/ ~DpmChecked)
       /\ dpm_level' = l /\ UNCHANGED blame
    \/ /\ r = "fail" /\ DpmChecked /\ UNCHANGED dpm_level
       /\ IF "smu" \in layers THEN Met("smu_fail") ELSE UNCHANGED blame

mode_level(m) ==
    CASE m \in {"TURBO", "HIGH"} -> MaxLevel
      [] m = "DEFAULT" -> dft_dpm_level
      [] m = "MEDIUM" -> IF MaxLevel < 5 THEN MaxLevel ELSE 5
      [] m = "LOW" -> 0
-----------------------------------------------------------------------------
(* aie2_hw_start() and aie2_hw_stop().                                     *)

\* aie2_hw_resume(), and the start in aie2_init().
HwStart ==
    /\ at = "idle" /\ phase = "off"
    /\ at' = IF dev_status = "START" THEN "run_all" ELSE "pci"
    /\ UNCHANGED <<solverVars, cur, phase, layerVars, mgmt_chann, ctxVars,
                   clkVars, fw_ctx, blame, oops>>

\* aie2_rq_run_all()
RunAll ==
    /\ at = "run_all" /\ at' = "idle" /\ phase' = "run"
    /\ UNCHANGED <<solverVars, cur, layerVars, mgmt_chann, ctxVars, clkVars,
                   fw_ctx, blame, oops>>

\* A PSP that does not start leaves the SMU on.
start_ladder_short ==
    [pci |-> "off", smu |-> "f_pci", psp |-> "f_pci", info |-> "f_psp", mbox |-> "f_psp"]
\* The labels aie2_hw_start() goes to.
start_ladder ==
    [pci |-> "off", smu |-> "f_pci", psp |-> "f_smu", info |-> "f_psp", mbox |-> "f_psp"]

\* A step of aie2_hw_start(): something more is up, or what is up goes down
\* again from the label on.
BringUp(l, up, next) ==
    /\ at = l
    /\ \/ layers' = layers \cup up /\ Goto(next) /\ UNCHANGED blame
       \/ Met("start_fail") /\ Goto(start_ladder[l]) /\ UNCHANGED layers
    /\ UNCHANGED <<solverVars, dev_status, mgmt_chann, ctxVars, clkVars,
                   fw_ctx, oops>>

PciEnable == BringUp("pci", {"pci"}, "smu")
SmuStart == BringUp("smu", {"smu"}, "psp")
\* Validates the firmware image, then starts it.
PspStart == BringUp("psp", {"psp"}, "info")
\* The firmware is not alive in time, or speaks another protocol.
MgmtChannInfo == BringUp("info", {}, "mbox")
MboxCreate == BringUp("mbox", {"mbox"}, "chan")

\* xdna_mailbox_create_channel() for the management channel.
StartChan ==
    /\ at = "chan"
    /\ \/ mgmt_chann' = "open" /\ Goto("pm") /\ UNCHANGED blame
       \/ Met("start_fail") /\ Goto("f_mbox") /\ UNCHANGED mgmt_chann
    /\ UNCHANGED <<solverVars, layerVars, ctxVars, clkVars, fw_ctx, oops>>

\* aie2_pm_init(): a fresh device runs at its highest level, a resumed one at
\* the level that was recorded last.
StartPm ==
    /\ at = "pm"
    /\ \E r \in {"ok", "fail"} :
         /\ set_dpm(IF dev_status = "UNINIT" THEN MaxLevel ELSE dpm_level, r)
         /\ Goto(IF r = "ok" THEN "gate" ELSE "f_chan")
    /\ UNCHANGED <<solverVars, layerVars, mgmt_chann, ctxVars, dft_dpm_level,
                   pw_mode, clk_gating, unsure, fw_ctx, oops>>

\* aie2_pm_set_clk_gating() in it.
StartGate ==
    /\ at = "gate"
    /\ \E r \in Results :
         /\ mgmt_msg(r)
         /\ Goto(IF r = "ok" THEN "version" ELSE "f_chan")
         /\ IF r = "ok" /\ dev_status = "UNINIT"
            THEN /\ clk_gating' = TRUE /\ pw_mode' = "DEFAULT"
                 /\ dft_dpm_level' = MaxLevel
            ELSE UNCHANGED <<clk_gating, pw_mode, dft_dpm_level>>
    /\ UNCHANGED <<solverVars, layerVars, ctxVars, dpm_level, unsure, fw_ctx,
                   oops>>

\* The first message of aie2_mgmt_fw_init() that fails ends it.
InitMsg(l, next) ==
    /\ at = l
    /\ \E r \in Results : /\ mgmt_msg(r)
                          /\ Goto(IF r = "ok" THEN next ELSE "f_chan")
    /\ UNCHANGED <<solverVars, layerVars, ctxVars, clkVars, fw_ctx, oops>>

\* Not asked when the firmware has published it with the channel.
SkipProtocolVersion ==
    /\ at = "version" /\ Goto("rt_cfg")
    /\ UNCHANGED <<solverVars, layerVars, mgmt_chann, ctxVars, clkVars,
                   fw_ctx, blame, oops>>
CheckProtocolVersion == InitMsg("version", "rt_cfg")
RuntimeCfg == InitMsg("rt_cfg", "pasid")
AssignMgmtPasid == InitMsg("pasid", "reset")
\* aie2_xdna_reset(): suspend and resume the firmware.
ResetSuspend == InitMsg("reset", "reset2")
ResetResume == InitMsg("reset2", "events")

\* The asynchronous events are sent, and not waited for, once there are any,
\* that is from the second start on.
AsyncEventsSend ==
    /\ at = "events"
    /\ \/ dev_status' = "START" /\ Goto("run_all") /\ UNCHANGED blame
       \/ /\ dev_status # "UNINIT" /\ Met("msg_fail") /\ Goto("f_chan")
          /\ UNCHANGED dev_status
    /\ UNCHANGED <<solverVars, layers, mgmt_chann, ctxVars, clkVars, fw_ctx,
                   oops>>

\* aie2_hw_suspend(): the run queue is paused, which stops every context.
Suspend ==
    /\ at = "idle" /\ phase = "run" /\ phase' = "pausing"
    /\ UNCHANGED <<solverVars, at, cur, layerVars, mgmt_chann, ctxVars,
                   clkVars, fw_ctx, blame, oops>>

\* aie2_rq_pause_all() has returned.
paused == started = {}

\* aie2_hw_stop() and aie2_mgmt_fw_fini(); a failed suspend message is only
\* logged.
HwStop ==
    /\ at = "idle" /\ phase = "pausing" /\ paused
    /\ phase' = "off" /\ UNCHANGED cur
    /\ IF dev_status = "START"
       THEN at' = "f_chan" /\ \E r \in Results : mgmt_msg(r)
       ELSE UNCHANGED <<at, mgmt_chann, blame>>
    /\ UNCHANGED <<solverVars, layerVars, ctxVars, clkVars, fw_ctx, oops>>

\* xdna_mailbox_stop_channel() of a channel that may be NULL, which nothing
\* checks.
UndoChan ==
    /\ at = "f_chan"
    /\ IF mgmt_chann = "NULL" THEN oops' = TRUE /\ Goto("dead")
                              ELSE UNCHANGED oops /\ Goto("f_mbox")
    /\ mgmt_chann' = "NULL"
    /\ UNCHANGED <<solverVars, layerVars, ctxVars, clkVars, fw_ctx, blame>>

UndoMbox ==
    /\ at = "f_mbox" /\ layers' = layers \ {"mbox"} /\ Goto("f_psp")
    /\ UNCHANGED <<solverVars, dev_status, mgmt_chann, ctxVars, clkVars,
                   fw_ctx, blame, oops>>

\* aie2_psp_stop(): the firmware is gone, and its contexts with it.
UndoPsp ==
    /\ at = "f_psp" /\ layers' = layers \ {"psp"} /\ Goto("f_smu")
    /\ fw_ctx' = {}
    /\ UNCHANGED <<solverVars, dev_status, mgmt_chann, ctxVars, clkVars,
                   blame, oops>>

\* aie2_smu_stop(): the clock goes to level 0, which set_dpm() records.
UndoSmu ==
    /\ at = "f_smu" /\ Goto("f_pci")
    /\ \E r \in {"ok", "fail"} : set_dpm(0, r)
    /\ layers' = layers \ {"smu"} /\ unsure' = TRUE
    /\ UNCHANGED <<solverVars, dev_status, mgmt_chann, ctxVars, dft_dpm_level,
                   pw_mode, clk_gating, fw_ctx, oops>>

\* A stop ends by saying so; a failed start never said it had started.
UndoPci ==
    /\ at = "f_pci" /\ layers' = layers \ {"pci"} /\ Goto("off")
    /\ dev_status' = IF dev_status = "START" THEN "INIT" ELSE dev_status
    /\ UNCHANGED <<solverVars, mgmt_chann, ctxVars, clkVars, fw_ctx, blame,
                   oops>>

\* The operation returns and drops aie2_lock.
Off ==
    /\ at = "off" /\ at' = "idle" /\ cur' = "none"
    /\ UNCHANGED <<solverVars, phase, layerVars, mgmt_chann, ctxVars, clkVars,
                   fw_ctx, blame, oops>>
-----------------------------------------------------------------------------
(* aie2_hwctx_start(), called by aie2_ctx_connect().                       *)

HasId(c) == id[c] # None

HwctxStart(c) ==
    /\ at = "idle" /\ phase = "run" /\ c \notin started
    /\ at' = "sched" /\ cur' = c /\ UNCHANGED phase
    /\ UNCHANGED <<solverVars, layerVars, mgmt_chann, ctxVars, clkVars,
                   fw_ctx, blame, oops>>

\* drm_sched_init() and drm_sched_entity_init()
SchedInit ==
    /\ at \in {"sched", "entity"}
    /\ \/ /\ sched' = [sched EXCEPT ![cur] = @ \cup {at}]
          /\ Goto(IF at = "sched" THEN "entity" ELSE "alloc")
          /\ UNCHANGED blame
       \/ /\ Met("start_fail") /\ Goto(IF at = "sched" THEN "off" ELSE "x_sched")
          /\ UNCHANGED sched
    /\ UNCHANGED <<solverVars, layerVars, mgmt_chann, id,
                   mbox_chann, started, hwctx_cnt, clkVars, fw_ctx, oops>>

\* xrs_allocate_resource() up to the load.
Alloc ==
    /\ at = "alloc"
    /\ IF sanity_check(cur) /\ CanAllocate(cur)
       THEN create_solver_node(cur) /\ Goto("create")
       ELSE UNCHANGED solverVars /\ Goto("x_entity")
    /\ UNCHANGED <<layerVars, mgmt_chann, ctxVars, clkVars, fw_ctx, blame,
                   oops>>

\* A load that failed is unloaded.
create_failed_unload == "u_stop"
\* "goto free_node" of xrs_allocate_resource()
create_failed == "x_node"

\* aie2_create_context() in aie2_xrs_load_hwctx().  One that times out may
\* have been created all the same.  With forced preemption a second message
\* follows, whose failure is only logged.
CreateContext ==
    /\ at = "create"
    /\ \E r \in Results :
         /\ mgmt_msg(r)
         /\ id' = [id EXCEPT ![cur] = IF r = "ok" THEN pt_node[cur] ELSE @]
         /\ \/ r \in {"ok", "time"} /\ fw_ctx' = fw_ctx \cup {<<cur, pt_node[cur]>>}
            \/ r # "ok" /\ UNCHANGED fw_ctx
         /\ IF r = "ok" THEN Goto("preempt") \/ Goto("channel")
                        ELSE Goto(create_failed)
    /\ UNCHANGED <<solverVars, layerVars, mbox_chann, sched, started,
                   hwctx_cnt, clkVars, oops>>

ForcePreempt ==
    /\ at = "preempt" /\ Goto("channel")
    /\ \E r \in Results : mgmt_msg(r)
    /\ UNCHANGED <<solverVars, layerVars, ctxVars, clkVars, fw_ctx, oops>>

\* xdna_mailbox_create_channel() for the context, polled in turbo mode.
CreateChannel ==
    /\ at = "channel"
    /\ \/ /\ mbox_chann' = [mbox_chann EXCEPT
                ![cur] = IF pw_mode = "TURBO" THEN "poll" ELSE "irq"]
          /\ Goto("dpm") /\ UNCHANGED blame
       \/ Met("chan_fail") /\ Goto("no_chann") /\ UNCHANGED mbox_chann
    /\ UNCHANGED <<solverVars, layerVars, mgmt_chann, id, sched,
                   started, hwctx_cnt, clkVars, fw_ctx, oops>>

\* aie2_destroy_context(): the id is forgotten, destroyed or not.
forget_id(c, r) == None

destroy_context(c, r) ==
    /\ IF HasId(c)
       THEN mgmt_msg(r) /\ fw_ctx' = (IF r = "ok" THEN fw_ctx \ {<<c, id[c]>>}
                                                  ELSE fw_ctx)
       ELSE r = "ok" /\ UNCHANGED <<mgmt_chann, blame, fw_ctx>>
    /\ id' = [id EXCEPT ![c] = forget_id(c, r)]

\* Nothing is destroyed when there is no channel.
NoChannel_leave ==
    /\ at = "no_chann" /\ Goto("dpm")
    /\ id' = [id EXCEPT ![cur] = None]
    /\ UNCHANGED <<solverVars, layerVars, mgmt_chann, mbox_chann, sched,
                   started, hwctx_cnt, clkVars, fw_ctx, blame, oops>>
\* The "failed" label of aie2_xrs_load_hwctx(), which returns 0.
NoChannel ==
    /\ at = "no_chann" /\ Goto("dpm")
    /\ \E r \in Results : destroy_context(cur, r)
    /\ UNCHANGED <<solverVars, layerVars, mbox_chann, sched,
                   started, hwctx_cnt, clkVars, oops>>

no_dpm_change(l) == pw_mode # "DEFAULT" \/ dpm_level = l

\* set_dpm_level() and aie2_xrs_set_dft_dpm_level().  A failure removes the
\* node and does not unload: the firmware context and the channel stay.
SetDpmLevel ==
    /\ at = "dpm" /\ dft_dpm_level' = dpm_level_for(cur)
    /\ \E r \in {"ok", "fail"} :
         /\ IF no_dpm_change(dpm_level_for(cur))
            THEN r = "ok" /\ UNCHANGED <<dpm_level, blame>>
            ELSE set_dpm(dpm_level_for(cur), r)
         /\ IF r = "ok"
            THEN record_dpm_level(cur, dpm_level_for(cur)) /\ Goto("map")
            ELSE UNCHANGED solverVars /\ Goto("x_node")
         /\ unsure' = (unsure /\ ~(r = "ok" /\ pw_mode = "DEFAULT"))
    /\ UNCHANGED <<layerVars, mgmt_chann, ctxVars, pw_mode, clk_gating, fw_ctx,
                   oops>>

\* aie2_map_host_buf(); the firmware knows no context -1.
MapHostBuf ==
    /\ at = "map"
    /\ \E r \in Results :
         /\ \/ mgmt_msg(r) /\ (r = "ok" => HasId(cur))
            \/ r = "fail" /\ ~HasId(cur) /\ UNCHANGED <<mgmt_chann, blame>>
         /\ IF r = "ok"
            THEN /\ hwctx_cnt' = hwctx_cnt + 1 /\ started' = started \cup {cur}
                 /\ Goto("config")
            ELSE UNCHANGED <<hwctx_cnt, started>> /\ Goto("u_stop")
    /\ UNCHANGED <<solverVars, layerVars, id, mbox_chann, sched,
                   clkVars, fw_ctx, oops>>

\* aie2_config_cu() on the context's channel.  A refusal by the firmware is
\* returned as success; a timeout destroys the context and fails.
ConfigCu ==
    /\ at = "config"
    /\ \/ /\ Goto("off") /\ UNCHANGED <<mgmt_chann, id, fw_ctx, blame>>
       \/ /\ "timeout" \in Faults /\ Goto("stop_entity")
          /\ \E r \in Results : destroy_context(cur, r)
    /\ UNCHANGED <<solverVars, layerVars, mbox_chann, sched,
                   started, hwctx_cnt, clkVars, oops>>
-----------------------------------------------------------------------------
(* aie2_hwctx_stop(), and the ladder of aie2_hwctx_start().                *)

HwctxStop(c) ==
    /\ at = "idle" /\ c \in started
    /\ at' = "stop_entity" /\ cur' = c /\ UNCHANGED phase
    /\ UNCHANGED <<solverVars, layerVars, mgmt_chann, ctxVars, clkVars,
                   fw_ctx, blame, oops>>

\* drm_sched_entity_destroy(): first when a context stops, last but one when
\* its start failed.
EntityDestroy ==
    /\ at \in {"stop_entity", "x_entity"}
    /\ sched' = [sched EXCEPT ![cur] = @ \ {"entity"}]
    /\ Goto(IF at = "stop_entity" THEN "u_stop" ELSE "x_sched")
    /\ UNCHANGED <<solverVars, layerVars, mgmt_chann, id,
                   mbox_chann, started, hwctx_cnt, clkVars, fw_ctx, blame, oops>>

\* aie2_xrs_unload_hwctx(): xdna_mailbox_stop_channel() of whatever
\* mbox_chann holds.
UnloadStop ==
    /\ at = "u_stop"
    /\ IF mbox_chann[cur] \in {"NULL", "freed"}
       THEN oops' = TRUE /\ Goto("dead")
       ELSE UNCHANGED oops /\ Goto("u_destroy")
    /\ UNCHANGED <<solverVars, layerVars, mgmt_chann, ctxVars, clkVars,
                   fw_ctx, blame>>

UnloadDestroy ==
    /\ at = "u_destroy" /\ Goto("u_free")
    /\ \E r \in Results : destroy_context(cur, r)
    /\ UNCHANGED <<solverVars, layerVars, mbox_chann, sched,
                   started, hwctx_cnt, clkVars, oops>>

\* xdna_mailbox_destroy_channel(): the pointer is left as it is.
UnloadFree ==
    /\ at = "u_free" /\ Goto("u_node")
    /\ mbox_chann' = [mbox_chann EXCEPT ![cur] = "freed"]
    /\ UNCHANGED <<solverVars, layerVars, mgmt_chann, id, sched,
                   started, hwctx_cnt, clkVars, fw_ctx, blame, oops>>

\* The node goes: in xrs_release_resource() and at "free_node" of
\* xrs_allocate_resource().
FreeNode ==
    /\ at \in {"u_node", "x_node"} /\ remove_solver_node(cur)
    /\ Goto(IF cur \in started THEN "x_sched" ELSE "x_entity")
    /\ UNCHANGED <<layerVars, mgmt_chann, ctxVars, clkVars, fw_ctx, blame,
                   oops>>

\* ndev->hwctx_cnt, once a context that ran has stopped.
still_counted(c) == IF c \in started THEN hwctx_cnt - 1 ELSE hwctx_cnt

\* drm_sched_fini()
SchedFini ==
    /\ at = "x_sched" /\ Goto("off")
    /\ sched' = [sched EXCEPT ![cur] = {}]
    /\ started' = started \ {cur}
    /\ hwctx_cnt' = still_counted(cur)
    /\ UNCHANGED <<solverVars, layerVars, mgmt_chann, id,
                   mbox_chann, clkVars, fw_ctx, blame, oops>>
-----------------------------------------------------------------------------
\* Not turbo while a context is active.
mode_allowed(m) == m # pw_mode /\ (m = "TURBO" => hwctx_cnt = 0)

\* aie2_pm_set_mode()
SetMode(m) ==
    /\ at = "idle" /\ mode_allowed(m)
    /\ \E r \in {"ok", "fail"} :
         /\ set_dpm(mode_level(m), r)
         /\ at' = (IF r = "ok" THEN "mode_gate" ELSE "off")
         /\ unsure' = (unsure \/ r = "ok")
    /\ cur' = m
    /\ UNCHANGED <<solverVars, phase, layerVars, mgmt_chann, ctxVars,
                   dft_dpm_level, pw_mode, clk_gating, fw_ctx, oops>>

\* ... and only when the clock gating was set is the mode recorded.
SetModeGate ==
    /\ at = "mode_gate" /\ Goto("off")
    /\ \E r \in Results :
         /\ mgmt_msg(r)
         /\ IF r = "ok"
            THEN /\ clk_gating' = (cur # "TURBO") /\ pw_mode' = cur
                 /\ unsure' = FALSE
            ELSE UNCHANGED <<clk_gating, pw_mode, unsure>>
    /\ UNCHANGED <<solverVars, layerVars, ctxVars, dpm_level, dft_dpm_level,
                   fw_ctx, oops>>
-----------------------------------------------------------------------------
\* A kernel that has dereferenced a dead pointer stays as it is.
Dead == at = "dead" /\ UNCHANGED vars

Next ==
    \/ HwStart \/ RunAll \/ PciEnable \/ SmuStart \/ PspStart \/ MgmtChannInfo
    \/ MboxCreate \/ StartChan \/ StartPm \/ StartGate
    \/ SkipProtocolVersion \/ CheckProtocolVersion \/ RuntimeCfg
    \/ AssignMgmtPasid \/ ResetSuspend \/ ResetResume \/ AsyncEventsSend
    \/ Suspend \/ HwStop \/ UndoChan \/ UndoMbox \/ UndoPsp
    \/ UndoSmu \/ UndoPci \/ Off
    \/ SchedInit \/ Alloc \/ CreateContext \/ ForcePreempt \/ CreateChannel
    \/ NoChannel \/ SetDpmLevel \/ MapHostBuf \/ ConfigCu
    \/ EntityDestroy \/ UnloadStop \/ UnloadDestroy \/ UnloadFree \/ FreeNode
    \/ SchedFini \/ SetModeGate \/ Dead
    \/ \E c \in Ctx : HwctxStart(c) \/ HwctxStop(c)
    \/ \E m \in Modes : SetMode(m)

Spec == Init /\ [][Next]_vars
-----------------------------------------------------------------------------
(* Properties *)

StartSteps == {"pci", "smu", "psp", "info", "mbox", "chan", "pm", "gate", "version",
               "rt_cfg", "pasid", "reset", "reset2", "events"}
StopSteps == {"f_chan", "f_mbox", "f_psp", "f_smu", "f_pci"}
CtxSteps == {"sched", "entity", "alloc", "create", "preempt", "channel", "no_chann",
             "dpm", "map", "config", "stop_entity", "u_stop", "u_destroy", "u_free",
             "u_node", "x_node", "x_entity", "x_sched"}
RestSteps == {"idle", "off", "mode_gate"}

\* Type invariant.
TypeOK ==
    /\ SolverTypeOK
    /\ at \in StartSteps \cup StopSteps \cup CtxSteps \cup RestSteps \cup {"run_all", "dead"}
    /\ at \in CtxSteps => cur \in Ctx
    /\ at = "mode_gate" => cur \in Mode
    /\ phase \in {"run", "pausing", "off"} /\ cur \in Ctx \cup Mode \cup {"none"}
    /\ dev_status \in {"UNINIT", "INIT", "START"} /\ layers \subseteq Layers
    /\ mgmt_chann \in {"open", "NULL"} /\ id \in [Ctx -> Col \cup {None}]
    /\ mbox_chann \in [Ctx -> {"NULL", "irq", "poll", "freed"}]
    /\ sched \in [Ctx -> SUBSET {"sched", "entity"}] /\ started \subseteq Ctx
    /\ hwctx_cnt \in Nat /\ dpm_level \in 0..MaxLevel /\ dft_dpm_level \in 0..MaxLevel
    /\ pw_mode \in Mode /\ clk_gating \in BOOLEAN /\ fw_ctx \subseteq Ctx \X Col
    /\ blame \subseteq Faults /\ unsure \in BOOLEAN /\ oops \in BOOLEAN

\* What aie2_hw_start() has brought up at each of its steps, and at each label
\* of its error ladder, which is also the way down of aie2_hw_stop().
DeviceLadder ==
    /\ at = "pci" => layers = {}
    /\ at \in {"smu", "f_pci"} => layers = {"pci"}
    /\ at \in {"psp", "f_smu"} => layers = {"pci", "smu"}
    /\ at \in {"info", "mbox", "f_psp"} => layers = {"pci", "smu", "psp"}
    /\ at \in {"chan", "pm", "gate", "version", "rt_cfg", "pasid", "reset", "reset2",
               "events", "run_all", "f_chan", "f_mbox"} => layers = Layers
    /\ at \in CtxSteps \cup RestSteps => layers = IF dev_status = "START" THEN Layers ELSE {}

\* The run queue runs on a device that is up, and contexts only while it runs
\* or is being paused.
PhaseLadder ==
    /\ phase # "off" => dev_status = "START"
    /\ started # {} \/ at \in CtxSteps => phase # "off"
    /\ at \in StartSteps \cup StopSteps \cup {"run_all"} => phase = "off"
    /\ at \in StartSteps \/ (at \in RestSteps /\ phase = "off") => dev_status # "START"
    /\ at = "run_all" => dev_status = "START"

\* The management channel is open from its creation on; only a message that
\* timed out takes it away.
MgmtLadder ==
    /\ at \in {"pci", "smu", "psp", "info", "mbox", "chan"} \cup (StopSteps \ {"f_chan"})
           => mgmt_chann = "NULL"
    /\ at \in {"pm", "gate", "version", "rt_cfg", "pasid", "reset", "reset2", "events",
               "run_all"} => mgmt_chann = "open"
    /\ at \in CtxSteps \cup RestSteps /\ dev_status # "START" => mgmt_chann = "NULL"
    /\ at = "f_chan" \/ phase # "off" => mgmt_chann = "open" \/ "timeout" \in blame

\* A context has a solver node and a scheduler, or neither, but for the one
\* that is starting or stopping, whose step tells what it has.
CtxLadder ==
    /\ hwctx_cnt = Cardinality(started)
    /\ \A c \in Ctx : ~(at \in CtxSteps /\ c = cur) /\ at # "dead" =>
         /\ c \in started <=> c \in node_list
         /\ sched[c] = IF c \in started THEN {"sched", "entity"} ELSE {}
    /\ at \in {"sched", "entity", "alloc", "x_entity", "x_sched"} => cur \notin node_list
    /\ at \in CtxSteps \ {"sched", "entity", "alloc", "x_entity", "x_sched"} => cur \in node_list
    /\ at \in {"config", "stop_entity"} => cur \in started
    /\ at \in CtxSteps \ {"config", "stop_entity", "u_stop", "u_destroy", "u_free",
                          "u_node", "x_sched"} => cur \notin started
    /\ at = "sched" => sched[cur] = {}
    /\ at \in {"entity", "x_sched"} => sched[cur] = {"sched"}
    /\ at \in {"u_stop", "u_destroy", "u_free", "u_node"} =>
         sched[cur] = IF cur \in started THEN {"sched"} ELSE {"sched", "entity"}
    /\ at \in CtxSteps \ {"sched", "entity", "x_sched", "u_stop", "u_destroy", "u_free",
                          "u_node"} => sched[cur] = {"sched", "entity"}

\* However starts fail and contexts go, the columns are leased as promised.
Lease == INSTANCE Leases WITH
    lease <- [c \in Ctx |-> IF c \in node_list THEN Cols(pt_node[c], NumCol[c])
                                               ELSE {}]
ColumnsLeased == Lease!Spec

\* A context the driver has an id for sits on the columns the solver holds
\* for it; only a clock that could not be set (aie2_solver.c, after a
\* successful load) breaks that.
IdOnLeasedColumns ==
    \A c \in Ctx : HasId(c) /\ "smu_fail" \notin blame =>
        c \in node_list /\ id[c] = pt_node[c]

\* The context that starts has no id before it is created and none once it is
\* destroyed.
IdLadder ==
    at \in {"sched", "entity", "alloc", "create", "x_node", "u_free", "u_node"}
        => "smu_fail" \in blame \/ ~HasId(cur)

\* The firmware has no context nobody will destroy, unless a message failed
\* or timed out or the clock could not be set: no other failure of a start
\* forgets what it created, and a restart of the device clears the rest.
FirmwareContextsOwned ==
    /\ blame \cap {"msg_fail", "timeout", "smu_fail"} = {} =>
           \A p \in fw_ctx : id[p[1]] = p[2]
    /\ fw_ctx # {} => "psp" \in layers

\* A channel function is given a channel that is not open only after a
\* management message timed out (aie2_hw_stop(), and the ladder of
\* aie2_hw_start(), stop a NULL channel) or a context got no channel (its
\* unload stops a stale one).
OopsNeedsFault == oops => blame \cap {"timeout", "chan_fail"} # {}

\* In the default mode the clock meets the request of every running session,
\* whatever the others asked for and whichever of them have gone, unless a
\* change of mode failed half-way.
SessionsFit ==
    at = "idle" /\ dev_status = "START" /\ pw_mode = "DEFAULT" /\ ~unsure
        => \A c \in started : qos_meet(Qos[c], dpm_level)

\* In every other mode the clock is the mode's, until the device is suspended
\* (aie2_smu_stop() overwrites the level that aie2_pm_init() restores) or a
\* change of mode fails half-way.
ModeLevelKept ==
    at = "idle" /\ dev_status = "START" /\ pw_mode # "DEFAULT" /\ ~unsure
        => dpm_level = mode_level(pw_mode)

\* Why: no session asks for more than the default level, nor, in the default
\* mode, for more than the level that is set, and a session that got through
\* set_dpm_level() has a level it can run at.  A context that is loaded passed
\* sanity_check(), which only looks at the highest level.
ClockLadder ==
    /\ \A d \in node_list : node_dpm_level[d] <= dft_dpm_level
    /\ pw_mode = "DEFAULT" /\ ~unsure => \A d \in node_list : node_dpm_level[d] <= dpm_level
    /\ at = "mode_gate" /\ cur = "DEFAULT" => dpm_level = dft_dpm_level
    /\ \A c \in started : qos_meet(Qos[c], node_dpm_level[c])
    /\ at = "map" => qos_meet(Qos[cur], node_dpm_level[cur])
    /\ at \in {"create", "preempt", "channel", "no_chann", "dpm"} => sanity_check(cur)

\* A running context has an open channel, which polld serves in turbo mode,
\* until it is unloaded.
Reachable == IF pw_mode = "TURBO" THEN {"poll"} ELSE {"irq", "poll"}
StartedReachable ==
    \A c \in started : (c = cur /\ at \in {"u_node", "x_sched"}) \/ mbox_chann[c] \in Reachable

\* A context without a channel has no firmware context either, and will not
\* run; turbo mode waits until no context does.
ChannelLadder ==
    /\ at \in {"dpm", "map"} => ~HasId(cur) \/ mbox_chann[cur] \in Reachable
    /\ at \in {"no_chann", "dpm", "map", "u_stop"} =>
         mbox_chann[cur] \in {"irq", "poll"} \/ "chan_fail" \in blame
    /\ at = "mode_gate" /\ cur = "TURBO" => started = {}

\* Between operations the device is all up or all down, a context has all of
\* its resources or none, and hwctx_cnt counts the contexts that run.
LaddersUndo ==
    at = "idle" =>
        /\ layers = IF dev_status = "START" THEN Layers ELSE {}
        /\ dev_status # "START" => mgmt_chann = "NULL"
        /\ started = node_list /\ hwctx_cnt = Cardinality(started)
        /\ \A c \in Ctx : sched[c] = IF c \in started THEN {"sched", "entity"}
                                                      ELSE {}

\* No channel of a running context outlives the mailbox it is on: the device
\* goes down only after every context has been stopped.
ChannelsOnMailbox == started # {} => "mbox" \in layers

\* The solver's lists, reference counts and bitmap agree with each other while
\* contexts start, fail and stop.
DeviceInv == TypeOK /\ SolverInv /\ DeviceLadder /\ PhaseLadder /\ MgmtLadder /\ CtxLadder

\* Firmware, driver and solver agree on which context sits on which columns.
FirmwareMatchesLeases == IdOnLeasedColumns /\ IdLadder /\ FirmwareContextsOwned

\* A running context can be talked to, over a mailbox that is there, and no
\* path uses a channel that is closed unless a message or a channel failed.
ChannelsSound == OopsNeedsFault /\ StartedReachable /\ ChannelLadder /\ ChannelsOnMailbox

\* The clock is what the sessions, or else the mode, ask for, whatever order
\* they came and went in.
ClockFits == SessionsFit /\ ModeLevelKept /\ ClockLadder
=============================================================================
