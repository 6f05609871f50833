------------------------------- MODULE Driver -------------------------------
(***************************************************************************)
(* The life of the bound driver: probe() and remove() (amdxdna_pci_drv.c), *)
(* aie2_init() and aie2_fini() with their error ladders, suspend and       *)
(* resume (aie2_pci.c), the asynchronous error events (aie2_error.c), the  *)
(* event trace (aie2_event_trace.c) and its debugfs switch, and clients    *)
(* that open, flush and close the device (amdxdna_drm.c).                  *)
(*                                                                         *)
(* aie2_hw_start() and aie2_hw_stop() are single steps here; HwDevice has  *)
(* their inside.  What happens under aie2_lock in one go is one step that  *)
(* finds the lock free; "lock" is kept where a thread waits or leaves the  *)
(* function with it.                                                       *)
(***************************************************************************)
EXTENDS Integers, SequencesExt

CONSTANTS
    Event,        \* the slots of the asynchronous events, one per column
    Client,       \* open files
    RB,           \* LOG_RB_SIZE, in log entries
    Faults,       \* the steps that may fail in this instance
    MaxFaults     \* bound: how many different ones fail in a behaviour

\* The probe steps that can fail, a management message that is refused or
\* times out, an interrupt that cannot be requested, a malformed report.
Fault == {"res", "hw_start", "rq", "xrs", "events", "send", "trace",
          "sysfs", "register", "refused", "timeout", "irq", "malformed"}

NoEvent == "none"

ASSUME DriverAssumption == /\ Faults \subseteq Fault /\ MaxFaults \in Nat
                           /\ RB \in Nat \ {0} /\ IsFiniteSet(Client)
                           /\ NoEvent \notin Event

VARIABLES
    d,            \* the next step of the device's probe, remove or sleep
    lock,         \* aie2_lock: "free", "dev" or "dbg"
    up,           \* what probe() has set up
    hw, mgmt_chann,
    \* Asynchronous events
    async_events, \* "none", "live" or "freed"
    armed,        \* armed[e]: the registrations of e the firmware holds
    status,       \* e->resp.status: "MAX", or a "good" or "bad" report
    queued,       \* the events whose work is queued
    worker,       \* the event aie2_error_worker() waits for aie2_lock with
    \* Event trace
    trace_req, enabled,
    trace_res,    \* what of "buf", "wq", "irq", "log" exists
    trace_op,     \* the next step of a start or stop
    fw_trace,     \* the firmware writes trace
    trace_work,   \* deffered_logging_work() is queued
    \* Clients
    client, client_list,
    ctxs,         \* ctxs[c]: contexts made before ("early") or after ("late") flush
    orphans,      \* contexts whose client is gone
    rpm_usage,
    \* History
    blame,        \* the faults that have happened
    slept,        \* the device has been suspended
    oops          \* what the kernel has tripped over

evVars == <<async_events, armed, status, queued, worker>>
trVars == <<trace_req, enabled, trace_res, trace_op, fw_trace, trace_work>>
clVars == <<client, client_list, ctxs, orphans, rpm_usage>>
hwVars == <<hw, mgmt_chann>>
vars == <<d, lock, up, hwVars, evVars, trVars, clVars, blame, slept, oops>>

Init ==
    /\ d = "unbound" /\ lock = "free" /\ up = {}
    /\ hw = "UNINIT" /\ mgmt_chann = "NULL"
    /\ async_events = "none" /\ armed = [e \in Event |-> 0]
    /\ status = [e \in Event |-> "MAX"] /\ queued = {} /\ worker = NoEvent
    /\ trace_req = "none" /\ enabled = FALSE /\ trace_res = {}
    /\ trace_op = "none" /\ fw_trace = FALSE /\ trace_work = FALSE
    /\ client = [c \in Client |-> "none"] /\ client_list = <<>>
    /\ ctxs = [c \in Client |-> {}] /\ orphans = {} /\ rpm_usage = 0
    /\ blame = {} /\ slept = FALSE /\ oops = "no"

Fails(f) == /\ f \in Faults /\ Cardinality(blame \cup {f}) <= MaxFaults
            /\ blame' = blame \cup {f}
Works == UNCHANGED blame

\* aie2_send_mgmt_msg_wait(): what becomes of the message.
Results == {"ok", "fail", "time", "nodev"}
Answer(r) == CASE r = "ok" -> mgmt_chann = "open" /\ Works
               [] r = "fail" -> mgmt_chann = "open" /\ Fails("refused")
               [] r = "time" -> mgmt_chann = "open" /\ Fails("timeout")
               [] r = "nodev" -> mgmt_chann = "NULL" /\ Works

\* xdna_mailbox_release_channel() calls every outstanding message back with
\* no data: aie2_error_async_cb() queues the work and leaves the status.
ReleaseChannel ==
    /\ mgmt_chann' = "NULL"
    /\ IF async_events = "freed" /\ \E e \in Event : armed[e] > 0
       THEN oops' = "freed_event" ELSE UNCHANGED oops
    /\ queued' = queued \cup {e \in Event : armed[e] > 0}
    /\ armed' = [e \in Event |-> 0]
    /\ UNCHANGED <<async_events, status, worker>>

\* A message under aie2_lock: a timeout tears the channel down.
MgmtMsg(r) ==
    /\ Answer(r)
    /\ IF r = "time" THEN ReleaseChannel ELSE UNCHANGED <<mgmt_chann, evVars, oops>>
-----------------------------------------------------------------------------
(* probe() and aie2_init().                                                *)

Alive == oops = "no"

\* The step that follows a step of the probe, and the label it goes to when
\* it fails.
step_order == [res |-> "hw_start", hw_start |-> "rq", rq |-> "query",
               query |-> "query_version", query_version |-> "query_metadata",
               query_metadata |-> "xrs", xrs |-> "events", events |-> "send",
               send |-> "requery", requery |-> "trace", trace |-> "sysfs",
               sysfs |-> "register", register |-> "bound"]
step_label ==
    [res |-> "l_wq", hw_start |-> "l_res", rq |-> "l_stop", query |-> "l_rq",
     xrs |-> "l_stop", events |-> "l_stop", send |-> "l_events",
     requery |-> "l_events", trace |-> "sysfs", sysfs |-> "f_trace",
     register |-> "l_tdr"]

Probe ==
    /\ d = "unbound" /\ d' = "res" /\ up' = {"wq"}
    /\ UNCHANGED <<lock, hwVars, evVars, trVars, clVars, blame, oops>>

\* A step that sets something up or fails.
SetUp(s, what) ==
    /\ d = s
    /\ \/ up' = up \cup what /\ d' = step_order[s] /\ Works
       \/ Fails(s) /\ d' = step_label[s] /\ UNCHANGED up

\* Firmware image, BARs, interrupt vectors, SVA and PSP; a failure inside
\* undoes what there is.
InitResources ==
    SetUp("res", {"res"})
    /\ UNCHANGED <<lock, hwVars, evVars, trVars, clVars, oops>>

InitHwStart ==
    /\ d = "hw_start"
    /\ \/ /\ hw' = "START" /\ mgmt_chann' = "open" /\ d' = "rq" /\ Works
       \/ Fails("hw_start") /\ d' = step_label["hw_start"] /\ UNCHANGED hwVars
    /\ UNCHANGED <<lock, up, evVars, trVars, clVars, oops>>

InitRq == SetUp("rq", {"rq"})
          /\ UNCHANGED <<lock, hwVars, evVars, trVars, clVars, oops>>

\* aie2_mgmt_fw_query(), from here on with aie2_lock: the versions of the
\* firmware and of the array, and its metadata.
Query(s) ==
    /\ d = s
    /\ \E r \in Results :
         MgmtMsg(r) /\ d' = IF r = "ok" THEN step_order[s] ELSE step_label["query"]
    /\ UNCHANGED <<up, hw, trVars, clVars>>
QueryFirmwareVersion == Query("query") /\ lock = "free" /\ lock' = "dev"
QueryAieVersion == Query("query_version") /\ UNCHANGED lock
QueryAieMetadata == Query("query_metadata") /\ UNCHANGED lock

InitXrs == SetUp("xrs", {})
           /\ UNCHANGED <<lock, hwVars, evVars, trVars, clVars, oops>>

\* aie2_error_async_events_alloc()
InitEvents ==
    /\ d = "events"
    /\ \/ /\ async_events' = "live" /\ status' = [e \in Event |-> "MAX"]
          /\ d' = "send" /\ Works
       \/ /\ Fails("events") /\ d' = step_label["events"]
          /\ UNCHANGED <<async_events, status>>
    /\ UNCHANGED <<lock, up, hwVars, armed, queued, worker, trVars, clVars,
                   oops>>

\* aie2_error_async_events_send(): one registration for each slot.
Register(es) ==
    armed' = [e \in Event |-> IF e \in es THEN armed[e] + 1 ELSE armed[e]]

InitSend ==
    /\ d = "send"
    /\ \/ Register(Event) /\ d' = "requery" /\ Works
       \/ /\ Fails("send") /\ d' = step_label["send"]
          /\ \E es \in SUBSET Event \ {Event} : Register(es)
    /\ UNCHANGED <<lock, up, hwVars, async_events, status, queued, worker,
                   trVars, clVars, oops>>

InitRequery ==
    /\ d = "requery"
    /\ \E r \in Results :
         /\ MgmtMsg(r)
         /\ IF r = "ok" THEN d' = "trace" /\ lock' = "free"
                        ELSE d' = step_label["requery"] /\ UNCHANGED lock
    /\ UNCHANGED <<up, hw, trVars, clVars>>

\* aie2_event_trace_init(): a failure only leaves no trace request.
InitTrace ==
    /\ d = "trace" /\ d' = "sysfs"
    /\ \/ trace_req' = "live" /\ Works
       \/ Fails("trace") /\ UNCHANGED trace_req
    /\ enabled' = FALSE
    /\ UNCHANGED <<lock, up, hwVars, evVars, trace_res, trace_op, fw_trace,
                   trace_work, clVars, oops>>

\* The TDR timer is started without a check.
ProbeSysfs == SetUp("sysfs", {"sysfs", "tdr"})
              /\ UNCHANGED <<lock, hwVars, evVars, trVars, clVars, oops>>
ProbeRegister == SetUp("register", {"drm"})
                 /\ UNCHANGED <<lock, hwVars, evVars, trVars, clVars, oops>>
-----------------------------------------------------------------------------
(* The error labels, remove() and aie2_fini().                             *)

\* destroy_workqueue() takes no more work and waits for what is queued.
Draining == d \in {"l_free", "f_events"}
EventsDrained == queued = {} /\ worker = NoEvent

FreeEvents == /\ async_events' = "freed"
              /\ UNCHANGED <<armed, status, queued, worker>>

\* What follows a step of the ladder, of aie2_fini() and of a suspend.
fini_order ==
    [l_free |-> "l_rq", l_rq |-> "l_stop", l_stop |-> "l_res", s_stop |-> "bound",
     f_rq |-> "f_stop", f_stop |-> "f_events", f_events |-> "l_res"]

\* The lock is kept at the label.
LabelEvents_locked ==
    /\ d = "l_events" /\ d' = "l_free"
    /\ UNCHANGED <<lock, up, hwVars, evVars, trVars, clVars, blame, oops>>
LabelEvents ==
    /\ d = "l_events" /\ lock' = "free" /\ d' = "l_free"
    /\ UNCHANGED <<up, hwVars, evVars, trVars, clVars, blame, oops>>
LabelFree ==
    /\ d = "l_free" /\ EventsDrained /\ FreeEvents /\ d' = fini_order[d]
    /\ UNCHANGED <<lock, up, hwVars, trVars, clVars, blame, oops>>

\* aie2_rq_fini(), at its label and in aie2_fini().
RqFini ==
    /\ d \in {"l_rq", "f_rq"} /\ up' = up \ {"rq"}
    /\ d' = fini_order[d]
    /\ UNCHANGED <<lock, hwVars, evVars, trVars, clVars, blame, oops>>

\* aie2_hw_stop(), which takes aie2_lock.  The firmware is told to suspend,
\* the channel is stopped whether there is one or not, the firmware ends.
HwStop ==
    /\ d \in {"l_stop", "f_stop", "s_stop"}
    /\ d' = fini_order[d]
    /\ IF hw # "START" THEN UNCHANGED <<hwVars, evVars, oops>> /\ UNCHANGED <<fw_trace, blame>>
       ELSE /\ lock = "free" /\ hw' = "INIT" /\ fw_trace' = FALSE
            /\ \E r \in Results :
                 /\ Answer(r)
                 /\ IF r \in {"time", "nodev"}
                    THEN oops' = "null_chann" /\ UNCHANGED <<mgmt_chann, evVars>>
                    ELSE ReleaseChannel
    /\ UNCHANGED <<lock, up, trace_req, enabled, trace_res, trace_op,
                   trace_work, clVars>>

FiniEvents ==
    /\ d = "f_events" /\ EventsDrained /\ FreeEvents /\ d' = fini_order[d]
    /\ UNCHANGED <<lock, up, hwVars, trVars, clVars, blame, oops>>

LabelRes ==
    /\ d = "l_res" /\ up' = up \ {"res"}
    /\ d' = IF "wq" \in up THEN "l_wq" ELSE "gone"
    /\ UNCHANGED <<lock, hwVars, evVars, trVars, clVars, blame, oops>>
\* The workqueue is left.
LabelWq_keep ==
    d = "l_wq" /\ d' = "gone"
    /\ UNCHANGED <<up, lock, hwVars, evVars, trVars, clVars, blame, oops>>
LabelWq ==
    /\ d = "l_wq" /\ up' = up \ {"wq"} /\ d' = "gone"
    /\ UNCHANGED <<lock, hwVars, evVars, trVars, clVars, blame, oops>>

\* drm_dev_register() failed: the timer and the attributes go.
LabelTdr ==
    /\ d = "l_tdr" /\ up' = up \ {"tdr", "sysfs"} /\ d' = "f_trace"
    /\ UNCHANGED <<lock, hwVars, evVars, trVars, clVars, blame, oops>>

\* remove(): the notifier workqueue, the timer and the attributes go,
\* pm_runtime_forbid() wakes the device, and drm_dev_unplug() waits for
\* everybody in the driver.
RemoveStart ==
    /\ d = "bound" /\ trace_op = "none" /\ (hw = "START" \/ "hw_start" \in blame)
    /\ up' = up \ {"wq", "tdr", "sysfs", "drm"} /\ d' = "r_clients"
    /\ UNCHANGED <<lock, hwVars, evVars, trVars, clVars, blame, oops>>

\* A client leaves the list, then amdxdna_ctx_remove_all().  A file that was
\* closed since the device was unplugged is still on the list.
RemoveClient ==
    /\ d = "r_clients" /\ client_list # <<>>
    /\ IF client[Head(client_list)] = "none"
       THEN oops' = "freed_client" /\ UNCHANGED <<client_list, ctxs>>
       ELSE /\ client_list' = Tail(client_list)
            /\ ctxs' = [ctxs EXCEPT ![Head(client_list)] = {}]
            /\ UNCHANGED oops
    /\ UNCHANGED <<d, lock, up, hwVars, evVars, trVars, client, orphans,
                   rpm_usage, blame>>
RemoveFini ==
    /\ d = "r_clients" /\ client_list = <<>> /\ d' = "f_trace"
    /\ UNCHANGED <<lock, up, hwVars, evVars, trVars, clVars, blame, oops>>

\* aie2_event_trace_fini(): a trace that is on is stopped first, without
\* aie2_lock; the request is freed whether that worked or not.
FiniTrace ==
    /\ d = "f_trace" /\ trace_op = "none" /\ ~enabled
    /\ trace_req' = "none" /\ d' = "f_rq"
    /\ UNCHANGED <<lock, up, hwVars, evVars, enabled, trace_res, trace_op,
                   fw_trace, trace_work, clVars, blame, oops>>
-----------------------------------------------------------------------------
(* Sleep.                                                                  *)

Plugged == "drm" \in up

\* amdxdna_rpmops_suspend(), when nobody holds a reference.
RpmSuspend ==
    /\ d = "bound" /\ hw = "START" /\ rpm_usage = 0 /\ d' = "s_stop"
    /\ UNCHANGED <<lock, up, hwVars, evVars, trVars, clVars, blame, oops>>

\* amdxdna_pmops_suspend(): user threads are frozen outside the driver.
SysSuspend ==
    /\ d = "bound" /\ hw = "START" /\ trace_op = "none" /\ d' = "s_stop"
    /\ UNCHANGED <<lock, up, hwVars, evVars, trVars, clVars, blame, oops>>

\* aie2_hw_resume()
Resume ==
    /\ d = "bound" /\ hw = "INIT" /\ lock = "free"
    /\ \/ /\ hw' = "START" /\ mgmt_chann' = "open" /\ Register(Event)
          /\ Works
       \/ Fails("hw_start") /\ UNCHANGED <<hwVars, armed>>
    /\ UNCHANGED <<d, lock, up, async_events, status, queued, worker, trVars,
                   clVars, oops>>
-----------------------------------------------------------------------------
(* Asynchronous error events.                                              *)

\* The firmware answers a registration when an error happens:
\* aie2_error_async_cb() takes the status and queues the work.
FwReport(e) ==
    /\ armed[e] > 0 /\ mgmt_chann = "open"
    /\ IF async_events = "freed"
       THEN oops' = "freed_event" /\ UNCHANGED <<evVars, blame>>
       ELSE /\ \/ status' = [status EXCEPT ![e] = "good"] /\ Works
               \/ status' = [status EXCEPT ![e] = "bad"] /\ Fails("malformed")
            /\ armed' = [armed EXCEPT ![e] = @ - 1]
            /\ queued' = queued \cup (IF Draining THEN {} ELSE {e})
            /\ UNCHANGED <<async_events, worker, oops>>
    /\ UNCHANGED <<d, lock, up, hwVars, trVars, clVars>>

\* A call without a report is tried again.
WorkerTake_retry(e) ==
    /\ worker = NoEvent /\ e \in queued
    /\ queued' = IF status[e] = "MAX" THEN queued ELSE queued \ {e}
    /\ status' = [status EXCEPT ![e] = "MAX"]
    /\ worker' = IF status[e] = "good" THEN e ELSE NoEvent
    /\ UNCHANGED <<d, lock, up, hwVars, async_events, armed, trVars, clVars,
                   blame, oops>>
\* The report makes sense to aie2_error_backtrack().
has_column(e) == status[e] = "good"
\* aie2_error_worker() up to aie2_lock.  A call without a report, and a
\* report with too many errors or without a column, end it.
WorkerTake(e) ==
    /\ worker = NoEvent /\ e \in queued /\ queued' = queued \ {e}
    /\ status' = [status EXCEPT ![e] = "MAX"]
    /\ worker' = IF has_column(e) THEN e ELSE NoEvent
    /\ UNCHANGED <<d, lock, up, hwVars, async_events, armed, trVars, clVars,
                   blame, oops>>

\* The worker does not register the event again.
WorkerSend_none ==
    /\ worker # NoEvent /\ lock = "free" /\ worker' = NoEvent
    /\ UNCHANGED <<async_events, armed, status, queued, blame, oops>>
    /\ UNCHANGED <<d, lock, up, hwVars, trVars, clVars>>
\* The event is registered again, on whatever channel there is by now.
WorkerSend ==
    /\ worker # NoEvent /\ lock = "free"
    /\ IF mgmt_chann = "NULL"
       THEN oops' = "null_event" /\ UNCHANGED <<evVars, blame>>
       ELSE /\ worker' = NoEvent
            /\ \/ Register({worker}) /\ Works
               \/ Fails("refused") /\ UNCHANGED armed
            /\ UNCHANGED <<async_events, status, queued, oops>>
    /\ UNCHANGED <<d, lock, up, hwVars, trVars, clVars>>

\* aie2_get_info(): a query of a client, under aie2_lock.
GetInfo == /\ Plugged /\ lock = "free" /\ \E c \in Client : client[c] # "none"
           /\ UNCHANGED <<d, lock, up, hw, trVars, clVars>>
\* aie2_query_status() and aie2_get_telemetry() ask the firmware.
GetAieStatus == GetInfo /\ \E r \in Results : MgmtMsg(r)
GetTelemetry == GetInfo /\ \E r \in Results : MgmtMsg(r)
-----------------------------------------------------------------------------
(* Event trace: aie2_assign_event_trace_state().                           *)

\* The file in debugfs is written: aie2_lock is held over the whole switch.
MayTrace == Plugged /\ lock = "free" /\ trace_req = "live" /\ trace_op = "none"

\* aie2_start_event_trace_send(): the buffer, the message, and if that is
\* answered the interrupt.  A failure of the interrupt frees the buffer and
\* is not returned.
TraceStart ==
    /\ MayTrace /\ ~enabled
    /\ \E r \in Results :
         /\ MgmtMsg(r)
         /\ IF r = "ok" THEN /\ fw_trace' = TRUE /\ trace_res' = {"buf"}
                             /\ trace_op' = "irq" /\ lock' = "dbg"
                        ELSE UNCHANGED <<fw_trace, trace_res, trace_op, lock>>
    /\ UNCHANGED <<d, up, hw, trace_req, enabled, trace_work, clVars>>

TraceIrq ==
    /\ trace_op = "irq"
    /\ \/ /\ trace_res' = trace_res \cup {"wq", "irq"} /\ trace_op' = "log" /\ Works
          /\ UNCHANGED <<enabled, lock>>
       \/ /\ Fails("irq") /\ trace_res' = {} /\ trace_op' = "none"
          /\ enabled' = TRUE /\ lock' = "free"
    /\ UNCHANGED <<d, up, hwVars, evVars, trace_req, fw_trace, trace_work,
                   clVars, oops>>

\* The copy of the log is allocated when the interrupt is on already.
TraceLog ==
    /\ trace_op = "log" /\ trace_op' = "none" /\ lock' = "free"
    /\ trace_res' = trace_res \cup {"log"} /\ enabled' = TRUE
    /\ UNCHANGED <<d, up, hwVars, evVars, trace_req, fw_trace, trace_work,
                   clVars, blame, oops>>

\* The buffer is freed whatever the firmware answers.
TraceStop_early ==
    /\ enabled /\ MayTrace
    /\ \E r \in Results :
         /\ MgmtMsg(r)
         /\ IF r = "ok" THEN fw_trace' = FALSE /\ trace_op' = "cancel" /\ lock' = "dbg"
                        ELSE UNCHANGED <<fw_trace, trace_op, lock>>
    /\ trace_res' = trace_res \ {"buf"}
    /\ UNCHANGED <<d, trace_req, enabled, up, hw, trace_work, clVars>>
\* aie2_stop_event_trace_send(), for the debugfs file or for
\* aie2_event_trace_fini().  Refused, the trace stays on, except that the
\* latter frees the request all the same.
TraceStop ==
    /\ enabled /\ trace_op = "none" /\ (MayTrace \/ d = "f_trace")
    /\ \E r \in Results :
         /\ MgmtMsg(r)
         /\ IF r = "ok" THEN fw_trace' = FALSE /\ trace_op' = "cancel"
                        ELSE UNCHANGED <<fw_trace, trace_op>>
         /\ IF d = "f_trace" /\ r # "ok"
            THEN trace_req' = "none" /\ enabled' = FALSE /\ d' = "f_rq"
            ELSE UNCHANGED <<trace_req, enabled, d>>
         /\ lock' = IF r = "ok" /\ d # "f_trace" THEN "dbg" ELSE lock
    /\ UNCHANGED <<up, hw, trace_res, trace_work, clVars>>

\* aie2_deregister_log_buf_irq_hdl(): cancel_work_sync(), the rest of the
\* log is printed, destroy_workqueue() ...
TraceCancel ==
    /\ trace_op = "cancel"
    /\ IF {"buf", "wq"} \subseteq trace_res
       THEN /\ trace_op' = "free" /\ trace_work' = FALSE
            /\ trace_res' = trace_res \ {"wq"} /\ UNCHANGED oops
       ELSE oops' = "no_trace_buf" /\ UNCHANGED <<trace_op, trace_work, trace_res>>
    /\ UNCHANGED <<d, lock, up, hwVars, evVars, trace_req, enabled, fw_trace,
                   clVars, blame>>

\* ... and only then free_irq(); at last the buffers.
TraceFree ==
    /\ trace_op = "free" /\ trace_op' = "none"
    /\ trace_res' = {} /\ enabled' = FALSE
    /\ lock' = IF lock = "dbg" THEN "free" ELSE lock
    /\ UNCHANGED <<d, up, hwVars, evVars, trace_req, fw_trace, trace_work,
                   clVars, blame, oops>>

\* log_buffer_irq_handler(), also for an interrupt that was raised before
\* the trace was stopped.
TraceInterrupt ==
    /\ "irq" \in trace_res
    /\ fw_trace \/ trace_op \in {"cancel", "free"}
    /\ CASE trace_req = "none" -> oops' = "freed_trace" /\ UNCHANGED trace_work
         [] trace_req = "live" /\ "wq" \notin trace_res ->
              oops' = "dead_wq" /\ UNCHANGED trace_work
         [] OTHER -> trace_work' = TRUE /\ UNCHANGED oops
    /\ UNCHANGED <<d, lock, up, hwVars, evVars, trace_req, enabled, trace_res,
                   trace_op, fw_trace, clVars, blame>>

\* aie2_get_trace_event_content(): the positions of the ring it copies, up to
\* the end and from the beginning.
Content(head, tail) ==
    LET Span(a, b) == [i \in 1..(b - a) |-> a + i - 1]
    IN  CASE tail > head -> Span(head, tail)
          [] tail < head -> Span(head, RB) \o Span(0, tail)
          [] OTHER -> <<>>

\* deffered_logging_work()
TraceWork ==
    /\ trace_work /\ "wq" \in trace_res /\ trace_work' = FALSE
    /\ oops' = IF "log" \in trace_res THEN oops ELSE "no_log_buf"
    /\ UNCHANGED <<d, lock, up, hwVars, evVars, trace_req, enabled, trace_res,
                   trace_op, fw_trace, clVars, blame>>
-----------------------------------------------------------------------------
(* Clients.                                                                *)

\* amdxdna_drm_open(): the device is resumed and kept awake.
Open(c) ==
    /\ Plugged /\ client[c] = "none" /\ d = "bound" /\ hw = "START"
    /\ rpm_usage' = rpm_usage + 1
    /\ client' = [client EXCEPT ![c] = "open"]
    /\ client_list' = Append(client_list, c)
    /\ UNCHANGED <<d, lock, up, hwVars, evVars, trVars, ctxs, orphans, blame, oops>>

\* A context is created; a process that shares the file may do so when its
\* owner has flushed it.
CreateCtx(c) ==
    /\ Plugged /\ client[c] # "none"
    /\ ctxs' = [ctxs EXCEPT ![c] = @ \cup {IF client[c] = "open" THEN "early" ELSE "late"}]
    /\ UNCHANGED <<d, lock, up, hwVars, evVars, trVars, client, client_list,
                   orphans, rpm_usage, blame, oops>>

\* The client stays on the list.
Flush_listed(c) ==
    /\ client[c] = "open" /\ client' = [client EXCEPT ![c] = "flushed"]
    /\ ctxs' = IF Plugged THEN [ctxs EXCEPT ![c] = {}] ELSE ctxs
    /\ UNCHANGED <<d, lock, up, hwVars, evVars, trVars, client_list, orphans,
                   rpm_usage, blame, oops>>
\* amdxdna_flush() by the owner: nothing is done any more once the device is
\* unplugged.
Flush(c) ==
    /\ client[c] = "open" /\ client' = [client EXCEPT ![c] = "flushed"]
    /\ IF Plugged THEN /\ client_list' = RemoveFirst(client_list, c)
                       /\ ctxs' = [ctxs EXCEPT ![c] = {}]
                  ELSE UNCHANGED <<client_list, ctxs>>
    /\ UNCHANGED <<d, lock, up, hwVars, evVars, trVars, orphans, rpm_usage, blame, oops>>

\* amdxdna_drm_close(): the contexts that are left are forgotten.
Close(c) ==
    /\ client[c] = "flushed" /\ client' = [client EXCEPT ![c] = "none"]
    /\ orphans' = orphans \cup ctxs[c] /\ ctxs' = [ctxs EXCEPT ![c] = {}]
    /\ rpm_usage' = rpm_usage - 1
    /\ UNCHANGED <<d, lock, up, hwVars, evVars, trVars, client_list, blame, oops>>
-----------------------------------------------------------------------------
DeviceStep ==
    \/ Probe \/ InitResources \/ InitHwStart \/ InitRq
    \/ QueryFirmwareVersion \/ QueryAieVersion \/ QueryAieMetadata \/ InitXrs
    \/ InitEvents \/ InitSend \/ InitRequery \/ InitTrace \/ ProbeSysfs
    \/ ProbeRegister \/ LabelEvents \/ LabelFree \/ RqFini \/ HwStop \/ FiniEvents
    \/ LabelRes \/ LabelWq \/ LabelTdr \/ RemoveClient \/ RemoveFini \/ FiniTrace
WorkerStep == WorkerSend \/ \E e \in Event : WorkerTake(e)
SwitchStep == TraceIrq \/ TraceLog \/ TraceCancel \/ TraceFree

\* The thread in aie2_hw_stop() waits for the lock it holds.
Hung == d = "l_stop" /\ hw = "START" /\ lock = "dev"

Live ==
    \/ DeviceStep \/ WorkerStep \/ SwitchStep \/ RemoveStart \/ Resume
    \/ GetAieStatus \/ GetTelemetry \/ TraceStart \/ TraceStop
    \/ TraceInterrupt \/ TraceWork
    \/ \E e \in Event : FwReport(e)
    \/ \E c \in Client : Open(c) \/ CreateCtx(c) \/ Flush(c) \/ Close(c)
Ended == (Hung \/ ~Alive \/ d = "gone") /\ UNCHANGED vars
Next == \/ /\ Alive
           /\ \/ Live /\ UNCHANGED slept
              \/ (RpmSuspend \/ SysSuspend) /\ slept' = TRUE
        \/ Ended

\* The thread that binds or unbinds the device, the ordered workqueue of the
\* events and a writer of the debugfs file run on until they return; a kernel
\* mutex is handed to its longest waiter, so the first two are not passed over
\* for ever while others come and go.
Fairness == /\ SF_vars(Alive /\ DeviceStep /\ UNCHANGED slept)
            /\ SF_vars(Alive /\ WorkerStep /\ UNCHANGED slept)
            /\ WF_vars(Alive /\ (SwitchStep \/ (d = "f_trace" /\ TraceStop)) /\ UNCHANGED slept)
Spec == Init /\ [][Next]_vars /\ Fairness
-----------------------------------------------------------------------------
\* Type invariant.
ProbeSteps == {"res", "hw_start", "rq", "query", "query_version", "query_metadata", "xrs",
               "events", "send", "requery", "trace", "sysfs", "register"}
TypeOK ==
    /\ d \in {"unbound", "bound", "gone", "l_wq", "l_res", "l_events", "l_free",
              "l_rq", "l_stop", "l_tdr", "f_trace", "f_rq", "f_stop", "f_events",
              "r_clients", "s_stop"} \cup ProbeSteps
    /\ lock \in {"free", "dev", "dbg"} /\ hw \in {"UNINIT", "INIT", "START"}
    /\ up \subseteq {"wq", "res", "rq", "sysfs", "tdr", "drm"}
    /\ mgmt_chann \in {"NULL", "open"} /\ async_events \in {"none", "live", "freed"}
    /\ armed \in [Event -> 0..3] /\ status \in [Event -> {"MAX", "good", "bad"}]
    /\ queued \subseteq Event /\ worker \in Event \cup {NoEvent}
    /\ trace_req \in {"none", "live"} /\ trace_res \subseteq {"buf", "wq", "irq", "log"}
    /\ trace_op \in {"none", "irq", "log", "cancel", "free"}
    /\ enabled \in BOOLEAN /\ fw_trace \in BOOLEAN /\ trace_work \in BOOLEAN
    /\ client \in [Client -> {"none", "open", "flushed"}] /\ client_list \in Seq(Client)
    /\ ctxs \in [Client -> SUBSET {"early", "late"}] /\ orphans \subseteq {"early", "late"}
    /\ rpm_usage \in 0..Cardinality(Client) /\ blame \subseteq Faults
    /\ slept \in BOOLEAN
    /\ oops \in {"no", "freed_event", "null_chann", "null_event", "freed_client",
                 "no_trace_buf", "freed_trace", "dead_wq", "no_log_buf"}

\* A message that the firmware refused or did not answer.
Unanswered == blame \cap {"refused", "timeout"} # {}

\* What probe() has set up at each step, and what is left of it at the labels
\* of the error ladder and in aie2_fini(): each takes down what is there, but
\* a run queue above the label is left when the thread waits for itself.
UpLadder ==
    /\ d \in {"unbound", "gone"} => up = {}
    /\ d \in {"res", "l_wq"} => up = {"wq"}
    /\ d \in {"hw_start", "rq"} => up = {"wq", "res"}
    /\ d \in {"query", "query_version", "query_metadata", "xrs", "events", "send", "requery",
              "trace", "sysfs", "l_events", "l_free", "l_rq"} => up = {"wq", "res", "rq"}
    /\ d \in {"register", "l_tdr"} => up = {"wq", "res", "rq", "sysfs", "tdr"}
    /\ d \in {"bound", "s_stop"} => up = {"wq", "res", "rq", "sysfs", "tdr", "drm"}
    /\ d = "r_clients" => up = {"res", "rq"}
    /\ d \in {"f_trace", "f_rq"} => up \in {{"res", "rq"}, {"wq", "res", "rq"}}
    /\ d \in {"f_stop", "f_events", "l_res"} => up \in {{"res"}, {"wq", "res"}}
    /\ d = "l_stop" => up = {"wq", "res"} \/ (up = {"wq", "res", "rq"} /\ lock = "dev")

\* Who may hold aie2_lock between two steps: aie2_init() from its first query
\* to the label that drops it, and a writer of the debugfs file.
LockLadder ==
    /\ d \in {"query_version", "query_metadata", "xrs", "events", "send", "requery", "l_events"}
           => lock = "dev"
    /\ lock = "dev" => d \in {"query_version", "query_metadata", "xrs", "events", "send",
                              "requery", "l_events", "l_rq", "l_stop"}
    /\ lock = "dbg" => trace_op # "none" /\ d \in {"bound", "s_stop"}
    /\ trace_op # "none" => lock = "dbg" \/ d = "f_trace"

\* The device runs from its start to its stop, or could not be resumed.
HwLadder ==
    /\ d \in {"unbound", "res", "hw_start"} => hw = "UNINIT"
    /\ d \in (ProbeSteps \ {"res", "hw_start"})
             \cup {"l_events", "l_free", "l_rq", "l_stop", "l_tdr", "s_stop"} => hw = "START"
    /\ d = "bound" => hw # "UNINIT" /\ (hw = "INIT" => slept)
    /\ d = "s_stop" => slept
    /\ d \in {"r_clients", "f_trace", "f_rq", "f_stop"} => hw = "START" \/ "hw_start" \in blame
    /\ d \in {"f_events", "l_res", "l_wq", "gone"} => hw # "START"

\* A running device has its management channel, unless a message timed out;
\* the firmware holds registrations only over an open channel.
ChannLadder ==
    /\ Alive /\ hw # "START" => mgmt_chann = "NULL"
    /\ hw = "START" /\ mgmt_chann = "NULL" => "timeout" \in blame
    /\ d \in ProbeSteps \ {"res", "hw_start", "trace", "sysfs", "register"}
           => mgmt_chann = "open"
    /\ mgmt_chann = "NULL" => \A e \in Event : armed[e] = 0

\* The events exist from their allocation to the label or step that frees
\* them, and have no more than the registration, the queued work and the
\* running work of one sleep and the next.
EventLadder ==
    /\ d \in {"unbound", "res", "hw_start", "rq", "query", "query_version", "query_metadata",
              "xrs", "events"} => async_events = "none"
    /\ d \in {"unbound", "res", "hw_start", "rq", "query", "query_version", "query_metadata",
              "xrs", "events", "send"}
           => queued = {} /\ worker = NoEvent /\ \A e \in Event : armed[e] = 0
    /\ async_events = "freed" =>
           /\ d \in {"l_rq", "l_stop", "l_res", "l_wq", "gone"}
           /\ mgmt_chann = "NULL" \/ Unanswered \/ "send" \in blame
    /\ d \in {"l_rq", "l_stop", "l_res", "l_wq", "gone"} => async_events # "live"
    /\ d \in {"l_events", "l_free"} => Unanswered \/ "send" \in blame
    /\ \A e \in Event : armed[e] + (IF worker = e THEN 1 ELSE 0)
                                   + (IF e \in queued THEN 1 ELSE 0) <= 3

\* aie2_init() only waits for itself (aie2_hw_stop() takes aie2_lock on a
\* path that has it) after the query, the solver or the events have failed:
\* the paths through async_event_free unlock first.
HangNeedsFault ==
    /\ d = "l_rq" /\ lock = "dev" => Unanswered
    /\ d = "l_stop" /\ lock = "dev" => Unanswered \/ blame \cap {"xrs", "events"} # {}

\* An event outlives its registration: the callback finds the events freed
\* only on the error path of aie2_init(), where they are freed before the
\* device is stopped, and never in aie2_fini(); aie2_hw_stop() meets a
\* channel that is gone only after a timeout.
EventsOutliveChannel ==
    /\ oops = "freed_event" => Unanswered \/ "send" \in blame
    /\ oops = "null_chann" => "timeout" \in blame

\* Once the probe has sent them, every event is registered with the firmware
\* or on its way back to it (aie2_error_worker() registers what it handled, a
\* resume registers all), unless a report was malformed or a message lost; and
\* it is registered only once unless the device slept with a report unhandled.
Back(e) == (IF worker = e THEN 1 ELSE 0) + (IF e \in queued /\ status[e] = "good" THEN 1 ELSE 0)
EventsRegistered ==
    (/\ Alive /\ mgmt_chann = "open" /\ blame \cap {"malformed", "refused"} = {}
     /\ d \in {"requery", "trace", "sysfs", "register", "bound", "s_stop"})
      => \A e \in Event : armed[e] + Back(e) >= 1 /\ (slept \/ armed[e] + Back(e) = 1)

\* What the trace has at each step of its start and stop; a trace that is off
\* has nothing, unless aie2_event_trace_fini() could not stop it.
TraceLadder ==
    /\ trace_op = "irq" => trace_res = {"buf"} /\ ~enabled
    /\ trace_op = "log" => trace_res = {"buf", "wq", "irq"} /\ ~enabled
    /\ trace_op \in {"cancel", "free"} => enabled /\ ~fw_trace
    /\ enabled \/ trace_op # "none" =>
           trace_req = "live" /\ d \in {"bound", "s_stop", "r_clients", "f_trace"}
    /\ "irq" \in trace_res /\ trace_op # "free" => "wq" \in trace_res
    /\ "wq" \in trace_res /\ trace_op # "log" => "log" \in trace_res
    /\ enabled /\ trace_op # "free" =>
           "irq" \in blame \/ trace_res = {"buf", "wq", "irq", "log"}
    /\ fw_trace => hw = "START" /\ (enabled \/ trace_op \in {"irq", "log"} \/ Unanswered)
    /\ ~enabled /\ trace_op = "none" =>
           trace_res = {} \/ Unanswered \/ "hw_start" \in blame

\* The firmware writes its trace only to a buffer the driver still has, unless
\* the interrupt could not be set up: then aie2_register_log_buf_irq_hdl()
\* frees the buffer, nobody hears of it, and turning the trace off trips.
TraceBufferOwned ==
    "irq" \notin blame => /\ (fw_trace => "buf" \in trace_res)
                          /\ oops # "no_trace_buf"

\* The log's interrupt and its work find what they use, except between
\* destroy_workqueue() and free_irq() when the trace is turned off, between
\* request_irq() and the allocation of the copy when it is turned on, and when
\* aie2_event_trace_fini() frees the request of a trace it could not stop.
TraceHandlersSafe ==
    /\ oops = "dead_wq" => trace_op = "free"
    /\ oops = "no_log_buf" => trace_op = "log"
    /\ oops = "freed_trace" => Unanswered

\* aie2_get_trace_event_content() copies what the firmware wrote since the last
\* call, in order and once, also when that wraps around the end of the ring.
TraceCopyExact ==
    enabled => \A head \in 0..RB-1, n \in 0..RB-1 :
                 Content(head, (head + n) % RB) = [i \in 1..n |-> (head + i - 1) % RB]

Files == {c \in Client : client[c] # "none"}

\* As long as the device is registered, client_list has the open files their
\* owner has not flushed, each once, no file that is gone, and each keeps the
\* device awake: what amdxdna_rpmops_suspend() warns of does not happen.
ClientsListed ==
    /\ rpm_usage = Cardinality(Files)
    /\ Plugged => /\ IsInjective(client_list)
                  /\ \A c \in Client : Contains(client_list, c) <=> client[c] = "open"

\* There are no clients before the device is registered, remove() has taken
\* every one off the list before aie2_fini(), and a context whose owner has not
\* flushed it can be found through the list.
ClientLadder ==
    /\ d \in {"unbound", "l_tdr"} \cup ProbeSteps =>
           /\ \A c \in Client : client[c] = "none"
           /\ client_list = <<>> /\ orphans = {}
    /\ d \in {"f_trace", "f_rq", "f_stop", "f_events"} => client_list = <<>>
    /\ \A c \in Client : "early" \in ctxs[c] => Contains(client_list, c)

\* When aie2_fini() ends the run queue, the contexts their owner left behind
\* are gone; one is forgotten only when a process that inherited the file made
\* it after the flush, or the file is closed while the device is unplugged.
CtxsGoneBeforeFini ==
    /\ d \in {"f_rq", "f_stop", "f_events"} => \A c \in Client : "early" \notin ctxs[c]
    /\ Plugged => orphans \subseteq {"late"}
    /\ up \cap {"tdr", "drm"} # {} => "rq" \in up

\* A failed probe and a remove() leave nothing behind, except the log's
\* interrupt when the firmware did not stop the trace.
UnboundClean ==
    (Alive /\ d = "gone") => /\ up = {} /\ lock = "free" /\ mgmt_chann = "NULL"
                           /\ hw # "START" /\ async_events # "live" /\ ~fw_trace
                           /\ (trace_res # {} => Unanswered \/ "hw_start" \in blame)

\* probe(), remove() and a suspend return, unless they wait for themselves:
\* destroy_workqueue() waits for a worker that waits for aie2_lock, and
\* aie2_hw_stop() for a writer of the debugfs file.
EveryCallReturns ==
    d \notin {"unbound", "bound", "gone"} ~> (d \in {"bound", "gone"} \/ Hung \/ ~Alive)

\* Whoever hangs or touches freed events got there by a failed step, and the
\* paths that begin behind it get away.
FailuresNeedFault == HangNeedsFault /\ EventsOutliveChannel

\* The trace may be turned on and off at any moment: the firmware, the
\* interrupt and the copy use a buffer that is there, and copy it whole.
TraceSound == TraceLadder /\ TraceBufferOwned /\ TraceHandlersSafe /\ TraceCopyExact

\* Every step finds what it expects to be up, locked, running and registered,
\* and clients and contexts are accounted for from the first open() to the end
\* of the run queue.
DriverInv == TypeOK /\ UpLadder /\ LockLadder /\ HwLadder /\ ChannLadder /\ EventLadder
             /\ ClientsListed /\ ClientLadder /\ CtxsGoneBeforeFini
=============================================================================
