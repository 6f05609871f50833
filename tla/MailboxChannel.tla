--------------------------- MODULE MailboxChannel ---------------------------
(***************************************************************************)
(* One mailbox channel (amdxdna_mailbox.c): message ids and the table of   *)
(* outstanding messages, the receive worker with its interrupt register,   *)
(* the polling thread, and the teardown, between a sender of the driver    *)
(* (amdxdna_mailbox_helper.c, aie2_message.c) and the firmware.            *)
(*                                                                         *)
(* The two rings are FIFO queues here: MailboxRing shows that they are.    *)
(*                                                                         *)
(* A channel has one sender at a time.  The management channel is used     *)
(* under aie2_lock; a context's channel by the ordered work queue of its   *)
(* DRM scheduler, and by the thread that connects or disconnects the       *)
(* context before the scheduler has a job and after it has stopped.        *)
(***************************************************************************)
EXTENDS Integers, Sequences, FiniteSetsExt

CONSTANTS
    Types,       \* the channel is of one of these types
    Kinds,       \* Kinds[t]: the messages sent on a channel of type t: "async",
                 \*   with a callback of their own, and "wait", for which
                 \*   xdna_send_msg_wait() blocks
    Ids,         \* MAX_MSG_ID_ENTRIES
    Cap,         \* how many messages the X2I ring takes
    Limit,       \* outstanding asynchronous messages: CTX_MAX_CMDS on a
                 \*   context's channel, the event slots on the management one
    MaxMsgs,     \* bound: messages created in a behaviour
    Faulty       \* the firmware may answer with a corrupt id

ASSUME ChannelAssumption ==
    /\ Types \subseteq {"mgmt", "normal", "poll"}
    /\ Kinds \in [Types -> SUBSET {"async", "wait"}]
    /\ Ids \in Nat \ {0} /\ Cap \in Nat \ {0} /\ Limit \in Nat /\ MaxMsgs \in Nat
    /\ Faulty \in BOOLEAN

Entry == 0..Ids-1           \* MSG_ID2ENTRY; the magic upper byte is constant
Handle == 1..MaxMsgs        \* the messages, in the order they are created
None == -1                  \* no message; an id without the magic byte

VARIABLES
    type,         \* enum xdna_mailbox_channel_type
    chan_xa,      \* chan_xa[e]: the outstanding message with id e, or None
    next_msgid,   \* where the cyclic allocation of ids goes on
    last_msg_id,  \* id of the last response, None before the first
    bad_state,
    x2i, i2x,     \* the rings, of messages [id, h]
    iohub,        \* the interrupt register is set
    spc,          \* the sender: "idle" | "push" | "wait" | "timeout"
    cur,          \* the message it is at
    made,         \* how many messages it has created
    kind,         \* kind[h]
    cb,           \* cb[h]: how often notify_cb was called for it
    live,         \* live[h]: the handle's owner still expects the call
    rx,           \* mailbox_rx_worker: "idle" | "clear" | "loop" | "recheck"
    rxq,          \* rx_work is queued
    irq,          \* the interrupt is enabled
    polld,        \* mailbox_polld: "check" | "sleep" | "scan" | "drain" | "empty"
    sent_msg,
    chan,         \* "open" | "stopping" | "stopped" | "unlisted" | "freed"
    fw,           \* messages the firmware works on, in order
    ring,         \* it has put a response and not yet set the register
    corrupt       \* it has answered with a corrupt id

ids == <<type, chan_xa, next_msgid, last_msg_id, bad_state>>
calls == <<cb, live>>
sender == <<spc, cur, made, kind>>
worker == <<rx, rxq, irq>>
poller == <<polld, sent_msg>>
firmware == <<fw, ring, corrupt>>
vars == <<ids, x2i, i2x, iohub, sender, calls, worker, poller, chan, firmware>>

\* xdna_mailbox_create_channel().
Init ==
    /\ type \in Types
    /\ chan_xa = [e \in Entry |-> None]
    /\ next_msgid = 0 /\ last_msg_id = None /\ bad_state = FALSE
    /\ x2i = <<>> /\ i2x = <<>> /\ iohub = FALSE
    /\ spc = "idle" /\ cur = 1 /\ made = 0
    /\ kind = [h \in Handle |-> "none"]
    /\ cb = [h \in Handle |-> 0] /\ live = [h \in Handle |-> FALSE]
    /\ rx = "idle" /\ rxq = FALSE /\ irq = TRUE
    /\ polld = "check" /\ sent_msg = FALSE
    /\ chan = "open"
    /\ fw = <<>> /\ ring = FALSE /\ corrupt = FALSE

\* mailbox_channel_no_msg()
no_msg == \A e \in Entry : chan_xa[e] = None

Outstanding(k) == {h \in 1..made : kind[h] = k /\ live[h] /\ cb[h] = 0}
-----------------------------------------------------------------------------
(* Sending: xdna_mailbox_send_msg(), xdna_send_msg_wait().                 *)

FreeFrom(n) == {e \in Entry : e >= n /\ chan_xa[e] = None}

\* The id after the last one, in use or not.
NextId_blind == {next_msgid % Ids}
\* xa_alloc_cyclic_irq(): the first free id from next_msgid on, around the
\* end.  The set has one member, or none when all are taken.
NextId == LET free == IF FreeFrom(next_msgid) # {} THEN FreeFrom(next_msgid)
                                                  ELSE FreeFrom(0)
          IN  IF free = {} THEN {} ELSE {Min(free)}

\* Up to mailbox_acquire_msgid().  A bad channel (-EPIPE) and a full table
\* refuse the message and change nothing.
SendAcquire(k) ==
    /\ spc = "idle" /\ chan = "open" /\ made < MaxMsgs
    /\ k = "async" => Cardinality(Outstanding("async")) < Limit
    /\ ~bad_state
    /\ \E e \in NextId :
         /\ chan_xa' = [chan_xa EXCEPT ![e] = made + 1]
         /\ next_msgid' = e + 1
    /\ made' = made + 1 /\ cur' = made + 1
    /\ kind' = [kind EXCEPT ![made + 1] = k]
    /\ live' = [live EXCEPT ![made + 1] = TRUE]
    /\ spc' = "push"
    /\ UNCHANGED <<type, last_msg_id, bad_state, x2i, i2x, iohub, cb, worker,
                   poller, chan, firmware>>

CurId == CHOOSE e \in Entry : chan_xa[e] = cur

\* mailbox_polld_wakeup() after a message on a polled channel.
Wakeup == IF type = "poll" /\ polld = "sleep" THEN "check" ELSE polld

\* mailbox_send_msg() finds room; xdna_send_msg_wait() goes on to wait.
SendPush ==
    /\ spc = "push" /\ Len(x2i) < Cap
    /\ x2i' = Append(x2i, [id |-> CurId, h |-> cur])
    /\ spc' = IF kind[cur] = "wait" THEN "wait" ELSE "idle"
    /\ polld' = Wakeup
    /\ UNCHANGED <<ids, i2x, iohub, cur, made, kind, calls, worker, sent_msg,
                   chan, firmware>>

\* -ENOSPC: mailbox_release_msgid(), and the caller is told.
SendNoSpace ==
    /\ spc = "push" /\ Len(x2i) = Cap
    /\ chan_xa' = [chan_xa EXCEPT ![CurId] = None]
    /\ live' = [live EXCEPT ![cur] = FALSE]
    /\ spc' = "idle"
    /\ UNCHANGED <<type, next_msgid, last_msg_id, bad_state, x2i, i2x, iohub, cur,
                   made, kind, cb, worker, poller, chan, firmware>>

\* wait_for_completion_timeout() returns because xdna_msg_cb() completed it;
\* the handle was on the caller's stack.
WaitDone ==
    /\ spc = "wait" /\ cb[cur] > 0
    /\ spc' = "idle"
    /\ live' = [live EXCEPT ![cur] = FALSE]
    /\ UNCHANGED <<ids, x2i, i2x, iohub, cur, made, kind, cb, worker, poller,
                   chan, firmware>>

\* The sender gives up and leaves the channel alone.
WaitTimeout_leave ==
    /\ spc = "wait" /\ cb[cur] = 0
    /\ spc' = "idle" /\ live' = [live EXCEPT ![cur] = FALSE]
    /\ UNCHANGED <<ids, x2i, i2x, iohub, cur, made, kind, cb, worker, poller,
                   chan, firmware>>
\* -ETIME.  aie2_send_mgmt_msg_wait_offset() tears the channel down before it
\* returns; aie2_config_cu() on a context's channel just returns.
WaitTimeout ==
    /\ spc = "wait" /\ cb[cur] = 0
    /\ IF type = "mgmt" THEN spc' = "timeout" /\ UNCHANGED live
       ELSE spc' = "idle" /\ live' = [live EXCEPT ![cur] = FALSE]
    /\ UNCHANGED <<ids, x2i, i2x, iohub, cur, made, kind, cb, worker, poller,
                   chan, firmware>>

\* The sender that timed out returns once the channel is gone.
TimeoutReturn ==
    /\ spc = "timeout" /\ chan = "freed"
    /\ spc' = "idle"
    /\ live' = [live EXCEPT ![cur] = FALSE]
    /\ UNCHANGED <<ids, x2i, i2x, iohub, cur, made, kind, cb, worker, poller,
                   chan, firmware>>
-----------------------------------------------------------------------------
(* Receiving: mailbox_get_msg() and mailbox_get_resp().                    *)

\* notify_cb() for the messages of S.  An asynchronous handle is done with
\* by its callback; a waiting one is its caller's until it returns.
Call(S) ==
    /\ cb' = [h \in Handle |-> IF h \in S THEN cb[h] + 1 ELSE cb[h]]
    /\ live' = [h \in Handle |-> live[h] /\ ~(h \in S /\ kind[h] = "async")]

\* Id 0 is not excused from following the last id.
validate_msgid_strict(id) ==
    /\ id # None
    /\ type = "mgmt" \/ last_msg_id = None \/ id = last_msg_id + 1
\* mailbox_validate_msgid()
validate_msgid(id) ==
    /\ id # None
    /\ type = "mgmt" \/ id = 0 \/ (last_msg_id # None /\ id = last_msg_id + 1)

RespOk(m) == validate_msgid(m.id) /\ chan_xa[m.id] # None

\* One message leaves the I2X ring: its callback runs, or the channel is bad.
GetMsg ==
    LET m == Head(i2x) IN
    /\ i2x' = Tail(i2x)
    /\ last_msg_id' = IF validate_msgid(m.id) THEN m.id ELSE last_msg_id
    /\ bad_state' = (bad_state \/ ~RespOk(m))
    /\ IF RespOk(m)
       THEN Call({chan_xa[m.id]}) /\ chan_xa' = [chan_xa EXCEPT ![m.id] = None]
       ELSE UNCHANGED <<calls, chan_xa>>
    /\ UNCHANGED <<type, next_msgid, x2i>>

\* mailbox_rx_worker(), from the work queue.
RxStart ==
    /\ rxq /\ rx = "idle"
    /\ rxq' = FALSE
    /\ rx' = IF bad_state THEN "idle" ELSE "clear"
    /\ UNCHANGED <<ids, x2i, i2x, iohub, sender, calls, irq, poller, chan, firmware>>

RxClear ==
    /\ rx = "clear"
    /\ iohub' = FALSE /\ rx' = "loop"
    /\ UNCHANGED <<ids, x2i, i2x, sender, calls, rxq, irq, poller, chan, firmware>>

RxGet ==
    /\ rx = "loop" /\ i2x # <<>>
    /\ GetMsg
    /\ IF RespOk(Head(i2x)) THEN UNCHANGED <<rx, irq>>
       ELSE rx' = "idle" /\ irq' = FALSE
    /\ UNCHANGED <<iohub, sender, rxq, poller, chan, firmware>>

RxEmpty ==
    /\ rx = "loop" /\ i2x = <<>>
    /\ rx' = "recheck"
    /\ UNCHANGED <<ids, x2i, i2x, iohub, sender, calls, rxq, irq, poller, chan,
                   firmware>>

\* The worker ends without another look at the register.
RxRecheck_never ==
    /\ rx = "recheck"
    /\ rx' = "idle"
    /\ UNCHANGED <<ids, x2i, i2x, iohub, sender, calls, rxq, irq, poller, chan,
                   firmware>>
RxRecheck ==
    /\ rx = "recheck"
    /\ rx' = IF iohub THEN "clear" ELSE "idle"
    /\ UNCHANGED <<ids, x2i, i2x, iohub, sender, calls, rxq, irq, poller, chan,
                   firmware>>
-----------------------------------------------------------------------------
(* The polling thread: mailbox_polld().                                    *)

listed == type = "poll" /\ chan \notin {"unlisted", "freed"}

\* wait_event_interruptible() on mailbox_polld_event().
PollCheck ==
    /\ polld = "check"
    /\ sent_msg' = (sent_msg \/ (listed /\ ~no_msg))
    /\ polld' = IF sent_msg' THEN "scan" ELSE "sleep"
    /\ UNCHANGED <<ids, x2i, i2x, iohub, sender, calls, worker, chan, firmware>>

\* The walk of the list under mbox_lock and the first half of
\* mailbox_polld_handle_chann().
PollScan ==
    /\ polld = "scan"
    /\ \/ /\ ~listed \/ no_msg
          /\ polld' = "empty" /\ UNCHANGED iohub
       \/ /\ listed /\ ~no_msg /\ (bad_state \/ ~iohub)
          /\ polld' = "check" /\ UNCHANGED iohub
       \/ /\ listed /\ ~no_msg /\ ~bad_state /\ iohub
          /\ polld' = "drain" /\ iohub' = FALSE
    /\ UNCHANGED <<ids, x2i, i2x, sender, calls, worker, sent_msg, chan, firmware>>

\* The do-while of mailbox_polld_handle_chann(), mbox_lock held.
PollDrain ==
    /\ polld = "drain"
    /\ \/ /\ i2x = <<>>
          /\ polld' = "check"
          /\ UNCHANGED <<ids, x2i, i2x, calls>>
       \/ /\ i2x # <<>>
          /\ GetMsg
          /\ polld' = IF RespOk(Head(i2x)) THEN "drain" ELSE "check"
    /\ UNCHANGED <<iohub, sender, worker, sent_msg, chan, firmware>>

\* sent_msg is cleared after mbox_lock is dropped.
PollEmpty ==
    /\ polld = "empty"
    /\ sent_msg' = FALSE /\ polld' = "check"
    /\ UNCHANGED <<ids, x2i, i2x, iohub, sender, calls, worker, chan, firmware>>
-----------------------------------------------------------------------------
(* Teardown: xdna_mailbox_stop_channel(), xdna_mailbox_destroy_channel().  *)

\* disable_irq(), and cancel_work_sync() takes rx_work off the queue.
StopIrq ==
    /\ chan = "open" /\ spc \in {"idle", "timeout"}
    /\ chan' = "stopping" /\ irq' = FALSE /\ rxq' = FALSE
    /\ UNCHANGED <<ids, x2i, i2x, iohub, sender, calls, rx, poller, firmware>>

\* cancel_work_sync() has waited for a worker that was running.
StopCancel ==
    /\ chan = "stopping" /\ rx = "idle"
    /\ chan' = "stopped"
    /\ UNCHANGED <<ids, x2i, i2x, iohub, sender, calls, worker, poller, firmware>>

\* xdna_mailbox_release_channel(): off the list, under mbox_lock.
ReleaseUnlist ==
    /\ chan = "stopped" /\ polld # "drain"
    /\ chan' = "unlisted"
    /\ UNCHANGED <<ids, x2i, i2x, iohub, sender, calls, worker, poller, firmware>>

\* mailbox_release_msg() for every message left in the table, and
\* xdna_mailbox_free_channel().
ReleaseMsgs ==
    /\ chan = "unlisted" /\ rx = "idle"
    /\ Call({chan_xa[e] : e \in Entry} \ {None})
    /\ chan' = "freed"
    /\ UNCHANGED <<ids, x2i, i2x, iohub, sender, worker, poller, firmware>>
-----------------------------------------------------------------------------
(* The firmware (external).                                                *)

FwTake ==
    /\ x2i # <<>>
    /\ fw' = Append(fw, Head(x2i)) /\ x2i' = Tail(x2i)
    /\ UNCHANGED <<ids, i2x, iohub, sender, calls, worker, poller, chan, ring, corrupt>>

\* It answers a context's messages in order, management messages (an async
\* event may come much later) in any order, and can fail.
FwPut(j) ==
    /\ ~ring
    /\ type = "mgmt" \/ j = 1
    /\ fw' = SubSeq(fw, 1, j - 1) \o SubSeq(fw, j + 1, Len(fw))
    /\ \/ /\ i2x' = Append(i2x, fw[j]) /\ UNCHANGED corrupt
       \/ /\ Faulty /\ ~corrupt /\ corrupt' = TRUE
          /\ i2x' = Append(i2x, [id |-> None, h |-> fw[j].h])
    /\ ring' = TRUE
    /\ UNCHANGED <<ids, x2i, iohub, sender, calls, worker, poller, chan>>

\* It sets the interrupt register.  "The hardware will not generate
\* interrupt if firmware creates a new response right after driver cleans up
\* interrupt register": while the worker runs, the interrupt may be lost.
FwRing ==
    /\ ring
    /\ ring' = FALSE /\ iohub' = TRUE
    /\ \/ irq /\ type # "poll" /\ rxq' = TRUE
       \/ (~irq \/ type = "poll" \/ rx # "idle") /\ UNCHANGED rxq
    /\ UNCHANGED <<ids, x2i, i2x, sender, calls, rx, irq, poller, chan, fw, corrupt>>
-----------------------------------------------------------------------------
Sender == SendPush \/ SendNoSpace \/ WaitDone \/ TimeoutReturn
Rx == RxStart \/ RxClear \/ RxGet \/ RxEmpty \/ RxRecheck
Poll == PollCheck \/ PollScan \/ PollDrain \/ PollEmpty
Teardown == StopCancel \/ ReleaseUnlist \/ ReleaseMsgs

Next == \/ \E k \in Kinds[type] : SendAcquire(k)
        \/ Sender \/ WaitTimeout
        \/ Rx \/ Poll
        \/ StopIrq \/ Teardown
        \/ FwTake \/ FwRing \/ \E j \in 1..Len(fw) : FwPut(j)

\* Threads that can run do, and firmware that put a response rings.  It need
\* not take or answer a message, and nobody need send or stop.
Spec == Init /\ [][Next]_vars
        /\ WF_vars(Sender) /\ WF_vars(Rx) /\ WF_vars(Poll) /\ WF_vars(Teardown)
        /\ WF_vars(FwRing)
-----------------------------------------------------------------------------
(* Properties *)

Msg == [id : Entry \cup {None}, h : Handle]

\* Type invariant of the channel.
TypeOK ==
    /\ type \in Types
    /\ chan_xa \in [Entry -> Handle \cup {None}]
    /\ next_msgid \in 0..Ids /\ last_msg_id \in Entry \cup {None}
    /\ bad_state \in BOOLEAN
    /\ x2i \in Seq(Msg) /\ i2x \in Seq(Msg) /\ iohub \in BOOLEAN
    /\ spc \in {"idle", "push", "wait", "timeout"}
    /\ cur \in Nat \ {0} /\ made \in 0..MaxMsgs
    /\ kind \in [Handle -> Kinds[type] \cup {"none"}]
    /\ cb \in [Handle -> Nat] /\ live \in [Handle -> BOOLEAN]
    /\ rx \in {"idle", "clear", "loop", "recheck"} /\ rxq \in BOOLEAN /\ irq \in BOOLEAN
    /\ polld \in {"check", "sleep", "scan", "drain", "empty"} /\ sent_msg \in BOOLEAN
    /\ chan \in {"open", "stopping", "stopped", "unlisted", "freed"}
    /\ fw \in Seq(Msg) /\ ring \in BOOLEAN /\ corrupt \in BOOLEAN

\* notify_cb() is called only for a sender that still expects it: never a
\* second time, and never on the stack of a caller that has returned.
CallbackOnLiveHandle ==
    [][\A h \in Handle : cb'[h] # cb[h] => live[h]]_vars

\* However a channel ends - idle, with responses unread, after a corrupt
\* response or a timeout - no message that was sent is left without its
\* callback when the channel is freed.
NothingForgotten ==
    chan = "freed" => \A h \in Handle : live[h] => cb[h] > 0

\* The messages between the two ends.
InFlight == {x2i[i] : i \in 1..Len(x2i)} \cup {fw[i] : i \in 1..Len(fw)}
            \cup {i2x[i] : i \in 1..Len(i2x)}

\* An id is not used again while its message is under way: a response always
\* finds the message it answers, whatever the order of answers, failed sends
\* and the wrap of the ids.
ResponseMatched ==
    \A m \in InFlight : m.id # None => chan_xa[m.id] = m.h

\* A firmware that answers every message correctly and in order is never
\* taken for a broken device, over the wrap of the ids too.
NoFalseBad == bad_state => corrupt

\* Every response the firmware has put is delivered, although the interrupt
\* may be lost while the worker runs and polld sleeps between messages; a
\* channel torn down before that calls back all the same.
ResponseDelivered ==
    \A h \in Handle :
        (\E i \in 1..Len(i2x) : i2x[i].h = h) ~> (cb[h] > 0 \/ bad_state)

\* xdna_mailbox_stop_channel(): "Stop receiving response and sending
\* messages".  Once it has returned no response leaves the ring of an
\* interrupt-driven channel.  polld goes on with a polled one until
\* xdna_mailbox_release_channel() has taken it off the list.
StoppedStaysQuiet ==
    [][\/ chan \in {"unlisted", "freed"}
       \/ chan = "stopped" /\ type # "poll"
       => Len(i2x') >= Len(i2x)]_vars

\* A sender is at a message it has made; one that it has not pushed yet has an
\* id and is not under way.
SenderAt ==
    /\ spc # "idle" => cur \in 1..made
    /\ spc = "push" => /\ cur = made /\ chan = "open"
                       /\ \E e \in Entry : chan_xa[e] = cur
                       /\ \A m \in InFlight : m.h # cur
    /\ spc \in {"wait", "timeout"} => kind[cur] = "wait"

\* A message is under way once, in one place.
OnceIn(s) == \A i, j \in 1..Len(s) : s[i].h = s[j].h => i = j
Apart(s, t) == \A i \in 1..Len(s), j \in 1..Len(t) : s[i].h # t[j].h
UnderWayOnce ==
    /\ OnceIn(x2i) /\ OnceIn(fw) /\ OnceIn(i2x)
    /\ Apart(x2i, fw) /\ Apart(x2i, i2x) /\ Apart(fw, i2x)
    /\ \A m \in InFlight : m.h \in 1..made /\ (m.id = None => corrupt)

\* Nobody waits on a context's channel while it is in service.
WaitsOnMgmt == \A t \in Types : "wait" \in Kinds[t] => t = "mgmt"

\* The table has an entry for every message whose callback is due, one each,
\* and only for such messages.
TableSound ==
    /\ \A h \in Handle : h > made => cb[h] = 0
    /\ \A h \in 1..made : kind[h] \in Kinds[type]
    /\ \A e \in Entry : chan_xa[e] # None =>
         /\ chan_xa[e] \in 1..made
         /\ chan # "freed" => /\ cb[chan_xa[e]] = 0
                              /\ WaitsOnMgmt => live[chan_xa[e]]
    /\ \A e, d \in Entry : chan_xa[e] # None /\ chan_xa[e] = chan_xa[d] => e = d
    /\ \A h \in Handle : live[h] /\ cb[h] = 0 =>
         chan # "freed" /\ \E e \in Entry : chan_xa[e] = h

\* Who can still receive: the worker until xdna_mailbox_stop_channel() has
\* returned, polld as long as the channel is on its list.
ReceiversStop ==
    /\ chan # "open" => ~irq /\ ~rxq
    /\ chan \in {"stopped", "unlisted", "freed"} => rx = "idle"
    /\ polld = "drain" => type = "poll" /\ chan \notin {"unlisted", "freed"}

\* The id a response of a context's channel must have next, the one k places
\* later, and the messages under way, the pushed and the one about to be.
NextResp == IF last_msg_id = None \/ last_msg_id = Ids - 1 THEN 0 ELSE last_msg_id + 1
Nth(k) == IF NextResp + k - 1 < Ids THEN NextResp + k - 1 ELSE NextResp + k - 1 - Ids
UnderWay == Len(i2x) + Len(fw) + Len(x2i)
Pushing == IF spc = "push" THEN 1 ELSE 0
Oldest == made - Pushing - UnderWay

\* The ids and handles under way on a context's channel follow each other from
\* the response that is due next to the message that was made last.
InSequence ==
    /\ UnderWay + Pushing <= Limit /\ Oldest >= 0
    /\ \A i \in 1..Len(i2x) : i2x[i].id = Nth(i) /\ i2x[i].h = Oldest + i
    /\ \A i \in 1..Len(fw) : /\ fw[i].id = Nth(Len(i2x) + i)
                             /\ fw[i].h = Oldest + Len(i2x) + i
    /\ \A i \in 1..Len(x2i) : /\ x2i[i].id = Nth(Len(i2x) + Len(fw) + i)
                              /\ x2i[i].h = Oldest + Len(i2x) + Len(fw) + i
    /\ spc = "push" => chan_xa[Nth(UnderWay + 1)] = cur
    /\ (IF next_msgid = Ids THEN 0 ELSE next_msgid) = Nth(UnderWay + Pushing + 1)
    /\ \A e \in Entry : chan_xa[e] # None => \E k \in 1..(UnderWay + Pushing) : e = Nth(k)

\* The X2I ring and the ids are enough for all outstanding commands: a message
\* that is refused uses up an id, and the next response would not follow.
RoomForAll == Limit <= Cap /\ Limit <= Ids

OrderKept == WaitsOnMgmt /\ RoomForAll /\ type # "mgmt" /\ ~corrupt => InSequence

\* At every moment an id under way leads to its message, and at the end no
\* message is left: the table of messages neither mixes up nor forgets any.
\* The other conjuncts are what makes this inductive.
ChannelInv == /\ TypeOK /\ ResponseMatched /\ NothingForgotten
              /\ SenderAt /\ UnderWayOnce /\ TableSound /\ ReceiversStop /\ OrderKept

\* No callback reaches a sender that no longer expects it, and none is taken
\* from the ring of a channel that has been stopped.
CallbacksExpected == CallbackOnLiveHandle /\ StoppedStaysQuiet
=============================================================================
