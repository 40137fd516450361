-------------------------------- MODULE RsTx --------------------------------
(***************************************************************************)
(* The transmit path of the driver: the network stack's senders            *)
(* (ndo_start_xmit and cfg80211's mgmt_tx) push frames into two bounded    *)
(* queues and post an event; one kernel thread, c_tx_thread, waits for the *)
(* event, drains the queues towards the chip while the chip has room, and  *)
(* posts the event again if something is left.  A queue that fills stops   *)
(* the interface of the frame that filled it; the thread starts interfaces *)
(* again after a pass.  The module also has the rest of what touches this  *)
(* state: the status words the RX side copies in, the scan gate, opening   *)
(* and closing interfaces, the connect and disconnect indications, and the *)
(* shutdown of the thread.                                                 *)
(*                                                                         *)
(* Sources: core/rs_c_tx.c, net/linux/rs_net_tx_data.c, and the event and  *)
(* thread primitives of kal/linux.  A queue is the FIFO RsRing implements; *)
(* a frame is the index of its interface, the only part the driver reads   *)
(* back.  One action stands for the code between two accesses to state     *)
(* that another thread can change.                                         *)
(***************************************************************************)
EXTENDS Naturals, Sequences

CONSTANTS
  DataSender, \* threads of the network stack in ndo_start_xmit
  MgmtSender, \* threads in cfg80211's mgmt_tx; cfg80211 lets in one at a time
  Vif,        \* interface indices
  Cap,        \* depth of each queue: Cap["AC"], Cap["POWER"]
  Threshold,  \* C_TX_BUFFER_THRESHOLD, frames between two reads of the room left
  Statuses,   \* status words the chip may report, a bound on its inputs
  None        \* no interface, no lock holder: -1

\* IF_DATA_AC carries data frames, IF_DATA_AC_POWER management frames.
Ac == {"AC", "POWER"}

\* full: the C_BITS_TX_*_FULL bits; avail: the C_STATUS_TX_*_AVAIL_CNT bytes.
StatusType == [full : [Ac -> BOOLEAN], avail : [Ac -> 0..255]]

Sender == DataSender \cup MgmtSender

\* The queue a sender's frames go to.
AcOf(s) == IF s \in MgmtSender THEN "POWER" ELSE "AC"

ASSUME CapAssumption == Cap \in [Ac -> Nat \ {0}]
ASSUME ThresholdAssumption == Threshold \in Nat \ {0, 1}
ASSUME StatusAssumption == Statuses \subseteq StatusType /\ Statuses # {}
ASSUME SenderAssumption == DataSender \cap MgmtSender = {}
ASSUME NoneAssumption == None \notin Sender /\ None \notin Vif

VARIABLES
  queue,       \* buf_q and buf_power_q with their slots
  lock,        \* tx_data.spin_lock, where it is held across two steps
  condition,   \* the event's atomic: a set of event bits
  status,      \* core->status.value
  scan,        \* core->scan
  up,          \* vif_priv->up
  carrier,     \* netif_carrier_ok
  net_tx_stopped, \* the driver's record that it stopped the interface
  xoff,        \* the stack's state: the interface's queues are stopped
  tpc,         \* c_tx_thread: where it is
  ret_event,   \*   the event bits it woke with
  ac,          \*   c_tx_data's argument
  vif_idx,     \*   interface of the last frame popped in this pass
  tx_cnt,      \*   frames popped since the room left was read
  avail_cnt,   \*   the room left when it was read
  event,       \*   rs_c_tx_event_post's local
  spc,         \* a sender: where it is
  svif,        \*   the interface of the frame it sends
  sev,         \*   rs_c_tx_event_post's local
  ipc, ivif,   \* the indication thread in net_sm_(dis)connect_ind
  dpc,         \* rs_core_deinit: where it is
  should_stop  \* kthread_should_stop()

netVars    == <<up, carrier, net_tx_stopped, xoff>>
threadVars == <<tpc, ret_event, ac, vif_idx, tx_cnt, avail_cnt, event>>
passVars   == <<ac, vif_idx, tx_cnt, avail_cnt>>
senderVars == <<spc, svif, sev>>
indiVars   == <<ipc, ivif>>
deinitVars == <<dpc, should_stop>>
envVars    == <<status, scan>>

vars == <<queue, lock, condition, envVars, netVars, threadVars, senderVars,
          indiVars, deinitVars>>

K_EVENT_INIT  == {}
RS_C_TX_EVENT == {"AC", "POWER"}                \* the mask the thread waits for
K_EVENT_EXIT  == {"AC", "POWER", "OTHER"}       \* 0xFFFF

-----------------------------------------------------------------------------
InitWith(connected) ==
  /\ queue = [a \in Ac |-> <<>>]
  /\ lock = None
  /\ condition = K_EVENT_INIT
  /\ status \in Statuses
  /\ scan = FALSE
  /\ up = [v \in Vif |-> connected]
  /\ carrier = [v \in Vif |-> connected]
  /\ net_tx_stopped = [v \in Vif |-> FALSE]
  /\ xoff = [v \in Vif |-> FALSE]
  /\ tpc = "wait"
  /\ ret_event = {}
  /\ ac = "AC"
  /\ vif_idx = None
  /\ tx_cnt = 0
  /\ avail_cnt = 0
  /\ event = {}
  /\ spc = [s \in Sender |-> "idle"]
  /\ svif = [s \in Sender |-> None]
  /\ sev = [s \in Sender |-> {}]
  /\ ipc = "idle"
  /\ ivif = None
  /\ dpc = "none"
  /\ should_stop = FALSE

\* The module is loaded: interfaces exist, none is open.
Init == InitWith(FALSE)

-----------------------------------------------------------------------------
(* rs_net_if_tx_stop: nothing on an interface that is down; otherwise the  *)
(* flag is tested and set, then the stack is told, in two steps that no    *)
(* lock joins on the start side.                                           *)

MustStop(v)  == up[v] /\ ~net_tx_stopped[v]
MustStart(v) == up[v] /\ net_tx_stopped[v]

SetFlag(v, b) == net_tx_stopped' = [net_tx_stopped EXCEPT ![v] = b]
SetXoff(v, b) == xoff' = [xoff EXCEPT ![v] = b]

-----------------------------------------------------------------------------
(* Senders: rs_net_tx_data or rs_net_tx_mgmt, then rs_c_tx_event_post.     *)

\* The stack calls ndo_start_xmit only on a running queue with carrier; a
\* management frame needs only the interface.
Xmit(s, v) ==
  /\ dpc = "none"
  /\ spc[s] = "idle"
  /\ up[v]
  /\ s \in DataSender => carrier[v] /\ ~xoff[v]
  /\ spc' = [spc EXCEPT ![s] = "push"]
  /\ svif' = [svif EXCEPT ![s] = v]
  /\ UNCHANGED <<queue, lock, condition, envVars, netVars, threadVars, sev,
                 indiVars, deinitVars>>

\* c_tx_push: a full queue refuses the frame; a queue that is full afterwards
\* stops the interface, still under the spin lock.
Push(s) ==
  LET full == Len(queue[AcOf(s)]) = Cap[AcOf(s)]
      q2   == IF full THEN queue[AcOf(s)] ELSE Append(queue[AcOf(s)], svif[s])
      stop == Len(q2) = Cap[AcOf(s)]
  IN  /\ spc[s] = "push"
      /\ lock = None
      /\ queue' = [queue EXCEPT ![AcOf(s)] = q2]
      /\ lock' = IF stop THEN s ELSE None
      /\ spc' = [spc EXCEPT ![s] = IF stop THEN "stop" ELSE "chk_ac"]
      /\ UNCHANGED <<condition, envVars, netVars, threadVars, svif, sev,
                     indiVars, deinitVars>>

\* Mutant: rs_net_if_tx_stop returning early leaves the spin lock held.
BugPushStopFlag(s) ==
  /\ spc[s] = "stop"
  /\ IF MustStop(svif[s])
     THEN SetFlag(svif[s], TRUE) /\ spc' = [spc EXCEPT ![s] = "stop_netif"]
     ELSE spc' = [spc EXCEPT ![s] = "chk_ac"] /\ UNCHANGED net_tx_stopped
  /\ UNCHANGED <<queue, lock, condition, envVars, up, carrier, xoff, threadVars,
                 svif, sev, indiVars, deinitVars>>

PushStopFlag(s) ==
  /\ spc[s] = "stop"
  /\ IF MustStop(svif[s])
     THEN /\ SetFlag(svif[s], TRUE)
          /\ spc' = [spc EXCEPT ![s] = "stop_netif"]
          /\ UNCHANGED lock
     ELSE /\ spc' = [spc EXCEPT ![s] = "chk_ac"]
          /\ lock' = None
          /\ UNCHANGED net_tx_stopped
  /\ UNCHANGED <<queue, condition, envVars, up, carrier, xoff, threadVars, svif,
                 sev, indiVars, deinitVars>>

PushStopNetif(s) ==
  /\ spc[s] = "stop_netif"
  /\ SetXoff(svif[s], TRUE)
  /\ lock' = None
  /\ spc' = [spc EXCEPT ![s] = "chk_ac"]
  /\ UNCHANGED <<queue, condition, envVars, up, carrier, net_tx_stopped,
                 threadVars, svif, sev, indiVars, deinitVars>>

\* The two queues are read one after the other, without the lock.
SenderCheckAc(s) ==
  /\ spc[s] = "chk_ac"
  /\ sev' = [sev EXCEPT ![s] = IF queue["AC"] # <<>> THEN {"AC"} ELSE {}]
  /\ spc' = [spc EXCEPT ![s] = "chk_power"]
  /\ UNCHANGED <<queue, lock, condition, envVars, netVars, threadVars, svif, indiVars, deinitVars>>

SenderCheckPower(s) ==
  /\ spc[s] = "chk_power"
  /\ sev' = [sev EXCEPT ![s] = IF queue["POWER"] # <<>> THEN @ \cup {"POWER"} ELSE @]
  /\ spc' = [spc EXCEPT ![s] = "post"]
  /\ UNCHANGED <<queue, lock, condition, envVars, netVars, threadVars, svif, indiVars, deinitVars>>

\* rs_k_event_post overwrites the event's bits.
SenderPost(s) ==
  /\ spc[s] = "post"
  /\ condition' = IF sev[s] # {} THEN sev[s] ELSE condition
  /\ spc' = [spc EXCEPT ![s] = "idle"]
  /\ svif' = [svif EXCEPT ![s] = None]
  /\ sev' = [sev EXCEPT ![s] = {}]
  /\ UNCHANGED <<queue, lock, envVars, netVars, threadVars, indiVars, deinitVars>>

SenderStep(s) ==
  \/ Push(s) \/ PushStopFlag(s) \/ PushStopNetif(s)
  \/ SenderCheckAc(s) \/ SenderCheckPower(s) \/ SenderPost(s)

-----------------------------------------------------------------------------
(* c_tx_thread and c_tx_data                                               *)

ThreadUnchanged == UNCHANGED <<senderVars, indiVars, deinitVars, envVars>>

ThreadWait ==
  /\ tpc = "wait"
  /\ condition \cap RS_C_TX_EVENT # {}
  /\ ret_event' = condition
  /\ tpc' = "ac"
  /\ UNCHANGED <<queue, lock, condition, netVars, passVars, event>>
  /\ ThreadUnchanged

\* c_tx_data(a) begins: the room left is read once.
BeginPass(a) ==
  /\ ac' = a
  /\ avail_cnt' = status.avail[a]
  /\ tx_cnt' = 0
  /\ vif_idx' = None
  /\ tpc' = "test"

\* Where the thread goes after c_tx_data(a).
AfterPass(a) == IF a = "AC" THEN "power" ELSE "reset"

ThreadAc ==
  /\ tpc = "ac"
  /\ \/ "AC" \in ret_event /\ BeginPass("AC")
     \/ "AC" \notin ret_event /\ tpc' = "power" /\ UNCHANGED passVars
  /\ UNCHANGED <<queue, lock, condition, netVars, ret_event, event>>
  /\ ThreadUnchanged

ThreadPower ==
  /\ tpc = "power"
  /\ \/ "POWER" \in ret_event /\ BeginPass("POWER")
     \/ "POWER" \notin ret_event /\ tpc' = "reset" /\ UNCHANGED passVars
  /\ UNCHANGED <<queue, lock, condition, netVars, ret_event, event>>
  /\ ThreadUnchanged

\* After the loop the interface of the last frame popped is started.
LeaveLoop == IF vif_idx # None THEN "start" ELSE AfterPass(ac)

\* The loop's condition, first part: not stopping, a frame, no scan.
ThreadTest ==
  /\ tpc = "test"
  /\ tpc' = IF ~should_stop /\ queue[ac] # <<>> /\ ~scan THEN "test_room" ELSE LeaveLoop
  /\ UNCHANGED <<queue, lock, condition, netVars, ret_event, passVars, event>>
  /\ ThreadUnchanged

\* Second part, against the status words: the chip's queue is not full and
\* the room left is not used up.
ThreadTestRoom ==
  /\ tpc = "test_room"
  /\ tpc' = IF ~status.full[ac] /\ tx_cnt < avail_cnt THEN "pop" ELSE LeaveLoop
  /\ UNCHANGED <<queue, lock, condition, netVars, ret_event, passVars, event>>
  /\ ThreadUnchanged

\* c_tx_pop; the queue is not empty because only this thread takes from it.
ThreadPop ==
  /\ tpc = "pop"
  /\ lock = None
  /\ queue[ac] # <<>>
  /\ vif_idx' = Head(queue[ac])
  /\ queue' = [queue EXCEPT ![ac] = Tail(@)]
  /\ tpc' = "send"
  /\ UNCHANGED <<lock, condition, netVars, ret_event, ac, tx_cnt, avail_cnt, event>>
  /\ ThreadUnchanged

\* Mutant: the count is not started again when the room left is read.
BugThreadSend ==
  /\ tpc = "send"
  /\ tx_cnt' = tx_cnt + 1
  /\ avail_cnt' = IF tx_cnt + 1 > 1 /\ (tx_cnt + 1) % Threshold = 0
                  THEN status.avail[ac] ELSE avail_cnt
  /\ tpc' = "test"
  /\ UNCHANGED <<queue, lock, condition, netVars, ret_event, ac, vif_idx, event>>
  /\ ThreadUnchanged

\* The frame goes to the bus, or is dropped if its interface went down; every
\* Threshold frames the room left is read again and the count starts over.
ThreadSend ==
  LET n == tx_cnt + 1
      again == n > 1 /\ n % Threshold = 0
  IN  /\ tpc = "send"
      /\ tx_cnt' = IF again THEN 0 ELSE n
      /\ avail_cnt' = IF again THEN status.avail[ac] ELSE avail_cnt
      /\ tpc' = "test"
      /\ UNCHANGED <<queue, lock, condition, netVars, ret_event, ac, vif_idx, event>>
      /\ ThreadUnchanged

ThreadStartFlag ==
  /\ tpc = "start"
  /\ IF MustStart(vif_idx)
     THEN SetFlag(vif_idx, FALSE) /\ tpc' = "start_netif"
     ELSE tpc' = AfterPass(ac) /\ UNCHANGED net_tx_stopped
  /\ UNCHANGED <<queue, lock, condition, up, carrier, xoff, ret_event, passVars, event>>
  /\ ThreadUnchanged

ThreadStartNetif ==
  /\ tpc = "start_netif"
  /\ SetXoff(vif_idx, FALSE)
  /\ tpc' = AfterPass(ac)
  /\ UNCHANGED <<queue, lock, condition, up, carrier, net_tx_stopped, ret_event,
                 passVars, event>>
  /\ ThreadUnchanged

\* Mutant: the thread waits again without looking at the queues (the shape of
\* the RX and indication threads).
BugThreadReset ==
  /\ tpc = "reset"
  /\ condition' = K_EVENT_INIT
  /\ tpc' = "again"
  /\ ac' = "AC" /\ vif_idx' = None /\ tx_cnt' = 0 /\ avail_cnt' = 0
  /\ UNCHANGED <<queue, lock, netVars, ret_event, event>>
  /\ ThreadUnchanged

\* c_tx_data's locals are dead here.
ThreadReset ==
  /\ tpc = "reset"
  /\ condition' = K_EVENT_INIT
  /\ tpc' = "chk_ac"
  /\ ac' = "AC" /\ vif_idx' = None /\ tx_cnt' = 0 /\ avail_cnt' = 0
  /\ UNCHANGED <<queue, lock, netVars, ret_event, event>>
  /\ ThreadUnchanged

\* rs_c_tx_event_post(RS_IF_DATA_MAX, 0, NULL): no push, the checks and a post.
ThreadCheckAc ==
  /\ tpc = "chk_ac"
  /\ event' = IF queue["AC"] # <<>> THEN {"AC"} ELSE {}
  /\ tpc' = "chk_power"
  /\ UNCHANGED <<queue, lock, condition, netVars, ret_event, passVars>>
  /\ ThreadUnchanged

\* Mutant: only the data queue is looked at again.
BugThreadCheckPower ==
  /\ tpc = "chk_power"
  /\ tpc' = "post"
  /\ UNCHANGED <<queue, lock, condition, netVars, ret_event, passVars, event>>
  /\ ThreadUnchanged

ThreadCheckPower ==
  /\ tpc = "chk_power"
  /\ event' = IF queue["POWER"] # <<>> THEN event \cup {"POWER"} ELSE event
  /\ tpc' = "post"
  /\ UNCHANGED <<queue, lock, condition, netVars, ret_event, passVars>>
  /\ ThreadUnchanged

ThreadPost ==
  /\ tpc = "post"
  /\ condition' = IF event # {} THEN event ELSE condition
  /\ event' = {}
  /\ tpc' = "again"
  /\ UNCHANGED <<queue, lock, netVars, ret_event, passVars>>
  /\ ThreadUnchanged

\* The outer loop's condition; on the way out the event is freed.
ThreadAgain ==
  /\ tpc = "again"
  /\ tpc' = IF ~should_stop /\ ret_event # K_EVENT_EXIT THEN "wait" ELSE "exited"
  /\ ret_event' = {}
  /\ UNCHANGED <<queue, lock, condition, netVars, passVars, event>>
  /\ ThreadUnchanged

ThreadStep ==
  \/ ThreadWait \/ ThreadAc \/ ThreadPower
  \/ ThreadTest \/ ThreadTestRoom \/ ThreadPop \/ ThreadSend
  \/ ThreadStartFlag \/ ThreadStartNetif
  \/ ThreadReset \/ ThreadCheckAc \/ ThreadCheckPower \/ ThreadPost \/ ThreadAgain

-----------------------------------------------------------------------------
(* The indication thread in net_sm_connect_ind and net_sm_disconnect_ind:  *)
(* start or stop the interface, then switch the carrier.  The carrier is   *)
(* switched in the step that ends rs_net_if_tx_stop: a stopped queue or a  *)
(* missing carrier alone already keeps the stack from sending.             *)

IndiUnchanged == UNCHANGED <<queue, lock, condition, envVars, threadVars, senderVars, deinitVars>>

SetCarrier(v, b) == carrier' = [carrier EXCEPT ![v] = b]

ConnectInd(v) ==
  /\ dpc = "none" /\ ipc = "idle" /\ up[v]
  /\ IF MustStart(v)
     THEN SetFlag(v, FALSE) /\ ipc' = "start_netif" /\ ivif' = v /\ UNCHANGED carrier
     ELSE SetCarrier(v, TRUE) /\ UNCHANGED <<net_tx_stopped, indiVars>>
  /\ UNCHANGED <<up, xoff>>
  /\ IndiUnchanged

ConnectIndNetif ==
  /\ ipc = "start_netif"
  /\ SetXoff(ivif, FALSE)
  /\ SetCarrier(ivif, TRUE)
  /\ ipc' = "idle" /\ ivif' = None
  /\ UNCHANGED <<up, net_tx_stopped>>
  /\ IndiUnchanged

DisconnectInd(v) ==
  /\ dpc = "none" /\ ipc = "idle" /\ up[v]
  /\ IF MustStop(v)
     THEN SetFlag(v, TRUE) /\ ipc' = "stop_netif" /\ ivif' = v /\ UNCHANGED carrier
     ELSE SetCarrier(v, FALSE) /\ UNCHANGED <<net_tx_stopped, indiVars>>
  /\ UNCHANGED <<up, xoff>>
  /\ IndiUnchanged

DisconnectIndNetif ==
  /\ ipc = "stop_netif"
  /\ SetXoff(ivif, TRUE)
  /\ SetCarrier(ivif, FALSE)
  /\ ipc' = "idle" /\ ivif' = None
  /\ UNCHANGED <<up, net_tx_stopped>>
  /\ IndiUnchanged

IndiStep == ConnectIndNetif \/ DisconnectIndNetif

-----------------------------------------------------------------------------
(* Interfaces, the chip and the scan gate                                  *)

EnvUnchanged == UNCHANGED <<queue, lock, condition, threadVars, senderVars, indiVars>>

\* ndo_open.  AP_VLAN interfaces, whose queues it stops, are not in the model.
Open(v) ==
  /\ dpc = "none" /\ ~up[v]
  /\ up' = [up EXCEPT ![v] = TRUE]
  /\ carrier' = [carrier EXCEPT ![v] = FALSE]
  /\ UNCHANGED <<net_tx_stopped, xoff, envVars, deinitVars>>
  /\ EnvUnchanged

\* ndo_close: the stack has waited for the data senders of the interface.
\* up is cleared before rs_net_if_tx_stop is called, which then does nothing:
\* the driver's flag and the stack's state outlive the interface's session.
Close(v) ==
  /\ dpc = "none" /\ up[v]
  /\ \A s \in DataSender : ~(spc[s] # "idle" /\ svif[s] = v)
  /\ up' = [up EXCEPT ![v] = FALSE]
  /\ carrier' = [carrier EXCEPT ![v] = FALSE]
  /\ UNCHANGED <<net_tx_stopped, xoff, envVars, deinitVars>>
  /\ EnvUnchanged

\* net_cfg80211_start_ap, answered by the chip: the stack's queues are started,
\* the driver's own flag is not looked at.
StartAp(v) ==
  /\ dpc = "none" /\ up[v]
  /\ SetXoff(v, FALSE)
  /\ SetCarrier(v, TRUE)
  /\ UNCHANGED <<up, net_tx_stopped, envVars, deinitVars>>
  /\ EnvUnchanged

\* rs_c_set_status: any message of the chip carries its status words.
SetStatus ==
  /\ status' \in Statuses
  /\ UNCHANGED <<scan, netVars, deinitVars>>
  /\ EnvUnchanged

\* A scan begins, is aborted or completes.
SetScan ==
  /\ dpc = "none"
  /\ scan' = ~scan
  /\ UNCHANGED <<status, netVars, deinitVars>>
  /\ EnvUnchanged

-----------------------------------------------------------------------------
(* rs_core_deinit: the network side is taken down first, so nobody sends   *)
(* any more when the thread is stopped.                                    *)

NetDeinit ==
  /\ dpc = "none"
  /\ \A s \in Sender : spc[s] = "idle"
  /\ ipc = "idle"
  /\ up' = [v \in Vif |-> FALSE]
  /\ carrier' = [v \in Vif |-> FALSE]
  /\ dpc' = "post_exit"
  /\ UNCHANGED <<net_tx_stopped, xoff, envVars, should_stop>>
  /\ EnvUnchanged

DeinitUnchanged ==
  UNCHANGED <<lock, envVars, netVars, threadVars, senderVars, indiVars>>

DeinitPostExit ==
  /\ dpc = "post_exit"
  /\ condition' = K_EVENT_EXIT
  /\ dpc' = "kthread_stop"
  /\ UNCHANGED <<queue, should_stop>>
  /\ DeinitUnchanged

\* kthread_stop wakes the thread, but the wait's condition is the event's bits.
DeinitKthreadStop ==
  /\ dpc = "kthread_stop"
  /\ should_stop' = TRUE
  /\ dpc' = "join"
  /\ UNCHANGED <<queue, condition>>
  /\ DeinitUnchanged

\* The thread has ended: c_tx_q_free drops what is left.
DeinitFree ==
  /\ dpc = "join" /\ tpc = "exited"
  /\ queue' = [a \in Ac |-> <<>>]
  /\ dpc' = "done"
  /\ UNCHANGED <<condition, should_stop>>
  /\ DeinitUnchanged

DeinitStep == DeinitPostExit \/ DeinitKthreadStop \/ DeinitFree

-----------------------------------------------------------------------------
Next ==
  \/ \E s \in Sender : (\E v \in Vif : Xmit(s, v)) \/ SenderStep(s)
  \/ ThreadStep
  \/ \E v \in Vif : ConnectInd(v) \/ DisconnectInd(v) \/ Open(v) \/ Close(v) \/ StartAp(v)
  \/ IndiStep
  \/ SetStatus
  \/ SetScan
  \/ NetDeinit
  \/ DeinitStep

Spec == Init /\ [][Next]_vars

\* The driver in service: interfaces open and connected for good, while senders
\* send and the chip reports its status (its full bit shuts the thread's gate as
\* a scan does).
InitConnected == InitWith(TRUE)

NextConnected ==
  \/ \E s \in Sender : (\E v \in Vif : Xmit(s, v)) \/ SenderStep(s)
  \/ ThreadStep
  \/ SetStatus

ConnectedSpec == InitConnected /\ [][NextConnected]_vars

\* Threads that can run do run, and the kernel's queued spin locks let every
\* waiter in: a thread inside the driver reaches the end of its call.  Nobody
\* has to send, open, scan or unload.
Fairness ==
  /\ WF_vars(ThreadStep)
  /\ SF_vars(ThreadPop)
  /\ \A s \in Sender : WF_vars(SenderStep(s))

FairConnectedSpec == ConnectedSpec /\ Fairness

\* With the unloading, which runs to its end once begun.
FairSpec == Spec /\ Fairness /\ WF_vars(DeinitStep)

-----------------------------------------------------------------------------
(* Properties *)

ThreadPcs == {"wait", "ac", "test", "test_room", "pop", "send", "start", "start_netif",
              "power", "reset", "chk_ac", "chk_power", "post", "again", "exited"}
SenderPcs == {"idle", "push", "stop", "stop_netif", "chk_ac", "chk_power", "post"}

\* The types, and the discipline of the spin lock: who is stopping an
\* interface from c_tx_push is who holds it.
TxTypeOK ==
  /\ queue \in [Ac -> Seq(Vif)]
  /\ \A a \in Ac : Len(queue[a]) <= Cap[a]
  /\ condition \in SUBSET K_EVENT_EXIT
  /\ status \in StatusType
  /\ scan \in BOOLEAN /\ should_stop \in BOOLEAN
  /\ up \in [Vif -> BOOLEAN] /\ carrier \in [Vif -> BOOLEAN]
  /\ net_tx_stopped \in [Vif -> BOOLEAN] /\ xoff \in [Vif -> BOOLEAN]
  /\ tpc \in ThreadPcs
  /\ ret_event \in SUBSET K_EVENT_EXIT
  /\ ac \in Ac
  /\ vif_idx \in Vif \cup {None}
  /\ tx_cnt \in Nat /\ avail_cnt \in 0..255
  /\ event \in SUBSET RS_C_TX_EVENT
  /\ spc \in [Sender -> SenderPcs]
  /\ svif \in [Sender -> Vif \cup {None}]
  /\ sev \in [Sender -> SUBSET RS_C_TX_EVENT]
  /\ ipc \in {"idle", "start_netif", "stop_netif"}
  /\ ivif \in Vif \cup {None}
  /\ dpc \in {"none", "post_exit", "kthread_stop", "join", "done"}
  /\ lock \in Sender \cup {None}
  /\ \A s \in Sender :
       /\ lock = s <=> spc[s] \in {"stop", "stop_netif"}
       /\ spc[s] # "idle" => svif[s] \in Vif
  /\ ipc # "idle" => ivif \in Vif
  /\ tpc \in {"send", "start", "start_netif"} => vif_idx \in Vif
  /\ tpc \in {"test_room", "pop"} => queue[ac] # <<>>

FramesQueued == \E a \in Ac : queue[a] # <<>>

\* The thread will still read the queues before it waits, or has read a frame
\* and not posted yet.
ThreadWillPost ==
  \/ tpc \notin {"wait", "chk_power", "post", "again", "exited"}
  \/ tpc = "chk_power" /\ (event # {} \/ queue["POWER"] # <<>>)
  \/ tpc = "post" /\ event # {}

\* The same of a sender that has pushed.
SenderWillPost(s) ==
  \/ spc[s] \in {"stop", "stop_netif", "chk_ac"}
  \/ spc[s] = "chk_power" /\ (sev[s] # {} \/ queue["POWER"] # <<>>)
  \/ spc[s] = "post" /\ sev[s] # {}

\* No wake-up is lost: although posting overwrites the event's bits, the thread
\* clears bits it has not acted on (rs_k_event_reset), and the two queues are
\* read one after the other without a lock, as long as a frame is queued the
\* event is up or somebody is about to post it, until the thread has ended.
NoLostWakeup ==
  FramesQueued =>
    \/ condition \cap RS_C_TX_EVENT # {}
    \/ ThreadWillPost
    \/ \E s \in Sender : SenderWillPost(s)
    \/ tpc = "exited"

\* The driver never writes more than Threshold frames on one reading of the
\* chip's room left: by then c_tx_data has read it again, in the middle of the
\* pass, or has left.
RoomReadOften == tx_cnt < Threshold

Other(a) == IF a = "AC" THEN "POWER" ELSE "AC"

Ready(a) ==
  dpc = "none" /\ ~scan /\ ~status.full[a] /\ status.avail[a] > 0

\* A pass over the other queue ends by itself: with room for Threshold frames
\* or more it goes on as long as senders keep up.
OtherPassEnds(a) == status.avail[Other(a)] < Threshold

Drains(a) ==
  <>[](Ready(a) /\ OtherPassEnds(a)) => []<>(queue[a] = <<>> \/ (tpc = "send" /\ ac = a))

\* Once the chip keeps having room for data frames and no scan runs, queued data
\* frames keep leaving, whatever senders, indications and status words do.
DataDrains == Drains("AC")

\* The same for management frames.
PowerDrains == Drains("POWER")

Quiescent ==
  /\ queue = [a \in Ac |-> <<>>]
  /\ condition = K_EVENT_INIT
  /\ tpc = "wait"
  /\ \A s \in Sender : spc[s] = "idle"
  /\ ipc = "idle" /\ dpc = "none"

\* "Stop net_if" and "Start net_if" (rs_c_tx.c): when everything queued has been
\* sent, no connected interface is left stopped.  The code breaks
\* it: see README, Findings.
NoVifLeftStopped ==
  Quiescent => \A v \in Vif : up[v] /\ carrier[v] => ~xoff[v]

\* "thread stop and wait completion" (rs_k_thread.c): once rs_c_tx_deinit calls
\* kthread_stop, the thread ends and the queues are freed.  The code breaks it:
\* see README, Findings.
StopCompletes == dpc = "join" ~> dpc = "done"
=============================================================================
