-------------------------------- MODULE RsRx --------------------------------
(***************************************************************************)
(* The receive side of the driver.  The chip's interrupt posts an event;   *)
(* c_rx_thread wakes, allocates a buffer, reads one message after another  *)
(* from the bus until the chip's status words say that it has no more, and *)
(* hands a frame or an indication with its buffer to a bounded ring and    *)
(* the event of the thread that works on that ring.  A response is copied  *)
(* for the control path (RsCtrl) and a status message only updates the     *)
(* status words; both leave the buffer with the RX thread, which reads the *)
(* next message into it.                                                   *)
(*                                                                         *)
(* Sources: core/rs_c_rx.c, core/rs_c_indi.c, core/rs_c_status.c,          *)
(* core/rs_c_if.c and the event and thread primitives of kal/linux.  What  *)
(* the network layer does with a message is in RsNet.  A buffer has an     *)
(* identity and a content, because handing it over is what can go wrong.   *)
(***************************************************************************)
EXTENDS Naturals, Sequences

CONSTANTS
  Buf,       \* buffers the allocator can give out
  Payload,   \* what tells two messages of each kind apart
  Cap,       \* depth of the rings: Cap["data"], Cap["indi"]
  ChipDepth, \* messages the chip can hold, a bound on their number
  None       \* no buffer, no message

Kind    == {"data", "indi"}            \* handed to a thread, with the buffer
Thread  == {"rx"} \cup Kind
\* "own" stands for what the RX thread finishes alone: a response or bare status words.
Message == (UNION {[kind : {k}, val : Payload[k]] : k \in Kind}) \cup [kind : {"own", "other"}, val : {None}]

ASSUME CapAssumption == Cap \in [Kind -> Nat \ {0}]
ASSUME DepthAssumption == ChipDepth \in Nat
ASSUME BufAssumption == None \notin Buf /\ None \notin Message

VARIABLES
  chip,       \* how many messages the chip holds; which they are shows when they are read
  irq,        \* the chip's interrupt is pending
  rx_empty,   \* the RX_EMPTY bit of status.value
  mem,        \* content of each buffer; None: not allocated
  queue,      \* buf_q with its slots, of each kind
  event,      \* each thread's event: "none", "post" (1) or "exit" (0xFFFF)
  pc,         \* each thread: where it is
  woke,       \*   what rs_k_event_wait returned
  rx_buf,     \* c_rx_push: temp_rx_buf
  buf,        \* the other two threads: temp_rx_data, temp_indi_data
  should_stop,\* kthread_should_stop() of each thread
  dpc         \* rs_core_deinit: where it is

threadVars == <<pc, woke>>
deinitVars == <<should_stop, dpc>>
chipVars   == <<chip, irq>>

vars == <<chipVars, rx_empty, mem, queue, event, threadVars, rx_buf, buf,
          deinitVars>>

Init ==
  /\ chip = 0 /\ irq = FALSE
  /\ rx_empty = FALSE               \* status.value is allocated zeroed
  /\ mem = [b \in Buf |-> None]
  /\ queue = [k \in Kind |-> <<>>]
  /\ event = [t \in Thread |-> "none"]
  /\ pc = [t \in Thread |-> "wait"]
  /\ woke = [t \in Thread |-> "none"]
  /\ rx_buf = None
  /\ buf = [k \in Kind |-> None]
  /\ should_stop = [t \in Thread |-> FALSE]
  /\ dpc = "none"

Goto(t, there) == pc' = [pc EXCEPT ![t] = there]

\* Places that differ only in the ring or the thread they are about.
CheckAt(k) == IF k = "data" THEN "check_data" ELSE "check_indi"
PostAt(k)  == IF k = "data" THEN "post_data" ELSE "post_indi"
StopAt(t)  == CASE t = "rx" -> "stop_rx" [] t = "data" -> "stop_data" [] OTHER -> "stop_indi"
JoinAt(t)  == CASE t = "rx" -> "join_rx" [] t = "data" -> "join_data" [] OTHER -> "join_indi"

-----------------------------------------------------------------------------
(* The loop around the work, the same in the three threads                 *)

Wait(t, work) ==
  /\ pc[t] = "wait"
  /\ event[t] # "none"
  /\ woke' = [woke EXCEPT ![t] = event[t]]
  /\ Goto(t, IF event[t] = "post" THEN work ELSE "reset")
  /\ UNCHANGED <<chipVars, rx_empty, mem, queue, event, rx_buf, buf, deinitVars>>

\* The event is cleared with whatever was posted during the work.
Reset(t) ==
  /\ pc[t] = "reset"
  /\ event' = [event EXCEPT ![t] = "none"]
  /\ Goto(t, "again")
  /\ UNCHANGED <<chipVars, rx_empty, mem, queue, woke, rx_buf, buf, deinitVars>>

\* On the way out the event is freed.
Again(t) ==
  /\ pc[t] = "again"
  /\ Goto(t, IF ~should_stop[t] /\ woke[t] # "exit" THEN "wait" ELSE "exited")
  /\ woke' = [woke EXCEPT ![t] = "none"]
  /\ UNCHANGED <<chipVars, rx_empty, mem, queue, event, rx_buf, buf, deinitVars>>

-----------------------------------------------------------------------------
(* c_rx_push, the work of c_rx_thread                                      *)

RxUnchanged == UNCHANGED <<irq, woke, buf, deinitVars>>

\* A buffer left over from the last message is used again; the allocation may
\* fail, and then only the status words are looked at.
RxAlloc ==
  /\ pc["rx"] = "loop"
  /\ \/ /\ should_stop["rx"]
        /\ Goto("rx", "free")
        /\ UNCHANGED rx_buf
     \/ /\ ~should_stop["rx"]
        /\ rx_buf # None
        /\ Goto("rx", "read")
        /\ UNCHANGED rx_buf
     \/ /\ ~should_stop["rx"]
        /\ rx_buf = None
        /\ \E b \in {c \in Buf : mem[c] = None} : rx_buf' = b
        /\ Goto("rx", "read")
     \/ /\ ~should_stop["rx"]
        /\ rx_buf = None
        /\ Goto("rx", "status")
        /\ UNCHANGED rx_buf
  /\ mem' = IF rx_buf' # None /\ rx_buf = None
            THEN [mem EXCEPT ![rx_buf'] = [kind |-> "own", val |-> None]] ELSE mem
  /\ UNCHANGED <<chip, rx_empty, queue, event>>
  /\ RxUnchanged

\* The status words, if the message carries them; the chip is taken to say the
\* truth about what it holds after this message.
SetStatus(left) == rx_empty' = (left = 0) \/ UNCHANGED rx_empty

\* Where c_rx_push goes with a message: a response needs nothing more.
Dispatch(m) ==
  CASE m.kind \in Kind   -> m.kind
    [] m.kind = "own"    -> "status"
    [] OTHER             -> "free"

\* A message is read and the first half of its handling, the status words, done.
RxRead ==
  /\ pc["rx"] = "read"
  /\ chip > 0
  /\ chip' = chip - 1
  /\ \E m \in Message :
       /\ mem' = [mem EXCEPT ![rx_buf] = m]
       /\ IF m.kind = "other" THEN UNCHANGED rx_empty ELSE SetStatus(chip - 1)
       /\ Goto("rx", Dispatch(m))
  /\ UNCHANGED <<queue, event, rx_buf>>
  /\ RxUnchanged

\* A chip with nothing to say answers with its status words, or with nothing the
\* driver knows.
RxReadEmpty ==
  /\ pc["rx"] = "read"
  /\ chip = 0
  /\ \E k \in {"own", "other"} :
       /\ mem' = [mem EXCEPT ![rx_buf] = [kind |-> k, val |-> None]]
       /\ rx_empty' = (IF k = "own" THEN TRUE ELSE rx_empty)
       /\ Goto("rx", IF k = "own" THEN "status" ELSE "free")
  /\ UNCHANGED <<chip, queue, event, rx_buf>>
  /\ RxUnchanged

\* The bus fails, or rs_c_if keeps it shut because a recovery has begun.
RxReadFails ==
  /\ pc["rx"] = "read"
  /\ Goto("rx", "status")
  /\ UNCHANGED <<chip, rx_empty, mem, queue, event, rx_buf>>
  /\ RxUnchanged

\* Mutant: temp_rx_buf is kept after a successful push.
BugRxPush(k) ==
  /\ pc["rx"] = k
  /\ queue' = IF Len(queue[k]) < Cap[k] THEN [queue EXCEPT ![k] = Append(@, rx_buf)] ELSE queue
  /\ Goto("rx", CheckAt(k))
  /\ UNCHANGED <<chip, rx_empty, mem, event, rx_buf>>
  /\ RxUnchanged

\* Mutant: the ring takes one buffer more than it has slots.
BugRxPushFull(k) ==
  LET full == Len(queue[k]) > Cap[k]
  IN  /\ pc["rx"] = k
      /\ queue' = IF full THEN queue ELSE [queue EXCEPT ![k] = Append(@, rx_buf)]
      /\ rx_buf' = IF full THEN rx_buf ELSE None
      /\ Goto("rx", CheckAt(k))
      /\ UNCHANGED <<chip, rx_empty, mem, event>>
      /\ RxUnchanged

\* c_rx_data_push and c_indi_push, under their spin lock: the ring takes the
\* buffer, or refuses and the RX thread uses it for the next message.
RxPush(k) ==
  LET full == Len(queue[k]) = Cap[k]
  IN  /\ pc["rx"] = k
      /\ queue' = IF full THEN queue ELSE [queue EXCEPT ![k] = Append(@, rx_buf)]
      /\ rx_buf' = IF full THEN rx_buf ELSE None
      /\ Goto("rx", CheckAt(k))
      /\ UNCHANGED <<chip, rx_empty, mem, event>>
      /\ RxUnchanged

\* Mutant: the data thread is woken for both rings.
BugRxPost(k) ==
  /\ pc["rx"] = PostAt(k)
  /\ event' = [event EXCEPT !["data"] = "post"]
  /\ Goto("rx", "status")
  /\ UNCHANGED <<chip, rx_empty, mem, queue, rx_buf>>
  /\ RxUnchanged

\* The ring is looked at again without the lock,
RxCheck(k) ==
  /\ pc["rx"] = CheckAt(k)
  /\ Goto("rx", IF queue[k] # <<>> THEN PostAt(k) ELSE "status")
  /\ UNCHANGED <<chip, rx_empty, mem, queue, event, rx_buf>>
  /\ RxUnchanged

\* and the thread is woken.
RxPost(k) ==
  /\ pc["rx"] = PostAt(k)
  /\ event' = [event EXCEPT ![k] = "post"]
  /\ Goto("rx", "status")
  /\ UNCHANGED <<chip, rx_empty, mem, queue, rx_buf>>
  /\ RxUnchanged

\* rs_c_get_status_rx
RxStatus ==
  /\ pc["rx"] = "status"
  /\ Goto("rx", IF rx_empty THEN "free" ELSE "loop")
  /\ UNCHANGED <<chip, rx_empty, mem, queue, event, rx_buf>>
  /\ RxUnchanged

RxFree ==
  /\ pc["rx"] = "free"
  /\ mem' = IF rx_buf # None THEN [mem EXCEPT ![rx_buf] = None] ELSE mem
  /\ rx_buf' = None
  /\ Goto("rx", "reset")
  /\ UNCHANGED <<chip, rx_empty, queue, event>>
  /\ RxUnchanged

RxStep ==
  \/ Wait("rx", "loop") \/ RxAlloc \/ RxRead \/ RxReadEmpty \/ RxReadFails
  \/ \E k \in Kind : RxPush(k) \/ RxCheck(k) \/ RxPost(k)
  \/ RxStatus \/ RxFree \/ Reset("rx") \/ Again("rx")

-----------------------------------------------------------------------------
(* c_rx_data_thread and c_indi_thread                                      *)

WorkUnchanged ==
  UNCHANGED <<chipVars, rx_empty, event, woke, rx_buf, deinitVars>>

\* Mutant: the newest message is taken first.
BugPop(k) ==
  /\ pc[k] = "loop"
  /\ \/ /\ queue[k] # <<>>
        /\ buf' = [buf EXCEPT ![k] = queue[k][Len(queue[k])]]
        /\ queue' = [queue EXCEPT ![k] = SubSeq(@, 1, Len(@) - 1)]
        /\ Goto(k, "handle")
     \/ queue[k] = <<>> /\ Goto(k, "reset") /\ UNCHANGED <<buf, queue>>
  /\ UNCHANGED mem
  /\ WorkUnchanged

\* The RX data thread stops in the middle of its ring when it is told to, the
\* indication thread empties it.
Pop(k) ==
  LET go_on == queue[k] # <<>> /\ (k = "data" => ~should_stop[k])
  IN  /\ pc[k] = "loop"
      /\ buf' = IF go_on THEN [buf EXCEPT ![k] = Head(queue[k])] ELSE buf
      /\ queue' = IF go_on THEN [queue EXCEPT ![k] = Tail(@)] ELSE queue
      /\ Goto(k, IF go_on THEN "handle" ELSE "reset")
      /\ UNCHANGED mem
      /\ WorkUnchanged

\* rs_net_rx_data or rs_net_rx_indi returns, and the buffer is freed.
Handle(k) ==
  /\ pc[k] = "handle"
  /\ mem' = [mem EXCEPT ![buf[k]] = None]
  /\ buf' = [buf EXCEPT ![k] = None]
  /\ Goto(k, "loop")
  /\ UNCHANGED queue
  /\ WorkUnchanged

WorkStep(k) == Wait(k, "loop") \/ Pop(k) \/ Handle(k) \/ Reset(k) \/ Again(k)

-----------------------------------------------------------------------------
(* The chip and its interrupt                                              *)

EnvUnchanged == UNCHANGED <<rx_empty, mem, queue, threadVars, rx_buf, buf, deinitVars>>

\* The chip interrupts for every message.
ChipSend ==
  /\ chip < ChipDepth
  /\ chip' = chip + 1
  /\ irq' = TRUE
  /\ UNCHANGED event
  /\ EnvUnchanged

\* rs_c_status, called by the bus driver's handler
Interrupt ==
  /\ irq
  /\ irq' = FALSE
  /\ event' = IF pc["rx"] = "exited" THEN event ELSE [event EXCEPT !["rx"] = "post"]
  /\ UNCHANGED chip
  /\ EnvUnchanged

-----------------------------------------------------------------------------
(* rs_core_deinit: rs_c_rx_deinit, rs_c_rx_data_deinit, rs_c_indi_deinit.  *)
(* Each posts the exit event, stops its thread and waits for it, and the   *)
(* last two free what their ring still holds.                              *)

\* Which thread is stopped after t.
After(t) == CASE t = "rx" -> "data" [] t = "data" -> "indi" [] OTHER -> "done"

DeinitUnchanged ==
  UNCHANGED <<chipVars, rx_empty, threadVars, rx_buf, buf>>

DeinitPost(t) ==
  /\ dpc = (IF t = "rx" THEN "none" ELSE t)
  /\ event' = IF pc[t] = "exited" THEN event ELSE [event EXCEPT ![t] = "exit"]
  /\ dpc' = StopAt(t)
  /\ UNCHANGED <<mem, queue, should_stop>>
  /\ DeinitUnchanged

DeinitStop(t) ==
  /\ dpc = StopAt(t)
  /\ should_stop' = [should_stop EXCEPT ![t] = TRUE]
  /\ dpc' = JoinAt(t)
  /\ UNCHANGED <<mem, queue, event>>
  /\ DeinitUnchanged

\* c_rx_data_q_free and c_indi_q_free pop until the ring is empty.
DeinitJoin(t) ==
  /\ dpc = JoinAt(t)
  /\ pc[t] = "exited"
  /\ LET left == IF t \in Kind THEN {queue[t][i] : i \in 1..Len(queue[t])} ELSE {}
     IN  mem' = [b \in Buf |-> IF b \in left THEN None ELSE mem[b]]
  /\ queue' = IF t \in Kind THEN [queue EXCEPT ![t] = <<>>] ELSE queue
  /\ dpc' = After(t)
  /\ UNCHANGED <<event, should_stop>>
  /\ DeinitUnchanged

DeinitStep == \E t \in Thread : DeinitPost(t) \/ DeinitStop(t) \/ DeinitJoin(t)

-----------------------------------------------------------------------------
Next ==
  \/ RxStep
  \/ \E k \in Kind : WorkStep(k)
  \/ ChipSend \/ Interrupt
  \/ DeinitStep

Spec == Init /\ [][Next]_vars

\* The scheduler runs a thread that can run, and an interrupt that is pending is
\* taken.  Nothing is asked of the chip, the allocator or the unloading.
FairSpec == Spec /\ WF_vars(Interrupt) /\ WF_vars(RxStep) /\ \A k \in Kind : WF_vars(WorkStep(k))

-----------------------------------------------------------------------------
(* Properties *)

RxPcs == {"wait", "loop", "read", "data", "indi", "check_data", "check_indi", "post_data",
          "post_indi", "status", "free", "reset", "again", "exited"}
WorkPcs == {"wait", "loop", "handle", "reset", "again", "exited"}
DeinitPcs == {"none", "data", "indi", "done"} \cup
             {"stop_rx", "join_rx", "stop_data", "join_data", "stop_indi", "join_indi"}

\* The types.
RxTypeOK ==
  /\ chip \in 0..ChipDepth
  /\ irq \in BOOLEAN /\ rx_empty \in BOOLEAN
  /\ mem \in [Buf -> Message \cup {None}]
  /\ queue \in [Kind -> Seq(Buf)]
  /\ \A k \in Kind : Len(queue[k]) <= Cap[k]
  /\ event \in [Thread -> {"none", "post", "exit"}]
  /\ woke \in [Thread -> {"none", "post", "exit"}]
  /\ pc \in [Thread -> RxPcs \cup WorkPcs]
  /\ pc["rx"] \in RxPcs
  /\ \A k \in Kind : pc[k] \in WorkPcs
  /\ rx_buf \in Buf \cup {None}
  /\ buf \in [Kind -> Buf \cup {None}]
  /\ should_stop \in [Thread -> BOOLEAN]
  /\ dpc \in DeinitPcs

InQueue(b, k) == \E i \in 1..Len(queue[k]) : queue[k][i] = b

\* A buffer is in the hands of one thread or in one slot of one ring, and it is
\* allocated exactly as long: no frame is overwritten by the next read or freed
\* under its handler, none is freed twice and none is left behind, on the paths
\* where a ring is full, the bus fails, the message is of no known kind or the
\* driver is unloaded in the middle.
BuffersOwnedOnce ==
  /\ \A k \in Kind : \A i, j \in 1..Len(queue[k]) : queue[k][i] = queue[k][j] => i = j
  /\ \A b \in Buf :
       /\ mem[b] # None <=> b = rx_buf \/ \E k \in Kind : b = buf[k] \/ InQueue(b, k)
       /\ b = rx_buf => \A k \in Kind : b # buf[k] /\ ~InQueue(b, k)
       /\ \A k \in Kind : b = buf[k] => \A l \in Kind : ~InQueue(b, l) /\ (l # k => b # buf[l])
       /\ \A k, l \in Kind : InQueue(b, k) /\ InQueue(b, l) => k = l

\* What the two threads are promised: see LossyDelivery.
Delivery == INSTANCE LossyDelivery WITH
  Capacity <- Cap,
  inbox    <- [k \in Kind |-> IF pc["rx"] = k THEN mem[rx_buf] ELSE None],
  pending  <- [k \in Kind |-> [i \in 1..Len(queue[k]) |-> mem[queue[k][i]]]],
  handling <- [k \in Kind |-> IF pc[k] = "handle" THEN mem[buf[k]] ELSE None],
  closing  <- dpc # "none"

\* Frames and indications are handled in the order the chip sent them, each at
\* most once and with the content that was read, and one is dropped only when
\* its ring is full or the driver is unloaded.
RefinesDelivery == Delivery!Spec

\* A thread may go to sleep with its ring not empty, for it clears its event after
\* its last look (rs_c_rx.c:197 and :332, rs_c_indi.c:145).  What is then lost is
\* time and no more: as long as messages keep coming the thread keeps working, so
\* what lies in its ring is handled in its turn.
LaterArrivalWakes ==
  /\ []<>(irq /\ pc["rx"] # "exited") => []<>(pc["rx"] = "loop")
  /\ \A k \in Kind : []<>(pc["rx"] = PostAt(k)) => []<>(pc[k] = "handle")
=============================================================================
