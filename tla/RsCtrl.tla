------------------------------- MODULE RsCtrl -------------------------------
(***************************************************************************)
(* The control path: a thread that needs something of the chip writes a    *)
(* command and sleeps until the RX thread has copied the chip's response   *)
(* into the one response buffer and posted the one event with the          *)
(* command's number.  A mutex admits one command at a time; a command that *)
(* gets no response in two waits resets the chip and starts the recovery,  *)
(* from which on the driver refuses every access to the bus.               *)
(*                                                                         *)
(* Sources: core/rs_c_ctrl.c, core/rs_c_recovery.c (the posting side),     *)
(* core/rs_c_if.c, rs_net_ctrl_dev_hw_reset, and the mutex and event       *)
(* primitives of kal/linux.  A command number is used as a set of event    *)
(* bits, so it is modelled by its bits.  The payload of commands and       *)
(* responses is left out.                                                  *)
(***************************************************************************)
EXTENDS Naturals, Sequences

CONSTANTS
  Caller,    \* threads in rs_c_ctrl_set_and_wait
  Notifier,  \* threads in rs_c_ctrl_set, which waits for nothing
  Reporter,  \* threads that report a dead chip: indication thread, status read
  Cmd,       \* command numbers the callers use, which the chip answers
  CmdOf,     \* the commands each caller uses
  NotifyCmd, \* command number of the notifiers, which the chip does not answer
  ResetCmd,  \* RS_DEV_RESET_CMD
  Bits,      \* the bits of each command number
  None,      \* RS_CMD_DATA_START, 0
  FwDepth    \* commands the chip can hold, a bound on its queue

Actor  == Caller \cup Notifier \cup Reporter
AnyCmd == Cmd \cup {NotifyCmd, ResetCmd}

ASSUME BitsAssumption ==
  /\ \A c \in Cmd : Bits[c] # {}
  /\ \A c, d \in Cmd : Bits[c] = Bits[d] => c = d
ASSUME ActorAssumption == Caller \cap Notifier = {} /\ FwDepth \in Nat
ASSUME CmdAssumption == CmdOf \in [Caller -> SUBSET Cmd] /\ NotifyCmd \notin Cmd /\ ResetCmd \notin Cmd /\ None \notin AnyCmd

VARIABLES
  locked,      \* ctrl.mutex: the kernel's unlock does not ask who holds it
  condition,   \* ctrl.event's atomic
  buf_cmd,     \* ctrl.buf.cmd
  in_recovery, \* recovery.in_recovery
  fw,          \* commands the chip has accepted and not dealt with
  rx,          \* the response the RX thread has copied and not posted, or None
  reset_sent,  \* history: a reset command was handed to the bus
  pc,          \* each thread: where it is
  cmd,         \*   the command of its call
  ret,         \*   what its last wait returned
  rsp          \*   the number in the response it copied

vars == <<locked, condition, buf_cmd, in_recovery, fw, rx, reset_sent, pc, cmd, ret, rsp>>

Init ==
  /\ locked = FALSE
  /\ condition = {}
  /\ buf_cmd = None
  /\ in_recovery = FALSE
  /\ fw = <<>>
  /\ rx = None
  /\ reset_sent = FALSE
  /\ pc = [a \in Actor |-> "idle"]
  /\ cmd = [a \in Actor |-> None]
  /\ ret = [a \in Actor |-> FALSE]
  /\ rsp = [a \in Actor |-> None]

Goto(a, there) == pc' = [pc EXCEPT ![a] = there]

-----------------------------------------------------------------------------
(* rs_k_mutex_lock and rs_k_mutex_unlock, and the event                    *)

Acquire(a, here, there) ==
  /\ pc[a] = here
  /\ ~locked
  /\ locked' = TRUE
  /\ Goto(a, there)
  /\ UNCHANGED <<condition, buf_cmd, in_recovery, fw, rx, reset_sent, cmd, ret, rsp>>

Release(a, here, there) ==
  /\ pc[a] = here
  /\ locked' = FALSE
  /\ Goto(a, there)
  /\ UNCHANGED <<condition, buf_cmd, in_recovery, fw, rx, reset_sent, cmd, ret, rsp>>

ResetEvent(a, here, there) ==
  /\ pc[a] = here
  /\ condition' = {}
  /\ Goto(a, there)
  /\ UNCHANGED <<locked, buf_cmd, in_recovery, fw, rx, reset_sent, cmd, ret, rsp>>

\* What the chip does with a command that reaches it.
Accept(a, c) == fw' = IF Len(fw) < FwDepth THEN Append(fw, [cmd |-> c, by |-> a]) ELSE fw

-----------------------------------------------------------------------------
(* rs_c_ctrl_set_and_wait and rs_c_ctrl_set                                *)

\* The recovery flag is read before the mutex is taken.
Call(a, c) ==
  /\ pc[a] = "idle"
  /\ a \in Caller /\ c \in CmdOf[a] /\ ~in_recovery
  /\ cmd' = [cmd EXCEPT ![a] = c]
  /\ Goto(a, "lock")
  /\ UNCHANGED <<locked, condition, buf_cmd, in_recovery, fw, rx, reset_sent, ret, rsp>>

Notify(a) ==
  /\ pc[a] = "idle"
  /\ a \in Notifier
  /\ cmd' = [cmd EXCEPT ![a] = NotifyCmd]
  /\ Goto(a, "lock")
  /\ UNCHANGED <<locked, condition, buf_cmd, in_recovery, fw, rx, reset_sent, ret, rsp>>

\* Mutant: the mutex lets everybody in.
BugLock(a) ==
  /\ pc[a] = "lock"
  /\ locked' = TRUE
  /\ Goto(a, "reset")
  /\ UNCHANGED <<condition, buf_cmd, in_recovery, fw, rx, reset_sent, cmd, ret, rsp>>

Lock(a) == Acquire(a, "lock", "reset")

\* c_ctrl_set: what an earlier response left in the event is thrown away.
Reset(a) == ResetEvent(a, "reset", "write")

\* c_ctrl_set: no memory, a recovery under way or a bus error make it fail.
WriteFails(a) ==
  /\ pc[a] = "write"
  /\ Goto(a, IF a \in Caller THEN "clear2" ELSE "unlock")
  /\ UNCHANGED <<locked, condition, buf_cmd, in_recovery, fw, rx, reset_sent, cmd, ret, rsp>>

Write(a) ==
  /\ pc[a] = "write"
  /\ ~in_recovery
  /\ Accept(a, cmd[a])
  /\ Goto(a, IF a \in Caller THEN "clear1" ELSE "unlock")
  /\ UNCHANGED <<locked, condition, buf_cmd, in_recovery, rx, reset_sent, cmd, ret, rsp>>

\* c_ctrl_wait, called up to twice: the buffer is marked empty,
Clear(a) ==
  /\ pc[a] \in {"clear1", "clear2"}
  /\ buf_cmd' = None
  /\ Goto(a, IF pc[a] = "clear1" THEN "wait1" ELSE "wait2")
  /\ UNCHANGED <<locked, condition, in_recovery, fw, rx, reset_sent, cmd, ret, rsp>>

\* the thread sleeps until the event has one of the command's bits or the time
\* is over; only exactly the command's number is a success,
Wait(a) ==
  /\ pc[a] \in {"wait1", "wait2"}
  /\ ret' = [ret EXCEPT ![a] = condition = Bits[cmd[a]]]
  /\ Goto(a, IF pc[a] = "wait1" THEN "reset1" ELSE "reset2")
  /\ UNCHANGED <<locked, condition, buf_cmd, in_recovery, fw, rx, reset_sent, cmd, rsp>>

\* and the event is emptied, with what was posted since.
ResetAfterWait(a) ==
  \/ ret[a] /\ ResetEvent(a, "reset1", "copy")
  \/ ret[a] /\ ResetEvent(a, "reset2", "copy")
  \/ ~ret[a] /\ ResetEvent(a, "reset1", "clear2")
  \/ ~ret[a] /\ ResetEvent(a, "reset2", "fail_unlock")

\* The response is copied out of the buffer.
Copy(a) ==
  /\ pc[a] = "copy"
  /\ rsp' = [rsp EXCEPT ![a] = buf_cmd]
  /\ Goto(a, "unlock")
  /\ UNCHANGED <<locked, condition, buf_cmd, in_recovery, fw, rx, reset_sent, cmd, ret>>

\* Mutant: the mutex is still held when the recovery is started.
BugFailUnlock(a) ==
  /\ pc[a] = "fail_unlock"
  /\ Goto(a, "recover")
  /\ UNCHANGED <<locked, condition, buf_cmd, in_recovery, fw, rx, reset_sent, cmd, ret, rsp>>

\* No response: the mutex is released for rs_c_recovery_event_post, which takes
\* it again to reset the chip.
FailUnlock(a) == Release(a, "fail_unlock", "recover")

\* The end of every call, a failed one's too, which has released the mutex before.
Unlock(a) ==
  /\ pc[a] = "unlock"
  /\ locked' = FALSE
  /\ Goto(a, "idle")
  /\ cmd' = [cmd EXCEPT ![a] = None]
  /\ ret' = [ret EXCEPT ![a] = FALSE]
  /\ rsp' = [rsp EXCEPT ![a] = None]
  /\ UNCHANGED <<condition, buf_cmd, in_recovery, fw, rx, reset_sent>>

-----------------------------------------------------------------------------
(* rs_c_recovery_event_post: test the flag, reset the chip with            *)
(* rs_c_ctrl_set, set the flag.                                            *)

\* Where a thread goes after it.
AfterRecover(a) == IF a \in Caller THEN "unlock" ELSE "idle"

\* A thread outside a call finds the chip dead.
Report(a) ==
  /\ pc[a] = "idle"
  /\ a \in Reporter
  /\ Goto(a, "recover")
  /\ UNCHANGED <<locked, condition, buf_cmd, in_recovery, fw, rx, reset_sent, cmd, ret, rsp>>

\* Mutant: the flag is set at once, before the chip is reset.
BugRecover(a) ==
  /\ pc[a] = "recover"
  /\ in_recovery' = TRUE
  /\ Goto(a, IF in_recovery THEN AfterRecover(a) ELSE "hw_lock")
  /\ UNCHANGED <<locked, condition, buf_cmd, fw, rx, reset_sent, cmd, ret, rsp>>

Recover(a) ==
  /\ pc[a] = "recover"
  /\ Goto(a, IF in_recovery THEN AfterRecover(a) ELSE "hw_lock")
  /\ UNCHANGED <<locked, condition, buf_cmd, in_recovery, fw, rx, reset_sent, cmd, ret, rsp>>

HwLock(a)   == Acquire(a, "hw_lock", "hw_reset")
HwReset(a)  == ResetEvent(a, "hw_reset", "hw_write")
HwUnlock(a) == Release(a, "hw_unlock", "set_recovery")

\* The reset command goes to the bus unless a recovery began meanwhile; the
\* bus may lose it.
HwWrite(a) ==
  /\ pc[a] = "hw_write"
  /\ IF in_recovery
     THEN UNCHANGED <<fw, reset_sent>>
     ELSE (Accept(a, ResetCmd) \/ UNCHANGED fw) /\ reset_sent' = TRUE
  /\ Goto(a, "hw_unlock")
  /\ UNCHANGED <<locked, condition, buf_cmd, in_recovery, rx, cmd, ret, rsp>>

\* The flag is set and the recovery thread is woken, which reloads the bus
\* driver; nothing clears the flag while this instance of the driver lives.
SetRecovery(a) ==
  /\ pc[a] = "set_recovery"
  /\ in_recovery' = TRUE
  /\ Goto(a, AfterRecover(a))
  /\ UNCHANGED <<locked, condition, buf_cmd, fw, rx, reset_sent, cmd, ret, rsp>>

\* The two steps that wait for the mutex, and the others.
Enter(a) == Lock(a) \/ HwLock(a)

Step(a) ==
  \/ Reset(a) \/ WriteFails(a) \/ Write(a)
  \/ Clear(a) \/ Wait(a) \/ ResetAfterWait(a) \/ Copy(a) \/ FailUnlock(a) \/ Unlock(a)
  \/ Recover(a) \/ HwReset(a) \/ HwWrite(a) \/ HwUnlock(a) \/ SetRecovery(a)

-----------------------------------------------------------------------------
(* The chip and the RX thread                                              *)

\* rs_c_ctrl_event_post, first half: a response read from the bus is copied.
RxCopy ==
  /\ rx = None /\ fw # <<>> /\ ~in_recovery
  /\ Head(fw).cmd \in Cmd
  /\ buf_cmd' = Head(fw).cmd
  /\ rx' = Head(fw)
  /\ fw' = Tail(fw)
  /\ UNCHANGED <<locked, condition, in_recovery, reset_sent, pc, cmd, ret, rsp>>

\* Mutant: the event collects bits instead of being overwritten.
BugRxPost ==
  /\ rx # None
  /\ condition' = condition \cup Bits[rx.cmd]
  /\ rx' = None
  /\ UNCHANGED <<locked, buf_cmd, in_recovery, fw, reset_sent, pc, cmd, ret, rsp>>

\* Second half: the event is posted.
RxPost ==
  /\ rx # None
  /\ condition' = Bits[rx.cmd]
  /\ rx' = None
  /\ UNCHANGED <<locked, buf_cmd, in_recovery, fw, reset_sent, pc, cmd, ret, rsp>>

\* The chip deals with a command without a response, or loses it; a reset makes
\* it forget what it was asked.
ChipDrop ==
  /\ fw # <<>>
  /\ fw' = IF Head(fw).cmd = ResetCmd THEN <<>> ELSE Tail(fw)
  /\ UNCHANGED <<locked, condition, buf_cmd, in_recovery, rx, reset_sent, pc, cmd, ret, rsp>>

-----------------------------------------------------------------------------
Next ==
  \/ \E a \in Actor :
       (\E c \in Cmd : Call(a, c)) \/ Notify(a) \/ Report(a) \/ Enter(a) \/ Step(a)
  \/ RxCopy
  \/ RxPost
  \/ ChipDrop

Spec == Init /\ [][Next]_vars

\* A thread in the driver goes on; a wait ends at the latest with its timeout;
\* the kernel's mutex hands itself to a waiter it has passed over.  Nothing is
\* assumed of the chip, nor of who calls.
FairSpec == Spec /\ \A a \in Actor : WF_vars(Step(a)) /\ SF_vars(Enter(a))

-----------------------------------------------------------------------------
(* Properties *)

WaitPcs == {"clear1", "wait1", "reset1", "clear2", "wait2", "reset2"}
FailPcs == {"fail_unlock", "recover", "hw_lock", "hw_reset", "hw_write", "hw_unlock",
            "set_recovery"}
Pcs == WaitPcs \cup FailPcs \cup {"idle", "lock", "reset", "write", "copy", "unlock"}

Request == [cmd : AnyCmd, by : Actor]

\* The types; the event is empty or carries the number of one command.
CtrlTypeOK ==
  /\ locked \in BOOLEAN /\ in_recovery \in BOOLEAN /\ reset_sent \in BOOLEAN
  /\ condition \in {{}} \cup {Bits[c] : c \in Cmd}
  /\ buf_cmd \in Cmd \cup {None}
  /\ fw \in Seq(Request) /\ Len(fw) <= FwDepth
  /\ rx \in [cmd : Cmd, by : Actor] \cup {None}
  /\ pc \in [Actor -> Pcs]
  /\ cmd \in [Actor -> AnyCmd \cup {None}]
  /\ ret \in [Actor -> BOOLEAN]
  /\ rsp \in [Actor -> Cmd \cup {None}]
  /\ \A a \in Actor : pc[a] \in WaitPcs => a \in Caller /\ cmd[a] \in Cmd

\* No command has failed for good and nobody has reported the chip.
NoFailure == ~in_recovery /\ \A a \in Actor : pc[a] \notin FailPcs

\* A response the chip still owes belongs to a call that waits for it.
Awaited(r) == pc[r.by] \in WaitPcs /\ cmd[r.by] = r.cmd

\* Until the first failure no response is taken for another call's, although
\* all calls share one buffer and one event and a response may come after the
\* first of the two waits: a response outstanding, being delivered or announced
\* by the event belongs to a call still waiting, and the buffer a successful
\* call copies holds its own response or is marked empty.
ResponsesReachTheirCall ==
  NoFailure =>
    /\ \A i \in 1..Len(fw) : fw[i].cmd \in Cmd => Awaited(fw[i])
    /\ rx # None => Awaited(rx)
    /\ condition # {} =>
         \E a \in Caller : pc[a] \in WaitPcs /\ condition = Bits[cmd[a]]
    /\ \A a \in Caller : pc[a] = "copy" => buf_cmd \in {cmd[a], None}

\* When the driver cuts itself off from the bus, a reset has been handed to the
\* chip: rs_c_recovery_event_post does the two in that order, and a recovery
\* that several threads start at a time does not lose the reset.
RecoveryResetsChip == in_recovery => reset_sent

\* Every call and every recovery comes to an end: nobody waits for the mutex for
\* ever, not even the thread that resets the chip from within a failed call.
CallsReturn == \A a \in Actor : pc[a] # "idle" ~> pc[a] = "idle"

\* "Set control command and wait response" (rs_c_ctrl.c): a call that succeeds
\* hands its caller the response to its command.  The code breaks it: see
\* README, Findings.
SuccessReturnsResponse ==
  \A a \in Caller : pc[a] = "unlock" /\ ret[a] /\ NoFailure => rsp[a] = cmd[a]
=============================================================================
