---------------------------- MODULE RsCtrl_proofs ----------------------------
(***************************************************************************)
(* Proofs about the control path, for any number of threads and commands.  *)
(* Three invariants, each kept by every step: the types with the commands  *)
(* of the threads inside a call (Typed); the reset behind every recovery   *)
(* (ResetBehind); and, until the first failure, one holder of the mutex    *)
(* and at most one response on its way to it (OneCall), from which follows *)
(* that responses reach their call.                                        *)
(***************************************************************************)
EXTENDS RsCtrl, TLAPS

AskPcs == {"lock", "reset", "write"}

\* The types, and a command for every thread inside a call, which the chip answers
\* if the thread waits for it.
Typed ==
  /\ CtrlTypeOK
  /\ \A a \in Actor : pc[a] \in AskPcs => cmd[a] \in AnyCmd
  /\ \A a \in Caller : pc[a] \in AskPcs \cup WaitPcs \cup {"copy"} => cmd[a] \in Cmd
  /\ \A a \in Actor \ Caller : pc[a] \in AskPcs => cmd[a] = NotifyCmd

\* The types and places hold at the start.
LEMMA InitTyped == Init => Typed
<1> SUFFICES ASSUME Init PROVE Typed
  OBVIOUS
<1>1. /\ pc = [a \in Actor |-> "idle"] /\ cmd = [a \in Actor |-> None]
      /\ ret = [a \in Actor |-> FALSE] /\ rsp = [a \in Actor |-> None]
      /\ fw = <<>> /\ condition = {} /\ buf_cmd = None /\ rx = None
      /\ locked = FALSE /\ in_recovery = FALSE /\ reset_sent = FALSE
  BY DEF Init
<1>2. fw \in Seq(Request) /\ Len(fw) <= FwDepth
  BY <1>1, ActorAssumption
<1>3. QED
  BY <1>1, <1>2 DEF Typed, CtrlTypeOK, Pcs, WaitPcs, FailPcs, AskPcs, Actor

\* What a thread adds to the chip's queue is a request.
LEMMA AcceptTyped ==
  ASSUME Typed, NEW a \in Actor, NEW c \in AnyCmd, Accept(a, c)
  PROVE  fw' \in Seq(Request) /\ Len(fw') <= FwDepth
<1> DEFINE r == [cmd |-> c, by |-> a]
<1>1. r \in Request /\ fw \in Seq(Request) /\ Len(fw) <= FwDepth /\ FwDepth \in Nat
  BY ActorAssumption DEF Request, Typed, CtrlTypeOK
<1>2. CASE Len(fw) < FwDepth
  <2>1. fw' = Append(fw, r)
    BY <1>2 DEF Accept
  <2> HIDE DEF r
  <2>2. QED
    BY <1>1, <1>2, <2>1
<1>3. CASE ~(Len(fw) < FwDepth)
  BY <1>1, <1>3 DEF Accept
<1>4. QED
  BY <1>2, <1>3

\* Every step keeps the types.
LEMMA NextTyped == Typed /\ [Next]_vars => Typed'
<1> SUFFICES ASSUME Typed, [Next]_vars PROVE Typed'
  OBVIOUS
<1> USE ActorAssumption DEF Typed, CtrlTypeOK, Pcs, WaitPcs, FailPcs, AskPcs, Actor, AnyCmd, Goto
<1>1. ASSUME NEW a \in Actor, NEW c \in Cmd, Call(a, c) PROVE Typed'
  BY <1>1, CmdAssumption DEF Call
<1>2. ASSUME NEW a \in Actor, Notify(a) PROVE Typed'
  BY <1>2 DEF Notify
<1>3. ASSUME NEW a \in Actor, Report(a) PROVE Typed'
  BY <1>3 DEF Report
<1>4. ASSUME NEW a \in Actor, Lock(a) PROVE Typed'
  BY <1>4 DEF Lock, Acquire
<1>5. ASSUME NEW a \in Actor, HwLock(a) PROVE Typed'
  BY <1>5 DEF HwLock, Acquire
<1>6. ASSUME NEW a \in Actor, Reset(a) PROVE Typed'
  BY <1>6 DEF Reset, ResetEvent
<1>7. ASSUME NEW a \in Actor, WriteFails(a) PROVE Typed'
  BY <1>7 DEF WriteFails
<1>8. ASSUME NEW a \in Actor, Write(a) PROVE Typed'
  <2>1. fw' \in Seq(Request) /\ Len(fw') <= FwDepth
    BY <1>8, AcceptTyped DEF Write
  <2>2. QED
    BY <1>8, <2>1 DEF Write
<1>9. ASSUME NEW a \in Actor, Clear(a) PROVE Typed'
  BY <1>9 DEF Clear
<1>10. ASSUME NEW a \in Actor, Wait(a) PROVE Typed'
  BY <1>10 DEF Wait
<1>11. ASSUME NEW a \in Actor, ResetAfterWait(a) PROVE Typed'
  BY <1>11 DEF ResetAfterWait, ResetEvent
<1>12. ASSUME NEW a \in Actor, Copy(a) PROVE Typed'
  BY <1>12 DEF Copy
<1>13. ASSUME NEW a \in Actor, FailUnlock(a) PROVE Typed'
  BY <1>13 DEF FailUnlock, Release
<1>14. ASSUME NEW a \in Actor, Unlock(a) PROVE Typed'
  BY <1>14 DEF Unlock
<1>15. ASSUME NEW a \in Actor, Recover(a) PROVE Typed'
  BY <1>15 DEF Recover, AfterRecover
<1>16. ASSUME NEW a \in Actor, HwReset(a) PROVE Typed'
  BY <1>16 DEF HwReset, ResetEvent
<1>17. ASSUME NEW a \in Actor, HwWrite(a) PROVE Typed'
  <2>1. fw' \in Seq(Request) /\ Len(fw') <= FwDepth
    BY <1>17, AcceptTyped DEF HwWrite
  <2>2. QED
    BY <1>17, <2>1 DEF HwWrite
<1>18. ASSUME NEW a \in Actor, HwUnlock(a) PROVE Typed'
  BY <1>18 DEF HwUnlock, Release
<1>19. ASSUME NEW a \in Actor, SetRecovery(a) PROVE Typed'
  BY <1>19 DEF SetRecovery, AfterRecover
<1>20. CASE RxCopy
  <2>1. fw \in Seq(Request) /\ fw # <<>>
    BY <1>20 DEF RxCopy
  <2>2. Head(fw) \in Request /\ Tail(fw) \in Seq(Request) /\ Len(Tail(fw)) <= Len(fw)
    BY <2>1
  <2>3. Head(fw) \in [cmd : Cmd, by : Actor]
    BY <1>20, <2>2 DEF RxCopy, Request
  <2>4. /\ buf_cmd' \in Cmd /\ rx' \in [cmd : Cmd, by : Actor]
        /\ fw' \in Seq(Request) /\ Len(fw') <= FwDepth
    BY <1>20, <2>1, <2>2, <2>3 DEF RxCopy
  <2>5. UNCHANGED <<locked, condition, in_recovery, reset_sent, pc, cmd, ret, rsp>>
    BY <1>20 DEF RxCopy
  <2>6. QED
    BY <2>4, <2>5
<1>21. CASE RxPost
  BY <1>21 DEF RxPost
<1>22. CASE ChipDrop
  <2>1. fw \in Seq(Request) /\ fw # <<>> /\ Len(fw) <= FwDepth
    BY <1>22 DEF ChipDrop
  <2>2. fw' \in Seq(Request) /\ Len(fw') <= FwDepth
    BY <1>22, <2>1 DEF ChipDrop
  <2>3. QED
    BY <1>22, <2>2 DEF ChipDrop
<1>23. CASE UNCHANGED vars
  BY <1>23 DEF vars, Request
<1>24. QED
  BY <1>1, <1>2, <1>3, <1>4, <1>5, <1>6, <1>7, <1>8, <1>9, <1>10, <1>11, <1>12, <1>13, <1>14,
     <1>15, <1>16, <1>17, <1>18, <1>19, <1>20, <1>21, <1>22, <1>23 DEF Next, Enter, Step

\* The types hold in every state: the event is empty or carries one command's
\* number, whatever the threads and the chip do.
THEOREM CtrlTypeCorrect == Spec => []CtrlTypeOK
<1>1. Typed => CtrlTypeOK
  BY DEF Typed
<1>2. QED
  BY <1>1, InitTyped, NextTyped, PTL DEF Spec

-----------------------------------------------------------------------------
\* A thread past the writing of the reset has handed it to the bus, unless the
\* recovery had begun, and then it was handed over before.
ResetBehind ==
  /\ RecoveryResetsChip
  /\ \A a \in Actor : pc[a] \in {"hw_unlock", "set_recovery"} => reset_sent

\* No recovery has begun at the start.
LEMMA InitResetBehind == Init => ResetBehind
BY DEF Init, ResetBehind, RecoveryResetsChip

\* Every step keeps the reset before the flag.
LEMMA NextResetBehind == Typed /\ ResetBehind /\ [Next]_vars => ResetBehind'
<1> SUFFICES ASSUME Typed, ResetBehind, [Next]_vars PROVE ResetBehind'
  OBVIOUS
<1>1. pc \in [Actor -> Pcs]
  BY DEF Typed, CtrlTypeOK
<1> USE <1>1 DEF ResetBehind, RecoveryResetsChip, Goto
<1>2. ASSUME NEW a \in Actor, Enter(a) \/ Step(a) PROVE ResetBehind'
  <2>1. CASE HwWrite(a)
    BY <2>1 DEF HwWrite
  <2>2. CASE SetRecovery(a)
    BY <2>2 DEF SetRecovery, AfterRecover
  <2>3. CASE Enter(a) \/ HwUnlock(a)
    BY <2>3 DEF Enter, Lock, HwLock, HwUnlock, Acquire, Release
  <2>4. CASE Reset(a) \/ WriteFails(a) \/ Write(a) \/ Clear(a) \/ Wait(a)
    BY <2>4 DEF Reset, ResetEvent, WriteFails, Write, Clear, Wait
  <2>5. CASE ResetAfterWait(a) \/ Copy(a) \/ FailUnlock(a) \/ Unlock(a)
    BY <2>5 DEF ResetAfterWait, ResetEvent, Copy, FailUnlock, Release, Unlock
  <2>6. CASE Recover(a) \/ HwReset(a)
    BY <2>6 DEF Recover, AfterRecover, HwReset, ResetEvent
  <2>7. QED
    BY <1>2, <2>1, <2>2, <2>3, <2>4, <2>5, <2>6 DEF Step
<1>3. ASSUME NEW a \in Actor, (\E c \in Cmd : Call(a, c)) \/ Notify(a) \/ Report(a) PROVE ResetBehind'
  BY <1>3 DEF Call, Notify, Report
<1>4. CASE RxCopy \/ RxPost \/ ChipDrop \/ UNCHANGED vars
  BY <1>4 DEF RxCopy, RxPost, ChipDrop, vars
<1>5. QED
  BY <1>2, <1>3, <1>4 DEF Next

\* Whoever starts the recovery, and however many do at a time: the driver is cut
\* off from the bus only after a reset has been handed to it.
THEOREM RecoveryHasReset == Spec => []RecoveryResetsChip
<1>1. ResetBehind => RecoveryResetsChip
  BY DEF ResetBehind
<1>2. QED
  BY <1>1, InitTyped, NextTyped, InitResetBehind, NextResetBehind, PTL DEF Spec

-----------------------------------------------------------------------------
\* Where a thread holds the mutex, and where it has been given its response.
HeldPcs == WaitPcs \cup {"reset", "write", "copy", "unlock"}
Given(a) == pc[a] \in {"reset1", "reset2"} /\ ret[a]

\* No response is on its way.
Quiet == rx = None /\ \A i \in 1..Len(fw) : fw[i].cmd \notin Cmd

\* One thread holds the mutex, at most one response is owed, delivered or announced,
\* none of them once the thread has been given its response, and the buffer has been
\* marked empty or filled for its call.
Apart ==
  /\ \A i \in 1..Len(fw) : fw[i].cmd \in Cmd => Awaited(fw[i])
  /\ rx # None => Awaited(rx)
  /\ condition # {} => \E a \in Caller : pc[a] \in WaitPcs /\ condition = Bits[cmd[a]]
  /\ \A a \in Caller : pc[a] \in {"wait1", "reset1", "wait2", "reset2", "copy"} => buf_cmd \in {cmd[a], None}
  /\ \A a \in Actor : pc[a] \in HeldPcs => locked
  /\ \A a, b \in Actor : pc[a] \in HeldPcs /\ pc[b] \in HeldPcs => a = b
  /\ \A i, j \in 1..Len(fw) : fw[i].cmd \in Cmd /\ fw[j].cmd \in Cmd => i = j
  /\ rx # None => condition = {} /\ \A i \in 1..Len(fw) : fw[i].cmd \notin Cmd
  /\ condition # {} => Quiet
  /\ \A a \in Actor : Given(a) => Quiet

\* All of it lasts until the first failure.
OneCall == NoFailure => Apart

\* No call is under way at the start.
LEMMA InitOneCall == Init => OneCall
BY DEF Init, OneCall, Apart, HeldPcs, WaitPcs, Quiet, Given, Actor

\* Nothing brings the driver back from a failure.
LEMMA FailureLasts == Typed /\ [Next]_vars /\ NoFailure' => NoFailure
<1> SUFFICES ASSUME Typed, [Next]_vars, ~NoFailure PROVE ~NoFailure'
  OBVIOUS
<1>1. pc \in [Actor -> Pcs]
  BY DEF Typed, CtrlTypeOK
<1> USE <1>1 DEF NoFailure, Goto, FailPcs
<1>2. ASSUME NEW a \in Actor, Enter(a) \/ Step(a) PROVE ~NoFailure'
  <2>1. CASE Enter(a) \/ HwUnlock(a) \/ FailUnlock(a)
    BY <2>1 DEF Enter, Lock, HwLock, HwUnlock, FailUnlock, Acquire, Release
  <2>2. CASE Reset(a) \/ WriteFails(a) \/ Write(a) \/ Clear(a) \/ Wait(a)
    BY <2>2 DEF Reset, ResetEvent, WriteFails, Write, Clear, Wait
  <2>3. CASE ResetAfterWait(a) \/ Copy(a) \/ Unlock(a)
    BY <2>3 DEF ResetAfterWait, ResetEvent, Copy, Unlock
  <2>4. CASE Recover(a) \/ HwReset(a) \/ HwWrite(a) \/ SetRecovery(a)
    BY <2>4 DEF Recover, HwReset, ResetEvent, HwWrite, SetRecovery
  <2>5. QED
    BY <1>2, <2>1, <2>2, <2>3, <2>4 DEF Step
<1>3. ASSUME NEW a \in Actor, (\E c \in Cmd : Call(a, c)) \/ Notify(a) \/ Report(a) PROVE ~NoFailure'
  BY <1>3 DEF Call, Notify, Report
<1>4. CASE RxCopy \/ RxPost \/ ChipDrop \/ UNCHANGED vars
  BY <1>4 DEF RxCopy, RxPost, ChipDrop, vars
<1>5. QED
  BY <1>2, <1>3, <1>4 DEF Next

\* Every command the chip holds came from a thread.
LEMMA RequestsHaveThread ==
  ASSUME Typed PROVE \A i \in 1..Len(fw) : fw[i] \in Request /\ fw[i].by \in Actor
<1>1. fw \in Seq(Request)
  BY DEF Typed, CtrlTypeOK
<1>2. \A i \in 1..Len(fw) : fw[i] \in Request
  BY <1>1
<1>3. QED
  BY <1>2 DEF Request

\* A response on its way has a thread that waits for it.
LEMMA NobodyWaits ==
  ASSUME Typed, Apart, \A b \in Actor : pc[b] \notin WaitPcs
  PROVE  Quiet /\ condition = {}
<1>1. \A i \in 1..Len(fw) : fw[i].by \in Actor
  BY RequestsHaveThread
<1>2. rx # None => rx.by \in Actor
  BY DEF Typed, CtrlTypeOK
<1>3. \A i \in 1..Len(fw) : fw[i].cmd \notin Cmd
  BY <1>1 DEF Apart, Awaited
<1>4. rx = None
  BY <1>2 DEF Apart, Awaited
<1>5. condition = {}
  BY DEF Apart, Actor
<1>6. QED
  BY <1>3, <1>4, <1>5 DEF Quiet

\* Steps that leave the responses alone.
LEMMA CallApart ==
  ASSUME Typed, Apart, NEW a \in Actor,
         (\E c \in Cmd : Call(a, c)) \/ Notify(a) \/ Report(a)
  PROVE  Apart'
<1>1. /\ pc[a] = "idle" /\ pc' \in {[pc EXCEPT ![a] = "lock"], [pc EXCEPT ![a] = "recover"]}
      /\ \A b \in Actor : b # a => cmd'[b] = cmd[b]
      /\ UNCHANGED <<locked, condition, buf_cmd, fw, rx, ret>>
  BY DEF Call, Notify, Report, Goto, Typed, CtrlTypeOK
<1>2. pc \in [Actor -> Pcs] /\ Caller \subseteq Actor
  BY DEF Typed, CtrlTypeOK, Actor
<1>3. \A b \in Actor : pc'[b] \in HeldPcs <=> pc[b] \in HeldPcs
  BY <1>1, <1>2 DEF HeldPcs, WaitPcs
<1>4. \A b \in Actor : pc[b] \in HeldPcs => pc'[b] = pc[b] /\ cmd'[b] = cmd[b]
  BY <1>1, <1>2 DEF HeldPcs, WaitPcs
<1>5. WaitPcs \subseteq HeldPcs /\ \A b \in Actor : pc'[b] \in WaitPcs => pc[b] \in WaitPcs
  BY <1>1, <1>2 DEF HeldPcs, WaitPcs
<1>6. \A i \in 1..Len(fw) : fw[i].by \in Actor
  BY RequestsHaveThread
<1>7. rx # None => rx.by \in Actor
  BY DEF Typed, CtrlTypeOK
<1>8. /\ \A i \in 1..Len(fw) : fw[i].cmd \in Cmd => Awaited(fw[i])'
      /\ rx # None => Awaited(rx)'
  BY <1>1, <1>4, <1>5, <1>6, <1>7 DEF Apart, Awaited
<1>9. condition # {} => \E b \in Caller : pc'[b] \in WaitPcs /\ condition = Bits[cmd'[b]]
  BY <1>2, <1>4, <1>5 DEF Apart
<1>10. \A b \in Caller : pc'[b] \in {"wait1", "reset1", "wait2", "reset2", "copy"} => buf_cmd \in {cmd'[b], None}
  BY <1>1, <1>2 DEF Apart
<1>11. \A b \in Actor : Given(b)' => Given(b)
  BY <1>1, <1>2 DEF Given
<1>12. QED
  BY <1>1, <1>3, <1>8, <1>9, <1>10, <1>11 DEF Apart, Quiet

\* The mutex is taken: nobody held it, so nothing is on its way.
LEMMA LockApart ==
  ASSUME Typed, Apart, NEW a \in Actor, Lock(a) PROVE Apart'
<1>1. /\ pc[a] = "lock" /\ ~locked /\ locked' = TRUE /\ pc' = [pc EXCEPT ![a] = "reset"]
      /\ UNCHANGED <<condition, buf_cmd, fw, rx, cmd, ret>>
  BY DEF Lock, Acquire, Goto
<1>2. pc \in [Actor -> Pcs] /\ Caller \subseteq Actor
  BY DEF Typed, CtrlTypeOK, Actor
<1>3. \A b \in Actor : pc[b] \notin HeldPcs
  BY <1>1 DEF Apart
<1>4. Quiet /\ condition = {}
  BY <1>3, NobodyWaits DEF HeldPcs
<1>5. \A b \in Actor : pc'[b] \in HeldPcs => b = a
  BY <1>1, <1>2, <1>3
<1>6. QED
  BY <1>1, <1>2, <1>3, <1>4, <1>5 DEF Apart, Quiet, Given

\* The steps of the holder before it waits and after: nothing is on its way but what
\* it has just written.
LEMMA HolderApart ==
  ASSUME Typed, Apart, NEW a \in Actor,
         Reset(a) \/ WriteFails(a) \/ Write(a) \/ Copy(a) \/ Unlock(a)
  PROVE  Apart'
<1>1. pc[a] \in HeldPcs \ WaitPcs /\ UNCHANGED rx
  BY DEF Reset, ResetEvent, WriteFails, Write, Copy, Unlock, HeldPcs, WaitPcs
<1>2. pc \in [Actor -> Pcs] /\ cmd \in [Actor -> AnyCmd \cup {None}] /\ Caller \subseteq Actor
  BY DEF Typed, CtrlTypeOK, Actor
<1>3. locked /\ \A b \in Actor : pc[b] \in HeldPcs => b = a
  BY <1>1 DEF Apart
<1>4. Quiet /\ condition = {} /\ condition' = {}
  <2>1. Quiet /\ condition = {}
    BY <1>1, <1>3, NobodyWaits DEF HeldPcs
  <2>2. QED
    BY <2>1 DEF Reset, ResetEvent, WriteFails, Write, Copy, Unlock
<1>5. \A b \in Actor : b # a => pc'[b] = pc[b] /\ pc[b] \notin HeldPcs
  BY <1>2, <1>3 DEF Reset, ResetEvent, WriteFails, Write, Copy, Unlock, Goto
<1>6. \A b \in Actor : pc'[b] \in HeldPcs => b = a /\ locked'
  <2>1. CASE Unlock(a)
    BY <1>2, <1>5, <2>1 DEF Unlock, Goto, HeldPcs, WaitPcs
  <2>2. CASE ~Unlock(a)
    BY <1>3, <1>5, <2>2 DEF Reset, ResetEvent, WriteFails, Write, Copy
  <2>3. QED
    BY <2>1, <2>2
<1>7. /\ pc'[a] \notin {"wait1", "reset1", "wait2", "reset2", "copy"}
      /\ ~Given(a)'
  BY <1>2 DEF Reset, ResetEvent, WriteFails, Write, Copy, Unlock, Goto, Given
<1>8. /\ \A i \in 1..Len(fw') : fw'[i].cmd \in Cmd => Awaited(fw[i])'
      /\ \A i, j \in 1..Len(fw') : fw'[i].cmd \in Cmd /\ fw'[j].cmd \in Cmd => i = j
  <2>1. CASE fw' = fw
    BY <1>4, <2>1 DEF Quiet
  <2>2. CASE fw' # fw
    <3> DEFINE r == [cmd |-> cmd[a], by |-> a]
    <3>1. /\ pc[a] = "write" /\ fw' = Append(fw, r) /\ cmd' = cmd
          /\ pc' = [pc EXCEPT ![a] = IF a \in Caller THEN "clear1" ELSE "unlock"]
      BY <2>2 DEF Reset, ResetEvent, WriteFails, Write, Accept, Copy, Unlock, Goto
    <3>2. cmd[a] \in AnyCmd /\ (cmd[a] \in Cmd => pc'[a] \in WaitPcs)
      BY <1>2, <3>1, CmdAssumption DEF Typed, AskPcs, WaitPcs
    <3>3. r \in Request /\ fw \in Seq(Request)
      BY <3>2 DEF Request, Typed, CtrlTypeOK
    <3>4. \A i \in 1..Len(fw') : IF i = Len(fw') THEN fw'[i] = r ELSE i \in 1..Len(fw) /\ fw'[i] = fw[i]
      <4> HIDE DEF r
      <4>1. QED
        BY <3>1, <3>3
    <3>5. QED
      BY <1>4, <3>1, <3>2, <3>4 DEF Quiet, Awaited
  <2>3. QED
    BY <2>1, <2>2
<1>9. rx' = None
  BY <1>1, <1>4 DEF Quiet
<1>10. \A b \in Actor : ~Given(b)'
  BY <1>5, <1>7 DEF Given, HeldPcs, WaitPcs
<1>11. \A b \in Caller : pc'[b] \notin {"wait1", "reset1", "wait2", "reset2", "copy"}
  BY <1>2, <1>5, <1>7 DEF HeldPcs, WaitPcs
<1>12. QED
  BY <1>4, <1>6, <1>8, <1>9, <1>10, <1>11 DEF Apart

\* The steps of the holder while it waits: it goes on waiting, or it has been given
\* its response and nothing is left on its way.
LEMMA WaiterApart ==
  ASSUME Typed, Apart, NoFailure', NEW a \in Actor,
         Clear(a) \/ Wait(a) \/ ResetAfterWait(a)
  PROVE  Apart'
<1>1. pc[a] \in WaitPcs /\ UNCHANGED <<fw, rx, locked, cmd>>
  BY DEF Clear, Wait, ResetAfterWait, ResetEvent, WaitPcs
<1>2. /\ pc \in [Actor -> Pcs] /\ ret \in [Actor -> BOOLEAN] /\ Caller \subseteq Actor
      /\ a \in Caller /\ cmd[a] \in Cmd
  BY <1>1 DEF Typed, CtrlTypeOK, Actor
<1>3. locked /\ \A b \in Actor : pc[b] \in HeldPcs => b = a
  BY <1>1 DEF Apart, HeldPcs
<1>4. \A b \in Actor : b # a => pc'[b] = pc[b] /\ pc[b] \notin HeldPcs /\ pc'[b] \notin HeldPcs
  BY <1>2, <1>3 DEF Clear, Wait, ResetAfterWait, ResetEvent, Goto
<1>5. pc'[a] \notin FailPcs
  BY DEF NoFailure
<1>6. \/ pc'[a] \in WaitPcs
      \/ pc'[a] = "copy" /\ Quiet /\ condition' = {}
  <2>1. CASE Clear(a) \/ Wait(a)
    BY <1>2, <2>1 DEF Clear, Wait, Goto, WaitPcs
  <2>2. CASE ResetAfterWait(a)
    <3>1. CASE ret[a]
      BY <1>2, <2>2, <3>1 DEF ResetAfterWait, ResetEvent, Goto, Apart, Given
    <3>2. CASE ~ret[a]
      BY <1>2, <1>5, <2>2, <3>2 DEF ResetAfterWait, ResetEvent, Goto, WaitPcs, FailPcs
    <3>3. QED
      BY <3>1, <3>2
  <2>3. QED
    BY <2>1, <2>2
<1>7. condition' # {} => condition' = condition /\ pc'[a] \in WaitPcs
  BY <1>6 DEF Clear, Wait, ResetAfterWait, ResetEvent
<1>8. pc'[a] \in {"wait1", "reset1", "wait2", "reset2", "copy"} => buf_cmd' \in {cmd[a], None}
  BY <1>2 DEF Clear, Wait, ResetAfterWait, ResetEvent, Goto, Apart
<1>9. Given(a)' => Quiet
  <2>1. CASE Wait(a)
    <3>1. ret'[a] = (condition = Bits[cmd[a]])
      BY <1>2, <2>1 DEF Wait
    <3>2. ret'[a] => condition # {}
      BY <1>2, <3>1, BitsAssumption
    <3>3. QED
      BY <3>2 DEF Given, Apart
  <2>2. CASE Clear(a) \/ ResetAfterWait(a)
    BY <1>2, <2>2 DEF Clear, ResetAfterWait, ResetEvent, Goto, Given
  <2>3. QED
    BY <2>1, <2>2
<1>10. \A i \in 1..Len(fw) : fw[i].cmd \in Cmd => Awaited(fw[i])'
  <2>1. SUFFICES ASSUME NEW i \in 1..Len(fw), fw[i].cmd \in Cmd PROVE Awaited(fw[i])'
    OBVIOUS
  <2>2. fw[i].by \in Actor /\ Awaited(fw[i])
    BY <2>1, RequestsHaveThread DEF Apart
  <2>3. fw[i].by = a
    BY <1>3, <2>2 DEF Awaited, HeldPcs
  <2>4. pc'[a] \in WaitPcs
    BY <1>6, <2>1 DEF Quiet
  <2>5. QED
    BY <1>1, <2>2, <2>3, <2>4 DEF Awaited
<1>11. rx # None => Awaited(rx)'
  <2>1. SUFFICES ASSUME rx # None PROVE Awaited(rx)'
    OBVIOUS
  <2>2. rx.by \in Actor /\ Awaited(rx)
    BY <2>1 DEF Apart, Typed, CtrlTypeOK
  <2>3. rx.by = a
    BY <1>3, <2>2 DEF Awaited, HeldPcs
  <2>4. pc'[a] \in WaitPcs
    BY <1>6, <2>1 DEF Quiet
  <2>5. QED
    BY <1>1, <2>2, <2>3, <2>4 DEF Awaited
<1>12. condition' # {} => \E b \in Caller : pc'[b] \in WaitPcs /\ condition' = Bits[cmd'[b]]
  <2>1. SUFFICES ASSUME condition' # {} PROVE pc'[a] \in WaitPcs /\ condition' = Bits[cmd'[a]]
    BY <1>2
  <2>2. PICK b \in Caller : pc[b] \in WaitPcs /\ condition = Bits[cmd[b]]
    BY <1>7, <2>1 DEF Apart
  <2>3. b = a
    BY <1>2, <1>3, <2>2 DEF HeldPcs
  <2>4. QED
    BY <1>1, <1>7, <2>1, <2>2, <2>3
<1>13. \A b \in Caller : pc'[b] \in {"wait1", "reset1", "wait2", "reset2", "copy"} => buf_cmd' \in {cmd'[b], None}
  <2>1. \A b \in Caller : b # a => pc'[b] \notin {"wait1", "reset1", "wait2", "reset2", "copy"}
    BY <1>2, <1>4 DEF HeldPcs, WaitPcs
  <2>2. QED
    BY <1>1, <1>8, <2>1
<1>14. \A b \in Actor : Given(b)' => Quiet
  BY <1>4, <1>9 DEF Given, HeldPcs, WaitPcs
<1>15. condition' # {} => Quiet
  BY <1>7 DEF Apart
<1>16. QED
  BY <1>1, <1>3, <1>4, <1>7, <1>10, <1>11, <1>12, <1>13, <1>14, <1>15 DEF Apart, Quiet

\* What is left of the chip's queue when its first command is gone.
LEMMA RestOfQueue ==
  ASSUME Typed, fw # <<>>, NEW q, q = Tail(fw)
  PROVE  /\ Len(q) = Len(fw) - 1 /\ Len(fw) \in Nat \ {0} /\ Len(q) \in Nat
         /\ \A i \in 1..Len(q) : i + 1 \in 1..Len(fw) /\ q[i] = fw[i + 1]
         /\ 1 \in 1..Len(fw) /\ Head(fw) = fw[1] /\ Head(fw) \in Request
<1>1. fw \in Seq(Request)
  BY DEF Typed, CtrlTypeOK
<1>2. QED
  BY <1>1

\* The chip and the RX thread: the response read is the one owed to the holder.
LEMMA RxCopyApart ==
  ASSUME Typed, Apart, RxCopy PROVE Apart'
<1>0. PICK r, q : r = Head(fw) /\ q = Tail(fw)
  OBVIOUS
<1>1. /\ rx = None /\ fw # <<>> /\ r.cmd \in Cmd /\ buf_cmd' = r.cmd /\ rx' = r /\ fw' = q
      /\ UNCHANGED <<locked, condition, pc, cmd, ret>>
  BY <1>0 DEF RxCopy
<1>2. /\ Len(q) = Len(fw) - 1 /\ Len(fw) \in Nat \ {0} /\ Len(q) \in Nat
      /\ \A i \in 1..Len(q) : i + 1 \in 1..Len(fw) /\ q[i] = fw[i + 1]
      /\ 1 \in 1..Len(fw) /\ r = fw[1] /\ r \in Request
  BY <1>0, <1>1, RestOfQueue
<1>3. Awaited(r) /\ r.by \in Actor
  BY <1>1, <1>2 DEF Apart, Request
<1>4. \A b \in Actor : pc[b] \in HeldPcs => b = r.by
  BY <1>3 DEF Apart, Awaited, HeldPcs
<1>5. \A i \in 1..Len(q) : q[i].cmd \notin Cmd
  <2>1. SUFFICES ASSUME NEW i \in 1..Len(q), q[i].cmd \in Cmd PROVE FALSE
    OBVIOUS
  <2>2. i + 1 \in 1..Len(fw) /\ fw[i + 1].cmd \in Cmd /\ fw[1].cmd \in Cmd
    BY <1>1, <1>2, <2>1
  <2>3. i + 1 = 1
    BY <1>2, <2>2 DEF Apart
  <2>4. QED
    BY <1>2, <2>1, <2>3
<1>6. ~Quiet
  BY <1>1, <1>2 DEF Quiet
<1>7. condition = {} /\ \A b \in Actor : ~Given(b)
  BY <1>6 DEF Apart
<1>8. \A b \in Caller : pc[b] \in {"wait1", "reset1", "wait2", "reset2", "copy"} => buf_cmd' = cmd[b]
  BY <1>1, <1>3, <1>4 DEF Awaited, HeldPcs, WaitPcs, Actor
<1>9. /\ Awaited(r)' /\ \A b \in Actor : ~Given(b)'
  BY <1>1, <1>3, <1>7 DEF Awaited, Given
<1>10. \A i, j \in 1..Len(q) : q[i].cmd \in Cmd /\ q[j].cmd \in Cmd => i = j
  BY <1>5
<1>11. QED
  BY <1>1, <1>5, <1>7, <1>8, <1>9, <1>10 DEF Apart

\* The event announces the response to the thread that waits for it.
LEMMA RxPostApart ==
  ASSUME Typed, Apart, RxPost PROVE Apart'
<1>1. /\ rx # None /\ condition' = Bits[rx.cmd] /\ rx' = None
      /\ UNCHANGED <<locked, buf_cmd, fw, pc, cmd, ret>>
  BY DEF RxPost
<1>2. rx.by \in Actor /\ Awaited(rx) /\ \A i \in 1..Len(fw) : fw[i].cmd \notin Cmd
  BY <1>1 DEF Apart, Typed, CtrlTypeOK
<1>3. rx.by \in Caller /\ pc[rx.by] \in WaitPcs /\ Bits[rx.cmd] = Bits[cmd[rx.by]]
  BY <1>2 DEF Awaited, Typed, CtrlTypeOK
<1>4. Quiet'
  BY <1>1, <1>2 DEF Quiet
<1>5. \A b \in Actor : Given(b)' => Quiet'
  BY <1>4
<1>6. QED
  BY <1>1, <1>2, <1>3, <1>4, <1>5 DEF Apart

\* A command that leaves the chip without a response takes nothing from the others.
LEMMA ChipDropApart ==
  ASSUME Typed, Apart, ChipDrop PROVE Apart'
<1> DEFINE q == Tail(fw)
<1>1. /\ fw # <<>> /\ fw' \in {<<>>, q}
      /\ UNCHANGED <<locked, condition, buf_cmd, rx, pc, cmd, ret>>
  BY DEF ChipDrop
<1>2. /\ Len(q) = Len(fw) - 1 /\ Len(fw) \in Nat \ {0} /\ Len(q) \in Nat
      /\ \A i \in 1..Len(q) : i + 1 \in 1..Len(fw) /\ q[i] = fw[i + 1]
  BY <1>1, RestOfQueue
<1> HIDE DEF q
<1>3. /\ \A i \in 1..Len(fw') : \E k \in 1..Len(fw) : fw'[i] = fw[k]
      /\ \A i, j \in 1..Len(fw') : fw'[i].cmd \in Cmd /\ fw'[j].cmd \in Cmd => i = j
  <2>1. CASE fw' = <<>>
    BY <2>1
  <2>2. CASE fw' = q
    <3>1. \A i, j \in 1..Len(q) : q[i].cmd \in Cmd /\ q[j].cmd \in Cmd => i + 1 = j + 1
      BY <1>2 DEF Apart
    <3>2. \A i, j \in 1..Len(q) : i + 1 = j + 1 => i = j
      BY <1>2
    <3>3. QED
      BY <1>2, <2>2, <3>1, <3>2
  <2>3. QED
    BY <1>1, <2>1, <2>2
<1>4. /\ (\A i \in 1..Len(fw) : fw[i].cmd \in Cmd => Awaited(fw[i]))'
      /\ rx # None => Awaited(rx)'
  BY <1>1, <1>3 DEF Apart, Awaited
<1>5. /\ (\A i \in 1..Len(fw) : fw[i].cmd \notin Cmd) => \A i \in 1..Len(fw') : fw'[i].cmd \notin Cmd
      /\ Quiet => Quiet'
  BY <1>1, <1>3 DEF Quiet
<1>6. \A b \in Actor : Given(b)' => Quiet'
  BY <1>1, <1>5 DEF Apart, Given
<1>7. QED
  BY <1>1, <1>3, <1>4, <1>5, <1>6 DEF Apart

\* Every step keeps the responses apart until the first failure.
LEMMA NextOneCall == Typed /\ OneCall /\ [Next]_vars => OneCall'
<1> SUFFICES ASSUME Typed, OneCall, [Next]_vars, NoFailure' PROVE Apart'
  BY DEF OneCall
<1>1. NoFailure /\ Apart
  BY FailureLasts DEF OneCall
<1>2. ASSUME NEW a \in Actor, Enter(a) \/ Step(a) PROVE Apart'
  <2>1. pc[a] \notin FailPcs
    BY <1>1 DEF NoFailure
  <2>2. ~HwLock(a) /\ ~FailUnlock(a) /\ ~Recover(a) /\ ~HwReset(a) /\ ~HwWrite(a) /\ ~HwUnlock(a) /\ ~SetRecovery(a)
    BY <2>1 DEF FailPcs, HwLock, Acquire, FailUnlock, HwUnlock, Release, Recover, HwReset, ResetEvent,
       HwWrite, SetRecovery
  <2>3. CASE Lock(a)
    BY <1>1, <2>3, LockApart
  <2>4. CASE Reset(a) \/ WriteFails(a) \/ Write(a) \/ Copy(a) \/ Unlock(a)
    BY <1>1, <2>4, HolderApart
  <2>5. CASE Clear(a) \/ Wait(a) \/ ResetAfterWait(a)
    BY <1>1, <2>5, WaiterApart
  <2>6. QED
    BY <1>2, <2>2, <2>3, <2>4, <2>5 DEF Enter, Step
<1>3. ASSUME NEW a \in Actor, (\E c \in Cmd : Call(a, c)) \/ Notify(a) \/ Report(a) PROVE Apart'
  BY <1>1, <1>3, CallApart
<1>4. CASE UNCHANGED vars
  BY <1>1, <1>4 DEF vars, Apart, Awaited, Quiet, Given
<1>5. QED
  BY <1>1, <1>2, <1>3, <1>4, RxCopyApart, RxPostApart, ChipDropApart DEF Next

\* As long as no command has failed for good and nobody has reported the chip, no
\* response is taken for another call's, however many threads call.
THEOREM ResponsesReachCall == Spec => []ResponsesReachTheirCall
<1>1. OneCall => ResponsesReachTheirCall
  BY DEF OneCall, Apart, ResponsesReachTheirCall
<1>2. QED
  BY <1>1, InitTyped, NextTyped, InitOneCall, NextOneCall, PTL DEF Spec
=============================================================================
