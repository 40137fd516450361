---------------------------- MODULE RsRx_proofs -----------------------------
(***************************************************************************)
(* Proofs about the receive side, for any number of buffers and any depth  *)
(* of the rings.  The invariant adds to the types where the threads have a *)
(* buffer in their hands (Held); with it the ownership of buffers is kept  *)
(* by every step, one numbered step per action.  The refinement follows    *)
(* from the same invariant: each step of RsRx is a step of LossyDelivery   *)
(* or leaves what LossyDelivery sees unchanged.                            *)
(***************************************************************************)
EXTENDS RsRx, SequenceTheorems, TLAPS

USE DEF Kind, Thread, chipVars, threadVars, deinitVars

Places == RxPcs \cup WorkPcs

\* Where a thread has a buffer in its hands.
Held ==
  /\ pc["rx"] \in {"read", "data", "indi"} => rx_buf # None
  /\ \A k \in Kind : pc[k] = "handle" <=> buf[k] # None

Typed == RxTypeOK /\ Held

-----------------------------------------------------------------------------
\* Elements and lengths of what the code makes of its queues.
LEMMA HeadTail ==
  ASSUME NEW S, NEW q \in Seq(S), q # <<>>
  PROVE  /\ Head(q) \in S /\ Head(q) = q[1] /\ Tail(q) \in Seq(S)
         /\ Len(q) \in Nat \ {0} /\ Len(Tail(q)) = Len(q) - 1
         /\ \A i \in 1..Len(Tail(q)) : i + 1 \in 1..Len(q) /\ Tail(q)[i] = q[i + 1]
OBVIOUS

\* The elements of a sequence to which one is appended.
LEMMA Appended ==
  ASSUME NEW S, NEW q \in Seq(S), NEW e \in S
  PROVE  /\ Append(q, e) \in Seq(S) /\ Len(Append(q, e)) = Len(q) + 1 /\ Len(q) \in Nat
         /\ \A i \in 1..Len(Append(q, e)) :
              Append(q, e)[i] = IF i = Len(q) + 1 THEN e ELSE q[i]
OBVIOUS

\* The null pointer is no buffer and no message.
LEMMA NoneApart == None \notin Buf /\ None \notin Message
BY BufAssumption

\* A message without a value is a message.
LEMMA OwnMessages == \A k \in {"own", "other"} : [kind |-> k, val |-> None] \in Message
<1> TAKE k \in {"own", "other"}
<1>1. [kind |-> k, val |-> None] \in [kind : {"own", "other"}, val : {None}]
  OBVIOUS
<1>2. QED
  BY <1>1 DEF Message

\* The types and places hold at the start.
LEMMA InitTyped == Init => Typed
<1> SUFFICES ASSUME Init PROVE Typed
  OBVIOUS
<1>1. /\ chip \in 0..ChipDepth
      /\ \A k \in Kind : queue[k] = <<>> /\ Len(queue[k]) <= Cap[k]
  BY CapAssumption, DepthAssumption DEF Init
<1>2. queue \in [Kind -> Seq(Buf)]
  BY <1>1 DEF Init
<1>3. QED
  BY <1>1, <1>2 DEF Init, Typed, RxTypeOK, Held, RxPcs, WorkPcs, DeinitPcs

\* The steps of a thread's own loop.
LEMMA LoopTyped ==
  ASSUME Typed, NEW t \in Thread, NEW work \in {"loop"}, Wait(t, work) \/ Reset(t) \/ Again(t)
  PROVE  Typed'
<1> USE DEF Typed, RxTypeOK, Held, RxPcs, WorkPcs, Goto
<1>1. CASE Wait(t, work)
  BY <1>1 DEF Wait
<1>2. CASE Reset(t)
  BY <1>2 DEF Reset
<1>3. CASE Again(t)
  BY <1>3 DEF Again
<1>4. QED
  BY <1>1, <1>2, <1>3

\* Every step of the RX thread keeps the types and places.
LEMMA RxStepTyped == ASSUME Typed, RxStep PROVE Typed'
<1> USE DEF Typed, RxTypeOK, Held, RxPcs, WorkPcs, Goto, RxUnchanged
<1>1. CASE Wait("rx", "loop") \/ Reset("rx") \/ Again("rx")
  BY <1>1, LoopTyped
<1>2. CASE RxAlloc
  <2>1. /\ rx_buf' \in Buf \cup {None}
        /\ pc' = [pc EXCEPT !["rx"] = pc'["rx"]] /\ pc'["rx"] \in {"free", "read", "status"}
        /\ pc'["rx"] = "read" => rx_buf' # None
    BY <1>2, NoneApart DEF RxAlloc
  <2>2. mem' \in [Buf -> Message \cup {None}]
    BY <1>2, <2>1, OwnMessages DEF RxAlloc
  <2>3. QED
    BY <1>2, <2>1, <2>2 DEF RxAlloc
<1>3. CASE RxRead
  <2>1. chip' \in 0..ChipDepth
    BY <1>3, DepthAssumption DEF RxRead
  <2>2. PICK m \in Message :
          /\ mem' = [mem EXCEPT ![rx_buf] = m]
          /\ IF m.kind = "other" THEN UNCHANGED rx_empty ELSE SetStatus(chip - 1)
          /\ pc' = [pc EXCEPT !["rx"] = Dispatch(m)]
    BY <1>3 DEF RxRead
  <2>3. Dispatch(m) \in RxPcs
    BY DEF Dispatch
  <2>4. rx_empty' \in BOOLEAN
    BY <2>2 DEF SetStatus
  <2>5. mem' \in [Buf -> Message \cup {None}]
    BY <2>2
  <2>6. QED
    BY <1>3, <2>1, <2>2, <2>3, <2>4, <2>5 DEF RxRead
<1>4. CASE RxReadEmpty
  <2>1. PICK k \in {"own", "other"} :
          /\ mem' = [mem EXCEPT ![rx_buf] = [kind |-> k, val |-> None]]
          /\ rx_empty' = (IF k = "own" THEN TRUE ELSE rx_empty)
          /\ pc' = [pc EXCEPT !["rx"] = IF k = "own" THEN "status" ELSE "free"]
    BY <1>4 DEF RxReadEmpty
  <2>2. mem' \in [Buf -> Message \cup {None}]
    BY <2>1, OwnMessages
  <2>3. QED
    BY <1>4, <2>1, <2>2 DEF RxReadEmpty
<1>5. CASE RxReadFails
  BY <1>5 DEF RxReadFails
<1>6. ASSUME NEW k \in Kind, RxPush(k) PROVE Typed'
  <2>1. rx_buf \in Buf
    BY <1>6 DEF RxPush
  <2>2. /\ Append(queue[k], rx_buf) \in Seq(Buf)
        /\ Len(Append(queue[k], rx_buf)) = Len(queue[k]) + 1 /\ Len(queue[k]) \in Nat
    BY <2>1, Appended
  <2>3. queue' \in [Kind -> Seq(Buf)] /\ \A l \in Kind : Len(queue'[l]) <= Cap[l]
    BY <1>6, <2>2, CapAssumption DEF RxPush
  <2>4. QED
    BY <1>6, <2>3 DEF RxPush, CheckAt
<1>7. ASSUME NEW k \in Kind, RxCheck(k) PROVE Typed'
  BY <1>7 DEF RxCheck, PostAt
<1>8. ASSUME NEW k \in Kind, RxPost(k) PROVE Typed'
  BY <1>8 DEF RxPost
<1>9. CASE RxStatus
  BY <1>9 DEF RxStatus
<1>10. CASE RxFree
  BY <1>10 DEF RxFree
<1>11. QED
  BY <1>1, <1>2, <1>3, <1>4, <1>5, <1>6, <1>7, <1>8, <1>9, <1>10 DEF RxStep

\* So does every step of the data and indication threads.
LEMMA WorkStepTyped == ASSUME Typed, NEW k \in Kind, WorkStep(k) PROVE Typed'
<1> USE DEF Typed, RxTypeOK, Held, RxPcs, WorkPcs, Goto, WorkUnchanged
<1>1. CASE Wait(k, "loop") \/ Reset(k) \/ Again(k)
  BY <1>1, LoopTyped
<1>2. CASE Pop(k)
  <2> DEFINE go_on == queue[k] # <<>> /\ (k = "data" => ~should_stop[k])
  <2>1. CASE go_on
    <3>1. Head(queue[k]) \in Buf /\ Tail(queue[k]) \in Seq(Buf) /\ Len(Tail(queue[k])) <= Len(queue[k])
      BY <2>1, HeadTail
    <3>2. queue' \in [Kind -> Seq(Buf)] /\ \A l \in Kind : Len(queue'[l]) <= Cap[l]
      BY <1>2, <2>1, <3>1, HeadTail, CapAssumption DEF Pop
    <3>3. QED
      BY <1>2, <2>1, <3>1, <3>2, NoneApart DEF Pop
  <2>2. CASE ~go_on
    BY <1>2, <2>2 DEF Pop
  <2>3. QED
    BY <2>1, <2>2
<1>3. CASE Handle(k)
  BY <1>3 DEF Handle
<1>4. QED
  BY <1>1, <1>2, <1>3 DEF WorkStep

\* So do the chip, its interrupt and the shutdown.
LEMMA EnvTyped == ASSUME Typed, ChipSend \/ Interrupt \/ DeinitStep PROVE Typed'
<1> USE DEF Typed, RxTypeOK, Held, RxPcs, WorkPcs, DeinitPcs, Goto
<1>1. CASE ChipSend
  <2>1. chip' \in 0..ChipDepth
    BY <1>1, DepthAssumption DEF ChipSend
  <2>2. QED
    BY <1>1, <2>1 DEF ChipSend, EnvUnchanged
<1>2. CASE Interrupt
  BY <1>2 DEF Interrupt, EnvUnchanged
<1>3. ASSUME NEW t \in Thread, DeinitPost(t) PROVE Typed'
  BY <1>3 DEF DeinitPost, DeinitUnchanged, StopAt
<1>4. ASSUME NEW t \in Thread, DeinitStop(t) PROVE Typed'
  BY <1>4 DEF DeinitStop, DeinitUnchanged, JoinAt
<1>5. ASSUME NEW t \in Thread, DeinitJoin(t) PROVE Typed'
  <2>1. queue' \in [Kind -> Seq(Buf)] /\ \A l \in Kind : Len(queue'[l]) <= Cap[l]
    BY <1>5, CapAssumption DEF DeinitJoin
  <2>2. mem' \in [Buf -> Message \cup {None}]
    BY <1>5 DEF DeinitJoin
  <2>3. dpc' \in DeinitPcs
    BY <1>5 DEF DeinitJoin, After
  <2>4. QED
    BY <1>5, <2>1, <2>2, <2>3 DEF DeinitJoin, DeinitUnchanged
<1>6. QED
  BY <1>1, <1>2, <1>3, <1>4, <1>5 DEF DeinitStep

\* Every step keeps the types and the buffers where the threads expect them.
LEMMA NextTyped == Typed /\ [Next]_vars => Typed'
<1>1. Typed /\ UNCHANGED vars => Typed'
  BY DEF vars, Typed, RxTypeOK, Held
<1>2. QED
  BY <1>1, RxStepTyped, WorkStepTyped, EnvTyped DEF Next

\* The types hold in every state: no ring outgrows its depth, and no thread is
\* ever in the other's code.
THEOREM RxTypeCorrect == Spec => []RxTypeOK
<1>1. Typed => RxTypeOK
  BY DEF Typed
<1>2. QED
  BY <1>1, InitTyped, NextTyped, PTL DEF Spec

-----------------------------------------------------------------------------
(* Ownership *)

\* At the start no buffer has an owner.
LEMMA InitOwned == Init => BuffersOwnedOnce
<1> SUFFICES ASSUME Init PROVE BuffersOwnedOnce
  OBVIOUS
<1>1. \A k \in Kind : queue[k] = <<>> /\ Len(queue[k]) = 0 /\ buf[k] = None
  BY DEF Init
<1>2. rx_buf = None /\ \A b \in Buf : b # None /\ mem[b] = None
  BY NoneApart DEF Init
<1>3. \A b \in Buf : \A k \in Kind : ~InQueue(b, k)
  BY <1>1 DEF InQueue
<1>4. QED
  BY <1>1, <1>2, <1>3 DEF BuffersOwnedOnce

\* A step that moves no buffer, and one that reads a message into the RX thread's.
LEMMA SameOwners ==
  ASSUME Typed, BuffersOwnedOnce, UNCHANGED <<queue, rx_buf, buf>>,
         \A b \in Buf : mem'[b] # None <=> mem[b] # None
  PROVE  BuffersOwnedOnce'
BY DEF BuffersOwnedOnce, InQueue

\* A buffer that is allocated was free, and has one owner then.
LEMMA AllocOwned == ASSUME Typed, BuffersOwnedOnce, RxAlloc PROVE BuffersOwnedOnce'
<1>1. UNCHANGED <<queue, buf>> /\ mem \in [Buf -> Message \cup {None}] /\ rx_buf \in Buf \cup {None}
  BY DEF RxAlloc, RxUnchanged, Typed, RxTypeOK
<1>2. CASE rx_buf' = rx_buf
  <2>1. mem' = mem
    BY <1>2, NoneApart DEF RxAlloc
  <2>2. QED
    BY <1>1, <1>2, <2>1, SameOwners
<1>3. CASE rx_buf' # rx_buf
  <2>1. rx_buf = None /\ rx_buf' \in Buf /\ mem[rx_buf'] = None
    BY <1>3 DEF RxAlloc
  <2>2. mem' = [mem EXCEPT ![rx_buf'] = [kind |-> "own", val |-> None]]
    BY <2>1, NoneApart DEF RxAlloc
  <2>3. [kind |-> "own", val |-> None] # None
    BY OwnMessages, NoneApart
  <2>4. \A k \in Kind : rx_buf' # buf[k] /\ ~InQueue(rx_buf', k)
    BY <2>1 DEF BuffersOwnedOnce
  <2>5. \A b \in Buf : mem'[b] # None <=> b = rx_buf' \/ mem[b] # None
    BY <1>1, <2>1, <2>2, <2>3
  <2>6. QED
    BY <1>1, <2>1, <2>4, <2>5, NoneApart DEF BuffersOwnedOnce, InQueue
<1>4. QED
  BY <1>2, <1>3

\* A read leaves the buffer with the RX thread.
LEMMA ReadOwned ==
  ASSUME Typed, BuffersOwnedOnce, RxRead \/ RxReadEmpty PROVE BuffersOwnedOnce'
<1>1. /\ UNCHANGED <<queue, rx_buf, buf>> /\ rx_buf \in Buf
      /\ mem \in [Buf -> Message \cup {None}] /\ mem[rx_buf] # None
  BY DEF RxRead, RxReadEmpty, RxUnchanged, Typed, RxTypeOK, Held, BuffersOwnedOnce
<1>2. \E m \in Message : mem' = [mem EXCEPT ![rx_buf] = m]
  <2>1. CASE RxRead
    BY <2>1 DEF RxRead
  <2>2. CASE RxReadEmpty
    BY <2>2, OwnMessages DEF RxReadEmpty
  <2>3. QED
    BY <2>1, <2>2
<1>3. QED
  BY <1>1, <1>2, NoneApart, SameOwners

\* The ring takes the buffer from the RX thread, which is left without one.
LEMMA PushOwned ==
  ASSUME Typed, BuffersOwnedOnce, NEW k \in Kind, RxPush(k) PROVE BuffersOwnedOnce'
<1>1. UNCHANGED <<mem, buf>> /\ rx_buf \in Buf /\ queue \in [Kind -> Seq(Buf)]
  BY DEF RxPush, RxUnchanged, Typed, RxTypeOK, Held
<1>2. CASE Len(queue[k]) = Cap[k]
  BY <1>1, <1>2, SameOwners DEF RxPush
<1>3. CASE Len(queue[k]) # Cap[k]
  <2>1. /\ queue' = [queue EXCEPT ![k] = Append(queue[k], rx_buf)] /\ rx_buf' = None
        /\ \A l \in Kind : l # k => queue'[l] = queue[l]
    BY <1>1, <1>3 DEF RxPush
  <2>2. /\ Len(queue'[k]) = Len(queue[k]) + 1 /\ Len(queue[k]) \in Nat
        /\ \A i \in 1..Len(queue'[k]) : queue'[k][i] = IF i = Len(queue[k]) + 1 THEN rx_buf ELSE queue[k][i]
    BY <1>1, <2>1, Appended
  <2>3. \A b \in Buf : \A l \in Kind : InQueue(b, l)' <=> InQueue(b, l) \/ (l = k /\ b = rx_buf)
    <3> DEFINE n == Len(queue[k])
               new == queue'[k]
               old == queue[k]
    <3>0. /\ Len(new) = n + 1 /\ n \in Nat
          /\ new[n + 1] = rx_buf /\ \A i \in 1..n : i \in 1..(n + 1) /\ new[i] = old[i]
      BY <2>2
    <3> HIDE DEF n, new
    <3>1. \A b \in Buf : (\E i \in 1..(n + 1) : new[i] = b) <=> (\E i \in 1..n : old[i] = b) \/ b = rx_buf
      BY <3>0
    <3>2. \A b \in Buf : InQueue(b, k)' <=> InQueue(b, k) \/ b = rx_buf
      BY <3>0, <3>1 DEF InQueue, n, new
    <3>3. QED
      BY <2>1, <3>2 DEF InQueue
  <2>4. \A l \in Kind : rx_buf # buf[l] /\ ~InQueue(rx_buf, l)
    BY <1>1 DEF BuffersOwnedOnce
  <2>5. \A l \in Kind : \A i, j \in 1..Len(queue'[l]) : queue'[l][i] = queue'[l][j] => i = j
    <3>1. \A i \in 1..Len(queue[k]) : queue[k][i] # rx_buf
      BY <2>4 DEF InQueue
    <3>2. \A i, j \in 1..Len(queue'[k]) : queue'[k][i] = queue'[k][j] => i = j
      BY <2>2, <3>1 DEF BuffersOwnedOnce
    <3>3. QED
      BY <2>1, <3>2 DEF BuffersOwnedOnce
  <2>6. QED
    BY <1>1, <2>1, <2>3, <2>4, <2>5, NoneApart DEF BuffersOwnedOnce
<1>4. QED
  BY <1>2, <1>3

\* A buffer that is freed had the RX thread as its only owner.
LEMMA FreeOwned == ASSUME Typed, BuffersOwnedOnce, RxFree PROVE BuffersOwnedOnce'
<1>1. /\ UNCHANGED <<queue, buf>> /\ rx_buf' = None /\ rx_buf \in Buf \cup {None}
      /\ mem \in [Buf -> Message \cup {None}]
      /\ mem' = IF rx_buf # None THEN [mem EXCEPT ![rx_buf] = None] ELSE mem
  BY DEF RxFree, RxUnchanged, Typed, RxTypeOK
<1>2. \A b \in Buf : mem'[b] # None <=> mem[b] # None /\ b # rx_buf
  BY <1>1, NoneApart
<1>3. QED
  BY <1>1, <1>2, NoneApart DEF BuffersOwnedOnce, InQueue

\* The thread takes the oldest buffer out of its ring.
LEMMA PopOwned ==
  ASSUME Typed, BuffersOwnedOnce, NEW k \in Kind, Pop(k) PROVE BuffersOwnedOnce'
<1> DEFINE go_on == queue[k] # <<>> /\ (k = "data" => ~should_stop[k])
<1>1. /\ UNCHANGED <<mem, rx_buf>> /\ queue \in [Kind -> Seq(Buf)]
      /\ buf \in [Kind -> Buf \cup {None}] /\ buf[k] = None
  BY DEF Pop, WorkUnchanged, Typed, RxTypeOK, Held
<1>2. CASE ~go_on
  BY <1>1, <1>2, SameOwners DEF Pop
<1>3. CASE go_on
  <2>1. PICK b0, q : b0 = Head(queue[k]) /\ q = Tail(queue[k])
    OBVIOUS
  <2>2. /\ queue' = [queue EXCEPT ![k] = q] /\ buf' = [buf EXCEPT ![k] = b0]
    BY <1>3, <2>1 DEF Pop
  <2>3. /\ b0 \in Buf /\ b0 = queue[k][1] /\ Len(queue[k]) \in Nat \ {0} /\ Len(q) = Len(queue[k]) - 1
        /\ \A i \in 1..Len(q) : i + 1 \in 1..Len(queue[k]) /\ q[i] = queue[k][i + 1]
    BY <1>1, <1>3, <2>1, HeadTail
  <2>4. \A i \in 1..Len(q) : q[i] # b0
    <3>1. SUFFICES ASSUME NEW i \in 1..Len(q), q[i] = b0 PROVE FALSE
      OBVIOUS
    <3>2. 1 \in 1..Len(queue[k]) /\ i + 1 \in 1..Len(queue[k]) /\ queue[k][i + 1] = queue[k][1]
      BY <2>3, <3>1
    <3>3. i + 1 = 1
      BY <3>2 DEF BuffersOwnedOnce
    <3>4. QED
      BY <3>1, <3>3
  <2>5. \A b \in Buf : InQueue(b, k)' <=> InQueue(b, k) /\ b # b0
    <3>1. queue'[k] = q
      BY <1>1, <2>2
    <3>2. \A i \in 1..Len(queue[k]) : i = 1 \/ (i - 1 \in 1..Len(q) /\ q[i - 1] = queue[k][i])
      BY <2>3
    <3>3. ASSUME NEW b \in Buf, InQueue(b, k), b # b0 PROVE InQueue(b, k)'
      BY <2>3, <3>1, <3>2, <3>3 DEF InQueue
    <3>4. ASSUME NEW b \in Buf, InQueue(b, k)' PROVE InQueue(b, k) /\ b # b0
      BY <2>3, <2>4, <3>1, <3>4 DEF InQueue
    <3>5. QED
      BY <3>3, <3>4
  <2>6. InQueue(b0, k)
    BY <2>3 DEF InQueue
  <2>7. \A l \in Kind : \A i, j \in 1..Len(queue'[l]) : queue'[l][i] = queue'[l][j] => i = j
    <3>1. \A i, j \in 1..Len(q) : q[i] = q[j] => i + 1 = j + 1
      BY <2>3 DEF BuffersOwnedOnce
    <3>2. \A i, j \in 1..Len(q) : q[i] = q[j] => i = j
      BY <3>1
    <3>3. QED
      BY <1>1, <2>2, <3>2 DEF BuffersOwnedOnce
  <2>8. \A b \in Buf : \A l \in Kind : InQueue(b, l)' <=> InQueue(b, l) /\ ~(l = k /\ b = b0)
    <3>1. \A l \in Kind : l # k => queue'[l] = queue[l]
      BY <1>1, <2>2
    <3>2. QED
      BY <2>5, <3>1 DEF InQueue
  <2>9. \A l \in Kind : buf'[l] = IF l = k THEN b0 ELSE buf[l]
    BY <1>1, <2>2
  <2>10. /\ b0 # rx_buf /\ \A l \in Kind : (l # k => ~InQueue(b0, l)) /\ b0 # buf[l]
    BY <2>3, <2>6 DEF BuffersOwnedOnce
  <2>11. QED
    BY <1>1, <2>3, <2>6, <2>7, <2>8, <2>9, <2>10, NoneApart DEF BuffersOwnedOnce
<1>4. QED
  BY <1>2, <1>3

\* A buffer that is handled had its thread as its only owner.
LEMMA HandleOwned ==
  ASSUME Typed, BuffersOwnedOnce, NEW k \in Kind, Handle(k) PROVE BuffersOwnedOnce'
<1>1. /\ UNCHANGED <<queue, rx_buf>> /\ buf \in [Kind -> Buf \cup {None}] /\ buf[k] \in Buf
      /\ mem' = [mem EXCEPT ![buf[k]] = None] /\ mem \in [Buf -> Message \cup {None}]
      /\ buf' = [buf EXCEPT ![k] = None]
  BY DEF Handle, WorkUnchanged, Typed, RxTypeOK, Held
<1>2. \A b \in Buf : mem'[b] # None <=> mem[b] # None /\ b # buf[k]
  BY <1>1
<1>3. \A l \in Kind : buf'[l] = IF l = k THEN None ELSE buf[l]
  BY <1>1
<1>4. QED
  BY <1>1, <1>2, <1>3, NoneApart DEF BuffersOwnedOnce, InQueue

\* What the ring of a stopped thread still holds is freed.
LEMMA JoinOwned ==
  ASSUME Typed, BuffersOwnedOnce, NEW t \in Thread, DeinitJoin(t) PROVE BuffersOwnedOnce'
<1>1. UNCHANGED <<rx_buf, buf>> /\ queue \in [Kind -> Seq(Buf)] /\ mem \in [Buf -> Message \cup {None}]
  BY DEF DeinitJoin, DeinitUnchanged, Typed, RxTypeOK
<1>2. CASE t \notin Kind
  BY <1>1, <1>2, SameOwners DEF DeinitJoin
<1>3. CASE t \in Kind
  <2>1. \A b \in Buf : mem'[b] = IF InQueue(b, t) THEN None ELSE mem[b]
    BY <1>3 DEF DeinitJoin, InQueue
  <2>2. /\ \A l \in Kind : l # t => queue'[l] = queue[l]
        /\ queue'[t] = <<>> /\ Len(queue'[t]) = 0
    BY <1>1, <1>3 DEF DeinitJoin
  <2>3. \A b \in Buf : \A l \in Kind : InQueue(b, l)' <=> InQueue(b, l) /\ l # t
    BY <2>2 DEF InQueue
  <2>4. \A l \in Kind : \A i, j \in 1..Len(queue'[l]) : queue'[l][i] = queue'[l][j] => i = j
    BY <2>2 DEF BuffersOwnedOnce
  <2>5. QED
    BY <1>1, <1>3, <2>1, <2>3, <2>4 DEF BuffersOwnedOnce
<1>4. QED
  BY <1>2, <1>3

\* Every step keeps every buffer in one pair of hands.
LEMMA NextOwned == Typed /\ BuffersOwnedOnce /\ [Next]_vars => BuffersOwnedOnce'
<1> SUFFICES ASSUME Typed, BuffersOwnedOnce, [Next]_vars PROVE BuffersOwnedOnce'
  OBVIOUS
<1>1. CASE RxStep
  <2>1. CASE Wait("rx", "loop") \/ Reset("rx") \/ Again("rx") \/ RxReadFails \/ RxStatus
    BY <2>1, SameOwners DEF Wait, Reset, Again, RxReadFails, RxStatus, RxUnchanged
  <2>2. ASSUME NEW k \in Kind, RxCheck(k) \/ RxPost(k) PROVE BuffersOwnedOnce'
    BY <2>2, SameOwners DEF RxCheck, RxPost, RxUnchanged
  <2>3. QED
    BY <1>1, <2>1, <2>2, AllocOwned, ReadOwned, PushOwned, FreeOwned DEF RxStep
<1>2. ASSUME NEW k \in Kind, WorkStep(k) PROVE BuffersOwnedOnce'
  <2>1. CASE Wait(k, "loop") \/ Reset(k) \/ Again(k)
    BY <2>1, SameOwners DEF Wait, Reset, Again
  <2>2. QED
    BY <1>2, <2>1, PopOwned, HandleOwned DEF WorkStep
<1>3. CASE ChipSend \/ Interrupt
  BY <1>3, SameOwners DEF ChipSend, Interrupt, EnvUnchanged
<1>4. ASSUME NEW t \in Thread, DeinitPost(t) \/ DeinitStop(t) PROVE BuffersOwnedOnce'
  BY <1>4, SameOwners DEF DeinitPost, DeinitStop, DeinitUnchanged
<1>5. CASE UNCHANGED vars
  BY <1>5, SameOwners DEF vars
<1>6. QED
  BY <1>1, <1>2, <1>3, <1>4, <1>5, JoinOwned DEF Next, DeinitStep

\* Whatever is refused, fails or is cut off by the unloading: no buffer is in two
\* hands, and none is allocated without being in someone's.
THEOREM BuffersHaveOneOwner == Spec => []BuffersOwnedOnce
BY InitTyped, NextTyped, InitOwned, NextOwned, PTL DEF Spec

-----------------------------------------------------------------------------
(* RsRx implements LossyDelivery.  What LossyDelivery sees of a state:     *)

Inbox    == [k \in Kind |-> IF pc["rx"] = k THEN mem[rx_buf] ELSE None]
Pending  == [k \in Kind |-> [i \in 1..Len(queue[k]) |-> mem[queue[k][i]]]]
Handling == [k \in Kind |-> IF pc[k] = "handle" THEN mem[buf[k]] ELSE None]

Owned == Typed /\ BuffersOwnedOnce

\* The messages pending in a ring are the contents of its buffers, in order.
LEMMA PendingIsSeq ==
  ASSUME Owned, NEW k \in Kind
  PROVE  /\ Pending[k] \in Seq(Message \cup {None}) /\ Len(Pending[k]) = Len(queue[k])
         /\ Len(queue[k]) \in Nat
         /\ \A i \in 1..Len(queue[k]) : queue[k][i] \in Buf /\ Pending[k][i] = mem[queue[k][i]]
<1> DEFINE p == [i \in 1..Len(queue[k]) |-> mem[queue[k][i]]]
<1>1. queue[k] \in Seq(Buf) /\ mem \in [Buf -> Message \cup {None}]
  BY DEF Owned, Typed, RxTypeOK
<1>2. Len(queue[k]) \in Nat /\ \A i \in 1..Len(queue[k]) : queue[k][i] \in Buf
  BY <1>1
<1>3. p \in Seq(Message \cup {None}) /\ Len(p) = Len(queue[k])
  BY <1>1, <1>2
<1>4. Pending[k] = p
  BY DEF Pending
<1>5. QED
  BY <1>2, <1>3, <1>4

\* The abstract state changes only with its parts.
LEMMA PendingKept ==
  ASSUME NEW k \in Kind, queue'[k] = queue[k],
         \A i \in 1..Len(queue[k]) : mem'[queue[k][i]] = mem[queue[k][i]]
  PROVE  Pending'[k] = Pending[k]
<1>1. [i \in 1..Len(queue'[k]) |-> mem'[queue'[k][i]]] = [i \in 1..Len(queue[k]) |-> mem[queue[k][i]]]
  OBVIOUS
<1>2. QED
  BY <1>1 DEF Pending

\* They stay while the contents of the ring's buffers do.
LEMMA AllPendingKept ==
  ASSUME queue' = queue,
         \A k \in Kind : \A i \in 1..Len(queue[k]) : mem'[queue[k][i]] = mem[queue[k][i]]
  PROVE  Pending' = Pending
<1>1. \A k \in Kind : Pending'[k] = Pending[k]
  BY PendingKept
<1>2. QED
  BY <1>1 DEF Pending

\* Steps that move no message.
LEMMA SameView ==
  ASSUME UNCHANGED <<mem, queue, rx_buf, buf>>,
         \A k \in Kind : pc'["rx"] = k <=> pc["rx"] = k,
         \A k \in Kind : pc'[k] = "handle" <=> pc[k] = "handle"
  PROVE  UNCHANGED <<Inbox, Pending, Handling>>
BY DEF Inbox, Pending, Handling

\* Steps of the RX thread that change its own buffer only.
LEMMA OwnBufferView ==
  ASSUME Owned, UNCHANGED <<queue, buf>>,
         \A b \in Buf : b \notin {rx_buf, rx_buf'} => mem'[b] = mem[b],
         rx_buf' \in {rx_buf, None} \/ (rx_buf' \in Buf /\ mem[rx_buf'] = None),
         \A k \in Kind : pc'[k] = pc[k]
  PROVE  UNCHANGED <<Pending, Handling>>
<1>1. \A k \in Kind : \A i \in 1..Len(queue[k]) : queue[k][i] \in Buf /\ InQueue(queue[k][i], k)
  BY PendingIsSeq DEF InQueue
<1>2. \A k \in Kind : \A i \in 1..Len(queue[k]) : queue[k][i] \notin {rx_buf, rx_buf'}
  BY <1>1, NoneApart DEF Owned, BuffersOwnedOnce
<1>3. \A k \in Kind : pc[k] = "handle" => buf[k] \in Buf /\ buf[k] \notin {rx_buf, rx_buf'}
  BY NoneApart DEF Owned, Typed, RxTypeOK, Held, BuffersOwnedOnce
<1>4. Pending' = Pending
  BY <1>1, <1>2, AllPendingKept
<1>5. Handling' = Handling
  BY <1>3 DEF Handling
<1>6. QED
  BY <1>4, <1>5

\* A read is the arrival of a message, or nothing when it is of neither kind.
LEMMA ReadRefines ==
  ASSUME Owned, RxRead PROVE Delivery!Next \/ UNCHANGED Delivery!vars
<1>1. /\ UNCHANGED <<queue, buf, dpc, rx_buf>> /\ rx_buf \in Buf /\ pc["rx"] = "read"
      /\ mem \in [Buf -> Message \cup {None}] /\ pc \in [Thread -> RxPcs \cup WorkPcs]
  BY DEF RxRead, RxUnchanged, Goto, Owned, Typed, RxTypeOK, Held
<1>2. PICK m \in Message : mem' = [mem EXCEPT ![rx_buf] = m] /\ pc' = [pc EXCEPT !["rx"] = Dispatch(m)]
  BY DEF RxRead, Goto
<1>3. UNCHANGED <<Pending, Handling>>
  BY <1>1, <1>2, OwnBufferView
<1>4. Inbox = [k \in Kind |-> None] /\ mem'[rx_buf] = m
  BY <1>1, <1>2 DEF Inbox
<1>5. CASE m.kind \in Kind
  <2>1. Inbox' = [Inbox EXCEPT ![m.kind] = m]
    BY <1>1, <1>2, <1>4, <1>5 DEF Inbox, Dispatch
  <2>2. Delivery!Arrive(m.kind, m)
    BY <1>1, <1>3, <1>4, <1>5, <2>1 DEF Delivery!Arrive, Inbox, Pending, Handling
  <2>3. QED
    BY <1>5, <2>2 DEF Delivery!Next
<1>6. CASE m.kind \notin Kind
  <2>1. Inbox' = Inbox
    BY <1>1, <1>2, <1>4, <1>6 DEF Inbox, Dispatch
  <2>2. QED
    BY <1>1, <1>3, <2>1 DEF Delivery!vars, Inbox, Pending, Handling
<1>7. QED
  BY <1>5, <1>6

\* A push is the acceptance of the message, or its refusal when the ring is full.
LEMMA PushRefines ==
  ASSUME Owned, NEW k \in Kind, RxPush(k) PROVE Delivery!Next
<1>1. /\ UNCHANGED <<mem, buf, dpc>> /\ rx_buf \in Buf /\ pc["rx"] = k /\ mem[rx_buf] \in Message
      /\ pc \in [Thread -> RxPcs \cup WorkPcs] /\ pc' = [pc EXCEPT !["rx"] = CheckAt(k)]
      /\ queue \in [Kind -> Seq(Buf)] /\ mem \in [Buf -> Message \cup {None}]
      /\ Len(queue[k]) <= Cap[k] /\ Len(queue[k]) \in Nat /\ Cap[k] \in Nat
  BY PendingIsSeq, CapAssumption DEF RxPush, RxUnchanged, Goto, Owned, Typed, RxTypeOK, Held, BuffersOwnedOnce
<1>2. Handling' = Handling
  BY <1>1 DEF Handling
<1>3. Inbox[k] = mem[rx_buf] /\ Inbox' = [Inbox EXCEPT ![k] = None]
  BY <1>1 DEF Inbox, CheckAt
<1>4. Len(Pending[k]) = Len(queue[k]) /\ Inbox[k] # None
  BY <1>1, <1>3, PendingIsSeq, NoneApart
<1>5. CASE Len(queue[k]) = Cap[k]
  <2>1. Pending' = Pending
    BY <1>1, <1>5, AllPendingKept DEF RxPush
  <2>2. Delivery!Refuse(k)
    BY <1>1, <1>2, <1>3, <1>4, <1>5, <2>1 DEF Delivery!Refuse, Inbox, Pending, Handling
  <2>3. QED
    BY <2>2 DEF Delivery!Next
<1>6. CASE Len(queue[k]) # Cap[k]
  <2>1. queue' = [queue EXCEPT ![k] = Append(queue[k], rx_buf)]
    BY <1>6 DEF RxPush
  <2>2. \A l \in Kind : l # k => Pending'[l] = Pending[l]
    BY <1>1, <2>1, PendingKept
  <2>3. /\ queue'[k] \in Seq(Buf) /\ Len(queue'[k]) = Len(queue[k]) + 1
        /\ \A i \in 1..Len(queue'[k]) : queue'[k][i] = IF i = Len(queue[k]) + 1 THEN rx_buf ELSE queue[k][i]
    BY <1>1, <2>1, Appended
  <2>4. Pending'[k] = Append(Pending[k], mem[rx_buf])
    <3> DEFINE p == [i \in 1..Len(queue'[k]) |-> mem[queue'[k][i]]]
               a == Append(Pending[k], mem[rx_buf])
    <3>0. Pending[k] \in Seq(Message \cup {None}) /\ mem[rx_buf] \in Message \cup {None}
      BY <1>1, PendingIsSeq
    <3>1. /\ a \in Seq(Message \cup {None}) /\ Len(a) = Len(queue[k]) + 1
          /\ \A i \in 1..Len(a) : a[i] = IF i = Len(queue[k]) + 1 THEN mem[rx_buf] ELSE Pending[k][i]
      <4>1. /\ a \in Seq(Message \cup {None}) /\ Len(a) = Len(Pending[k]) + 1
            /\ \A i \in 1..Len(a) : a[i] = IF i = Len(Pending[k]) + 1 THEN mem[rx_buf] ELSE Pending[k][i]
        BY <3>0, Appended
      <4>2. QED
        BY <1>4, <4>1
    <3>2. /\ \A i \in 1..Len(queue'[k]) : queue'[k][i] \in Buf
          /\ Len(queue'[k]) \in Nat
      BY <2>3
    <3>3. p \in Seq(Message \cup {None}) /\ Len(p) = Len(queue'[k])
      BY <1>1, <3>2
    <3>4. \A i \in 1..Len(p) : p[i] = a[i]
      <4>1. SUFFICES ASSUME NEW i \in 1..Len(p) PROVE p[i] = a[i]
        OBVIOUS
      <4>2. i \in 1..Len(queue'[k]) /\ i \in 1..Len(a) /\ p[i] = mem[queue'[k][i]]
        BY <2>3, <3>1, <3>3
      <4>3. CASE i = Len(queue[k]) + 1
        BY <2>3, <3>1, <4>2, <4>3
      <4>4. CASE i # Len(queue[k]) + 1
        <5>1. i \in 1..Len(queue[k])
          BY <1>1, <2>3, <4>2, <4>4
        <5>2. queue'[k][i] = queue[k][i]
          BY <2>3, <4>2, <4>4
        <5>3. a[i] = Pending[k][i]
          BY <3>1, <4>2, <4>4
        <5>4. Pending[k][i] = mem[queue[k][i]]
          BY <5>1, PendingIsSeq
        <5>5. QED
          BY <4>2, <5>2, <5>3, <5>4
      <4>5. QED
        BY <4>3, <4>4
    <3>5. Pending'[k] = p
      BY <1>1 DEF Pending
    <3> HIDE DEF a, p
    <3>6. p = a
      BY <2>3, <3>1, <3>3, <3>4, SeqEqual
    <3>7. QED
      BY <3>5, <3>6 DEF a
  <2>5. Pending' = [Pending EXCEPT ![k] = Append(Pending[k], Inbox[k])]
    BY <1>3, <2>2, <2>4 DEF Pending
  <2>6. Len(Pending[k]) < Cap[k]
    BY <1>1, <1>4, <1>6
  <2>7. Delivery!Accept(k)
    BY <1>1, <1>2, <1>3, <1>4, <2>5, <2>6 DEF Delivery!Accept, Inbox, Pending, Handling
  <2>8. QED
    BY <2>7 DEF Delivery!Next
<1>7. QED
  BY <1>5, <1>6

\* A pop takes the first pending message into handling.
LEMMA PopRefines ==
  ASSUME Owned, NEW k \in Kind, Pop(k) PROVE Delivery!Next \/ UNCHANGED Delivery!vars
<1> DEFINE go_on == queue[k] # <<>> /\ (k = "data" => ~should_stop[k])
<1>1. /\ UNCHANGED <<mem, rx_buf, dpc>> /\ pc[k] = "loop" /\ buf \in [Kind -> Buf \cup {None}]
      /\ pc \in [Thread -> RxPcs \cup WorkPcs] /\ pc' = [pc EXCEPT ![k] = IF go_on THEN "handle" ELSE "reset"]
      /\ queue \in [Kind -> Seq(Buf)] /\ mem \in [Buf -> Message \cup {None}]
  BY DEF Pop, WorkUnchanged, Goto, Owned, Typed, RxTypeOK
<1>2. Inbox' = Inbox
  BY <1>1 DEF Inbox
<1>3. CASE ~go_on
  <2>1. Pending' = Pending
    BY <1>1, <1>3, AllPendingKept DEF Pop
  <2>2. Handling' = Handling
    BY <1>1, <1>3 DEF Pop, Handling
  <2>3. QED
    BY <1>1, <1>2, <2>1, <2>2 DEF Delivery!vars, Inbox, Pending, Handling
<1>4. CASE go_on
  <2>1. PICK b0, q : b0 = Head(queue[k]) /\ q = Tail(queue[k])
    OBVIOUS
  <2>2. queue' = [queue EXCEPT ![k] = q] /\ buf' = [buf EXCEPT ![k] = b0]
    BY <1>4, <2>1 DEF Pop
  <2>3. /\ b0 \in Buf /\ b0 = queue[k][1] /\ q \in Seq(Buf) /\ Len(queue[k]) \in Nat \ {0}
        /\ Len(q) = Len(queue[k]) - 1
        /\ \A i \in 1..Len(q) : i + 1 \in 1..Len(queue[k]) /\ q[i] = queue[k][i + 1]
    BY <1>1, <1>4, <2>1, HeadTail
  <2>4. PICK s : s = Pending[k]
    OBVIOUS
  <2>5. /\ s \in Seq(Message \cup {None}) /\ Len(s) = Len(queue[k]) /\ s # <<>>
        /\ \A i \in 1..Len(queue[k]) : s[i] = mem[queue[k][i]]
    BY <2>3, <2>4, PendingIsSeq
  <2>6. /\ Head(s) = s[1] /\ Tail(s) \in Seq(Message \cup {None}) /\ Len(Tail(s)) = Len(s) - 1
        /\ \A i \in 1..Len(Tail(s)) : Tail(s)[i] = s[i + 1]
    BY <2>5, HeadTail
  <2>7. Head(s) = mem[b0]
    BY <2>3, <2>5, <2>6
  <2>8. Pending'[k] = Tail(s)
    <3> DEFINE p == [i \in 1..Len(q) |-> mem[q[i]]]
    <3>1. \A i \in 1..Len(q) : q[i] \in Buf
      BY <2>3
    <3>2. p \in Seq(Message \cup {None}) /\ Len(p) = Len(q)
      BY <1>1, <2>3, <3>1
    <3>3. \A i \in 1..Len(p) : p[i] = Tail(s)[i]
      BY <2>3, <2>5, <2>6, <3>2
    <3>4. Pending'[k] = p
      BY <1>1, <2>2 DEF Pending
    <3> HIDE DEF p
    <3>5. p = Tail(s)
      BY <2>3, <2>5, <2>6, <3>2, <3>3, SeqEqual
    <3>6. QED
      BY <3>4, <3>5
  <2>9. \A l \in Kind : l # k => Pending'[l] = Pending[l]
    BY <1>1, <2>2, PendingKept
  <2>10. Pending' = [Pending EXCEPT ![k] = Tail(Pending[k])]
    BY <2>4, <2>8, <2>9 DEF Pending
  <2>11. Handling[k] = None /\ Handling' = [Handling EXCEPT ![k] = Head(Pending[k])]
    BY <1>1, <1>4, <2>2, <2>4, <2>7 DEF Handling
  <2>12. Delivery!Handle(k)
    BY <1>1, <1>2, <2>4, <2>5, <2>10, <2>11 DEF Delivery!Handle, Inbox, Pending, Handling
  <2>13. QED
    BY <2>12 DEF Delivery!Next
<1>5. QED
  BY <1>3, <1>4

\* The return of the handler is the end of the message.
LEMMA HandleRefines ==
  ASSUME Owned, NEW k \in Kind, Handle(k) PROVE Delivery!Next
<1>1. /\ UNCHANGED <<queue, rx_buf, dpc>> /\ pc[k] = "handle" /\ buf \in [Kind -> Buf \cup {None}]
      /\ pc \in [Thread -> RxPcs \cup WorkPcs] /\ pc' = [pc EXCEPT ![k] = "loop"]
      /\ mem \in [Buf -> Message \cup {None}] /\ mem' = [mem EXCEPT ![buf[k]] = None]
      /\ buf' = [buf EXCEPT ![k] = None] /\ buf[k] \in Buf
  BY DEF Handle, WorkUnchanged, Goto, Owned, Typed, RxTypeOK, Held
<1>2. /\ mem[buf[k]] # None /\ buf[k] # rx_buf
      /\ \A l \in Kind : ~InQueue(buf[k], l) /\ (l # k => buf[k] # buf[l])
  BY <1>1 DEF Owned, BuffersOwnedOnce
<1>3. Inbox' = Inbox
  BY <1>1, <1>2 DEF Inbox, Owned, Typed, RxTypeOK, Held
<1>4. Pending' = Pending
  <2>1. \A l \in Kind : \A i \in 1..Len(queue[l]) : mem'[queue[l][i]] = mem[queue[l][i]]
    BY <1>1, <1>2, PendingIsSeq DEF InQueue
  <2>2. QED
    BY <1>1, <2>1, AllPendingKept
<1>5. \A l \in Kind : l # k => Handling'[l] = Handling[l]
  BY <1>1, <1>2, NoneApart DEF Handling, Owned, Typed, Held
<1>6. Handling[k] # None /\ Handling' = [Handling EXCEPT ![k] = None]
  BY <1>1, <1>2, <1>5 DEF Handling
<1>7. Delivery!Done(k)
  BY <1>1, <1>3, <1>4, <1>6 DEF Delivery!Done, Inbox, Pending, Handling
<1>8. QED
  BY <1>7 DEF Delivery!Next

\* The shutdown closes the delivery, drops what is pending of a kind, or changes nothing.
LEMMA DeinitRefines ==
  ASSUME Owned, DeinitStep PROVE Delivery!Next \/ UNCHANGED Delivery!vars
<1>1. ASSUME NEW t \in Thread, DeinitPost(t) \/ DeinitStop(t) PROVE Delivery!Next \/ UNCHANGED Delivery!vars
  <2>1. UNCHANGED <<mem, queue, rx_buf, buf, pc>> /\ dpc' # "none"
    BY <1>1 DEF DeinitPost, DeinitStop, DeinitUnchanged, StopAt, JoinAt
  <2>2. UNCHANGED <<Inbox, Pending, Handling>>
    BY <2>1, SameView
  <2>3. CASE dpc = "none"
    BY <2>1, <2>2, <2>3 DEF Delivery!Next, Delivery!Close, Inbox, Pending, Handling
  <2>4. CASE dpc # "none"
    BY <2>1, <2>2, <2>4 DEF Delivery!vars, Inbox, Pending, Handling
  <2>5. QED
    BY <2>3, <2>4
<1>2. ASSUME NEW t \in Thread, DeinitJoin(t) PROVE Delivery!Next \/ UNCHANGED Delivery!vars
  <2>1. UNCHANGED <<rx_buf, buf, pc>> /\ dpc # "none" /\ dpc' # "none" /\ queue \in [Kind -> Seq(Buf)]
    BY <1>2 DEF DeinitJoin, DeinitUnchanged, JoinAt, After, Owned, Typed, RxTypeOK
  <2>2. CASE t \notin Kind
    <3>1. UNCHANGED queue /\ \A b \in Buf : mem'[b] = mem[b]
      BY <1>2, <2>2 DEF DeinitJoin
    <3>2. mem' = mem
      BY <1>2, <2>2 DEF DeinitJoin, Owned, Typed, RxTypeOK
    <3>3. QED
      BY <2>1, <3>1, <3>2, SameView DEF Delivery!vars, Inbox, Pending, Handling
  <2>3. CASE t \in Kind
    <3>1. \A b \in Buf : mem'[b] = IF InQueue(b, t) THEN None ELSE mem[b]
      BY <1>2, <2>3 DEF DeinitJoin, InQueue
    <3>2. queue' = [queue EXCEPT ![t] = <<>>]
      BY <1>2, <2>3 DEF DeinitJoin
    <3>3. rx_buf \in Buf => ~InQueue(rx_buf, t)
      BY <2>3 DEF Owned, BuffersOwnedOnce
    <3>4. Inbox' = Inbox
      BY <2>1, <3>1, <3>3 DEF Inbox, Owned, Typed, RxTypeOK, Held
    <3>5. Handling' = Handling
      BY <2>1, <2>3, <3>1 DEF Handling, Owned, Typed, RxTypeOK, Held, BuffersOwnedOnce
    <3>6. \A l \in Kind : l # t => Pending'[l] = Pending[l]
      <4>1. SUFFICES ASSUME NEW l \in Kind, l # t PROVE Pending'[l] = Pending[l]
        OBVIOUS
      <4>2. \A i \in 1..Len(queue[l]) : queue[l][i] \in Buf /\ InQueue(queue[l][i], l)
        BY PendingIsSeq DEF InQueue
      <4>3. \A i \in 1..Len(queue[l]) : ~InQueue(queue[l][i], t)
        BY <2>3, <4>1, <4>2 DEF Owned, BuffersOwnedOnce
      <4>4. queue'[l] = queue[l]
        BY <2>1, <3>2, <4>1
      <4>5. \A i \in 1..Len(queue[l]) : mem'[queue[l][i]] = mem[queue[l][i]]
        BY <3>1, <4>2, <4>3
      <4>6. QED
        BY <4>4, <4>5, PendingKept
    <3>7. Pending'[t] = <<>>
      <4>1. queue'[t] = <<>>
        BY <2>1, <2>3, <3>2
      <4>2. Pending'[t] = [i \in 1..0 |-> mem'[queue'[t][i]]]
        BY <2>3, <4>1 DEF Pending
      <4>3. QED
        BY <4>2
    <3>8. Pending' = [Pending EXCEPT ![t] = <<>>]
      BY <3>6, <3>7 DEF Pending
    <3>9. Delivery!Flush(t)
      BY <2>1, <3>4, <3>5, <3>8 DEF Delivery!Flush, Inbox, Pending, Handling
    <3>10. QED
      BY <2>3, <3>9 DEF Delivery!Next
  <2>4. QED
    BY <2>2, <2>3
<1>3. QED
  BY <1>1, <1>2 DEF DeinitStep

\* Every step is a step of LossyDelivery or changes nothing it sees.
LEMMA NextRefines == Owned /\ [Next]_vars => [Delivery!Next]_Delivery!vars
<1> SUFFICES ASSUME Owned, [Next]_vars PROVE Delivery!Next \/ UNCHANGED Delivery!vars
  OBVIOUS
<1>1. pc \in [Thread -> RxPcs \cup WorkPcs] /\ mem \in [Buf -> Message \cup {None}]
  BY DEF Owned, Typed, RxTypeOK
<1>2. CASE RxStep
  <2>1. CASE Wait("rx", "loop") \/ Reset("rx") \/ Again("rx") \/ RxReadFails \/ RxStatus
    <3>1. /\ UNCHANGED <<mem, queue, rx_buf, buf, dpc>>
          /\ \A k \in Kind : pc'["rx"] = k <=> pc["rx"] = k
          /\ \A k \in Kind : pc'[k] = pc[k]
      BY <1>1, <2>1 DEF Wait, Reset, Again, RxReadFails, RxStatus, RxUnchanged, Goto
    <3>2. QED
      BY <3>1, SameView DEF Delivery!vars, Inbox, Pending, Handling
  <2>2. ASSUME NEW l \in Kind, RxCheck(l) \/ RxPost(l) PROVE UNCHANGED Delivery!vars
    <3>1. /\ UNCHANGED <<mem, queue, rx_buf, buf, dpc>>
          /\ \A k \in Kind : pc'["rx"] = k <=> pc["rx"] = k
          /\ \A k \in Kind : pc'[k] = pc[k]
      BY <1>1, <2>2 DEF RxCheck, RxPost, RxUnchanged, Goto, CheckAt, PostAt
    <3>2. QED
      BY <3>1, SameView DEF Delivery!vars, Inbox, Pending, Handling
  <2>3. CASE RxAlloc \/ RxReadEmpty \/ RxFree
    <3>1. /\ UNCHANGED <<queue, buf, dpc>> /\ \A k \in Kind : pc'[k] = pc[k]
          /\ pc["rx"] \notin Kind /\ pc'["rx"] \notin Kind
      BY <1>1, <2>3 DEF RxAlloc, RxReadEmpty, RxFree, RxUnchanged, Goto
    <3>2. /\ \A b \in Buf : b \notin {rx_buf, rx_buf'} => mem'[b] = mem[b]
          /\ rx_buf' \in {rx_buf, None} \/ (rx_buf' \in Buf /\ mem[rx_buf'] = None)
      BY <1>1, <2>3 DEF RxAlloc, RxReadEmpty, RxFree
    <3>3. UNCHANGED <<Pending, Handling>>
      BY <3>1, <3>2, OwnBufferView
    <3>4. Inbox' = Inbox
      BY <3>1 DEF Inbox
    <3>5. QED
      BY <3>1, <3>3, <3>4 DEF Delivery!vars, Inbox, Pending, Handling
  <2>4. QED
    BY <1>2, <2>1, <2>2, <2>3, ReadRefines, PushRefines DEF RxStep
<1>3. ASSUME NEW k \in Kind, WorkStep(k) PROVE Delivery!Next \/ UNCHANGED Delivery!vars
  <2>1. CASE Wait(k, "loop") \/ Reset(k) \/ Again(k)
    <3>1. /\ UNCHANGED <<mem, queue, rx_buf, buf, dpc>> /\ pc'["rx"] = pc["rx"]
          /\ \A l \in Kind : pc'[l] = "handle" <=> pc[l] = "handle"
      BY <1>1, <2>1 DEF Wait, Reset, Again, Goto
    <3>2. QED
      BY <3>1, SameView DEF Delivery!vars, Inbox, Pending, Handling
  <2>2. QED
    BY <1>3, <2>1, PopRefines, HandleRefines DEF WorkStep
<1>4. CASE ChipSend \/ Interrupt \/ UNCHANGED vars
  BY <1>4 DEF ChipSend, Interrupt, EnvUnchanged, vars, Delivery!vars
<1>5. QED
  BY <1>2, <1>3, <1>4, DeinitRefines DEF Next

\* At the start nothing is pending.
LEMMA InitRefines == Init => Delivery!Init
<1> SUFFICES ASSUME Init PROVE Delivery!Init
  OBVIOUS
<1>1. /\ Inbox = [k \in Kind |-> None] /\ Handling = [k \in Kind |-> None] /\ ~(dpc # "none")
  BY DEF Init, Inbox, Handling
<1>2. \A k \in Kind : Pending[k] = <<>>
  <2>1. TAKE k \in Kind
  <2>2. Pending[k] = [i \in 1..0 |-> mem[queue[k][i]]]
    BY DEF Init, Pending
  <2>3. QED
    BY <2>2
<1>3. Pending = [k \in Kind |-> <<>>]
  BY <1>2 DEF Pending
<1>4. QED
  BY <1>1, <1>3 DEF Delivery!Init, Inbox, Pending, Handling

\* The receive side keeps what LossyDelivery promises, whatever the depths of the
\* rings and the number of buffers.
THEOREM RxRefinesDelivery == Spec => RefinesDelivery
<1>1. Typed /\ BuffersOwnedOnce => Owned
  BY DEF Owned
<1>2. QED
  BY <1>1, InitTyped, NextTyped, InitOwned, NextOwned, InitRefines, NextRefines, PTL
     DEF Spec, RefinesDelivery, Delivery!Spec
=============================================================================
