--------------------------- MODULE RsRing_proofs ----------------------------
(***************************************************************************)
(* For every depth the driver can configure: the ring's indices and slots  *)
(* always agree, and the ring implements a bounded FIFO.                   *)
(***************************************************************************)
EXTENDS RsRing, TLAPS

\* One step of rs_c_q_push keeps struct rs_q well formed, hands out the slot
\* after free_idx, and refuses only when every slot is used.
LEMMA PushType ==
  ASSUME NEW max \in Depths, NEW qq \in RsQType(max)
  PROVE  /\ rs_c_q_push(qq).q \in RsQType(max)
         /\ qq.used_count = max =>
              rs_c_q_push(qq).q = qq /\ rs_c_q_push(qq).ret = RS_FULL
         /\ qq.used_count # max =>
              /\ rs_c_q_push(qq).ret \in 0..(max - 1)
              /\ rs_c_q_push(qq).ret = Advance(qq.free_idx, max)
              /\ rs_c_q_push(qq).q.free_idx = Advance(qq.free_idx, max)
              /\ rs_c_q_push(qq).q.used_count = qq.used_count + 1
              /\ rs_c_q_push(qq).q.used_idx = qq.used_idx
<1>1. /\ qq.free_idx \in 0..(max - 1) /\ qq.used_idx \in 0..(max - 1)
      /\ qq.used_count \in 0..max /\ qq.max_count = max /\ max \in 1..255
  BY DEF RsQType, Depths
<1>2. Advance(qq.free_idx, max) \in 0..(max - 1)
  BY <1>1 DEF Advance
<1>3. CASE qq.used_count = max
  BY <1>1, <1>3 DEF rs_c_q_push
<1>4. CASE qq.used_count # max
  <2> DEFINE idx == Advance(qq.free_idx, max)
             r == [qq EXCEPT !.free_idx = idx, !.used_count = @ + 1]
  <2>1. rs_c_q_push(qq).q = r /\ rs_c_q_push(qq).ret = idx
    BY <1>1, <1>4 DEF rs_c_q_push
  <2>2. idx \in 0..(max - 1) /\ qq.used_count + 1 \in 0..max
    BY <1>1, <1>2, <1>4
  <2> HIDE DEF idx
  <2>3. r \in RsQType(max)
    BY <2>2 DEF RsQType
  <2>4. /\ r.free_idx = idx /\ r.used_count = qq.used_count + 1
        /\ r.used_idx = qq.used_idx
    BY DEF RsQType
  <2> HIDE DEF r
  <2>5. QED
    BY <1>4, <2>1, <2>2, <2>3, <2>4 DEF idx
<1>5. QED
  BY <1>3, <1>4

\* One step of rs_c_q_pop, likewise.
LEMMA PopType ==
  ASSUME NEW max \in Depths, NEW qq \in RsQType(max)
  PROVE  /\ rs_c_q_pop(qq).q \in RsQType(max)
         /\ qq.used_count = 0 =>
              rs_c_q_pop(qq).q = qq /\ rs_c_q_pop(qq).ret = RS_EMPTY
         /\ qq.used_count # 0 =>
              /\ rs_c_q_pop(qq).ret \in 0..(max - 1)
              /\ rs_c_q_pop(qq).ret = Advance(qq.used_idx, max)
              /\ rs_c_q_pop(qq).q.used_idx = Advance(qq.used_idx, max)
              /\ rs_c_q_pop(qq).q.used_count = qq.used_count - 1
              /\ rs_c_q_pop(qq).q.free_idx = qq.free_idx
<1>1. /\ qq.free_idx \in 0..(max - 1) /\ qq.used_idx \in 0..(max - 1)
      /\ qq.used_count \in 0..max /\ qq.max_count = max /\ max \in 1..255
  BY DEF RsQType, Depths
<1>2. Advance(qq.used_idx, max) \in 0..(max - 1)
  BY <1>1 DEF Advance
<1>3. CASE qq.used_count = 0
  BY <1>1, <1>3 DEF rs_c_q_pop
<1>4. CASE qq.used_count # 0
  <2> DEFINE idx == Advance(qq.used_idx, max)
             r == [qq EXCEPT !.used_idx = idx, !.used_count = @ - 1]
  <2>1. rs_c_q_pop(qq).q = r /\ rs_c_q_pop(qq).ret = idx
    BY <1>1, <1>4 DEF rs_c_q_pop
  <2>2. idx \in 0..(max - 1) /\ qq.used_count - 1 \in 0..max
    BY <1>1, <1>2, <1>4
  <2> HIDE DEF idx
  <2>3. r \in RsQType(max)
    BY <2>2 DEF RsQType
  <2>4. /\ r.used_idx = idx /\ r.used_count = qq.used_count - 1
        /\ r.free_idx = qq.free_idx
    BY DEF RsQType
  <2> HIDE DEF r
  <2>5. QED
    BY <1>4, <2>1, <2>2, <2>3, <2>4 DEF idx
<1>5. QED
  BY <1>3, <1>4

\* rs_c_q_pick and rs_c_q_pop agree on every well-formed queue.
LEMMA PickOfType ==
  ASSUME NEW max \in Depths, NEW qq \in RsQType(max)
  PROVE  rs_c_q_pick(qq) = rs_c_q_pop(qq).ret
BY DEF Depths, RsQType, rs_c_q_pick, rs_c_q_pop, Advance, RS_EMPTY

-----------------------------------------------------------------------------
(* Type correctness *)

\* An empty ring is of its type.
LEMMA InitType == Init => TypeOK
<1> SUFFICES ASSUME Init PROVE TypeOK
  OBVIOUS
<1>1. q \in RsQType(Depth)
  BY DepthAssumption DEF Init, rs_c_q_init, RsQType, Depths
<1>2. QED
  BY <1>1 DEF Init, TypeOK

\* Every step leaves the ring of its type.
LEMMA NextType == TypeOK /\ [Next]_vars => TypeOK'
<1> SUFFICES ASSUME TypeOK, [Next]_vars PROVE TypeOK'
  OBVIOUS
<1> USE DepthAssumption
<1>1. ASSUME NEW x \in Item, c_tx_push(x) PROVE TypeOK'
  <2>1. q' \in RsQType(Depth)
    BY <1>1, PushType DEF c_tx_push, TypeOK
  <2>2. buf' \in [Slots -> Item \cup {NULL}]
    BY <1>1, PushType DEF c_tx_push, TypeOK, StoreAt, Slots
  <2>3. QED
    BY <1>1, <2>1, <2>2 DEF c_tx_push, TypeOK
<1>2. CASE c_tx_pop
  <2>1. q' \in RsQType(Depth)
    BY <1>2, PopType DEF c_tx_pop, TypeOK
  <2>2. buf' \in [Slots -> Item \cup {NULL}] /\ out' \in Item \cup {NULL}
    BY <1>2, PopType DEF c_tx_pop, TypeOK, Slots
  <2>3. QED
    BY <1>2, <2>1, <2>2 DEF c_tx_pop, TypeOK
<1>3. CASE UNCHANGED vars
  BY <1>3 DEF vars, TypeOK
<1>4. QED
  BY <1>1, <1>2, <1>3 DEF Next

-----------------------------------------------------------------------------
(* The slots agree with the indices *)

\* Positions 1..Depth of the queue name the Depth slots, each exactly once.
LEMMA SlotOfInjective ==
  ASSUME TypeOK, NEW m \in 1..Depth, NEW n \in 1..Depth
  PROVE  /\ SlotOf(n) \in Slots
         /\ SlotOf(m) = SlotOf(n) => m = n
<1>1. q.used_idx \in 0..(Depth - 1) /\ Depth \in 1..255
  BY DepthAssumption DEF TypeOK, RsQType, Depths
<1>2. QED
  BY <1>1 DEF SlotOf, Slots

\* The slot a push is given is the one after the newest item.
LEMMA PushSlot ==
  ASSUME TypeOK, SlotsMatchIndices, q.used_count # Depth
  PROVE  /\ q.used_count + 1 \in 1..Depth
         /\ Advance(q.free_idx, Depth) = SlotOf(q.used_count + 1)
         /\ buf[SlotOf(q.used_count + 1)] = NULL
<1>1. q.used_count \in 0..(Depth - 1) /\ q.used_idx \in 0..(Depth - 1) /\ Depth \in 1..255
  BY DepthAssumption DEF TypeOK, RsQType, Depths
<1>2. q.used_count + 1 \in 1..Depth
  BY <1>1
<1>3. Advance(q.free_idx, Depth) = SlotOf(q.used_count + 1)
  BY <1>1 DEF SlotsMatchIndices, SlotOf, Advance
<1>4. buf[SlotOf(q.used_count + 1)] = NULL
  BY <1>1, <1>2 DEF SlotsMatchIndices
<1>5. QED
  BY <1>2, <1>3, <1>4

\* In an empty ring no slot holds data.
LEMMA InitSlots == Init => SlotsMatchIndices
<1> SUFFICES ASSUME Init PROVE SlotsMatchIndices
  OBVIOUS
<1>1. TypeOK
  BY InitType
<1>2. q.used_count = 0 /\ q.free_idx = q.used_idx
  BY DEF Init, rs_c_q_init
<1>3. ASSUME NEW n \in 1..Depth PROVE buf[SlotOf(n)] = NULL
  BY <1>1, SlotOfInjective DEF Init
<1>4. QED
  BY <1>2, <1>3, DepthAssumption DEF SlotsMatchIndices, Depths

\* Every step keeps the data between the indices.
LEMMA NextSlots == TypeOK /\ SlotsMatchIndices /\ [Next]_vars => SlotsMatchIndices'
<1> SUFFICES ASSUME TypeOK, SlotsMatchIndices, [Next]_vars PROVE SlotsMatchIndices'
  OBVIOUS
<1> USE DepthAssumption
<1>t. TypeOK'
  BY NextType
<1>d. /\ Depth \in 1..255 /\ q.max_count = Depth
      /\ q.used_count \in 0..Depth /\ q.used_idx \in 0..(Depth - 1)
      /\ q.free_idx \in 0..(Depth - 1)
  BY DEF TypeOK, RsQType, Depths
<1>1. ASSUME NEW x \in Item, c_tx_push(x) PROVE SlotsMatchIndices'
  <2>1. CASE q.used_count = Depth
    <3>1. UNCHANGED <<q, buf>>
      BY <1>1, <2>1, PushType, <1>d DEF c_tx_push, TypeOK
    <3>2. QED
      BY <3>1 DEF SlotsMatchIndices, SlotOf
  <2>2. CASE q.used_count # Depth
    <3> DEFINE k == q.used_count + 1
    <3>1. /\ k \in 1..Depth
          /\ Advance(q.free_idx, Depth) = SlotOf(k)
          /\ buf[SlotOf(k)] = NULL
      BY <2>2, PushSlot
    <3>2. /\ q'.used_count = k /\ q'.used_idx = q.used_idx
          /\ q'.free_idx = SlotOf(k)
      BY <1>1, <2>2, <3>1, PushType DEF c_tx_push, TypeOK, Depths
    <3>3. SlotOf(k) \in Slots
      BY <3>1, SlotOfInjective
    <3>4. buf' = [buf EXCEPT ![SlotOf(k)] = x]
      <4>1. /\ rs_c_q_push(q).ret = SlotOf(k)
            /\ rs_c_q_push(q).ret # RS_FULL
        <5>1. rs_c_q_push(q).ret = Advance(q.free_idx, Depth)
          BY <2>2, PushType DEF TypeOK
        <5>2. SlotOf(k) >= 0
          BY <3>3, <1>d DEF Slots
        <5>3. QED
          BY <5>1, <5>2, <3>1 DEF RS_FULL
      <4>2. QED
        BY <1>1, <3>1, <4>1 DEF c_tx_push, StoreAt
    <3>5. ASSUME NEW n \in 1..Depth
          PROVE  buf'[SlotOf(n)] # NULL <=> n <= k
      <4>1. SlotOf(n) \in Slots /\ (SlotOf(n) = SlotOf(k) => n = k)
        BY <3>1, SlotOfInjective
      <4>2. CASE n = k
        BY <3>3, <3>4, <4>2, NullAssumption DEF TypeOK
      <4>3. CASE n # k
        <5>1. buf'[SlotOf(n)] = buf[SlotOf(n)]
          BY <3>4, <4>1, <4>3 DEF TypeOK
        <5>2. buf[SlotOf(n)] # NULL <=> n <= q.used_count
          BY DEF SlotsMatchIndices
        <5>3. QED
          BY <5>1, <5>2, <4>3, <1>d
      <4>4. QED
        BY <4>2, <4>3
    <3>6. \A n \in 1..Depth : SlotOf(n)' = SlotOf(n)
      BY <3>2 DEF SlotOf
    <3>7. QED
      BY <3>1, <3>2, <3>5, <3>6, <1>d DEF SlotsMatchIndices
  <2>3. QED
    BY <2>1, <2>2
<1>2. CASE c_tx_pop
  <2>1. CASE q.used_count = 0
    <3>1. UNCHANGED <<q, buf>>
      BY <1>2, <2>1, PopType DEF c_tx_pop, TypeOK
    <3>2. QED
      BY <3>1 DEF SlotsMatchIndices, SlotOf
  <2>2. CASE q.used_count # 0
    <3>1. /\ q'.used_count = q.used_count - 1
          /\ q'.used_idx = SlotOf(1)
          /\ q'.free_idx = q.free_idx
          /\ rs_c_q_pop(q).ret = SlotOf(1)
          /\ SlotOf(1) \in Slots
      <4>1. Advance(q.used_idx, Depth) = SlotOf(1) /\ SlotOf(1) \in Slots
        BY <1>d DEF SlotOf, Advance, Slots
      <4>2. /\ rs_c_q_pop(q).ret = Advance(q.used_idx, Depth)
            /\ rs_c_q_pop(q).q.used_idx = Advance(q.used_idx, Depth)
            /\ rs_c_q_pop(q).q.used_count = q.used_count - 1
            /\ rs_c_q_pop(q).q.free_idx = q.free_idx
        BY <2>2, PopType DEF TypeOK
      <4>3. q' = rs_c_q_pop(q).q
        BY <1>2 DEF c_tx_pop
      <4>4. QED
        BY <4>1, <4>2, <4>3
    <3>2. buf' = [buf EXCEPT ![SlotOf(1)] = NULL]
      <4>1. rs_c_q_pop(q).ret # RS_EMPTY
        BY <3>1, <1>d DEF Slots, RS_EMPTY
      <4>2. buf[SlotOf(1)] # NULL
        BY <2>2, <1>d DEF SlotsMatchIndices
      <4>3. QED
        BY <1>2, <3>1, <4>1, <4>2 DEF c_tx_pop
    <3>3. ASSUME NEW n \in 1..(Depth - 1)
          PROVE  SlotOf(n)' = SlotOf(n + 1)
      BY <3>1, <1>d DEF SlotOf
    <3>4. SlotOf(Depth)' = SlotOf(1)
      BY <3>1, <1>d DEF SlotOf
    <3>5. ASSUME NEW n \in 1..Depth
          PROVE  buf'[SlotOf(n)'] # NULL <=> n <= q.used_count - 1
      <4>1. CASE n = Depth
        <5>1. buf'[SlotOf(n)'] = NULL
          BY <3>1, <3>2, <3>4, <4>1 DEF TypeOK
        <5>2. QED
          BY <5>1, <4>1, <1>d
      <4>2. CASE n # Depth
        <5>1. n \in 1..(Depth - 1) /\ n + 1 \in 1..Depth /\ 1 \in 1..Depth /\ n + 1 # 1
          BY <4>2, <1>d
        <5>2. SlotOf(n)' = SlotOf(n + 1)
          BY <5>1, <3>3
        <5>3. SlotOf(n + 1) \in Slots /\ SlotOf(n + 1) # SlotOf(1)
          BY <5>1, SlotOfInjective
        <5>4. buf'[SlotOf(n)'] = buf[SlotOf(n + 1)]
          BY <5>2, <5>3, <3>2 DEF TypeOK
        <5>5. buf[SlotOf(n + 1)] # NULL <=> n + 1 <= q.used_count
          BY <5>1 DEF SlotsMatchIndices
        <5>6. QED
          BY <5>4, <5>5, <1>d
      <4>3. QED
        BY <4>1, <4>2
    <3>6. q'.free_idx = IF q'.used_count = 0 THEN q'.used_idx ELSE SlotOf(q.used_count)'
      <4>1. q.free_idx = SlotOf(q.used_count)
        BY <2>2 DEF SlotsMatchIndices
      <4>2. CASE q.used_count = 1
        BY <4>1, <4>2, <3>1
      <4>3. CASE q.used_count # 1
        <5>1. q'.used_count \in 1..(Depth - 1)
          BY <4>3, <2>2, <3>1, <1>d
        <5>2. SlotOf(q.used_count)' = SlotOf(q.used_count)
          BY <3>1, <1>d, <5>1 DEF SlotOf
        <5>3. QED
          BY <5>1, <5>2, <4>1, <3>1, <1>d
      <4>4. QED
        BY <4>2, <4>3
    <3>7. \A n \in 1..Depth : buf'[SlotOf(n)'] # NULL <=> n <= q'.used_count
      BY <3>1, <3>5
    <3>8. QED
      BY <3>6, <3>7 DEF SlotsMatchIndices
  <2>3. QED
    BY <2>1, <2>2
<1>3. CASE UNCHANGED vars
  BY <1>3 DEF vars, SlotsMatchIndices, SlotOf
<1>4. QED
  BY <1>1, <1>2, <1>3 DEF Next

\* In every reachable state the ring is well typed, and the slots holding
\* data are exactly the used_count slots the indices delimit: c_tx_push never
\* meets an occupied slot and c_tx_pop never an empty one.
THEOREM RingCorrect == Spec => [](TypeOK /\ SlotsMatchIndices)
<1>1. Init => TypeOK /\ SlotsMatchIndices
  BY InitType, InitSlots
<1>2. (TypeOK /\ SlotsMatchIndices) /\ [Next]_vars => (TypeOK /\ SlotsMatchIndices)'
  BY NextType, NextSlots
<1>3. QED
  BY <1>1, <1>2, PTL DEF Spec

\* Every depth: the indices and the count never leave their range.
THEOREM RingTypeCorrect == Spec => []TypeOK
BY RingCorrect, PTL

\* In every reachable state rs_c_q_pick, which nothing in the driver calls yet,
\* names the slot from which the next c_tx_pop takes.
THEOREM PickAgreesWithPop == Spec => []PickIsNextPop
<1>1. TypeOK => PickIsNextPop
  BY PickOfType, DepthAssumption DEF TypeOK, PickIsNextPop
<1>2. QED
  BY <1>1, RingCorrect, PTL

-----------------------------------------------------------------------------
(* The ring implements the bounded FIFO *)

\* Sequences of one length that agree at every index are equal.
LEMMA SeqEqual ==
  ASSUME NEW S, NEW s \in Seq(S), NEW t \in Seq(S), Len(s) = Len(t),
         \A n \in 1..Len(s) : s[n] = t[n]
  PROVE  s = t
OBVIOUS

\* What the ring holds is a sequence as long as its count.
LEMMA FifoIsSeq ==
  TypeOK /\ SlotsMatchIndices => Fifo \in Seq(Item) /\ Len(Fifo) = q.used_count
<1> SUFFICES ASSUME TypeOK, SlotsMatchIndices
             PROVE  Fifo \in Seq(Item) /\ Len(Fifo) = q.used_count
  OBVIOUS
<1>1. q.used_count \in 0..Depth /\ Depth \in 1..255
  BY DepthAssumption DEF TypeOK, RsQType, Depths
<1>2. ASSUME NEW n \in 1..q.used_count PROVE buf[SlotOf(n)] \in Item
  <2>1. n \in 1..Depth /\ n <= q.used_count
    BY <1>1
  <2>2. buf[SlotOf(n)] # NULL /\ SlotOf(n) \in Slots
    BY <2>1, SlotOfInjective DEF SlotsMatchIndices
  <2>3. QED
    BY <2>2 DEF TypeOK
<1>3. QED
  BY <1>1, <1>2 DEF Fifo

\* An empty ring is an empty FIFO.
LEMMA RefineInit == Init => Abstract!Init
<1> SUFFICES ASSUME Init PROVE Abstract!Init
  OBVIOUS
<1>1. q.used_count = 0
  BY DEF Init, rs_c_q_init
<1>2. Fifo = <<>>
  BY <1>1 DEF Fifo
<1>3. QED
  BY <1>2 DEF Init, Abstract!Init

\* A push maps to the abstract push, or to its refusal when every slot is used.
LEMMA RefinePush ==
  ASSUME TypeOK, SlotsMatchIndices, TypeOK', SlotsMatchIndices',
         NEW x \in Item, c_tx_push(x)
  PROVE  Abstract!Push(x) \/ Abstract!PushRefused
<1>d. /\ Depth \in 1..255 /\ q.max_count = Depth
      /\ q.used_count \in 0..Depth
  BY DepthAssumption DEF TypeOK, RsQType, Depths
<1>e. (TypeOK /\ SlotsMatchIndices => Fifo \in Seq(Item) /\ Len(Fifo) = q.used_count)'
  BY FifoIsSeq, PTL
<1>f. /\ Fifo \in Seq(Item) /\ Len(Fifo) = q.used_count
      /\ Fifo' \in Seq(Item) /\ Len(Fifo') = q'.used_count
  BY <1>e, FifoIsSeq
<1>1. CASE q.used_count = Depth
  <2>1. q' = q /\ buf' = buf /\ ret' = "RS_FULL" /\ isFull' = TRUE /\ out' = out
    <3>1. rs_c_q_push(q).q = q /\ rs_c_q_push(q).ret = RS_FULL
      BY <1>1, PushType, DepthAssumption DEF TypeOK
    <3>2. rs_c_q_full(q) = RS_FULL /\ ~(rs_c_q_push(q).ret >= 0)
      BY <3>1, <1>1, <1>d DEF rs_c_q_full, RS_FULL
    <3>3. q' = q /\ buf' = buf /\ ret' = "RS_FULL" /\ out' = out
      BY <3>1, <3>2 DEF c_tx_push
    <3>4. isFull' = TRUE
      BY <3>1, <3>2, Zenon DEF c_tx_push
    <3>5. QED
      BY <3>3, <3>4
  <2>2. Fifo' = Fifo
    BY <2>1 DEF Fifo, SlotOf
  <2>3. QED
    BY <2>1, <2>2, <1>1, <1>f DEF Abstract!PushRefused
<1>2. CASE q.used_count # Depth
  <2> DEFINE k == q.used_count + 1
  <2>1. /\ k \in 1..Depth
        /\ Advance(q.free_idx, Depth) = SlotOf(k)
        /\ buf[SlotOf(k)] = NULL
    BY <1>2, PushSlot
  <2>2. SlotOf(k) \in Slots
    BY <2>1, SlotOfInjective
  <2>3. /\ rs_c_q_push(q).ret = SlotOf(k)
        /\ rs_c_q_push(q).ret >= 0
        /\ rs_c_q_push(q).ret # RS_FULL
        /\ rs_c_q_push(q).q \in RsQType(Depth)
        /\ rs_c_q_push(q).q.used_count = k
        /\ rs_c_q_push(q).q.used_idx = q.used_idx
    <3>1. /\ rs_c_q_push(q).ret = Advance(q.free_idx, Depth)
          /\ rs_c_q_push(q).q \in RsQType(Depth)
          /\ rs_c_q_push(q).q.used_count = k
          /\ rs_c_q_push(q).q.used_idx = q.used_idx
      BY <1>2, PushType, DepthAssumption DEF TypeOK
    <3>2. SlotOf(k) >= 0
      BY <2>2, <1>d DEF Slots
    <3>3. QED
      BY <2>1, <3>1, <3>2 DEF RS_FULL
  <2>4. /\ buf' = [buf EXCEPT ![SlotOf(k)] = x]
        /\ ret' = "RS_SUCCESS" /\ out' = out
        /\ q'.used_count = k /\ q'.used_idx = q.used_idx
    BY <2>1, <2>3 DEF c_tx_push, StoreAt
  <2>5. isFull' = (k = Depth)
    <3>1. rs_c_q_push(q).q.max_count = Depth
      BY <2>3 DEF RsQType
    <3>2. QED
      BY <2>1, <2>3, <3>1, <1>d DEF c_tx_push, rs_c_q_full, RS_FULL, RS_SUCCESS
  <2>6. ASSUME NEW n \in 1..k PROVE Fifo'[n] = Append(Fifo, x)[n]
    <3>1. Fifo'[n] = buf'[SlotOf(n)]
      BY <2>4 DEF Fifo, SlotOf
    <3>2. n \in 1..Depth /\ SlotOf(n) \in Slots /\ (SlotOf(n) = SlotOf(k) => n = k)
      <4>1. n \in 1..Depth
        BY <2>1, <1>d
      <4>2. QED
        BY <4>1, <2>1, SlotOfInjective
    <3>3. CASE n = k
      BY <3>1, <3>3, <2>2, <2>4, <1>f DEF TypeOK
    <3>4. CASE n # k
      <4>1. n \in 1..q.used_count
        BY <3>4, <1>d
      <4>2. Fifo'[n] = buf[SlotOf(n)]
        BY <3>1, <3>2, <3>4, <2>4 DEF TypeOK
      <4>3. Append(Fifo, x)[n] = Fifo[n]
        BY <4>1, <1>f
      <4>4. QED
        BY <4>1, <4>2, <4>3 DEF Fifo
    <3>5. QED
      BY <3>3, <3>4
  <2>7. Fifo' = Append(Fifo, x)
    <3>1. Append(Fifo, x) \in Seq(Item) /\ Len(Append(Fifo, x)) = k
      BY <1>f
    <3>2. Len(Fifo') = k
      BY <1>f, <2>4
    <3>3. k \in Nat
      BY <1>d
    <3> HIDE DEF k
    <3>4. \A n \in 1..k : Fifo'[n] = Append(Fifo, x)[n]
      BY <2>6
    <3>5. QED
      BY <3>1, <3>2, <3>3, <3>4, <1>f, SeqEqual
  <2>8. QED
    <3>1. Len(Fifo) < Depth /\ Len(Fifo) + 1 = k
      BY <1>2, <1>d, <1>f
    <3>2. isFull' = (Len(Fifo) + 1 = Depth)
      BY <2>5, <3>1, Zenon
    <3>3. QED
      BY <2>4, <2>7, <3>1, <3>2, Zenon DEF Abstract!Push
<1>3. QED
  BY <1>1, <1>2

\* A pop maps to the abstract pop, or to its refusal on an empty queue.
LEMMA RefinePop ==
  ASSUME TypeOK, SlotsMatchIndices, TypeOK', SlotsMatchIndices', c_tx_pop
  PROVE  Abstract!Pop \/ Abstract!PopRefused
<1>d. /\ Depth \in 1..255 /\ q.used_count \in 0..Depth /\ q.used_idx \in 0..(Depth - 1)
  BY DepthAssumption DEF TypeOK, RsQType, Depths
<1>e. (TypeOK /\ SlotsMatchIndices => Fifo \in Seq(Item) /\ Len(Fifo) = q.used_count)'
  BY FifoIsSeq, PTL
<1>f. /\ Fifo \in Seq(Item) /\ Len(Fifo) = q.used_count
      /\ Fifo' \in Seq(Item) /\ Len(Fifo') = q'.used_count
  BY <1>e, FifoIsSeq
<1>1. CASE q.used_count = 0
  <2>1. q' = q /\ buf' = buf /\ ret' = "RS_EMPTY" /\ isFull' = isFull /\ out' = out
    <3>1. rs_c_q_pop(q).q = q /\ rs_c_q_pop(q).ret = RS_EMPTY
      BY <1>1, PopType, DepthAssumption DEF TypeOK
    <3>2. QED
      BY <3>1 DEF c_tx_pop, RS_EMPTY
  <2>2. Fifo' = Fifo
    BY <2>1 DEF Fifo, SlotOf
  <2>3. Fifo = <<>>
    BY <1>1 DEF Fifo
  <2>4. QED
    BY <2>1, <2>2, <2>3 DEF Abstract!PopRefused
<1>2. CASE q.used_count # 0
  <2>1. /\ Advance(q.used_idx, Depth) = SlotOf(1) /\ SlotOf(1) \in Slots
        /\ 1 \in 1..Depth /\ 1 \in 1..q.used_count
    BY <1>2, <1>d DEF SlotOf, Advance, Slots
  <2>2. /\ rs_c_q_pop(q).ret = SlotOf(1)
        /\ rs_c_q_pop(q).q.used_idx = SlotOf(1)
        /\ rs_c_q_pop(q).q.used_count = q.used_count - 1
    BY <1>2, <2>1, PopType, DepthAssumption DEF TypeOK
  <2>3. rs_c_q_pop(q).ret >= 0 /\ rs_c_q_pop(q).ret # RS_EMPTY
    BY <2>1, <2>2, <1>d DEF Slots, RS_EMPTY
  <2>4. buf[SlotOf(1)] # NULL
    BY <2>1, <1>2, <1>d DEF SlotsMatchIndices
  <2>5. /\ buf' = [buf EXCEPT ![SlotOf(1)] = NULL] /\ out' = buf[SlotOf(1)]
        /\ ret' = "RS_SUCCESS" /\ isFull' = isFull
        /\ q'.used_idx = SlotOf(1) /\ q'.used_count = q.used_count - 1
    BY <2>2, <2>3, <2>4 DEF c_tx_pop
  <2>6. ASSUME NEW n \in 1..(q.used_count - 1) PROVE Fifo'[n] = Tail(Fifo)[n]
    <3>1. /\ n + 1 \in 1..q.used_count /\ n + 1 \in 1..Depth /\ n + 1 # 1
          /\ n \in 1..q'.used_count
      BY <1>d, <2>5
    <3>2. SlotOf(n)' = SlotOf(n + 1)
      BY <2>5, <3>1, <1>d DEF SlotOf
    <3>3. Fifo'[n] = buf'[SlotOf(n)']
      BY <3>1 DEF Fifo
    <3>4. SlotOf(n + 1) \in Slots /\ SlotOf(n + 1) # SlotOf(1)
      BY <2>1, <3>1, SlotOfInjective
    <3>5. Fifo'[n] = buf[SlotOf(n + 1)]
      BY <3>2, <3>3, <3>4, <2>5 DEF TypeOK
    <3>6. Tail(Fifo)[n] = Fifo[n + 1]
      BY <3>1, <1>f
    <3>7. QED
      BY <3>1, <3>5, <3>6 DEF Fifo
  <2>7. Fifo' = Tail(Fifo)
    <3>1. Fifo # <<>> /\ Tail(Fifo) \in Seq(Item) /\ Len(Tail(Fifo)) = q.used_count - 1
      BY <1>2, <1>f
    <3>2. Len(Fifo') = q.used_count - 1
      BY <1>f, <2>5
    <3>3. QED
      BY <3>1, <3>2, <2>6, <1>f
  <2>8. Fifo # <<>> /\ Head(Fifo) = buf[SlotOf(1)]
    BY <1>2, <1>f, <2>1 DEF Fifo
  <2>9. QED
    BY <2>5, <2>7, <2>8 DEF Abstract!Pop
<1>3. QED
  BY <1>1, <1>2

\* Every depth: the ring of indices and slots implements the bounded FIFO, so
\* buffers leave a queue in the order they entered it, each exactly once.
THEOREM RingRefinesFifo == Spec => RefinesFifo
<1>1. Init => Abstract!Init
  BY RefineInit
<1>2. /\ TypeOK /\ SlotsMatchIndices /\ TypeOK' /\ SlotsMatchIndices'
      /\ [Next]_vars
      => [Abstract!Next]_Abstract!vars
  <2> SUFFICES ASSUME TypeOK, SlotsMatchIndices, TypeOK', SlotsMatchIndices', [Next]_vars
               PROVE  [Abstract!Next]_Abstract!vars
    OBVIOUS
  <2>1. ASSUME NEW x \in Item, c_tx_push(x) PROVE Abstract!Next
    BY <2>1, RefinePush DEF Abstract!Next
  <2>2. CASE c_tx_pop
    BY <2>2, RefinePop DEF Abstract!Next
  <2>3. CASE UNCHANGED vars
    BY <2>3 DEF vars, Abstract!vars, Fifo, SlotOf
  <2>4. QED
    BY <2>1, <2>2, <2>3 DEF Next
<1>3. QED
  BY <1>1, <1>2, RingCorrect, PTL DEF Spec, RefinesFifo, Abstract!Spec
=============================================================================
