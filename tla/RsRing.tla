------------------------------ MODULE RsRing --------------------------------
(***************************************************************************)
(* A buffer queue of the driver: struct rs_q and the array of slots it     *)
(* indexes, as c_tx_push and c_tx_pop (core/rs_c_tx.c) use them; the RX    *)
(* data and indication queues (core/rs_c_rx.c, core/rs_c_indi.c) repeat    *)
(* the pattern.  Both functions do their work under one spin lock, so      *)
(* each is one atomic action here.  The code trusts the slot, not the      *)
(* index: it stores only into a slot holding NULL and takes only from a    *)
(* slot holding data, and silently drops the buffer ("q push err") or      *)
(* returns nothing ("q pop err") otherwise.  The module shows that the     *)
(* two can never disagree, and that the ring is a bounded FIFO.            *)
(***************************************************************************)
EXTENDS RsQ, Sequences

CONSTANTS
  Item,    \* socket buffers
  Depth,   \* max_count, the number of slots
  NULL     \* an empty slot

ASSUME DepthAssumption == Depth \in Depths
ASSUME NullAssumption == NULL \notin Item

VARIABLES
  q,       \* struct rs_q
  buf,     \* the slots: temp_buf[i].data
  ret,     \* the caller's result
  out,     \* *tx_skb: what the last successful pop stored for its caller
  isFull   \* rs_c_q_full after the last push

vars == <<q, buf, ret, out, isFull>>

Slots == 0..(Depth - 1)

Init ==
  /\ q = rs_c_q_init(Depth)
  /\ buf = [i \in Slots |-> NULL]
  /\ ret = "RS_SUCCESS"
  /\ out = NULL
  /\ isFull = FALSE

\* The slots after a push that was given slot i: stored only over NULL.
StoreAt(i, x) == IF buf[i] = NULL THEN [buf EXCEPT ![i] = x] ELSE buf

c_tx_push(x) ==
  LET r == rs_c_q_push(q)
  IN  /\ q' = r.q
      /\ buf' = IF r.ret # RS_FULL THEN StoreAt(r.ret, x) ELSE buf
      /\ ret' = IF r.ret >= 0 THEN "RS_SUCCESS" ELSE "RS_FULL"
      /\ isFull' = (rs_c_q_full(r.q) = RS_FULL)
      /\ UNCHANGED out

\* Mutant: the slot keeps its pointer after the pop.
BugPopKeepsSlot ==
  LET r == rs_c_q_pop(q)
  IN  /\ q' = r.q
      /\ out' = IF r.ret # RS_EMPTY THEN buf[r.ret] ELSE out
      /\ ret' = IF r.ret >= 0 THEN "RS_SUCCESS" ELSE "RS_EMPTY"
      /\ UNCHANGED <<buf, isFull>>

c_tx_pop ==
  LET r == rs_c_q_pop(q)
      taken == r.ret # RS_EMPTY /\ buf[r.ret] # NULL
  IN  /\ q' = r.q
      /\ buf' = IF taken THEN [buf EXCEPT ![r.ret] = NULL] ELSE buf
      /\ out' = IF taken THEN buf[r.ret] ELSE out
      /\ ret' = IF r.ret >= 0 THEN "RS_SUCCESS" ELSE "RS_EMPTY"
      /\ UNCHANGED isFull

Next == (\E x \in Item : c_tx_push(x)) \/ c_tx_pop

Spec == Init /\ [][Next]_vars

-----------------------------------------------------------------------------
(* Properties *)

\* The indices stay inside the slot array and the count inside the depth.
TypeOK ==
  /\ q \in RsQType(Depth)
  /\ buf \in [Slots -> Item \cup {NULL}]
  /\ ret \in {"RS_SUCCESS", "RS_FULL", "RS_EMPTY"}
  /\ out \in Item \cup {NULL}
  /\ isFull \in BOOLEAN

\* The slot that holds the n-th oldest item, n \in 1..Depth.
SlotOf(n) == IF q.used_idx + n < Depth THEN q.used_idx + n ELSE q.used_idx + n - Depth

\* Exactly the used_count slots after used_idx hold data, and free_idx is the
\* last of them: so a push never meets an occupied slot, and a pop never an
\* empty one ("q push err" and "q pop err" of c_tx_push and c_tx_pop).
SlotsMatchIndices ==
  /\ \A n \in 1..Depth : buf[SlotOf(n)] # NULL <=> n <= q.used_count
  /\ q.free_idx = IF q.used_count = 0 THEN q.used_idx ELSE SlotOf(q.used_count)

\* rs_c_q_pick names the slot from which the next rs_c_q_pop takes.
PickIsNextPop == rs_c_q_pick(q) = rs_c_q_pop(q).ret

\* The queued items, oldest first.
Fifo == [n \in 1..q.used_count |-> buf[SlotOf(n)]]

\* The ring is a bounded FIFO: items leave in the order they came, each once,
\* a push is refused exactly when Depth items are queued, and the report that
\* stops the network interface is made exactly when the queue is full.
Abstract == INSTANCE BoundedFifo WITH fifo <- Fifo, Capacity <- Depth

RefinesFifo == Abstract!Spec

=============================================================================
