---------------------------- MODULE BoundedFifo ----------------------------
(***************************************************************************)
(* What the driver's buffer queues promise their users: a FIFO of bounded  *)
(* capacity.  A push on a full queue is refused and leaves the queue       *)
(* alone, a pop returns the oldest item, and every push reports whether    *)
(* the queue is full afterwards (c_tx_push stops the network interface on  *)
(* that report).  RsRing, the ring of indices and slots the code has, is   *)
(* shown to implement this module.                                         *)
(***************************************************************************)
EXTENDS Naturals, Sequences

CONSTANTS
  Item,      \* what is queued: socket buffers, indications, received frames
  Capacity,  \* how many of them fit, at least one
  NULL       \* "nothing taken yet"

VARIABLES
  fifo,    \* the queued items, oldest first
  ret,     \* what the last call returned
  out,     \* the item the last successful pop returned
  isFull   \* what the last push said about the queue

vars == <<fifo, ret, out, isFull>>

Init ==
  /\ fifo = <<>>
  /\ ret = "RS_SUCCESS"
  /\ out = NULL
  /\ isFull = FALSE

Push(x) ==
  /\ Len(fifo) < Capacity
  /\ fifo' = Append(fifo, x)
  /\ ret' = "RS_SUCCESS"
  /\ isFull' = (Len(fifo) + 1 = Capacity)
  /\ UNCHANGED out

PushRefused ==
  /\ Len(fifo) = Capacity
  /\ ret' = "RS_FULL"
  /\ isFull' = TRUE
  /\ UNCHANGED <<fifo, out>>

Pop ==
  /\ fifo # <<>>
  /\ out' = Head(fifo)
  /\ fifo' = Tail(fifo)
  /\ ret' = "RS_SUCCESS"
  /\ UNCHANGED isFull

PopRefused ==
  /\ fifo = <<>>
  /\ ret' = "RS_EMPTY"
  /\ UNCHANGED <<fifo, out, isFull>>

Next == (\E x \in Item : Push(x)) \/ PushRefused \/ Pop \/ PopRefused

Spec == Init /\ [][Next]_vars
=============================================================================
