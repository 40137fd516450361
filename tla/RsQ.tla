------------------------------- MODULE RsQ ----------------------------------
(***************************************************************************)
(* struct rs_q of core/rs_c_q.c: the index arithmetic shared by every      *)
(* buffer queue of the driver (TX, TX power, RX data, indications).  A     *)
(* function that changes the queue is an operator returning the pair of    *)
(* the new queue and the s32 the function returns.                         *)
(*                                                                         *)
(* All four fields are u8.  The depths the driver uses are 32, 64 and 128  *)
(* (net/inc/rs_net.h), so no increment below wraps at 256; depths are      *)
(* 1 .. 255, the u8 values rs_c_q_init accepts.                            *)
(***************************************************************************)
EXTENDS Integers

\* Error codes of kal/inc/rs_type.h; indices are never negative.
RS_SUCCESS == 0
RS_EMPTY   == -2
RS_FULL    == -3

Depths == 1..255

\* The queues rs_q can be in between two calls.
RsQType(max) ==
  [free_idx : 0..(max - 1), used_idx : 0..(max - 1),
   used_count : 0..max, max_count : {max}]

rs_c_q_init(max) ==
  [free_idx |-> 0, used_idx |-> 0, used_count |-> 0, max_count |-> max]

\* "idx++; if (idx == max_count) idx = 0;"
Advance(idx, max) == IF idx + 1 = max THEN 0 ELSE idx + 1

rs_c_q_empty(q) == IF q.used_count = 0 THEN RS_EMPTY ELSE RS_SUCCESS

\* Mutant: the last free slot is reported as full.
BugFullOneEarly(q) == IF q.used_count + 1 >= q.max_count THEN RS_FULL ELSE RS_SUCCESS

rs_c_q_full(q) == IF q.used_count >= q.max_count THEN RS_FULL ELSE RS_SUCCESS

\* Mutant: the full test lets one item too many in.
BugPushOneTooMany(q) ==
  LET idx == Advance(q.free_idx, q.max_count)
  IN  IF q.used_count > q.max_count
      THEN [q |-> q, ret |-> RS_FULL]
      ELSE [q |-> [q EXCEPT !.free_idx = idx, !.used_count = @ + 1], ret |-> idx]

\* The first push of an empty queue hands out slot 1: the index is advanced
\* before it is used.
rs_c_q_push(q) ==
  LET idx == Advance(q.free_idx, q.max_count)
  IN  IF q.used_count = q.max_count
      THEN [q |-> q, ret |-> RS_FULL]
      ELSE [q |-> [q EXCEPT !.free_idx = idx, !.used_count = @ + 1], ret |-> idx]

rs_c_q_pop(q) ==
  LET idx == Advance(q.used_idx, q.max_count)
  IN  IF q.used_count = 0
      THEN [q |-> q, ret |-> RS_EMPTY]
      ELSE [q |-> [q EXCEPT !.used_idx = idx, !.used_count = @ - 1], ret |-> idx]

\* Mutant: the index of the last pop, not of the next one.
BugPickLastUsed(q) == IF q.used_count = 0 THEN RS_EMPTY ELSE q.used_idx

\* The slot the next pop will return, without popping.
rs_c_q_pick(q) ==
  IF q.used_count = 0
  THEN RS_EMPTY
  ELSE IF q.used_idx + 1 >= q.max_count THEN 0 ELSE q.used_idx + 1
=============================================================================
