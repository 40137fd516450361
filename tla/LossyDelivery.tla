--------------------------- MODULE LossyDelivery ----------------------------
(***************************************************************************)
(* What the receive side promises the network layer, for each kind of      *)
(* message that is handed to a thread of its own: messages are handled in  *)
(* the order the chip sent them and each at most once; a message is given  *)
(* up only because Capacity messages of its kind are waiting, or because   *)
(* the driver is being unloaded.  RsRx is shown to implement this module.  *)
(***************************************************************************)
EXTENDS Naturals, Sequences

CONSTANTS
  Kind,      \* the kinds of message: received frames, indications
  Message,
  Capacity,  \* how many of each kind may wait
  None       \* no message

VARIABLES
  inbox,    \* the message being taken from the chip, of each kind
  pending,  \* the messages waiting, oldest first
  handling, \* the message its thread works on
  closing   \* the driver is being unloaded

vars == <<inbox, pending, handling, closing>>

Init ==
  /\ inbox = [k \in Kind |-> None]
  /\ pending = [k \in Kind |-> <<>>]
  /\ handling = [k \in Kind |-> None]
  /\ closing = FALSE

Arrive(k, m) ==
  /\ inbox[k] = None
  /\ inbox' = [inbox EXCEPT ![k] = m]
  /\ UNCHANGED <<pending, handling, closing>>

Accept(k) ==
  /\ inbox[k] # None
  /\ Len(pending[k]) < Capacity[k]
  /\ pending' = [pending EXCEPT ![k] = Append(@, inbox[k])]
  /\ inbox' = [inbox EXCEPT ![k] = None]
  /\ UNCHANGED <<handling, closing>>

Refuse(k) ==
  /\ inbox[k] # None
  /\ Len(pending[k]) = Capacity[k]
  /\ inbox' = [inbox EXCEPT ![k] = None]
  /\ UNCHANGED <<pending, handling, closing>>

Handle(k) ==
  /\ handling[k] = None
  /\ pending[k] # <<>>
  /\ handling' = [handling EXCEPT ![k] = Head(pending[k])]
  /\ pending' = [pending EXCEPT ![k] = Tail(@)]
  /\ UNCHANGED <<inbox, closing>>

Done(k) ==
  /\ handling[k] # None
  /\ handling' = [handling EXCEPT ![k] = None]
  /\ UNCHANGED <<inbox, pending, closing>>

Close ==
  /\ closing' = TRUE
  /\ UNCHANGED <<inbox, pending, handling>>

\* An unloading driver gives up what still waits.
Flush(k) ==
  /\ closing
  /\ pending' = [pending EXCEPT ![k] = <<>>]
  /\ UNCHANGED <<inbox, handling, closing>>

Next ==
  \/ \E k \in Kind :
       \/ \E m \in Message : Arrive(k, m)
       \/ Accept(k) \/ Refuse(k) \/ Handle(k) \/ Done(k) \/ Flush(k)
  \/ Close

Spec == Init /\ [][Next]_vars
=============================================================================
