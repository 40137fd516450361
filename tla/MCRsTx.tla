------------------------------ MODULE MCRsTx -------------------------------
(* TLC instances of RsTx. *)
EXTENDS RsTx

CONSTANTS CapAc, CapPower

MCCap == [a \in Ac |-> IF a = "AC" THEN CapAc ELSE CapPower]

Word(fullAc, fullPower, availAc, availPower) ==
  [full  |-> [a \in Ac |-> IF a = "AC" THEN fullAc ELSE fullPower],
   avail |-> [a \in Ac |-> IF a = "AC" THEN availAc ELSE availPower]]

\* Room above Threshold = 2 for data and below it for management frames.  For
\* the thread a full chip is what a scan is: the gate shut.  The safety run
\* keeps the scan and one word.
MCStatusSafety == {Word(FALSE, FALSE, 3, 1)}

\* The words between which the room left and the full bit change.
MCStatuses == {Word(FALSE, FALSE, 3, 1), Word(TRUE, FALSE, 1, 1)}

\* The chip always has room, for the run that looks for stopped interfaces.
MCStatusRoom == {Word(FALSE, FALSE, 1, 1)}
=============================================================================
