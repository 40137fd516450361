----------------------------- MODULE MCRsDetector -----------------------------
(* TLC instances of RsDetector. *)
EXTENDS RsDetector

CONSTANT Threshold

MCPpbThresh == [pri \in PriMin..PriMax |-> Threshold]

MCDistances == [short |-> {0, 1, 2, 4, 5, 23}, long |-> {0, 1, 2, 3, 7, 29}]
MCMaxTs     == [short |-> 42, long |-> 90]
MCMaxPulses == [short |-> 20, long |-> 7]
=============================================================================
