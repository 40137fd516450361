------------------------------ MODULE MCRsCtrl ------------------------------
(* TLC instances of RsCtrl. *)
EXTENDS RsCtrl, TLC

CONSTANTS ADD_IF, MM_RESET, GET_RSSI, DEV_RESET, c1, c2

\* The bits of RS_MM_ADD_IF_CMD (104) and RS_MM_RESET_CMD (101), which overlap.
MCBits == (ADD_IF :> {3, 5, 6}) @@ (MM_RESET :> {0, 2, 5, 6})

\* Two callers that meet with different commands.
MCCmdOf == [a \in Caller |-> IF a = c1 THEN {ADD_IF} ELSE {MM_RESET}]
=============================================================================
