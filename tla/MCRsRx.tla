------------------------------- MODULE MCRsRx -------------------------------
(* TLC instances of RsRx. *)
EXTENDS RsRx, TLC

CONSTANTS CapData, CapIndi, Frame, Indication

MCCap     == ("data" :> CapData) @@ ("indi" :> CapIndi)
MCPayload == ("data" :> Frame) @@ ("indi" :> Indication)
=============================================================================
