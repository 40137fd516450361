----------------------------- MODULE MCRsRing ------------------------------
(* TLC instance of RsRing. *)
EXTENDS RsRing
=============================================================================
