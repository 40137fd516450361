------------------------------- MODULE MCRsBus -------------------------------
(* TLC instances of RsBus: both buses, a receiving and a sending thread. *)
EXTENDS RsBus, TLC

Buses == {"spi", "sdio"}
Users == {"rx", "tx"}
=============================================================================
