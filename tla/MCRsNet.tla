------------------------------- MODULE MCRsNet -------------------------------
(* TLC instances of RsNet. *)
EXTENDS RsNet, TLC

\* The calls that meet in the driver's state, closing and opening with each of them.
AllLoads == {
  [calls |-> {"open", "close", "add", "del", "change", "scan"}, max |-> 4],
  [calls |-> {"close", "scan", "scan_abort", "disconnect"}, max |-> 3],
  [calls |-> {"close", "connect", "disconnect"}, max |-> 3],
  [calls |-> {"close", "del", "roc", "mgmt_tx", "cancel_wait", "roc_cancel"}, max |-> 3],
  [calls |-> {"open", "close", "change", "start_ap", "stop_ap", "add_station", "del_station"}, max |-> 5],
  [calls |-> {"close", "del", "start_ap", "stop_ap", "csa"}, max |-> 4],
  [calls |-> {"close", "start_cac", "start_ap"}, max |-> 2],
  [calls |-> {"start_cac", "roc"}, max |-> 2],
  [calls |-> {"start_ap", "add_station", "change_station", "change_beacon", "probe_client"}, max |-> 3],
  [calls |-> {"add_key", "del_key", "set_txq_params", "set_tx_power", "set_power_mgmt"}, max |-> 2]}

\* Radar channels only.
CacLoads == {[calls |-> {"start_cac", "close"}, max |-> 3]}

Symmetry == Permutations(Vif)
=============================================================================
