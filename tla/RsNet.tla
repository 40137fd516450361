-------------------------------- MODULE RsNet --------------------------------
(***************************************************************************)
(* The cfg80211 side of the driver: the table of interfaces and the chip   *)
(* that is started for the first and reset after the last of them, scans,  *)
(* remain-on-channel and off-channel frames, connections, access points    *)
(* and their stations, and the availability check of radar channels (CAC). *)
(*                                                                         *)
(* Five threads: the stack's calls, which the kernel makes one at a time   *)
(* ("user"), the indication thread ("ind"), the work that looks at radar   *)
(* pulses ("dfs"), the delayed work that ends a CAC ("cac") and the work   *)
(* that ends a channel switch ("csa").  None holds a lock against the      *)
(* others, and each sleeps in its requests to the chip, so a handler is a  *)
(* list of steps.                                                          *)
(*                                                                         *)
(* Sources: net/linux/rs_net_cfg80211.c, rs_net_dev.c, rs_net_priv.c,      *)
(* rs_net_ctrl.c, rs_net_rx_indi.c, rs_net_dfs.c (its upper half).  What a *)
(* request does is RsCtrl's: it is answered, or the chip is reset and the  *)
(* recovery begins.  Frames, channels, cookies and the contents of keys    *)
(* are left out; the table of channel contexts is known by whether an      *)
(* interface has one.                                                      *)
(***************************************************************************)
EXTENDS Integers, Sequences, FiniteSets

CONSTANTS
  Vif,     \* interfaces
  None,    \* NULL, RS_NET_INVALID_VIF_IDX
  VifMax,  \* RS_NET_VIF_DEV_MAX: indices of the chip, and of avail_idx_map
  StaMax,  \* RS_NET_STA_MAX
  Loads,   \* bound: the calls of the stack a behaviour makes, and how many of them
  MaxInd   \* bound: indications on their way

Thread   == {"user", "ind", "dfs", "cac", "csa"}
VifIndex == 0..(VifMax - 1)
StaIndex == 0..(StaMax - 1)

ASSUME VifAssumption   == IsFiniteSet(Vif) /\ None \notin Vif
ASSUME IndexAssumption == VifMax \in Nat /\ StaMax \in Nat /\ None \notin VifIndex \cup StaIndex

VARIABLES
  vif,            \* each interface, see VifType
  vif_table,      \* net_priv->vif_table
  vif_started,    \* net_priv->vif_started
  avail_idx_map,  \* net_priv->avail_idx_map
  sta_valid,      \* net_priv->sta_table: the entries that are valid
  scan_request,   \* net_priv->scan_request, by its interface
  scan,           \* core->scan, which keeps the TX thread away from the chip
  roc,            \* net_priv->roc
  cac_vif,        \* dfs.cac_vif
  cac_pending,    \* dfs.cac_work is scheduled
  dfs_pending,    \* dfs.dfs_work is scheduled
  detect,         \* dpd.enabled is RS_DFS_DETECT_REPORT
  cac_status,     \* cmd_rsp.cac_start_rsp.status is RS_SUCCESS
  in_recovery,    \* core->recovery.in_recovery
  chip,           \* the chip
  indq,           \* its indications on their way to the indication thread
  stack,          \* what cfg80211 thinks
  todo,           \* the steps each thread has left
  on,             \* the interface each thread is at
  load,           \* the calls it makes
  nops            \* how many it has made

netVars  == <<vif, vif_table, vif_started, avail_idx_map>>
scanVars == <<scan_request, scan>>
cacVars  == <<cac_vif, cac_pending>>
dfsVars  == <<dfs_pending, detect, cac_status>>
chipVars == <<chip, in_recovery, indq>>
vars == <<netVars, sta_valid, scanVars, roc, cacVars, dfsVars, chipVars, stack, todo, on, load, nops>>

VifType == [
  reg  : BOOLEAN,                 \* registered, in net_priv->vifs
  type : {"sta", "ap"},           \* wdev.iftype
  drv  : VifIndex,                \* drv_vif_index, the last byte of its address
  idx  : VifIndex \cup {None},    \* vif_index, the chip's
  up   : BOOLEAN,
  chan : BOOLEAN,                 \* rs_net_cfg80211_get_chaninfo finds its context
  carrier : BOOLEAN,
  ap   : StaIndex \cup {None},    \* sta.ap
  csa  : {"none", "asked", "on", "ok", "failed"},  \* ap.csa: no record, one whose work
                                  \* is not set up, is, or is scheduled with a status
  stas : SUBSET StaIndex]         \* ap.sta_list

ChipType == [
  started : BOOLEAN,
  vifs : [VifIndex -> Vif \cup {None}],
  scan : BOOLEAN,
  roc  : {"off", "asked", "on"},
  join : SUBSET VifIndex,                        \* connections being made
  csa  : SUBSET VifIndex,                        \* channel switches being made
  stas : [StaIndex -> VifIndex \cup {None}]]     \* the interface of each station

\* What the chip reports, and the interface or the station it is about.
Indication ==
  [is : {"scan", "switch", "roc_exp", "radar"}]
    \cup [is : {"connect"}, idx : VifIndex, sta : StaIndex \cup {None}]
    \cup [is : {"disconnect"}, idx : VifIndex]
    \cup [is : {"csa"}, idx : VifIndex, ok : BOOLEAN]

ChipOff == [started |-> FALSE, vifs |-> [i \in VifIndex |-> None], scan |-> FALSE, roc |-> "off",
            join |-> {}, csa |-> {}, stas |-> [s \in StaIndex |-> None]]

IsUp(v)    == v # None /\ vif[v].up
HasChan(v) == v # None /\ vif[v].chan

\* A new net_device: zeroed, and ready for its type.
NewVif(t, d) == [reg |-> TRUE, type |-> t, drv |-> d, idx |-> 0, up |-> FALSE, chan |-> FALSE,
                 carrier |-> FALSE, ap |-> None, csa |-> "none", stas |-> {}]

\* The driver is loaded, one or two interfaces have been added (S, with the indices
\* d) and some of them opened (U, with the indices c).
StartVif(t, d, c, p, q) == [NewVif(t, d) EXCEPT !.reg = p, !.up = q, !.idx = c]
StartChip(b)            == [ChipOff EXCEPT !.started = b, !.vifs = vif_table]

\* The interfaces P are registered, and O of them open, each with an index of its own.
Started(P, O, t, d, c) ==
  /\ P # {} /\ O \subseteq P
  /\ {d[v] : v \in P} = 0..(Cardinality(P) - 1)
  /\ \A u, v \in O : c[u] = c[v] => u = v
  /\ \A v \in Vif \ P : d[v] = 0 /\ t[v] = "sta"
  /\ \A v \in Vif \ O : c[v] = 0
  /\ vif = [v \in Vif |-> StartVif(t[v], d[v], c[v], v \in P, v \in O)]
  /\ avail_idx_map = VifIndex \ {d[v] : v \in P}
  /\ vif_table = [i \in VifIndex |-> IF \E v \in O : c[v] = i THEN CHOOSE v \in O : c[v] = i ELSE None]
  /\ vif_started = Cardinality(O)
  /\ chip = StartChip(O # {})

Init ==
  /\ \E P, O \in SUBSET Vif, t \in [Vif -> {"sta", "ap"}], d, c \in [Vif -> VifIndex] : Started(P, O, t, d, c)
  /\ sta_valid = {}
  /\ scan_request = None /\ scan = FALSE
  /\ roc = None
  /\ cac_vif = None /\ cac_pending = FALSE
  /\ dfs_pending = FALSE /\ detect = FALSE /\ cac_status = TRUE
  /\ in_recovery = FALSE /\ indq = <<>>
  /\ stack = [scan |-> None, cac |-> {}, ap |-> {}]
  /\ todo = [t \in Thread |-> <<>>]
  /\ on = [t \in Thread |-> None]
  /\ load \in Loads /\ nops = 0

-----------------------------------------------------------------------------
(* Threads and requests                                                    *)

At(t, step) == todo[t] # <<>> /\ Head(todo[t]) = step

Done(t)        == todo' = [todo EXCEPT ![t] = Tail(@)]
Then(t, steps) == todo' = [todo EXCEPT ![t] = steps \o Tail(@)]
Return(t)      == todo' = [todo EXCEPT ![t] = <<>>]
\* A NULL pointer is followed, or a lock taken twice: the thread is gone.
Oops(t)        == todo' = [todo EXCEPT ![t] = <<"oops">>]

\* rs_c_ctrl_set_and_wait: the chip does what it is asked, or it is reset and the
\* recovery begins.  During the recovery every request fails.
Answered(effect) == ~in_recovery /\ chip' = effect /\ UNCHANGED in_recovery

NotAnswered ==
  /\ in_recovery' = TRUE
  /\ chip' = IF in_recovery THEN chip ELSE ChipOff

\* A request whose outcome the caller does not look at.
Ask(effect) == Answered(effect) \/ NotAnswered

\* The memory for the request or its response cannot be had.
NoMemory == UNCHANGED <<chip, in_recovery>>

\* A request that the caller gives up on when it fails.
AskOrReturn(t, effect) ==
  \/ Answered(effect) /\ Done(t)
  \/ NotAnswered /\ Return(t)

\* The next call of the stack, one that it makes only while ok.
Call(op, v, ok, steps) ==
  /\ op \in load.calls /\ nops < load.max /\ nops' = nops + 1 /\ UNCHANGED load
  /\ todo["user"] = <<>>
  /\ vif[v].reg /\ ok
  /\ todo' = [todo EXCEPT !["user"] = steps]
  /\ on' = [on EXCEPT !["user"] = v]

me == on["user"]

-----------------------------------------------------------------------------
(* Interfaces                                                              *)

\* ndo_open: the first interface starts the chip.
Open(v) ==
  /\ Call("open", v, ~vif[v].up,
          (IF vif_started = 0 THEN <<"dev_start">> ELSE <<>>) \o <<"if_add", "opened">>)
  /\ UNCHANGED <<netVars, sta_valid, scanVars, roc, cacVars, dfsVars, chipVars, stack>>

DevStart ==
  /\ At("user", "dev_start")
  /\ AskOrReturn("user", [chip EXCEPT !.started = TRUE])
  /\ UNCHANGED <<netVars, sta_valid, scanVars, roc, cacVars, dfsVars, indq, stack, on, load, nops>>

\* The chip gives the interface one of its indices, or refuses.
IfAdd ==
  /\ At("user", "if_add")
  /\ \/ \E i \in {j \in VifIndex : chip.vifs[j] = None} :
          /\ Answered([chip EXCEPT !.vifs[i] = me])
          /\ vif' = [vif EXCEPT ![me].idx = i]
          /\ Done("user")
     \/ (NoMemory \/ NotAnswered) /\ Return("user") /\ UNCHANGED vif
  /\ UNCHANGED <<vif_table, vif_started, avail_idx_map, sta_valid, scanVars, roc, cacVars, dfsVars,
                 indq, stack, on, load, nops>>

\* Mutant: the table is filled by the driver's own index.
BugOpened ==
  /\ At("user", "opened")
  /\ vif' = [vif EXCEPT ![me].up = TRUE, ![me].carrier = FALSE]
  /\ vif_started' = vif_started + 1
  /\ vif_table' = [vif_table EXCEPT ![vif[me].drv] = me]
  /\ Done("user")
  /\ UNCHANGED <<avail_idx_map, sta_valid, scanVars, roc, cacVars, dfsVars, chipVars, stack, on, load, nops>>

Opened ==
  /\ At("user", "opened")
  /\ vif' = [vif EXCEPT ![me].up = TRUE, ![me].carrier = FALSE]
  /\ vif_started' = vif_started + 1
  /\ vif_table' = [vif_table EXCEPT ![vif[me].idx] = me]
  /\ Done("user")
  /\ UNCHANGED <<avail_idx_map, sta_valid, scanVars, roc, cacVars, dfsVars, chipVars, stack, on, load, nops>>

CloseSteps == <<"cac_stop", "scan_stop", "if_remove", "closed">>

\* ndo_close: the stack has stopped an access point before.
Close(v) ==
  /\ Call("close", v, vif[v].up /\ v \notin stack.ap, CloseSteps)
  /\ UNCHANGED <<netVars, sta_valid, scanVars, roc, cacVars, dfsVars, chipVars, stack>>

\* What the chip forgets with an interface.
Removed(c, i) ==
  [c EXCEPT !.vifs[i] = None, !.join = @ \ {i}, !.csa = @ \ {i},
            !.stas = [s \in StaIndex |-> IF @[s] = i THEN None ELSE @[s]]]

\* The chip may go on with the scan or the stay on another channel.
IfRemove ==
  /\ At("user", "if_remove")
  /\ \E s \in {FALSE, chip.scan}, r \in {"off", chip.roc} :
       Ask([Removed(chip, vif[me].idx) EXCEPT !.scan = s, !.roc = r])
  /\ Done("user")
  /\ UNCHANGED <<netVars, sta_valid, scanVars, roc, cacVars, dfsVars, indq, stack, on, load, nops>>

\* The rest of ndo_close.  The table keeps its pointer: rs_net_priv_set_vif_priv
\* takes no NULL.
Closed ==
  /\ At("user", "closed")
  /\ roc' = IF roc # None /\ roc.vif = me THEN None ELSE roc
  /\ vif' = [vif EXCEPT ![me].up = FALSE, ![me].idx = None, ![me].chan = FALSE, ![me].carrier = FALSE]
  /\ UNCHANGED detect \/ (vif[me].chan /\ detect' = FALSE)
  /\ vif_started' = vif_started - 1
  /\ Then("user", IF vif_started = 1 THEN <<"dev_reset", "me_config", "chan_config">> ELSE <<>>)
  /\ stack' = [stack EXCEPT !.scan = IF @ = me THEN None ELSE @, !.cac = @ \ {me}]
  /\ UNCHANGED <<vif_table, avail_idx_map, sta_valid, scanVars, cacVars, dfs_pending, cac_status,
                 chipVars, on, load, nops>>

DevReset ==
  /\ At("user", "dev_reset")
  /\ Ask(ChipOff)
  /\ Done("user")
  /\ UNCHANGED <<netVars, sta_valid, scanVars, roc, cacVars, dfsVars, indq, stack, on, load, nops>>

\* rs_net_ctrl_me_config and rs_net_ctrl_me_chan_config: the chip is told what it
\* may do, which none of this depends on.
MeConfig ==
  /\ At("user", "me_config")
  /\ Ask(chip) \/ NoMemory
  /\ Done("user")
  /\ UNCHANGED <<netVars, sta_valid, scanVars, roc, cacVars, dfsVars, indq, stack, on, load, nops>>

ChanConfig ==
  /\ At("user", "chan_config")
  /\ Ask(chip) \/ NoMemory
  /\ Done("user")
  /\ UNCHANGED <<netVars, sta_valid, scanVars, roc, cacVars, dfsVars, indq, stack, on, load, nops>>

\* net_add_virtual_iface: the first index that is not in use.  A deleted interface
\* that the work of a channel switch still points to is no new one.
AddIface(v, t) ==
  /\ "add" \in load.calls /\ nops < load.max /\ nops' = nops + 1 /\ UNCHANGED load
  /\ todo["user"] = <<>>
  /\ ~vif[v].reg /\ vif[v].csa = "none"
  /\ \E d \in avail_idx_map :
       /\ \A i \in avail_idx_map : d <= i
       /\ vif' = [vif EXCEPT ![v] = NewVif(t, d)] /\ avail_idx_map' = avail_idx_map \ {d}
  /\ UNCHANGED <<vif_table, vif_started, sta_valid, scanVars, roc, cacVars, dfsVars, chipVars, stack, todo, on>>

\* net_cfg80211_del_virtual_iface: an open interface is closed first.
DelIface(v) ==
  /\ Call("del", v, v \notin stack.ap, (IF vif[v].up THEN CloseSteps ELSE <<>>) \o <<"unregistered">>)
  /\ UNCHANGED <<netVars, sta_valid, scanVars, roc, cacVars, dfsVars, chipVars, stack>>

\* Mutant: whatever index the interface has is given back.
BugUnregistered ==
  /\ At("user", "unregistered")
  /\ avail_idx_map' = avail_idx_map \cup {vif[me].idx}
  /\ vif' = [vif EXCEPT ![me].reg = FALSE]
  /\ Done("user")
  /\ UNCHANGED <<vif_table, vif_started, sta_valid, scanVars, roc, cacVars, dfsVars, chipVars, stack, on, load, nops>>

\* The index given back is the chip's, 0xFF after a close.
Unregistered ==
  /\ At("user", "unregistered")
  /\ avail_idx_map' = avail_idx_map \cup ({vif[me].idx} \cap VifIndex)
  /\ vif' = [vif EXCEPT ![me].reg = FALSE]
  /\ Done("user")
  /\ UNCHANGED <<vif_table, vif_started, sta_valid, scanVars, roc, cacVars, dfsVars, chipVars, stack, on, load, nops>>

ChangeTo(t) == IF t = "sta" THEN "change_sta" ELSE "change_ap"

\* net_cfg80211_change_virtual_iface, between station and access point; the lists
\* of the new type are made anew.  The way to a monitor takes the rtnl lock that
\* the caller holds.
ChangeIface(v, t) ==
  /\ Call("change", v, ~vif[v].up,
          IF t = "monitor" THEN <<"oops">>
          ELSE IF vif[v].type = "ap" /\ t # "ap" THEN <<"del_stations", ChangeTo(t)>>
          ELSE <<ChangeTo(t)>>)
  /\ UNCHANGED <<netVars, sta_valid, scanVars, roc, cacVars, dfsVars, chipVars, stack>>

Changed(t) ==
  /\ At("user", ChangeTo(t))
  /\ vif' = [vif EXCEPT ![me].type = t, ![me].ap = IF t = "sta" THEN None ELSE @,
                        ![me].stas = IF t = "ap" THEN {} ELSE @]
  /\ Done("user")
  /\ UNCHANGED <<vif_table, vif_started, avail_idx_map, sta_valid, scanVars, roc, cacVars, dfsVars,
                 chipVars, stack, on, load, nops>>

-----------------------------------------------------------------------------
(* Scans                                                                   *)

\* net_cfg80211_scan: the request is kept once the chip has answered.
Scan(v) ==
  /\ Call("scan", v, stack.scan = None /\ vif[v].up /\ vif[v].type # "ap" /\ scan_request = None,
          <<"scan_start", "scan_begun">>)
  /\ UNCHANGED <<netVars, sta_valid, scanVars, roc, cacVars, dfsVars, chipVars, stack>>

ScanStart ==
  /\ At("user", "scan_start")
  /\ AskOrReturn("user", [chip EXCEPT !.scan = TRUE])
  /\ UNCHANGED <<netVars, sta_valid, scanVars, roc, cacVars, dfsVars, indq, stack, on, load, nops>>

ScanBegun ==
  /\ At("user", "scan_begun")
  /\ scan_request' = me /\ scan' = TRUE
  /\ stack' = [stack EXCEPT !.scan = me]
  /\ Done("user")
  /\ UNCHANGED <<netVars, sta_valid, roc, cacVars, dfsVars, chipVars, on, load, nops>>

\* net_cfg80211_scan_abort: the completion is left to the chip.
ScanAbort(v) ==
  /\ Call("scan_abort", v, scan_request # None,
          (IF vif[v].up THEN <<"scan_cancel">> ELSE <<>>) \o <<"scan_gate">>)
  /\ UNCHANGED <<netVars, sta_valid, scanVars, roc, cacVars, dfsVars, chipVars, stack>>

ScanCancel ==
  /\ At("user", "scan_cancel")
  /\ \E s \in {FALSE, chip.scan} : Ask([chip EXCEPT !.scan = s]) \/ NoMemory
  /\ indq' = IF chip.scan /\ ~chip'.scan /\ ~in_recovery' THEN Append(indq, [is |-> "scan"]) ELSE indq
  /\ Done("user")
  /\ UNCHANGED <<netVars, sta_valid, scanVars, roc, cacVars, dfsVars, stack, on, load, nops>>

\* rs_net_cfg80211_scan_stop_and_wait: up to a second for the chip's completion,
\* and then the scan is done whatever it says.
ScanStop ==
  /\ At("user", "scan_stop")
  /\ Then("user", IF scan_request # None /\ vif[me].up
                  THEN <<"scan_cancel", "scan_wait", "scan_test", "scan_clear", "scan_gate">> ELSE <<>>)
  /\ UNCHANGED <<netVars, sta_valid, scanVars, roc, cacVars, dfsVars, chipVars, stack, on, load, nops>>

\* The wait ends with the completion or with its time.
ScanWait ==
  /\ At("user", "scan_wait")
  /\ Done("user")
  /\ UNCHANGED <<netVars, sta_valid, scanVars, roc, cacVars, dfsVars, chipVars, stack, on, load, nops>>

\* rs_net_cfg80211_scan_done, by the caller or the indication thread: the request
\* is tested,
ScanTest(t) ==
  /\ At(t, "scan_test")
  /\ Then(t, IF scan_request # None THEN <<"scan_report">> ELSE <<>>)
  /\ UNCHANGED <<netVars, sta_valid, scanVars, roc, cacVars, dfsVars, chipVars, stack, on, load, nops>>

\* handed to the stack, which ignores one it has ended,
ScanReport(t) ==
  /\ At(t, "scan_report")
  /\ stack' = [stack EXCEPT !.scan = None]
  /\ IF scan_request = None THEN Oops(t) ELSE Done(t)
  /\ UNCHANGED <<netVars, sta_valid, scanVars, roc, cacVars, dfsVars, chipVars, on, load, nops>>

\* and forgotten, with a lock nowhere.
ScanClear(t) ==
  /\ At(t, "scan_clear")
  /\ scan_request' = None
  /\ Done(t)
  /\ UNCHANGED <<netVars, sta_valid, scan, roc, cacVars, dfsVars, chipVars, stack, on, load, nops>>

ScanGate(t) ==
  /\ At(t, "scan_gate")
  /\ scan' = FALSE
  /\ Done(t)
  /\ UNCHANGED <<netVars, sta_valid, scan_request, roc, cacVars, dfsVars, chipVars, stack, on, load, nops>>

-----------------------------------------------------------------------------
(* Remain on channel, and frames sent off the channel                      *)

NewRoc(v) == [vif |-> v, internal |-> FALSE, on_chan |-> FALSE, tx |-> FALSE]

\* net_cfg80211_remain_on_channel: the record is there before the request.
RemainOnChannel(v) ==
  /\ Call("roc", v, vif[v].up /\ roc = None, <<"roc_req">>)
  /\ roc' = NewRoc(v)
  /\ UNCHANGED <<netVars, sta_valid, scanVars, cacVars, dfsVars, chipVars, stack>>

RocReq ==
  /\ At("user", "roc_req")
  /\ \/ Answered([chip EXCEPT !.roc = "asked"]) /\ Done("user") /\ UNCHANGED roc
     \/ NotAnswered /\ Return("user") /\ roc' = None
  /\ UNCHANGED <<netVars, sta_valid, scanVars, cacVars, dfsVars, indq, stack, on, load, nops>>

\* net_cfg80211_mgmt_tx of a frame for another channel: on the stay there is, or
\* on one of its own, which becomes internal when the request has returned.
MgmtTxOffchan(v) ==
  /\ Call("mgmt_tx", v, vif[v].up /\ (roc # None => roc.vif = v),
          (IF roc = None THEN <<"roc_req", "roc_internal">> ELSE <<>>) \o <<"roc_tx">>)
  /\ roc' = IF roc = None THEN NewRoc(v) ELSE roc
  /\ UNCHANGED <<netVars, sta_valid, scanVars, cacVars, dfsVars, chipVars, stack>>

RocInternal ==
  /\ At("user", "roc_internal")
  /\ IF roc = None THEN Oops("user") /\ UNCHANGED roc
     ELSE Done("user") /\ roc' = [roc EXCEPT !.internal = TRUE]
  /\ UNCHANGED <<netVars, sta_valid, scanVars, cacVars, dfsVars, chipVars, stack, on, load, nops>>

\* The frame has been queued and is counted in the record.
RocTx ==
  /\ At("user", "roc_tx")
  /\ IF roc = None THEN Oops("user") /\ UNCHANGED roc
     ELSE Done("user") /\ roc' = [roc EXCEPT !.tx = TRUE]
  /\ UNCHANGED <<netVars, sta_valid, scanVars, cacVars, dfsVars, chipVars, stack, on, load, nops>>

\* net_cfg80211_mgmt_tx_cancel_wait for the last frame: an internal stay ends.
CancelWait(v) ==
  /\ Call("cancel_wait", v, roc # None /\ roc.tx, IF roc.internal THEN <<"roc_cancel">> ELSE <<>>)
  /\ roc' = [roc EXCEPT !.tx = FALSE]
  /\ UNCHANGED <<netVars, sta_valid, scanVars, cacVars, dfsVars, chipVars, stack>>

\* net_cfg80211_cancel_remain_on_channel
CancelRoc(v) ==
  /\ Call("roc_cancel", v, roc # None, <<"roc_cancel">>)
  /\ UNCHANGED <<netVars, sta_valid, scanVars, roc, cacVars, dfsVars, chipVars, stack>>

\* The chip says when it has left the channel.
RocCancel ==
  /\ At("user", "roc_cancel")
  /\ Ask([chip EXCEPT !.roc = "off"])
  /\ indq' = IF chip.roc # "off" /\ ~in_recovery' THEN Append(indq, [is |-> "roc_exp"]) ELSE indq
  /\ Done("user")
  /\ UNCHANGED <<netVars, sta_valid, scanVars, roc, cacVars, dfsVars, stack, on, load, nops>>

-----------------------------------------------------------------------------
(* Connections                                                             *)

\* net_cfg80211_connect
Connect(v) ==
  /\ Call("connect", v, vif[v].up /\ vif[v].type = "sta" /\ ~vif[v].carrier, <<"connect_req">>)
  /\ UNCHANGED <<netVars, sta_valid, scanVars, roc, cacVars, dfsVars, chipVars, stack>>

ConnectReq ==
  /\ At("user", "connect_req")
  /\ Ask([chip EXCEPT !.join = @ \cup {vif[me].idx}]) \/ NoMemory
  /\ Done("user")
  /\ UNCHANGED <<netVars, sta_valid, scanVars, roc, cacVars, dfsVars, indq, stack, on, load, nops>>

\* net_cfg80211_disconnect
Disconnect(v) ==
  /\ Call("disconnect", v, vif[v].up /\ vif[v].type = "sta",
          (IF scan_request # None THEN <<"scan_stop">> ELSE <<>>) \o <<"disconnect_req">>)
  /\ UNCHANGED <<netVars, sta_valid, scanVars, roc, cacVars, dfsVars, chipVars, stack>>

\* The interface's station of the access point is gone from the chip, which says so.
DisconnectReq ==
  /\ At("user", "disconnect_req")
  /\ Ask([chip EXCEPT !.join = @ \ {vif[me].idx},
                      !.stas = [s \in StaIndex |-> IF @[s] = vif[me].idx THEN None ELSE @[s]]])
  /\ indq' = IF in_recovery' THEN indq ELSE Append(indq, [is |-> "disconnect", idx |-> vif[me].idx])
  /\ Done("user")
  /\ UNCHANGED <<netVars, sta_valid, scanVars, roc, cacVars, dfsVars, stack, on, load, nops>>

-----------------------------------------------------------------------------
(* Access points and their stations                                        *)

\* net_cfg80211_start_ap
StartAp(v) ==
  /\ Call("start_ap", v, vif[v].up /\ vif[v].type = "ap" /\ v \notin stack.ap \cup stack.cac, <<"ap_start">>)
  /\ UNCHANGED <<netVars, sta_valid, scanVars, roc, cacVars, dfsVars, chipVars, stack>>

\* rs_net_dfs_detection_enabled_on_cur_channel: the channel is a radar channel or
\* not, if a CAC goes on.
EnabledOnCurChannel(c) == IF HasChan(c) THEN detect' \in BOOLEAN ELSE UNCHANGED detect

\* rs_net_cfg80211_set_chaninfo leaves the interface without a context when the
\* channel has one already.  An answer that refuses the access point changes nothing,
\* like a failure; its broadcast station has an entry of its own.
ApStart ==
  /\ At("user", "ap_start")
  /\ \/ /\ Answered(chip)
        /\ \E c \in {TRUE, vif[me].chan} : vif' = [vif EXCEPT ![me].chan = c, ![me].carrier = TRUE]
        /\ stack' = [stack EXCEPT !.ap = @ \cup {me}]
        /\ IF cac_vif # None /\ vif'[cac_vif].chan THEN detect' \in BOOLEAN ELSE UNCHANGED detect
        /\ Done("user")
     \/ (NoMemory \/ NotAnswered) /\ Return("user") /\ UNCHANGED <<vif, stack, detect>>
  /\ UNCHANGED <<vif_table, vif_started, avail_idx_map, sta_valid, scanVars, roc, cacVars,
                 dfs_pending, cac_status, indq, on, load, nops>>

\* net_cfg80211_stop_ap
StopAp(v) ==
  /\ Call("stop_ap", v, v \in stack.ap, <<"del_stations", "cac_stop", "ap_stop", "ap_stopped">>)
  /\ UNCHANGED <<netVars, sta_valid, scanVars, roc, cacVars, dfsVars, chipVars, stack>>

ApStop ==
  /\ At("user", "ap_stop")
  /\ Ask([chip EXCEPT !.csa = @ \ {vif[me].idx}])
  /\ Done("user")
  /\ UNCHANGED <<netVars, sta_valid, scanVars, roc, cacVars, dfsVars, indq, stack, on, load, nops>>

\* rs_net_cfg80211_unset_chaninfo: with its last interface the context of the
\* current channel goes, and the radar detection with it.
Unset(v) ==
  /\ vif' = [vif EXCEPT ![v].chan = FALSE]
  /\ UNCHANGED detect \/ (vif[v].chan /\ detect' = FALSE)

\* Mutant: the record of a channel switch is freed with the access point.
BugApStopped ==
  /\ At("user", "ap_stopped")
  /\ vif' = [vif EXCEPT ![me].chan = FALSE, ![me].csa = "none"]
  /\ UNCHANGED detect \/ (vif[me].chan /\ detect' = FALSE)
  /\ stack' = [stack EXCEPT !.ap = @ \ {me}]
  /\ Done("user")
  /\ UNCHANGED <<vif_table, vif_started, avail_idx_map, sta_valid, scanVars, roc, cacVars,
                 dfs_pending, cac_status, chipVars, on, load, nops>>

ApStopped ==
  /\ At("user", "ap_stopped")
  /\ Unset(me)
  /\ stack' = [stack EXCEPT !.ap = @ \ {me}]
  /\ Done("user")
  /\ UNCHANGED <<vif_table, vif_started, avail_idx_map, sta_valid, scanVars, roc, cacVars,
                 dfs_pending, cac_status, chipVars, on, load, nops>>

\* net_cfg80211_add_station, of an access point that runs
AddStation(v) ==
  /\ Call("add_station", v, v \in stack.ap, <<"add_sta">>)
  /\ UNCHANGED <<netVars, sta_valid, scanVars, roc, cacVars, dfsVars, chipVars, stack>>

\* The chip chooses the station's entry, or has none.
AddSta ==
  /\ At("user", "add_sta")
  /\ \/ \E s \in {i \in StaIndex : chip.stas[i] = None} :
          /\ Answered([chip EXCEPT !.stas[s] = vif[me].idx])
          /\ vif' = [vif EXCEPT ![me].stas = @ \cup {s}]
          /\ sta_valid' = sta_valid \cup {s}
     \/ (NoMemory \/ NotAnswered) /\ UNCHANGED <<vif, sta_valid>>
  /\ Done("user")
  /\ UNCHANGED <<vif_table, vif_started, avail_idx_map, scanVars, roc, cacVars, dfsVars, indq, stack, on, load, nops>>

\* net_cfg80211_del_station of one station
DelStation(v) ==
  /\ \E s \in vif[v].stas : Call("del_station", v, vif[v].up, <<"del_one">>)
  /\ UNCHANGED <<netVars, sta_valid, scanVars, roc, cacVars, dfsVars, chipVars, stack>>

\* Mutant: the station stays in the list.
BugDelSta(step) ==
  /\ At("user", step)
  /\ \E s \in vif[me].stas :
       /\ sta_valid' = sta_valid \ {s}
       /\ Ask([chip EXCEPT !.stas[s] = None])
       /\ Done("user")
       /\ UNCHANGED vif
  /\ UNCHANGED <<vif_table, vif_started, avail_idx_map, scanVars, roc, cacVars, dfsVars, indq, stack, on, load, nops>>

\* net_del_station: one station of the list, or all of them until one request
\* fails, which leaves its station and the rest in the list.
DelSta(step) ==
  /\ At("user", step)
  /\ \/ /\ vif[me].stas = {} /\ Done("user") /\ UNCHANGED <<vif, sta_valid, chip, in_recovery>>
     \/ \E s \in vif[me].stas :
          /\ sta_valid' = sta_valid \ {s}
          /\ \/ /\ Answered([chip EXCEPT !.stas[s] = None])
                /\ vif' = [vif EXCEPT ![me].stas = @ \ {s}]
                /\ IF step = "del_one" THEN Done("user") ELSE UNCHANGED todo
             \/ NotAnswered /\ Done("user") /\ UNCHANGED vif
  /\ UNCHANGED <<vif_table, vif_started, avail_idx_map, scanVars, roc, cacVars, dfsVars, indq, stack, on, load, nops>>

-----------------------------------------------------------------------------
(* Channel switches of an access point                                     *)

\* net_cfg80211_channel_switch: the record is there before the request, and
\* nothing but the end of a switch removes it.
ChannelSwitch(v) ==
  /\ Call("csa", v, v \in stack.ap /\ vif[v].csa = "none", <<"csa_req", "csa_init">>)
  /\ vif' = [vif EXCEPT ![v].csa = "asked"]
  /\ UNCHANGED <<vif_table, vif_started, avail_idx_map, sta_valid, scanVars, roc, cacVars, dfsVars,
                 chipVars, stack>>

\* rs_net_ctrl_change_beacon_req, which announces the switch
CsaReq ==
  /\ At("user", "csa_req")
  /\ \/ Answered([chip EXCEPT !.csa = @ \cup {vif[me].idx}]) /\ Done("user") /\ UNCHANGED vif
     \/ (NoMemory \/ NotAnswered) /\ Return("user") /\ vif' = [vif EXCEPT ![me].csa = "none"]
  /\ UNCHANGED <<vif_table, vif_started, avail_idx_map, sta_valid, scanVars, roc, cacVars, dfsVars,
                 indq, stack, on, load, nops>>

\* INIT_WORK, when the chip may have finished.
CsaInit ==
  /\ At("user", "csa_init")
  /\ vif' = [vif EXCEPT ![me].csa = "on"]
  /\ Done("user")
  /\ UNCHANGED <<vif_table, vif_started, avail_idx_map, sta_valid, scanVars, roc, cacVars, dfsVars,
                 chipVars, stack, on, load, nops>>

\* net_csa_work; nobody cancels it when the interface goes away.
CsaWork ==
  /\ todo["csa"] = <<>>
  /\ \E v \in Vif :
       /\ vif[v].csa \in {"ok", "failed"}
       /\ on' = [on EXCEPT !["csa"] = v]
       /\ vif' = [vif EXCEPT ![v].csa = "on"]
       /\ todo' = [todo EXCEPT !["csa"] =
            CASE ~vif[v].reg                        -> <<"oops">>
              [] vif[v].reg /\ vif[v].csa = "ok"     -> <<"csa_beacon", "csa_set", "csa_remove">>
              [] vif[v].reg /\ vif[v].csa = "failed" -> <<"csa_remove">>]
  /\ UNCHANGED <<vif_table, vif_started, avail_idx_map, sta_valid, scanVars, roc, cacVars, dfsVars,
                 chipVars, stack, load, nops>>

\* The beacon of the new channel; of a switch that failed the stack is told, which
\* stops the access point by a call of its own.
CsaBeacon ==
  /\ At("csa", "csa_beacon")
  /\ \/ Answered(chip) /\ Done("csa")
     \/ (NoMemory \/ NotAnswered) /\ todo' = [todo EXCEPT !["csa"] = <<"csa_remove">>]
  /\ UNCHANGED <<netVars, sta_valid, scanVars, roc, cacVars, dfsVars, indq, stack, on, load, nops>>

\* The interface, open or not, leaves its channel for the new one.
NewChan(v) ==
  /\ \E c \in BOOLEAN : vif' = [vif EXCEPT ![v].chan = c]
  /\ detect' \in {detect} \cup (IF vif[v].chan THEN {FALSE} ELSE {})
                \cup (IF cac_vif # None /\ vif'[cac_vif].chan THEN BOOLEAN ELSE {})

CsaSet ==
  /\ At("csa", "csa_set")
  /\ NewChan(on["csa"])
  /\ Done("csa")
  /\ UNCHANGED <<vif_table, vif_started, avail_idx_map, sta_valid, scanVars, roc, cacVars,
                 dfs_pending, cac_status, chipVars, stack, on, load, nops>>

\* net_csa_remove
CsaRemove ==
  /\ At("csa", "csa_remove")
  /\ vif' = [vif EXCEPT ![on["csa"]].csa = "none"]
  /\ Done("csa")
  /\ UNCHANGED <<vif_table, vif_started, avail_idx_map, sta_valid, scanVars, roc, cacVars, dfsVars,
                 chipVars, stack, on, load, nops>>

-----------------------------------------------------------------------------
(* Keys and settings                                                       *)

\* Calls that hand the chip something which nothing here depends on, or ask it for
\* it: what counts is that the caller sleeps meanwhile, and that the chip may be lost.
Setting(op, v, ok, steps) ==
  /\ Call(op, v, ok, steps)
  /\ UNCHANGED <<netVars, sta_valid, scanVars, roc, cacVars, dfsVars, chipVars, stack>>

\* net_cfg80211_add_key and net_cfg80211_del_key, of the interface or of a station
AddKey(v) == Setting("add_key", v, vif[v].up, <<"set">>)
DelKey(v) == Setting("del_key", v, vif[v].up, <<"set">>)

\* net_cfg80211_change_station opens or closes the port of a station; VLANs are left out.
ChangeStation(v) == Setting("change_station", v, vif[v].up /\ sta_valid # {}, <<"set">>)

\* net_cfg80211_change_beacon
ChangeBeacon(v) == Setting("change_beacon", v, v \in stack.ap, <<"set">>)

\* net_cfg80211_probe_client; whether the peer is a station is not looked at.
ProbeClient(v) == Setting("probe_client", v, vif[v].up /\ vif[v].type = "ap", <<"set">>)

\* net_cfg80211_set_txq_params
SetTxqParams(v) == Setting("set_txq_params", v, vif[v].up, <<"set">>)

\* net_cfg80211_set_tx_power, of one interface, open or not, or of all of them until
\* one request fails
SetTxPower(v) ==
  \E n \in {1, Cardinality({u \in Vif : vif[u].reg})} :
    Setting("set_tx_power", v, TRUE, [i \in 1..n |-> "set"])

\* net_cfg80211_set_power_mgmt
SetPowerMgmt(v) == Setting("set_power_mgmt", v, vif[v].up, <<"set">>)

Set ==
  /\ At("user", "set")
  /\ \/ Answered(chip) /\ Done("user")
     \/ (NoMemory \/ NotAnswered) /\ Return("user")
  /\ UNCHANGED <<netVars, sta_valid, scanVars, roc, cacVars, dfsVars, indq, stack, on, load, nops>>

-----------------------------------------------------------------------------
(* The availability check of a radar channel (CAC)                         *)

\* net_cfg80211_start_radar_detection, rs_net_dfs_cac_start: the interface and the
\* timer are set before the request.  A timer that runs goes on as it is.
StartRadarDetection(v) ==
  /\ Call("start_cac", v, vif[v].up /\ vif[v].type = "ap" /\ v \notin stack.ap \cup stack.cac, <<"cac_start">>)
  /\ cac_vif' = v /\ cac_pending' = TRUE
  /\ UNCHANGED <<netVars, sta_valid, scanVars, roc, dfsVars, chipVars, stack>>

\* The status is read where the last answer left it, so a request that fails sets the
\* channel as well; the stack is told of the failure.  The timer outlives a refusal.
CacStart ==
  /\ At("user", "cac_start")
  /\ \/ /\ Answered(chip) /\ cac_status' \in BOOLEAN
        /\ stack' = [stack EXCEPT !.cac = IF cac_status' THEN @ \cup {me} ELSE @]
     \/ (NoMemory \/ NotAnswered) /\ UNCHANGED <<cac_status, stack>>
  /\ IF cac_status'
     THEN /\ \E c \in {TRUE, vif[me].chan} : vif' = [vif EXCEPT ![me].chan = c]
          /\ detect' \in {detect, TRUE}
     ELSE UNCHANGED <<vif, detect>>
  /\ Done("user")
  /\ UNCHANGED <<vif_table, vif_started, avail_idx_map, sta_valid, scanVars, roc, cacVars,
                 dfs_pending, indq, on, load, nops>>

\* rs_net_cac_stop, by the caller or the pulse work: nothing without an interface.
\* cancel_delayed_work does not wait for a work that runs.
CacStop(t) ==
  /\ At(t, "cac_stop")
  /\ cac_pending' = (cac_pending /\ cac_vif = None)
  /\ IF cac_vif # None /\ cac_pending
     THEN /\ stack' = [stack EXCEPT !.cac = IF HasChan(cac_vif) THEN @ \ {cac_vif} ELSE @]
          /\ Then(t, <<"cac_stop_req", "cac_end">>)
          /\ UNCHANGED cac_vif
     ELSE cac_vif' = None /\ Done(t) /\ UNCHANGED stack
  /\ UNCHANGED <<netVars, sta_valid, scanVars, roc, dfsVars, chipVars, on, load, nops>>

\* The request is about the interface there is by now.
CacStopReq(t) ==
  /\ At(t, "cac_stop_req")
  /\ IF cac_vif = None THEN Oops(t) /\ UNCHANGED <<chip, in_recovery>> ELSE Ask(chip) /\ Done(t)
  /\ UNCHANGED <<netVars, sta_valid, scanVars, roc, cacVars, dfsVars, indq, stack, on, load, nops>>

\* Mutant: the interface is kept.
BugCacEnd(t) ==
  /\ At(t, "cac_end")
  /\ IF cac_vif = None THEN UNCHANGED <<vif, detect>> ELSE Unset(cac_vif)
  /\ Done(t)
  /\ UNCHANGED <<vif_table, vif_started, avail_idx_map, sta_valid, scanVars, roc, cacVars,
                 dfs_pending, cac_status, chipVars, stack, on, load, nops>>

\* Its channel and the interface itself are let go.
CacEnd(t) ==
  /\ At(t, "cac_end")
  /\ IF cac_vif = None THEN UNCHANGED <<vif, detect>> ELSE Unset(cac_vif)
  /\ cac_vif' = None
  /\ Done(t)
  /\ UNCHANGED <<vif_table, vif_started, avail_idx_map, sta_valid, scanVars, roc, cac_pending,
                 dfs_pending, cac_status, chipVars, stack, on, load, nops>>

\* net_dfs_cac_work, when its time has come: the CAC has passed.
CacWork ==
  /\ cac_pending /\ todo["cac"] = <<>>
  /\ cac_pending' = FALSE
  /\ todo' = [todo EXCEPT !["cac"] =
       IF cac_vif = None THEN <<>> ELSE <<"cac_finished", "cac_stop_req", "cac_end">>]
  /\ UNCHANGED <<netVars, sta_valid, scanVars, roc, cac_vif, dfsVars, chipVars, stack, on, load, nops>>

\* cfg80211_cac_event reads the channel, of a CAC that it knows of.
CacFinished ==
  /\ At("cac", "cac_finished")
  /\ IF cac_vif = None \/ (cac_vif \in stack.cac /\ ~HasChan(cac_vif)) THEN Oops("cac") /\ UNCHANGED stack
     ELSE Done("cac") /\ stack' = [stack EXCEPT !.cac = @ \ {cac_vif}]
  /\ UNCHANGED <<netVars, sta_valid, scanVars, roc, cacVars, dfsVars, chipVars, on, load, nops>>

\* rs_net_dfs_process_pulse: the detector finds a radar in the pulses or not.  One
\* that is found is reported, if detection is on, and the CAC ends.
ProcessPulse ==
  /\ dfs_pending /\ todo["dfs"] = <<>>
  /\ dfs_pending' = FALSE
  /\ todo' \in {todo, [todo EXCEPT !["dfs"] =
       IF ~detect THEN <<>>
       ELSE (IF HasChan(cac_vif) THEN <<"cac_stop">> ELSE <<>>) \o <<"dfs_off">>]}
  /\ UNCHANGED <<netVars, sta_valid, scanVars, roc, cacVars, detect, cac_status, chipVars, stack, on, load, nops>>

\* cfg80211_radar_event, on which the stack leaves the channel later by itself, and
\* detection goes off.
DfsOff ==
  /\ At("dfs", "dfs_off")
  /\ detect' = FALSE
  /\ Done("dfs")
  /\ UNCHANGED <<netVars, sta_valid, scanVars, roc, cacVars, dfs_pending, cac_status, chipVars, stack, on, load, nops>>

-----------------------------------------------------------------------------
(* The chip's indications and the thread that handles them                 *)

\* What the chip may say next, and the chip after it.
Says(c, ind) == chip' = c /\ indq' = Append(indq, ind)

\* A connection is made, and its peer has an entry.
Joined(i, s) == [chip EXCEPT !.join = @ \ {i}, !.stas[s] = i]

ChipSays ==
  /\ Len(indq) < MaxInd
  /\ \/ chip.scan /\ Says([chip EXCEPT !.scan = FALSE], [is |-> "scan"])
     \/ chip.roc = "asked" /\ Says([chip EXCEPT !.roc = "on"], [is |-> "switch"])
     \/ chip.roc = "on" /\ Says([chip EXCEPT !.roc = "off"], [is |-> "roc_exp"])
     \/ \E i \in chip.join, s \in StaIndex :
          /\ chip.stas[s] = None
          /\ Says(Joined(i, s), [is |-> "connect", idx |-> i, sta |-> s])
     \/ \E i \in chip.join : Says([chip EXCEPT !.join = @ \ {i}], [is |-> "connect", idx |-> i, sta |-> None])
     \/ \E s \in StaIndex :
          /\ chip.stas[s] # None
          /\ chip.vifs[chip.stas[s]] # None /\ vif[chip.vifs[chip.stas[s]]].type = "sta"
          /\ Says([chip EXCEPT !.stas[s] = None], [is |-> "disconnect", idx |-> chip.stas[s]])
     \/ \E i \in chip.csa, ok \in BOOLEAN :
          Says([chip EXCEPT !.csa = @ \ {i}], [is |-> "csa", idx |-> i, ok |-> ok])
     \/ detect /\ ~dfs_pending /\ Says(chip, [is |-> "radar"])
  /\ UNCHANGED <<netVars, sta_valid, scanVars, roc, cacVars, dfsVars, in_recovery, stack, todo, on, load, nops>>

\* rs_net_priv_get_vif_priv: the table's interface, if it is up.
Found(i) == IF IsUp(vif_table[i]) THEN vif_table[i] ELSE None

\* The next indication; those about an interface look it up first.
Handle(ind, steps) ==
  /\ todo["ind"] = <<>> /\ indq # <<>> /\ Head(indq).is = ind
  /\ indq' = Tail(indq)
  /\ todo' = [todo EXCEPT !["ind"] = steps]

\* net_scan_complete
ScanComplete ==
  /\ Handle("scan", <<"scan_test", "scan_clear", "scan_gate">>)
  /\ UNCHANGED <<netVars, sta_valid, scanVars, roc, cacVars, dfsVars, chip, in_recovery, stack, on, load, nops>>

\* net_chan_switch_ind for a stay on another channel: the stack hears of one that
\* is not internal yet.
ChanSwitch ==
  /\ Handle("switch", <<>>)
  /\ roc' = IF roc # None THEN [roc EXCEPT !.on_chan = TRUE] ELSE roc
  /\ IF roc = None THEN UNCHANGED detect ELSE EnabledOnCurChannel(cac_vif)
  /\ UNCHANGED <<netVars, sta_valid, scanVars, cacVars, dfs_pending, cac_status, chip, in_recovery,
                 stack, on, load, nops>>

\* net_roc_exp_ind: the record is found,
RocExp ==
  /\ Handle("roc_exp", IF roc # None THEN <<"roc_free">> ELSE <<>>)
  /\ UNCHANGED <<netVars, sta_valid, scanVars, roc, cacVars, dfsVars, chip, in_recovery, stack, on, load, nops>>

\* the stack told, and the record freed.
RocFree ==
  /\ At("ind", "roc_free")
  /\ roc' = None
  /\ Done("ind")
  /\ UNCHANGED <<netVars, sta_valid, scanVars, cacVars, dfsVars, chipVars, stack, on, load, nops>>

\* net_sm_connect_ind: the interface of the index,
ConnectInd ==
  /\ todo["ind"] = <<>> /\ indq # <<>> /\ Head(indq).is = "connect"
  /\ indq' = Tail(indq)
  /\ LET v == Found(Head(indq).idx)
         s == Head(indq).sta
     IN  /\ on' = [on EXCEPT !["ind"] = v]
         /\ todo' = [todo EXCEPT !["ind"] = IF v = None THEN <<>>
                                             ELSE IF s = None THEN <<"refused">> ELSE <<"connected">>]
         /\ sta_valid' = IF v # None /\ s # None THEN sta_valid \cup {s} ELSE sta_valid
         /\ vif' = IF v # None /\ s # None THEN [vif EXCEPT ![v].ap = s] ELSE vif
  /\ UNCHANGED <<vif_table, vif_started, avail_idx_map, scanVars, roc, cacVars, dfsVars, chip, in_recovery,
                 stack, load, nops>>

\* its channel, and its carrier, which a refused connection turns on as well.
Connected ==
  /\ \/ At("ind", "refused") /\ vif' = [vif EXCEPT ![on["ind"]].carrier = TRUE]
     \/ /\ At("ind", "connected")
        /\ \E c \in {TRUE, vif[on["ind"]].chan} :
             vif' = [vif EXCEPT ![on["ind"]].chan = c, ![on["ind"]].carrier = TRUE]
  /\ Done("ind")
  /\ UNCHANGED <<vif_table, vif_started, avail_idx_map, sta_valid, scanVars, roc, cacVars, dfsVars,
                 chipVars, stack, on, load, nops>>

\* net_sm_disconnect_ind
DisconnectInd ==
  /\ todo["ind"] = <<>> /\ indq # <<>> /\ Head(indq).is = "disconnect"
  /\ indq' = Tail(indq)
  /\ LET v == Found(Head(indq).idx)
     IN  /\ on' = [on EXCEPT !["ind"] = v]
         /\ todo' = [todo EXCEPT !["ind"] = IF v = None THEN <<>> ELSE <<"disconnected">>]
  /\ UNCHANGED <<netVars, sta_valid, scanVars, roc, cacVars, dfsVars, chip, in_recovery, stack, load, nops>>

Disconnected ==
  /\ At("ind", "disconnected")
  /\ LET v == on["ind"]
     IN  /\ sta_valid' = sta_valid \ {vif[v].ap}
         /\ vif' = [vif EXCEPT ![v].carrier = FALSE, ![v].ap = None, ![v].chan = FALSE]
         /\ UNCHANGED detect \/ (vif[v].chan /\ detect' = FALSE)
  /\ Done("ind")
  /\ UNCHANGED <<vif_table, vif_started, avail_idx_map, scanVars, roc, cacVars, dfs_pending, cac_status,
                 chipVars, stack, on, load, nops>>

\* net_dfs_radar_detect_ind: pulses are kept while detection is on.
RadarInd ==
  /\ Handle("radar", <<>>)
  /\ dfs_pending' = (dfs_pending \/ detect)
  /\ UNCHANGED <<netVars, sta_valid, scanVars, roc, cacVars, detect, cac_status, chip, in_recovery,
                 stack, on, load, nops>>

\* net_csa_finish_ind for an access point: the work is scheduled, if it is set up.
CsaFinish ==
  /\ todo["ind"] = <<>> /\ indq # <<>> /\ Head(indq).is = "csa"
  /\ indq' = Tail(indq)
  /\ LET v  == Found(Head(indq).idx)
         ok == Head(indq).ok
     IN  vif' = IF v # None /\ vif[v].type = "ap" /\ vif[v].csa \notin {"none", "asked"}
                THEN [vif EXCEPT ![v].csa = IF ok THEN "ok" ELSE "failed"] ELSE vif
  /\ UNCHANGED <<vif_table, vif_started, avail_idx_map, sta_valid, scanVars, roc, cacVars, dfsVars, chip,
                 in_recovery, stack, todo, on, load, nops>>

-----------------------------------------------------------------------------
Calls ==
  \E v \in Vif :
    \/ Open(v) \/ Close(v) \/ DelIface(v)
    \/ \E t \in {"sta", "ap"} : AddIface(v, t)
    \/ \E t \in {"sta", "ap", "monitor"} : ChangeIface(v, t)
    \/ Scan(v) \/ ScanAbort(v)
    \/ RemainOnChannel(v) \/ MgmtTxOffchan(v) \/ CancelWait(v) \/ CancelRoc(v)
    \/ Connect(v) \/ Disconnect(v)
    \/ StartAp(v) \/ StopAp(v) \/ ChannelSwitch(v) \/ AddStation(v) \/ DelStation(v)
    \/ StartRadarDetection(v)
    \/ AddKey(v) \/ DelKey(v) \/ ChangeStation(v) \/ ChangeBeacon(v) \/ ProbeClient(v)
    \/ SetTxqParams(v) \/ SetTxPower(v) \/ SetPowerMgmt(v)

User ==
  \/ DevStart \/ IfAdd \/ Opened \/ IfRemove \/ Closed \/ DevReset \/ MeConfig \/ ChanConfig
  \/ Unregistered \/ \E t \in {"sta", "ap"} : Changed(t)
  \/ ScanStart \/ ScanBegun \/ ScanCancel \/ ScanStop \/ ScanWait
  \/ RocReq \/ RocInternal \/ RocTx \/ RocCancel
  \/ ConnectReq \/ DisconnectReq
  \/ ApStart \/ ApStop \/ ApStopped \/ AddSta \/ \E s \in {"del_one", "del_stations"} : DelSta(s)
  \/ CacStart
  \/ CsaReq \/ CsaInit \/ Set

Shared ==
  \/ \E t \in {"user", "ind"} : ScanTest(t) \/ ScanReport(t) \/ ScanClear(t) \/ ScanGate(t)
  \/ \E t \in {"user", "dfs"} : CacStop(t)
  \/ \E t \in {"user", "dfs", "cac"} : CacStopReq(t) \/ CacEnd(t)

Works == CacWork \/ CacFinished \/ ProcessPulse \/ DfsOff \/ CsaWork \/ CsaBeacon \/ CsaSet \/ CsaRemove

Indications ==
  \/ ScanComplete \/ ChanSwitch \/ RocExp \/ RocFree
  \/ ConnectInd \/ Connected \/ DisconnectInd \/ Disconnected \/ RadarInd \/ CsaFinish

Next == Calls \/ User \/ Shared \/ Works \/ Indications \/ ChipSays

Spec == Init /\ [][Next]_vars

-----------------------------------------------------------------------------
(* Properties *)

\* Every variable holds a value of its kind; the index given back by an interface
\* that is deleted is none the map has no bit for.
NetTypeOK ==
  /\ vif \in [Vif -> VifType] /\ vif_table \in [VifIndex -> Vif \cup {None}]
  /\ vif_started \in 0..Cardinality(Vif) /\ avail_idx_map \subseteq VifIndex
  /\ sta_valid \subseteq StaIndex
  /\ scan_request \in Vif \cup {None} /\ scan \in BOOLEAN
  /\ roc \in {None} \cup [vif : Vif, internal : BOOLEAN, on_chan : BOOLEAN, tx : BOOLEAN]
  /\ cac_vif \in Vif \cup {None} /\ cac_pending \in BOOLEAN
  /\ dfs_pending \in BOOLEAN /\ detect \in BOOLEAN /\ cac_status \in BOOLEAN
  /\ in_recovery \in BOOLEAN /\ chip \in ChipType /\ indq \in Seq(Indication)
  /\ stack \in [scan : Vif \cup {None}, cac : SUBSET Vif, ap : SUBSET Vif]
  /\ on \in [Thread -> Vif \cup {None}]

\* ndo_close has removed the interface from the chip and not from the driver yet.
Closing(v) == me = v /\ At("user", "closed")

\* Whoever asks for the interface of an index the chip gave out finds that
\* interface, whatever the table still holds of closed ones; and the chip knows the
\* interface and runs, unless it was lost to the recovery.
InterfacesAgree ==
  /\ vif_started = Cardinality({v \in Vif : vif[v].up})
  /\ \A v \in Vif :
       vif[v].up =>
         /\ vif[v].idx # None /\ vif_table[vif[v].idx] = v
         /\ in_recovery \/ Closing(v) \/ (chip.started /\ chip.vifs[vif[v].idx] = v)

\* The list of an access point's stations is the chip's, through every failure that
\* is not the end of the chip: no entry is listed twice or by two interfaces.
StationsAgree ==
  ~in_recovery =>
    \A v \in Vif :
      vif[v].up /\ vif[v].type = "ap" /\ ~Closing(v) =>
        vif[v].stas = {s \in StaIndex : chip.stas[s] = vif[v].idx}

\* A scan, a stay on a channel and a CAC end with their interface: what is kept of
\* them never points to one that is closed.
NothingOutlivesItsInterface ==
  /\ scan_request # None => IsUp(scan_request)
  /\ roc # None => IsUp(roc.vif)
  /\ cac_vif # None => IsUp(cac_vif)

\* The work that ends a channel switch lives in the record it works on: while it runs
\* the record is there, though the access point is stopped and started again and the
\* next switch asked for, and though the record of a refused switch is freed elsewhere.
SwitchWorkHasRecord ==
  todo["csa"] # <<>> /\ ~At("csa", "oops") => vif[on["csa"]].csa \notin {"none", "asked"}

\* "CAC already in progress": a CAC starts only when none goes on.
CacStartsAlone == [][(\E v \in Vif : StartRadarDetection(v)) => cac_vif = None]_vars
=============================================================================
