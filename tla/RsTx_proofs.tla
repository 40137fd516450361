---------------------------- MODULE RsTx_proofs -----------------------------
(***************************************************************************)
(* Proofs about the transmit path, for every value of the constants of     *)
(* RsTx.  Each invariant is proved to be kept by every step, one numbered  *)
(* step per action.  TxTypeOK is inductive by itself; it says that a       *)
(* sender past "push" has an interface and that events are subsets of      *)
(* their masks, which NoLostWakeup and RoomReadOften need to be inductive. *)
(***************************************************************************)
EXTENDS RsTx, TLAPS

USE DEF netVars, threadVars, passVars, senderVars, indiVars, deinitVars, envVars

-----------------------------------------------------------------------------
\* The initial state has the types.
LEMMA InitTyped == Init => TxTypeOK
<1> SUFFICES ASSUME Init PROVE TxTypeOK
  OBVIOUS
<1>1. queue \in [Ac -> Seq(Vif)] /\ \A a \in Ac : Len(queue[a]) <= Cap[a]
  BY CapAssumption DEF Init, InitWith
<1>2. status \in StatusType
  BY StatusAssumption DEF Init, InitWith
<1>3. ret_event \in SUBSET K_EVENT_EXIT /\ condition \in SUBSET K_EVENT_EXIT
  BY DEF Init, InitWith, K_EVENT_INIT
<1>4. /\ spc = [s \in Sender |-> "idle"] /\ lock = None
      /\ svif = [s \in Sender |-> None] /\ sev = [s \in Sender |-> {}]
  BY DEF Init, InitWith
<1>5. \A s \in Sender :
        /\ lock = s <=> spc[s] \in {"stop", "stop_netif"}
        /\ spc[s] # "idle" => svif[s] \in Vif
  BY <1>4, NoneAssumption
<1>6. /\ scan = FALSE /\ should_stop = FALSE /\ tpc = "wait" /\ ac = "AC" /\ vif_idx = None
      /\ tx_cnt = 0 /\ avail_cnt = 0 /\ event = {} /\ ipc = "idle" /\ ivif = None
      /\ dpc = "none" /\ ac \in Ac
      /\ up = [v \in Vif |-> FALSE] /\ carrier = [v \in Vif |-> FALSE]
      /\ net_tx_stopped = [v \in Vif |-> FALSE] /\ xoff = [v \in Vif |-> FALSE]
  BY DEF Init, InitWith, Ac
<1>7. /\ up \in [Vif -> BOOLEAN] /\ carrier \in [Vif -> BOOLEAN]
      /\ net_tx_stopped \in [Vif -> BOOLEAN] /\ xoff \in [Vif -> BOOLEAN]
  BY <1>6
<1>8. /\ spc \in [Sender -> SenderPcs] /\ svif \in [Sender -> Vif \cup {None}]
      /\ sev \in [Sender -> SUBSET RS_C_TX_EVENT] /\ lock \in Sender \cup {None}
  BY <1>4 DEF SenderPcs
<1>9. /\ tpc \in ThreadPcs
      /\ vif_idx \in Vif \cup {None} /\ tx_cnt \in Nat /\ avail_cnt \in 0..255
      /\ event \in SUBSET RS_C_TX_EVENT /\ ivif \in Vif \cup {None}
      /\ ipc \in {"idle", "start_netif", "stop_netif"}
      /\ dpc \in {"none", "post_exit", "kthread_stop", "join", "done"}
  BY <1>6 DEF ThreadPcs
<1>10. scan \in BOOLEAN /\ should_stop \in BOOLEAN /\ ac \in Ac
  BY <1>6
<1>11. /\ ipc # "idle" => ivif \in Vif
       /\ tpc \in {"send", "start", "start_netif"} => vif_idx \in Vif
       /\ tpc \in {"test_room", "pop"} => queue[ac] # <<>>
  BY <1>6
<1>12. QED
  BY <1>1, <1>2, <1>3, <1>5, <1>7, <1>8, <1>9, <1>10, <1>11 DEF TxTypeOK

\* Every step keeps the types.
LEMMA NextTyped ==
  TxTypeOK /\ [Next]_vars => TxTypeOK'
<1> SUFFICES ASSUME TxTypeOK, [Next]_vars PROVE TxTypeOK'
  OBVIOUS
<1>1. ASSUME NEW s \in Sender, NEW v \in Vif, Xmit(s, v) PROVE TxTypeOK'
  BY <1>1 DEF Xmit, TxTypeOK, SenderPcs
<1>2. ASSUME NEW s \in Sender, Push(s) PROVE TxTypeOK'
  <2> DEFINE a == AcOf(s)
             full == Len(queue[a]) = Cap[a]
             q2 == IF full THEN queue[a] ELSE Append(queue[a], svif[s])
             stop == Len(q2) = Cap[a]
  <2>1. /\ a \in Ac /\ queue[a] \in Seq(Vif) /\ Len(queue[a]) <= Cap[a]
        /\ Cap[a] \in Nat \ {0}
    BY CapAssumption DEF TxTypeOK, AcOf, Ac
  <2>2. svif[s] \in Vif /\ spc[s] = "push" /\ lock = None
    BY <1>2 DEF Push, TxTypeOK
  <2>3. q2 \in Seq(Vif) /\ Len(q2) <= Cap[a] /\ (queue[a] # <<>> => q2 # <<>>)
    BY <2>1, <2>2
  <2>4. /\ queue' = [queue EXCEPT ![a] = q2]
        /\ lock' = IF stop THEN s ELSE None
        /\ spc' = [spc EXCEPT ![s] = IF stop THEN "stop" ELSE "chk_ac"]
        /\ UNCHANGED <<condition, envVars, netVars, threadVars, svif, sev,
                        indiVars, deinitVars>>
    BY <1>2 DEF Push
  <2> HIDE DEF a, q2, stop
  <2>5. queue' \in [Ac -> Seq(Vif)] /\ \A b \in Ac : Len(queue'[b]) <= Cap[b]
    BY <2>1, <2>3, <2>4 DEF TxTypeOK
  <2>6. tpc' \in {"test_room", "pop"} => queue'[ac'] # <<>>
    BY <2>1, <2>3, <2>4 DEF TxTypeOK
  <2>7. /\ lock' \in Sender \cup {None}
        /\ spc' \in [Sender -> SenderPcs]
        /\ \A t \in Sender :
             /\ lock' = t <=> spc'[t] \in {"stop", "stop_netif"}
             /\ spc'[t] # "idle" => svif'[t] \in Vif
    BY <2>2, <2>4, NoneAssumption DEF TxTypeOK, SenderPcs
  <2>8. QED
    BY <2>4, <2>5, <2>6, <2>7 DEF TxTypeOK
<1>3. ASSUME NEW s \in Sender, PushStopFlag(s) PROVE TxTypeOK'
  <2>1. CASE MustStop(svif[s])
    <3>1. /\ spc[s] = "stop"
          /\ net_tx_stopped' = [net_tx_stopped EXCEPT ![svif[s]] = TRUE]
          /\ spc' = [spc EXCEPT ![s] = "stop_netif"]
          /\ UNCHANGED <<queue, lock, condition, envVars, up, carrier, xoff, threadVars,
                          svif, sev, indiVars, deinitVars>>
      BY <1>3, <2>1 DEF PushStopFlag, SetFlag
    <3>2. QED
      BY <3>1 DEF TxTypeOK, SenderPcs
  <2>2. CASE ~MustStop(svif[s])
    <3>1. /\ spc[s] = "stop" /\ lock' = None
          /\ spc' = [spc EXCEPT ![s] = "chk_ac"]
          /\ UNCHANGED <<queue, condition, envVars, netVars, threadVars, svif, sev,
                          indiVars, deinitVars>>
      BY <1>3, <2>2 DEF PushStopFlag
    <3>2. QED
      BY <3>1, NoneAssumption DEF TxTypeOK, SenderPcs
  <2>3. QED
    BY <2>1, <2>2
<1>4. ASSUME NEW s \in Sender, PushStopNetif(s) PROVE TxTypeOK'
  BY <1>4, NoneAssumption DEF PushStopNetif, SetXoff, TxTypeOK, SenderPcs, Sender
<1>5. ASSUME NEW s \in Sender, SenderCheckAc(s) PROVE TxTypeOK'
  BY <1>5 DEF SenderCheckAc, RS_C_TX_EVENT, TxTypeOK, SenderPcs
<1>6. ASSUME NEW s \in Sender, SenderCheckPower(s) PROVE TxTypeOK'
  BY <1>6 DEF SenderCheckPower, RS_C_TX_EVENT, TxTypeOK, SenderPcs
<1>7. ASSUME NEW s \in Sender, SenderPost(s) PROVE TxTypeOK'
  BY <1>7 DEF SenderPost, TxTypeOK, SenderPcs, K_EVENT_EXIT, RS_C_TX_EVENT
<1>8. CASE ThreadWait
  BY <1>8 DEF ThreadWait, ThreadUnchanged, TxTypeOK, ThreadPcs
<1>9. CASE ThreadAc
  <2>1. UNCHANGED <<queue, lock, condition, netVars, ret_event, event, senderVars,
                    indiVars, deinitVars, envVars>>
    BY <1>9 DEF ThreadAc, ThreadUnchanged
  <2>2. CASE "AC" \in ret_event
    <3>1. /\ ac' = "AC" /\ avail_cnt' = status.avail["AC"] /\ tx_cnt' = 0
          /\ vif_idx' = None /\ tpc' = "test"
      BY <1>9, <2>2 DEF ThreadAc, BeginPass
    <3>2. avail_cnt' \in 0..255
      BY <3>1 DEF TxTypeOK, StatusType, Ac
    <3>3. QED
      BY <2>1, <3>1, <3>2 DEF TxTypeOK, ThreadPcs, Ac
  <2>3. CASE "AC" \notin ret_event
    <3>1. tpc' = "power" /\ UNCHANGED passVars
      BY <1>9, <2>3 DEF ThreadAc
    <3>2. QED
      BY <2>1, <3>1 DEF TxTypeOK, ThreadPcs
  <2>4. QED
    BY <2>2, <2>3
<1>10. CASE ThreadPower
  <2>1. UNCHANGED <<queue, lock, condition, netVars, ret_event, event, senderVars,
                    indiVars, deinitVars, envVars>>
    BY <1>10 DEF ThreadPower, ThreadUnchanged
  <2>2. CASE "POWER" \in ret_event
    <3>1. /\ ac' = "POWER" /\ avail_cnt' = status.avail["POWER"] /\ tx_cnt' = 0
          /\ vif_idx' = None /\ tpc' = "test"
      BY <1>10, <2>2 DEF ThreadPower, BeginPass
    <3>2. avail_cnt' \in 0..255
      BY <3>1 DEF TxTypeOK, StatusType, Ac
    <3>3. QED
      BY <2>1, <3>1, <3>2 DEF TxTypeOK, ThreadPcs, Ac
  <2>3. CASE "POWER" \notin ret_event
    <3>1. tpc' = "reset" /\ UNCHANGED passVars
      BY <1>10, <2>3 DEF ThreadPower
    <3>2. QED
      BY <2>1, <3>1 DEF TxTypeOK, ThreadPcs
  <2>4. QED
    BY <2>2, <2>3
<1>11. CASE ThreadTest
  BY <1>11 DEF ThreadTest, ThreadUnchanged, LeaveLoop, AfterPass, TxTypeOK, ThreadPcs
<1>12. CASE ThreadTestRoom
  BY <1>12 DEF ThreadTestRoom, ThreadUnchanged, LeaveLoop, AfterPass, TxTypeOK,
     ThreadPcs
<1>13. CASE ThreadPop
  <2>1. /\ queue[ac] # <<>> /\ ac \in Ac /\ queue[ac] \in Seq(Vif)
        /\ Len(queue[ac]) <= Cap[ac] /\ Cap[ac] \in Nat
    BY <1>13, CapAssumption DEF ThreadPop, TxTypeOK
  <2>2. /\ vif_idx' = Head(queue[ac])
        /\ queue' = [queue EXCEPT ![ac] = Tail(queue[ac])]
        /\ tpc' = "send"
        /\ UNCHANGED <<lock, condition, netVars, ret_event, ac, tx_cnt, avail_cnt, event,
                        senderVars, indiVars, deinitVars, envVars>>
    BY <1>13 DEF ThreadPop, ThreadUnchanged
  <2>3. /\ Head(queue[ac]) \in Vif /\ Tail(queue[ac]) \in Seq(Vif)
        /\ Len(Tail(queue[ac])) <= Cap[ac]
    BY <2>1
  <2>4. queue' \in [Ac -> Seq(Vif)] /\ \A b \in Ac : Len(queue'[b]) <= Cap[b]
    BY <2>1, <2>2, <2>3 DEF TxTypeOK
  <2>5. QED
    BY <2>2, <2>3, <2>4 DEF TxTypeOK, ThreadPcs
<1>14. CASE ThreadSend
  <2>1. /\ tpc' = "test"
        /\ UNCHANGED <<queue, lock, condition, netVars, ret_event, ac, vif_idx, event,
                        senderVars, indiVars, deinitVars, envVars>>
    BY <1>14 DEF ThreadSend, ThreadUnchanged
  <2>2. tx_cnt' \in Nat
    BY <1>14 DEF ThreadSend, TxTypeOK
  <2>3. avail_cnt' \in 0..255
    BY <1>14 DEF ThreadSend, TxTypeOK, StatusType
  <2>4. QED
    BY <2>1, <2>2, <2>3 DEF TxTypeOK, ThreadPcs
<1>15. CASE ThreadStartFlag
  <2>1. tpc = "start" /\ vif_idx \in Vif
    BY <1>15 DEF ThreadStartFlag, TxTypeOK
  <2>2. UNCHANGED <<queue, lock, condition, up, carrier, xoff, ret_event, passVars, event,
                    senderVars, indiVars, deinitVars, envVars>>
    BY <1>15 DEF ThreadStartFlag, ThreadUnchanged
  <2>3. CASE MustStart(vif_idx)
    <3>1. /\ net_tx_stopped' = [net_tx_stopped EXCEPT ![vif_idx] = FALSE]
          /\ tpc' = "start_netif"
      BY <1>15, <2>3 DEF ThreadStartFlag, SetFlag
    <3>2. QED
      BY <2>1, <2>2, <3>1 DEF TxTypeOK, ThreadPcs
  <2>4. CASE ~MustStart(vif_idx)
    <3>1. tpc' \in {"power", "reset"} /\ UNCHANGED net_tx_stopped
      BY <1>15, <2>4 DEF ThreadStartFlag, AfterPass
    <3>2. QED
      BY <2>2, <3>1 DEF TxTypeOK, ThreadPcs
  <2>5. QED
    BY <2>3, <2>4
<1>16. CASE ThreadStartNetif
  BY <1>16 DEF ThreadStartNetif, ThreadUnchanged, SetXoff, AfterPass, TxTypeOK,
     ThreadPcs
<1>17. CASE ThreadReset
  BY <1>17 DEF ThreadReset, ThreadUnchanged, K_EVENT_INIT, TxTypeOK, ThreadPcs, Ac,
     K_EVENT_EXIT
<1>18. CASE ThreadCheckAc
  BY <1>18 DEF ThreadCheckAc, ThreadUnchanged, RS_C_TX_EVENT, TxTypeOK, ThreadPcs
<1>19. CASE ThreadCheckPower
  BY <1>19 DEF ThreadCheckPower, ThreadUnchanged, RS_C_TX_EVENT, TxTypeOK, ThreadPcs
<1>20. CASE ThreadPost
  BY <1>20 DEF ThreadPost, ThreadUnchanged, TxTypeOK, ThreadPcs, K_EVENT_EXIT,
     RS_C_TX_EVENT
<1>21. CASE ThreadAgain
  BY <1>21 DEF ThreadAgain, ThreadUnchanged, TxTypeOK, ThreadPcs
<1>22. ASSUME NEW v \in Vif, ConnectInd(v) PROVE TxTypeOK'
  <2>1. UNCHANGED <<queue, lock, condition, envVars, threadVars, senderVars, deinitVars,
                    up, xoff>>
    BY <1>22 DEF ConnectInd, IndiUnchanged
  <2>2. CASE MustStart(v)
    <3>1. /\ net_tx_stopped' = [net_tx_stopped EXCEPT ![v] = FALSE]
          /\ ipc' = "start_netif" /\ ivif' = v /\ UNCHANGED carrier
      BY <1>22, <2>2 DEF ConnectInd, SetFlag
    <3>2. QED
      BY <2>1, <3>1 DEF TxTypeOK
  <2>3. CASE ~MustStart(v)
    <3>1. /\ carrier' = [carrier EXCEPT ![v] = TRUE]
          /\ UNCHANGED <<net_tx_stopped, indiVars>>
      BY <1>22, <2>3 DEF ConnectInd, SetCarrier
    <3>2. QED
      BY <2>1, <3>1 DEF TxTypeOK
  <2>4. QED
    BY <2>2, <2>3
<1>23. ASSUME NEW v \in Vif, DisconnectInd(v) PROVE TxTypeOK'
  <2>1. UNCHANGED <<queue, lock, condition, envVars, threadVars, senderVars, deinitVars,
                    up, xoff>>
    BY <1>23 DEF DisconnectInd, IndiUnchanged
  <2>2. CASE MustStop(v)
    <3>1. /\ net_tx_stopped' = [net_tx_stopped EXCEPT ![v] = TRUE]
          /\ ipc' = "stop_netif" /\ ivif' = v /\ UNCHANGED carrier
      BY <1>23, <2>2 DEF DisconnectInd, SetFlag
    <3>2. QED
      BY <2>1, <3>1 DEF TxTypeOK
  <2>3. CASE ~MustStop(v)
    <3>1. /\ carrier' = [carrier EXCEPT ![v] = FALSE]
          /\ UNCHANGED <<net_tx_stopped, indiVars>>
      BY <1>23, <2>3 DEF DisconnectInd, SetCarrier
    <3>2. QED
      BY <2>1, <3>1 DEF TxTypeOK
  <2>4. QED
    BY <2>2, <2>3
<1>24. ASSUME NEW v \in Vif, Open(v) PROVE TxTypeOK'
  BY <1>24 DEF Open, EnvUnchanged, TxTypeOK
<1>25. ASSUME NEW v \in Vif, Close(v) PROVE TxTypeOK'
  BY <1>25 DEF Close, EnvUnchanged, TxTypeOK
<1>26. CASE ConnectIndNetif
  BY <1>26 DEF ConnectIndNetif, IndiUnchanged, SetXoff, SetCarrier, TxTypeOK
<1>27. CASE DisconnectIndNetif
  BY <1>27 DEF DisconnectIndNetif, IndiUnchanged, SetXoff, SetCarrier, TxTypeOK
<1>28. CASE SetStatus
  BY <1>28, StatusAssumption DEF SetStatus, EnvUnchanged, TxTypeOK
<1>29. CASE SetScan
  BY <1>29 DEF SetScan, EnvUnchanged, TxTypeOK
<1>30. CASE NetDeinit
  BY <1>30 DEF NetDeinit, EnvUnchanged, TxTypeOK
<1>31. CASE DeinitPostExit
  BY <1>31 DEF DeinitPostExit, DeinitUnchanged, K_EVENT_EXIT, TxTypeOK
<1>32. CASE DeinitKthreadStop
  BY <1>32 DEF DeinitKthreadStop, DeinitUnchanged, TxTypeOK
<1>33. CASE DeinitFree
  <2>1. /\ queue' = [a \in Ac |-> <<>>] /\ dpc' = "done" /\ tpc = "exited"
        /\ UNCHANGED <<condition, should_stop, lock, envVars, netVars, threadVars,
                        senderVars, indiVars>>
    BY <1>33 DEF DeinitFree, DeinitUnchanged
  <2>2. queue' \in [Ac -> Seq(Vif)] /\ \A b \in Ac : Len(queue'[b]) <= Cap[b]
    BY <2>1, CapAssumption
  <2>3. QED
    BY <2>1, <2>2 DEF TxTypeOK
<1>34. CASE UNCHANGED vars
  BY <1>34 DEF vars, TxTypeOK
<1>35. ASSUME NEW v \in Vif, StartAp(v) PROVE TxTypeOK'
  BY <1>35 DEF StartAp, EnvUnchanged, SetXoff, SetCarrier, TxTypeOK
<1>36. QED
  BY <1>1, <1>2, <1>3, <1>4, <1>5, <1>6, <1>7, <1>8, <1>9, <1>10, <1>11, <1>12, <1>13,
     <1>14, <1>15, <1>16, <1>17, <1>18, <1>19, <1>20, <1>21, <1>22, <1>23, <1>24,
     <1>25, <1>26, <1>27, <1>28, <1>29, <1>30, <1>31, <1>32, <1>33, <1>34, <1>35
     DEF Next, SenderStep, ThreadStep, IndiStep, DeinitStep

-----------------------------------------------------------------------------
\* Every step keeps the wake-up: the steps that empty the event, or that end a
\* check of the queues without posting, are the ones that need an argument.
LEMMA NextWakeup ==
  TxTypeOK /\ NoLostWakeup /\ [Next]_vars => NoLostWakeup'
<1> SUFFICES ASSUME TxTypeOK, NoLostWakeup, [Next]_vars PROVE NoLostWakeup'
  OBVIOUS
<1>1. ASSUME NEW s \in Sender, NEW v \in Vif, Xmit(s, v) PROVE NoLostWakeup'
  BY <1>1 DEF Xmit, NoLostWakeup, FramesQueued, ThreadWillPost, SenderWillPost
<1>2. ASSUME NEW s \in Sender, Push(s) PROVE NoLostWakeup'
  <2>1. SenderWillPost(s)'
    BY <1>2 DEF Push, SenderWillPost, TxTypeOK
  <2>2. QED
    BY <2>1 DEF NoLostWakeup
<1>3. ASSUME NEW s \in Sender, PushStopFlag(s) PROVE NoLostWakeup'
  <2>1. SenderWillPost(s)'
    BY <1>3 DEF PushStopFlag, SenderWillPost, TxTypeOK
  <2>2. QED
    BY <2>1 DEF NoLostWakeup
<1>4. ASSUME NEW s \in Sender, PushStopNetif(s) PROVE NoLostWakeup'
  BY <1>4 DEF PushStopNetif, SetXoff, NoLostWakeup, FramesQueued, ThreadWillPost,
     SenderWillPost
<1>5. ASSUME NEW s \in Sender, SenderCheckAc(s) PROVE NoLostWakeup'
  <2>1. /\ spc[s] = "chk_ac" /\ queue' = queue
        /\ sev' = [sev EXCEPT ![s] = IF queue["AC"] # <<>> THEN {"AC"} ELSE {}]
        /\ spc' = [spc EXCEPT ![s] = "chk_power"]
    BY <1>5 DEF SenderCheckAc
  <2>2. CASE FramesQueued
    <3>1. queue["AC"] # <<>> \/ queue["POWER"] # <<>>
      BY <2>2 DEF FramesQueued, Ac
    <3>2. SenderWillPost(s)'
      BY <2>1, <3>1 DEF SenderWillPost, TxTypeOK
    <3>3. QED
      BY <3>2 DEF NoLostWakeup
  <2>3. CASE ~FramesQueued
    BY <2>1, <2>3 DEF NoLostWakeup, FramesQueued
  <2>4. QED
    BY <2>2, <2>3
<1>6. ASSUME NEW s \in Sender, SenderCheckPower(s) PROVE NoLostWakeup'
  <2>1. /\ spc[s] = "chk_power"
        /\ sev' = [sev EXCEPT ![s] =
                     IF queue["POWER"] # <<>> THEN sev[s] \cup {"POWER"} ELSE sev[s]]
        /\ spc' = [spc EXCEPT ![s] = "post"]
        /\ UNCHANGED <<queue, condition, threadVars>>
    BY <1>6 DEF SenderCheckPower
  <2>2. CASE SenderWillPost(s)
    <3>1. SenderWillPost(s)'
      BY <2>1, <2>2 DEF SenderWillPost, TxTypeOK
    <3>2. QED
      BY <3>1 DEF NoLostWakeup
  <2>3. CASE ~SenderWillPost(s)
    <3>1. \A t \in Sender : SenderWillPost(t) => SenderWillPost(t)'
      BY <2>1, <2>3 DEF SenderWillPost, TxTypeOK
    <3>2. QED
      BY <2>1, <3>1 DEF NoLostWakeup, FramesQueued, ThreadWillPost
  <2>4. QED
    BY <2>2, <2>3
<1>7. ASSUME NEW s \in Sender, SenderPost(s) PROVE NoLostWakeup'
  <2>1. /\ spc[s] = "post"
        /\ condition' = IF sev[s] # {} THEN sev[s] ELSE condition
        /\ spc' = [spc EXCEPT ![s] = "idle"]
        /\ sev' = [sev EXCEPT ![s] = {}]
        /\ UNCHANGED <<queue, threadVars>>
    BY <1>7 DEF SenderPost
  <2>2. CASE sev[s] # {}
    <3>1. condition' \cap RS_C_TX_EVENT # {}
      BY <2>1, <2>2 DEF TxTypeOK
    <3>2. QED
      BY <3>1 DEF NoLostWakeup
  <2>3. CASE sev[s] = {}
    <3>1. \A t \in Sender : SenderWillPost(t) => SenderWillPost(t)'
      BY <2>1, <2>3 DEF SenderWillPost, TxTypeOK
    <3>2. QED
      BY <2>1, <2>3, <3>1 DEF NoLostWakeup, FramesQueued, ThreadWillPost
  <2>4. QED
    BY <2>2, <2>3
<1>8. CASE ThreadWait
  BY <1>8 DEF ThreadWait, ThreadUnchanged, NoLostWakeup, FramesQueued, ThreadWillPost,
     SenderWillPost
<1>9. CASE ThreadAc
  <2>1. tpc' \in {"test", "power"}
    BY <1>9 DEF ThreadAc, BeginPass
  <2>2. QED
    BY <2>1 DEF NoLostWakeup, ThreadWillPost
<1>10. CASE ThreadPower
  <2>1. tpc' \in {"test", "reset"}
    BY <1>10 DEF ThreadPower, BeginPass
  <2>2. QED
    BY <2>1 DEF NoLostWakeup, ThreadWillPost
<1>11. CASE ThreadTest
  BY <1>11 DEF ThreadTest, ThreadUnchanged, LeaveLoop, AfterPass, NoLostWakeup,
     FramesQueued, ThreadWillPost, SenderWillPost
<1>12. CASE ThreadTestRoom
  BY <1>12 DEF ThreadTestRoom, ThreadUnchanged, LeaveLoop, AfterPass, NoLostWakeup,
     FramesQueued, ThreadWillPost, SenderWillPost
<1>13. CASE ThreadPop
  BY <1>13 DEF ThreadPop, ThreadUnchanged, NoLostWakeup, FramesQueued, ThreadWillPost,
     SenderWillPost
<1>14. CASE ThreadSend
  BY <1>14 DEF ThreadSend, ThreadUnchanged, NoLostWakeup, FramesQueued,
     ThreadWillPost, SenderWillPost
<1>15. CASE ThreadStartFlag
  BY <1>15 DEF ThreadStartFlag, ThreadUnchanged, AfterPass, NoLostWakeup,
     FramesQueued, ThreadWillPost, SenderWillPost
<1>16. CASE ThreadStartNetif
  BY <1>16 DEF ThreadStartNetif, ThreadUnchanged, SetXoff, AfterPass, NoLostWakeup,
     FramesQueued, ThreadWillPost, SenderWillPost
<1>17. CASE ThreadReset
  BY <1>17 DEF ThreadReset, ThreadUnchanged, K_EVENT_INIT, NoLostWakeup, FramesQueued,
     ThreadWillPost, SenderWillPost
<1>18. CASE ThreadCheckAc
  <2>1. /\ event' = IF queue["AC"] # <<>> THEN {"AC"} ELSE {}
        /\ tpc' = "chk_power" /\ queue' = queue
    BY <1>18 DEF ThreadCheckAc
  <2>2. CASE FramesQueued
    <3>1. queue["AC"] # <<>> \/ queue["POWER"] # <<>>
      BY <2>2 DEF FramesQueued, Ac
    <3>2. QED
      BY <2>1, <3>1 DEF NoLostWakeup, ThreadWillPost
  <2>3. CASE ~FramesQueued
    BY <2>1, <2>3 DEF NoLostWakeup, FramesQueued
  <2>4. QED
    BY <2>2, <2>3
<1>19. CASE ThreadCheckPower
  BY <1>19 DEF ThreadCheckPower, ThreadUnchanged, RS_C_TX_EVENT, NoLostWakeup,
     FramesQueued, ThreadWillPost, SenderWillPost
<1>20. CASE ThreadPost
  <2>1. /\ tpc = "post" /\ tpc' = "again"
        /\ condition' = IF event # {} THEN event ELSE condition
        /\ UNCHANGED <<queue, senderVars>>
    BY <1>20 DEF ThreadPost, ThreadUnchanged
  <2>2. CASE event # {}
    <3>1. condition' \cap RS_C_TX_EVENT # {}
      BY <2>1, <2>2 DEF TxTypeOK
    <3>2. QED
      BY <3>1 DEF NoLostWakeup
  <2>3. CASE event = {}
    BY <2>1, <2>3 DEF NoLostWakeup, FramesQueued, ThreadWillPost, SenderWillPost
  <2>4. QED
    BY <2>2, <2>3
<1>21. CASE ThreadAgain
  BY <1>21 DEF ThreadAgain, ThreadUnchanged, NoLostWakeup, FramesQueued,
     ThreadWillPost, SenderWillPost
<1>22. ASSUME NEW v \in Vif, ConnectInd(v) PROVE NoLostWakeup'
  BY <1>22 DEF ConnectInd, IndiUnchanged, NoLostWakeup, FramesQueued, ThreadWillPost,
     SenderWillPost
<1>23. ASSUME NEW v \in Vif, DisconnectInd(v) PROVE NoLostWakeup'
  BY <1>23 DEF DisconnectInd, IndiUnchanged, NoLostWakeup, FramesQueued,
     ThreadWillPost, SenderWillPost
<1>24. ASSUME NEW v \in Vif, Open(v) PROVE NoLostWakeup'
  BY <1>24 DEF Open, EnvUnchanged, NoLostWakeup, FramesQueued, ThreadWillPost,
     SenderWillPost
<1>25. ASSUME NEW v \in Vif, Close(v) PROVE NoLostWakeup'
  BY <1>25 DEF Close, EnvUnchanged, NoLostWakeup, FramesQueued, ThreadWillPost,
     SenderWillPost
<1>26. CASE ConnectIndNetif
  BY <1>26 DEF ConnectIndNetif, IndiUnchanged, SetXoff, SetCarrier, NoLostWakeup,
     FramesQueued, ThreadWillPost, SenderWillPost
<1>27. CASE DisconnectIndNetif
  BY <1>27 DEF DisconnectIndNetif, IndiUnchanged, SetXoff, SetCarrier, NoLostWakeup,
     FramesQueued, ThreadWillPost, SenderWillPost
<1>28. CASE SetStatus
  BY <1>28 DEF SetStatus, EnvUnchanged, NoLostWakeup, FramesQueued, ThreadWillPost,
     SenderWillPost
<1>29. CASE SetScan
  BY <1>29 DEF SetScan, EnvUnchanged, NoLostWakeup, FramesQueued, ThreadWillPost,
     SenderWillPost
<1>30. CASE NetDeinit
  BY <1>30 DEF NetDeinit, EnvUnchanged, NoLostWakeup, FramesQueued, ThreadWillPost,
     SenderWillPost
<1>31. CASE DeinitPostExit
  <2>1. condition' \cap RS_C_TX_EVENT # {}
    BY <1>31 DEF DeinitPostExit, K_EVENT_EXIT, RS_C_TX_EVENT
  <2>2. QED
    BY <2>1 DEF NoLostWakeup
<1>32. CASE DeinitKthreadStop
  BY <1>32 DEF DeinitKthreadStop, DeinitUnchanged, NoLostWakeup, FramesQueued,
     ThreadWillPost, SenderWillPost
<1>33. CASE DeinitFree
  BY <1>33 DEF DeinitFree, DeinitUnchanged, NoLostWakeup, FramesQueued,
     ThreadWillPost, SenderWillPost
<1>34. CASE UNCHANGED vars
  BY <1>34 DEF vars, NoLostWakeup, FramesQueued, ThreadWillPost, SenderWillPost
<1>35. ASSUME NEW v \in Vif, StartAp(v) PROVE NoLostWakeup'
  BY <1>35 DEF StartAp, EnvUnchanged, SetXoff, SetCarrier, NoLostWakeup, FramesQueued,
     ThreadWillPost, SenderWillPost
<1>36. QED
  BY <1>1, <1>2, <1>3, <1>4, <1>5, <1>6, <1>7, <1>8, <1>9, <1>10, <1>11, <1>12, <1>13,
     <1>14, <1>15, <1>16, <1>17, <1>18, <1>19, <1>20, <1>21, <1>22, <1>23, <1>24,
     <1>25, <1>26, <1>27, <1>28, <1>29, <1>30, <1>31, <1>32, <1>33, <1>34, <1>35
     DEF Next, SenderStep, ThreadStep, IndiStep, DeinitStep

-----------------------------------------------------------------------------
\* Every step keeps the count of frames below the threshold.
LEMMA NextRoom ==
  TxTypeOK /\ RoomReadOften /\ [Next]_vars => RoomReadOften'
<1> SUFFICES ASSUME TxTypeOK, RoomReadOften, [Next]_vars PROVE RoomReadOften'
  OBVIOUS
<1>1. ASSUME NEW s \in Sender, NEW v \in Vif, Xmit(s, v) PROVE RoomReadOften'
  BY <1>1 DEF Xmit, RoomReadOften
<1>2. ASSUME NEW s \in Sender, Push(s) PROVE RoomReadOften'
  BY <1>2 DEF Push, RoomReadOften
<1>3. ASSUME NEW s \in Sender, PushStopFlag(s) PROVE RoomReadOften'
  BY <1>3 DEF PushStopFlag, RoomReadOften
<1>4. ASSUME NEW s \in Sender, PushStopNetif(s) PROVE RoomReadOften'
  BY <1>4 DEF PushStopNetif, SetXoff, RoomReadOften
<1>5. ASSUME NEW s \in Sender, SenderCheckAc(s) PROVE RoomReadOften'
  BY <1>5 DEF SenderCheckAc, RS_C_TX_EVENT, RoomReadOften
<1>6. ASSUME NEW s \in Sender, SenderCheckPower(s) PROVE RoomReadOften'
  BY <1>6 DEF SenderCheckPower, RS_C_TX_EVENT, RoomReadOften
<1>7. ASSUME NEW s \in Sender, SenderPost(s) PROVE RoomReadOften'
  BY <1>7 DEF SenderPost, RoomReadOften
<1>8. CASE ThreadWait
  BY <1>8 DEF ThreadWait, ThreadUnchanged, RoomReadOften
<1>9. CASE ThreadAc
  BY <1>9, ThresholdAssumption DEF ThreadAc, ThreadUnchanged, RoomReadOften, BeginPass
<1>10. CASE ThreadPower
  BY <1>10, ThresholdAssumption DEF ThreadPower, ThreadUnchanged, RoomReadOften,
     BeginPass
<1>11. CASE ThreadTest
  BY <1>11 DEF ThreadTest, ThreadUnchanged, LeaveLoop, AfterPass, RoomReadOften
<1>12. CASE ThreadTestRoom
  BY <1>12 DEF ThreadTestRoom, ThreadUnchanged, LeaveLoop, AfterPass, RoomReadOften
<1>13. CASE ThreadPop
  BY <1>13 DEF ThreadPop, ThreadUnchanged, RoomReadOften
<1>14. CASE ThreadSend
  <2>1. tx_cnt \in Nat /\ tx_cnt < Threshold /\ Threshold \in Nat \ {0, 1}
    BY ThresholdAssumption DEF TxTypeOK, RoomReadOften
  <2>2. CASE tx_cnt + 1 = Threshold
    <3>1. tx_cnt + 1 > 1 /\ (tx_cnt + 1) % Threshold = 0
      BY <2>1, <2>2
    <3>2. QED
      BY <1>14, <2>1, <3>1 DEF ThreadSend, RoomReadOften
  <2>3. CASE tx_cnt + 1 < Threshold
    BY <1>14, <2>1, <2>3 DEF ThreadSend, RoomReadOften
  <2>4. QED
    BY <2>1, <2>2, <2>3
<1>15. CASE ThreadStartFlag
  BY <1>15 DEF ThreadStartFlag, ThreadUnchanged, AfterPass, RoomReadOften
<1>16. CASE ThreadStartNetif
  BY <1>16 DEF ThreadStartNetif, ThreadUnchanged, SetXoff, AfterPass, RoomReadOften
<1>17. CASE ThreadReset
  BY <1>17, ThresholdAssumption DEF ThreadReset, ThreadUnchanged, K_EVENT_INIT,
     RoomReadOften
<1>18. CASE ThreadCheckAc
  BY <1>18 DEF ThreadCheckAc, ThreadUnchanged, RS_C_TX_EVENT, RoomReadOften
<1>19. CASE ThreadCheckPower
  BY <1>19 DEF ThreadCheckPower, ThreadUnchanged, RS_C_TX_EVENT, RoomReadOften
<1>20. CASE ThreadPost
  BY <1>20 DEF ThreadPost, ThreadUnchanged, RoomReadOften
<1>21. CASE ThreadAgain
  BY <1>21 DEF ThreadAgain, ThreadUnchanged, RoomReadOften
<1>22. ASSUME NEW v \in Vif, ConnectInd(v) PROVE RoomReadOften'
  BY <1>22 DEF ConnectInd, IndiUnchanged, RoomReadOften
<1>23. ASSUME NEW v \in Vif, DisconnectInd(v) PROVE RoomReadOften'
  BY <1>23 DEF DisconnectInd, IndiUnchanged, RoomReadOften
<1>24. ASSUME NEW v \in Vif, Open(v) PROVE RoomReadOften'
  BY <1>24 DEF Open, EnvUnchanged, RoomReadOften
<1>25. ASSUME NEW v \in Vif, Close(v) PROVE RoomReadOften'
  BY <1>25 DEF Close, EnvUnchanged, RoomReadOften
<1>26. CASE ConnectIndNetif
  BY <1>26 DEF ConnectIndNetif, IndiUnchanged, SetXoff, SetCarrier, RoomReadOften
<1>27. CASE DisconnectIndNetif
  BY <1>27 DEF DisconnectIndNetif, IndiUnchanged, SetXoff, SetCarrier, RoomReadOften
<1>28. CASE SetStatus
  BY <1>28 DEF SetStatus, EnvUnchanged, RoomReadOften
<1>29. CASE SetScan
  BY <1>29 DEF SetScan, EnvUnchanged, RoomReadOften
<1>30. CASE NetDeinit
  BY <1>30 DEF NetDeinit, EnvUnchanged, RoomReadOften
<1>31. CASE DeinitPostExit
  BY <1>31 DEF DeinitPostExit, DeinitUnchanged, K_EVENT_EXIT, RoomReadOften
<1>32. CASE DeinitKthreadStop
  BY <1>32 DEF DeinitKthreadStop, DeinitUnchanged, RoomReadOften
<1>33. CASE DeinitFree
  BY <1>33 DEF DeinitFree, DeinitUnchanged, RoomReadOften
<1>34. CASE UNCHANGED vars
  BY <1>34 DEF vars, RoomReadOften
<1>35. ASSUME NEW v \in Vif, StartAp(v) PROVE RoomReadOften'
  BY <1>35 DEF StartAp, EnvUnchanged, SetXoff, SetCarrier, RoomReadOften
<1>36. QED
  BY <1>1, <1>2, <1>3, <1>4, <1>5, <1>6, <1>7, <1>8, <1>9, <1>10, <1>11, <1>12, <1>13,
     <1>14, <1>15, <1>16, <1>17, <1>18, <1>19, <1>20, <1>21, <1>22, <1>23, <1>24,
     <1>25, <1>26, <1>27, <1>28, <1>29, <1>30, <1>31, <1>32, <1>33, <1>34, <1>35
     DEF Next, SenderStep, ThreadStep, IndiStep, DeinitStep

-----------------------------------------------------------------------------
(***************************************************************************)
(* The theorems of the specification.                                      *)
(***************************************************************************)

\* The state of the transmit path keeps its types and bounds in every reachable
\* state, for any number of senders and interfaces, any depth of the queues and
\* any threshold: no queue outgrows its depth, and a sender holds the spin lock
\* of tx_data exactly while it is stopping an interface from c_tx_push.
THEOREM TxTypeCorrect == Spec => []TxTypeOK
<1>1. Init => TxTypeOK
  BY InitTyped
<1>2. TxTypeOK /\ [Next]_vars => TxTypeOK'
  BY NextTyped
<1>3. QED
  BY <1>1, <1>2, PTL DEF Spec

\* No wake-up of c_tx_thread is lost, whatever the number of senders and the
\* interleaving of their unlocked checks of the queues with the thread's reset
\* of the event: while a frame is queued the event is up, or the thread or a
\* sender is on its way to post it, or the thread has ended.
THEOREM NoWakeupLost == Spec => []NoLostWakeup
<1>1. Init => NoLostWakeup
  BY DEF Init, InitWith, NoLostWakeup, FramesQueued
<1>2. TxTypeOK /\ NoLostWakeup /\ [Next]_vars => NoLostWakeup'
  BY NextWakeup
<1>3. QED
  BY <1>1, <1>2, TxTypeCorrect, PTL DEF Spec

\* c_tx_data never sends more than Threshold frames on one reading of the chip's
\* room left, for every threshold above 1: the count is started over by each
\* reading, in the middle of a pass and at its start.
THEOREM RoomIsReadOften == Spec => []RoomReadOften
<1>1. Init => RoomReadOften
  BY ThresholdAssumption DEF Init, InitWith, RoomReadOften
<1>2. TxTypeOK /\ RoomReadOften /\ [Next]_vars => RoomReadOften'
  BY NextRoom
<1>3. QED
  BY <1>1, <1>2, TxTypeCorrect, PTL DEF Spec
=============================================================================
