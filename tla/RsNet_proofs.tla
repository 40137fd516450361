---------------------------- MODULE RsNet_proofs ----------------------------
(***************************************************************************)
(* Proofs about RsNet, for any interfaces, indices of the chip and         *)
(* stations, and any calls of the stack.                                   *)
(*                                                                         *)
(* A call is a list of steps, and between two of them indications, works   *)
(* and the chip run.  What makes the properties inductive is a set of      *)
(* facts for every step that the list still holds: where the interface of  *)
(* the call then is (Place), which interfaces have an index of the chip    *)
(* (Held), that the chip knows their indices and has forgotten the others  *)
(* (Known, Forgotten), that it keeps the same stations (Listed), and that  *)
(* what a closing call has not yet cleared it will still clear (Outlives). *)
(* The order in which steps may follow each other (After) keeps the facts  *)
(* apart: no step makes one false that a later step of the list needs.     *)
(***************************************************************************)
EXTENDS RsNet, FiniteSetTheorems, TLAPS

-----------------------------------------------------------------------------
(* Lists of steps *)

\* The steps that a list holds.
Steps(l) == {l[i] : i \in 1..Len(l)}

\* The steps of the stack's calls.
UserStep == {
  "dev_start", "if_add", "opened", "cac_stop", "cac_stop_req", "cac_end", "scan_stop", "scan_cancel",
  "scan_wait", "scan_test", "scan_report", "scan_clear", "scan_gate", "if_remove", "closed",
  "dev_reset", "me_config", "chan_config", "unregistered", "oops", "del_stations", "change_sta",
  "change_ap", "scan_start", "scan_begun", "roc_req", "roc_internal", "roc_tx", "roc_cancel",
  "connect_req", "disconnect_req", "ap_start", "ap_stop", "ap_stopped", "add_sta", "del_one",
  "cac_start", "csa_req", "csa_init", "set"}

\* Those that are the last of their call.
Last == {"opened", "unregistered", "change_sta", "change_ap", "ap_start", "ap_stopped", "csa_init", "add_sta", "scan_begun"}

\* What may come later in a list than x.
After(x) ==
  CASE x \in Last       -> {}
    [] x = "dev_start"  -> {"if_add", "opened"}
    [] x = "if_add"     -> {"opened"}
    [] x = "if_remove"  -> UserStep \ {"if_remove"}
    [] x \in {"closed", "dev_reset"} -> {"dev_reset", "me_config", "chan_config", "unregistered"}
    [] OTHER            -> UserStep

Special == Last \cup {"dev_start", "if_add", "if_remove", "closed", "dev_reset"}

Ordered(l) == \A i, j \in 1..Len(l) : i < j => l[j] \in After(l[i])
Paired(l)  == \A i \in 1..Len(l) : l[i] = "if_remove" => i < Len(l) /\ l[i + 1] = "closed"
ListOK(l)  == l \in Seq(UserStep) /\ Ordered(l) /\ Paired(l)

\* Behind a step that is not special any step may come.
LEMMA AfterOther ==
  ASSUME NEW x \in UserStep \ Special
  PROVE  After(x) = UserStep
BY DEF After, Special, Last

\* The steps of a list are its head and those of its tail.
LEMMA StepsOfTail ==
  ASSUME NEW S, NEW l \in Seq(S), l # <<>>
  PROVE  /\ Head(l) \in S /\ Tail(l) \in Seq(S)
         /\ Steps(l) = {Head(l)} \cup Steps(Tail(l))
<1>1. Tail(l) \in Seq(S) /\ Len(Tail(l)) = Len(l) - 1 /\ \A i \in 1..Len(Tail(l)) : Tail(l)[i] = l[i + 1]
  OBVIOUS
<1>2. Head(l) = l[1] /\ Head(l) \in S /\ Len(l) \in Nat \ {0}
  OBVIOUS
<1>3. ASSUME NEW i \in 1..Len(l) PROVE l[i] \in {Head(l)} \cup Steps(Tail(l))
  <2>1. CASE i = 1
    BY <2>1, <1>2
  <2>2. CASE i # 1
    <3>1. i - 1 \in 1..Len(Tail(l)) /\ Tail(l)[i - 1] = l[i]
      BY <2>2, <1>1, <1>2
    <3> QED BY <3>1 DEF Steps
  <2> QED BY <2>1, <2>2
<1>4. ASSUME NEW i \in 1..Len(Tail(l)) PROVE Tail(l)[i] \in Steps(l)
  <2>1. i + 1 \in 1..Len(l) /\ Tail(l)[i] = l[i + 1]
    BY <1>1, <1>2
  <2> QED BY <2>1 DEF Steps
<1>5. Head(l) \in Steps(l)
  BY <1>2 DEF Steps
<1> QED BY <1>1, <1>2, <1>3, <1>4, <1>5 DEF Steps

\* The steps of two lists put together are the steps of both.
LEMMA StepsOfConcat ==
  ASSUME NEW S, NEW l \in Seq(S), NEW r \in Seq(S)
  PROVE  l \o r \in Seq(S) /\ Steps(l \o r) = Steps(l) \cup Steps(r)
<1>1. /\ l \o r \in Seq(S) /\ Len(l \o r) = Len(l) + Len(r) /\ Len(l) \in Nat /\ Len(r) \in Nat
      /\ \A i \in 1..Len(l) + Len(r) : (l \o r)[i] = IF i <= Len(l) THEN l[i] ELSE r[i - Len(l)]
  OBVIOUS
<1>2. ASSUME NEW i \in 1..Len(l \o r) PROVE (l \o r)[i] \in Steps(l) \cup Steps(r)
  <2>1. CASE i <= Len(l)
    BY <2>1, <1>1 DEF Steps
  <2>2. CASE ~(i <= Len(l))
    <3>1. i - Len(l) \in 1..Len(r) /\ (l \o r)[i] = r[i - Len(l)]
      BY <2>2, <1>1
    <3> QED BY <3>1 DEF Steps
  <2> QED BY <2>1, <2>2
<1>3. ASSUME NEW i \in 1..Len(l) PROVE l[i] \in Steps(l \o r)
  <2>1. i \in 1..Len(l \o r) /\ (l \o r)[i] = l[i]
    BY <1>1
  <2> QED BY <2>1 DEF Steps
<1>4. ASSUME NEW i \in 1..Len(r) PROVE r[i] \in Steps(l \o r)
  <2>1. i + Len(l) \in 1..Len(l \o r) /\ (l \o r)[i + Len(l)] = r[i]
    BY <1>1
  <2> QED BY <2>1 DEF Steps
<1> QED BY <1>1, <1>2, <1>3, <1>4 DEF Steps

\* The head of a list that has a first element is that element.
LEMMA HeadIs ==
  ASSUME NEW S, NEW l \in Seq(S), 1 \in 1..Len(l)
  PROVE  l # <<>> /\ Head(l) = l[1]
OBVIOUS

\* Once its head is taken away a list of steps is still one, and only steps that may come
\* after the head are left.
LEMMA TailOK ==
  ASSUME NEW l, ListOK(l), l # <<>>
  PROVE  /\ ListOK(Tail(l)) /\ Steps(Tail(l)) \subseteq After(Head(l))
         /\ Head(l) \in UserStep /\ Steps(l) = {Head(l)} \cup Steps(Tail(l))
         /\ Head(l) = "if_remove" => Tail(l) # <<>> /\ Head(Tail(l)) = "closed"
<1>0. l \in Seq(UserStep)
  BY DEF ListOK
<1>1. /\ Tail(l) \in Seq(UserStep) /\ Len(Tail(l)) = Len(l) - 1
      /\ \A i \in 1..Len(Tail(l)) : Tail(l)[i] = l[i + 1]
  BY <1>0
<1>2. Head(l) = l[1] /\ Len(l) \in Nat \ {0}
  BY <1>0
<1>3. Ordered(Tail(l))
  <2> SUFFICES ASSUME NEW i \in 1..Len(Tail(l)), NEW j \in 1..Len(Tail(l)), i < j
               PROVE  Tail(l)[j] \in After(Tail(l)[i])
    BY DEF Ordered
  <2>1. i + 1 \in 1..Len(l) /\ j + 1 \in 1..Len(l) /\ i + 1 < j + 1
    BY <1>1, <1>2
  <2>2. l[j + 1] \in After(l[i + 1])
    BY <2>1 DEF ListOK, Ordered
  <2> QED BY <2>2, <1>1
<1>4. Paired(Tail(l))
  <2> SUFFICES ASSUME NEW i \in 1..Len(Tail(l)), Tail(l)[i] = "if_remove"
               PROVE  i < Len(Tail(l)) /\ Tail(l)[i + 1] = "closed"
    BY DEF Paired
  <2>1. i + 1 \in 1..Len(l) /\ l[i + 1] = "if_remove"
    BY <1>1, <1>2
  <2>2. i + 1 < Len(l) /\ l[i + 1 + 1] = "closed"
    BY <2>1 DEF ListOK, Paired
  <2> QED BY <2>2, <1>1, <1>2
<1>5. ASSUME NEW x \in Steps(Tail(l)) PROVE x \in After(Head(l))
  <2>1. PICK i \in 1..Len(Tail(l)) : x = Tail(l)[i]
    BY DEF Steps
  <2>2. 1 \in 1..Len(l) /\ i + 1 \in 1..Len(l) /\ 1 < i + 1 /\ x = l[i + 1]
    BY <2>1, <1>1, <1>2
  <2>3. l[i + 1] \in After(l[1])
    BY <2>2 DEF ListOK, Ordered
  <2> QED BY <2>2, <2>3, <1>2
<1>6. ASSUME Head(l) = "if_remove" PROVE Tail(l) # <<>> /\ Head(Tail(l)) = "closed"
  <2>1. 1 < Len(l) /\ l[1 + 1] = "closed"
    BY <1>6, <1>2 DEF ListOK, Paired
  <2>2. 1 \in 1..Len(Tail(l)) /\ Tail(l)[1] = l[1 + 1]
    BY <2>1, <1>1, <1>2
  <2>3. Tail(l) # <<>> /\ Head(Tail(l)) = Tail(l)[1]
    BY <2>2, <1>1, HeadIs
  <2> QED BY <2>1, <2>2, <2>3
<1>7. Head(l) \in UserStep /\ Steps(l) = {Head(l)} \cup Steps(Tail(l))
  BY <1>0, StepsOfTail
<1> QED BY <1>1, <1>3, <1>4, <1>5, <1>6, <1>7 DEF ListOK

\* Two lists of steps make one when every step of the second may come after the first's.
LEMMA ConcatOK ==
  ASSUME NEW l, NEW r, ListOK(l), ListOK(r), \A x \in Steps(l) : Steps(r) \subseteq After(x)
  PROVE  ListOK(l \o r) /\ Steps(l \o r) = Steps(l) \cup Steps(r)
<1>0. l \in Seq(UserStep) /\ r \in Seq(UserStep)
  BY DEF ListOK
<1>1. l \o r \in Seq(UserStep) /\ Steps(l \o r) = Steps(l) \cup Steps(r)
  BY <1>0, StepsOfConcat
<1>2. /\ Len(l \o r) = Len(l) + Len(r) /\ Len(l) \in Nat /\ Len(r) \in Nat
      /\ \A i \in 1..Len(l \o r) : (l \o r)[i] = IF i <= Len(l) THEN l[i] ELSE r[i - Len(l)]
  BY <1>0
<1>3. Ordered(l \o r)
  <2> SUFFICES ASSUME NEW i \in 1..Len(l \o r), NEW j \in 1..Len(l \o r), i < j
               PROVE  (l \o r)[j] \in After((l \o r)[i])
    BY DEF Ordered
  <2>1. CASE j <= Len(l)
    <3>1. i \in 1..Len(l) /\ j \in 1..Len(l) /\ (l \o r)[j] = l[j] /\ (l \o r)[i] = l[i]
      BY <2>1, <1>2
    <3>2. l[j] \in After(l[i])
      BY <3>1 DEF ListOK, Ordered
    <3> QED BY <3>1, <3>2
  <2>2. CASE ~(i <= Len(l))
    <3>1. /\ i - Len(l) \in 1..Len(r) /\ j - Len(l) \in 1..Len(r) /\ i - Len(l) < j - Len(l)
          /\ (l \o r)[j] = r[j - Len(l)] /\ (l \o r)[i] = r[i - Len(l)]
      BY <2>2, <1>2
    <3>2. r[j - Len(l)] \in After(r[i - Len(l)])
      BY <3>1 DEF ListOK, Ordered
    <3> QED BY <3>1, <3>2
  <2>3. CASE i <= Len(l) /\ ~(j <= Len(l))
    <3>1. /\ i \in 1..Len(l) /\ j - Len(l) \in 1..Len(r)
          /\ (l \o r)[j] = r[j - Len(l)] /\ (l \o r)[i] = l[i]
      BY <2>3, <1>2
    <3>2. l[i] \in Steps(l) /\ r[j - Len(l)] \in Steps(r)
      BY <3>1 DEF Steps
    <3> QED BY <3>1, <3>2
  <2> QED BY <2>1, <2>2, <2>3
<1>4. Paired(l \o r)
  <2> SUFFICES ASSUME NEW i \in 1..Len(l \o r), (l \o r)[i] = "if_remove"
               PROVE  i < Len(l \o r) /\ (l \o r)[i + 1] = "closed"
    BY DEF Paired
  <2>1. CASE i <= Len(l)
    <3>1. i \in 1..Len(l) /\ l[i] = "if_remove"
      BY <2>1, <1>2
    <3>2. i < Len(l) /\ l[i + 1] = "closed"
      BY <3>1 DEF ListOK, Paired
    <3> QED BY <3>1, <3>2, <1>2
  <2>2. CASE ~(i <= Len(l))
    <3>1. i - Len(l) \in 1..Len(r) /\ r[i - Len(l)] = "if_remove"
      BY <2>2, <1>2
    <3>2. i - Len(l) < Len(r) /\ r[i - Len(l) + 1] = "closed"
      BY <3>1 DEF ListOK, Paired
    <3>3. i + 1 \in 1..Len(l \o r) /\ (i + 1) - Len(l) = i - Len(l) + 1 /\ ~(i + 1 <= Len(l))
      BY <3>2, <1>2, <2>2
    <3> QED BY <3>2, <3>3, <1>2
  <2> QED BY <2>1, <2>2
<1> QED BY <1>1, <1>3, <1>4 DEF ListOK

\* The lists that are written out.
LEMMA NoStep == ListOK(<<>>) /\ Steps(<<>>) = {}
BY DEF ListOK, Ordered, Paired, Steps

\* A single step is a list of steps, if_remove excepted: the interface is closed after it.
LEMMA OneStep ==
  ASSUME NEW x \in UserStep \ {"if_remove"}
  PROVE  ListOK(<<x>>) /\ Steps(<<x>>) = {x}
BY DEF ListOK, Ordered, Paired, Steps

\* Two steps in an order the call allows are a list of steps.
LEMMA TwoSteps ==
  ASSUME NEW x \in UserStep, NEW y \in UserStep \ {"if_remove"}, y \in After(x), x = "if_remove" => y = "closed"
  PROVE  ListOK(<<x, y>>) /\ Steps(<<x, y>>) = {x, y}
<1> DEFINE l == <<x, y>>
<1>1. l \in Seq(UserStep) /\ Len(l) = 2 /\ l[1] = x /\ l[2] = y
  OBVIOUS
<1> HIDE DEF l
<1>2. Ordered(l) /\ Paired(l)
  BY <1>1 DEF Ordered, Paired
<1>3. Steps(l) = {x, y}
  BY <1>1 DEF Steps
<1>4. ListOK(l) /\ Steps(l) = {x, y}
  BY <1>1, <1>2, <1>3 DEF ListOK
<1> QED BY <1>4 DEF l

\* Steps after which anything may come.
LEMMA PlainOK ==
  ASSUME NEW l \in Seq(UserStep \ Special)
  PROVE  ListOK(l)
<1>1. \A i \in 1..Len(l) : l[i] \in UserStep \ Special
  OBVIOUS
<1>2. l \in Seq(UserStep)
  OBVIOUS
<1>3. Ordered(l)
  BY <1>1, AfterOther DEF Ordered
<1>4. Paired(l)
  BY <1>1 DEF Paired, Special
<1> QED BY <1>2, <1>3, <1>4 DEF ListOK

\* Plain steps may be put before any list: what a step calls in the middle of its caller.
LEMMA PlainBefore ==
  ASSUME NEW l \in Seq(UserStep \ Special), NEW r, ListOK(r)
  PROVE  ListOK(l \o r) /\ Steps(l \o r) = Steps(l) \cup Steps(r)
<1>1. ListOK(l) /\ r \in Seq(UserStep)
  BY PlainOK DEF ListOK
<1>2. Steps(r) \subseteq UserStep
  BY <1>1 DEF Steps
<1>3. \A x \in Steps(l) : After(x) = UserStep
  BY AfterOther DEF Steps
<1> QED BY <1>1, <1>2, <1>3, ConcatOK

\* The steps of a list of three.
LEMMA ThreeSteps ==
  ASSUME NEW S, NEW x \in S, NEW y \in S, NEW z \in S
  PROVE  <<x, y, z>> \in Seq(S) /\ Steps(<<x, y, z>>) = {x, y, z}
BY DEF Steps

\* The steps of a list of five.
LEMMA FiveSteps ==
  ASSUME NEW S, NEW v \in S, NEW w \in S, NEW x \in S, NEW y \in S, NEW z \in S
  PROVE  <<v, w, x, y, z>> \in Seq(S) /\ Steps(<<v, w, x, y, z>>) = {v, w, x, y, z}
BY DEF Steps

\* What rs_net_close has to do is a list of steps, also before the interface is unregistered.
LEMMA CloseList ==
  /\ ListOK(CloseSteps) /\ Steps(CloseSteps) = {"cac_stop", "scan_stop", "if_remove", "closed"}
  /\ ListOK(CloseSteps \o <<"unregistered">>)
  /\ Steps(CloseSteps \o <<"unregistered">>) = {"cac_stop", "scan_stop", "if_remove", "closed", "unregistered"}
<1> DEFINE l == CloseSteps
<1>1. /\ l \in Seq(UserStep) /\ Len(l) = 4
      /\ l[1] = "cac_stop" /\ l[2] = "scan_stop" /\ l[3] = "if_remove" /\ l[4] = "closed"
  BY DEF CloseSteps, UserStep
<1>2. /\ After("cac_stop") = UserStep /\ After("scan_stop") = UserStep
      /\ {"closed", "unregistered"} \subseteq After("if_remove") /\ "unregistered" \in After("closed")
  BY DEF After, Last, UserStep
<1> HIDE DEF l
<1>3. {"if_remove", "closed", "scan_stop", "unregistered"} \subseteq UserStep
  BY DEF UserStep
<1>4. Ordered(l)
  BY <1>1, <1>2, <1>3 DEF Ordered
<1>5. Paired(l)
  BY <1>1 DEF Paired
<1>6. Steps(l) = {"cac_stop", "scan_stop", "if_remove", "closed"}
  BY <1>1 DEF Steps
<1>7. ListOK(l)
  BY <1>1, <1>4, <1>5 DEF ListOK
<1>8. ListOK(<<"unregistered">>) /\ Steps(<<"unregistered">>) = {"unregistered"}
  BY OneStep DEF UserStep
<1>9. \A x \in Steps(l) : Steps(<<"unregistered">>) \subseteq After(x)
  BY <1>2, <1>3, <1>6, <1>8
<1>10. ListOK(l \o <<"unregistered">>) /\ Steps(l \o <<"unregistered">>) = Steps(l) \cup {"unregistered"}
  BY <1>7, <1>8, <1>9, ConcatOK
<1> QED BY <1>6, <1>7, <1>10 DEF l

\* What stop_ap has to do is a list of steps.
LEMMA StopList ==
  /\ ListOK(<<"del_stations", "cac_stop", "ap_stop", "ap_stopped">>)
  /\ Steps(<<"del_stations", "cac_stop", "ap_stop", "ap_stopped">>) = {"del_stations", "cac_stop", "ap_stop", "ap_stopped"}
<1> DEFINE l == <<"del_stations", "cac_stop", "ap_stop", "ap_stopped">>
<1>1. /\ l \in Seq(UserStep) /\ Len(l) = 4
      /\ l[1] = "del_stations" /\ l[2] = "cac_stop" /\ l[3] = "ap_stop" /\ l[4] = "ap_stopped"
  BY DEF UserStep
<1>2. After("del_stations") = UserStep /\ After("cac_stop") = UserStep /\ After("ap_stop") = UserStep
  BY DEF After, Last
<1> HIDE DEF l
<1>3. {"cac_stop", "ap_stop", "ap_stopped"} \subseteq UserStep
  BY DEF UserStep
<1>4. Ordered(l)
  BY <1>1, <1>2, <1>3 DEF Ordered
<1>5. Paired(l)
  BY <1>1 DEF Paired
<1>6. Steps(l) = {"del_stations", "cac_stop", "ap_stop", "ap_stopped"}
  BY <1>1 DEF Steps
<1>7. ListOK(l)
  BY <1>1, <1>4, <1>5 DEF ListOK
<1> QED BY <1>6, <1>7 DEF l

-----------------------------------------------------------------------------
(* The invariant *)

\* What the call of the stack still has to do.
U == Steps(todo["user"])

UserLists == DOMAIN todo = Thread /\ ListOK(todo["user"])

\* What a call of the stack has still to do says where its interface is.
Opening  == {"dev_start", "if_add", "opened"}
Leaving  == {"if_remove", "closed"}
Asking   == {"connect_req", "disconnect_req"}
Changing == {"change_sta", "change_ap"}
NeedUp   == Leaving \cup Asking \cup {"scan_begun", "ap_start"}

\* The interface of the call is where the steps it has left need it.
Place ==
  /\ U # {} => me \in Vif
  /\ U \cap Opening # {} => vif[me].reg /\ ~vif[me].up
  /\ U \cap NeedUp # {} => vif[me].up
  /\ U \cap Asking # {} => vif[me].type = "sta"
  /\ "ap_start" \in U => vif[me].type = "ap"
  /\ U \cap {"add_sta", "csa_req"} # {} => me \in stack.ap
  /\ U \cap Changing # {} => ~vif[me].up
  /\ "unregistered" \in U => ~vif[me].up \/ "closed" \in U
  /\ U \cap Leaving # {} => me \notin stack.ap
  /\ "closed" \in U => "if_remove" \in U \/ At("user", "closed")
  /\ "dev_reset" \in U => vif_started = 0

\* An open interface is registered, and a running access point is open.
Ups ==
  /\ \A v \in Vif : vif[v].up => vif[v].reg
  /\ \A v \in stack.ap : v \in Vif /\ vif[v].up /\ vif[v].type = "ap"

\* An interface has an index of the chip from if_add on, which the chip forgets with
\* if_remove.
Held(v)  == vif[v].up \/ (me = v /\ "opened" \in U /\ "if_add" \notin U)
Going(v) == me = v /\ "closed" \in U /\ "if_remove" \notin U

Counted == vif_started = Cardinality({v \in Vif : vif[v].up})

\* The indices of two interfaces differ, and the table leads from an index back to the interface.
Indices ==
  /\ \A v \in Vif : Held(v) => vif[v].idx \in VifIndex
  /\ \A v \in Vif : vif[v].up => vif_table[vif[v].idx] = v
  /\ \A u, v \in Vif : Held(u) /\ Held(v) /\ u # v => vif[u].idx # vif[v].idx

\* The chip runs and knows each interface by its index.
Known ==
  ~in_recovery =>
    /\ \A v \in Vif : Held(v) /\ ~Going(v) => chip.vifs[vif[v].idx] = v /\ chip.started
    /\ U \cap {"if_add", "opened"} # {} /\ "dev_start" \notin U => chip.started

\* It keeps no connection and no station for an index it has forgotten.
Forgotten ==
  ~in_recovery =>
    \A i \in VifIndex : chip.vifs[i] = None => i \notin chip.join /\ \A s \in StaIndex : chip.stas[s] # i

\* An access point's list of stations is the chip's, and empty when the access point is gone.
Listed ==
  ~in_recovery =>
    /\ \A v \in Vif : vif[v].stas # {} => v \in stack.ap
    /\ "ap_stopped" \in U /\ "del_stations" \notin U => vif[me].stas = {}
    /\ \A v \in Vif : Held(v) /\ ~Going(v) /\ vif[v].type = "ap" =>
         /\ vif[v].idx \notin chip.join
         /\ vif[v].stas = {s \in StaIndex : chip.stas[s] = vif[v].idx}

\* What the driver points to is open, and a closing call still has the step that clears it.
Outlives ==
  /\ NothingOutlivesItsInterface
  /\ U \cap Leaving # {} => scan_request = None \/ U \cap {"scan_stop", "scan_clear"} # {}
  /\ U \cap Leaving # {} => cac_vif = None \/ U \cap {"cac_stop", "cac_end"} # {}

CsaStep == {"oops", "csa_beacon", "csa_set", "csa_remove"}

\* The work of a channel switch has its record until its last step, and so has the call that asks.
Switch ==
  /\ todo["csa"] \in Seq(CsaStep)
  /\ \A i \in 1..Len(todo["csa"]) : todo["csa"][i] = "csa_remove" => i = Len(todo["csa"])
  /\ todo["csa"] # <<>> /\ ~At("csa", "oops") => on["csa"] \in Vif /\ vif[on["csa"]].csa \notin {"none", "asked"}
  /\ "csa_req" \in U => vif[me].csa = "asked"

NetInv == Place /\ Ups /\ Counted /\ Indices /\ Known /\ Forgotten /\ Listed /\ Outlives /\ Switch

-----------------------------------------------------------------------------
(* Steps that keep it.  A step of the user's call takes the head of its    *)
(* list away, and perhaps puts others before the rest; what the invariant  *)
(* asks depends on the steps in Marks only.                                *)

Marks == Opening \cup NeedUp \cup Changing \cup
         {"add_sta", "csa_req", "unregistered", "dev_reset", "ap_stopped", "del_stations",
          "scan_stop", "scan_clear", "cac_stop", "cac_end"}

\* What a step may call in the middle of its caller.
Begun == {"scan_clear", "cac_end"}

\* Nothing but h is done, or the call has ended.
Quieter(h) ==
  /\ \A s \in Marks \ Begun : s \in U' => s \in U
  /\ At("user", "closed") => At("user", "closed")' /\ "closed" \in U'
  /\ \/ \A s \in Marks : s # h /\ s \in U => s \in U'
     \/ \A s \in Marks : s \notin U'

\* It is the same call, or one that the invariant asks nothing of.
SameUser ==
  \/ me' = me /\ (U' # {} => U # {})
  \/ me' \in Vif /\ \A s \in Marks : s \notin U /\ s \notin U'

Quiet(h) == Quieter(h) /\ SameUser

\* The step that the user's call is at is one of those it has left.
LEMMA HeadIn ==
  ASSUME UserLists, NEW h, At("user", h)
  PROVE  h \in U /\ h \in UserStep
BY TailOK DEF UserLists, At, U

\* When a step is done, what the call has left is what it had left but for that step.
LEMMA UserDone ==
  ASSUME UserLists, NEW h, h # "closed", At("user", h), Done("user"), on'["user"] = on["user"]
  PROVE  /\ UserLists' /\ Quiet(h) /\ h \in U /\ todo'["csa"] = todo["csa"]
         /\ U = {h} \cup U' /\ U' \subseteq After(h)
         /\ h = "if_remove" => At("user", "closed")'
<1>1. "user" \in Thread /\ "user" \in DOMAIN todo /\ "csa" \in DOMAIN todo
  BY DEF UserLists, Thread
<1>2. todo'["user"] = Tail(todo["user"]) /\ DOMAIN todo' = Thread /\ todo'["csa"] = todo["csa"]
  BY <1>1 DEF Done, UserLists
<1>3. ListOK(todo["user"]) /\ todo["user"] # <<>> /\ Head(todo["user"]) = h
  BY DEF UserLists, At
<1>4. /\ ListOK(Tail(todo["user"])) /\ Steps(Tail(todo["user"])) \subseteq After(h)
      /\ Steps(todo["user"]) = {h} \cup Steps(Tail(todo["user"]))
      /\ h = "if_remove" => Tail(todo["user"]) # <<>> /\ Head(Tail(todo["user"])) = "closed"
  BY <1>3, TailOK
<1>5. UserLists' /\ U = {h} \cup U' /\ U' \subseteq After(h)
  BY <1>2, <1>4 DEF UserLists, U
<1>6. h = "if_remove" => At("user", "closed")'
  BY <1>2, <1>4 DEF At
<1>7. ~At("user", "closed")
  BY <1>3 DEF At
<1>8. Quieter(h)
  BY <1>5, <1>7 DEF Quieter
<1>9. SameUser
  BY <1>5 DEF SameUser, me
<1> QED BY <1>2, <1>5, <1>6, <1>8, <1>9 DEF Quiet

\* When a step calls others, they come before what the call has left.
LEMMA UserThen ==
  ASSUME UserLists, NEW h, At("user", h), NEW l \in Seq(UserStep \ Special),
         Then("user", l), on'["user"] = on["user"]
  PROVE  UserLists' /\ h \in U /\ todo'["csa"] = todo["csa"] /\ \E R : ListOK(R) /\ U = {h} \cup Steps(R) /\ U' = Steps(l) \cup Steps(R)
<1>1. "user" \in Thread /\ "user" \in DOMAIN todo /\ "csa" \in DOMAIN todo
  BY DEF UserLists, Thread
<1>2. todo'["user"] = l \o Tail(todo["user"]) /\ DOMAIN todo' = Thread /\ todo'["csa"] = todo["csa"]
  BY <1>1 DEF Then, UserLists
<1>3. ListOK(todo["user"]) /\ todo["user"] # <<>> /\ Head(todo["user"]) = h
  BY DEF UserLists, At
<1>4. ListOK(Tail(todo["user"])) /\ Steps(todo["user"]) = {h} \cup Steps(Tail(todo["user"]))
  BY <1>3, TailOK
<1>5. ListOK(l \o Tail(todo["user"])) /\ Steps(l \o Tail(todo["user"])) = Steps(l) \cup Steps(Tail(todo["user"]))
  BY <1>4, PlainBefore
<1> QED BY <1>2, <1>4, <1>5 DEF UserLists, U

\* When the call returns or is gone, it has no step left that matters.
LEMMA UserEnds ==
  ASSUME UserLists, NEW h, h # "closed", At("user", h), Return("user") \/ Oops("user"), on'["user"] = on["user"]
  PROVE  /\ UserLists' /\ (\A x : Quiet(x)) /\ h \in U /\ todo'["csa"] = todo["csa"]
         /\ \A s \in Marks : s \notin U'
<1>1. "user" \in Thread /\ "user" \in DOMAIN todo /\ "csa" \in DOMAIN todo
  BY DEF UserLists, Thread
<1>2. todo'["user"] \in {<<>>, <<"oops">>} /\ DOMAIN todo' = Thread /\ todo'["csa"] = todo["csa"]
  BY <1>1 DEF Return, Oops, UserLists
<1>3. ListOK(<<"oops">>) /\ Steps(<<"oops">>) = {"oops"}
  BY OneStep DEF UserStep
<1>4. UserLists' /\ U' \subseteq {"oops"}
  BY <1>2, <1>3, NoStep DEF UserLists, U
<1>5. \A s \in Marks : s \notin U'
  BY <1>4 DEF Marks, Opening, NeedUp, Changing, Leaving, Asking
<1>6. h \in U /\ ~At("user", "closed")
  BY HeadIn DEF At
<1>7. \A x : Quieter(x)
  BY <1>5, <1>6 DEF Quieter
<1>8. SameUser
  BY <1>6 DEF SameUser, me
<1> QED BY <1>2, <1>4, <1>5, <1>6, <1>7, <1>8 DEF Quiet

\* When another thread runs, the call has left what it had left.
LEMMA UserWaits ==
  ASSUME UserLists, todo'["user"] = todo["user"], DOMAIN todo' = DOMAIN todo, on'["user"] = on["user"]
  PROVE  UserLists' /\ \A x : Quiet(x)
<1>1. UserLists' /\ U' = U
  BY DEF UserLists, U
<1>2. At("user", "closed") => At("user", "closed")' /\ "closed" \in U
  BY HeadIn DEF At
<1> QED BY <1>1, <1>2 DEF Quiet, Quieter, SameUser, me

\* Whatever another thread goes on to do, the call has left what it had left.
LEMMA OtherMoves ==
  ASSUME UserLists, NEW t \in Thread \ {"user"}, NEW x, todo' = [todo EXCEPT ![t] = x], on'["user"] = on["user"]
  PROVE  UserLists' /\ (\A y : Quiet(y)) /\ (t # "csa" => todo'["csa"] = todo["csa"])
<1>1. "user" \in Thread /\ "csa" \in Thread /\ DOMAIN todo = Thread
  BY DEF UserLists, Thread
<1>2. todo'["user"] = todo["user"] /\ DOMAIN todo' = DOMAIN todo /\ (t # "csa" => todo'["csa"] = todo["csa"])
  BY <1>1
<1> QED BY <1>2, UserWaits


-----------------------------------------------------------------------------
\* What the parts of the invariant speak of, and how the steps that do not disturb
\* a part leave it.
SameIfaces ==
  /\ \A v \in Vif : /\ vif'[v].reg = vif[v].reg /\ vif'[v].type = vif[v].type
                    /\ vif'[v].up = vif[v].up /\ vif'[v].idx = vif[v].idx
  /\ vif_table' = vif_table /\ vif_started' = vif_started /\ stack'.ap = stack.ap

SameStas == \A v \in Vif : vif'[v].stas = vif[v].stas

SameChip    == in_recovery' \/ (~in_recovery /\ chip'.started = chip.started /\ chip'.vifs = chip.vifs)
SameVifs    == in_recovery' \/ (~in_recovery /\ chip'.vifs = chip.vifs)
SameChipSta == in_recovery' \/ (chip'.join \subseteq chip.join /\ chip'.stas = chip.stas)

FewerRequests ==
  /\ scan_request' \in {scan_request, None} /\ cac_vif' \in {cac_vif, None}
  /\ roc' = None \/ (roc # None /\ roc'.vif = roc.vif)

SameCsa    == on'["csa"] = on["csa"] /\ \A v \in Vif : vif'[v].csa = vif[v].csa
SameSwitch == todo'["csa"] = todo["csa"] /\ SameCsa

\* An interface stays where the steps left need it when no interface moves.
LEMMA PlaceKept ==
  ASSUME Place, Ups, NEW h, h \notin Leaving, Quiet(h), SameIfaces
  PROVE  Place'
<1> USE DEF Quiet
<1>1. (U # {} => me \in Vif)'
  BY DEF Place, SameUser
<1>2. CASE \A s \in Marks : s \notin U'
  BY <1>1, <1>2 DEF Place, Marks, NeedUp, Opening, Changing, Leaving, Asking
<1>3. CASE \E s \in Marks : s \in U'
  <2>1. me' = me /\ me \in Vif
    BY <1>3 DEF SameUser, Quieter, Place
  <2>2. \A s \in Marks : (s \in U' /\ s \notin Begun => s \in U) /\ (s # h /\ s \in U => s \in U')
    BY <1>3 DEF Quieter
  <2>a. (Opening \cup NeedUp \cup Changing \cup {"add_sta", "csa_req", "unregistered", "dev_reset"}) \cap Begun = {}
    BY DEF Opening, NeedUp, Changing, Leaving, Asking, Begun
  <2>b. /\ \A s \in Opening \cup NeedUp \cup Changing \cup {"add_sta", "csa_req", "unregistered", "dev_reset"} : s \in U' => s \in U
        /\ Leaving \subseteq NeedUp /\ Asking \subseteq NeedUp /\ "ap_start" \in NeedUp
    BY <2>2, <2>a DEF Marks, NeedUp
  <2>3. At("user", "closed") => At("user", "closed")'
    BY DEF Quieter
  <2>4. /\ vif'[me].reg = vif[me].reg /\ vif'[me].type = vif[me].type /\ vif'[me].up = vif[me].up
        /\ stack'.ap = stack.ap /\ vif_started' = vif_started
    BY <2>1 DEF SameIfaces
  <2>5. (U \cap Opening # {} => vif[me].reg /\ ~vif[me].up)'
    BY <2>1, <2>2, <2>4 DEF Begun, Place, Marks, Opening
  <2>6. (U \cap NeedUp # {} => vif[me].up)' /\ (U \cap Changing # {} => ~vif[me].up)'
    BY <2>1, <2>b, <2>4 DEF Place
  <2>7. (U \cap Asking # {} => vif[me].type = "sta")' /\ ("ap_start" \in U => vif[me].type = "ap")'
    BY <2>1, <2>b, <2>4 DEF Place
  <2>8. (U \cap {"add_sta", "csa_req"} # {} => me \in stack.ap)' /\ (U \cap Leaving # {} => me \notin stack.ap)'
    BY <2>1, <2>b, <2>4 DEF Place
  <2>9. ("unregistered" \in U => ~vif[me].up \/ "closed" \in U)' /\ ("dev_reset" \in U => vif_started = 0)'
    BY <2>1, <2>2, <2>4 DEF Begun, Place, Marks, NeedUp, Leaving
  <2>10. ("closed" \in U => "if_remove" \in U \/ At("user", "closed"))'
    BY <2>2, <2>3 DEF Begun, Place, Marks, NeedUp, Leaving
  <2> QED BY <1>1, <2>5, <2>6, <2>7, <2>8, <2>9, <2>10 DEF Place
<1> QED BY <1>2, <1>3

\* The interfaces that are open stay registered when no interface moves.
LEMMA UpsKept ==
  ASSUME Ups, SameIfaces
  PROVE  Ups'
BY DEF Ups, SameIfaces

\* The count of open interfaces stays right when no interface moves.
LEMMA CountedKept ==
  ASSUME Counted, SameIfaces
  PROVE  Counted'
<1>1. {v \in Vif : vif'[v].up} = {v \in Vif : vif[v].up} /\ vif_started' = vif_started
  BY DEF SameIfaces
<1> QED BY <1>1 DEF Counted

\* Whoever holds an index held it before, and goes as far as before.
LEMMA HeldKept ==
  ASSUME Place, NEW h, h \notin Leaving \cup {"if_add"}, Quiet(h), SameIfaces, NEW v \in Vif
  PROVE  (Held(v)' => Held(v)) /\ (Going(v) => Going(v)' \/ ~Held(v)')
<1>1. {"opened", "if_add", "closed", "if_remove"} \subseteq Marks /\ h \notin {"if_add", "closed", "if_remove"}
  BY DEF Marks, Opening, NeedUp, Leaving
<1>2. ASSUME Held(v)' PROVE Held(v)
  <2>1. CASE vif'[v].up
    BY <2>1 DEF Held, SameIfaces
  <2>2. CASE me' = v /\ "opened" \in U' /\ "if_add" \notin U'
    BY <2>2, <1>1 DEF Held, Quiet, Quieter, SameUser, Begun
  <2> QED BY <1>2, <2>1, <2>2 DEF Held
<1>3. ASSUME Going(v) PROVE Going(v)' \/ ~Held(v)'
  <2>1. At("user", "closed") /\ "closed" \in U /\ "if_remove" \notin U /\ me = v
    BY <1>3 DEF Going, Place
  <2>2. me' = me /\ "if_remove" \notin U'
    BY <2>1, <1>1 DEF Quiet, Quieter, SameUser, Begun
  <2>3. CASE "closed" \in U'
    BY <2>1, <2>2, <2>3 DEF Going
  <2>4. CASE "closed" \notin U'
    BY <2>4, <2>1 DEF Quiet, Quieter
  <2> QED BY <2>3, <2>4
<1> QED BY <1>2, <1>3


\* The indices stay apart when no interface moves.
LEMMA IndicesKept ==
  ASSUME Place, Indices, NEW h, h \notin Leaving \cup {"if_add"}, Quiet(h), SameIfaces
  PROVE  Indices'
<1>1. \A v \in Vif : (Held(v)' => Held(v)) /\ vif'[v].idx = vif[v].idx /\ vif'[v].up = vif[v].up
  BY HeldKept DEF SameIfaces
<1>2. \A v \in Vif : Held(v)' => vif'[v].idx \in VifIndex
  BY <1>1 DEF Indices
<1>3. \A v \in Vif : vif'[v].up => vif_table'[vif'[v].idx] = v
  BY <1>1 DEF Indices, SameIfaces
<1>4. \A u, v \in Vif : Held(u)' /\ Held(v)' /\ u # v => vif'[u].idx # vif'[v].idx
  BY <1>1 DEF Indices
<1> QED BY <1>2, <1>3, <1>4 DEF Indices

\* The chip goes on knowing the interfaces when neither it nor they move.
LEMMA KnownKept ==
  ASSUME Place, Known, NEW h, h \notin Leaving \cup {"if_add", "dev_start"}, Quiet(h), SameIfaces, SameChip
  PROVE  Known'
<1> SUFFICES ASSUME ~in_recovery'
             PROVE  /\ \A v \in Vif : Held(v)' /\ ~Going(v)' => chip'.vifs[vif'[v].idx] = v /\ chip'.started
                    /\ U' \cap {"if_add", "opened"} # {} /\ "dev_start" \notin U' => chip'.started
  BY DEF Known
<1>1. ~in_recovery /\ chip'.started = chip.started /\ chip'.vifs = chip.vifs
  BY DEF SameChip
<1>2. \A v \in Vif : Held(v)' /\ ~Going(v)' => Held(v) /\ ~Going(v) /\ vif'[v].idx = vif[v].idx
  BY HeldKept DEF SameIfaces
<1>3. \A v \in Vif : Held(v)' /\ ~Going(v)' => chip'.vifs[vif'[v].idx] = v /\ chip'.started
  BY <1>1, <1>2 DEF Known
<1>4. {"dev_start", "if_add", "opened"} \subseteq Marks
  BY DEF Marks, Opening
<1>5. U' \cap {"if_add", "opened"} # {} /\ "dev_start" \notin U' => U \cap {"if_add", "opened"} # {} /\ "dev_start" \notin U
  BY <1>4 DEF Quiet, Quieter, Begun
<1> QED BY <1>1, <1>3, <1>5 DEF Known

\* An index the chip has forgotten stays without stations while the chip adds none.
LEMMA ForgottenKept ==
  ASSUME Forgotten, SameVifs, SameChipSta
  PROVE  Forgotten'
BY DEF Forgotten, SameVifs, SameChipSta

\* A list of stations stays the chip's when neither changes.
LEMMA ListedKept ==
  ASSUME Place, Listed, NEW h, h \notin Leaving \cup {"if_add", "del_stations"}, Quiet(h),
         SameIfaces, SameStas, SameVifs, SameChipSta
  PROVE  Listed'
<1> SUFFICES ASSUME ~in_recovery'
             PROVE  (/\ \A v \in Vif : vif[v].stas # {} => v \in stack.ap
                     /\ "ap_stopped" \in U /\ "del_stations" \notin U => vif[me].stas = {}
                     /\ \A v \in Vif : Held(v) /\ ~Going(v) /\ vif[v].type = "ap" =>
                          /\ vif[v].idx \notin chip.join
                          /\ vif[v].stas = {s \in StaIndex : chip.stas[s] = vif[v].idx})'
  BY DEF Listed
<1>1. ~in_recovery /\ chip'.join \subseteq chip.join /\ chip'.stas = chip.stas
  BY DEF SameVifs, SameChipSta
<1>2. \A v \in Vif : vif'[v].stas = vif[v].stas /\ vif'[v].idx = vif[v].idx /\ vif'[v].type = vif[v].type
  BY DEF SameStas, SameIfaces
<1>3. \A v \in Vif : Held(v)' /\ ~Going(v)' => Held(v) /\ ~Going(v)
  BY HeldKept
<1>4. \A v \in Vif : Held(v) /\ ~Going(v) /\ vif[v].type = "ap" =>
         vif[v].idx \notin chip.join /\ vif[v].stas = {s \in StaIndex : chip.stas[s] = vif[v].idx}
  BY <1>1 DEF Listed
<1>5. (\A v \in Vif : Held(v) /\ ~Going(v) /\ vif[v].type = "ap" =>
         vif[v].idx \notin chip.join /\ vif[v].stas = {s \in StaIndex : chip.stas[s] = vif[v].idx})'
  BY <1>1, <1>2, <1>3, <1>4
<1>6. (\A v \in Vif : vif[v].stas # {} => v \in stack.ap)'
  BY <1>1, <1>2 DEF Listed, SameIfaces
<1>7. ("ap_stopped" \in U /\ "del_stations" \notin U => vif[me].stas = {})'
  <2> SUFFICES ASSUME "ap_stopped" \in U', "del_stations" \notin U' PROVE vif'[me'].stas = {}
    OBVIOUS
  <2>1. {"ap_stopped", "del_stations"} \subseteq Marks
    BY DEF Marks
  <2>2. "ap_stopped" \in U /\ "del_stations" \notin U /\ me' = me
    BY <2>1 DEF Quiet, Quieter, SameUser, Begun
  <2>3. me \in Vif
    BY <2>2 DEF Place
  <2> QED BY <1>1, <1>2, <2>2, <2>3 DEF Listed
<1> QED BY <1>5, <1>6, <1>7

\* What the driver points to stays that of an open interface when nothing is asked for and
\* nothing is closed.
LEMMA OutlivesKept ==
  ASSUME Outlives, NEW h, h \notin {"scan_stop", "scan_clear", "cac_stop", "cac_end"}, Quiet(h),
         \A v \in Vif : vif'[v].up = vif[v].up, FewerRequests,
         scan_request \in Vif \cup {None}, cac_vif \in Vif \cup {None}, roc # None => roc.vif \in Vif
  PROVE  Outlives'
<1>1. NothingOutlivesItsInterface'
  BY DEF Outlives, NothingOutlivesItsInterface, IsUp, FewerRequests
<1>2. Leaving \cup {"scan_stop", "scan_clear", "cac_stop", "cac_end"} \subseteq Marks
  BY DEF Marks, NeedUp
<1>3. CASE \A s \in Marks : s \notin U'
  BY <1>1, <1>2, <1>3 DEF Outlives
<1>4. CASE \E s \in Marks : s \in U'
  <2>1. \A s \in Marks : (s \in U' /\ s \notin Begun => s \in U) /\ (s # h /\ s \in U => s \in U')
    BY <1>4 DEF Quiet, Quieter
  <2>2. U' \cap Leaving # {} => U \cap Leaving # {}
    BY <2>1, <1>2 DEF Leaving, Begun
  <2>3. U \cap {"scan_stop", "scan_clear"} # {} => U' \cap {"scan_stop", "scan_clear"} # {}
    BY <2>1, <1>2
  <2>4. U \cap {"cac_stop", "cac_end"} # {} => U' \cap {"cac_stop", "cac_end"} # {}
    BY <2>1, <1>2
  <2> QED BY <1>1, <2>2, <2>3, <2>4 DEF Outlives, FewerRequests
<1> QED BY <1>3, <1>4

\* The record of a channel switch stays with the work when neither is touched.
LEMMA SwitchKept ==
  ASSUME Place, Ups, Switch, NEW h, Quiet(h), SameSwitch
  PROVE  Switch'
<1>1. ("csa_req" \in U => vif[me].csa = "asked")'
  <2> SUFFICES ASSUME "csa_req" \in U' PROVE vif'[me'].csa = "asked"
    OBVIOUS
  <2>1. "csa_req" \in U /\ me' = me
    BY DEF Quiet, Quieter, SameUser, Marks, Begun
  <2>2. me \in Vif
    BY <2>1 DEF Place
  <2> QED BY <2>1, <2>2 DEF Switch, SameSwitch, SameCsa
<1>2. (todo["csa"] # <<>> /\ ~At("csa", "oops") => on["csa"] \in Vif /\ vif[on["csa"]].csa \notin {"none", "asked"})'
  BY DEF Switch, SameSwitch, SameCsa, At
<1> QED BY <1>1, <1>2 DEF Switch, SameSwitch, SameCsa


-----------------------------------------------------------------------------
(* Types, and the steps that disturb nothing else *)

IfaceTypes ==
  /\ vif \in [Vif -> VifType] /\ vif_table \in [VifIndex -> Vif \cup {None}]
  /\ avail_idx_map \subseteq VifIndex /\ sta_valid \subseteq StaIndex

RequestTypes ==
  /\ scan_request \in Vif \cup {None} /\ scan \in BOOLEAN
  /\ roc \in {None} \cup [vif : Vif, internal : BOOLEAN, on_chan : BOOLEAN, tx : BOOLEAN]
  /\ cac_vif \in Vif \cup {None} /\ cac_pending \in BOOLEAN
  /\ dfs_pending \in BOOLEAN /\ detect \in BOOLEAN /\ cac_status \in BOOLEAN

ChipTypes  == in_recovery \in BOOLEAN /\ chip \in ChipType
IndTypes   == indq \in Seq(Indication)
StackTypes == stack \in [scan : Vif \cup {None}, cac : SUBSET Vif, ap : SUBSET Vif]
OnTypes    == on \in [Thread -> Vif \cup {None}]

Types == IfaceTypes /\ RequestTypes /\ ChipTypes /\ IndTypes /\ StackTypes /\ OnTypes

\* The inductive invariant.
Inv == Types /\ UserLists /\ NetInv

Others == SameIfaces /\ SameStas /\ SameChip /\ SameChipSta /\ FewerRequests
Rest   == Others /\ SameCsa

\* The parts of the invariant about the interfaces, together.
LEMMA CoreKept ==
  ASSUME Inv, NEW h, h \notin Leaving \cup {"if_add", "dev_start"}, Quiet(h), SameIfaces, SameChip
  PROVE  Place' /\ Ups' /\ Counted' /\ Indices' /\ Known'
<1> USE DEF Inv, NetInv
<1>1. Place' /\ Ups' /\ Counted'
  BY PlaceKept, UpsKept, CountedKept
<1>2. Indices' /\ Known'
  BY IndicesKept, KnownKept
<1> QED BY <1>1, <1>2

\* The part of the invariant about pending requests, with the types it needs.
LEMMA RequestsKept ==
  ASSUME Inv, NEW h, h \notin {"scan_stop", "scan_clear", "cac_stop", "cac_end"}, Quiet(h), SameIfaces, FewerRequests
  PROVE  Outlives'
<1>1. \A v \in Vif : vif'[v].up = vif[v].up
  BY DEF SameIfaces
<1>2. scan_request \in Vif \cup {None} /\ cac_vif \in Vif \cup {None} /\ (roc # None => roc.vif \in Vif)
  BY DEF Inv, Types, RequestTypes
<1> QED BY <1>1, <1>2, OutlivesKept DEF Inv, NetInv

\* The steps some part of the invariant waits for.
Disturbing == Leaving \cup {"if_add", "dev_start", "del_stations", "scan_stop", "scan_clear", "cac_stop", "cac_end"}

\* A step that no part of the invariant asks for disturbs none.
LEMMA UnmarkedRests ==
  ASSUME NEW h, h \notin Marks
  PROVE  h \notin Disturbing
BY DEF Disturbing, Marks, NeedUp, Opening

\* A step that disturbs nothing keeps the invariant if it keeps the record of the switch.
LEMMA OthersKept ==
  ASSUME Inv, Types', UserLists', NEW h, h \notin Disturbing, Quiet(h), Others, Switch'
  PROVE  Inv'
<1> USE DEF Inv, NetInv, Others
<1>1. h \notin Leaving \cup {"if_add", "dev_start", "del_stations", "scan_stop", "scan_clear", "cac_stop", "cac_end"}
  BY DEF Disturbing
<1>2. Place' /\ Ups' /\ Counted' /\ Indices' /\ Known'
  BY <1>1, CoreKept
<1>3. SameVifs
  BY DEF SameChip, SameVifs
<1>4. Forgotten' /\ Listed'
  BY <1>1, <1>3, ForgottenKept, ListedKept
<1>5. Outlives'
  BY <1>1, RequestsKept
<1> QED BY <1>2, <1>4, <1>5

\* A step that disturbs nothing keeps the invariant.
LEMMA RestKeeps ==
  ASSUME Inv, Types', UserLists', NEW h, h \notin Marks, Quiet(h), Rest, todo'["csa"] = todo["csa"]
  PROVE  Inv'
<1>1. Switch'
  BY SwitchKept DEF SameSwitch, Rest, Inv, NetInv
<1> QED BY <1>1, UnmarkedRests, OthersKept DEF Rest

\* So does the step of a call that is then done.
LEMMA DoneKeeps ==
  ASSUME Inv, NEW h, h \notin Marks, At("user", h), Done("user"), on'["user"] = on["user"], Types', Rest
  PROVE  Inv'
<1>1. h # "closed" /\ UserLists
  BY DEF Marks, NeedUp, Leaving, Inv
<1>2. UserLists' /\ Quiet(h) /\ todo'["csa"] = todo["csa"]
  BY <1>1, UserDone
<1> QED BY <1>2, RestKeeps

\* So does the step that ends the call.
LEMMA EndKeeps ==
  ASSUME Inv, NEW h, h # "closed", At("user", h), Return("user") \/ Oops("user"), on'["user"] = on["user"], Types', Rest
  PROVE  Inv'
<1>1. UserLists
  BY DEF Inv
<1>2. UserLists' /\ Quiet("set") /\ todo'["csa"] = todo["csa"]
  BY <1>1, UserEnds
<1>3. "set" \notin Marks
  BY DEF Marks, NeedUp, Opening, Changing, Leaving, Asking
<1> QED BY <1>2, <1>3, RestKeeps

\* So does a step of another thread, but for the work of the channel switch.
LEMMA OtherKeeps ==
  ASSUME Inv, NEW t \in Thread \ {"user", "csa"}, NEW x, todo' = [todo EXCEPT ![t] = x], on'["user"] = on["user"],
         Types', Rest
  PROVE  Inv'
<1>1. UserLists /\ t \in Thread \ {"user"} /\ t # "csa"
  BY DEF Inv
<1>2. UserLists' /\ Quiet("set") /\ todo'["csa"] = todo["csa"]
  BY <1>1, OtherMoves
<1>3. "set" \notin Marks
  BY DEF Marks, NeedUp, Opening, Changing, Leaving, Asking
<1> QED BY <1>2, <1>3, RestKeeps

\* So does a step that no thread makes: a report of the chip, the stack's own.
LEMMA TodoKeeps ==
  ASSUME Inv, todo' = todo, on'["user"] = on["user"], Types', Rest
  PROVE  Inv'
<1>1. UserLists' /\ Quiet("set")
  BY UserWaits DEF Inv
<1>2. "set" \notin Marks
  BY DEF Marks, NeedUp, Opening, Changing, Leaving, Asking
<1> QED BY <1>1, <1>2, RestKeeps

\* A chip after its reset is a chip.
LEMMA ChipOffTyped == ChipOff \in ChipType
BY DEF ChipOff, ChipType

\* A request that is answered, lost or never sent leaves the chip a chip.
LEMMA AskTyped ==
  ASSUME Types, NEW e \in ChipType, Ask(e) \/ NoMemory
  PROVE  ChipTypes'
BY ChipOffTyped DEF Types, ChipTypes, Ask, Answered, NotAnswered, NoMemory

\* The chip keeps what counts.
SameOf(e) == e.started = chip.started /\ e.vifs = chip.vifs /\ e.stas = chip.stas /\ e.join \subseteq chip.join

\* A request whose effect changes nothing that counts changes nothing that counts, whatever
\* becomes of it: the reset begins a recovery, in which nothing is claimed of the chip.
LEMMA AskQuiet ==
  ASSUME Types, NEW e \in ChipType, SameOf(e), Ask(e) \/ NoMemory
  PROVE  ChipTypes' /\ SameChip /\ SameChipSta
BY AskTyped DEF Types, ChipTypes, Ask, Answered, NotAnswered, NoMemory, SameChip, SameChipSta, SameOf


\* The steps that no part of the invariant asks for.
LEMMA Unmarked ==
  \A s \in {"me_config", "chan_config", "scan_start", "scan_cancel", "scan_wait", "scan_test", "scan_report",
            "scan_gate", "roc_req", "roc_internal", "roc_tx", "roc_cancel", "ap_stop", "del_one", "cac_start",
            "cac_stop_req", "csa_init", "set"} : s \notin Marks
BY DEF Marks, NeedUp, Opening, Changing, Leaving, Asking

\* All but the chip, its indications and what the threads do.
sameVars == <<netVars, sta_valid, scanVars, roc, cacVars, dfsVars, stack, on>>

\* When nothing but the chip changes and it keeps what counts, nothing is disturbed.
LEMMA SameRest ==
  ASSUME Types, UNCHANGED sameVars, ChipTypes', IndTypes', SameChip, SameChipSta
  PROVE  Types' /\ Rest /\ on'["user"] = on["user"]
<1> USE DEF sameVars, netVars, scanVars, cacVars, dfsVars
<1>1. Types'
  BY DEF Types, IfaceTypes, RequestTypes, StackTypes, OnTypes
<1>2. Rest
  BY DEF Rest, Others, SameIfaces, SameStas, FewerRequests, SameCsa
<1> QED BY <1>1, <1>2

\* A quiet request keeps the invariant.
LEMMA AskDone ==
  ASSUME Inv, NEW h, h \notin Marks, At("user", h), Done("user"),
         UNCHANGED sameVars, indq' = indq \/ IndTypes',
         NEW e \in ChipType, SameOf(e), Ask(e) \/ NoMemory
  PROVE  Inv'
<1>1. ChipTypes' /\ SameChip /\ SameChipSta /\ IndTypes'
  BY AskQuiet DEF Inv, Types, IndTypes
<1>2. Types' /\ Rest /\ on'["user"] = on["user"]
  BY <1>1, SameRest DEF Inv
<1> QED BY <1>2, DoneKeeps

\* A call that gives up on a request keeps the invariant.
LEMMA AskReturn ==
  ASSUME Inv, NEW h, h # "closed", At("user", h), Return("user"),
         UNCHANGED sameVars, indq' = indq, NotAnswered \/ NoMemory
  PROVE  Inv'
<1>1. chip \in ChipType /\ SameOf(chip) /\ (Ask(chip) \/ NoMemory)
  BY DEF Inv, Types, ChipTypes, SameOf, Ask
<1>2. ChipTypes' /\ SameChip /\ SameChipSta /\ IndTypes'
  BY <1>1, AskQuiet DEF Inv, Types, IndTypes
<1>3. Types' /\ Rest /\ on'["user"] = on["user"]
  BY <1>2, SameRest DEF Inv
<1> QED BY <1>3, EndKeeps

\* The steps that are a quiet request keep the invariant.
LEMMA AsksKeep ==
  ASSUME Inv, \/ MeConfig \/ ChanConfig \/ ScanStart \/ ScanCancel \/ RocCancel \/ ApStop \/ Set
              \/ CacStopReq("user")
  PROVE  Inv'
<1>0. chip \in ChipType /\ SameOf(chip)
  BY DEF Inv, Types, ChipTypes, SameOf
<1>1. CASE MeConfig
  BY <1>0, <1>1, Unmarked, AskDone DEF MeConfig, sameVars
<1>2. CASE ChanConfig
  BY <1>0, <1>2, Unmarked, AskDone DEF ChanConfig, sameVars
<1>3. CASE ScanStart
  <2> DEFINE e == [chip EXCEPT !.scan = TRUE]
  <2>1. e \in ChipType /\ SameOf(e)
    BY <1>0 DEF ChipType, SameOf
  <2> HIDE DEF e
  <2>2. At("user", "scan_start") /\ UNCHANGED sameVars /\ indq' = indq
    BY <1>3 DEF ScanStart, sameVars
  <2>3. (Answered(e) /\ Done("user")) \/ (NotAnswered /\ Return("user"))
    BY <1>3 DEF ScanStart, AskOrReturn, e
  <2> QED BY <2>1, <2>2, <2>3, Unmarked, AskDone, AskReturn DEF Ask
<1>4. CASE ScanCancel
  <2>1. PICK s \in {FALSE, chip.scan} : Ask([chip EXCEPT !.scan = s]) \/ NoMemory
    BY <1>4 DEF ScanCancel
  <2> DEFINE e == [chip EXCEPT !.scan = s]
  <2>2. e \in ChipType /\ SameOf(e)
    BY <1>0 DEF ChipType, SameOf
  <2>3. Ask(e) \/ NoMemory
    BY <2>1
  <2> HIDE DEF e
  <2>4. At("user", "scan_cancel") /\ Done("user") /\ UNCHANGED sameVars
    BY <1>4 DEF ScanCancel, sameVars
  <2>5. indq' \in {indq, Append(indq, [is |-> "scan"])}
    BY <1>4 DEF ScanCancel
  <2>6. IndTypes'
    BY <2>5 DEF Inv, Types, IndTypes, Indication
  <2> QED BY <2>2, <2>3, <2>4, <2>6, Unmarked, AskDone
<1>5. CASE RocCancel
  <2> DEFINE e == [chip EXCEPT !.roc = "off"]
  <2>1. e \in ChipType /\ SameOf(e)
    BY <1>0 DEF ChipType, SameOf
  <2> HIDE DEF e
  <2>2. At("user", "roc_cancel") /\ Done("user") /\ UNCHANGED sameVars /\ Ask(e)
    BY <1>5 DEF RocCancel, sameVars, e
  <2>3. indq' \in {indq, Append(indq, [is |-> "roc_exp"])}
    BY <1>5 DEF RocCancel
  <2>4. IndTypes'
    BY <2>3 DEF Inv, Types, IndTypes, Indication
  <2> QED BY <2>1, <2>2, <2>4, Unmarked, AskDone
<1>6. CASE ApStop
  <2> DEFINE e == [chip EXCEPT !.csa = @ \ {vif[me].idx}]
  <2>1. e \in ChipType /\ SameOf(e)
    BY <1>0 DEF ChipType, SameOf
  <2> HIDE DEF e
  <2>2. At("user", "ap_stop") /\ Done("user") /\ UNCHANGED sameVars /\ indq' = indq /\ Ask(e)
    BY <1>6 DEF ApStop, sameVars, e
  <2> QED BY <2>1, <2>2, Unmarked, AskDone
<1>7. CASE Set
  <2>1. At("user", "set") /\ UNCHANGED sameVars /\ indq' = indq
    BY <1>7 DEF Set, sameVars
  <2>2. (Answered(chip) /\ Done("user")) \/ ((NoMemory \/ NotAnswered) /\ Return("user"))
    BY <1>7 DEF Set
  <2> QED BY <1>0, <2>1, <2>2, Unmarked, AskDone, AskReturn DEF Ask
<1>8. CASE CacStopReq("user")
  <2>1. At("user", "cac_stop_req") /\ UNCHANGED sameVars /\ indq' = indq
    BY <1>8 DEF CacStopReq, sameVars
  <2>2. CASE cac_vif = None
    <3>1. Oops("user") /\ UNCHANGED <<chip, in_recovery>>
      BY <1>8, <2>2 DEF CacStopReq
    <3>2. ChipTypes' /\ IndTypes' /\ SameChip /\ SameChipSta
      BY <2>1, <3>1 DEF Inv, Types, ChipTypes, IndTypes, SameChip, SameChipSta
    <3> QED BY <2>1, <3>1, <3>2, SameRest, EndKeeps DEF Inv
  <2>3. CASE cac_vif # None
    <3>1. Ask(chip) /\ Done("user")
      BY <1>8, <2>3 DEF CacStopReq
    <3> QED BY <1>0, <2>1, <3>1, Unmarked, AskDone
  <2> QED BY <2>2, <2>3
<1> QED BY <1>1, <1>2, <1>3, <1>4, <1>5, <1>6, <1>7, <1>8


\* All but the pending requests and what the threads do.
requestFree == <<netVars, sta_valid, chipVars, on>>

\* Steps that touch neither an interface nor the chip.
LEMMA RequestRest ==
  ASSUME Types, UNCHANGED requestFree, RequestTypes', StackTypes', stack'.ap = stack.ap, FewerRequests
  PROVE  Types' /\ Rest /\ on'["user"] = on["user"]
<1> USE DEF requestFree, netVars, chipVars
<1>1. Types'
  BY DEF Types, IfaceTypes, ChipTypes, IndTypes, OnTypes
<1>2. SameChip /\ SameChipSta
  BY DEF SameChip, SameChipSta, Types, ChipTypes
<1>3. Rest
  BY <1>2 DEF Rest, Others, SameIfaces, SameStas, SameCsa
<1> QED BY <1>1, <1>3

\* A step that only drops a pending request keeps the invariant.
LEMMA RequestDone ==
  ASSUME Inv, NEW h, h \notin Marks, At("user", h), Done("user"), UNCHANGED requestFree,
         RequestTypes', StackTypes', stack'.ap = stack.ap, FewerRequests
  PROVE  Inv'
BY RequestRest, DoneKeeps DEF Inv

\* Requests that stay are of their types, and no more than before.
LEMMA RequestsSame ==
  ASSUME Types, UNCHANGED <<scanVars, roc, cacVars, dfsVars>>
  PROVE  RequestTypes' /\ FewerRequests
BY DEF Types, RequestTypes, FewerRequests, scanVars, cacVars, dfsVars

\* The steps that end a scan keep the invariant, but those that clear the pointer.
LEMMA ScansKeep ==
  ASSUME Inv, ScanWait \/ ScanTest("user") \/ ScanReport("user") \/ ScanGate("user")
  PROVE  Inv'
<1>0. Types /\ UserLists
  BY DEF Inv
<1>1. CASE ScanWait
  <2>1. At("user", "scan_wait") /\ Done("user") /\ UNCHANGED requestFree /\ UNCHANGED stack
    BY <1>1 DEF ScanWait, requestFree
  <2>2. RequestTypes' /\ FewerRequests
    BY <1>0, <1>1, RequestsSame DEF ScanWait
  <2>3. StackTypes'
    BY <2>1, <1>0 DEF Types, StackTypes
  <2> QED BY <2>1, <2>2, <2>3, Unmarked, RequestDone
<1>2. CASE ScanTest("user")
  <2> DEFINE l == IF scan_request # None THEN <<"scan_report">> ELSE <<>>
  <2>1. At("user", "scan_test") /\ Then("user", l) /\ UNCHANGED requestFree /\ UNCHANGED stack
    BY <1>2 DEF ScanTest, requestFree
  <2>2. "scan_report" \in UserStep \ Special
    BY DEF UserStep, Special, Last
  <2>3. l \in Seq(UserStep \ Special) /\ Steps(l) \subseteq {"scan_report"}
    <3>1. l = <<"scan_report">> \/ l = <<>>
      OBVIOUS
    <3>2. Steps(<<"scan_report">>) = {"scan_report"} /\ Steps(<<>>) = {}
      BY NoStep, OneStep DEF UserStep
    <3>3. <<"scan_report">> \in Seq(UserStep \ Special) /\ <<>> \in Seq(UserStep \ Special)
      BY <2>2
    <3> HIDE DEF l
    <3> QED BY <3>1, <3>2, <3>3
  <2> HIDE DEF l
  <2>4. UserLists' /\ todo'["csa"] = todo["csa"] /\ "scan_test" \in U
    BY <1>0, <2>1, <2>3, UserThen DEF requestFree
  <2>5. PICK R : U = {"scan_test"} \cup Steps(R) /\ U' = Steps(l) \cup Steps(R)
    BY <1>0, <2>1, <2>3, UserThen DEF requestFree
  <2>6. "scan_test" \notin Marks /\ "scan_report" \notin Marks
    BY Unmarked
  <2>7. \A s \in Marks : s \in U' <=> s \in U
    BY <2>3, <2>5, <2>6
  <2>8. ~At("user", "closed")
    BY <2>1 DEF At
  <2>9. Quiet("scan_test")
    BY <2>1, <2>4, <2>7, <2>8 DEF Quiet, Quieter, SameUser, me, requestFree
  <2>10. RequestTypes' /\ FewerRequests
    BY <1>0, <1>2, RequestsSame DEF ScanTest
  <2>11. StackTypes'
    BY <2>1, <1>0 DEF Types, StackTypes
  <2>12. Types' /\ Rest
    BY <1>0, <2>1, <2>10, <2>11, RequestRest
  <2> QED BY <2>4, <2>6, <2>9, <2>12, RestKeeps
<1>3. CASE ScanReport("user")
  <2>1. At("user", "scan_report") /\ UNCHANGED requestFree /\ stack' = [stack EXCEPT !.scan = None]
    BY <1>3 DEF ScanReport, requestFree
  <2>2. RequestTypes' /\ FewerRequests
    BY <1>0, <1>3, RequestsSame DEF ScanReport
  <2>3. StackTypes' /\ stack'.ap = stack.ap
    BY <2>1, <1>0 DEF Types, StackTypes
  <2>4. Oops("user") \/ Done("user")
    BY <1>3 DEF ScanReport
  <2>5. Types' /\ Rest /\ on'["user"] = on["user"]
    BY <1>0, <2>1, <2>2, <2>3, RequestRest
  <2> QED BY <2>1, <2>4, <2>5, Unmarked, DoneKeeps, EndKeeps
<1>4. CASE ScanGate("user")
  <2>1. At("user", "scan_gate") /\ Done("user") /\ UNCHANGED requestFree /\ UNCHANGED stack
    BY <1>4 DEF ScanGate, requestFree
  <2>2. scan' = FALSE /\ UNCHANGED <<scan_request, roc, cacVars, dfsVars>>
    BY <1>4 DEF ScanGate
  <2>3. RequestTypes' /\ FewerRequests
    BY <1>0, <2>2 DEF Types, RequestTypes, FewerRequests, cacVars, dfsVars
  <2>4. StackTypes'
    BY <2>1, <1>0 DEF Types, StackTypes
  <2> QED BY <2>1, <2>3, <2>4, Unmarked, RequestDone
<1> QED BY <1>1, <1>2, <1>3, <1>4

Roc == [vif : Vif, internal : BOOLEAN, on_chan : BOOLEAN, tx : BOOLEAN]

\* The steps of a stay on a channel keep the invariant.
LEMMA RocsKeep ==
  ASSUME Inv, RocReq \/ RocInternal \/ RocTx
  PROVE  Inv'
<1>0. Types /\ UserLists /\ chip \in ChipType
  BY DEF Inv, Types, ChipTypes
<1>1. CASE RocReq
  <2> DEFINE e == [chip EXCEPT !.roc = "asked"]
  <2>1. e \in ChipType /\ SameOf(e)
    BY <1>0 DEF ChipType, SameOf
  <2> HIDE DEF e
  <2>2. /\ At("user", "roc_req") /\ UNCHANGED <<netVars, sta_valid, scanVars, cacVars, dfsVars, indq, stack, on>>
        /\ (Answered(e) /\ Done("user") /\ UNCHANGED roc) \/ (NotAnswered /\ Return("user") /\ roc' = None)
    BY <1>1 DEF RocReq, e
  <2>3. ChipTypes' /\ SameChip /\ SameChipSta
    BY <1>0, <2>1, <2>2, AskQuiet DEF Ask
  <2>4. RequestTypes' /\ FewerRequests
    BY <1>0, <2>2 DEF Types, RequestTypes, FewerRequests, scanVars, cacVars, dfsVars
  <2>5. Types'
    BY <1>0, <2>2, <2>3, <2>4 DEF Types, IfaceTypes, IndTypes, StackTypes, OnTypes, netVars
  <2>6. Rest
    BY <2>2, <2>3, <2>4 DEF Rest, Others, SameIfaces, SameStas, SameCsa, netVars
  <2>7. on'["user"] = on["user"] /\ "roc_req" # "closed"
    BY <2>2
  <2> QED BY <2>2, <2>5, <2>6, <2>7, Unmarked, DoneKeeps, EndKeeps
<1>2. CASE RocInternal \/ RocTx
  <2>1. PICK h \in {"roc_internal", "roc_tx"} : At("user", h)
    BY <1>2 DEF RocInternal, RocTx
  <2>2. /\ UNCHANGED requestFree /\ UNCHANGED <<scanVars, cacVars, dfsVars, stack>>
        /\ \/ Oops("user") /\ UNCHANGED roc
           \/ Done("user") /\ roc # None /\ roc' \in {[roc EXCEPT !.internal = TRUE], [roc EXCEPT !.tx = TRUE]}
    BY <1>2 DEF RocInternal, RocTx, requestFree
  <2>3. roc \in {None} \cup Roc
    BY <1>0 DEF Types, RequestTypes, Roc
  <2>4. roc' = None \/ (roc # None /\ roc' \in Roc /\ roc'.vif = roc.vif)
    BY <2>2, <2>3 DEF Roc
  <2>5. RequestTypes' /\ FewerRequests
    BY <1>0, <2>2, <2>4 DEF Types, RequestTypes, FewerRequests, Roc, scanVars, cacVars, dfsVars
  <2>6. StackTypes'
    BY <1>0, <2>2 DEF Types, StackTypes
  <2>7. Types' /\ Rest /\ on'["user"] = on["user"]
    BY <1>0, <2>2, <2>5, <2>6, RequestRest
  <2>8. h \notin Marks /\ h # "closed"
    BY Unmarked
  <2> QED BY <2>1, <2>2, <2>7, <2>8, DoneKeeps, EndKeeps
<1> QED BY <1>1, <1>2

\* Interfaces of which nothing but channel, carrier or station changes.
SameRecord(r, w) ==
  /\ r.reg = w.reg /\ r.type = w.type /\ r.up = w.up /\ r.idx = w.idx /\ r.stas = w.stas /\ r.csa = w.csa

SameView == \A v \in Vif : SameRecord(vif'[v], vif[v])

\* A record keeps what the invariant sees when its channel, carrier or AP is set.
LEMMA RecordKept ==
  ASSUME NEW w \in VifType, NEW c \in BOOLEAN, NEW k \in BOOLEAN, NEW a \in StaIndex \cup {None},
         NEW r \in {[w EXCEPT !.chan = c], [w EXCEPT !.carrier = k], [w EXCEPT !.ap = a]}
  PROVE  r \in VifType /\ SameRecord(r, w)
<1>1. CASE r = [w EXCEPT !.chan = c]
  BY <1>1 DEF VifType, SameRecord
<1>2. CASE r = [w EXCEPT !.carrier = k]
  BY <1>2 DEF VifType, SameRecord
<1>3. CASE r = [w EXCEPT !.ap = a]
  BY <1>3 DEF VifType, SameRecord
<1> QED BY <1>1, <1>2, <1>3

\* So do the interfaces, when the record of one is replaced by one that the invariant sees
\* as the same.
LEMMA OneChanged ==
  ASSUME vif \in [Vif -> VifType], NEW x, NEW r, x \in Vif => r \in VifType /\ SameRecord(r, vif[x]),
         vif' = [vif EXCEPT ![x] = r]
  PROVE  vif' \in [Vif -> VifType] /\ SameView
<1>1. \A v \in Vif : vif'[v] = IF v = x THEN r ELSE vif[v]
  OBVIOUS
<1>2. vif' \in [Vif -> VifType]
  OBVIOUS
<1>3. \A v \in Vif : SameRecord(vif[v], vif[v])
  BY DEF SameRecord
<1> QED BY <1>1, <1>2, <1>3 DEF SameView

\* The channel is not seen.
LEMMA SetChan ==
  ASSUME vif \in [Vif -> VifType], NEW x, NEW c, x \in Vif => c \in BOOLEAN, vif' = [vif EXCEPT ![x].chan = c]
  PROVE  vif' \in [Vif -> VifType] /\ SameView
<1> DEFINE r == [vif[x] EXCEPT !.chan = c]
<1>1. x \in Vif => r \in VifType /\ SameRecord(r, vif[x])
  BY RecordKept
<1>2. vif' = [vif EXCEPT ![x] = r]
  OBVIOUS
<1> HIDE DEF r
<1> QED BY <1>1, <1>2, OneChanged


\* The carrier is not seen.
LEMMA SetCarrier ==
  ASSUME vif \in [Vif -> VifType], NEW x, vif' = [vif EXCEPT ![x].carrier = TRUE]
  PROVE  vif' \in [Vif -> VifType] /\ SameView
<1> DEFINE r == [vif[x] EXCEPT !.carrier = TRUE]
<1>1. x \in Vif => r \in VifType /\ SameRecord(r, vif[x])
  BY RecordKept
<1>2. vif' = [vif EXCEPT ![x] = r]
  OBVIOUS
<1> HIDE DEF r
<1> QED BY <1>1, <1>2, OneChanged

\* The peer of a station is not seen.
LEMMA SetStation ==
  ASSUME vif \in [Vif -> VifType], NEW x, NEW s \in StaIndex, vif' = [vif EXCEPT ![x].ap = s]
  PROVE  vif' \in [Vif -> VifType] /\ SameView
<1> DEFINE r == [vif[x] EXCEPT !.ap = s]
<1>1. x \in Vif => r \in VifType /\ SameRecord(r, vif[x])
  BY RecordKept
<1>2. vif' = [vif EXCEPT ![x] = r]
  OBVIOUS
<1> HIDE DEF r
<1> QED BY <1>1, <1>2, OneChanged

\* Channel and carrier together are not seen.
LEMMA SetBoth ==
  ASSUME vif \in [Vif -> VifType], NEW x, NEW c, x \in Vif => c \in BOOLEAN,
         vif' = [vif EXCEPT ![x].chan = c, ![x].carrier = TRUE]
  PROVE  vif' \in [Vif -> VifType] /\ SameView
<1> DEFINE r1 == [vif[x] EXCEPT !.chan = c]
           r2 == [r1 EXCEPT !.carrier = TRUE]
<1>1. x \in Vif => r1 \in VifType /\ SameRecord(r1, vif[x])
  BY RecordKept
<1>2. vif' = [vif EXCEPT ![x] = r2]
  OBVIOUS
<1> HIDE DEF r1
<1>3. x \in Vif => r2 \in VifType /\ SameRecord(r2, r1)
  BY <1>1, RecordKept
<1> HIDE DEF r2
<1>4. x \in Vif => r2 \in VifType /\ SameRecord(r2, vif[x])
  BY <1>1, <1>3 DEF SameRecord
<1> QED BY <1>2, <1>4, OneChanged

LosesStation(x) == vif' = [vif EXCEPT ![x].carrier = FALSE, ![x].ap = None, ![x].chan = FALSE]

\* The loss of the peer of a station is not seen.
LEMMA LoseStation ==
  ASSUME vif \in [Vif -> VifType], NEW x, LosesStation(x)
  PROVE  vif' \in [Vif -> VifType] /\ SameView
<1> DEFINE r1 == [vif[x] EXCEPT !.carrier = FALSE]
           r2 == [r1 EXCEPT !.ap = None]
           r3 == [r2 EXCEPT !.chan = FALSE]
<1>1. x \in Vif => r1 \in VifType /\ SameRecord(r1, vif[x])
  BY RecordKept
<1>2. vif' = [vif EXCEPT ![x] = r3]
  BY DEF LosesStation
<1> HIDE DEF r1
<1>3. x \in Vif => r2 \in VifType /\ SameRecord(r2, r1)
  BY <1>1, RecordKept
<1> HIDE DEF r2
<1>4. x \in Vif => r3 \in VifType /\ SameRecord(r3, r2)
  BY <1>1, <1>3, RecordKept
<1> HIDE DEF r3
<1>5. x \in Vif => r3 \in VifType /\ SameRecord(r3, vif[x])
  BY <1>1, <1>3, <1>4 DEF SameRecord
<1> QED BY <1>2, <1>5, OneChanged

\* The steps of any thread that change such things of interfaces.
LEMMA ViewRest ==
  ASSUME Types, vif' \in [Vif -> VifType], SameView,
         UNCHANGED <<vif_table, vif_started, avail_idx_map, on>>, sta_valid' \subseteq StaIndex,
         RequestTypes', FewerRequests, ChipTypes', SameChip, SameChipSta, IndTypes', StackTypes', stack'.ap = stack.ap
  PROVE  Types' /\ Rest
<1>1. Types'
  BY DEF Types, IfaceTypes, OnTypes
<1>2. SameIfaces /\ SameStas /\ SameCsa
  BY DEF SameIfaces, SameStas, SameCsa, SameView, SameRecord
<1> QED BY <1>1, <1>2 DEF Rest, Others

\* cac_start keeps the invariant, answered or not.
LEMMA CacStartKeeps ==
  ASSUME Inv, CacStart
  PROVE  Inv'
<1>0. Types /\ UserLists /\ chip \in ChipType /\ vif \in [Vif -> VifType]
  BY DEF Inv, Types, ChipTypes, IfaceTypes
<1>1. At("user", "cac_start") /\ Done("user") /\ UNCHANGED <<vif_table, vif_started, avail_idx_map, on, sta_valid, indq>>
  BY DEF CacStart
<1>2. me \in Vif
  BY <1>0, <1>1, HeadIn DEF Inv, NetInv, Place
<1>3. Ask(chip) \/ NoMemory
  BY DEF CacStart, Ask
<1>4. ChipTypes' /\ SameChip /\ SameChipSta
  BY <1>0, <1>3, AskQuiet DEF SameOf
<1>5. vif' \in [Vif -> VifType] /\ SameView
  <2>1. CASE vif' = vif
    BY <1>0, <2>1 DEF SameView, SameRecord
  <2>2. CASE \E c \in {TRUE, vif[me].chan} : vif' = [vif EXCEPT ![me].chan = c]
    <3>1. PICK c \in {TRUE, vif[me].chan} : vif' = [vif EXCEPT ![me].chan = c]
      BY <2>2
    <3>2. c \in BOOLEAN
      BY <1>0, <1>2, <3>1 DEF VifType
    <3> QED BY <1>0, <3>1, <3>2, SetChan
  <2> QED BY <2>1, <2>2 DEF CacStart
<1>6. StackTypes' /\ stack'.ap = stack.ap
  <2>1. stack' = stack \/ stack' = [stack EXCEPT !.cac = @ \cup {me}]
    <3>1. stack' = stack \/ stack' = [stack EXCEPT !.cac = IF cac_status' THEN @ \cup {me} ELSE @]
      BY DEF CacStart
    <3> QED BY <1>0, <3>1 DEF Types, StackTypes
  <2> QED BY <1>0, <1>2, <2>1 DEF Types, StackTypes
<1>7. RequestTypes' /\ FewerRequests
  <2>1. UNCHANGED <<scanVars, roc, cacVars, dfs_pending>>
    BY DEF CacStart
  <2>2. cac_status' \in BOOLEAN
    BY <1>0 DEF CacStart, Types, RequestTypes
  <2>3. detect' \in {detect, TRUE}
    BY DEF CacStart
  <2> QED BY <1>0, <2>1, <2>2, <2>3 DEF Types, RequestTypes, FewerRequests, scanVars, cacVars
<1>8. Types' /\ Rest
  <2>1. sta_valid' \subseteq StaIndex /\ IndTypes'
    BY <1>0, <1>1 DEF Types, IfaceTypes, IndTypes
  <2> QED BY <1>0, <1>1, <1>4, <1>5, <1>6, <1>7, <2>1, ViewRest
<1> QED BY <1>1, <1>8, Unmarked, DoneKeeps


-----------------------------------------------------------------------------
\* The other threads.
Moves(t) == \E x : todo' = [todo EXCEPT ![t] = x]

\* The four ways in which a thread goes on.
LEMMA ThreadMoves ==
  ASSUME NEW t, Done(t) \/ Return(t) \/ Oops(t) \/ \E l : Then(t, l)
  PROVE  Moves(t)
BY DEF Done, Return, Oops, Then, Moves

\* A step of an indication or a work that disturbs nothing keeps the invariant.
LEMMA MovesKeep ==
  ASSUME Inv, NEW t \in {"ind", "dfs", "cac"}, Moves(t), on'["user"] = on["user"], Types', Rest
  PROVE  Inv'
<1>1. PICK x : todo' = [todo EXCEPT ![t] = x]
  BY DEF Moves
<1>2. t \in Thread \ {"user", "csa"}
  BY DEF Thread
<1> QED BY <1>1, <1>2, OtherKeeps

\* So does one that only drops pending requests.
LEMMA RequestMoves ==
  ASSUME Inv, NEW t \in {"ind", "dfs", "cac"}, Moves(t), UNCHANGED requestFree,
         RequestTypes', StackTypes', stack'.ap = stack.ap, FewerRequests
  PROVE  Inv'
BY RequestRest, MovesKeep DEF Inv

\* The indication of the end of a scan keeps the invariant.
LEMMA ScansElsewhere ==
  ASSUME Inv, ScanTest("ind") \/ ScanReport("ind") \/ ScanClear("ind") \/ ScanGate("ind")
  PROVE  Inv'
<1>0. Types
  BY DEF Inv
<1>1. Moves("ind")
  BY ThreadMoves DEF ScanTest, ScanReport, ScanClear, ScanGate
<1>2. UNCHANGED requestFree
  BY DEF ScanTest, ScanReport, ScanClear, ScanGate, requestFree
<1>3. RequestTypes' /\ FewerRequests
  <2>1. UNCHANGED <<roc, cacVars, dfsVars>>
    BY DEF ScanTest, ScanReport, ScanClear, ScanGate
  <2>2. scan_request' \in {scan_request, None} /\ scan' \in {scan, FALSE}
    BY DEF ScanTest, ScanReport, ScanClear, ScanGate, scanVars
  <2> QED BY <1>0, <2>1, <2>2 DEF Types, RequestTypes, FewerRequests, cacVars, dfsVars
<1>4. StackTypes' /\ stack'.ap = stack.ap
  <2>1. stack' = stack \/ stack' = [stack EXCEPT !.scan = None]
    BY DEF ScanTest, ScanReport, ScanClear, ScanGate
  <2> QED BY <1>0, <2>1 DEF Types, StackTypes
<1> QED BY <1>1, <1>2, <1>3, <1>4, RequestMoves

\* The works that stop or end a CAC keep the invariant.
LEMMA CacStopElsewhere ==
  ASSUME Inv, CacStop("dfs") \/ CacFinished \/ CacWork
  PROVE  Inv'
<1>0. Types
  BY DEF Inv
<1>1. PICK t \in {"dfs", "cac"} : Moves(t)
  BY ThreadMoves DEF CacStop, CacFinished, CacWork, Moves
<1>2. UNCHANGED requestFree /\ UNCHANGED <<scanVars, roc, dfsVars>>
  BY DEF CacStop, CacFinished, CacWork, requestFree
<1>3. cac_pending' \in BOOLEAN /\ cac_vif' \in {cac_vif, None}
  BY <1>0 DEF CacStop, CacFinished, CacWork, cacVars, Types, RequestTypes
<1>4. RequestTypes' /\ FewerRequests
  BY <1>0, <1>2, <1>3 DEF Types, RequestTypes, FewerRequests, scanVars, dfsVars
<1>5. StackTypes' /\ stack'.ap = stack.ap
  <2>1. stack' = stack \/ stack' = [stack EXCEPT !.cac = @ \ {cac_vif}]
    <3>1. CASE CacStop("dfs")
      <4>1. stack' = stack \/ stack' = [stack EXCEPT !.cac = IF HasChan(cac_vif) THEN @ \ {cac_vif} ELSE @]
        BY <3>1 DEF CacStop
      <4> QED BY <1>0, <4>1 DEF Types, StackTypes
    <3>2. CASE CacFinished \/ CacWork
      BY <3>2 DEF CacFinished, CacWork
    <3> QED BY <3>1, <3>2
  <2> QED BY <1>0, <2>1 DEF Types, StackTypes
<1> QED BY <1>1, <1>2, <1>4, <1>5, RequestMoves

\* The request of a work to stop the CAC keeps the invariant.
LEMMA CacReqElsewhere ==
  ASSUME Inv, NEW t \in {"dfs", "cac"}, CacStopReq(t)
  PROVE  Inv'
<1>0. Types /\ chip \in ChipType /\ SameOf(chip)
  BY DEF Inv, Types, ChipTypes, SameOf
<1>1. Moves(t) /\ UNCHANGED sameVars /\ indq' = indq
  BY ThreadMoves DEF CacStopReq, sameVars
<1>2. Ask(chip) \/ NoMemory
  BY DEF CacStopReq, NoMemory
<1>3. ChipTypes' /\ SameChip /\ SameChipSta /\ IndTypes'
  BY <1>0, <1>1, <1>2, AskQuiet DEF Types, IndTypes
<1> QED BY <1>0, <1>1, <1>3, SameRest, MovesKeep

\* A channel that is given back is not seen.
LEMMA UnsetView ==
  ASSUME Types, NEW x, Unset(x)
  PROVE  vif' \in [Vif -> VifType] /\ SameView /\ detect' \in {detect, FALSE}
<1>1. vif \in [Vif -> VifType] /\ vif' = [vif EXCEPT ![x].chan = FALSE]
  BY DEF Types, IfaceTypes, Unset
<1>2. detect' \in {detect, FALSE}
  BY DEF Unset
<1> QED BY <1>1, <1>2, SetChan

\* A chip that nobody asked keeps what counts.
LEMMA ChipSame ==
  ASSUME Types, UNCHANGED <<chip, in_recovery>>
  PROVE  ChipTypes' /\ SameChip /\ SameChipSta
BY DEF Types, ChipTypes, SameChip, SameChipSta

\* The end of a CAC in a work keeps the invariant.
LEMMA CacEndElsewhere ==
  ASSUME Inv, NEW t \in {"dfs", "cac"}, CacEnd(t)
  PROVE  Inv'
<1>0. Types
  BY DEF Inv
<1>1. /\ Moves(t)
      /\ UNCHANGED <<vif_table, vif_started, avail_idx_map, on, sta_valid, scanVars, roc, cac_pending, dfs_pending,
                     cac_status, chipVars, stack>>
      /\ cac_vif' = None
  BY ThreadMoves DEF CacEnd
<1>2. vif' \in [Vif -> VifType] /\ SameView /\ detect' \in {detect, FALSE}
  <2>1. CASE cac_vif = None
    <3>1. vif' = vif /\ detect' = detect
      BY <2>1 DEF CacEnd
    <3> QED BY <1>0, <3>1 DEF Types, IfaceTypes, SameView, SameRecord
  <2>2. CASE cac_vif # None
    <3>1. Unset(cac_vif)
      BY <2>2 DEF CacEnd
    <3> QED BY <1>0, <3>1, UnsetView
  <2> QED BY <2>1, <2>2
<1>3. RequestTypes' /\ FewerRequests
  BY <1>0, <1>1, <1>2 DEF Types, RequestTypes, FewerRequests, scanVars
<1>4. ChipTypes' /\ SameChip /\ SameChipSta /\ IndTypes' /\ StackTypes' /\ stack'.ap = stack.ap /\ sta_valid' \subseteq StaIndex
  BY <1>0, <1>1, ChipSame DEF Types, IndTypes, StackTypes, IfaceTypes, chipVars
<1>5. Types' /\ Rest /\ on'["user"] = on["user"]
  BY <1>0, <1>1, <1>2, <1>3, <1>4, ViewRest
<1> QED BY <1>1, <1>5, MovesKeep

\* The radar pulses and the DFS work keep the invariant.
LEMMA PulsesKeep ==
  ASSUME Inv, ProcessPulse \/ DfsOff
  PROVE  Inv'
<1>0. Types
  BY DEF Inv
<1>1. UNCHANGED requestFree /\ UNCHANGED <<scanVars, roc, cacVars, stack>>
  BY DEF ProcessPulse, DfsOff, requestFree
<1>2. dfs_pending' \in {dfs_pending, FALSE} /\ detect' \in {detect, FALSE} /\ cac_status' = cac_status
  BY DEF ProcessPulse, DfsOff
<1>3. RequestTypes' /\ FewerRequests
  BY <1>0, <1>1, <1>2 DEF Types, RequestTypes, FewerRequests, scanVars, cacVars
<1>4. StackTypes'
  BY <1>0, <1>1 DEF Types, StackTypes
<1>5. CASE todo' = todo
  BY <1>0, <1>1, <1>3, <1>4, <1>5, RequestRest, TodoKeeps
<1>6. CASE todo' # todo
  <2>1. Moves("dfs")
    BY <1>6, ThreadMoves DEF ProcessPulse, DfsOff, Moves
  <2> QED BY <1>1, <1>3, <1>4, <2>1, RequestMoves
<1> QED BY <1>5, <1>6


\* The indication thread.
LEMMA IndTaken ==
  ASSUME Types, indq # <<>>, indq' = Tail(indq)
  PROVE  /\ IndTypes'
         /\ Head(indq).is = "connect" => Head(indq).idx \in VifIndex /\ Head(indq).sta \in StaIndex \cup {None}
         /\ Head(indq).is = "disconnect" => Head(indq).idx \in VifIndex
<1>1. indq \in Seq(Indication)
  BY DEF Types, IndTypes
<1>2. Tail(indq) \in Seq(Indication) /\ Head(indq) \in Indication
  BY <1>1
<1> QED BY <1>2 DEF IndTypes, Indication

\* What is found at an index is an interface or nothing.
LEMMA FoundTyped ==
  ASSUME Types, NEW i \in VifIndex
  PROVE  Found(i) \in Vif \cup {None}
BY DEF Types, IfaceTypes, Found

\* An indication that is handled leaves the queue.
LEMMA HandleMoves ==
  ASSUME Types, NEW ind, NEW l, Handle(ind, l)
  PROVE  Moves("ind") /\ IndTypes'
BY IndTaken DEF Handle, Moves

\* An indication that changes only requests disturbs nothing.
LEMMA IndRest ==
  ASSUME Types, UNCHANGED <<netVars, sta_valid, chip, in_recovery, stack, on>>, IndTypes', RequestTypes', FewerRequests
  PROVE  Types' /\ Rest /\ on'["user"] = on["user"]
<1>1. Types'
  BY DEF Types, IfaceTypes, ChipTypes, StackTypes, OnTypes, netVars
<1>2. Rest
  BY ChipSame DEF Rest, Others, SameIfaces, SameStas, SameCsa, netVars
<1> QED BY <1>1, <1>2

\* The indications without an index keep the invariant.
LEMMA PlainIndications ==
  ASSUME Inv, ScanComplete \/ ChanSwitch \/ RocExp \/ RocFree \/ RadarInd
  PROVE  Inv'
<1>0. Types
  BY DEF Inv
<1>1. UNCHANGED <<netVars, sta_valid, chip, in_recovery, stack, on>>
  BY DEF ScanComplete, ChanSwitch, RocExp, RocFree, RadarInd, chipVars
<1>2. Moves("ind") /\ IndTypes'
  <2>1. CASE ScanComplete \/ ChanSwitch \/ RocExp \/ RadarInd
    BY <1>0, <2>1, HandleMoves DEF ScanComplete, ChanSwitch, RocExp, RadarInd
  <2>2. CASE RocFree
    BY <1>0, <2>2, ThreadMoves DEF RocFree, chipVars, Types, IndTypes
  <2> QED BY <2>1, <2>2
<1>3. UNCHANGED <<scanVars, cacVars, cac_status>>
  BY DEF ScanComplete, ChanSwitch, RocExp, RocFree, RadarInd, dfsVars
<1>4. roc' \in {roc, None} \/ (roc # None /\ roc' = [roc EXCEPT !.on_chan = TRUE])
  BY DEF ScanComplete, ChanSwitch, RocExp, RocFree, RadarInd
<1>5. roc' = None \/ (roc # None /\ roc' \in Roc /\ roc'.vif = roc.vif)
  <2>1. roc \in {None} \cup Roc
    BY <1>0 DEF Types, RequestTypes, Roc
  <2>2. CASE roc = None
    BY <1>4, <2>2
  <2>3. CASE roc # None
    <3>1. roc \in Roc
      BY <2>1, <2>3
    <3>2. [roc EXCEPT !.on_chan = TRUE] \in Roc /\ [roc EXCEPT !.on_chan = TRUE].vif = roc.vif
      BY <3>1 DEF Roc
    <3> QED BY <1>4, <2>3, <3>1, <3>2
  <2> QED BY <2>2, <2>3
<1>6. dfs_pending' \in BOOLEAN /\ detect' \in BOOLEAN
  BY <1>0 DEF ScanComplete, ChanSwitch, RocExp, RocFree, RadarInd, dfsVars, Types, RequestTypes, EnabledOnCurChannel
<1>7. RequestTypes' /\ FewerRequests
  BY <1>0, <1>3, <1>5, <1>6 DEF Types, RequestTypes, FewerRequests, Roc, scanVars, cacVars
<1> QED BY <1>0, <1>1, <1>2, <1>7, IndRest, MovesKeep

\* The indication of a connection keeps the invariant, whatever is now at its index.
LEMMA ConnectIndKeeps ==
  ASSUME Inv, ConnectInd
  PROVE  Inv'
<1>0. Types /\ vif \in [Vif -> VifType]
  BY DEF Inv, Types, IfaceTypes
<1> DEFINE v == Found(Head(indq).idx)
           s == Head(indq).sta
<1>1. /\ indq # <<>> /\ Head(indq).is = "connect" /\ indq' = Tail(indq)
      /\ on' = [on EXCEPT !["ind"] = v]
      /\ sta_valid' = IF v # None /\ s # None THEN sta_valid \cup {s} ELSE sta_valid
      /\ vif' = IF v # None /\ s # None THEN [vif EXCEPT ![v].ap = s] ELSE vif
  BY DEF ConnectInd
<1>2. Moves("ind")
  BY DEF ConnectInd, Moves
<1>3. UNCHANGED <<vif_table, vif_started, avail_idx_map, scanVars, roc, cacVars, dfsVars, chip, in_recovery, stack>>
  BY DEF ConnectInd
<1>4. Head(indq).idx \in VifIndex /\ s \in StaIndex \cup {None} /\ IndTypes'
  BY <1>0, <1>1, IndTaken
<1>5. v \in Vif \cup {None}
  BY <1>0, <1>4, FoundTyped
<1> HIDE DEF v, s
<1>6. vif' \in [Vif -> VifType] /\ SameView
  <2>1. CASE vif' = vif
    BY <1>0, <2>1 DEF SameView, SameRecord
  <2>2. CASE s \in StaIndex /\ vif' = [vif EXCEPT ![v].ap = s]
    BY <1>0, <2>2, SetStation
  <2> QED BY <1>1, <1>4, <2>1, <2>2
<1>7. sta_valid' \subseteq StaIndex
  BY <1>0, <1>1, <1>4 DEF Types, IfaceTypes
<1>8. RequestTypes' /\ FewerRequests
  BY <1>0, <1>3, RequestsSame
<1>9. ChipTypes' /\ SameChip /\ SameChipSta
  BY <1>0, <1>3, ChipSame
<1>10. OnTypes' /\ on'["user"] = on["user"] /\ on'["csa"] = on["csa"]
  BY <1>0, <1>1, <1>5 DEF Types, OnTypes, Thread
<1>11. Types'
  BY <1>0, <1>3, <1>4, <1>6, <1>7, <1>8, <1>9, <1>10 DEF Types, IfaceTypes, StackTypes
<1>12. Rest
  BY <1>3, <1>6, <1>8, <1>9, <1>10 DEF Rest, Others, SameIfaces, SameStas, SameCsa, SameView, SameRecord
<1> QED BY <1>2, <1>10, <1>11, <1>12, MovesKeep

\* The indication of a disconnection keeps the invariant, whatever is now at its index.
LEMMA DisconnectIndKeeps ==
  ASSUME Inv, DisconnectInd
  PROVE  Inv'
<1>0. Types
  BY DEF Inv
<1> DEFINE v == Found(Head(indq).idx)
<1>1. indq # <<>> /\ Head(indq).is = "disconnect" /\ indq' = Tail(indq) /\ on' = [on EXCEPT !["ind"] = v]
  BY DEF DisconnectInd
<1>2. Moves("ind")
  BY DEF DisconnectInd, Moves
<1>3. UNCHANGED <<netVars, sta_valid, scanVars, roc, cacVars, dfsVars, chip, in_recovery, stack>>
  BY DEF DisconnectInd
<1>4. Head(indq).idx \in VifIndex /\ IndTypes'
  BY <1>0, <1>1, IndTaken
<1>5. v \in Vif \cup {None}
  BY <1>0, <1>4, FoundTyped
<1> HIDE DEF v
<1>6. RequestTypes' /\ FewerRequests
  BY <1>0, <1>3, RequestsSame
<1>7. ChipTypes' /\ SameChip /\ SameChipSta
  BY <1>0, <1>3, ChipSame
<1>8. OnTypes' /\ on'["user"] = on["user"] /\ on'["csa"] = on["csa"]
  BY <1>0, <1>1, <1>5 DEF Types, OnTypes, Thread
<1>9. Types'
  BY <1>0, <1>3, <1>4, <1>6, <1>7, <1>8 DEF Types, IfaceTypes, StackTypes, netVars
<1>10. Rest
  BY <1>3, <1>6, <1>7, <1>8 DEF Rest, Others, SameIfaces, SameStas, SameCsa, netVars
<1> QED BY <1>2, <1>8, <1>9, <1>10, MovesKeep

\* The ends of the two indications keep the invariant.
LEMMA ConnectionsKeep ==
  ASSUME Inv, Connected \/ Disconnected
  PROVE  Inv'
<1>0. Types /\ vif \in [Vif -> VifType]
  BY DEF Inv, Types, IfaceTypes
<1>1. /\ Moves("ind")
      /\ UNCHANGED <<vif_table, vif_started, avail_idx_map, on, scanVars, roc, cacVars, dfs_pending, cac_status, chipVars, stack>>
  BY ThreadMoves DEF Connected, Disconnected, dfsVars
<1>2. vif' \in [Vif -> VifType] /\ SameView
  <2> DEFINE x == on["ind"]
  <2>1. CASE Connected
    <3>1. \/ vif' = [vif EXCEPT ![x].carrier = TRUE]
          \/ \E c \in {TRUE, vif[x].chan} : vif' = [vif EXCEPT ![x].chan = c, ![x].carrier = TRUE]
      BY <2>1 DEF Connected
    <3>2. ASSUME NEW c \in {TRUE, vif[x].chan} PROVE x \in Vif => c \in BOOLEAN
      BY <1>0 DEF VifType
    <3> HIDE DEF x
    <3> QED BY <1>0, <3>1, <3>2, SetCarrier, SetBoth
  <2>2. CASE Disconnected
    <3>1. LosesStation(x)
      BY <2>2 DEF Disconnected, LosesStation
    <3> HIDE DEF x
    <3> QED BY <1>0, <3>1, LoseStation
  <2> QED BY <2>1, <2>2
<1>3. detect' \in {detect, FALSE} /\ sta_valid' \subseteq StaIndex
  BY <1>0 DEF Connected, Disconnected, dfsVars, Types, IfaceTypes
<1>4. RequestTypes' /\ FewerRequests
  BY <1>0, <1>1, <1>3 DEF Types, RequestTypes, FewerRequests, scanVars, cacVars
<1>5. ChipTypes' /\ SameChip /\ SameChipSta /\ IndTypes' /\ StackTypes' /\ stack'.ap = stack.ap
  BY <1>0, <1>1, ChipSame DEF Types, IndTypes, StackTypes, chipVars
<1>6. Types' /\ Rest /\ on'["user"] = on["user"]
  BY <1>0, <1>1, <1>2, <1>3, <1>4, <1>5, ViewRest
<1> QED BY <1>1, <1>6, MovesKeep


\* The record of a channel switch.
CsaState == {"none", "asked", "on", "ok", "failed"}

SameButCsa(x) ==
  \A v \in Vif : /\ vif'[v].reg = vif[v].reg /\ vif'[v].type = vif[v].type /\ vif'[v].up = vif[v].up
                 /\ vif'[v].idx = vif[v].idx /\ vif'[v].stas = vif[v].stas
                 /\ v # x => vif'[v].csa = vif[v].csa

\* The state of a switch is set for one interface only.
LEMMA SetCsa ==
  ASSUME vif \in [Vif -> VifType], NEW x, NEW c \in CsaState, vif' = [vif EXCEPT ![x].csa = c]
  PROVE  vif' \in [Vif -> VifType] /\ SameButCsa(x) /\ (x \in Vif => vif'[x].csa = c)
<1> DEFINE r == [vif[x] EXCEPT !.csa = c]
<1>1. x \in Vif => r \in VifType /\ r.reg = vif[x].reg /\ r.type = vif[x].type /\ r.up = vif[x].up
                   /\ r.idx = vif[x].idx /\ r.stas = vif[x].stas /\ r.csa = c
  <2> SUFFICES ASSUME x \in Vif
               PROVE  r \in VifType /\ r.reg = vif[x].reg /\ r.type = vif[x].type /\ r.up = vif[x].up
                      /\ r.idx = vif[x].idx /\ r.stas = vif[x].stas /\ r.csa = c
    OBVIOUS
  <2> DEFINE w == vif[x]
  <2>1. w \in VifType
    OBVIOUS
  <2> HIDE DEF w
  <2>2. LET q == [w EXCEPT !.csa = c]
        IN  q \in VifType /\ q.reg = w.reg /\ q.type = w.type /\ q.up = w.up /\ q.idx = w.idx /\ q.stas = w.stas /\ q.csa = c
    BY <2>1 DEF VifType, CsaState
  <2> QED BY <2>2 DEF w
<1>2. vif' = [vif EXCEPT ![x] = r]
  OBVIOUS
<1> HIDE DEF r
<1>3. \A v \in Vif : vif'[v] = IF v = x THEN r ELSE vif[v]
  BY <1>2
<1>4. vif' \in [Vif -> VifType]
  BY <1>1, <1>2
<1> QED BY <1>1, <1>3, <1>4 DEF SameButCsa

\* The user's steps leave the record of a switch that is being asked for to the call.
LEMMA SwitchOther ==
  ASSUME Place, Switch, UserLists, todo'["user"] = todo["user"], on'["user"] = on["user"],
         NEW x, SameButCsa(x), ("csa_req" \in U /\ me = x) => vif'[x].csa = "asked", Ups
  PROVE  ("csa_req" \in U => vif[me].csa = "asked")'
<1>1. U' = U /\ me' = me
  BY DEF U, me
<1>2. "csa_req" \in U => me \in Vif /\ vif[me].csa = "asked"
  BY DEF Place, Switch
<1> QED BY <1>1, <1>2 DEF SameButCsa

\* A step that changes only the state of a switch disturbs nothing else.
LEMMA CsaRest ==
  ASSUME Types, vif' \in [Vif -> VifType], NEW x, SameButCsa(x),
         UNCHANGED <<vif_table, vif_started, avail_idx_map, sta_valid, scanVars, roc, cacVars, dfsVars, chip, in_recovery, stack>>,
         OnTypes', IndTypes'
  PROVE  Types' /\ Others
<1>1. RequestTypes' /\ FewerRequests /\ ChipTypes' /\ SameChip /\ SameChipSta
  BY RequestsSame, ChipSame
<1>2. Types'
  BY <1>1 DEF Types, IfaceTypes, StackTypes
<1>3. SameIfaces /\ SameStas
  BY DEF SameIfaces, SameStas, SameButCsa
<1> QED BY <1>1, <1>2, <1>3 DEF Others

\* The indication that ends a switch keeps the invariant: it schedules the work for a
\* switch that is on.
LEMMA CsaFinishKeeps ==
  ASSUME Inv, CsaFinish
  PROVE  Inv'
<1>0. Types /\ vif \in [Vif -> VifType] /\ UserLists /\ Place /\ Switch /\ Ups
  BY DEF Inv, Types, IfaceTypes, NetInv
<1>1. /\ indq # <<>> /\ indq' = Tail(indq)
      /\ UNCHANGED <<vif_table, vif_started, avail_idx_map, sta_valid, scanVars, roc, cacVars, dfsVars, chip, in_recovery,
                     stack, todo, on>>
  BY DEF CsaFinish
<1>2. OnTypes' /\ IndTypes'
  BY <1>0, <1>1, IndTaken DEF Types, OnTypes
<1>3. PICK x \in Vif \cup {None}, c \in {"ok", "failed"} :
        vif' = vif \/ (x \in Vif /\ vif[x].csa \notin {"none", "asked"} /\ vif' = [vif EXCEPT ![x].csa = c])
  <2> DEFINE v == Found(Head(indq).idx)
             c == IF Head(indq).ok THEN "ok" ELSE "failed"
  <2>1. vif' = IF v # None /\ vif[v].type = "ap" /\ vif[v].csa \notin {"none", "asked"}
               THEN [vif EXCEPT ![v].csa = c] ELSE vif
    BY DEF CsaFinish
  <2>2. DOMAIN vif = Vif /\ c \in {"ok", "failed"}
    BY <1>0
  <2> HIDE DEF v, c
  <2>3. CASE v \in Vif
    <3>1. CASE vif' = vif
      BY <3>1
    <3>2. CASE vif[v].csa \notin {"none", "asked"} /\ vif' = [vif EXCEPT ![v].csa = c]
      <4> v \in Vif \cup {None} /\ c \in {"ok", "failed"}
        BY <2>2, <2>3
      <4> WITNESS v \in Vif \cup {None}, c \in {"ok", "failed"}
      <4> QED BY <2>3, <3>2
    <3> QED BY <2>1, <3>1, <3>2
  <2>4. CASE v \notin Vif
    <3>1. vif' = vif
      BY <2>1, <2>2, <2>4, <1>0
    <3> QED BY <3>1
  <2> QED BY <2>3, <2>4
<1>4. vif' \in [Vif -> VifType] /\ SameButCsa(x) /\ (vif' = vif \/ (x \in Vif /\ vif[x].csa \notin {"none", "asked"} /\ vif'[x].csa = c))
  <2>1. CASE vif' = vif
    BY <1>0, <2>1 DEF SameButCsa
  <2>2. CASE vif' = [vif EXCEPT ![x].csa = c] /\ x \in Vif /\ vif[x].csa \notin {"none", "asked"}
    <3>1. c \in CsaState
      BY DEF CsaState
    <3> QED BY <1>0, <2>2, <3>1, SetCsa
  <2> QED BY <1>3, <2>1, <2>2
<1>5. Types' /\ Others
  BY <1>0, <1>1, <1>2, <1>4, CsaRest
<1>6. ("csa_req" \in U => vif[me].csa = "asked")'
  <2>1. ("csa_req" \in U /\ me = x) => vif'[x].csa = "asked"
    BY <1>0, <1>4 DEF Switch
  <2> QED BY <1>0, <1>1, <1>4, <2>1, SwitchOther
<1>7. Switch'
  BY <1>0, <1>1, <1>4, <1>6 DEF Switch, SameButCsa, At
<1>8. UserLists' /\ Quiet("set")
  BY <1>0, <1>1, UserWaits
<1> QED BY <1>5, <1>7, <1>8, Unmarked, UnmarkedRests, OthersKept


\* The work begins with the record of the interface it was scheduled for.
LEMMA CsaWorkKeeps ==
  ASSUME Inv, CsaWork
  PROVE  Inv'
<1>0. Types /\ vif \in [Vif -> VifType] /\ UserLists /\ Place /\ Switch /\ Ups
  BY DEF Inv, Types, IfaceTypes, NetInv
<1>1. UNCHANGED <<vif_table, vif_started, avail_idx_map, sta_valid, scanVars, roc, cacVars, dfsVars, chipVars, stack>>
  BY DEF CsaWork
<1>2. PICK v \in Vif : /\ vif[v].csa \in {"ok", "failed"}
                       /\ on' = [on EXCEPT !["csa"] = v] /\ vif' = [vif EXCEPT ![v].csa = "on"]
                       /\ todo' = [todo EXCEPT !["csa"] =
                            CASE ~vif[v].reg                        -> <<"oops">>
                              [] vif[v].reg /\ vif[v].csa = "ok"     -> <<"csa_beacon", "csa_set", "csa_remove">>
                              [] vif[v].reg /\ vif[v].csa = "failed" -> <<"csa_remove">>]
  BY DEF CsaWork
<1>3. vif' \in [Vif -> VifType] /\ SameButCsa(v) /\ vif'[v].csa = "on"
  BY <1>0, <1>2, SetCsa DEF CsaState
<1>4. OnTypes' /\ on'["user"] = on["user"] /\ on'["csa"] = v /\ IndTypes'
  BY <1>0, <1>1, <1>2 DEF Types, OnTypes, Thread, IndTypes, chipVars
<1>5. Types' /\ Others
  BY <1>0, <1>1, <1>3, <1>4, CsaRest DEF chipVars
<1>6. PICK x : /\ todo' = [todo EXCEPT !["csa"] = x]
               /\ x \in {<<"oops">>, <<"csa_beacon", "csa_set", "csa_remove">>, <<"csa_remove">>}
  <2> DEFINE x == CASE ~vif[v].reg                        -> <<"oops">>
                    [] vif[v].reg /\ vif[v].csa = "ok"     -> <<"csa_beacon", "csa_set", "csa_remove">>
                    [] vif[v].reg /\ vif[v].csa = "failed" -> <<"csa_remove">>
  <2>1. todo' = [todo EXCEPT !["csa"] = x]
    BY <1>2
  <2>2. (vif[v].reg \/ ~vif[v].reg) /\ (vif[v].csa = "ok" \/ vif[v].csa = "failed")
    BY <1>2
  <2>3. x \in {<<"oops">>, <<"csa_beacon", "csa_set", "csa_remove">>, <<"csa_remove">>}
    BY <2>2
  <2> HIDE DEF x
  <2> QED BY <2>1, <2>3
<1>7. "csa" \in Thread \ {"user"} /\ todo'["csa"] = x
  BY <1>0, <1>6 DEF Thread, UserLists
<1>8. UserLists' /\ Quiet("set") /\ todo'["user"] = todo["user"]
  BY <1>0, <1>4, <1>6, <1>7, OtherMoves DEF UserLists, Thread
<1>9. ("csa_req" \in U => vif[me].csa = "asked")'
  <2>1. ("csa_req" \in U /\ me = v) => vif'[v].csa = "asked"
    BY <1>0, <1>2 DEF Switch
  <2> QED BY <1>0, <1>3, <1>4, <1>8, <2>1, SwitchOther
<1>10. x \in Seq(CsaStep) /\ \A i \in 1..Len(x) : x[i] = "csa_remove" => i = Len(x)
  <2>1. CASE x = <<"oops">>
    BY <2>1 DEF CsaStep
  <2>2. CASE x = <<"csa_beacon", "csa_set", "csa_remove">>
    BY <2>2 DEF CsaStep
  <2>3. CASE x = <<"csa_remove">>
    BY <2>3 DEF CsaStep
  <2> QED BY <1>6, <2>1, <2>2, <2>3
<1>11. Switch'
  BY <1>3, <1>4, <1>7, <1>9, <1>10 DEF Switch
<1> QED BY <1>5, <1>8, <1>11, Unmarked, UnmarkedRests, OthersKept

\* What is left of a work's list is a list of its steps.
LEMMA CsaTail ==
  ASSUME Switch, NEW h, h # "oops", At("csa", h)
  PROVE  LET l == Tail(todo["csa"])
         IN  /\ l \in Seq(CsaStep) /\ \A i \in 1..Len(l) : l[i] = "csa_remove" => i = Len(l)
             /\ on["csa"] \in Vif /\ vif[on["csa"]].csa \notin {"none", "asked"}
             /\ h = "csa_remove" => l = <<>>
<1> DEFINE m == todo["csa"]
           l == Tail(m)
<1>1. /\ m \in Seq(CsaStep) /\ (\A i \in 1..Len(m) : m[i] = "csa_remove" => i = Len(m)) /\ m # <<>> /\ Head(m) = h
      /\ on["csa"] \in Vif /\ vif[on["csa"]].csa \notin {"none", "asked"}
  BY DEF Switch, At
<1> HIDE DEF m
<1>2. /\ l \in Seq(CsaStep) /\ Len(l) = Len(m) - 1 /\ Len(m) \in Nat \ {0} /\ Head(m) = m[1]
      /\ \A i \in 1..Len(l) : l[i] = m[i + 1]
  BY <1>1
<1> HIDE DEF l
<1>3. ASSUME NEW i \in 1..Len(l), l[i] = "csa_remove" PROVE i = Len(l)
  <2>1. i + 1 \in 1..Len(m) /\ m[i + 1] = "csa_remove"
    BY <1>2, <1>3
  <2>2. i + 1 = Len(m)
    BY <1>1, <2>1
  <2> QED BY <1>2, <2>2
<1>4. h = "csa_remove" => l = <<>>
  <2> SUFFICES ASSUME h = "csa_remove" PROVE l = <<>>
    OBVIOUS
  <2>1. 1 \in 1..Len(m) /\ m[1] = "csa_remove"
    BY <1>1, <1>2
  <2>2. Len(m) = 1
    BY <1>1, <2>1
  <2>3. Len(l) = 0
    BY <1>2, <2>2
  <2> QED BY <1>2, <2>3
<1> QED BY <1>1, <1>2, <1>3, <1>4 DEF m, l

\* A step of the work keeps the invariant when it keeps the record for the steps it has left.
LEMMA CsaMoves ==
  ASSUME Inv, NEW x, todo' = [todo EXCEPT !["csa"] = x], UNCHANGED on,
         x \in Seq(CsaStep), \A i \in 1..Len(x) : x[i] = "csa_remove" => i = Len(x),
         Types', Others, NEW v \in Vif, SameButCsa(v), on["csa"] = v, vif[v].csa \notin {"none", "asked"},
         x # <<>> => vif'[v].csa \notin {"none", "asked"}
  PROVE  Inv'
<1>0. UserLists /\ Place /\ Switch /\ Ups
  BY DEF Inv, NetInv
<1>1. "csa" \in Thread \ {"user"} /\ todo'["csa"] = x /\ todo'["user"] = todo["user"] /\ on'["user"] = on["user"]
  BY <1>0 DEF Thread, UserLists
<1>2. UserLists' /\ Quiet("set")
  BY <1>0, <1>1, OtherMoves
<1>3. ("csa_req" \in U => vif[me].csa = "asked")'
  <2>1. ("csa_req" \in U /\ me = v) => vif'[v].csa = "asked"
    BY <1>0 DEF Switch
  <2> QED BY <1>0, <1>1, <2>1, SwitchOther
<1>4. Switch'
  BY <1>1, <1>3 DEF Switch
<1> QED BY <1>2, <1>4, Unmarked, UnmarkedRests, OthersKept

\* The new beacon keeps the invariant.
LEMMA CsaBeaconKeeps ==
  ASSUME Inv, CsaBeacon
  PROVE  Inv'
<1>0. Types /\ UserLists /\ Switch /\ chip \in ChipType /\ SameOf(chip)
  BY DEF Inv, NetInv, Types, ChipTypes, SameOf
<1>1. At("csa", "csa_beacon") /\ UNCHANGED sameVars /\ UNCHANGED indq
  BY DEF CsaBeacon, sameVars
<1>2. Ask(chip) \/ NoMemory
  BY DEF CsaBeacon, Ask
<1>3. ChipTypes' /\ SameChip /\ SameChipSta /\ IndTypes'
  BY <1>0, <1>1, <1>2, AskQuiet DEF Types, IndTypes
<1>4. Types' /\ Rest
  BY <1>0, <1>1, <1>3, SameRest
<1>5. PICK x : todo' = [todo EXCEPT !["csa"] = x] /\ (x = Tail(todo["csa"]) \/ x = <<"csa_remove">>)
  BY DEF CsaBeacon, Done
<1>6. /\ x \in Seq(CsaStep) /\ \A i \in 1..Len(x) : x[i] = "csa_remove" => i = Len(x)
      /\ on["csa"] \in Vif /\ vif[on["csa"]].csa \notin {"none", "asked"}
  <2>1. CASE x = Tail(todo["csa"])
    BY <1>0, <1>1, <2>1, CsaTail
  <2>2. CASE x = <<"csa_remove">>
    <3>1. x \in Seq(CsaStep) /\ \A i \in 1..Len(x) : x[i] = "csa_remove" => i = Len(x)
      BY <2>2 DEF CsaStep
    <3>2. on["csa"] \in Vif /\ vif[on["csa"]].csa \notin {"none", "asked"}
      BY <1>0, <1>1, CsaTail
    <3> QED BY <3>1, <3>2
  <2> QED BY <1>5, <2>1, <2>2
<1>7. vif' = vif /\ on' = on
  BY <1>1 DEF sameVars, netVars
<1>8. SameButCsa(on["csa"])
  BY <1>7 DEF SameButCsa
<1> QED BY <1>4, <1>5, <1>6, <1>7, <1>8, CsaMoves DEF Rest

\* The new channel keeps the invariant.
LEMMA CsaSetKeeps ==
  ASSUME Inv, CsaSet
  PROVE  Inv'
<1>0. Types /\ Switch /\ vif \in [Vif -> VifType]
  BY DEF Inv, NetInv, Types, IfaceTypes
<1>1. /\ At("csa", "csa_set") /\ todo' = [todo EXCEPT !["csa"] = Tail(todo["csa"])]
      /\ UNCHANGED <<vif_table, vif_started, avail_idx_map, sta_valid, scanVars, roc, cacVars, dfs_pending, cac_status, chipVars, stack, on>>
  BY DEF CsaSet, Done
<1>2. PICK c \in BOOLEAN : vif' = [vif EXCEPT ![on["csa"]].chan = c]
  BY DEF CsaSet, NewChan
<1>3. vif' \in [Vif -> VifType] /\ SameView
  BY <1>0, <1>2, SetChan
<1>4. detect' \in BOOLEAN
  <2>1. detect' \in {detect} \cup (IF vif[on["csa"]].chan THEN {FALSE} ELSE {})
                  \cup (IF cac_vif # None /\ vif'[cac_vif].chan THEN BOOLEAN ELSE {})
    BY DEF CsaSet, NewChan
  <2> QED BY <1>0, <2>1 DEF Types, RequestTypes
<1>5. RequestTypes' /\ FewerRequests
  BY <1>0, <1>1, <1>4 DEF Types, RequestTypes, FewerRequests, scanVars, cacVars
<1>6. ChipTypes' /\ SameChip /\ SameChipSta /\ IndTypes' /\ StackTypes' /\ stack'.ap = stack.ap /\ sta_valid' \subseteq StaIndex
  BY <1>0, <1>1, ChipSame DEF Types, IndTypes, StackTypes, IfaceTypes, chipVars
<1>7. Types' /\ Rest
  BY <1>0, <1>1, <1>3, <1>5, <1>6, ViewRest
<1> DEFINE l == Tail(todo["csa"])
<1>8. /\ l \in Seq(CsaStep) /\ \A i \in 1..Len(l) : l[i] = "csa_remove" => i = Len(l)
      /\ on["csa"] \in Vif /\ vif[on["csa"]].csa \notin {"none", "asked"}
  BY <1>0, <1>1, CsaTail
<1>9. SameButCsa(on["csa"]) /\ vif'[on["csa"]].csa = vif[on["csa"]].csa
  BY <1>3, <1>8 DEF SameButCsa, SameView, SameRecord
<1> HIDE DEF l
<1> QED BY <1>1, <1>7, <1>8, <1>9, CsaMoves DEF Rest, l

\* The removal of the record keeps the invariant: no step of the work is left.
LEMMA CsaRemoveKeeps ==
  ASSUME Inv, CsaRemove
  PROVE  Inv'
<1>0. Types /\ Switch /\ vif \in [Vif -> VifType]
  BY DEF Inv, NetInv, Types, IfaceTypes
<1>1. /\ At("csa", "csa_remove") /\ todo' = [todo EXCEPT !["csa"] = Tail(todo["csa"])]
      /\ vif' = [vif EXCEPT ![on["csa"]].csa = "none"]
      /\ UNCHANGED <<vif_table, vif_started, avail_idx_map, sta_valid, scanVars, roc, cacVars, dfsVars, chipVars, stack, on>>
  BY DEF CsaRemove, Done
<1>2. Tail(todo["csa"]) = <<>> /\ on["csa"] \in Vif /\ vif[on["csa"]].csa \notin {"none", "asked"}
  BY <1>0, <1>1, CsaTail
<1>3. vif' \in [Vif -> VifType] /\ SameButCsa(on["csa"])
  BY <1>0, <1>1, SetCsa DEF CsaState
<1>4. OnTypes' /\ IndTypes'
  BY <1>0, <1>1 DEF Types, OnTypes, IndTypes, chipVars
<1>5. Types' /\ Others
  BY <1>0, <1>1, <1>3, <1>4, CsaRest DEF chipVars
<1>6. todo' = [todo EXCEPT !["csa"] = <<>>] /\ UNCHANGED on
  BY <1>1, <1>2
<1>7. <<>> \in Seq(CsaStep) /\ \A i \in 1..Len(<<>>) : <<>>[i] = "csa_remove" => i = Len(<<>>)
  OBVIOUS
<1> QED BY <1>2, <1>3, <1>5, <1>6, <1>7, CsaMoves


-----------------------------------------------------------------------------
\* The chip.
LEMMA ListedChip ==
  ASSUME Listed, UNCHANGED <<vif, stack, in_recovery, todo, on>>,
         ~in_recovery => \A v \in Vif : Held(v) /\ ~Going(v) /\ vif[v].type = "ap" =>
                           /\ vif[v].idx \notin chip'.join
                           /\ \A s \in StaIndex : chip'.stas[s] = vif[v].idx <=> chip.stas[s] = vif[v].idx
  PROVE  Listed'
<1>1. U' = U /\ me' = me
  BY DEF U, me
<1>2. \A v \in Vif : Held(v)' = Held(v) /\ Going(v)' = Going(v)
  BY <1>1 DEF Held, Going
<1> SUFFICES ASSUME ~in_recovery
             PROVE  /\ \A v \in Vif : vif[v].stas # {} => v \in stack.ap
                    /\ "ap_stopped" \in U /\ "del_stations" \notin U => vif[me].stas = {}
                    /\ \A v \in Vif : Held(v) /\ ~Going(v) /\ vif[v].type = "ap" =>
                         /\ vif[v].idx \notin chip'.join
                         /\ vif[v].stas = {s \in StaIndex : chip'.stas[s] = vif[v].idx}
  BY <1>1, <1>2 DEF Listed
<1>3. ASSUME NEW v \in Vif, Held(v), ~Going(v), vif[v].type = "ap"
      PROVE  vif[v].idx \notin chip'.join /\ vif[v].stas = {s \in StaIndex : chip'.stas[s] = vif[v].idx}
  <2>1. vif[v].stas = {s \in StaIndex : chip.stas[s] = vif[v].idx}
    BY <1>3 DEF Listed
  <2>2. vif[v].idx \notin chip'.join /\ \A s \in StaIndex : chip'.stas[s] = vif[v].idx <=> chip.stas[s] = vif[v].idx
    BY <1>3
  <2>3. {s \in StaIndex : chip'.stas[s] = vif[v].idx} = {s \in StaIndex : chip.stas[s] = vif[v].idx}
    BY <2>2
  <2> QED BY <2>1, <2>2, <2>3
<1> QED BY <1>3 DEF Listed

\* It makes a connection, or tells of one.
Connects(i, s) ==
  /\ i \in chip.join /\ s \in StaIndex /\ chip.stas[s] = None
  /\ chip' = Joined(i, s)

Drops(s) ==
  /\ s \in StaIndex /\ chip.stas[s] # None
  /\ chip.vifs[chip.stas[s]] # None /\ vif[chip.vifs[chip.stas[s]]].type = "sta"
  /\ chip' = [chip EXCEPT !.stas[s] = None]

\* A connection gives a free entry to the index that asked for it.
LEMMA ConnectsFields ==
  ASSUME chip \in ChipType, NEW i, NEW s, Connects(i, s)
  PROVE  /\ chip' \in ChipType /\ chip'.started = chip.started /\ chip'.vifs = chip.vifs /\ chip'.join \subseteq chip.join
         /\ \A x \in StaIndex : chip'.stas[x] = IF x = s THEN i ELSE chip.stas[x]
<1>1. i \in VifIndex /\ s \in StaIndex
  BY DEF Connects, ChipType
<1>2. chip' = [chip EXCEPT !.join = @ \ {i}, !.stas[s] = i]
  BY DEF Connects, Joined
<1> QED BY <1>1, <1>2 DEF ChipType

\* A disconnection frees one entry.
LEMMA DropsFields ==
  ASSUME chip \in ChipType, NEW s, Drops(s)
  PROVE  /\ chip' \in ChipType /\ chip'.started = chip.started /\ chip'.vifs = chip.vifs /\ chip'.join = chip.join
         /\ \A x \in StaIndex : chip'.stas[x] = IF x = s THEN None ELSE chip.stas[x]
<1>1. chip' = [chip EXCEPT !.stas[s] = None]
  BY DEF Drops
<1> QED BY <1>1 DEF ChipType

\* Entries that come and go for a station interface are none of an AP's.
LEMMA StationsChange ==
  ASSUME Inv, NEW i, NEW s, Connects(i, s) \/ Drops(s), UNCHANGED <<vif, stack, in_recovery, todo, on>>
  PROVE  Forgotten' /\ Listed' /\ SameChip /\ ChipTypes'
<1>0. chip \in ChipType /\ Known /\ Forgotten /\ Listed /\ Indices /\ in_recovery \in BOOLEAN
  BY DEF Inv, NetInv, Types, ChipTypes
<1>1. chip' \in ChipType /\ chip'.started = chip.started /\ chip'.vifs = chip.vifs /\ chip'.join \subseteq chip.join
  BY <1>0, ConnectsFields, DropsFields
<1>2. ASSUME Connects(i, s)
      PROVE  Forgotten' /\ Listed'
  <2>1. \A x \in StaIndex : chip'.stas[x] = IF x = s THEN i ELSE chip.stas[x]
    BY <1>0, <1>2, ConnectsFields
  <2>2. i \in chip.join /\ s \in StaIndex /\ chip.stas[s] = None /\ i \in VifIndex
    BY <1>0, <1>2 DEF Connects, ChipType
  <2>3. Forgotten'
    BY <1>0, <1>1, <2>1, <2>2 DEF Forgotten
  <2>4. ASSUME ~in_recovery, NEW v \in Vif, Held(v), ~Going(v), vif[v].type = "ap"
        PROVE  /\ vif[v].idx \notin chip'.join
               /\ \A x \in StaIndex : chip'.stas[x] = vif[v].idx <=> chip.stas[x] = vif[v].idx
    <3>1. vif[v].idx \notin chip.join /\ vif[v].idx \in VifIndex
      BY <1>0, <2>4 DEF Listed, Indices
    <3>2. vif[v].idx # None
      BY <3>1, IndexAssumption
    <3> QED BY <1>1, <2>1, <2>2, <3>1, <3>2
  <2> QED BY <1>0, <2>3, <2>4, ListedChip
<1>3. ASSUME Drops(s)
      PROVE  Forgotten' /\ Listed'
  <2>1. \A x \in StaIndex : chip'.stas[x] = IF x = s THEN None ELSE chip.stas[x]
    BY <1>0, <1>3, DropsFields
  <2> DEFINE j == chip.stas[s]
  <2>2. s \in StaIndex /\ j \in VifIndex /\ chip.vifs[j] # None /\ vif[chip.vifs[j]].type = "sta"
    BY <1>0, <1>3 DEF Drops, ChipType
  <2>3. None \notin VifIndex
    BY IndexAssumption
  <2>4. Forgotten'
    BY <1>0, <1>1, <2>1, <2>3 DEF Forgotten
  <2>5. ASSUME ~in_recovery, NEW v \in Vif, Held(v), ~Going(v), vif[v].type = "ap"
        PROVE  /\ vif[v].idx \notin chip'.join
               /\ \A x \in StaIndex : chip'.stas[x] = vif[v].idx <=> chip.stas[x] = vif[v].idx
    <3>1. vif[v].idx \notin chip.join /\ vif[v].idx \in VifIndex /\ chip.vifs[vif[v].idx] = v
      BY <1>0, <2>5 DEF Listed, Indices, Known
    <3>2. vif[v].idx # j
      BY <2>2, <2>5, <3>1
    <3> QED BY <1>1, <2>1, <2>3, <3>1, <3>2
  <2> QED BY <1>0, <2>4, <2>5, ListedChip
<1>4. SameChip /\ ChipTypes'
  BY <1>0, <1>1 DEF SameChip, ChipTypes
<1> QED BY <1>2, <1>3, <1>4

\* Whatever the chip does by itself and reports keeps the invariant.
LEMMA ChipSaysKeeps ==
  ASSUME Inv, ChipSays
  PROVE  Inv'
<1>0. Types /\ UserLists /\ chip \in ChipType /\ indq \in Seq(Indication)
  BY DEF Inv, Types, ChipTypes, IndTypes
<1>1. UNCHANGED <<netVars, sta_valid, scanVars, roc, cacVars, dfsVars, in_recovery, stack, todo, on>>
  BY DEF ChipSays
<1>2. \/ \E i \in VifIndex : (\E s \in StaIndex : Connects(i, s) /\ \E x \in Indication : indq' = Append(indq, x))
      \/ \E s \in StaIndex : Drops(s) /\ \E x \in Indication : indq' = Append(indq, x)
      \/ \E e \in ChipType : SameOf(e) /\ chip' = e /\ \E x \in Indication : indq' = Append(indq, x)
  <2>1. CASE \/ chip.scan /\ Says([chip EXCEPT !.scan = FALSE], [is |-> "scan"])
             \/ chip.roc = "asked" /\ Says([chip EXCEPT !.roc = "on"], [is |-> "switch"])
             \/ chip.roc = "on" /\ Says([chip EXCEPT !.roc = "off"], [is |-> "roc_exp"])
             \/ detect /\ ~dfs_pending /\ Says(chip, [is |-> "radar"])
    <3>1. \A x \in {"scan", "switch", "roc_exp", "radar"} : [is |-> x] \in Indication
      BY DEF Indication
    <3>2. /\ [chip EXCEPT !.scan = FALSE] \in ChipType /\ SameOf([chip EXCEPT !.scan = FALSE])
          /\ [chip EXCEPT !.roc = "on"] \in ChipType /\ SameOf([chip EXCEPT !.roc = "on"])
          /\ [chip EXCEPT !.roc = "off"] \in ChipType /\ SameOf([chip EXCEPT !.roc = "off"])
          /\ chip \in ChipType /\ SameOf(chip)
      BY <1>0 DEF ChipType, SameOf
    <3> QED BY <2>1, <3>1, <3>2 DEF Says
  <2>2. CASE \E i \in chip.join, s \in StaIndex :
               /\ chip.stas[s] = None
               /\ Says(Joined(i, s), [is |-> "connect", idx |-> i, sta |-> s])
    <3>1. PICK i \in chip.join, s \in StaIndex :
               /\ chip.stas[s] = None
               /\ Says(Joined(i, s), [is |-> "connect", idx |-> i, sta |-> s])
      BY <2>2
    <3>2. i \in VifIndex
      BY <1>0 DEF ChipType
    <3>3. [is |-> "connect", idx |-> i, sta |-> s] \in Indication
      BY <3>2 DEF Indication
    <3>4. Connects(i, s) /\ indq' = Append(indq, [is |-> "connect", idx |-> i, sta |-> s])
      BY <3>1 DEF Says, Connects
    <3> QED BY <3>2, <3>3, <3>4
  <2>3. CASE \E i \in chip.join : Says([chip EXCEPT !.join = @ \ {i}], [is |-> "connect", idx |-> i, sta |-> None])
    <3>1. PICK i \in chip.join : Says([chip EXCEPT !.join = @ \ {i}], [is |-> "connect", idx |-> i, sta |-> None])
      BY <2>3
    <3>2. i \in VifIndex
      BY <1>0 DEF ChipType
    <3>3. [is |-> "connect", idx |-> i, sta |-> None] \in Indication
      BY <3>2 DEF Indication
    <3>4. [chip EXCEPT !.join = @ \ {i}] \in ChipType /\ SameOf([chip EXCEPT !.join = @ \ {i}])
      BY <1>0 DEF ChipType, SameOf
    <3> QED BY <3>1, <3>3, <3>4 DEF Says
  <2>4. CASE \E s \in StaIndex :
               /\ chip.stas[s] # None
               /\ chip.vifs[chip.stas[s]] # None /\ vif[chip.vifs[chip.stas[s]]].type = "sta"
               /\ Says([chip EXCEPT !.stas[s] = None], [is |-> "disconnect", idx |-> chip.stas[s]])
    <3>1. PICK s \in StaIndex :
               /\ chip.stas[s] # None
               /\ chip.vifs[chip.stas[s]] # None /\ vif[chip.vifs[chip.stas[s]]].type = "sta"
               /\ Says([chip EXCEPT !.stas[s] = None], [is |-> "disconnect", idx |-> chip.stas[s]])
      BY <2>4
    <3>2. chip.stas[s] \in VifIndex
      BY <1>0, <3>1 DEF ChipType
    <3>3. [is |-> "disconnect", idx |-> chip.stas[s]] \in Indication
      BY <3>2 DEF Indication
    <3>4. Drops(s) /\ indq' = Append(indq, [is |-> "disconnect", idx |-> chip.stas[s]])
      BY <3>1 DEF Says, Drops
    <3> QED BY <3>3, <3>4
  <2>5. CASE \E i \in chip.csa, ok \in BOOLEAN :
               Says([chip EXCEPT !.csa = @ \ {i}], [is |-> "csa", idx |-> i, ok |-> ok])
    <3>1. PICK i \in chip.csa, ok \in BOOLEAN :
               Says([chip EXCEPT !.csa = @ \ {i}], [is |-> "csa", idx |-> i, ok |-> ok])
      BY <2>5
    <3>2. i \in VifIndex
      BY <1>0 DEF ChipType
    <3>3. [is |-> "csa", idx |-> i, ok |-> ok] \in Indication
      BY <3>2 DEF Indication
    <3>4. [chip EXCEPT !.csa = @ \ {i}] \in ChipType /\ SameOf([chip EXCEPT !.csa = @ \ {i}])
      BY <1>0 DEF ChipType, SameOf
    <3> QED BY <3>1, <3>3, <3>4 DEF Says
  <2> QED BY <2>1, <2>2, <2>3, <2>4, <2>5 DEF ChipSays
<1>3. IndTypes'
  BY <1>0, <1>2 DEF IndTypes
<1>4. CASE \E e \in ChipType : SameOf(e) /\ chip' = e
  <2>1. ChipTypes' /\ SameChip /\ SameChipSta
    BY <1>0, <1>1, <1>4 DEF Types, ChipTypes, SameChip, SameChipSta, SameOf
  <2>2. Types' /\ Rest /\ on'["user"] = on["user"]
    BY <1>0, <1>1, <1>3, <2>1, SameRest DEF sameVars
  <2> QED BY <1>1, <2>2, TodoKeeps
<1>5. CASE \E i \in VifIndex, s \in StaIndex : Connects(i, s) \/ Drops(s)
  <2>1. vif' = vif
    BY <1>1 DEF netVars
  <2>2. Forgotten' /\ Listed' /\ SameChip /\ ChipTypes'
    BY <1>1, <1>5, <2>1, StationsChange
  <2>3. SameIfaces /\ SameCsa
    BY <1>1 DEF SameIfaces, SameCsa, netVars
  <2>4. RequestTypes' /\ FewerRequests
    BY <1>0, <1>1, RequestsSame
  <2>5. UserLists' /\ Quiet("set")
    BY <1>0, <1>1, UserWaits
  <2>6. "set" \notin Marks /\ "set" \notin Leaving \cup {"if_add", "dev_start", "scan_stop", "scan_clear", "cac_stop", "cac_end"}
    BY Unmarked DEF Leaving
  <2>7. Place' /\ Ups' /\ Counted' /\ Indices' /\ Known'
    BY <2>2, <2>3, <2>5, <2>6, CoreKept
  <2>8. Outlives'
    BY <2>3, <2>4, <2>5, <2>6, RequestsKept
  <2>9. Switch'
    BY <1>1, <2>3, <2>5, SwitchKept DEF Inv, NetInv, SameSwitch
  <2>10. Types'
    BY <1>0, <1>1, <1>3, <2>2, <2>4 DEF Types, IfaceTypes, StackTypes, OnTypes, netVars
  <2> QED BY <2>2, <2>5, <2>7, <2>8, <2>9, <2>10 DEF Inv, NetInv
<1>6. CASE \E s \in StaIndex : Drops(s)
  <2>1. PICK s \in StaIndex : Drops(s)
    BY <1>6
  <2>2. chip.stas[s] \in VifIndex
    BY <1>0, <2>1 DEF Drops, ChipType
  <2>3. \E i \in VifIndex, x \in StaIndex : Connects(i, x) \/ Drops(x)
    BY <2>1, <2>2
  <2> QED BY <1>5, <2>3
<1> QED BY <1>2, <1>4, <1>5, <1>6


-----------------------------------------------------------------------------
(* Steps of the user's call that some part of the invariant waits for. *)

\* When the last step of a call is done, nothing is left.
LEMMA LastDone ==
  ASSUME UserLists, NEW h \in Last, At("user", h), Done("user"), on'["user"] = on["user"]
  PROVE  UserLists' /\ U' = {} /\ U = {h} /\ todo'["csa"] = todo["csa"] /\ h \in UserStep
<1>1. h # "closed" /\ After(h) = {}
  BY DEF Last, After
<1>2. UserLists' /\ U = {h} \cup U' /\ U' \subseteq After(h) /\ todo'["csa"] = todo["csa"]
  BY <1>1, UserDone
<1> QED BY <1>1, <1>2, HeadIn

\* When nothing is left of a call, exactly the open interfaces have an index.
LEMMA Idle ==
  ASSUME U' = {}
  PROVE  Place' /\ \A v \in Vif : (Held(v)' <=> vif'[v].up) /\ ~Going(v)'
BY DEF Place, Held, Going

\* me, and what is known of it while one of its steps is left.
LEMMA MeIs ==
  ASSUME Inv, NEW h, At("user", h)
  PROVE  /\ me \in Vif /\ vif[me] \in VifType /\ h \in U
         /\ h # "closed" => ~Going(me)
BY HeadIn DEF Inv, NetInv, Place, Types, IfaceTypes, Going, At

\* The start of the chip keeps the invariant.
LEMMA DevStartKeeps ==
  ASSUME Inv, DevStart
  PROVE  Inv'
<1>0. Types /\ UserLists /\ Place /\ Known /\ Listed /\ Forgotten /\ chip \in ChipType
  BY DEF Inv, NetInv, Types, ChipTypes
<1>1. At("user", "dev_start") /\ UNCHANGED sameVars /\ indq' = indq
  BY DEF DevStart, sameVars
<1>2. CASE NotAnswered /\ Return("user")
  BY <1>1, <1>2, AskReturn
<1>3. CASE Answered([chip EXCEPT !.started = TRUE]) /\ Done("user")
  <2>1. /\ ~in_recovery /\ in_recovery' = FALSE /\ chip' \in ChipType /\ chip'.started = TRUE /\ chip'.vifs = chip.vifs
        /\ chip'.join = chip.join /\ chip'.stas = chip.stas
    BY <1>0, <1>3 DEF Answered, ChipType, Inv, Types, ChipTypes
  <2>2. ChipTypes' /\ SameVifs /\ SameChipSta
    BY <2>1 DEF ChipTypes, SameVifs, SameChipSta
  <2>3. IndTypes' /\ SameIfaces /\ SameStas /\ SameCsa
    BY <1>0, <1>1 DEF Types, IndTypes, SameIfaces, SameStas, SameCsa, sameVars, netVars
  <2>4. RequestTypes' /\ FewerRequests
    BY <1>0, <1>1, RequestsSame DEF sameVars
  <2>5. Types' /\ on'["user"] = on["user"]
    BY <1>0, <1>1, <2>2, <2>3, <2>4 DEF Types, IfaceTypes, StackTypes, OnTypes, sameVars, netVars
  <2>6. UserLists' /\ Quiet("dev_start") /\ todo'["csa"] = todo["csa"]
    BY <1>0, <1>1, <1>3, <2>5, UserDone
  <2>7. "dev_start" \notin Leaving \cup {"if_add", "del_stations", "scan_stop", "scan_clear", "cac_stop", "cac_end"}
    BY DEF Leaving
  <2>8. Place' /\ Ups' /\ Counted' /\ Indices'
    BY <2>3, <2>6, <2>7, PlaceKept, UpsKept, CountedKept, IndicesKept DEF Inv, NetInv
  <2>9. Forgotten' /\ Listed'
    BY <1>0, <2>2, <2>3, <2>6, <2>7, ForgottenKept, ListedKept
  <2>10. \A v \in Vif : Held(v)' /\ ~Going(v)' => Held(v) /\ ~Going(v) /\ vif'[v].idx = vif[v].idx
    BY <1>0, <2>3, <2>6, <2>7, HeldKept DEF SameIfaces
  <2>11. Known'
    BY <1>0, <2>1, <2>10 DEF Known
  <2>12. Outlives' /\ Switch'
    BY <2>3, <2>4, <2>6, <2>7, RequestsKept, SwitchKept DEF Inv, NetInv, SameSwitch
  <2> QED BY <2>5, <2>6, <2>8, <2>9, <2>11, <2>12 DEF Inv, NetInv
<1> QED BY <1>2, <1>3 DEF DevStart, AskOrReturn

\* The interface gets an index of the chip that nobody has.
TakesIndex(i) ==
  /\ i \in VifIndex /\ chip.vifs[i] = None
  /\ Answered([chip EXCEPT !.vifs[i] = me]) /\ vif' = [vif EXCEPT ![me].idx = i]

\* if_add gives the interface an index that the chip did not use.
LEMMA TakesFields ==
  ASSUME Inv, At("user", "if_add"), NEW i, TakesIndex(i)
  PROVE  /\ me \in Vif /\ i \in VifIndex /\ chip.vifs[i] = None /\ ~in_recovery /\ ~in_recovery'
         /\ vif' \in [Vif -> VifType] /\ chip' \in ChipType
         /\ \A v \in Vif : /\ vif'[v].reg = vif[v].reg /\ vif'[v].type = vif[v].type /\ vif'[v].up = vif[v].up
                           /\ vif'[v].stas = vif[v].stas /\ vif'[v].csa = vif[v].csa
                           /\ vif'[v].idx = IF v = me THEN i ELSE vif[v].idx
         /\ chip'.started = chip.started /\ chip'.join = chip.join /\ chip'.stas = chip.stas
         /\ \A j \in VifIndex : chip'.vifs[j] = IF j = i THEN me ELSE chip.vifs[j]
<1>1. me \in Vif /\ vif \in [Vif -> VifType] /\ chip \in ChipType /\ in_recovery \in BOOLEAN
  BY MeIs DEF Inv, Types, IfaceTypes, ChipTypes
<1>2. i \in VifIndex /\ chip.vifs[i] = None /\ ~in_recovery /\ ~in_recovery' /\ chip' = [chip EXCEPT !.vifs[i] = me]
  BY <1>1 DEF TakesIndex, Answered
<1> DEFINE m == me
<1>3. m \in Vif /\ vif' = [vif EXCEPT ![m].idx = i] /\ chip' = [chip EXCEPT !.vifs[i] = m]
  BY <1>1, <1>2 DEF TakesIndex
<1> HIDE DEF m
<1>4. chip' \in ChipType /\ chip'.started = chip.started /\ chip'.join = chip.join /\ chip'.stas = chip.stas
  BY <1>1, <1>2, <1>3 DEF ChipType
<1>5. \A j \in VifIndex : chip'.vifs[j] = IF j = i THEN m ELSE chip.vifs[j]
  BY <1>1, <1>2, <1>3 DEF ChipType
<1> DEFINE w == vif[m]
           r == [w EXCEPT !.idx = i]
<1>6. w \in VifType
  BY <1>1, <1>3
<1>7. vif' = [vif EXCEPT ![m] = r]
  BY <1>3
<1> HIDE DEF w
<1>8. /\ r \in VifType /\ r.reg = w.reg /\ r.type = w.type /\ r.up = w.up /\ r.stas = w.stas /\ r.csa = w.csa /\ r.idx = i
  BY <1>2, <1>6 DEF VifType
<1> HIDE DEF r
<1>9. vif' \in [Vif -> VifType] /\ \A v \in Vif : vif'[v] = IF v = m THEN r ELSE vif[v]
  BY <1>1, <1>7, <1>8
<1>10. \A v \in Vif : /\ vif'[v].reg = vif[v].reg /\ vif'[v].type = vif[v].type /\ vif'[v].up = vif[v].up
                      /\ vif'[v].stas = vif[v].stas /\ vif'[v].csa = vif[v].csa
                      /\ vif'[v].idx = IF v = m THEN i ELSE vif[v].idx
  BY <1>8, <1>9 DEF w
<1> QED BY <1>1, <1>2, <1>4, <1>5, <1>9, <1>10 DEF m


\* if_add keeps the invariant: no open interface has the index that the chip answers with.
LEMMA IfAddKeeps ==
  ASSUME Inv, IfAdd
  PROVE  Inv'
<1>0. Types /\ UserLists /\ Place /\ Ups /\ Indices /\ Known /\ Listed /\ Forgotten /\ Switch /\ Outlives
  BY DEF Inv, NetInv
<1>1. /\ At("user", "if_add")
      /\ UNCHANGED <<vif_table, vif_started, avail_idx_map, sta_valid, scanVars, roc, cacVars, dfsVars, indq, stack, on>>
  BY DEF IfAdd
<1>2. CASE (NoMemory \/ NotAnswered) /\ Return("user") /\ UNCHANGED vif
  <2>1. UNCHANGED sameVars
    BY <1>1, <1>2 DEF sameVars, netVars
  <2> QED BY <1>1, <1>2, <2>1, AskReturn
<1>3. CASE \E i : TakesIndex(i) /\ Done("user")
  <2>1. PICK i : TakesIndex(i) /\ Done("user")
    BY <1>3
  <2>2. /\ me \in Vif /\ i \in VifIndex /\ chip.vifs[i] = None /\ ~in_recovery /\ ~in_recovery'
        /\ vif' \in [Vif -> VifType] /\ chip' \in ChipType
        /\ \A v \in Vif : /\ vif'[v].reg = vif[v].reg /\ vif'[v].type = vif[v].type /\ vif'[v].up = vif[v].up
                          /\ vif'[v].stas = vif[v].stas /\ vif'[v].csa = vif[v].csa
                          /\ vif'[v].idx = IF v = me THEN i ELSE vif[v].idx
        /\ chip'.started = chip.started /\ chip'.join = chip.join /\ chip'.stas = chip.stas
        /\ \A j \in VifIndex : chip'.vifs[j] = IF j = i THEN me ELSE chip.vifs[j]
    BY <1>1, <2>1, TakesFields
  <2>3. UserLists' /\ Quiet("if_add") /\ todo'["csa"] = todo["csa"] /\ U = {"if_add"} \cup U' /\ U' \subseteq {"opened"}
    <3>1. After("if_add") = {"opened"}
      BY DEF After, Last
    <3> QED BY <1>0, <1>1, <2>1, <3>1, UserDone
  <2>4. me' = me
    BY <1>1 DEF me
  <2>5. vif[me].reg /\ ~vif[me].up
    BY <1>0, <2>3 DEF Place, Opening
  <2>6. Types'
    <3>1. RequestTypes'
      BY <1>0, <1>1, RequestsSame
    <3>2. in_recovery' = FALSE
      BY <2>1, <2>2 DEF TakesIndex, Answered, Inv, Types, ChipTypes
    <3> QED BY <1>0, <1>1, <2>2, <3>1, <3>2 DEF Types, IfaceTypes, ChipTypes, IndTypes, StackTypes, OnTypes
  <2>7. Place' /\ Ups' /\ Counted'
    <3>1. Place'
      BY <2>2, <2>3, <2>4, <2>5 DEF Place, Opening, Leaving, Asking, Changing, NeedUp
    <3>2. {v \in Vif : vif'[v].up} = {v \in Vif : vif[v].up} /\ vif_started' = vif_started
      BY <1>1, <2>2
    <3>3. Counted'
      BY <3>2 DEF Counted, Inv, NetInv
    <3>4. Ups'
      BY <1>0, <1>1, <2>2 DEF Ups
    <3> QED BY <3>1, <3>3, <3>4
  <2>8. ASSUME NEW v \in Vif
        PROVE  /\ ~Going(v) /\ ~Going(v)'
               /\ Held(v)' => (IF v = me THEN vif'[v].idx = i /\ "opened" \in U'
                               ELSE /\ vif[v].up /\ Held(v) /\ vif'[v].idx = vif[v].idx /\ vif[v].idx \in VifIndex
                                    /\ chip.vifs[vif[v].idx] = v /\ vif[v].idx # i)
    <3>1. ~Going(v) /\ ~Going(v)'
      BY <2>3 DEF Going
    <3>2. CASE v = me
      BY <2>2, <2>3, <2>5, <3>1, <3>2 DEF Held
    <3>3. CASE v # me /\ Held(v)'
      <4>1. vif[v].up /\ Held(v)
        BY <2>2, <2>4, <3>3 DEF Held
      <4>2. vif[v].idx \in VifIndex /\ chip.vifs[vif[v].idx] = v
        BY <1>0, <2>2, <3>1, <4>1 DEF Indices, Known
      <4>3. vif[v].idx # i
        BY <2>2, <4>2, VifAssumption
      <4> QED BY <2>2, <3>1, <3>3, <4>1, <4>2, <4>3
    <3> QED BY <3>1, <3>2, <3>3
  <2>9. Indices'
    <3>1. \A v \in Vif : Held(v)' => vif'[v].idx \in VifIndex
      BY <2>2, <2>8
    <3>2. \A v \in Vif : vif'[v].up => vif_table'[vif'[v].idx] = v
      <4> SUFFICES ASSUME NEW v \in Vif, vif'[v].up PROVE vif_table'[vif'[v].idx] = v
        OBVIOUS
      <4>1. v # me /\ vif[v].up
        BY <2>2, <2>5
      <4> QED BY <1>0, <1>1, <2>2, <4>1 DEF Indices
    <3>3. \A u, v \in Vif : Held(u)' /\ Held(v)' /\ u # v => vif'[u].idx # vif'[v].idx
      <4> SUFFICES ASSUME NEW u \in Vif, NEW v \in Vif, Held(u)', Held(v)', u # v PROVE vif'[u].idx # vif'[v].idx
        OBVIOUS
      <4>1. CASE u = me \/ v = me
        BY <2>8, <4>1
      <4>2. CASE u # me /\ v # me
        <5>1. Held(u) /\ Held(v) /\ vif'[u].idx = vif[u].idx /\ vif'[v].idx = vif[v].idx
          BY <2>8, <4>2
        <5> QED BY <1>0, <5>1 DEF Indices
      <4> QED BY <4>1, <4>2
    <3> QED BY <3>1, <3>2, <3>3 DEF Indices
  <2>10. Known'
    <3>1. chip.started
      BY <1>0, <2>2, <2>3 DEF Known
    <3>2. \A v \in Vif : Held(v)' => chip'.vifs[vif'[v].idx] = v
      BY <2>2, <2>8
    <3> QED BY <2>2, <3>1, <3>2 DEF Known
  <2>11. Forgotten'
    BY <1>0, <2>2, VifAssumption DEF Forgotten
  <2>12. Listed'
    <3>1. \A v \in Vif : vif'[v].stas # {} => v \in stack'.ap
      BY <1>0, <1>1, <2>2 DEF Listed
    <3>2. ASSUME NEW v \in Vif, Held(v)', vif'[v].type = "ap"
          PROVE  /\ vif'[v].idx \notin chip'.join
                 /\ vif'[v].stas = {s \in StaIndex : chip'.stas[s] = vif'[v].idx}
      <4>1. CASE v = me
        <5>1. vif'[v].idx = i /\ i \notin chip.join /\ \A s \in StaIndex : chip.stas[s] # i
          BY <1>0, <2>2, <3>2, <4>1 DEF Forgotten
        <5>2. vif[v].stas = {}
          BY <1>0, <2>2, <2>5, <4>1 DEF Listed, Ups
        <5> QED BY <2>2, <5>1, <5>2
      <4>2. CASE v # me
        <5>1. Held(v) /\ ~Going(v) /\ vif'[v].idx = vif[v].idx /\ vif[v].type = "ap"
          BY <2>2, <2>8, <3>2, <4>2
        <5>2. vif[v].idx \notin chip.join /\ vif[v].stas = {s \in StaIndex : chip.stas[s] = vif[v].idx}
          BY <1>0, <2>2, <5>1 DEF Listed
        <5> QED BY <2>2, <5>1, <5>2
      <4> QED BY <4>1, <4>2
    <3>3. "ap_stopped" \notin U'
      BY <2>3
    <3> QED BY <3>1, <3>2, <3>3 DEF Listed
  <2>13. Outlives'
    <3>1. \A v \in Vif : vif'[v].up = vif[v].up
      BY <2>2
    <3>2. scan_request \in Vif \cup {None} /\ cac_vif \in Vif \cup {None} /\ (roc # None => roc.vif \in Vif)
      BY <1>0 DEF Types, RequestTypes
    <3>3. FewerRequests
      BY <1>0, <1>1, RequestsSame
    <3> QED BY <1>0, <2>3, <3>1, <3>2, <3>3, OutlivesKept
  <2>14. Switch'
    BY <1>0, <1>1, <2>2, <2>3, SwitchKept DEF SameSwitch, SameCsa
  <2> QED BY <2>3, <2>6, <2>7, <2>9, <2>10, <2>11, <2>12, <2>13, <2>14 DEF Inv, NetInv
<1> QED BY <1>2, <1>3 DEF IfAdd, TakesIndex


\* An interface comes up.
ComesUp == vif' = [vif EXCEPT ![me].up = TRUE, ![me].carrier = FALSE]

\* The interface that is opened is up, and the others are what they were.
LEMMA ComesUpFields ==
  ASSUME vif \in [Vif -> VifType], me \in Vif, ComesUp
  PROVE  /\ vif' \in [Vif -> VifType]
         /\ \A v \in Vif : /\ vif'[v].reg = vif[v].reg /\ vif'[v].type = vif[v].type /\ vif'[v].idx = vif[v].idx
                           /\ vif'[v].stas = vif[v].stas /\ vif'[v].csa = vif[v].csa
                           /\ vif'[v].up = (v = me \/ vif[v].up)
<1> DEFINE m == me
           w == vif[m]
           r1 == [w EXCEPT !.up = TRUE]
           r2 == [r1 EXCEPT !.carrier = FALSE]
<1>1. m \in Vif /\ w \in VifType
  OBVIOUS
<1>2. vif' = [vif EXCEPT ![m] = r2]
  BY DEF ComesUp
<1> HIDE DEF m
<1> HIDE DEF w
<1>3. /\ r1 \in VifType /\ r1.reg = w.reg /\ r1.type = w.type /\ r1.idx = w.idx /\ r1.stas = w.stas /\ r1.csa = w.csa
      /\ r1.up = TRUE
  BY <1>1 DEF VifType
<1> HIDE DEF r1
<1>4. /\ r2 \in VifType /\ r2.reg = r1.reg /\ r2.type = r1.type /\ r2.idx = r1.idx /\ r2.stas = r1.stas /\ r2.csa = r1.csa
      /\ r2.up = r1.up
  BY <1>3 DEF VifType
<1> HIDE DEF r2
<1>5. vif' \in [Vif -> VifType] /\ \A v \in Vif : vif'[v] = IF v = m THEN r2 ELSE vif[v]
  BY <1>1, <1>2, <1>4
<1>6. \A v \in Vif : vif[v].up \in BOOLEAN
  BY DEF VifType
<1>7. /\ \A v \in Vif : /\ vif'[v].reg = vif[v].reg /\ vif'[v].type = vif[v].type /\ vif'[v].idx = vif[v].idx
                        /\ vif'[v].stas = vif[v].stas /\ vif'[v].csa = vif[v].csa
      /\ \A v \in Vif : vif'[v].up = (v = m \/ vif[v].up)
  BY <1>3, <1>4, <1>5, <1>6 DEF w
<1> QED BY <1>5, <1>7 DEF m

\* The last step of rs_net_open keeps the invariant: the index is entered in the table.
LEMMA OpenedKeeps ==
  ASSUME Inv, Opened
  PROVE  Inv'
<1>0. Types /\ UserLists /\ Place /\ Ups /\ Counted /\ Indices /\ Known /\ Listed /\ Forgotten /\ Switch /\ Outlives
  BY DEF Inv, NetInv
<1>1. /\ At("user", "opened") /\ Done("user") /\ ComesUp
      /\ vif_started' = vif_started + 1
      /\ vif_table' = [vif_table EXCEPT ![vif[me].idx] = me]
      /\ UNCHANGED <<avail_idx_map, sta_valid, scanVars, roc, cacVars, dfsVars, chipVars, stack, on>>
  BY DEF Opened, ComesUp
<1>2. me \in Vif /\ vif \in [Vif -> VifType] /\ vif_table \in [VifIndex -> Vif \cup {None}]
  BY <1>0, <1>1, MeIs DEF Types, IfaceTypes
<1>3. /\ vif' \in [Vif -> VifType]
      /\ \A v \in Vif : /\ vif'[v].reg = vif[v].reg /\ vif'[v].type = vif[v].type /\ vif'[v].idx = vif[v].idx
                        /\ vif'[v].stas = vif[v].stas /\ vif'[v].csa = vif[v].csa
                        /\ vif'[v].up = (v = me \/ vif[v].up)
  BY <1>1, <1>2, ComesUpFields
<1>4. UserLists' /\ U' = {} /\ U = {"opened"} /\ todo'["csa"] = todo["csa"]
  BY <1>0, <1>1, LastDone DEF Last
<1>5. Place' /\ \A v \in Vif : (Held(v)' <=> vif'[v].up) /\ ~Going(v)'
  BY <1>4, Idle
<1>6. vif[me].reg /\ ~vif[me].up
  BY <1>0, <1>4 DEF Place, Opening
<1>7. \A v \in Vif : (Held(v)' => Held(v)) /\ ~Going(v)
  BY <1>3, <1>4, <1>5 DEF Held, Going
<1>8. vif[me].idx \in VifIndex
  BY <1>0, <1>2, <1>3, <1>5, <1>7 DEF Indices
<1>9. vif_table' \in [VifIndex -> Vif \cup {None}] /\ vif_table'[vif[me].idx] = me
      /\ \A j \in VifIndex : j # vif[me].idx => vif_table'[j] = vif_table[j]
  BY <1>1, <1>2, <1>8
<1>10. Types'
  <2>1. RequestTypes'
    BY <1>0, <1>1, RequestsSame
  <2> QED BY <1>0, <1>1, <1>3, <1>9, <2>1 DEF Types, IfaceTypes, ChipTypes, IndTypes, StackTypes, OnTypes, chipVars
<1>11. Ups'
  BY <1>0, <1>1, <1>3, <1>6 DEF Ups
<1>12. Counted'
  <2> DEFINE S == {v \in Vif : vif[v].up}
  <2>1. IsFiniteSet(S)
    BY VifAssumption, FS_Subset
  <2>2. me \notin S
    BY <1>6
  <2>3. Cardinality(S \cup {me}) = Cardinality(S) + 1
    BY <2>1, <2>2, FS_AddElement
  <2>4. {v \in Vif : vif'[v].up} = S \cup {me}
    BY <1>2, <1>3
  <2> QED BY <1>0, <1>1, <2>3, <2>4 DEF Counted
<1>13. Indices'
  <2>1. \A v \in Vif : Held(v)' => vif'[v].idx \in VifIndex
    BY <1>0, <1>3, <1>7 DEF Indices
  <2>2. \A u, v \in Vif : Held(u)' /\ Held(v)' /\ u # v => vif'[u].idx # vif'[v].idx
    BY <1>0, <1>3, <1>7 DEF Indices
  <2>3. ASSUME NEW v \in Vif, vif'[v].up PROVE vif_table'[vif'[v].idx] = v
    <3>1. CASE v = me
      BY <1>3, <1>9, <3>1
    <3>2. CASE v # me
      <4>1. vif[v].up /\ vif[v].idx \in VifIndex /\ vif_table[vif[v].idx] = v
        BY <1>0, <1>3, <2>3, <3>2 DEF Indices, Held
      <4>2. vif[v].idx # vif[me].idx
        <5>1. vif'[me].up
          BY <1>2, <1>3
        <5>2. Held(me) /\ Held(v)
          BY <1>2, <1>5, <1>7, <2>3, <5>1
        <5> QED BY <1>0, <1>2, <3>2, <5>2 DEF Indices
      <4> QED BY <1>3, <1>9, <4>1, <4>2
    <3> QED BY <3>1, <3>2
  <2> QED BY <2>1, <2>2, <2>3 DEF Indices
<1>14. in_recovery' = in_recovery /\ chip' = chip
  BY <1>1 DEF chipVars
<1>15. Known' /\ Forgotten'
  BY <1>0, <1>3, <1>4, <1>7, <1>14 DEF Known, Forgotten
<1>16. Listed'
  <2> SUFFICES ASSUME ~in_recovery'
               PROVE  /\ \A v \in Vif : vif'[v].stas # {} => v \in stack'.ap
                      /\ \A v \in Vif : Held(v)' /\ ~Going(v)' /\ vif'[v].type = "ap" =>
                           /\ vif'[v].idx \notin chip'.join
                           /\ vif'[v].stas = {s \in StaIndex : chip'.stas[s] = vif'[v].idx}
    BY <1>4 DEF Listed
  <2> QED BY <1>0, <1>1, <1>3, <1>7, <1>14 DEF Listed
<1>17. Outlives'
  <2>1. scan_request \in Vif \cup {None} /\ cac_vif \in Vif \cup {None} /\ (roc # None => roc.vif \in Vif)
    BY <1>0 DEF Types, RequestTypes
  <2>2. NothingOutlivesItsInterface'
    BY <1>0, <1>1, <1>3, <2>1 DEF Outlives, NothingOutlivesItsInterface, IsUp, scanVars, cacVars
  <2> QED BY <1>4, <2>2 DEF Outlives
<1>18. Switch'
  BY <1>0, <1>1, <1>3, <1>4 DEF Switch, At
<1> QED BY <1>4, <1>5, <1>10, <1>11, <1>12, <1>13, <1>15, <1>16, <1>17, <1>18 DEF Inv, NetInv


\* The chip forgets an interface.
Forgets(i, s, r) == [Removed(chip, i) EXCEPT !.scan = s, !.roc = r]

\* The chip forgets an index with its connection and its stations.
LEMMA RemovedFields ==
  ASSUME chip \in ChipType, NEW i \in VifIndex, NEW s \in BOOLEAN, NEW r \in {"off", "asked", "on"},
         NEW e, e = Forgets(i, s, r)
  PROVE  /\ e \in ChipType /\ e.started = chip.started /\ e.join = chip.join \ {i}
         /\ \A j \in VifIndex : e.vifs[j] = IF j = i THEN None ELSE chip.vifs[j]
         /\ \A x \in StaIndex : e.stas[x] = IF chip.stas[x] = i THEN None ELSE chip.stas[x]
<1> DEFINE c == chip
           stas == [x \in StaIndex |-> IF c.stas[x] = i THEN None ELSE c.stas[x]]
           c1 == [c EXCEPT !.vifs[i] = None]
           c2 == [c1 EXCEPT !.join = @ \ {i}]
           c3 == [c2 EXCEPT !.csa = @ \ {i}]
           c4 == [c3 EXCEPT !.stas = stas]
           c5 == [c4 EXCEPT !.scan = s]
           c6 == [c5 EXCEPT !.roc = r]
<1>1. c \in ChipType /\ stas \in [StaIndex -> VifIndex \cup {None}]
  BY DEF ChipType
<1>2. e = c6
  BY DEF Forgets, Removed, ChipType
<1> HIDE DEF c, stas
<1>3. /\ c1 \in ChipType /\ c1.started = c.started /\ c1.join = c.join /\ c1.stas = c.stas
      /\ \A j \in VifIndex : c1.vifs[j] = IF j = i THEN None ELSE c.vifs[j]
  BY <1>1 DEF ChipType
<1> HIDE DEF c1
<1>4. c2 \in ChipType /\ c2.started = c1.started /\ c2.join = c1.join \ {i} /\ c2.vifs = c1.vifs
  BY <1>3 DEF ChipType
<1> HIDE DEF c2
<1>5. c3 \in ChipType /\ c3.started = c2.started /\ c3.join = c2.join /\ c3.vifs = c2.vifs
  BY <1>4 DEF ChipType
<1> HIDE DEF c3
<1>6. c4 \in ChipType /\ c4.started = c3.started /\ c4.join = c3.join /\ c4.vifs = c3.vifs /\ c4.stas = stas
  BY <1>1, <1>5 DEF ChipType
<1> HIDE DEF c4
<1>7. c5 \in ChipType /\ c5.started = c4.started /\ c5.join = c4.join /\ c5.vifs = c4.vifs /\ c5.stas = c4.stas
  BY <1>6 DEF ChipType
<1> HIDE DEF c5
<1>8. c6 \in ChipType /\ c6.started = c5.started /\ c6.join = c5.join /\ c6.vifs = c5.vifs /\ c6.stas = c5.stas
  BY <1>7 DEF ChipType
<1> HIDE DEF c6
<1>9. \A x \in StaIndex : c6.stas[x] = IF c.stas[x] = i THEN None ELSE c.stas[x]
  BY <1>6, <1>7, <1>8 DEF stas
<1>10. c6 \in ChipType /\ c6.started = c.started /\ c6.join = c.join \ {i} /\ c6.vifs = c1.vifs
  BY <1>3, <1>4, <1>5, <1>6, <1>7, <1>8
<1> QED BY <1>2, <1>3, <1>9, <1>10 DEF c

\* if_remove keeps the invariant: from here on the interface is going.
LEMMA IfRemoveKeeps ==
  ASSUME Inv, IfRemove
  PROVE  Inv'
<1>0. Types /\ UserLists /\ Place /\ Ups /\ Indices /\ Known /\ Listed /\ Forgotten /\ Switch /\ Outlives /\ chip \in ChipType
  BY DEF Inv, NetInv, Types, ChipTypes
<1>1. At("user", "if_remove") /\ Done("user") /\ UNCHANGED sameVars /\ UNCHANGED indq
  BY DEF IfRemove, sameVars
<1>2. vif' = vif /\ stack' = stack /\ on' = on /\ me' = me
  BY <1>1 DEF sameVars, netVars, me
<1>3. me \in Vif /\ "if_remove" \in U
  BY <1>1, MeIs
<1>4. vif[me].up /\ me \notin stack.ap
  BY <1>0, <1>3 DEF Place, NeedUp, Leaving
<1>5. vif[me].idx \in VifIndex
  BY <1>0, <1>3, <1>4 DEF Indices, Held
<1>6. /\ UserLists' /\ Quiet("if_remove") /\ todo'["csa"] = todo["csa"] /\ At("user", "closed")'
      /\ U = {"if_remove"} \cup U' /\ "if_remove" \notin U' /\ "closed" \in U'
  <2>1. After("if_remove") = UserStep \ {"if_remove"}
    BY DEF After, Last
  <2>2. UserLists' /\ At("user", "closed")'
    BY <1>0, <1>1, <1>2, UserDone
  <2>3. "closed" \in U'
    BY <2>2, TailOK DEF UserLists, At, U
  <2> QED BY <1>0, <1>1, <1>2, <2>1, <2>3, UserDone
<1>a. PICK e \in ChipType :
        /\ Ask(e)
        /\ e.started = chip.started /\ e.join = chip.join \ {vif[me].idx}
        /\ \A j \in VifIndex : e.vifs[j] = IF j = vif[me].idx THEN None ELSE chip.vifs[j]
        /\ \A x \in StaIndex : e.stas[x] = IF chip.stas[x] = vif[me].idx THEN None ELSE chip.stas[x]
  <2> DEFINE i == vif[me].idx
  <2>1. PICK s \in {FALSE, chip.scan}, r \in {"off", chip.roc} : Ask(Forgets(i, s, r))
    BY DEF IfRemove, Forgets
  <2>2. s \in BOOLEAN /\ r \in {"off", "asked", "on"} /\ i \in VifIndex
    BY <1>0, <1>5, <2>1 DEF ChipType
  <2> DEFINE e == Forgets(i, s, r)
  <2>3. Ask(e) /\ e = Forgets(i, s, r)
    BY <2>1
  <2> HIDE DEF i, e
  <2>4. /\ e \in ChipType /\ e.started = chip.started /\ e.join = chip.join \ {i}
        /\ \A j \in VifIndex : e.vifs[j] = IF j = i THEN None ELSE chip.vifs[j]
        /\ \A x \in StaIndex : e.stas[x] = IF chip.stas[x] = i THEN None ELSE chip.stas[x]
    BY <1>0, <2>2, <2>3, RemovedFields
  <2> QED BY <2>3, <2>4 DEF i
<1>7. \/ in_recovery'
      \/ /\ ~in_recovery /\ ~in_recovery' /\ chip' \in ChipType
         /\ chip'.started = chip.started /\ chip'.join = chip.join \ {vif[me].idx}
         /\ \A j \in VifIndex : chip'.vifs[j] = IF j = vif[me].idx THEN None ELSE chip.vifs[j]
         /\ \A x \in StaIndex : chip'.stas[x] = IF chip.stas[x] = vif[me].idx THEN None ELSE chip.stas[x]
  <2>1. in_recovery' \/ (chip' = e /\ ~in_recovery /\ ~in_recovery')
    BY <1>a DEF Ask, Answered, NotAnswered
  <2>2. CASE chip' = e /\ ~in_recovery /\ ~in_recovery'
    BY <1>a, <2>2
  <2> QED BY <2>1, <2>2
<1>8. ChipTypes'
  BY <1>0, <1>a, AskTyped
<1>9. Types'
  <2>1. RequestTypes'
    BY <1>0, <1>1, RequestsSame DEF sameVars
  <2> QED BY <1>0, <1>1, <1>8, <2>1 DEF Types, IfaceTypes, StackTypes, OnTypes, IndTypes, sameVars, netVars
<1>10. SameIfaces /\ SameStas /\ SameCsa /\ vif_started' = vif_started
  BY <1>1, <1>2 DEF SameIfaces, SameStas, SameCsa, sameVars, netVars
<1>11. Place'
  <2>1. \A s \in U' : s \in U
    BY <1>6
  <2> QED BY <1>0, <1>2, <1>6, <1>10, <2>1 DEF Place
<1>12. Ups' /\ Counted'
  BY <1>0, <1>10, UpsKept, CountedKept DEF Inv, NetInv
<1>13. \A v \in Vif : (Held(v)' => Held(v) /\ vif[v].idx \in VifIndex) /\ (~Going(v)' => v # me /\ ~Going(v))
  BY <1>0, <1>2, <1>4, <1>6 DEF Held, Going, Indices
<1>14. Indices'
  BY <1>0, <1>2, <1>10, <1>13 DEF Indices, SameIfaces
<1>15. ASSUME ~in_recovery', NEW v \in Vif, Held(v)', ~Going(v)'
       PROVE  /\ Held(v) /\ ~Going(v) /\ ~in_recovery /\ vif[v].idx \in VifIndex /\ vif[v].idx # vif[me].idx
              /\ chip'.vifs[vif[v].idx] = chip.vifs[vif[v].idx]
  <2>1. Held(v) /\ ~Going(v) /\ v # me /\ vif[v].idx \in VifIndex
    BY <1>13, <1>15
  <2>2. Held(me)
    BY <1>4 DEF Held
  <2>3. vif[v].idx # vif[me].idx
    BY <1>0, <1>3, <2>1, <2>2 DEF Indices
  <2> QED BY <1>7, <1>15, <2>1, <2>3
<1>16. Known'
  <2>1. "opened" \notin U /\ "if_add" \notin U
    BY <1>0, <1>4 DEF Place, Opening
  <2>2. "opened" \notin U' /\ "if_add" \notin U'
    BY <1>6, <2>1
  <2>3. ASSUME ~in_recovery', NEW v \in Vif, Held(v)', ~Going(v)'
        PROVE  chip'.vifs[vif'[v].idx] = v /\ chip'.started
    BY <1>0, <1>2, <1>7, <1>15, <2>3 DEF Known
  <2> QED BY <2>2, <2>3 DEF Known
<1>17. Forgotten'
  BY <1>0, <1>5, <1>7, IndexAssumption DEF Forgotten
<1>18. Listed'
  <2> SUFFICES ASSUME ~in_recovery'
               PROVE  (/\ \A v \in Vif : vif[v].stas # {} => v \in stack.ap
                       /\ "ap_stopped" \in U /\ "del_stations" \notin U => vif[me].stas = {}
                       /\ \A v \in Vif : Held(v) /\ ~Going(v) /\ vif[v].type = "ap" =>
                            /\ vif[v].idx \notin chip.join
                            /\ vif[v].stas = {s \in StaIndex : chip.stas[s] = vif[v].idx})'
    BY DEF Listed
  <2>1. ASSUME NEW v \in Vif, Held(v)', ~Going(v)', vif[v].type = "ap"
        PROVE  /\ vif[v].idx \notin chip'.join
               /\ vif[v].stas = {s \in StaIndex : chip'.stas[s] = vif[v].idx}
    <3>1. /\ Held(v) /\ ~Going(v) /\ ~in_recovery /\ vif[v].idx # vif[me].idx /\ vif[v].idx \in VifIndex
      BY <1>15, <2>1
    <3>2. vif[v].idx \notin chip.join /\ vif[v].stas = {s \in StaIndex : chip.stas[s] = vif[v].idx}
      BY <1>0, <2>1, <3>1 DEF Listed
    <3>3. \A s \in StaIndex : chip'.stas[s] = vif[v].idx <=> chip.stas[s] = vif[v].idx
      BY <1>7, <3>1, IndexAssumption
    <3> QED BY <1>7, <3>2, <3>3
  <2>2. \A v \in Vif : vif[v].stas # {} => v \in stack.ap
    BY <1>0, <1>7 DEF Listed
  <2>3. "ap_stopped" \in U' /\ "del_stations" \notin U' => vif[me].stas = {}
    BY <1>4, <1>3, <2>2
  <2> QED BY <1>2, <2>1, <2>2, <2>3
<1>19. Outlives'
  <2>1. \A v \in Vif : vif'[v].up = vif[v].up
    BY <1>2
  <2>2. scan_request \in Vif \cup {None} /\ cac_vif \in Vif \cup {None} /\ (roc # None => roc.vif \in Vif)
    BY <1>0 DEF Types, RequestTypes
  <2>3. FewerRequests
    BY <1>0, <1>1, RequestsSame DEF sameVars
  <2> QED BY <1>0, <1>6, <2>1, <2>2, <2>3, OutlivesKept
<1>20. Switch'
  BY <1>0, <1>6, <1>10, SwitchKept DEF SameSwitch
<1> QED BY <1>6, <1>9, <1>11, <1>12, <1>14, <1>16, <1>17, <1>18, <1>19, <1>20 DEF Inv, NetInv


\* An interface goes down.
GoesDown == vif' = [vif EXCEPT ![me].up = FALSE, ![me].idx = None, ![me].chan = FALSE, ![me].carrier = FALSE]

\* The interface that is closed is down, and the others are what they were.
LEMMA GoesDownFields ==
  ASSUME vif \in [Vif -> VifType], me \in Vif, GoesDown
  PROVE  /\ vif' \in [Vif -> VifType]
         /\ \A v \in Vif : /\ vif'[v].reg = vif[v].reg /\ vif'[v].type = vif[v].type
                           /\ vif'[v].stas = vif[v].stas /\ vif'[v].csa = vif[v].csa
                           /\ vif'[v].up = (v # me /\ vif[v].up)
                           /\ v # me => vif'[v] = vif[v]
<1> DEFINE m == me
           w == vif[m]
           r1 == [w EXCEPT !.up = FALSE]
           r2 == [r1 EXCEPT !.idx = None]
           r3 == [r2 EXCEPT !.chan = FALSE]
           r4 == [r3 EXCEPT !.carrier = FALSE]
<1>1. m \in Vif /\ w \in VifType
  OBVIOUS
<1>2. vif' = [vif EXCEPT ![m] = r4]
  BY DEF GoesDown
<1> HIDE DEF m
<1> HIDE DEF w
<1>3. r1 \in VifType /\ r1.reg = w.reg /\ r1.type = w.type /\ r1.stas = w.stas /\ r1.csa = w.csa /\ r1.up = FALSE
  BY <1>1 DEF VifType
<1> HIDE DEF r1
<1>4. r2 \in VifType /\ r2.reg = r1.reg /\ r2.type = r1.type /\ r2.stas = r1.stas /\ r2.csa = r1.csa /\ r2.up = r1.up
  BY <1>3 DEF VifType
<1> HIDE DEF r2
<1>5. r3 \in VifType /\ r3.reg = r2.reg /\ r3.type = r2.type /\ r3.stas = r2.stas /\ r3.csa = r2.csa /\ r3.up = r2.up
  BY <1>4 DEF VifType
<1> HIDE DEF r3
<1>6. r4 \in VifType /\ r4.reg = r3.reg /\ r4.type = r3.type /\ r4.stas = r3.stas /\ r4.csa = r3.csa /\ r4.up = r3.up
  BY <1>5 DEF VifType
<1> HIDE DEF r4
<1>7. vif' \in [Vif -> VifType] /\ \A v \in Vif : vif'[v] = IF v = m THEN r4 ELSE vif[v]
  BY <1>1, <1>2, <1>6
<1>8. \A v \in Vif : vif[v].up \in BOOLEAN
  BY DEF VifType
<1>9. /\ r4.reg = w.reg /\ r4.type = w.type /\ r4.stas = w.stas /\ r4.csa = w.csa /\ r4.up = FALSE
  BY <1>3, <1>4, <1>5, <1>6
<1>10. /\ \A v \in Vif : /\ vif'[v].reg = vif[v].reg /\ vif'[v].type = vif[v].type
                         /\ vif'[v].stas = vif[v].stas /\ vif'[v].csa = vif[v].csa
                         /\ v # m => vif'[v] = vif[v]
       /\ \A v \in Vif : vif'[v].up = (v # m /\ vif[v].up)
  BY <1>7, <1>8, <1>9 DEF w
<1> QED BY <1>7, <1>10 DEF m

\* What follows the end of an interface.
LEMMA ClosedList ==
  ASSUME UserLists, At("user", "closed"), on'["user"] = on["user"],
         NEW l \in {<<>>, <<"dev_reset", "me_config", "chan_config">>}, Then("user", l)
  PROVE  /\ UserLists' /\ todo'["csa"] = todo["csa"]
         /\ U' \subseteq {"dev_reset", "me_config", "chan_config", "unregistered"}
         /\ U \subseteq {"closed", "dev_reset", "me_config", "chan_config", "unregistered"}
         /\ "dev_reset" \in U' => "dev_reset" \in U \/ l # <<>>
<1> DEFINE S == {"dev_reset", "me_config", "chan_config", "unregistered"}
           r == Tail(todo["user"])
<1>1. "user" \in Thread /\ DOMAIN todo = Thread /\ "csa" \in Thread /\ ListOK(todo["user"])
  BY DEF UserLists, Thread
<1>2. todo'["user"] = l \o r /\ DOMAIN todo' = Thread /\ todo'["csa"] = todo["csa"]
  BY <1>1 DEF Then
<1>3. After("closed") = S /\ After("dev_reset") = S /\ After("me_config") = UserStep /\ After("chan_config") = UserStep
      /\ S \subseteq UserStep
  BY DEF After, Last, UserStep
<1>4. ListOK(r) /\ Steps(r) \subseteq S /\ U = {"closed"} \cup Steps(r)
  BY <1>1, <1>3, TailOK DEF At, U
<1> HIDE DEF S, r
<1>5. ListOK(l) /\ Steps(l) \subseteq {"dev_reset", "me_config", "chan_config"}
  <2>1. CASE l = <<>>
    BY <2>1, NoStep
  <2>2. CASE l = <<"dev_reset", "me_config", "chan_config">>
    <3>1. /\ l \in Seq(UserStep) /\ Len(l) = 3 /\ l[1] = "dev_reset" /\ l[2] = "me_config" /\ l[3] = "chan_config"
      BY <2>2 DEF UserStep
    <3>2. Ordered(l) /\ Paired(l)
      <4>1. "me_config" \in S /\ "chan_config" \in S /\ "chan_config" \in UserStep
        BY <1>3 DEF S
      <4> QED BY <1>3, <3>1, <4>1 DEF Ordered, Paired
    <3>3. Steps(l) = {"dev_reset", "me_config", "chan_config"}
      BY <3>1 DEF Steps
    <3> QED BY <3>1, <3>2, <3>3 DEF ListOK
  <2> QED BY <2>1, <2>2
<1>6. \A x \in Steps(l) : Steps(r) \subseteq After(x)
  BY <1>3, <1>4, <1>5
<1>7. ListOK(l \o r) /\ Steps(l \o r) = Steps(l) \cup Steps(r)
  BY <1>4, <1>5, <1>6, ConcatOK
<1>8. UserLists' /\ U' = Steps(l) \cup Steps(r)
  BY <1>2, <1>7 DEF UserLists, U
<1>9. l = <<>> => Steps(l) = {}
  BY NoStep
<1> QED BY <1>2, <1>4, <1>5, <1>8, <1>9 DEF S

\* The last step of rs_net_close keeps the invariant: what pointed to the interface is gone.
LEMMA ClosedKeeps ==
  ASSUME Inv, Closed
  PROVE  Inv'
<1>0. Types /\ UserLists /\ Place /\ Ups /\ Counted /\ Indices /\ Known /\ Listed /\ Forgotten /\ Switch /\ Outlives
  BY DEF Inv, NetInv
<1>1. /\ At("user", "closed") /\ GoesDown /\ vif_started' = vif_started - 1
      /\ roc' = (IF roc # None /\ roc.vif = me THEN None ELSE roc)
      /\ UNCHANGED <<vif_table, avail_idx_map, sta_valid, scanVars, cacVars, dfs_pending, cac_status, chipVars, on>>
  BY DEF Closed, GoesDown
<1>2. me \in Vif /\ "closed" \in U /\ vif \in [Vif -> VifType]
  BY <1>0, <1>1, MeIs DEF Types, IfaceTypes
<1>3. vif[me].up /\ me \notin stack.ap
  BY <1>0, <1>2 DEF Place, NeedUp, Leaving
<1>4. /\ vif' \in [Vif -> VifType]
      /\ \A v \in Vif : /\ vif'[v].reg = vif[v].reg /\ vif'[v].type = vif[v].type
                        /\ vif'[v].stas = vif[v].stas /\ vif'[v].csa = vif[v].csa
                        /\ vif'[v].up = (v # me /\ vif[v].up)
                        /\ v # me => vif'[v] = vif[v]
  BY <1>1, <1>2, GoesDownFields
<1>5. me' = me
  BY <1>1 DEF me
<1>6. Counted' /\ vif_started # 0 /\ vif_started \in Nat
  <2> DEFINE S == {v \in Vif : vif[v].up}
  <2>1. IsFiniteSet(S) /\ me \in S
    BY <1>2, <1>3, VifAssumption, FS_Subset
  <2>2. Cardinality(S \ {me}) = Cardinality(S) - 1 /\ Cardinality(S) \in Nat
    BY <2>1, FS_RemoveElement, FS_CardinalityType
  <2>3. {v \in Vif : vif'[v].up} = S \ {me}
    BY <1>4
  <2>4. Cardinality(S) # 0
    BY <2>1, FS_EmptySet
  <2> QED BY <1>0, <1>1, <2>2, <2>3, <2>4 DEF Counted
<1>7. PICK l \in {<<>>, <<"dev_reset", "me_config", "chan_config">>} : Then("user", l) /\ (l # <<>> => vif_started = 1)
  BY DEF Closed
<1>8. /\ UserLists' /\ todo'["csa"] = todo["csa"]
      /\ U' \subseteq {"dev_reset", "me_config", "chan_config", "unregistered"}
      /\ U \subseteq {"closed", "dev_reset", "me_config", "chan_config", "unregistered"}
      /\ "dev_reset" \in U' => vif_started = 1
  <2>1. "dev_reset" \notin U
    BY <1>0, <1>6 DEF Place
  <2>2. on'["user"] = on["user"]
    BY <1>1
  <2>3. /\ UserLists' /\ todo'["csa"] = todo["csa"]
        /\ U' \subseteq {"dev_reset", "me_config", "chan_config", "unregistered"}
        /\ U \subseteq {"closed", "dev_reset", "me_config", "chan_config", "unregistered"}
        /\ "dev_reset" \in U' => "dev_reset" \in U \/ l # <<>>
    BY <1>0, <1>1, <1>7, <2>2, ClosedList
  <2> QED BY <1>7, <2>1, <2>3
<1>9. \A v \in Vif : /\ ~Going(v)' /\ (Held(v)' => v # me /\ vif[v].up /\ Held(v) /\ ~Going(v) /\ vif'[v] = vif[v])
                     /\ vif'[v].up => Held(v)'
  <2> SUFFICES ASSUME NEW v \in Vif
               PROVE  /\ ~Going(v)' /\ (Held(v)' => v # me /\ vif[v].up /\ Held(v) /\ ~Going(v) /\ vif'[v] = vif[v])
                      /\ vif'[v].up => Held(v)'
    OBVIOUS
  <2>1. "closed" \notin U' /\ "opened" \notin U'
    BY <1>8
  <2>2. ~Going(v)' /\ (Held(v)' <=> vif'[v].up)
    BY <2>1 DEF Going, Held
  <2> QED BY <1>4, <2>2 DEF Held, Going
<1>10. chip' = chip /\ in_recovery' = in_recovery /\ cac_vif' = cac_vif /\ scan_request' = scan_request
  BY <1>1 DEF chipVars, cacVars, scanVars
<1>11. stack' = [stack EXCEPT !.scan = IF @ = me THEN None ELSE @, !.cac = @ \ {me}]
  BY DEF Closed
<1>12. StackTypes' /\ stack'.ap = stack.ap
  <2> DEFINE x == IF stack.scan = me THEN None ELSE stack.scan
             y == stack.cac \ {me}
  <2>1. stack \in [scan : Vif \cup {None}, cac : SUBSET Vif, ap : SUBSET Vif]
    BY <1>0 DEF Types, StackTypes
  <2>2. x \in Vif \cup {None} /\ y \in SUBSET Vif
    BY <2>1
  <2>3. stack' = [[stack EXCEPT !.scan = x] EXCEPT !.cac = y]
    BY <1>11, <2>1
  <2> HIDE DEF x, y
  <2> QED BY <2>1, <2>2, <2>3 DEF StackTypes
<1>13. Types'
  <2>1. detect' \in BOOLEAN /\ roc' \in {roc, None}
    <3>1. detect' \in {detect, FALSE}
      BY DEF Closed
    <3> QED BY <1>0, <1>1, <3>1 DEF Types, RequestTypes
  <2>2. RequestTypes'
    BY <1>0, <1>1, <2>1 DEF Types, RequestTypes, scanVars, cacVars
  <2> QED BY <1>0, <1>1, <1>4, <1>12, <2>2 DEF Types, IfaceTypes, ChipTypes, IndTypes, OnTypes, chipVars
<1>14. Place'
  <2>1. "dev_reset" \in U' => vif_started' = 0
    BY <1>1, <1>8
  <2>2. ~vif'[me].up
    BY <1>2, <1>4
  <2> QED BY <1>2, <1>5, <1>8, <2>1, <2>2 DEF Place, Opening, NeedUp, Leaving, Asking, Changing
<1>15. Ups'
  BY <1>0, <1>3, <1>4, <1>12 DEF Ups
<1>16. Indices'
  BY <1>0, <1>1, <1>9 DEF Indices
<1>17. Known' /\ Forgotten'
  BY <1>0, <1>8, <1>9, <1>10 DEF Known, Forgotten
<1>18. Listed'
  <2> SUFFICES ASSUME ~in_recovery'
               PROVE  /\ \A v \in Vif : vif'[v].stas # {} => v \in stack'.ap
                      /\ \A v \in Vif : Held(v)' /\ ~Going(v)' /\ vif'[v].type = "ap" =>
                           /\ vif'[v].idx \notin chip'.join
                           /\ vif'[v].stas = {s \in StaIndex : chip'.stas[s] = vif'[v].idx}
    BY <1>8 DEF Listed
  <2>1. \A v \in Vif : vif'[v].stas # {} => v \in stack'.ap
    BY <1>0, <1>4, <1>10, <1>12 DEF Listed
  <2>2. ASSUME NEW v \in Vif, Held(v)', vif'[v].type = "ap"
        PROVE  vif'[v].idx \notin chip'.join /\ vif'[v].stas = {s \in StaIndex : chip'.stas[s] = vif'[v].idx}
    BY <1>0, <1>9, <1>10, <2>2 DEF Listed
  <2> QED BY <2>1, <2>2
<1>19. Outlives'
  <2>1. scan_request = None /\ cac_vif = None
    BY <1>0, <1>2, <1>8 DEF Outlives, Leaving
  <2>2. roc' # None => roc'.vif # None /\ vif'[roc'.vif].up
    <3> SUFFICES ASSUME roc' # None PROVE roc'.vif # None /\ vif'[roc'.vif].up
      OBVIOUS
    <3>1. roc # None /\ roc.vif # me /\ roc' = roc
      BY <1>1
    <3>2. roc.vif \in Vif /\ vif[roc.vif].up /\ roc.vif # None
      BY <1>0, <3>1 DEF Types, RequestTypes, Outlives, NothingOutlivesItsInterface, IsUp
    <3> QED BY <1>4, <3>1, <3>2
  <2>3. NothingOutlivesItsInterface'
    BY <1>10, <2>1, <2>2 DEF NothingOutlivesItsInterface, IsUp
  <2> QED BY <1>8, <2>3 DEF Outlives, Leaving
<1>20. Switch'
  <2>1. \A v \in Vif : vif'[v].csa = vif[v].csa
    BY <1>4
  <2> QED BY <1>0, <1>1, <1>8, <2>1 DEF Switch, At
<1> QED BY <1>6, <1>8, <1>13, <1>14, <1>15, <1>16, <1>17, <1>18, <1>19, <1>20 DEF Inv, NetInv


\* The reset after the last interface keeps the invariant: no interface is open.
LEMMA DevResetKeeps ==
  ASSUME Inv, DevReset
  PROVE  Inv'
<1>0. Types /\ UserLists /\ Place /\ Counted /\ Listed
  BY DEF Inv, NetInv
<1>1. At("user", "dev_reset") /\ Done("user") /\ Ask(ChipOff) /\ UNCHANGED sameVars /\ UNCHANGED indq
  BY DEF DevReset, sameVars
<1>2. vif' = vif /\ stack' = stack /\ on' = on /\ me' = me /\ vif_started' = vif_started
  BY <1>1 DEF sameVars, netVars, me
<1>3. /\ UserLists' /\ Quiet("dev_reset") /\ todo'["csa"] = todo["csa"]
      /\ U' \subseteq {"dev_reset", "me_config", "chan_config", "unregistered"} /\ "dev_reset" \in U
  <2>1. After("dev_reset") = {"dev_reset", "me_config", "chan_config", "unregistered"}
    BY DEF After, Last
  <2> QED BY <1>0, <1>1, <1>2, <2>1, UserDone
<1>4. \A v \in Vif : ~vif[v].up
  <2> DEFINE S == {v \in Vif : vif[v].up}
  <2>1. vif_started = 0 /\ Cardinality(S) = 0
    BY <1>0, <1>3 DEF Place, Counted
  <2>2. IsFiniteSet(S)
    BY VifAssumption, FS_Subset
  <2>3. S = {}
    BY <2>1, <2>2, FS_EmptySet
  <2> QED BY <2>3
<1>5. \A v \in Vif : ~Held(v)'
  BY <1>2, <1>3, <1>4 DEF Held
<1>6. ChipTypes'
  BY <1>0, <1>1, ChipOffTyped, AskTyped
<1>7. in_recovery' \/ (chip' = ChipOff /\ ~in_recovery)
  BY <1>1 DEF Ask, Answered, NotAnswered
<1>8. SameIfaces /\ SameStas /\ SameCsa
  BY <1>1, <1>2 DEF SameIfaces, SameStas, SameCsa, sameVars, netVars
<1>9. RequestTypes' /\ FewerRequests
  BY <1>0, <1>1, RequestsSame DEF sameVars
<1>10. Types'
  BY <1>0, <1>1, <1>6, <1>9 DEF Types, IfaceTypes, StackTypes, OnTypes, IndTypes, sameVars, netVars
<1>11. Place' /\ Ups' /\ Counted' /\ Indices'
  <2>1. "dev_reset" \notin Leaving \cup {"if_add"}
    BY DEF Leaving
  <2> QED BY <1>3, <1>8, <2>1, PlaceKept, UpsKept, CountedKept, IndicesKept DEF Inv, NetInv
<1>12. Known'
  BY <1>3, <1>5 DEF Known
<1>13. Forgotten'
  <2>1. ChipOff.join = {} /\ \A s \in StaIndex : ChipOff.stas[s] = None
    BY DEF ChipOff
  <2> QED BY <1>7, <2>1, IndexAssumption DEF Forgotten
<1>14. Listed'
  <2>1. "ap_stopped" \notin U'
    BY <1>3
  <2> QED BY <1>0, <1>2, <1>5, <1>7, <2>1 DEF Listed
<1>15. Outlives' /\ Switch'
  BY <1>3, <1>8, <1>9, RequestsKept, SwitchKept DEF Inv, NetInv, SameSwitch
<1> QED BY <1>3, <1>10, <1>11, <1>12, <1>13, <1>14, <1>15 DEF Inv, NetInv

\* An interface that is not open is deleted, changed, or made anew.
DownChanged(x) ==
  /\ ~vif[x].up /\ ~vif'[x].up /\ vif'[x].stas \subseteq vif[x].stas /\ vif'[x].csa = vif[x].csa
  /\ \A v \in Vif \ {x} : vif'[v] = vif[v]
  /\ UNCHANGED <<vif_table, vif_started, chip, in_recovery, stack, scanVars, roc, cacVars, on>>
  /\ todo'["csa"] = todo["csa"]

\* A step that changes a closed interface only keeps the invariant.
LEMMA DownKeeps ==
  ASSUME Inv, NEW x \in Vif, DownChanged(x), Types', UserLists', U' = {}, "closed" \notin U
  PROVE  Inv'
<1>0. Types /\ UserLists /\ Place /\ Ups /\ Counted /\ Indices /\ Known /\ Listed /\ Forgotten /\ Switch /\ Outlives
  BY DEF Inv, NetInv
<1>1. /\ UNCHANGED <<vif_table, vif_started, chip, in_recovery, stack, scanVars, roc, cacVars, on>> /\ todo'["csa"] = todo["csa"]
      /\ \A v \in Vif : vif'[v].up => vif[v].up /\ vif'[v] = vif[v]
      /\ \A v \in Vif : vif[v].up => vif'[v].up /\ vif'[v] = vif[v]
      /\ \A v \in Vif : vif'[v].csa = vif[v].csa /\ vif'[v].stas \subseteq vif[v].stas
  BY DEF DownChanged
<1>2. Place' /\ \A v \in Vif : (Held(v)' <=> vif'[v].up) /\ ~Going(v)'
  BY Idle
<1>3. \A v \in Vif : ~Going(v) /\ (Held(v)' => Held(v) /\ vif'[v] = vif[v])
  BY <1>1, <1>2 DEF Held, Going
<1>4. Ups'
  BY <1>0, <1>1 DEF Ups
<1>5. Counted'
  <2>1. {v \in Vif : vif'[v].up} = {v \in Vif : vif[v].up}
    BY <1>1
  <2> QED BY <1>0, <1>1, <2>1 DEF Counted
<1>6. Indices'
  BY <1>0, <1>1, <1>3 DEF Indices
<1>7. Known' /\ Forgotten'
  BY <1>0, <1>1, <1>3 DEF Known, Forgotten
<1>8. Listed'
  <2> SUFFICES ASSUME ~in_recovery'
               PROVE  /\ \A v \in Vif : vif'[v].stas # {} => v \in stack'.ap
                      /\ \A v \in Vif : Held(v)' /\ ~Going(v)' /\ vif'[v].type = "ap" =>
                           /\ vif'[v].idx \notin chip'.join
                           /\ vif'[v].stas = {s \in StaIndex : chip'.stas[s] = vif'[v].idx}
    BY DEF Listed
  <2>1. \A v \in Vif : vif'[v].stas # {} => v \in stack'.ap
    BY <1>0, <1>1 DEF Listed
  <2>2. ASSUME NEW v \in Vif, Held(v)', vif'[v].type = "ap"
        PROVE  vif'[v].idx \notin chip'.join /\ vif'[v].stas = {s \in StaIndex : chip'.stas[s] = vif'[v].idx}
    BY <1>0, <1>1, <1>3, <2>2 DEF Listed
  <2> QED BY <2>1, <2>2
<1>9. Outlives'
  <2>1. scan_request \in Vif \cup {None} /\ cac_vif \in Vif \cup {None} /\ (roc # None => roc.vif \in Vif)
    BY <1>0 DEF Types, RequestTypes
  <2>2. NothingOutlivesItsInterface'
    BY <1>0, <1>1, <2>1 DEF Outlives, NothingOutlivesItsInterface, IsUp, scanVars, cacVars
  <2> QED BY <2>2 DEF Outlives
<1>10. Switch'
  BY <1>0, <1>1 DEF Switch, At
<1> QED BY <1>2, <1>4, <1>5, <1>6, <1>7, <1>8, <1>9, <1>10 DEF Inv, NetInv

\* An interface that is unregistered was closed before.
LEMMA UnregisteredKeeps ==
  ASSUME Inv, Unregistered
  PROVE  Inv'
<1>0. Types /\ UserLists /\ Place
  BY DEF Inv, NetInv
<1>1. /\ At("user", "unregistered") /\ Done("user") /\ vif' = [vif EXCEPT ![me].reg = FALSE]
      /\ avail_idx_map' = avail_idx_map \cup ({vif[me].idx} \cap VifIndex)
      /\ UNCHANGED <<vif_table, vif_started, sta_valid, scanVars, roc, cacVars, dfsVars, chipVars, stack, on>>
  BY DEF Unregistered
<1>2. UserLists' /\ U' = {} /\ U = {"unregistered"} /\ todo'["csa"] = todo["csa"]
  BY <1>0, <1>1, LastDone DEF Last
<1>3. me \in Vif /\ vif \in [Vif -> VifType] /\ ~vif[me].up
  BY <1>0, <1>1, <1>2, MeIs DEF Types, IfaceTypes, Place
<1>4. /\ vif' \in [Vif -> VifType] /\ ~vif'[me].up /\ vif'[me].stas = vif[me].stas /\ vif'[me].csa = vif[me].csa
      /\ \A v \in Vif \ {me} : vif'[v] = vif[v]
  <2> DEFINE w == vif[me]
             r == [w EXCEPT !.reg = FALSE]
  <2>1. w \in VifType /\ vif' = [vif EXCEPT ![me] = r]
    BY <1>1, <1>3
  <2> HIDE DEF w
  <2>2. r \in VifType /\ r.up = w.up /\ r.stas = w.stas /\ r.csa = w.csa
    BY <2>1 DEF VifType
  <2> HIDE DEF r
  <2>3. vif' \in [Vif -> VifType] /\ \A v \in Vif : vif'[v] = IF v = me THEN r ELSE vif[v]
    BY <1>3, <2>1, <2>2
  <2> QED BY <1>3, <2>2, <2>3 DEF w
<1>5. Types'
  <2>1. RequestTypes'
    BY <1>0, <1>1, RequestsSame
  <2> QED BY <1>0, <1>1, <1>4, <2>1 DEF Types, IfaceTypes, ChipTypes, IndTypes, StackTypes, OnTypes, chipVars
<1>6. DownChanged(me)
  BY <1>1, <1>2, <1>3, <1>4 DEF DownChanged, chipVars
<1> QED BY <1>2, <1>3, <1>5, <1>6, DownKeeps

ChangesType(t) ==
  vif' = [vif EXCEPT ![me].type = t, ![me].ap = IF t = "sta" THEN None ELSE @,
                     ![me].stas = IF t = "ap" THEN {} ELSE @]

\* The type of an interface is changed while it is closed.
LEMMA ChangedKeeps ==
  ASSUME Inv, NEW t \in {"sta", "ap"}, Changed(t)
  PROVE  Inv'
<1>0. Types /\ UserLists /\ Place
  BY DEF Inv, NetInv
<1>1. /\ At("user", ChangeTo(t)) /\ Done("user") /\ ChangesType(t)
      /\ UNCHANGED <<vif_table, vif_started, avail_idx_map, sta_valid, scanVars, roc, cacVars, dfsVars, chipVars, stack, on>>
  BY DEF Changed, ChangesType
<1>2. ChangeTo(t) \in Changing /\ ChangeTo(t) \in Last
  BY DEF ChangeTo, Changing, Last
<1>3. UserLists' /\ U' = {} /\ U = {ChangeTo(t)} /\ todo'["csa"] = todo["csa"]
  BY <1>0, <1>1, <1>2, LastDone
<1>4. me \in Vif /\ vif \in [Vif -> VifType] /\ ~vif[me].up
  BY <1>0, <1>1, <1>2, <1>3, MeIs DEF Types, IfaceTypes, Place
<1>5. /\ vif' \in [Vif -> VifType] /\ ~vif'[me].up /\ vif'[me].stas \subseteq vif[me].stas /\ vif'[me].csa = vif[me].csa
      /\ \A v \in Vif \ {me} : vif'[v] = vif[v]
  <2> DEFINE w  == vif[me]
             a  == IF t = "sta" THEN None ELSE w.ap
             st == IF t = "ap" THEN {} ELSE w.stas
             r1 == [w EXCEPT !.type = t]
             r2 == [r1 EXCEPT !.ap = a]
             r3 == [r2 EXCEPT !.stas = st]
  <2>1. w \in VifType /\ vif' = [vif EXCEPT ![me] = r3]
    BY <1>1, <1>4 DEF ChangesType, VifType
  <2> HIDE DEF w
  <2>2. a \in StaIndex \cup {None} /\ st \in SUBSET StaIndex /\ st \subseteq w.stas
    BY <2>1 DEF VifType
  <2> HIDE DEF a, st
  <2>3. r1 \in VifType /\ r1.up = w.up /\ r1.stas = w.stas /\ r1.csa = w.csa
    BY <2>1 DEF VifType
  <2> HIDE DEF r1
  <2>4. r2 \in VifType /\ r2.up = r1.up /\ r2.stas = r1.stas /\ r2.csa = r1.csa
    BY <2>2, <2>3 DEF VifType
  <2> HIDE DEF r2
  <2>5. r3 \in VifType /\ r3.up = r2.up /\ r3.stas = st /\ r3.csa = r2.csa
    BY <2>2, <2>4 DEF VifType
  <2> HIDE DEF r3
  <2>6. vif' \in [Vif -> VifType] /\ \A v \in Vif : vif'[v] = IF v = me THEN r3 ELSE vif[v]
    BY <1>4, <2>1, <2>5
  <2> QED BY <1>4, <2>2, <2>3, <2>4, <2>5, <2>6 DEF w
<1>6. Types'
  <2>1. RequestTypes'
    BY <1>0, <1>1, RequestsSame
  <2> QED BY <1>0, <1>1, <1>5, <2>1 DEF Types, IfaceTypes, ChipTypes, IndTypes, StackTypes, OnTypes, chipVars
<1>7. DownChanged(me)
  BY <1>1, <1>3, <1>4, <1>5 DEF DownChanged, chipVars
<1>8. "closed" \notin U
  BY <1>2, <1>3 DEF Changing
<1> QED BY <1>3, <1>4, <1>6, <1>7, <1>8, DownKeeps


\* The ends of scans and CACs.
Ending == {"scan_stop", "scan_clear", "cac_stop", "cac_end"}

\* A step that ends a scan or a CAC for a call that closes keeps the invariant when the
\* pointer is gone or another step is left to clear it.
LEMMA EndingKeeps ==
  ASSUME Inv, Types', UserLists', NEW h \in Ending, Quiet(h), Rest, todo'["csa"] = todo["csa"], Outlives'
  PROVE  Inv'
<1>1. h \notin Leaving \cup {"if_add", "dev_start", "del_stations"}
  BY DEF Ending, Leaving
<1>2. SameIfaces /\ SameStas /\ SameChip /\ SameVifs /\ SameChipSta /\ SameCsa
  BY DEF Rest, Others, SameChip, SameVifs
<1>3. Place' /\ Ups' /\ Counted' /\ Indices' /\ Known'
  BY <1>1, <1>2, CoreKept
<1>4. Forgotten' /\ Listed'
  BY <1>1, <1>2, ForgottenKept, ListedKept DEF Inv, NetInv
<1>5. Switch'
  BY <1>2, SwitchKept DEF Inv, NetInv, SameSwitch
<1> QED BY <1>3, <1>4, <1>5 DEF Inv, NetInv

\* What is left of them once h is done, while the interface is being closed.
LEMMA EndingLeft ==
  ASSUME Inv, NEW h, Quiet(h), SameIfaces, FewerRequests,
         U' \cap Leaving # {} /\ "scan_stop" \in U /\ h = "scan_stop" => scan_request' = None \/ "scan_clear" \in U',
         U' \cap Leaving # {} /\ "scan_clear" \in U /\ h = "scan_clear" => scan_request' = None \/ "scan_stop" \in U',
         U' \cap Leaving # {} /\ "cac_stop" \in U /\ h = "cac_stop" => cac_vif' = None \/ "cac_end" \in U',
         U' \cap Leaving # {} /\ "cac_end" \in U /\ h = "cac_end" => cac_vif' = None \/ "cac_stop" \in U'
  PROVE  Outlives'
<1>1. NothingOutlivesItsInterface'
  <2>1. scan_request \in Vif \cup {None} /\ cac_vif \in Vif \cup {None} /\ (roc # None => roc.vif \in Vif)
    BY DEF Inv, Types, RequestTypes
  <2>2. NothingOutlivesItsInterface /\ \A v \in Vif : vif'[v].up = vif[v].up
    BY DEF Inv, NetInv, Outlives, SameIfaces
  <2> QED BY <2>1, <2>2 DEF NothingOutlivesItsInterface, IsUp, FewerRequests
<1> SUFFICES ASSUME U' \cap Leaving # {}
             PROVE  /\ scan_request' = None \/ U' \cap {"scan_stop", "scan_clear"} # {}
                    /\ cac_vif' = None \/ U' \cap {"cac_stop", "cac_end"} # {}
  BY <1>1 DEF Outlives
<1>2. {"scan_stop", "scan_clear", "cac_stop", "cac_end"} \subseteq Marks /\ Leaving \subseteq Marks /\ Leaving \cap Begun = {}
  BY DEF Marks, NeedUp, Leaving, Begun
<1>3. U \cap Leaving # {} /\ \A s \in Marks : s # h /\ s \in U => s \in U'
  BY <1>2 DEF Quiet, Quieter
<1>4. /\ scan_request = None \/ U \cap {"scan_stop", "scan_clear"} # {}
      /\ cac_vif = None \/ U \cap {"cac_stop", "cac_end"} # {}
  BY <1>3 DEF Inv, NetInv, Outlives
<1>5. scan_request' = None \/ U' \cap {"scan_stop", "scan_clear"} # {}
  BY <1>2, <1>3, <1>4 DEF FewerRequests
<1>6. cac_vif' = None \/ U' \cap {"cac_stop", "cac_end"} # {}
  BY <1>2, <1>3, <1>4 DEF FewerRequests
<1> QED BY <1>5, <1>6

\* A step that begins the end of something, and leaves the rest of its list.
LEMMA BeginsQuietly ==
  ASSUME UserLists, NEW h \in Marks, h # "closed", At("user", h), NEW l \in Seq(UserStep \ Special), Steps(l) \cap Marks \subseteq Begun,
         Then("user", l), on'["user"] = on["user"]
  PROVE  UserLists' /\ Quiet(h) /\ todo'["csa"] = todo["csa"] /\ Steps(l) \subseteq U'
<1>1. /\ UserLists' /\ h \in U /\ todo'["csa"] = todo["csa"]
      /\ \E R : ListOK(R) /\ U = {h} \cup Steps(R) /\ U' = Steps(l) \cup Steps(R)
  BY UserThen
<1>2. PICK R : U = {h} \cup Steps(R) /\ U' = Steps(l) \cup Steps(R)
  BY <1>1
<1>3. ~At("user", "closed")
  BY DEF At
<1>4. Quieter(h)
  BY <1>2, <1>3 DEF Quieter
<1> QED BY <1>1, <1>2, <1>4 DEF Quiet, SameUser, me


\* The begin of a scan keeps the invariant: its interface is open.
LEMMA ScanBegunKeeps ==
  ASSUME Inv, ScanBegun
  PROVE  Inv'
<1>0. Types /\ UserLists /\ Place
  BY DEF Inv, NetInv
<1>1. /\ At("user", "scan_begun") /\ Done("user") /\ scan_request' = me /\ scan' = TRUE
      /\ stack' = [stack EXCEPT !.scan = me] /\ UNCHANGED requestFree /\ UNCHANGED <<roc, cacVars, dfsVars>>
  BY DEF ScanBegun, requestFree
<1>2. UserLists' /\ U' = {} /\ U = {"scan_begun"} /\ todo'["csa"] = todo["csa"]
  BY <1>0, <1>1, LastDone DEF Last, requestFree
<1>3. me \in Vif /\ vif[me].up /\ me # None
  BY <1>0, <1>1, <1>2, MeIs, VifAssumption DEF Place, NeedUp
<1>4. RequestTypes'
  BY <1>0, <1>1, <1>3 DEF Types, RequestTypes, cacVars, dfsVars
<1>5. StackTypes' /\ stack'.ap = stack.ap
  BY <1>0, <1>1, <1>3 DEF Types, StackTypes
<1>6. Types'
  BY <1>0, <1>1, <1>4, <1>5 DEF Types, IfaceTypes, ChipTypes, IndTypes, OnTypes, requestFree, netVars, chipVars
<1>7. SameIfaces /\ SameStas /\ SameChip /\ SameVifs /\ SameChipSta /\ SameCsa
  BY <1>0, <1>1, <1>5 DEF SameIfaces, SameStas, SameChip, SameVifs, SameChipSta, SameCsa, Types, ChipTypes,
     requestFree, netVars, chipVars
<1>8. Quiet("scan_begun")
  <2>1. UserLists' /\ Quiet("scan_begun")
    BY <1>0, <1>1, UserDone DEF requestFree
  <2> QED BY <2>1
<1>9. Place' /\ Ups' /\ Counted' /\ Indices' /\ Known'
  BY <1>7, <1>8, CoreKept DEF Leaving
<1>10. Forgotten' /\ Listed' /\ Switch'
  BY <1>2, <1>7, <1>8, ForgottenKept, ListedKept, SwitchKept DEF Inv, NetInv, SameSwitch, Leaving
<1>11. Outlives'
  <2>1. cac_vif \in Vif \cup {None} /\ (roc # None => roc.vif \in Vif) /\ vif' = vif /\ cac_vif' = cac_vif /\ roc' = roc
    BY <1>0, <1>1 DEF Types, RequestTypes, requestFree, netVars, cacVars
  <2>2. NothingOutlivesItsInterface'
    BY <1>1, <1>3, <2>1 DEF Inv, NetInv, Outlives, NothingOutlivesItsInterface, IsUp
  <2> QED BY <1>2, <2>2 DEF Outlives
<1> QED BY <1>2, <1>6, <1>9, <1>10, <1>11 DEF Inv, NetInv

\* The stop of a scan keeps the invariant: no scan, or scan_clear is to come.
LEMMA ScanStopKeeps ==
  ASSUME Inv, ScanStop
  PROVE  Inv'
<1>0. Types /\ UserLists /\ Place
  BY DEF Inv, NetInv
<1> DEFINE l == IF scan_request # None /\ vif[me].up
                THEN <<"scan_cancel", "scan_wait", "scan_test", "scan_clear", "scan_gate">> ELSE <<>>
<1>1. /\ At("user", "scan_stop") /\ Then("user", l) /\ UNCHANGED requestFree
      /\ UNCHANGED <<scanVars, roc, cacVars, dfsVars, stack>>
  BY DEF ScanStop, requestFree
<1>2. /\ l \in Seq(UserStep \ Special)
      /\ Steps(l) \subseteq {"scan_cancel", "scan_wait", "scan_test", "scan_clear", "scan_gate"}
      /\ scan_request # None /\ vif[me].up => "scan_clear" \in Steps(l)
  <2> DEFINE m == <<"scan_cancel", "scan_wait", "scan_test", "scan_clear", "scan_gate">>
  <2>1. {"scan_cancel", "scan_wait", "scan_test", "scan_clear", "scan_gate"} \subseteq UserStep \ Special
    BY DEF UserStep, Special, Last
  <2>2. m \in Seq(UserStep \ Special) /\ Steps(m) = {"scan_cancel", "scan_wait", "scan_test", "scan_clear", "scan_gate"}
    BY <2>1, FiveSteps
  <2>3. <<>> \in Seq(UserStep \ Special) /\ Steps(<<>>) = {}
    BY NoStep
  <2>4. IF scan_request # None /\ vif[me].up THEN l = m ELSE l = <<>>
    OBVIOUS
  <2> HIDE DEF l, m
  <2> QED BY <2>2, <2>3, <2>4
<1> HIDE DEF l
<1>3. Steps(l) \cap Marks \subseteq Begun
  BY <1>2, Unmarked DEF Begun
<1>4. "scan_stop" \in Marks
  BY DEF Marks
<1>5. UserLists' /\ Quiet("scan_stop") /\ todo'["csa"] = todo["csa"] /\ Steps(l) \subseteq U'
  BY <1>0, <1>1, <1>2, <1>3, <1>4, BeginsQuietly DEF requestFree
<1>6. RequestTypes' /\ FewerRequests /\ StackTypes'
  BY <1>0, <1>1, RequestsSame DEF Types, StackTypes
<1>7. Types' /\ Rest
  BY <1>0, <1>1, <1>6, RequestRest
<1>8. Outlives'
  <2>1. U' \cap Leaving # {} => scan_request' = None \/ "scan_clear" \in U'
    <3> SUFFICES ASSUME U' \cap Leaving # {}, scan_request # None PROVE "scan_clear" \in U'
      BY <1>1 DEF scanVars
    <3>1. U \cap Leaving # {}
      BY <1>5 DEF Quiet, Quieter, Marks, NeedUp, Leaving, Begun
    <3>2. vif[me].up
      BY <1>0, <3>1 DEF Place, NeedUp
    <3> QED BY <1>2, <1>5, <3>2
  <2>2. SameIfaces
    BY <1>7 DEF Rest, Others
  <2> QED BY <1>5, <1>6, <2>1, <2>2, EndingLeft
<1> QED BY <1>5, <1>7, <1>8, EndingKeeps DEF Ending

\* The clearing of a scan keeps the invariant: there is none now.
LEMMA ScanClearKeeps ==
  ASSUME Inv, ScanClear("user")
  PROVE  Inv'
<1>0. Types /\ UserLists
  BY DEF Inv
<1>1. /\ At("user", "scan_clear") /\ Done("user") /\ scan_request' = None /\ UNCHANGED requestFree
      /\ UNCHANGED <<scan, roc, cacVars, dfsVars, stack>>
  BY DEF ScanClear, requestFree
<1>2. UserLists' /\ Quiet("scan_clear") /\ todo'["csa"] = todo["csa"]
  BY <1>0, <1>1, UserDone DEF requestFree
<1>3. RequestTypes' /\ FewerRequests /\ StackTypes'
  BY <1>0, <1>1 DEF Types, RequestTypes, FewerRequests, StackTypes, cacVars, dfsVars
<1>4. Types' /\ Rest
  BY <1>0, <1>1, <1>3, RequestRest
<1>5. SameIfaces
  BY <1>4 DEF Rest, Others
<1>6. Outlives'
  BY <1>1, <1>2, <1>3, <1>5, EndingLeft
<1> QED BY <1>2, <1>4, <1>6, EndingKeeps DEF Ending

\* The stop of a CAC keeps the invariant: no CAC, or cac_end is to come.
LEMMA CacStopKeeps ==
  ASSUME Inv, CacStop("user")
  PROVE  Inv'
<1>0. Types /\ UserLists
  BY DEF Inv
<1> DEFINE l == <<"cac_stop_req", "cac_end">>
<1>1. /\ At("user", "cac_stop") /\ cac_pending' = (cac_pending /\ cac_vif = None) /\ UNCHANGED requestFree
      /\ UNCHANGED <<scanVars, roc, dfsVars>>
      /\ \/ Then("user", l) /\ cac_vif' = cac_vif
         \/ Done("user") /\ cac_vif' = None
  BY DEF CacStop, requestFree
<1>2. /\ l \in Seq(UserStep \ Special) /\ Steps(l) = {"cac_stop_req", "cac_end"}
  <2>1. "cac_stop_req" \in UserStep \ Special /\ "cac_end" \in UserStep \ Special
    BY DEF UserStep, Special, Last
  <2>2. l \in Seq(UserStep \ Special)
    BY <2>1
  <2> QED BY <2>1, <2>2, TwoSteps, AfterOther
<1> HIDE DEF l
<1>3. Steps(l) \cap Marks \subseteq Begun /\ "cac_stop" \in Marks
  BY <1>2, Unmarked DEF Begun, Marks
<1>4. UserLists' /\ Quiet("cac_stop") /\ todo'["csa"] = todo["csa"] /\ (cac_vif' = None \/ "cac_end" \in U')
  <2>1. CASE Then("user", l)
    BY <1>0, <1>1, <1>2, <1>3, <2>1, BeginsQuietly DEF requestFree
  <2>2. CASE Done("user") /\ cac_vif' = None
    BY <1>0, <1>1, <2>2, UserDone DEF requestFree
  <2> QED BY <1>1, <2>1, <2>2
<1>5. StackTypes' /\ stack'.ap = stack.ap
  <2>1. stack' = stack \/ stack' = [stack EXCEPT !.cac = @ \ {cac_vif}]
    <3>1. stack' = stack \/ stack' = [stack EXCEPT !.cac = IF HasChan(cac_vif) THEN @ \ {cac_vif} ELSE @]
      BY DEF CacStop
    <3> QED BY <1>0, <3>1 DEF Types, StackTypes
  <2> QED BY <1>0, <2>1 DEF Types, StackTypes
<1>6. RequestTypes' /\ FewerRequests
  BY <1>0, <1>1 DEF Types, RequestTypes, FewerRequests, scanVars, dfsVars
<1>7. Types' /\ Rest
  BY <1>0, <1>1, <1>5, <1>6, RequestRest
<1>8. SameIfaces
  BY <1>7 DEF Rest, Others
<1>9. Outlives'
  BY <1>4, <1>6, <1>8, EndingLeft
<1> QED BY <1>4, <1>7, <1>9, EndingKeeps DEF Ending

\* The end of a CAC keeps the invariant: there is none now.
LEMMA CacEndKeeps ==
  ASSUME Inv, CacEnd("user")
  PROVE  Inv'
<1>0. Types /\ UserLists
  BY DEF Inv
<1>1. /\ At("user", "cac_end") /\ Done("user") /\ cac_vif' = None
      /\ UNCHANGED <<vif_table, vif_started, avail_idx_map, on, sta_valid, scanVars, roc, cac_pending, dfs_pending,
                     cac_status, chipVars, stack>>
  BY DEF CacEnd
<1>2. vif' \in [Vif -> VifType] /\ SameView /\ detect' \in {detect, FALSE}
  <2>1. CASE cac_vif = None
    <3>1. vif' = vif /\ detect' = detect
      BY <2>1 DEF CacEnd
    <3> QED BY <1>0, <3>1 DEF Types, IfaceTypes, SameView, SameRecord
  <2>2. CASE cac_vif # None
    <3>1. Unset(cac_vif)
      BY <2>2 DEF CacEnd
    <3> QED BY <1>0, <3>1, UnsetView
  <2> QED BY <2>1, <2>2
<1>3. RequestTypes' /\ FewerRequests
  BY <1>0, <1>1, <1>2 DEF Types, RequestTypes, FewerRequests, scanVars
<1>4. ChipTypes' /\ SameChip /\ SameChipSta /\ IndTypes' /\ StackTypes' /\ stack'.ap = stack.ap /\ sta_valid' \subseteq StaIndex
  BY <1>0, <1>1, ChipSame DEF Types, IndTypes, StackTypes, IfaceTypes, chipVars
<1>5. Types' /\ Rest /\ on'["user"] = on["user"]
  BY <1>0, <1>1, <1>2, <1>3, <1>4, ViewRest
<1>6. UserLists' /\ Quiet("cac_end") /\ todo'["csa"] = todo["csa"]
  BY <1>0, <1>1, <1>5, UserDone
<1>7. SameIfaces
  BY <1>5 DEF Rest, Others
<1>8. Outlives'
  BY <1>1, <1>3, <1>6, <1>7, EndingLeft
<1> QED BY <1>5, <1>6, <1>8, EndingKeeps DEF Ending


\* Connections are asked for, and ended.
LEMMA AskingPlace ==
  ASSUME Inv, NEW h \in Asking, At("user", h)
  PROVE  /\ me \in Vif /\ vif[me].up /\ vif[me].type = "sta" /\ vif[me].idx \in VifIndex /\ Held(me) /\ ~Going(me)
         /\ \A v \in Vif : Held(v) /\ ~Going(v) /\ vif[v].type = "ap" => vif[v].idx # vif[me].idx /\ vif[v].idx \in VifIndex
<1>1. me \in Vif /\ h \in U /\ ~Going(me)
  BY MeIs DEF Asking
<1>2. vif[me].up /\ vif[me].type = "sta"
  BY <1>1 DEF Inv, NetInv, Place, NeedUp
<1>3. Held(me)
  BY <1>2 DEF Held
<1> QED BY <1>1, <1>2, <1>3 DEF Inv, NetInv, Indices

\* The chip's connections and stations change.
LEMMA AskingKeeps ==
  ASSUME Inv, NEW h \in Asking \cup {"csa_req"}, At("user", h), Done("user"), UNCHANGED sameVars, ChipTypes', IndTypes', SameChip,
         Forgotten',
         ~in_recovery' => \A v \in Vif : Held(v) /\ ~Going(v) /\ vif[v].type = "ap" =>
                            /\ vif[v].idx \notin chip'.join
                            /\ \A s \in StaIndex : chip'.stas[s] = vif[v].idx <=> chip.stas[s] = vif[v].idx
  PROVE  Inv'
<1>0. Types /\ UserLists /\ Place /\ Listed
  BY DEF Inv, NetInv
<1>1. h # "closed" /\ h \notin Leaving \cup {"if_add", "dev_start", "del_stations", "scan_stop", "scan_clear", "cac_stop", "cac_end"}
      /\ h # "ap_stopped"
  BY DEF Asking, Leaving
<1>2. vif' = vif /\ stack' = stack /\ on' = on /\ me' = me
  BY DEF sameVars, netVars, me
<1>3. SameIfaces /\ SameStas /\ SameCsa
  BY <1>2 DEF SameIfaces, SameStas, SameCsa, sameVars, netVars
<1>4. UserLists' /\ Quiet(h) /\ todo'["csa"] = todo["csa"]
  BY <1>0, <1>1, <1>2, UserDone
<1>5. Place' /\ Ups' /\ Counted' /\ Indices' /\ Known'
  BY <1>1, <1>3, <1>4, CoreKept
<1>6. RequestTypes' /\ FewerRequests
  BY <1>0, RequestsSame DEF sameVars
<1>7. Types'
  BY <1>0, <1>6 DEF Types, IfaceTypes, StackTypes, OnTypes, sameVars, netVars
<1>8. Outlives' /\ Switch'
  BY <1>1, <1>3, <1>4, <1>6, RequestsKept, SwitchKept DEF Inv, NetInv, SameSwitch
<1>9. Listed'
  <2> SUFFICES ASSUME ~in_recovery'
               PROVE  (/\ \A v \in Vif : vif[v].stas # {} => v \in stack.ap
                       /\ "ap_stopped" \in U /\ "del_stations" \notin U => vif[me].stas = {}
                       /\ \A v \in Vif : Held(v) /\ ~Going(v) /\ vif[v].type = "ap" =>
                            /\ vif[v].idx \notin chip.join
                            /\ vif[v].stas = {s \in StaIndex : chip.stas[s] = vif[v].idx})'
    BY DEF Listed
  <2>1. ~in_recovery
    BY DEF SameChip
  <2>2. \A v \in Vif : vif[v].stas # {} => v \in stack.ap
    BY <1>0, <2>1 DEF Listed
  <2>3. "ap_stopped" \in U' /\ "del_stations" \notin U' => vif[me].stas = {}
    <3> SUFFICES ASSUME "ap_stopped" \in U', "del_stations" \notin U' PROVE vif[me].stas = {}
      OBVIOUS
    <3>1. "ap_stopped" \in U /\ "del_stations" \notin U
      BY <1>1, <1>4 DEF Quiet, Quieter, Marks, Begun
    <3> QED BY <1>0, <2>1, <3>1 DEF Listed
  <2>4. ASSUME NEW v \in Vif, Held(v)', ~Going(v)', vif[v].type = "ap"
        PROVE  vif[v].idx \notin chip'.join /\ vif[v].stas = {s \in StaIndex : chip'.stas[s] = vif[v].idx}
    <3>1. Held(v) /\ ~Going(v)
      BY <1>0, <1>1, <1>3, <1>4, <2>4, HeldKept
    <3>2. vif[v].stas = {s \in StaIndex : chip.stas[s] = vif[v].idx}
      BY <1>0, <2>1, <2>4, <3>1 DEF Listed
    <3>3. vif[v].idx \notin chip'.join /\ \A s \in StaIndex : chip'.stas[s] = vif[v].idx <=> chip.stas[s] = vif[v].idx
      BY <2>4, <3>1
    <3>4. {s \in StaIndex : chip'.stas[s] = vif[v].idx} = {s \in StaIndex : chip.stas[s] = vif[v].idx}
      BY <3>3
    <3> QED BY <3>2, <3>3, <3>4
  <2> QED BY <1>2, <2>2, <2>3, <2>4
<1> QED BY <1>4, <1>5, <1>7, <1>8, <1>9 DEF Inv, NetInv

\* The request for a connection keeps the invariant.
LEMMA ConnectReqKeeps ==
  ASSUME Inv, ConnectReq
  PROVE  Inv'
<1>0. Types /\ chip \in ChipType /\ Known /\ Listed /\ Forgotten
  BY DEF Inv, NetInv, Types, ChipTypes
<1> DEFINE i == vif[me].idx
           e == [chip EXCEPT !.join = @ \cup {i}]
<1>1. At("user", "connect_req") /\ Done("user") /\ UNCHANGED sameVars /\ indq' = indq /\ (Ask(e) \/ NoMemory)
  BY DEF ConnectReq, sameVars
<1>2. /\ me \in Vif /\ i \in VifIndex /\ Held(me) /\ ~Going(me)
      /\ \A v \in Vif : Held(v) /\ ~Going(v) /\ vif[v].type = "ap" => vif[v].idx # i
  BY <1>1, AskingPlace DEF Asking
<1> HIDE DEF i
<1>3. e \in ChipType /\ e.started = chip.started /\ e.vifs = chip.vifs /\ e.stas = chip.stas /\ e.join = chip.join \cup {i}
  BY <1>0, <1>2 DEF ChipType
<1> HIDE DEF e
<1>4. ChipTypes' /\ IndTypes'
  BY <1>0, <1>1, <1>3, AskTyped DEF Types, IndTypes
<1>5. in_recovery' \/ (~in_recovery /\ ~in_recovery' /\ chip' \in {e, chip})
  BY <1>1 DEF Ask, Answered, NotAnswered, NoMemory
<1>6. SameChip
  BY <1>3, <1>5 DEF SameChip
<1>7. ~in_recovery => chip.vifs[i] # None
  BY <1>0, <1>2, VifAssumption DEF Known, i
<1>8. Forgotten'
  BY <1>0, <1>3, <1>5, <1>7 DEF Forgotten
<1>9. ASSUME ~in_recovery', NEW v \in Vif, Held(v), ~Going(v), vif[v].type = "ap"
      PROVE  /\ vif[v].idx \notin chip'.join
             /\ \A s \in StaIndex : chip'.stas[s] = vif[v].idx <=> chip.stas[s] = vif[v].idx
  BY <1>0, <1>2, <1>3, <1>5, <1>9 DEF Listed
<1> QED BY <1>1, <1>4, <1>6, <1>8, <1>9, AskingKeeps DEF Asking

\* The chip ends the connections of an interface.
Ended(i) == [chip EXCEPT !.join = @ \ {i}, !.stas = [s \in StaIndex |-> IF @[s] = i THEN None ELSE @[s]]]

\* The end of a connection frees the entries of its index.
LEMMA EndedFields ==
  ASSUME chip \in ChipType, NEW i, NEW e, e = Ended(i)
  PROVE  /\ e \in ChipType /\ e.started = chip.started /\ e.vifs = chip.vifs /\ e.join = chip.join \ {i}
         /\ \A s \in StaIndex : e.stas[s] = IF chip.stas[s] = i THEN None ELSE chip.stas[s]
<1> DEFINE c == chip
           stas == [s \in StaIndex |-> IF c.stas[s] = i THEN None ELSE c.stas[s]]
           c1 == [c EXCEPT !.join = @ \ {i}]
           c2 == [c1 EXCEPT !.stas = stas]
<1>1. c \in ChipType /\ stas \in [StaIndex -> VifIndex \cup {None}]
  BY DEF ChipType
<1>2. e = c2
  BY DEF Ended, ChipType
<1>3. \A s \in StaIndex : stas[s] = IF c.stas[s] = i THEN None ELSE c.stas[s]
  OBVIOUS
<1> HIDE DEF c, stas
<1>4. c1 \in ChipType /\ c1.started = c.started /\ c1.vifs = c.vifs /\ c1.join = c.join \ {i}
  BY <1>1 DEF ChipType
<1> HIDE DEF c1
<1>5. c2 \in ChipType /\ c2.started = c1.started /\ c2.vifs = c1.vifs /\ c2.join = c1.join /\ c2.stas = stas
  BY <1>1, <1>4 DEF ChipType
<1> HIDE DEF c2
<1> QED BY <1>2, <1>3, <1>4, <1>5 DEF c

\* The request to end a connection keeps the invariant.
LEMMA DisconnectReqKeeps ==
  ASSUME Inv, DisconnectReq
  PROVE  Inv'
<1>0. Types /\ chip \in ChipType /\ Known /\ Listed /\ Forgotten
  BY DEF Inv, NetInv, Types, ChipTypes
<1> DEFINE i == vif[me].idx
           e == Ended(i)
<1>1. At("user", "disconnect_req") /\ Done("user") /\ UNCHANGED sameVars /\ Ask(e)
  BY DEF DisconnectReq, Ended, sameVars
<1>2. /\ me \in Vif /\ i \in VifIndex
      /\ \A v \in Vif : Held(v) /\ ~Going(v) /\ vif[v].type = "ap" => vif[v].idx # i /\ vif[v].idx \in VifIndex
  BY <1>1, AskingPlace DEF Asking
<1>3. indq' \in {indq, Append(indq, [is |-> "disconnect", idx |-> i])}
  BY DEF DisconnectReq
<1> HIDE DEF i
<1>4. /\ e \in ChipType /\ e.started = chip.started /\ e.vifs = chip.vifs /\ e.join = chip.join \ {i}
      /\ \A s \in StaIndex : e.stas[s] = IF chip.stas[s] = i THEN None ELSE chip.stas[s]
  BY <1>0, EndedFields
<1> HIDE DEF e
<1>5. ChipTypes' /\ IndTypes'
  <2>1. [is |-> "disconnect", idx |-> i] \in Indication
    BY <1>2 DEF Indication
  <2>2. IndTypes'
    BY <1>0, <1>3, <2>1 DEF Types, IndTypes
  <2> QED BY <1>0, <1>1, <1>4, <2>2, AskTyped
<1>6. in_recovery' \/ (~in_recovery /\ ~in_recovery' /\ chip' = e)
  BY <1>1 DEF Ask, Answered, NotAnswered
<1>7. SameChip
  BY <1>4, <1>6 DEF SameChip
<1>8. Forgotten'
  BY <1>0, <1>4, <1>6, IndexAssumption DEF Forgotten
<1>9. ASSUME ~in_recovery', NEW v \in Vif, Held(v), ~Going(v), vif[v].type = "ap"
      PROVE  /\ vif[v].idx \notin chip'.join
             /\ \A s \in StaIndex : chip'.stas[s] = vif[v].idx <=> chip.stas[s] = vif[v].idx
  BY <1>0, <1>2, <1>4, <1>6, <1>9, IndexAssumption DEF Listed
<1> QED BY <1>1, <1>5, <1>7, <1>8, <1>9, AskingKeeps DEF Asking


-----------------------------------------------------------------------------
(* The last step of a call that leaves the interfaces where they are *)

SamePlaces ==
  /\ \A v \in Vif : /\ vif'[v].reg = vif[v].reg /\ vif'[v].type = vif[v].type
                    /\ vif'[v].up = vif[v].up /\ vif'[v].idx = vif[v].idx
  /\ vif_table' = vif_table /\ vif_started' = vif_started

\* The last step of a call keeps the invariant when the interfaces stay where they are.
LEMMA LastKeeps ==
  ASSUME Inv, Types', UserLists', U' = {}, "closed" \notin U, SamePlaces, SameChip, FewerRequests,
         Ups', Listed', Forgotten', Switch'
  PROVE  Inv'
<1>0. Types /\ Counted /\ Indices /\ Known /\ Outlives
  BY DEF Inv, NetInv
<1>1. /\ vif_table' = vif_table /\ vif_started' = vif_started
      /\ \A v \in Vif : vif'[v].up = vif[v].up /\ vif'[v].idx = vif[v].idx
  BY DEF SamePlaces
<1>2. Place' /\ \A v \in Vif : (Held(v)' <=> vif'[v].up) /\ ~Going(v)'
  BY Idle
<1>3. \A v \in Vif : ~Going(v) /\ (Held(v)' => Held(v))
  BY <1>1, <1>2 DEF Held, Going
<1>4. Counted'
  <2>1. {v \in Vif : vif'[v].up} = {v \in Vif : vif[v].up}
    BY <1>1
  <2> QED BY <1>0, <1>1, <2>1 DEF Counted
<1>5. Indices'
  BY <1>0, <1>1, <1>3 DEF Indices
<1>6. Known'
  BY <1>0, <1>1, <1>3 DEF Known, SameChip
<1>7. Outlives'
  <2>1. scan_request \in Vif \cup {None} /\ cac_vif \in Vif \cup {None} /\ (roc # None => roc.vif \in Vif)
    BY <1>0 DEF Types, RequestTypes
  <2>2. NothingOutlivesItsInterface'
    BY <1>0, <1>1, <2>1 DEF Outlives, NothingOutlivesItsInterface, IsUp, FewerRequests
  <2> QED BY <2>2 DEF Outlives
<1> QED BY <1>2, <1>4, <1>5, <1>6, <1>7 DEF Inv, NetInv

\* The stations stay as well, each with an access point.
LEMMA LastListed ==
  ASSUME Inv, U' = {}, "closed" \notin U, SamePlaces, SameStas, SameChip, SameChipSta,
         \A v \in Vif : ~in_recovery /\ vif[v].stas # {} => v \in stack'.ap
  PROVE  Listed' /\ Forgotten'
<1>0. Listed /\ Forgotten
  BY DEF Inv, NetInv
<1>1. \A v \in Vif : (Held(v)' <=> vif'[v].up) /\ ~Going(v)'
  BY Idle
<1>2. \A v \in Vif : /\ ~Going(v) /\ (Held(v)' => Held(v)) /\ vif'[v].idx = vif[v].idx
                     /\ vif'[v].stas = vif[v].stas /\ vif'[v].type = vif[v].type
  BY <1>1 DEF Held, Going, SamePlaces, SameStas
<1>3. ~in_recovery' => ~in_recovery /\ chip'.join \subseteq chip.join /\ chip'.stas = chip.stas /\ chip'.vifs = chip.vifs
  BY DEF SameChip, SameChipSta
<1>4. Listed'
  <2> SUFFICES ASSUME ~in_recovery'
               PROVE  /\ \A v \in Vif : vif'[v].stas # {} => v \in stack'.ap
                      /\ \A v \in Vif : Held(v)' /\ ~Going(v)' /\ vif'[v].type = "ap" =>
                           /\ vif'[v].idx \notin chip'.join
                           /\ vif'[v].stas = {s \in StaIndex : chip'.stas[s] = vif'[v].idx}
    BY DEF Listed
  <2>1. \A v \in Vif : vif'[v].stas # {} => v \in stack'.ap
    BY <1>2, <1>3
  <2>2. ASSUME NEW v \in Vif, Held(v)', vif'[v].type = "ap"
        PROVE  vif'[v].idx \notin chip'.join /\ vif'[v].stas = {s \in StaIndex : chip'.stas[s] = vif'[v].idx}
    BY <1>0, <1>2, <1>3, <2>2 DEF Listed
  <2> QED BY <2>1, <2>2
<1>5. Forgotten'
  BY <1>0, <1>3 DEF Forgotten
<1> QED BY <1>4, <1>5

\* A call that returns has nothing left.
LEMMA Dropped ==
  ASSUME UserLists, NEW h, h # "closed", At("user", h), Return("user"), on'["user"] = on["user"]
  PROVE  UserLists' /\ U' = {} /\ todo'["csa"] = todo["csa"]
<1>1. "user" \in DOMAIN todo /\ todo'["user"] = <<>>
  BY DEF UserLists, Thread, Return
<1>2. UserLists' /\ todo'["csa"] = todo["csa"]
  BY UserEnds
<1> QED BY <1>1, <1>2, NoStep DEF U


\* The start of an AP keeps the invariant: it has no station yet.
LEMMA ApStartKeeps ==
  ASSUME Inv, ApStart
  PROVE  Inv'
<1>0. Types /\ UserLists /\ Place /\ Ups /\ Listed /\ vif \in [Vif -> VifType] /\ chip \in ChipType
  BY DEF Inv, NetInv, Types, IfaceTypes, ChipTypes
<1>1. /\ At("user", "ap_start")
      /\ UNCHANGED <<vif_table, vif_started, avail_idx_map, sta_valid, scanVars, roc, cacVars, dfs_pending, cac_status, indq, on>>
  BY DEF ApStart
<1>2. \/ /\ Answered(chip) /\ \E c \in {TRUE, vif[me].chan} : vif' = [vif EXCEPT ![me].chan = c, ![me].carrier = TRUE]
         /\ stack' = [stack EXCEPT !.ap = @ \cup {me}] /\ (detect' \in BOOLEAN \/ detect' = detect) /\ Done("user")
      \/ (NoMemory \/ NotAnswered) /\ Return("user") /\ UNCHANGED <<vif, stack, detect>>
  BY DEF ApStart
<1>3. CASE (NoMemory \/ NotAnswered) /\ Return("user") /\ UNCHANGED <<vif, stack, detect>>
  <2>1. UNCHANGED sameVars
    BY <1>1, <1>3 DEF sameVars, netVars, dfsVars
  <2> QED BY <1>1, <1>3, <2>1, AskReturn
<1>4. CASE /\ Answered(chip) /\ \E c \in {TRUE, vif[me].chan} : vif' = [vif EXCEPT ![me].chan = c, ![me].carrier = TRUE]
           /\ stack' = [stack EXCEPT !.ap = @ \cup {me}] /\ (detect' \in BOOLEAN \/ detect' = detect) /\ Done("user")
  <2>1. UserLists' /\ U' = {} /\ U = {"ap_start"} /\ todo'["csa"] = todo["csa"]
    BY <1>0, <1>1, <1>4, LastDone DEF Last
  <2>2. me \in Vif /\ vif[me].up /\ vif[me].type = "ap" /\ vif[me].chan \in BOOLEAN
    BY <1>0, <1>1, <2>1, MeIs DEF Place, NeedUp, VifType
  <2>3. vif' \in [Vif -> VifType] /\ SameView
    BY <1>0, <1>4, <2>2, SetBoth
  <2>4. chip' = chip /\ in_recovery' = in_recovery /\ detect' \in BOOLEAN
    BY <1>0, <1>4 DEF Answered, Types, RequestTypes
  <2>5. SamePlaces /\ SameStas /\ SameCsa
    BY <1>1, <2>3 DEF SamePlaces, SameStas, SameCsa, SameView, SameRecord
  <2>6. ChipTypes' /\ SameChip /\ SameChipSta
    BY <1>0, <2>4, ChipSame
  <2>7. RequestTypes' /\ FewerRequests
    BY <1>0, <1>1, <2>4 DEF Types, RequestTypes, FewerRequests, scanVars, cacVars
  <2>8. StackTypes' /\ stack'.ap = stack.ap \cup {me}
    BY <1>0, <1>4, <2>2 DEF Types, StackTypes
  <2>9. Types'
    BY <1>0, <1>1, <2>3, <2>6, <2>7, <2>8 DEF Types, IfaceTypes, IndTypes, OnTypes
  <2>10. Ups'
    BY <1>0, <2>2, <2>5, <2>8 DEF Ups, SamePlaces
  <2>11. Listed' /\ Forgotten'
    <3>1. \A v \in Vif : ~in_recovery /\ vif[v].stas # {} => v \in stack'.ap
      BY <1>0, <2>8 DEF Listed
    <3> QED BY <2>1, <2>5, <2>6, <3>1, LastListed
  <2>12. Switch'
    BY <2>1, <2>5 DEF Inv, NetInv, Switch, SameCsa, At
  <2> QED BY <2>1, <2>5, <2>6, <2>7, <2>9, <2>10, <2>11, <2>12, LastKeeps
<1> QED BY <1>2, <1>3, <1>4

\* The end of an AP keeps the invariant: its stations were deleted.
LEMMA ApStoppedKeeps ==
  ASSUME Inv, ApStopped
  PROVE  Inv'
<1>0. Types /\ UserLists /\ Place /\ Ups /\ Listed
  BY DEF Inv, NetInv
<1>1. /\ At("user", "ap_stopped") /\ Done("user") /\ Unset(me) /\ stack' = [stack EXCEPT !.ap = @ \ {me}]
      /\ UNCHANGED <<vif_table, vif_started, avail_idx_map, sta_valid, scanVars, roc, cacVars, dfs_pending, cac_status, chipVars, on>>
  BY DEF ApStopped
<1>2. UserLists' /\ U' = {} /\ U = {"ap_stopped"} /\ todo'["csa"] = todo["csa"]
  BY <1>0, <1>1, LastDone DEF Last
<1>3. me \in Vif
  BY <1>1, MeIs
<1>4. vif' \in [Vif -> VifType] /\ SameView /\ detect' \in {detect, FALSE}
  BY <1>0, <1>1, UnsetView
<1>5. SamePlaces /\ SameStas /\ SameCsa
  BY <1>1, <1>4 DEF SamePlaces, SameStas, SameCsa, SameView, SameRecord
<1>6. ChipTypes' /\ SameChip /\ SameChipSta
  BY <1>0, <1>1, ChipSame DEF chipVars
<1>7. RequestTypes' /\ FewerRequests
  BY <1>0, <1>1, <1>4 DEF Types, RequestTypes, FewerRequests, scanVars, cacVars
<1>8. StackTypes' /\ stack'.ap = stack.ap \ {me}
  BY <1>0, <1>1 DEF Types, StackTypes
<1>9. Types'
  BY <1>0, <1>1, <1>4, <1>6, <1>7, <1>8 DEF Types, IfaceTypes, IndTypes, OnTypes, chipVars
<1>10. Ups'
  BY <1>0, <1>5, <1>8 DEF Ups, SamePlaces
<1>11. Listed' /\ Forgotten'
  <2>1. \A v \in Vif : ~in_recovery /\ vif[v].stas # {} => v \in stack'.ap
    BY <1>0, <1>2, <1>8 DEF Listed
  <2> QED BY <1>2, <1>5, <1>6, <2>1, LastListed
<1>12. Switch'
  BY <1>2, <1>5 DEF Inv, NetInv, Switch, SameCsa, At
<1> QED BY <1>2, <1>5, <1>6, <1>7, <1>9, <1>10, <1>11, <1>12, LastKeeps

\* The record of a switch is set up, or freed when the chip is not to be had.
LEMMA RecordLast ==
  ASSUME Inv, UserLists', U' = {}, "closed" \notin U, todo'["csa"] = todo["csa"], me \in Vif,
         NEW c \in {"on", "none"}, vif' = [vif EXCEPT ![me].csa = c],
         UNCHANGED <<vif_table, vif_started, avail_idx_map, sta_valid, scanVars, roc, cacVars, dfsVars, indq, stack, on>>,
         ChipTypes', SameChip, SameChipSta,
         c = "none" => vif[me].csa = "asked"
  PROVE  Inv'
<1>0. Types /\ Ups /\ Listed /\ Switch /\ vif \in [Vif -> VifType]
  BY DEF Inv, NetInv, Types, IfaceTypes
<1>1. vif' \in [Vif -> VifType] /\ SameButCsa(me) /\ vif'[me].csa = c
  BY <1>0, SetCsa DEF CsaState
<1>2. SamePlaces /\ SameStas
  BY <1>1 DEF SamePlaces, SameStas, SameButCsa
<1>3. RequestTypes' /\ FewerRequests
  BY <1>0, RequestsSame
<1>4. Types'
  BY <1>0, <1>1, <1>3 DEF Types, IfaceTypes, StackTypes, IndTypes, OnTypes
<1>5. Ups'
  BY <1>0, <1>2 DEF Ups, SamePlaces
<1>6. Listed' /\ Forgotten'
  <2>1. \A v \in Vif : ~in_recovery /\ vif[v].stas # {} => v \in stack'.ap
    BY <1>0 DEF Listed
  <2> QED BY <1>2, <2>1, LastListed
<1>7. Switch'
  <2>1. (todo["csa"] # <<>> /\ ~At("csa", "oops") => on["csa"] \in Vif /\ vif[on["csa"]].csa \notin {"none", "asked"})'
    <3> SUFFICES ASSUME todo["csa"] # <<>>, ~At("csa", "oops")
                 PROVE  on["csa"] \in Vif /\ vif'[on["csa"]].csa \notin {"none", "asked"}
      BY DEF At
    <3>1. on["csa"] \in Vif /\ vif[on["csa"]].csa \notin {"none", "asked"}
      BY <1>0 DEF Switch
    <3>2. CASE on["csa"] = me
      <4>1. c = "on"
        BY <3>1, <3>2
      <4> QED BY <1>1, <3>1, <3>2, <4>1
    <3>3. CASE on["csa"] # me
      BY <1>1, <3>1, <3>3 DEF SameButCsa
    <3> QED BY <3>2, <3>3
  <2> QED BY <1>0, <2>1 DEF Switch
<1> QED BY <1>2, <1>3, <1>4, <1>5, <1>6, <1>7, LastKeeps

\* A switch that was asked for goes on, and keeps the invariant.
LEMMA CsaInitKeeps ==
  ASSUME Inv, CsaInit
  PROVE  Inv'
<1>0. Types /\ UserLists
  BY DEF Inv
<1>1. /\ At("user", "csa_init") /\ Done("user") /\ vif' = [vif EXCEPT ![me].csa = "on"]
      /\ UNCHANGED <<vif_table, vif_started, avail_idx_map, sta_valid, scanVars, roc, cacVars, dfsVars, indq, stack, on>>
      /\ UNCHANGED <<chip, in_recovery>>
  BY DEF CsaInit, chipVars
<1>2. UserLists' /\ U' = {} /\ U = {"csa_init"} /\ todo'["csa"] = todo["csa"]
  BY <1>0, <1>1, LastDone DEF Last
<1>3. ChipTypes' /\ SameChip /\ SameChipSta
  BY <1>0, <1>1, ChipSame
<1>4. me \in Vif
  BY <1>1, MeIs
<1> QED BY <1>1, <1>2, <1>3, <1>4, RecordLast

\* The request for a switch keeps the invariant, and its failure frees the record.
LEMMA CsaReqKeeps ==
  ASSUME Inv, CsaReq
  PROVE  Inv'
<1>0. Types /\ UserLists /\ Place /\ Listed /\ Forgotten /\ Switch /\ chip \in ChipType
  BY DEF Inv, NetInv, Types, ChipTypes
<1> DEFINE e == [chip EXCEPT !.csa = @ \cup {vif[me].idx}]
<1>1. /\ At("user", "csa_req")
      /\ UNCHANGED <<vif_table, vif_started, avail_idx_map, sta_valid, scanVars, roc, cacVars, dfsVars, indq, stack, on>>
      /\ \/ Answered(e) /\ Done("user") /\ UNCHANGED vif
         \/ (NoMemory \/ NotAnswered) /\ Return("user") /\ vif' = [vif EXCEPT ![me].csa = "none"]
  BY DEF CsaReq
<1>2. me \in Vif /\ "csa_req" \in U /\ me \in stack.ap /\ vif[me].csa = "asked" /\ vif[me].up /\ "closed" \notin U
  BY <1>0, <1>1, MeIs DEF Place, Switch, Inv, NetInv, Ups, Leaving
<1>3. vif[me].idx \in VifIndex
  BY <1>2 DEF Inv, NetInv, Indices, Held
<1>4. e \in ChipType /\ SameOf(e)
  BY <1>0, <1>3 DEF ChipType, SameOf
<1> HIDE DEF e
<1>5. CASE Answered(e) /\ Done("user") /\ UNCHANGED vif
  <2>1. Ask(e)
    BY <1>5 DEF Ask
  <2>2. ChipTypes' /\ SameChip /\ SameChipSta
    BY <1>0, <1>4, <2>1, AskQuiet
  <2>3. UNCHANGED sameVars /\ IndTypes'
    BY <1>0, <1>1, <1>5 DEF sameVars, netVars, Types, IndTypes
  <2>4. Forgotten'
    <3>1. SameVifs
      BY <2>2 DEF SameChip, SameVifs
    <3> QED BY <1>0, <2>2, <3>1, ForgottenKept
  <2>5. ASSUME ~in_recovery', NEW v \in Vif, Held(v), ~Going(v), vif[v].type = "ap"
        PROVE  /\ vif[v].idx \notin chip'.join
               /\ \A s \in StaIndex : chip'.stas[s] = vif[v].idx <=> chip.stas[s] = vif[v].idx
    <3>1. ~in_recovery /\ chip'.join \subseteq chip.join /\ chip'.stas = chip.stas
      BY <2>2, <2>5 DEF SameChip, SameChipSta
    <3> QED BY <1>0, <2>5, <3>1 DEF Listed
  <2> QED BY <1>1, <1>5, <2>2, <2>3, <2>4, <2>5, AskingKeeps
<1>6. CASE (NoMemory \/ NotAnswered) /\ Return("user") /\ vif' = [vif EXCEPT ![me].csa = "none"]
  <2>1. SameOf(chip) /\ (Ask(chip) \/ NoMemory)
    BY <1>6 DEF SameOf, Ask
  <2>2. ChipTypes' /\ SameChip /\ SameChipSta
    BY <1>0, <2>1, AskQuiet
  <2>3. UserLists' /\ U' = {} /\ todo'["csa"] = todo["csa"]
    BY <1>0, <1>1, <1>6, Dropped
  <2> QED BY <1>1, <1>2, <1>6, <2>2, <2>3, RecordLast
<1> QED BY <1>1, <1>5, <1>6


\* A station is added.
Enters(s) ==
  /\ s \in StaIndex /\ chip.stas[s] = None
  /\ Answered([chip EXCEPT !.stas[s] = vif[me].idx])
  /\ vif' = [vif EXCEPT ![me].stas = @ \cup {s}] /\ sta_valid' = sta_valid \cup {s}

\* A station enters the list of its AP as it enters the chip's.
LEMMA EntersFields ==
  ASSUME Types, me \in Vif, vif[me].idx \in VifIndex, NEW s, Enters(s)
  PROVE  /\ vif' \in [Vif -> VifType] /\ chip' \in ChipType /\ ~in_recovery /\ in_recovery' = FALSE
         /\ s \in StaIndex /\ chip.stas[s] = None
         /\ chip'.started = chip.started /\ chip'.vifs = chip.vifs /\ chip'.join = chip.join
         /\ \A x \in StaIndex : chip'.stas[x] = IF x = s THEN vif[me].idx ELSE chip.stas[x]
         /\ \A v \in Vif : /\ vif'[v].reg = vif[v].reg /\ vif'[v].type = vif[v].type /\ vif'[v].up = vif[v].up
                           /\ vif'[v].idx = vif[v].idx /\ vif'[v].csa = vif[v].csa
                           /\ vif'[v].stas = IF v = me THEN vif[v].stas \cup {s} ELSE vif[v].stas
<1>0. /\ chip \in ChipType /\ vif \in [Vif -> VifType] /\ in_recovery \in BOOLEAN
      /\ s \in StaIndex /\ chip.stas[s] = None /\ ~in_recovery /\ in_recovery' = in_recovery
  BY DEF Types, ChipTypes, IfaceTypes, Enters, Answered
<1> DEFINE i == vif[me].idx
<1>1. chip' = [chip EXCEPT !.stas[s] = i]
  BY DEF Enters, Answered
<1>2. vif' = [vif EXCEPT ![me].stas = @ \cup {s}]
  BY DEF Enters
<1>3. i \in VifIndex
  OBVIOUS
<1>4. /\ chip' \in ChipType /\ chip'.started = chip.started /\ chip'.vifs = chip.vifs /\ chip'.join = chip.join
      /\ \A x \in StaIndex : chip'.stas[x] = IF x = s THEN i ELSE chip.stas[x]
  <2> HIDE DEF i
  <2> QED BY <1>0, <1>1, <1>3 DEF ChipType
<1>5. /\ vif' \in [Vif -> VifType]
      /\ \A v \in Vif : /\ vif'[v].reg = vif[v].reg /\ vif'[v].type = vif[v].type /\ vif'[v].up = vif[v].up
                        /\ vif'[v].idx = vif[v].idx /\ vif'[v].csa = vif[v].csa
                        /\ vif'[v].stas = IF v = me THEN vif[v].stas \cup {s} ELSE vif[v].stas
  <2> DEFINE w == vif[me]
             r == [w EXCEPT !.stas = @ \cup {s}]
  <2>1. w \in VifType /\ vif' = [vif EXCEPT ![me] = r]
    BY <1>0, <1>2
  <2> HIDE DEF w
  <2>2. r \in VifType /\ r.reg = w.reg /\ r.type = w.type /\ r.up = w.up /\ r.idx = w.idx /\ r.csa = w.csa /\ r.stas = w.stas \cup {s}
    BY <1>0, <2>1 DEF VifType
  <2> HIDE DEF r
  <2>3. vif' \in [Vif -> VifType] /\ \A v \in Vif : vif'[v] = IF v = me THEN r ELSE vif[v]
    BY <1>0, <2>1, <2>2
  <2> QED BY <2>2, <2>3 DEF w
<1> QED BY <1>0, <1>4, <1>5

\* add_station keeps the invariant.
LEMMA AddStaKeeps ==
  ASSUME Inv, AddSta
  PROVE  Inv'
<1>0. Types /\ UserLists /\ Place /\ Ups /\ Indices /\ Known /\ Listed /\ Forgotten /\ Switch /\ chip \in ChipType
  BY DEF Inv, NetInv, Types, ChipTypes
<1>1. /\ At("user", "add_sta") /\ Done("user")
      /\ UNCHANGED <<vif_table, vif_started, avail_idx_map, scanVars, roc, cacVars, dfsVars, indq, stack, on>>
  BY DEF AddSta
<1>2. (\E s \in StaIndex : Enters(s)) \/ ((NoMemory \/ NotAnswered) /\ UNCHANGED <<vif, sta_valid>>)
  BY DEF AddSta, Enters
<1>3. UserLists' /\ U' = {} /\ U = {"add_sta"} /\ todo'["csa"] = todo["csa"]
  BY <1>0, <1>1, LastDone DEF Last
<1>4. me \in Vif /\ me \in stack.ap /\ vif[me].up /\ vif[me].type = "ap" /\ Held(me) /\ ~Going(me)
  BY <1>0, <1>1, <1>3, MeIs DEF Place, Ups, Held
<1>5. vif[me].idx \in VifIndex
  BY <1>0, <1>4 DEF Indices
<1>6. CASE (NoMemory \/ NotAnswered) /\ UNCHANGED <<vif, sta_valid>>
  <2>1. SameOf(chip) /\ (Ask(chip) \/ NoMemory)
    BY <1>6 DEF SameOf, Ask
  <2>2. ChipTypes' /\ SameChip /\ SameChipSta
    BY <1>0, <2>1, AskQuiet
  <2>3. UNCHANGED sameVars /\ IndTypes'
    BY <1>0, <1>1, <1>6 DEF sameVars, netVars, Types, IndTypes
  <2>4. Types' /\ Rest
    BY <1>0, <2>2, <2>3, SameRest
  <2>5. SamePlaces /\ SameStas /\ FewerRequests /\ SameCsa /\ stack' = stack
    BY <1>1, <2>4 DEF Rest, Others, SameIfaces, SamePlaces
  <2>6. Ups'
    BY <1>0, <2>5 DEF Ups, SamePlaces
  <2>7. Listed' /\ Forgotten'
    <3>1. \A v \in Vif : ~in_recovery /\ vif[v].stas # {} => v \in stack'.ap
      BY <1>0, <2>5 DEF Listed
    <3> QED BY <1>3, <2>2, <2>5, <3>1, LastListed
  <2>8. Switch'
    BY <1>0, <1>3, <2>5 DEF Switch, SameCsa, At
  <2> QED BY <1>3, <2>2, <2>4, <2>5, <2>6, <2>7, <2>8, LastKeeps
<1>7. ASSUME NEW s \in StaIndex, Enters(s) PROVE Inv'
  <2>1. /\ vif' \in [Vif -> VifType] /\ chip' \in ChipType /\ ~in_recovery /\ in_recovery' = FALSE /\ chip.stas[s] = None
        /\ chip'.started = chip.started /\ chip'.vifs = chip.vifs /\ chip'.join = chip.join
        /\ \A x \in StaIndex : chip'.stas[x] = IF x = s THEN vif[me].idx ELSE chip.stas[x]
        /\ \A v \in Vif : /\ vif'[v].reg = vif[v].reg /\ vif'[v].type = vif[v].type /\ vif'[v].up = vif[v].up
                          /\ vif'[v].idx = vif[v].idx /\ vif'[v].csa = vif[v].csa
                          /\ vif'[v].stas = IF v = me THEN vif[v].stas \cup {s} ELSE vif[v].stas
    BY <1>0, <1>4, <1>5, <1>7, EntersFields
  <2>2. SamePlaces /\ SameChip /\ SameCsa
    BY <1>1, <2>1 DEF SamePlaces, SameChip, SameCsa
  <2>3. RequestTypes' /\ FewerRequests
    BY <1>0, <1>1, RequestsSame
  <2>4. Types'
    <3>1. sta_valid' \subseteq StaIndex
      BY <1>0, <1>7 DEF Enters, Types, IfaceTypes
    <3> QED BY <1>0, <1>1, <2>1, <2>3, <3>1 DEF Types, IfaceTypes, ChipTypes, StackTypes, IndTypes, OnTypes
  <2>5. Ups' /\ Switch'
    BY <1>0, <1>1, <1>3, <2>2 DEF Ups, SamePlaces, Switch, SameCsa, At
  <2>6. chip.vifs[vif[me].idx] = me
    BY <1>0, <1>4, <2>1 DEF Known
  <2>7. Forgotten'
    <3>1. ASSUME NEW i \in VifIndex, chip'.vifs[i] = None
          PROVE  i \notin chip'.join /\ \A x \in StaIndex : chip'.stas[x] # i
      <4>1. i # vif[me].idx
        BY <1>4, <2>1, <2>6, <3>1, VifAssumption
      <4>2. i \notin chip.join /\ \A x \in StaIndex : chip.stas[x] # i
        BY <1>0, <2>1, <3>1 DEF Forgotten
      <4> QED BY <2>1, <4>1, <4>2
    <3> QED BY <3>1 DEF Forgotten
  <2>8. Listed'
    <3>1. \A v \in Vif : (Held(v)' <=> vif'[v].up) /\ ~Going(v)'
      BY <1>3, Idle
    <3>2. ASSUME NEW v \in Vif, Held(v)', vif'[v].type = "ap"
          PROVE  vif'[v].idx \notin chip'.join /\ vif'[v].stas = {x \in StaIndex : chip'.stas[x] = vif'[v].idx}
      <4>1. Held(v) /\ ~Going(v) /\ vif[v].type = "ap" /\ vif'[v].idx = vif[v].idx /\ vif[v].idx \in VifIndex
        BY <1>0, <1>3, <2>1, <3>1, <3>2 DEF Held, Going, Indices
      <4>2. vif[v].idx \notin chip.join /\ vif[v].stas = {x \in StaIndex : chip.stas[x] = vif[v].idx}
        BY <1>0, <2>1, <4>1 DEF Listed
      <4>3. CASE v = me
        <5>1. vif'[v].stas = vif[v].stas \cup {s}
          BY <2>1, <4>3
        <5>2. {x \in StaIndex : chip'.stas[x] = vif[v].idx} = {x \in StaIndex : chip.stas[x] = vif[v].idx} \cup {s}
          BY <1>7, <2>1, <4>3
        <5> QED BY <2>1, <4>1, <4>2, <5>1, <5>2
      <4>4. CASE v # me
        <5>1. vif'[v].stas = vif[v].stas /\ vif[v].idx # vif[me].idx /\ vif[v].idx # None
          BY <1>0, <1>4, <2>1, <4>1, <4>4, IndexAssumption DEF Indices
        <5>2. {x \in StaIndex : chip'.stas[x] = vif[v].idx} = {x \in StaIndex : chip.stas[x] = vif[v].idx}
          BY <2>1, <5>1
        <5> QED BY <2>1, <4>1, <4>2, <5>1, <5>2
      <4> QED BY <4>3, <4>4
    <3>3. \A v \in Vif : vif'[v].stas # {} => v \in stack'.ap
      BY <1>0, <1>1, <1>4, <2>1 DEF Listed
    <3> QED BY <1>3, <3>2, <3>3 DEF Listed
  <2> QED BY <1>3, <2>2, <2>3, <2>4, <2>5, <2>7, <2>8, LastKeeps
<1> QED BY <1>2, <1>6, <1>7


\* A station is taken out.
Leaves(s) ==
  /\ s \in vif[me].stas /\ sta_valid' = sta_valid \ {s}
  /\ Answered([chip EXCEPT !.stas[s] = None])
  /\ vif' = [vif EXCEPT ![me].stas = @ \ {s}]

\* A station leaves the list of its AP as it leaves the chip's.
LEMMA LeavesFields ==
  ASSUME Types, me \in Vif, NEW s, Leaves(s)
  PROVE  /\ vif' \in [Vif -> VifType] /\ chip' \in ChipType /\ ~in_recovery /\ in_recovery' = FALSE /\ s \in StaIndex
         /\ chip'.started = chip.started /\ chip'.vifs = chip.vifs /\ chip'.join = chip.join
         /\ \A x \in StaIndex : chip'.stas[x] = IF x = s THEN None ELSE chip.stas[x]
         /\ \A v \in Vif : /\ vif'[v].reg = vif[v].reg /\ vif'[v].type = vif[v].type /\ vif'[v].up = vif[v].up
                           /\ vif'[v].idx = vif[v].idx /\ vif'[v].csa = vif[v].csa
                           /\ vif'[v].stas = IF v = me THEN vif[v].stas \ {s} ELSE vif[v].stas
<1>0. /\ chip \in ChipType /\ vif \in [Vif -> VifType] /\ in_recovery \in BOOLEAN
      /\ s \in vif[me].stas /\ ~in_recovery /\ in_recovery' = in_recovery
  BY DEF Types, ChipTypes, IfaceTypes, Leaves, Answered
<1>1. chip' = [chip EXCEPT !.stas[s] = None] /\ vif' = [vif EXCEPT ![me].stas = @ \ {s}]
  BY DEF Leaves, Answered
<1>2. s \in StaIndex
  BY <1>0 DEF VifType
<1>3. /\ chip' \in ChipType /\ chip'.started = chip.started /\ chip'.vifs = chip.vifs /\ chip'.join = chip.join
      /\ \A x \in StaIndex : chip'.stas[x] = IF x = s THEN None ELSE chip.stas[x]
  BY <1>0, <1>1, <1>2 DEF ChipType
<1>4. /\ vif' \in [Vif -> VifType]
      /\ \A v \in Vif : /\ vif'[v].reg = vif[v].reg /\ vif'[v].type = vif[v].type /\ vif'[v].up = vif[v].up
                        /\ vif'[v].idx = vif[v].idx /\ vif'[v].csa = vif[v].csa
                        /\ vif'[v].stas = IF v = me THEN vif[v].stas \ {s} ELSE vif[v].stas
  <2> DEFINE w == vif[me]
             r == [w EXCEPT !.stas = @ \ {s}]
  <2>1. w \in VifType /\ vif' = [vif EXCEPT ![me] = r]
    BY <1>0, <1>1
  <2> HIDE DEF w
  <2>2. r \in VifType /\ r.reg = w.reg /\ r.type = w.type /\ r.up = w.up /\ r.idx = w.idx /\ r.csa = w.csa /\ r.stas = w.stas \ {s}
    BY <2>1 DEF VifType
  <2> HIDE DEF r
  <2>3. vif' \in [Vif -> VifType] /\ \A v \in Vif : vif'[v] = IF v = me THEN r ELSE vif[v]
    BY <1>0, <2>1, <2>2
  <2> QED BY <2>2, <2>3 DEF w
<1> QED BY <1>0, <1>2, <1>3, <1>4

\* A step on one station keeps the invariant when the lists agree after it.
LEMMA StationKeeps ==
  ASSUME Inv, Types', UserLists', NEW h \in {"del_one", "del_stations"}, Quiet(h), todo'["csa"] = todo["csa"],
         SameIfaces, SameCsa, SameChip, FewerRequests, Forgotten', Listed'
  PROVE  Inv'
<1>1. h \notin Leaving \cup {"if_add", "dev_start", "scan_stop", "scan_clear", "cac_stop", "cac_end"}
  BY DEF Leaving
<1>2. Place' /\ Ups' /\ Counted' /\ Indices' /\ Known'
  BY <1>1, CoreKept
<1>3. Outlives' /\ Switch'
  BY <1>1, RequestsKept, SwitchKept DEF Inv, NetInv, SameSwitch
<1> QED BY <1>2, <1>3 DEF Inv, NetInv

\* What is left of a list from which a station has been taken.
LEMMA LeavesKeeps ==
  ASSUME Inv, NEW h \in {"del_one", "del_stations"}, At("user", h), NEW s, Leaves(s),
         UNCHANGED <<vif_table, vif_started, avail_idx_map, scanVars, roc, cacVars, dfsVars, indq, stack, on>>,
         (h = "del_one" /\ Done("user")) \/ UNCHANGED todo
  PROVE  Inv'
<1>0. Types /\ UserLists /\ Place /\ Indices /\ Listed /\ Forgotten
  BY DEF Inv, NetInv
<1>1. me \in Vif /\ h \in U /\ me' = me
  BY MeIs DEF me
<1>2. /\ vif' \in [Vif -> VifType] /\ chip' \in ChipType /\ ~in_recovery /\ in_recovery' = FALSE /\ s \in StaIndex
      /\ chip'.started = chip.started /\ chip'.vifs = chip.vifs /\ chip'.join = chip.join
      /\ \A x \in StaIndex : chip'.stas[x] = IF x = s THEN None ELSE chip.stas[x]
      /\ \A v \in Vif : /\ vif'[v].reg = vif[v].reg /\ vif'[v].type = vif[v].type /\ vif'[v].up = vif[v].up
                        /\ vif'[v].idx = vif[v].idx /\ vif'[v].csa = vif[v].csa
                        /\ vif'[v].stas = IF v = me THEN vif[v].stas \ {s} ELSE vif[v].stas
  BY <1>0, <1>1, LeavesFields
<1>3. s \in vif[me].stas /\ me \in stack.ap
  BY <1>0, <1>1, <1>2 DEF Leaves, Listed
<1>4. "closed" \notin U
  BY <1>0, <1>3 DEF Place, Leaving
<1>5. Held(me) /\ ~Going(me) /\ vif[me].type = "ap" /\ vif[me].idx \in VifIndex
  BY <1>1, <1>3, <1>4 DEF Inv, NetInv, Ups, Held, Going, Indices
<1>6. UserLists' /\ Quiet(h) /\ todo'["csa"] = todo["csa"] /\ ("ap_stopped" \in U' => "ap_stopped" \in U)
      /\ ("del_stations" \in U => "del_stations" \in U')
  <2>1. CASE h = "del_one" /\ Done("user")
    <3>1. UserLists' /\ Quiet(h) /\ todo'["csa"] = todo["csa"] /\ U = {h} \cup U'
      BY <1>0, <2>1, UserDone
    <3> QED BY <2>1, <3>1
  <2>2. CASE UNCHANGED todo
    <3>1. U' = U
      BY <2>2 DEF U
    <3> QED BY <1>0, <2>2, <3>1, UserWaits
  <2> QED BY <2>1, <2>2
<1>7. SameIfaces /\ SameCsa /\ SameChip
  BY <1>2 DEF SameIfaces, SameCsa, SameChip
<1>8. RequestTypes' /\ FewerRequests
  BY <1>0, RequestsSame
<1>9. Types'
  <2>1. sta_valid' \subseteq StaIndex
    BY <1>0 DEF Leaves, Types, IfaceTypes
  <2> QED BY <1>0, <1>2, <1>8, <2>1 DEF Types, IfaceTypes, ChipTypes, StackTypes, IndTypes, OnTypes
<1>10. Forgotten'
  BY <1>0, <1>2, IndexAssumption DEF Forgotten
<1>11. Listed'
  <2>1. ASSUME NEW v \in Vif, Held(v)', ~Going(v)', vif'[v].type = "ap"
        PROVE  vif'[v].idx \notin chip'.join /\ vif'[v].stas = {x \in StaIndex : chip'.stas[x] = vif'[v].idx}
    <3>0. h \notin Leaving \cup {"if_add"}
      BY DEF Leaving
    <3>1. Held(v) /\ ~Going(v)
      BY <1>0, <1>6, <1>7, <2>1, <3>0, HeldKept
    <3>2. vif[v].type = "ap" /\ vif'[v].idx = vif[v].idx /\ vif[v].idx \in VifIndex /\ vif[v].idx # None
      BY <1>0, <1>2, <2>1, <3>1, IndexAssumption DEF Indices
    <3>3. vif[v].idx \notin chip.join /\ vif[v].stas = {x \in StaIndex : chip.stas[x] = vif[v].idx}
      BY <1>0, <1>2, <3>1, <3>2 DEF Listed
    <3>4. CASE v = me
      <4>1. vif'[v].stas = vif[v].stas \ {s}
        BY <1>2, <3>4
      <4>2. {x \in StaIndex : chip'.stas[x] = vif[v].idx} = {x \in StaIndex : chip.stas[x] = vif[v].idx} \ {s}
        BY <1>2, <3>2
      <4> QED BY <1>2, <3>2, <3>3, <4>1, <4>2
    <3>5. CASE v # me
      <4>1. vif'[v].stas = vif[v].stas /\ vif[v].idx # vif[me].idx
        BY <1>0, <1>1, <1>2, <1>5, <3>1, <3>5 DEF Indices
      <4>2. chip.stas[s] = vif[me].idx
        BY <1>0, <1>1, <1>2, <1>3, <1>5 DEF Listed
      <4>3. {x \in StaIndex : chip'.stas[x] = vif[v].idx} = {x \in StaIndex : chip.stas[x] = vif[v].idx}
        BY <1>2, <3>2, <4>1, <4>2
      <4> QED BY <1>2, <3>2, <3>3, <4>1, <4>3
    <3> QED BY <3>4, <3>5
  <2>2. \A v \in Vif : vif'[v].stas # {} => v \in stack'.ap
    BY <1>0, <1>2, <1>3 DEF Listed
  <2>3. "ap_stopped" \in U' /\ "del_stations" \notin U' => vif'[me'].stas = {}
    <3> SUFFICES ASSUME "ap_stopped" \in U', "del_stations" \notin U' PROVE FALSE
      OBVIOUS
    <3>1. "ap_stopped" \in U /\ "del_stations" \notin U
      BY <1>6
    <3> QED BY <1>0, <1>2, <1>3, <3>1 DEF Listed
  <2> QED BY <2>1, <2>2, <2>3 DEF Listed
<1> QED BY <1>6, <1>7, <1>8, <1>9, <1>10, <1>11, StationKeeps

\* The deletion of a station keeps the invariant, also when it fails: no list changes.
LEMMA DelStaKeeps ==
  ASSUME Inv, NEW h \in {"del_one", "del_stations"}, DelSta(h)
  PROVE  Inv'
<1>0. Types /\ UserLists /\ Place /\ Listed /\ Forgotten /\ chip \in ChipType
  BY DEF Inv, NetInv, Types, ChipTypes
<1>1. /\ At("user", h)
      /\ UNCHANGED <<vif_table, vif_started, avail_idx_map, scanVars, roc, cacVars, dfsVars, indq, stack, on>>
  BY DEF DelSta
<1>2. \/ vif[me].stas = {} /\ Done("user") /\ UNCHANGED <<vif, sta_valid, chip, in_recovery>>
      \/ \E s \in vif[me].stas : Leaves(s) /\ ((h = "del_one" /\ Done("user")) \/ UNCHANGED todo)
      \/ NotAnswered /\ Done("user") /\ UNCHANGED vif /\ sta_valid' \subseteq StaIndex
  <2>1. sta_valid \subseteq StaIndex
    BY <1>0 DEF Types, IfaceTypes
  <2> QED BY <2>1 DEF DelSta, Leaves
<1>3. me \in Vif /\ me' = me /\ h # "closed"
  BY <1>1, MeIs DEF me
<1>4. CASE \E s \in vif[me].stas : Leaves(s) /\ ((h = "del_one" /\ Done("user")) \/ UNCHANGED todo)
  BY <1>1, <1>4, LeavesKeeps
<1>5. ASSUME Done("user"), UNCHANGED vif, sta_valid' \subseteq StaIndex, NotAnswered \/ NoMemory,
             NotAnswered \/ vif[me].stas = {}
      PROVE  Inv'
  <2>1. UserLists' /\ Quiet(h) /\ todo'["csa"] = todo["csa"]
    BY <1>0, <1>1, <1>3, <1>5, UserDone
  <2>2. SameOf(chip) /\ (Ask(chip) \/ NoMemory)
    BY <1>5 DEF SameOf, Ask
  <2>3. ChipTypes' /\ SameChip /\ SameChipSta
    BY <1>0, <2>2, AskQuiet
  <2>4. RequestTypes' /\ FewerRequests
    BY <1>0, <1>1, RequestsSame
  <2>5. Types'
    BY <1>0, <1>1, <1>5, <2>3, <2>4 DEF Types, IfaceTypes, StackTypes, IndTypes, OnTypes
  <2>6. SameIfaces /\ SameStas /\ SameCsa /\ SameVifs
    BY <1>1, <1>5, <2>3 DEF SameIfaces, SameStas, SameCsa, SameVifs, SameChip
  <2>7. Forgotten'
    BY <1>0, <2>3, <2>6, ForgottenKept
  <2>8. CASE NotAnswered
    <3>1. Listed'
      BY <2>8 DEF NotAnswered, Listed
    <3> QED BY <2>1, <2>3, <2>4, <2>5, <2>6, <2>7, <3>1, StationKeeps
  <2>9. CASE vif[me].stas = {}
    <3>1. ~in_recovery' => ~in_recovery /\ chip'.join \subseteq chip.join /\ chip'.stas = chip.stas
      BY <2>3 DEF SameChip, SameChipSta
    <3>2. h \notin Leaving \cup {"if_add"}
      BY DEF Leaving
    <3>3. \A v \in Vif : Held(v)' /\ ~Going(v)' => Held(v) /\ ~Going(v)
      BY <1>0, <2>1, <2>6, <3>2, HeldKept
    <3>4. ASSUME ~in_recovery', NEW v \in Vif, Held(v)', ~Going(v)', vif[v].type = "ap"
          PROVE  vif[v].idx \notin chip'.join /\ vif[v].stas = {x \in StaIndex : chip'.stas[x] = vif[v].idx}
      BY <1>0, <3>1, <3>3, <3>4 DEF Listed
    <3>5. ~in_recovery' => \A v \in Vif : vif[v].stas # {} => v \in stack.ap
      BY <1>0, <3>1 DEF Listed
    <3>6. Listed'
      BY <1>1, <1>3, <1>5, <2>9, <3>4, <3>5 DEF Listed
    <3> QED BY <2>1, <2>3, <2>4, <2>5, <2>6, <2>7, <3>6, StationKeeps
  <2> QED BY <1>5, <2>8, <2>9
<1>6. CASE NotAnswered /\ Done("user") /\ UNCHANGED vif /\ sta_valid' \subseteq StaIndex
  BY <1>5, <1>6
<1>7. CASE vif[me].stas = {} /\ Done("user") /\ UNCHANGED <<vif, sta_valid, chip, in_recovery>>
  <2>1. sta_valid' \subseteq StaIndex /\ NoMemory
    BY <1>0, <1>7 DEF Types, IfaceTypes, NoMemory
  <2> QED BY <1>5, <1>7, <2>1
<1> QED BY <1>2, <1>4, <1>6, <1>7


\* Every step of a call of the stack keeps the invariant.
LEMMA UserKeeps ==
  ASSUME Inv, User
  PROVE  Inv'
<1>1. CASE \/ MeConfig \/ ChanConfig \/ ScanStart \/ ScanCancel \/ RocCancel \/ ApStop \/ Set
  BY <1>1, AsksKeep
<1>2. CASE \/ DevStart \/ IfAdd \/ Opened \/ IfRemove \/ Closed \/ DevReset \/ Unregistered
  BY <1>2, DevStartKeeps, IfAddKeeps, OpenedKeeps, IfRemoveKeeps, ClosedKeeps, DevResetKeeps, UnregisteredKeeps
<1>3. CASE \E t \in {"sta", "ap"} : Changed(t)
  BY <1>3, ChangedKeeps
<1>4. CASE ScanBegun \/ ScanStop \/ ScanWait \/ RocReq \/ RocInternal \/ RocTx
  BY <1>4, ScanBegunKeeps, ScanStopKeeps, ScansKeep, RocsKeep
<1>5. CASE ConnectReq \/ DisconnectReq \/ CacStart \/ CsaReq \/ CsaInit
  BY <1>5, ConnectReqKeeps, DisconnectReqKeeps, CacStartKeeps, CsaReqKeeps, CsaInitKeeps
<1>6. CASE ApStart \/ ApStopped \/ AddSta
  BY <1>6, ApStartKeeps, ApStoppedKeeps, AddStaKeeps
<1>7. CASE \E s \in {"del_one", "del_stations"} : DelSta(s)
  BY <1>7, DelStaKeeps
<1> QED BY <1>1, <1>2, <1>3, <1>4, <1>5, <1>6, <1>7 DEF User

\* Every step that calls and works share keeps the invariant.
LEMMA SharedKeeps ==
  ASSUME Inv, Shared
  PROVE  Inv'
<1>1. CASE ScanTest("user") \/ ScanReport("user") \/ ScanGate("user") \/ ScanClear("user")
  BY <1>1, ScansKeep, ScanClearKeeps
<1>2. CASE ScanTest("ind") \/ ScanReport("ind") \/ ScanClear("ind") \/ ScanGate("ind")
  BY <1>2, ScansElsewhere
<1>3. CASE CacStop("user") \/ CacStop("dfs")
  BY <1>3, CacStopKeeps, CacStopElsewhere
<1>4. CASE CacStopReq("user") \/ CacEnd("user")
  BY <1>4, AsksKeep, CacEndKeeps
<1>5. CASE \E t \in {"dfs", "cac"} : CacStopReq(t) \/ CacEnd(t)
  BY <1>5, CacReqElsewhere, CacEndElsewhere
<1> QED BY <1>1, <1>2, <1>3, <1>4, <1>5 DEF Shared

\* Every step of the works keeps the invariant.
LEMMA WorksKeep ==
  ASSUME Inv, Works
  PROVE  Inv'
BY CacStopElsewhere, PulsesKeep, CsaWorkKeeps, CsaBeaconKeeps, CsaSetKeeps, CsaRemoveKeeps DEF Works

\* Every step of an indication keeps the invariant.
LEMMA IndicationsKeep ==
  ASSUME Inv, Indications
  PROVE  Inv'
BY PlainIndications, ConnectIndKeeps, ConnectionsKeep, DisconnectIndKeeps, CsaFinishKeeps DEF Indications

-----------------------------------------------------------------------------
(* The calls of the stack *)

\* What the steps of a call ask of the interface the call is about.
CallFits(v, S) ==
  /\ S \cap Opening # {} => ~vif[v].up
  /\ S \cap NeedUp # {} => vif[v].up
  /\ S \cap Asking # {} => vif[v].type = "sta"
  /\ "ap_start" \in S => vif[v].type = "ap"
  /\ S \cap {"add_sta", "csa_req"} # {} => v \in stack.ap
  /\ S \cap Changing # {} => ~vif[v].up
  /\ "unregistered" \in S => ~vif[v].up \/ "closed" \in S
  /\ S \cap Leaving # {} => v \notin stack.ap /\ {"if_remove", "scan_stop", "cac_stop"} \subseteq S
  /\ "opened" \in S => "if_add" \in S
  /\ S \cap {"if_add", "opened"} # {} => "dev_start" \in S \/ vif_started # 0
  /\ "ap_stopped" \in S => "del_stations" \in S
  /\ "csa_req" \in S => vif'[v].csa = "asked"
  /\ "dev_reset" \notin S

\* Between two calls no step is left.
LEMMA NoCall ==
  ASSUME UserLists, todo["user"] = <<>>
  PROVE  U = {}
BY NoStep DEF U

\* A call keeps the invariant when its steps fit the interface it is made for.
LEMMA CallKeeps ==
  ASSUME Inv, NEW op, NEW v \in Vif, NEW ok, NEW l, Call(op, v, ok, l), ListOK(l), CallFits(v, Steps(l)),
         UNCHANGED <<vif_table, vif_started, avail_idx_map, sta_valid, scanVars, chipVars, stack>>,
         vif' \in [Vif -> VifType], SameButCsa(v), vif'[v].csa = vif[v].csa \/ vif[v].csa = "none",
         RequestTypes', NothingOutlivesItsInterface'
  PROVE  Inv'
<1>0. Types /\ UserLists /\ Ups /\ Counted /\ Indices /\ Known /\ Forgotten /\ Listed /\ Switch
  BY DEF Inv, NetInv
<1> DEFINE S == Steps(l)
<1>1. /\ todo["user"] = <<>> /\ vif[v].reg /\ todo' = [todo EXCEPT !["user"] = l] /\ on' = [on EXCEPT !["user"] = v]
  BY DEF Call
<1>2. U = {}
  BY <1>0, <1>1, NoCall
<1>3. /\ UserLists' /\ U' = S /\ todo'["csa"] = todo["csa"] /\ on'["csa"] = on["csa"] /\ me' = v /\ OnTypes'
  <2>1. "user" \in Thread /\ "csa" \in Thread /\ DOMAIN todo = Thread /\ on \in [Thread -> Vif \cup {None}]
    BY <1>0 DEF UserLists, Thread, Types, OnTypes
  <2>2. todo'["user"] = l /\ DOMAIN todo' = Thread /\ todo'["csa"] = todo["csa"]
    BY <1>1, <2>1
  <2>3. on'["user"] = v /\ on'["csa"] = on["csa"] /\ on' \in [Thread -> Vif \cup {None}]
    BY <1>1, <2>1
  <2> QED BY <2>2, <2>3 DEF UserLists, U, me, OnTypes
<1> HIDE DEF S
<1>4. CallFits(v, S)
  BY DEF S
<1>5. /\ vif_table' = vif_table /\ vif_started' = vif_started /\ stack' = stack /\ chip' = chip /\ in_recovery' = in_recovery
      /\ \A w \in Vif : /\ vif'[w].reg = vif[w].reg /\ vif'[w].type = vif[w].type /\ vif'[w].up = vif[w].up
                        /\ vif'[w].idx = vif[w].idx /\ vif'[w].stas = vif[w].stas
  BY DEF SameButCsa, chipVars
<1>6. Types'
  BY <1>0, <1>3 DEF Types, IfaceTypes, ChipTypes, IndTypes, StackTypes, chipVars
<1>7. Place'
  <2>1. Leaving \subseteq NeedUp /\ {"if_remove", "closed"} = Leaving
    BY DEF NeedUp, Leaving
  <2>2. (U # {} => me \in Vif)' /\ (U \cap Opening # {} => vif[me].reg /\ ~vif[me].up)'
    BY <1>1, <1>3, <1>4, <1>5 DEF CallFits
  <2>3. (U \cap NeedUp # {} => vif[me].up)' /\ (U \cap Asking # {} => vif[me].type = "sta")'
    BY <1>3, <1>4, <1>5 DEF CallFits
  <2>4. ("ap_start" \in U => vif[me].type = "ap")' /\ (U \cap {"add_sta", "csa_req"} # {} => me \in stack.ap)'
    BY <1>3, <1>4, <1>5 DEF CallFits
  <2>5. (U \cap Changing # {} => ~vif[me].up)' /\ ("unregistered" \in U => ~vif[me].up \/ "closed" \in U)'
    BY <1>3, <1>4, <1>5 DEF CallFits
  <2>6. (U \cap Leaving # {} => me \notin stack.ap)' /\ ("closed" \in U => "if_remove" \in U \/ At("user", "closed"))'
    BY <1>3, <1>4, <1>5, <2>1 DEF CallFits
  <2>7. ("dev_reset" \in U => vif_started = 0)'
    BY <1>3, <1>4 DEF CallFits
  <2> QED BY <2>2, <2>3, <2>4, <2>5, <2>6, <2>7 DEF Place
<1>8. Ups'
  BY <1>0, <1>5 DEF Ups
<1>9. Counted'
  <2>1. {w \in Vif : vif'[w].up} = {w \in Vif : vif[w].up}
    BY <1>5
  <2> QED BY <1>0, <1>5, <2>1 DEF Counted
<1>10. \A w \in Vif : (Held(w)' <=> vif[w].up) /\ (Held(w) <=> vif[w].up) /\ ~Going(w) /\ ~Going(w)'
  <2>1. "closed" \in Leaving
    BY DEF Leaving
  <2>2. \A w \in Vif : Held(w)' <=> vif[w].up
    BY <1>3, <1>4, <1>5 DEF Held, CallFits
  <2>3. \A w \in Vif : ~Going(w)'
    BY <1>3, <1>4, <2>1 DEF Going, CallFits
  <2>4. \A w \in Vif : (Held(w) <=> vif[w].up) /\ ~Going(w)
    BY <1>2 DEF Held, Going
  <2> QED BY <2>2, <2>3, <2>4
<1>11. Indices'
  BY <1>0, <1>5, <1>10 DEF Indices
<1>12. Known'
  <2> SUFFICES ASSUME ~in_recovery'
               PROVE  /\ \A w \in Vif : Held(w)' /\ ~Going(w)' => chip'.vifs[vif'[w].idx] = w /\ chip'.started
                      /\ U' \cap {"if_add", "opened"} # {} /\ "dev_start" \notin U' => chip'.started
    BY DEF Known
  <2>1. \A w \in Vif : vif[w].up => chip.vifs[vif[w].idx] = w /\ chip.started
    BY <1>0, <1>5, <1>10 DEF Known
  <2>2. vif_started # 0 => \E w \in Vif : vif[w].up
    <3>1. (\A w \in Vif : ~vif[w].up) => {w \in Vif : vif[w].up} = {}
      OBVIOUS
    <3> QED BY <1>0, <3>1, FS_EmptySet DEF Counted
  <2>3. U' \cap {"if_add", "opened"} # {} /\ "dev_start" \notin U' => chip'.started
    BY <1>3, <1>4, <1>5, <2>1, <2>2 DEF CallFits
  <2> QED BY <1>5, <1>10, <2>1, <2>3
<1>13. Forgotten'
  BY <1>0, <1>5 DEF Forgotten
<1>14. Listed'
  <2> SUFFICES ASSUME ~in_recovery'
               PROVE  (/\ \A w \in Vif : vif[w].stas # {} => w \in stack.ap
                       /\ "ap_stopped" \in U /\ "del_stations" \notin U => vif[me].stas = {}
                       /\ \A w \in Vif : Held(w) /\ ~Going(w) /\ vif[w].type = "ap" =>
                            /\ vif[w].idx \notin chip.join
                            /\ vif[w].stas = {s \in StaIndex : chip.stas[s] = vif[w].idx})'
    BY DEF Listed
  <2>1. \A w \in Vif : Held(w) /\ ~Going(w) /\ vif[w].type = "ap" =>
           vif[w].idx \notin chip.join /\ vif[w].stas = {s \in StaIndex : chip.stas[s] = vif[w].idx}
    BY <1>0, <1>5 DEF Listed
  <2>2. \A w \in Vif : Held(w)' /\ ~Going(w)' /\ vif'[w].type = "ap" =>
           vif'[w].idx \notin chip'.join /\ vif'[w].stas = {s \in StaIndex : chip'.stas[s] = vif'[w].idx}
    BY <1>5, <1>10, <2>1
  <2>3. \A w \in Vif : vif'[w].stas # {} => w \in stack'.ap
    BY <1>0, <1>5 DEF Listed
  <2>4. ~("ap_stopped" \in U' /\ "del_stations" \notin U')
    BY <1>3, <1>4 DEF CallFits
  <2> QED BY <2>2, <2>3, <2>4
<1>15. Outlives'
  <2>1. U' \cap Leaving # {} => "scan_stop" \in U' /\ "cac_stop" \in U'
    BY <1>3, <1>4 DEF CallFits
  <2> QED BY <2>1 DEF Outlives
<1>16. Switch'
  <2>1. ("csa_req" \in U => vif[me].csa = "asked")'
    BY <1>3, <1>4 DEF CallFits
  <2>2. (todo["csa"] # <<>> /\ ~At("csa", "oops") => on["csa"] \in Vif /\ vif[on["csa"]].csa \notin {"none", "asked"})'
    <3> SUFFICES ASSUME todo["csa"] # <<>>, ~At("csa", "oops")
                 PROVE  on["csa"] \in Vif /\ vif'[on["csa"]].csa \notin {"none", "asked"}
      BY <1>3 DEF At
    <3>1. on["csa"] \in Vif /\ vif[on["csa"]].csa \notin {"none", "asked"}
      BY <1>0 DEF Switch
    <3>2. vif'[on["csa"]].csa = vif[on["csa"]].csa
      BY <3>1 DEF SameButCsa
    <3> QED BY <3>1, <3>2
  <2> QED BY <1>0, <1>3, <2>1, <2>2 DEF Switch
<1> QED BY <1>3, <1>6, <1>7, <1>8, <1>9, <1>11, <1>12, <1>13, <1>14, <1>15, <1>16 DEF Inv, NetInv


\* An interface that stays differs from itself in nothing.
LEMMA SameVif ==
  ASSUME Types, vif' = vif, NEW v
  PROVE  vif' \in [Vif -> VifType] /\ SameButCsa(v) /\ vif'[v].csa = vif[v].csa
BY DEF Types, IfaceTypes, SameButCsa

\* So does a call that does nothing yet.
LEMMA BareCall ==
  ASSUME Inv, NEW op, NEW v \in Vif, NEW ok, NEW l, Call(op, v, ok, l), ListOK(l), CallFits(v, Steps(l)),
         UNCHANGED <<netVars, sta_valid, scanVars, roc, cacVars, dfsVars, chipVars, stack>>
  PROVE  Inv'
<1>1. Types /\ Outlives
  BY DEF Inv, NetInv
<1>2. UNCHANGED <<vif, vif_table, vif_started, avail_idx_map, sta_valid, scanVars, chipVars, stack>>
  BY DEF netVars
<1>3. vif' \in [Vif -> VifType] /\ SameButCsa(v) /\ vif'[v].csa = vif[v].csa
  BY <1>1, <1>2, SameVif
<1>4. RequestTypes'
  BY <1>1, RequestsSame
<1>5. NothingOutlivesItsInterface'
  BY <1>1, <1>2 DEF Outlives, NothingOutlivesItsInterface, IsUp, scanVars, cacVars
<1> QED BY <1>2, <1>3, <1>4, <1>5, CallKeeps

\* Steps that the invariant does not wait for.
Plain == UserStep \ (Marks \cup Special)

\* The steps that ask nothing of their interface.
LEMMA PlainSteps ==
  {"oops", "scan_cancel", "scan_gate", "scan_start", "roc_req", "roc_internal", "roc_tx", "roc_cancel", "cac_start",
   "del_one", "set"} \subseteq Plain
BY DEF Plain, UserStep, Special, Last, Marks, Opening, NeedUp, Leaving, Asking, Changing

\* They fit every interface.
LEMMA PlainFits ==
  ASSUME NEW l \in Seq(Plain), NEW v
  PROVE  ListOK(l) /\ CallFits(v, Steps(l))
<1>1. l \in Seq(UserStep \ Special)
  BY DEF Plain
<1>2. \A x \in Steps(l) : x \notin Marks
  BY DEF Steps, Plain
<1>3. CallFits(v, Steps(l))
  <2>1. /\ Opening \subseteq Marks /\ NeedUp \subseteq Marks /\ Asking \subseteq Marks /\ Changing \subseteq Marks
        /\ Leaving \subseteq Marks
        /\ {"ap_start", "add_sta", "csa_req", "unregistered", "opened", "if_add", "ap_stopped", "dev_reset"} \subseteq Marks
    BY DEF Marks, Opening, NeedUp, Asking, Changing, Leaving
  <2> HIDE DEF Marks
  <2> QED BY <1>2, <2>1 DEF CallFits
<1> QED BY <1>1, <1>3, PlainOK

\* One of them, or none, is a list of them.
LEMMA OnePlain ==
  ASSUME NEW x \in Plain
  PROVE  <<>> \in Seq(Plain) /\ <<x>> \in Seq(Plain)
OBVIOUS

\* One step, which a guard of the call stands for.
LEMMA OneCall ==
  ASSUME Inv, NEW op, NEW v \in Vif, NEW ok, NEW x \in UserStep \ {"if_remove"}, Call(op, v, ok, <<x>>), CallFits(v, {x}),
         UNCHANGED <<netVars, sta_valid, scanVars, roc, cacVars, dfsVars, chipVars, stack>>
  PROVE  Inv'
<1>1. ListOK(<<x>>) /\ CallFits(v, Steps(<<x>>))
  BY OneStep
<1> QED BY <1>1, BareCall

\* The calls that only set something keep the invariant.
LEMMA SettingsKeep ==
  ASSUME Inv, NEW v \in Vif,
         \/ AddKey(v) \/ DelKey(v) \/ ChangeStation(v) \/ ChangeBeacon(v) \/ ProbeClient(v)
         \/ SetTxqParams(v) \/ SetTxPower(v) \/ SetPowerMgmt(v)
  PROVE  Inv'
<1>1. ASSUME NEW op, NEW ok, NEW l \in Seq(Plain), Setting(op, v, ok, l)
      PROVE  Inv'
  BY <1>1, PlainFits, BareCall DEF Setting
<1>2. <<"set">> \in Seq(Plain)
  BY PlainSteps, OnePlain
<1>3. CASE SetTxPower(v)
  <2>1. PICK n \in {1, Cardinality({u \in Vif : vif[u].reg})} : Setting("set_tx_power", v, TRUE, [i \in 1..n |-> "set"])
    BY <1>3 DEF SetTxPower
  <2>2. n \in Nat
    BY <2>1, VifAssumption, FS_Subset, FS_CardinalityType
  <2>3. [i \in 1..n |-> "set"] \in Seq(Plain)
    BY <2>2, PlainSteps
  <2> QED BY <1>1, <2>1, <2>3
<1> QED BY <1>1, <1>2, <1>3 DEF AddKey, DelKey, ChangeStation, ChangeBeacon, ProbeClient, SetTxqParams, SetPowerMgmt

\* ndo_open keeps the invariant: its interface is registered and closed.
LEMMA OpenCall ==
  ASSUME Inv, NEW v \in Vif, Open(v)
  PROVE  Inv'
<1> DEFINE l1 == IF vif_started = 0 THEN <<"dev_start">> ELSE <<>>
           l2 == <<"if_add", "opened">>
           l  == l1 \o l2
<1>1. /\ Call("open", v, ~vif[v].up, l)
      /\ UNCHANGED <<netVars, sta_valid, scanVars, roc, cacVars, dfsVars, chipVars, stack>>
  BY DEF Open
<1>2. ListOK(l2) /\ Steps(l2) = {"if_add", "opened"}
  BY TwoSteps DEF UserStep, After, Last
<1>3. /\ ListOK(l1) /\ Steps(l1) \subseteq {"dev_start"} /\ (vif_started = 0 => Steps(l1) = {"dev_start"})
      /\ \A x \in Steps(l1) : Steps(l2) \subseteq After(x)
  BY <1>2, OneStep, NoStep DEF UserStep, After, Last
<1> HIDE DEF l1, l2
<1>4. ListOK(l) /\ Steps(l) = Steps(l1) \cup Steps(l2)
  BY <1>2, <1>3, ConcatOK
<1>5. ~vif[v].up
  BY <1>1 DEF Call
<1>6. CallFits(v, Steps(l))
  BY <1>2, <1>3, <1>4, <1>5 DEF CallFits, Opening, NeedUp, Leaving, Asking, Changing
<1> HIDE DEF l
<1> QED BY <1>1, <1>4, <1>6, BareCall

\* What rs_net_close does fits an open interface that is no AP.
LEMMA CloseFits ==
  ASSUME NEW v, vif[v].up, v \notin stack.ap
  PROVE  CallFits(v, Steps(CloseSteps)) /\ CallFits(v, Steps(CloseSteps \o <<"unregistered">>))
BY CloseList DEF CallFits, Opening, NeedUp, Leaving, Asking, Changing

\* ndo_close and the deletion of an interface keep the invariant.
LEMMA ClosingCalls ==
  ASSUME Inv, NEW v \in Vif, Close(v) \/ DelIface(v)
  PROVE  Inv'
<1>1. CASE Close(v)
  <2>1. vif[v].up /\ v \notin stack.ap
    BY <1>1 DEF Close, Call
  <2> QED BY <1>1, <2>1, CloseFits, CloseList, BareCall DEF Close
<1>2. CASE DelIface(v)
  <2> DEFINE l == (IF vif[v].up THEN CloseSteps ELSE <<>>) \o <<"unregistered">>
  <2>1. /\ Call("del", v, v \notin stack.ap, l)
        /\ UNCHANGED <<netVars, sta_valid, scanVars, roc, cacVars, dfsVars, chipVars, stack>>
    BY <1>2 DEF DelIface
  <2>2. v \notin stack.ap
    BY <2>1 DEF Call
  <2>3. ListOK(l) /\ CallFits(v, Steps(l))
    <3>1. CASE vif[v].up
      BY <2>2, <3>1, CloseFits, CloseList
    <3>2. CASE ~vif[v].up
      <4>1. l = <<"unregistered">>
        BY <3>2
      <4>2. ListOK(<<"unregistered">>) /\ Steps(<<"unregistered">>) = {"unregistered"}
        BY OneStep DEF UserStep
      <4>3. CallFits(v, {"unregistered"})
        BY <3>2 DEF CallFits, Opening, NeedUp, Leaving, Asking, Changing
      <4> QED BY <4>1, <4>2, <4>3
    <3> QED BY <3>1, <3>2
  <2> HIDE DEF l
  <2> QED BY <2>1, <2>3, BareCall
<1> QED BY <1>1, <1>2

\* The change of a type keeps the invariant.
LEMMA ChangeCall ==
  ASSUME Inv, NEW v \in Vif, NEW t \in {"sta", "ap", "monitor"}, ChangeIface(v, t)
  PROVE  Inv'
<1> DEFINE l == IF t = "monitor" THEN <<"oops">>
                ELSE IF vif[v].type = "ap" /\ t # "ap" THEN <<"del_stations", ChangeTo(t)>>
                ELSE <<ChangeTo(t)>>
<1>1. /\ Call("change", v, ~vif[v].up, l)
      /\ UNCHANGED <<netVars, sta_valid, scanVars, roc, cacVars, dfsVars, chipVars, stack>>
  BY DEF ChangeIface
<1>2. ~vif[v].up
  BY <1>1 DEF Call
<1>3. ChangeTo(t) \in Changing /\ Changing \subseteq UserStep \ {"if_remove"} /\ {"oops", "del_stations"} \subseteq UserStep \ {"if_remove"}
  BY DEF ChangeTo, Changing, UserStep
<1>4. ListOK(l) /\ (Steps(l) = {"oops"} \/ Steps(l) = {"del_stations", ChangeTo(t)} \/ Steps(l) = {ChangeTo(t)})
  <2>1. ListOK(<<"oops">>) /\ Steps(<<"oops">>) = {"oops"}
    BY <1>3, OneStep
  <2>2. ListOK(<<ChangeTo(t)>>) /\ Steps(<<ChangeTo(t)>>) = {ChangeTo(t)}
    BY <1>3, OneStep
  <2>3. After("del_stations") = UserStep
    BY DEF After, Last
  <2>4. ListOK(<<"del_stations", ChangeTo(t)>>) /\ Steps(<<"del_stations", ChangeTo(t)>>) = {"del_stations", ChangeTo(t)}
    BY <1>3, <2>3, TwoSteps
  <2> QED BY <2>1, <2>2, <2>4
<1>5. CallFits(v, Steps(l))
  <2> HIDE DEF l
  <2>1. Steps(l) \subseteq {"oops", "del_stations"} \cup Changing
    BY <1>3, <1>4
  <2> HIDE DEF Changing
  <2>2. /\ Steps(l) \cap Opening = {} /\ Steps(l) \cap NeedUp = {} /\ Steps(l) \cap Asking = {} /\ Steps(l) \cap Leaving = {}
        /\ Steps(l) \cap {"ap_start", "add_sta", "csa_req", "unregistered", "opened", "if_add", "ap_stopped", "dev_reset"} = {}
    BY <2>1 DEF Opening, NeedUp, Leaving, Asking, Changing
  <2> QED BY <1>2, <2>2 DEF CallFits
<1> HIDE DEF l
<1> QED BY <1>1, <1>4, <1>5, BareCall

\* The calls of a scan keep the invariant.
LEMMA ScanCalls ==
  ASSUME Inv, NEW v \in Vif, Scan(v) \/ ScanAbort(v)
  PROVE  Inv'
<1>1. CASE Scan(v)
  <2> DEFINE l == <<"scan_start", "scan_begun">>
  <2>1. ListOK(l) /\ Steps(l) = {"scan_start", "scan_begun"}
    BY TwoSteps DEF UserStep, After, Last
  <2>2. vif[v].up
    BY <1>1 DEF Scan, Call
  <2>3. CallFits(v, {"scan_start", "scan_begun"})
    BY <2>2 DEF CallFits, Opening, NeedUp, Leaving, Asking, Changing
  <2> QED BY <1>1, <2>1, <2>3, BareCall DEF Scan
<1>2. CASE ScanAbort(v)
  <2> DEFINE l == (IF vif[v].up THEN <<"scan_cancel">> ELSE <<>>) \o <<"scan_gate">>
  <2>1. l \in Seq(Plain)
    BY PlainSteps
  <2>2. ListOK(l) /\ CallFits(v, Steps(l))
    BY <2>1, PlainFits
  <2>3. Call("scan_abort", v, scan_request # None, l)
    BY <1>2 DEF ScanAbort
  <2> HIDE DEF l
  <2> QED BY <1>2, <2>2, <2>3, BareCall DEF ScanAbort
<1> QED BY <1>1, <1>2


\* A new stay on a channel is that of an open interface.
LEMMA NewRocUp ==
  ASSUME Types, Outlives, NEW v \in Vif, vif[v].up, vif' = vif, UNCHANGED <<scanVars, cacVars, dfsVars>>,
         roc' = NewRoc(v) \/ roc' = roc
  PROVE  RequestTypes' /\ NothingOutlivesItsInterface'
<1>1. NewRoc(v).vif = v /\ NewRoc(v) \in [vif : Vif, internal : BOOLEAN, on_chan : BOOLEAN, tx : BOOLEAN]
  BY DEF NewRoc
<1>2. RequestTypes'
  BY <1>1 DEF Types, RequestTypes, scanVars, cacVars, dfsVars
<1>3. roc' # None => IsUp(roc'.vif)
  BY <1>1, VifAssumption DEF Outlives, NothingOutlivesItsInterface, IsUp
<1>4. NothingOutlivesItsInterface'
  BY <1>3 DEF Outlives, NothingOutlivesItsInterface, IsUp, scanVars, cacVars
<1> QED BY <1>2, <1>4

\* The calls of a stay on a channel keep the invariant.
LEMMA RocCalls ==
  ASSUME Inv, NEW v \in Vif, RemainOnChannel(v) \/ MgmtTxOffchan(v) \/ CancelWait(v) \/ CancelRoc(v)
  PROVE  Inv'
<1>0. Types /\ Outlives
  BY DEF Inv, NetInv
<1>1. ASSUME NEW op, NEW ok, NEW l \in Seq(Plain), Call(op, v, ok, l),
             UNCHANGED <<netVars, sta_valid, scanVars, cacVars, dfsVars, chipVars, stack>>,
             RequestTypes', NothingOutlivesItsInterface'
      PROVE  Inv'
  <2>1. UNCHANGED <<vif, vif_table, vif_started, avail_idx_map, sta_valid, scanVars, chipVars, stack>>
    BY <1>1 DEF netVars
  <2>2. vif' \in [Vif -> VifType] /\ SameButCsa(v) /\ vif'[v].csa = vif[v].csa
    BY <1>0, <2>1, SameVif
  <2>3. ListOK(l) /\ CallFits(v, Steps(l))
    BY PlainFits
  <2> QED BY <1>1, <2>1, <2>2, <2>3, CallKeeps
<1>2. CASE RemainOnChannel(v)
  <2>1. <<"roc_req">> \in Seq(Plain)
    BY PlainSteps, OnePlain
  <2>2. RequestTypes' /\ NothingOutlivesItsInterface'
    BY <1>0, <1>2, NewRocUp DEF RemainOnChannel, Call, netVars
  <2> QED BY <1>1, <1>2, <2>1, <2>2 DEF RemainOnChannel
<1>3. CASE MgmtTxOffchan(v)
  <2> DEFINE l == (IF roc = None THEN <<"roc_req", "roc_internal">> ELSE <<>>) \o <<"roc_tx">>
  <2>1. l \in Seq(Plain)
    BY PlainSteps
  <2>2. Call("mgmt_tx", v, vif[v].up /\ (roc # None => roc.vif = v), l)
    BY <1>3 DEF MgmtTxOffchan
  <2>3. RequestTypes' /\ NothingOutlivesItsInterface'
    BY <1>0, <1>3, NewRocUp DEF MgmtTxOffchan, Call, netVars
  <2> HIDE DEF l
  <2> QED BY <1>1, <1>3, <2>1, <2>2, <2>3 DEF MgmtTxOffchan
<1>4. CASE CancelWait(v)
  <2> DEFINE l == IF roc.internal THEN <<"roc_cancel">> ELSE <<>>
  <2>1. l \in Seq(Plain)
    BY PlainSteps, OnePlain
  <2>2. Call("cancel_wait", v, roc # None /\ roc.tx, l) /\ roc' = [roc EXCEPT !.tx = FALSE] /\ roc # None
    BY <1>4 DEF CancelWait, Call
  <2>3. roc' \in [vif : Vif, internal : BOOLEAN, on_chan : BOOLEAN, tx : BOOLEAN] /\ roc'.vif = roc.vif
    BY <1>0, <2>2 DEF Types, RequestTypes
  <2>4. UNCHANGED <<netVars, sta_valid, scanVars, cacVars, dfsVars, chipVars, stack>>
    BY <1>4 DEF CancelWait
  <2>5. RequestTypes'
    BY <1>0, <2>3, <2>4 DEF Types, RequestTypes, scanVars, cacVars, dfsVars
  <2>6. NothingOutlivesItsInterface'
    BY <1>0, <2>2, <2>3, <2>4 DEF Outlives, NothingOutlivesItsInterface, IsUp, scanVars, cacVars, netVars
  <2> HIDE DEF l
  <2> QED BY <1>1, <2>1, <2>2, <2>4, <2>5, <2>6
<1>5. CASE CancelRoc(v)
  <2>1. <<"roc_cancel">> \in Seq(Plain)
    BY PlainSteps, OnePlain
  <2> QED BY <1>5, <2>1, PlainFits, BareCall DEF CancelRoc
<1> QED BY <1>2, <1>3, <1>4, <1>5

\* The calls of a connection keep the invariant.
LEMMA ConnectionCalls ==
  ASSUME Inv, NEW v \in Vif, Connect(v) \/ Disconnect(v)
  PROVE  Inv'
<1>1. CASE Connect(v)
  <2>1. vif[v].up /\ vif[v].type = "sta"
    BY <1>1 DEF Connect, Call
  <2>2. CallFits(v, {"connect_req"}) /\ "connect_req" \in UserStep \ {"if_remove"}
    BY <2>1 DEF CallFits, Opening, NeedUp, Leaving, Asking, Changing, UserStep
  <2> QED BY <1>1, <2>2, OneCall DEF Connect
<1>2. CASE Disconnect(v)
  <2> DEFINE l1 == IF scan_request # None THEN <<"scan_stop">> ELSE <<>>
             l  == l1 \o <<"disconnect_req">>
  <2>1. /\ Call("disconnect", v, vif[v].up /\ vif[v].type = "sta", l)
        /\ UNCHANGED <<netVars, sta_valid, scanVars, roc, cacVars, dfsVars, chipVars, stack>>
    BY <1>2 DEF Disconnect
  <2>2. vif[v].up /\ vif[v].type = "sta"
    BY <2>1 DEF Call
  <2>3. l1 \in Seq(UserStep \ Special) /\ Steps(l1) \subseteq {"scan_stop"}
    <3>1. "scan_stop" \in UserStep \ Special /\ "scan_stop" \in UserStep \ {"if_remove"}
      BY DEF UserStep, Special, Last
    <3>2. ListOK(<<"scan_stop">>) /\ <<"scan_stop">> \in Seq(UserStep \ Special) /\ Steps(<<"scan_stop">>) = {"scan_stop"}
      BY <3>1, OneStep
    <3>3. <<>> \in Seq(UserStep \ Special) /\ Steps(<<>>) = {}
      BY NoStep
    <3>4. CASE scan_request # None
      <4>1. l1 = <<"scan_stop">>
        BY <3>4
      <4> QED BY <3>2, <4>1
    <3>5. CASE scan_request = None
      <4>1. l1 = <<>>
        BY <3>5
      <4> QED BY <3>3, <4>1
    <3> QED BY <3>4, <3>5
  <2>4. ListOK(<<"disconnect_req">>) /\ Steps(<<"disconnect_req">>) = {"disconnect_req"}
    BY OneStep DEF UserStep
  <2> HIDE DEF l1
  <2>5. ListOK(l) /\ Steps(l) = Steps(l1) \cup {"disconnect_req"}
    BY <2>3, <2>4, PlainBefore
  <2>6. CallFits(v, Steps(l))
    BY <2>2, <2>3, <2>5 DEF CallFits, Opening, NeedUp, Leaving, Asking, Changing
  <2> HIDE DEF l
  <2> QED BY <2>1, <2>5, <2>6, BareCall
<1> QED BY <1>1, <1>2

\* The calls of an AP and of its stations keep the invariant.
LEMMA ApCalls ==
  ASSUME Inv, NEW v \in Vif, StartAp(v) \/ StopAp(v) \/ AddStation(v) \/ DelStation(v)
  PROVE  Inv'
<1>1. CASE StartAp(v)
  <2>1. vif[v].up /\ vif[v].type = "ap"
    BY <1>1 DEF StartAp, Call
  <2>2. CallFits(v, {"ap_start"}) /\ "ap_start" \in UserStep \ {"if_remove"}
    BY <2>1 DEF CallFits, Opening, NeedUp, Leaving, Asking, Changing, UserStep
  <2> QED BY <1>1, <2>2, OneCall DEF StartAp
<1>2. CASE StopAp(v)
  <2>1. CallFits(v, {"del_stations", "cac_stop", "ap_stop", "ap_stopped"})
    BY DEF CallFits, Opening, NeedUp, Leaving, Asking, Changing
  <2> QED BY <1>2, <2>1, StopList, BareCall DEF StopAp
<1>3. CASE AddStation(v)
  <2>1. v \in stack.ap
    BY <1>3 DEF AddStation, Call
  <2>2. CallFits(v, {"add_sta"}) /\ "add_sta" \in UserStep \ {"if_remove"}
    BY <2>1 DEF CallFits, Opening, NeedUp, Leaving, Asking, Changing, UserStep
  <2> QED BY <1>3, <2>2, OneCall DEF AddStation
<1>4. CASE DelStation(v)
  <2>1. <<"del_one">> \in Seq(Plain)
    BY PlainSteps, OnePlain
  <2> QED BY <1>4, <2>1, PlainFits, BareCall DEF DelStation
<1> QED BY <1>1, <1>2, <1>3, <1>4

\* The call of a channel switch keeps the invariant: no other switch is on for the interface.
LEMMA SwitchCall ==
  ASSUME Inv, NEW v \in Vif, ChannelSwitch(v)
  PROVE  Inv'
<1> DEFINE l == <<"csa_req", "csa_init">>
<1>0. Types /\ Outlives /\ vif \in [Vif -> VifType]
  BY DEF Inv, NetInv, Types, IfaceTypes
<1>1. /\ Call("csa", v, v \in stack.ap /\ vif[v].csa = "none", l) /\ v \in stack.ap /\ vif[v].csa = "none"
      /\ vif' = [vif EXCEPT ![v].csa = "asked"]
      /\ UNCHANGED <<vif_table, vif_started, avail_idx_map, sta_valid, scanVars, roc, cacVars, dfsVars, chipVars, stack>>
  BY DEF ChannelSwitch, Call
<1>2. ListOK(l) /\ Steps(l) = {"csa_req", "csa_init"}
  BY TwoSteps DEF UserStep, After, Last
<1>3. vif' \in [Vif -> VifType] /\ SameButCsa(v) /\ vif'[v].csa = "asked"
  BY <1>0, <1>1, SetCsa DEF CsaState
<1>4. CallFits(v, Steps(l))
  BY <1>1, <1>2, <1>3 DEF CallFits, Opening, NeedUp, Leaving, Asking, Changing
<1>5. RequestTypes'
  BY <1>0, <1>1, RequestsSame
<1>6. NothingOutlivesItsInterface'
  BY <1>0, <1>1, <1>3 DEF Outlives, NothingOutlivesItsInterface, IsUp, SameButCsa, Types, RequestTypes, scanVars, cacVars
<1> HIDE DEF l
<1> QED BY <1>1, <1>2, <1>3, <1>4, <1>5, <1>6, CallKeeps

\* The call of a CAC keeps the invariant: its interface is open.
LEMMA CacCall ==
  ASSUME Inv, NEW v \in Vif, StartRadarDetection(v)
  PROVE  Inv'
<1> DEFINE l == <<"cac_start">>
<1>0. Types /\ Outlives
  BY DEF Inv, NetInv
<1>1. /\ Call("start_cac", v, vif[v].up /\ vif[v].type = "ap" /\ v \notin stack.ap \cup stack.cac, l) /\ vif[v].up
      /\ cac_vif' = v /\ cac_pending' = TRUE
      /\ UNCHANGED <<netVars, sta_valid, scanVars, roc, dfsVars, chipVars, stack>>
  BY DEF StartRadarDetection, Call
<1>2. l \in Seq(Plain)
  BY PlainSteps, OnePlain
<1>3. ListOK(l) /\ CallFits(v, Steps(l))
  BY <1>2, PlainFits
<1>4. UNCHANGED <<vif, vif_table, vif_started, avail_idx_map, sta_valid, scanVars, chipVars, stack>>
  BY <1>1 DEF netVars
<1>5. vif' \in [Vif -> VifType] /\ SameButCsa(v) /\ vif'[v].csa = vif[v].csa
  BY <1>0, <1>4, SameVif
<1>6. RequestTypes'
  BY <1>0, <1>1 DEF Types, RequestTypes, scanVars, dfsVars
<1>7. NothingOutlivesItsInterface'
  BY <1>0, <1>1, <1>4 DEF Outlives, NothingOutlivesItsInterface, IsUp, scanVars
<1> HIDE DEF l
<1> QED BY <1>1, <1>3, <1>4, <1>5, <1>6, <1>7, CallKeeps

\* A new interface keeps the invariant: it is closed.
LEMMA AddIfaceKeeps ==
  ASSUME Inv, NEW v \in Vif, NEW t \in {"sta", "ap"}, AddIface(v, t)
  PROVE  Inv'
<1>0. Types /\ UserLists /\ Ups /\ vif \in [Vif -> VifType]
  BY DEF Inv, NetInv, Types, IfaceTypes
<1>1. PICK d \in avail_idx_map : vif' = [vif EXCEPT ![v] = NewVif(t, d)] /\ avail_idx_map' = avail_idx_map \ {d}
  BY DEF AddIface
<1>2. /\ todo["user"] = <<>> /\ ~vif[v].reg /\ vif[v].csa = "none"
      /\ UNCHANGED <<vif_table, vif_started, sta_valid, scanVars, roc, cacVars, dfsVars, chipVars, stack, todo, on>>
  BY DEF AddIface
<1>3. d \in VifIndex /\ 0 \in VifIndex
  BY <1>0, <1>1, IndexAssumption DEF Types, IfaceTypes, VifIndex
<1>4. NewVif(t, d) \in VifType /\ ~NewVif(t, d).up /\ NewVif(t, d).stas = {} /\ NewVif(t, d).csa = "none"
  BY <1>3 DEF NewVif, VifType
<1>5. vif' \in [Vif -> VifType] /\ vif'[v] = NewVif(t, d) /\ \A w \in Vif \ {v} : vif'[w] = vif[w]
  BY <1>0, <1>1, <1>4
<1>6. DownChanged(v)
  BY <1>0, <1>2, <1>4, <1>5 DEF DownChanged, Ups, chipVars
<1>7. UserLists' /\ U' = {} /\ "closed" \notin U
  <2>1. U = {}
    BY <1>0, <1>2, NoCall
  <2> QED BY <1>0, <1>2, <2>1, UserWaits DEF U
<1>8. Types'
  <2>1. RequestTypes'
    BY <1>0, <1>2, RequestsSame
  <2> QED BY <1>0, <1>1, <1>2, <1>5, <2>1 DEF Types, IfaceTypes, ChipTypes, IndTypes, StackTypes, OnTypes, chipVars
<1> QED BY <1>6, <1>7, <1>8, DownKeeps

\* Every call of the stack keeps the invariant.
LEMMA CallsKeep ==
  ASSUME Inv, Calls
  PROVE  Inv'
<1>1. PICK v \in Vif :
        \/ Open(v) \/ Close(v) \/ DelIface(v)
        \/ \E t \in {"sta", "ap"} : AddIface(v, t)
        \/ \E t \in {"sta", "ap", "monitor"} : ChangeIface(v, t)
        \/ Scan(v) \/ ScanAbort(v)
        \/ RemainOnChannel(v) \/ MgmtTxOffchan(v) \/ CancelWait(v) \/ CancelRoc(v)
        \/ Connect(v) \/ Disconnect(v)
        \/ StartAp(v) \/ StopAp(v) \/ ChannelSwitch(v) \/ AddStation(v) \/ DelStation(v)
        \/ StartRadarDetection(v)
        \/ AddKey(v) \/ DelKey(v) \/ ChangeStation(v) \/ ChangeBeacon(v) \/ ProbeClient(v)
        \/ SetTxqParams(v) \/ SetTxPower(v) \/ SetPowerMgmt(v)
  BY DEF Calls
<1>2. CASE \/ Open(v) \/ Close(v) \/ DelIface(v) \/ (\E t \in {"sta", "ap"} : AddIface(v, t))
           \/ \E t \in {"sta", "ap", "monitor"} : ChangeIface(v, t)
  BY <1>2, OpenCall, ClosingCalls, AddIfaceKeeps, ChangeCall
<1>3. CASE \/ Scan(v) \/ ScanAbort(v) \/ RemainOnChannel(v) \/ MgmtTxOffchan(v) \/ CancelWait(v) \/ CancelRoc(v)
           \/ Connect(v) \/ Disconnect(v)
  BY <1>3, ScanCalls, RocCalls, ConnectionCalls
<1>4. CASE \/ StartAp(v) \/ StopAp(v) \/ ChannelSwitch(v) \/ AddStation(v) \/ DelStation(v) \/ StartRadarDetection(v)
  BY <1>4, ApCalls, SwitchCall, CacCall
<1>5. CASE \/ AddKey(v) \/ DelKey(v) \/ ChangeStation(v) \/ ChangeBeacon(v) \/ ProbeClient(v)
           \/ SetTxqParams(v) \/ SetTxPower(v) \/ SetPowerMgmt(v)
  BY <1>5, SettingsKeep
<1> QED BY <1>1, <1>2, <1>3, <1>4, <1>5


-----------------------------------------------------------------------------
(* The theorems *)

\* The record of an interface at the start.
LEMMA StartRecord ==
  ASSUME NEW t \in {"sta", "ap"}, NEW d \in VifIndex, NEW c \in VifIndex, NEW p \in BOOLEAN, NEW q \in BOOLEAN,
         NEW r, r = StartVif(t, d, c, p, q)
  PROVE  r \in VifType /\ r.reg = p /\ r.up = q /\ r.idx = c /\ r.stas = {}
<1> DEFINE r0 == NewVif(t, d)
           r1 == [r0 EXCEPT !.reg = p]
           r2 == [r1 EXCEPT !.up = q]
           r3 == [r2 EXCEPT !.idx = c]
<1>0. 0 \in VifIndex
  BY IndexAssumption DEF VifIndex
<1>1. r0 \in VifType /\ r0.stas = {}
  BY <1>0 DEF NewVif, VifType
<1>2. r = r3
  BY DEF StartVif, NewVif
<1> HIDE DEF r0
<1>3. r1 \in VifType /\ r1.stas = {} /\ r1.reg = p
  BY <1>1 DEF VifType
<1> HIDE DEF r1
<1>4. r2 \in VifType /\ r2.stas = {} /\ r2.reg = p /\ r2.up = q
  BY <1>3 DEF VifType
<1> HIDE DEF r2
<1>5. r3 \in VifType /\ r3.stas = {} /\ r3.reg = p /\ r3.up = q /\ r3.idx = c
  BY <1>4 DEF VifType
<1> HIDE DEF r3
<1> QED BY <1>2, <1>5

\* The chip at the start knows the interfaces of the table and nothing else.
LEMMA StartChipFields ==
  ASSUME vif_table \in [VifIndex -> Vif \cup {None}], NEW b \in BOOLEAN, NEW e, e = StartChip(b)
  PROVE  /\ e \in ChipType /\ e.started = b /\ e.vifs = vif_table /\ e.join = {}
         /\ \A s \in StaIndex : e.stas[s] = None
<1> DEFINE c0 == ChipOff
           c1 == [c0 EXCEPT !.started = b]
           c2 == [c1 EXCEPT !.vifs = vif_table]
<1>1. c0 \in ChipType /\ c0.join = {} /\ \A s \in StaIndex : c0.stas[s] = None
  BY ChipOffTyped DEF ChipOff
<1>2. e = c2
  BY DEF StartChip, ChipOff
<1> HIDE DEF c0
<1>3. c1 \in ChipType /\ c1.join = c0.join /\ c1.stas = c0.stas /\ c1.started = b
  BY <1>1 DEF ChipType
<1> HIDE DEF c1
<1>4. c2 \in ChipType /\ c2.join = c1.join /\ c2.stas = c1.stas /\ c2.started = b /\ c2.vifs = vif_table
  BY <1>3 DEF ChipType
<1> HIDE DEF c2
<1> QED BY <1>1, <1>2, <1>3, <1>4

\* Some interfaces are open at the start, each with an index of its own.
LEMMA InitStarted ==
  ASSUME Init
  PROVE  \E P, O \in SUBSET Vif, t \in [Vif -> {"sta", "ap"}], d, c \in [Vif -> VifIndex] : Started(P, O, t, d, c)
BY DEF Init

\* The invariant holds at the start.
LEMMA InitInv ==
  ASSUME Init
  PROVE  Inv
<1>1. PICK P \in SUBSET Vif, O \in SUBSET Vif, t \in [Vif -> {"sta", "ap"}], d \in [Vif -> VifIndex], c \in [Vif -> VifIndex] :
        Started(P, O, t, d, c)
  BY InitStarted
<1>2. \A v \in Vif : /\ vif[v] \in VifType /\ (vif[v].reg <=> v \in P) /\ (vif[v].up <=> v \in O)
                     /\ vif[v].idx = c[v] /\ vif[v].stas = {}
  <2> SUFFICES ASSUME NEW v \in Vif
               PROVE  /\ vif[v] \in VifType /\ (vif[v].reg <=> v \in P) /\ (vif[v].up <=> v \in O)
                      /\ vif[v].idx = c[v] /\ vif[v].stas = {}
    OBVIOUS
  <2>1. vif[v] = StartVif(t[v], d[v], c[v], v \in P, v \in O)
    BY <1>1 DEF Started
  <2> DEFINE w == vif[v]
             p == v \in P
             q == v \in O
             tt == t[v]
             dd == d[v]
             cc == c[v]
  <2>2. tt \in {"sta", "ap"} /\ dd \in VifIndex /\ cc \in VifIndex /\ p \in BOOLEAN /\ q \in BOOLEAN
    OBVIOUS
  <2>3. w = StartVif(tt, dd, cc, p, q)
    BY <2>1
  <2> HIDE DEF w, p, q, tt, dd, cc
  <2>4. w \in VifType /\ w.reg = p /\ w.up = q /\ w.idx = cc /\ w.stas = {}
    BY <2>2, <2>3, StartRecord
  <2> QED BY <2>4 DEF w, p, q, cc
<1>3. vif \in [Vif -> VifType]
  <2>1. vif = [v \in Vif |-> StartVif(t[v], d[v], c[v], v \in P, v \in O)]
    BY <1>1 DEF Started
  <2> QED BY <1>2, <2>1
<1>4. /\ vif_table \in [VifIndex -> Vif \cup {None}]
      /\ \A v \in O : vif_table[c[v]] = v
  <2>1. vif_table = [i \in VifIndex |-> IF \E v \in O : c[v] = i THEN CHOOSE v \in O : c[v] = i ELSE None]
    BY <1>1 DEF Started
  <2>2. ASSUME NEW i \in VifIndex PROVE vif_table[i] \in Vif \cup {None}
    BY <2>1
  <2>3. ASSUME NEW v \in O PROVE vif_table[c[v]] = v
    <3> DEFINE x == CHOOSE w \in O : c[w] = c[v]
    <3>1. x \in O /\ c[x] = c[v]
      OBVIOUS
    <3>2. x = v
      BY <1>1, <3>1 DEF Started
    <3>3. c[v] \in VifIndex
      OBVIOUS
    <3> QED BY <2>1, <3>2, <3>3
  <2> QED BY <2>1, <2>2, <2>3
<1>5. /\ chip \in ChipType /\ chip.started = (O # {}) /\ chip.vifs = vif_table /\ chip.join = {}
      /\ \A s \in StaIndex : chip.stas[s] = None
  <2> DEFINE b == O # {}
  <2>1. chip = StartChip(b) /\ b \in BOOLEAN
    BY <1>1 DEF Started
  <2> HIDE DEF b
  <2>2. /\ chip \in ChipType /\ chip.started = b /\ chip.vifs = vif_table /\ chip.join = {}
        /\ \A s \in StaIndex : chip.stas[s] = None
    BY <1>4, <2>1, StartChipFields
  <2> QED BY <2>2 DEF b
<1>6. /\ sta_valid = {} /\ scan_request = None /\ scan = FALSE /\ roc = None /\ cac_vif = None /\ cac_pending = FALSE
      /\ dfs_pending = FALSE /\ detect = FALSE /\ cac_status = TRUE /\ in_recovery = FALSE /\ indq = <<>>
      /\ stack = [scan |-> None, cac |-> {}, ap |-> {}] /\ todo = [x \in Thread |-> <<>>] /\ on = [x \in Thread |-> None]
  BY DEF Init
<1>7. Types
  <2>1. IfaceTypes
    BY <1>1, <1>3, <1>4, <1>6 DEF IfaceTypes, Started
  <2>2. RequestTypes
    BY <1>6 DEF RequestTypes
  <2>3. ChipTypes
    BY <1>5, <1>6 DEF ChipTypes
  <2>4. IndTypes
    BY <1>6 DEF IndTypes
  <2>5. StackTypes /\ OnTypes
    BY <1>6 DEF StackTypes, OnTypes
  <2> QED BY <2>1, <2>2, <2>3, <2>4, <2>5 DEF Types
<1>8. UserLists /\ U = {} /\ todo["csa"] = <<>>
  BY <1>6, NoStep DEF UserLists, U, Thread
<1>9. \A v \in Vif : (Held(v) <=> v \in O) /\ ~Going(v)
  BY <1>2, <1>8 DEF Held, Going
<1>10. Place
  BY <1>8 DEF Place
<1>11. Ups
  <2>1. stack.ap = {} /\ O \subseteq P
    BY <1>1, <1>6 DEF Started
  <2> QED BY <1>2, <2>1 DEF Ups
<1>12. Counted
  <2>1. {v \in Vif : vif[v].up} = O
    BY <1>2
  <2> QED BY <1>1, <2>1 DEF Counted, Started
<1>13. Indices
  <2>1. \A v \in O : vif[v].idx = c[v] /\ c[v] \in VifIndex
    BY <1>2
  <2>2. \A v \in Vif : Held(v) => vif[v].idx \in VifIndex
    BY <1>9, <2>1
  <2>3. \A v \in Vif : vif[v].up => vif_table[vif[v].idx] = v
    BY <1>2, <1>4
  <2>5. \A u, v \in O : c[u] = c[v] => u = v
    BY <1>1 DEF Started
  <2>4. \A u, v \in Vif : Held(u) /\ Held(v) /\ u # v => vif[u].idx # vif[v].idx
    BY <1>9, <2>1, <2>5
  <2> QED BY <2>2, <2>3, <2>4 DEF Indices
<1>14. Known
  <2>1. \A v \in Vif : Held(v) => chip.vifs[vif[v].idx] = v /\ chip.started
    BY <1>2, <1>4, <1>5, <1>9
  <2> QED BY <1>8, <2>1 DEF Known
<1>15. Forgotten
  <2>1. \A i \in VifIndex : i # None
    BY IndexAssumption
  <2> QED BY <1>5, <2>1 DEF Forgotten
<1>16. Listed
  <2>1. ASSUME NEW v \in Vif, Held(v)
        PROVE  vif[v].idx \notin chip.join /\ vif[v].stas = {s \in StaIndex : chip.stas[s] = vif[v].idx}
    <3>1. vif[v].idx \in VifIndex /\ vif[v].stas = {}
      BY <1>2
    <3>2. vif[v].idx # None
      BY <3>1, IndexAssumption
    <3> QED BY <1>5, <3>1, <3>2
  <2>2. \A v \in Vif : vif[v].stas = {}
    BY <1>2
  <2> QED BY <1>8, <2>1, <2>2 DEF Listed
<1>17. Outlives
  BY <1>6 DEF Outlives, NothingOutlivesItsInterface
<1>18. Switch
  BY <1>8 DEF Switch
<1> QED BY <1>7, <1>8, <1>10, <1>11, <1>12, <1>13, <1>14, <1>15, <1>16, <1>17, <1>18 DEF Inv, NetInv

\* Every step keeps the invariant.
LEMMA InvKept ==
  ASSUME Inv, [Next]_vars
  PROVE  Inv'
<1>1. CASE Next
  BY <1>1, CallsKeep, UserKeeps, SharedKeeps, WorksKeep, IndicationsKeep, ChipSaysKeeps DEF Next
<1>2. CASE UNCHANGED vars
  <2>1. UNCHANGED sameVars /\ UNCHANGED <<chip, in_recovery, indq>> /\ todo' = todo
    BY <1>2 DEF vars, sameVars, netVars, scanVars, cacVars, dfsVars, chipVars
  <2>2. ChipTypes' /\ SameChip /\ SameChipSta /\ IndTypes'
    BY <2>1, ChipSame DEF Inv, Types, IndTypes
  <2>3. Types' /\ Rest /\ on'["user"] = on["user"]
    BY <2>1, <2>2, SameRest DEF Inv
  <2> QED BY <2>1, <2>3, TodoKeeps
<1> QED BY <1>1, <1>2

\* The invariant holds in every state.
THEOREM NetInvariant == Spec => []Inv
BY InitInv, InvKept, PTL DEF Spec

\* Every variable of the interfaces, scans, stays, connections, access points and
\* their stations holds a value of its kind, and no more interfaces are counted as
\* open than there are.
THEOREM NetTypeCorrect == Spec => []NetTypeOK
<1>1. Inv => NetTypeOK
  <2> SUFFICES ASSUME Inv PROVE NetTypeOK
    OBVIOUS
  <2>1. Types /\ Counted
    BY DEF Inv, NetInv
  <2> DEFINE O == {v \in Vif : vif[v].up}
  <2>2. Cardinality(O) <= Cardinality(Vif) /\ Cardinality(O) \in Nat /\ Cardinality(Vif) \in Nat
    <3>1. O \in SUBSET Vif
      OBVIOUS
    <3> QED BY <3>1, VifAssumption, FS_Subset, FS_CardinalityType
  <2>3. vif_started \in 0..Cardinality(Vif)
    BY <2>1, <2>2 DEF Counted
  <2> QED BY <2>1, <2>3 DEF NetTypeOK, Types, IfaceTypes, RequestTypes, ChipTypes, IndTypes, StackTypes, OnTypes
<1> QED BY <1>1, NetInvariant, PTL

\* Whoever looks up the index the chip gave an open interface finds that interface,
\* and the chip knows it and runs, whatever was opened, closed, refused and deleted
\* before, unless the chip was lost to the recovery.
THEOREM InterfacesAlwaysAgree == Spec => []InterfacesAgree
<1>1. Inv => InterfacesAgree
  <2> SUFFICES ASSUME Inv PROVE InterfacesAgree
    OBVIOUS
  <2>1. Place /\ Counted /\ Indices /\ Known
    BY DEF Inv, NetInv
  <2>2. ASSUME NEW v \in Vif, vif[v].up
        PROVE  /\ vif[v].idx # None /\ vif_table[vif[v].idx] = v
               /\ in_recovery \/ Closing(v) \/ (chip.started /\ chip.vifs[vif[v].idx] = v)
    <3>1. Held(v)
      BY <2>2 DEF Held
    <3>2. vif[v].idx # None /\ vif_table[vif[v].idx] = v
      BY <2>1, <2>2, <3>1, IndexAssumption DEF Indices
    <3>3. Going(v) => Closing(v)
      BY <2>1 DEF Place, Going, Closing
    <3> QED BY <2>1, <3>1, <3>2, <3>3 DEF Known
  <2> QED BY <2>1, <2>2 DEF InterfacesAgree, Counted
<1> QED BY <1>1, NetInvariant, PTL

\* The list of an access point's stations is the chip's, however its calls, its
\* failures and the indications follow each other, until the chip is lost.
THEOREM StationsAlwaysAgree == Spec => []StationsAgree
<1>1. Inv => StationsAgree
  <2> SUFFICES ASSUME Inv PROVE StationsAgree
    OBVIOUS
  <2>1. Place /\ Listed
    BY DEF Inv, NetInv
  <2>2. ASSUME ~in_recovery, NEW v \in Vif, vif[v].up, vif[v].type = "ap", ~Closing(v)
        PROVE  vif[v].stas = {s \in StaIndex : chip.stas[s] = vif[v].idx}
    <3>1. Held(v) /\ ~Going(v)
      BY <2>1, <2>2 DEF Held, Going, Closing, Place
    <3> QED BY <2>1, <2>2, <3>1 DEF Listed
  <2> QED BY <2>2 DEF StationsAgree
<1> QED BY <1>1, NetInvariant, PTL

\* The scan, the stay on a channel and the CAC that the driver keeps a pointer for
\* are those of an open interface.
THEOREM NothingEverOutlives == Spec => []NothingOutlivesItsInterface
<1>1. Inv => NothingOutlivesItsInterface
  BY DEF Inv, NetInv, Outlives
<1> QED BY <1>1, NetInvariant, PTL

\* The work that ends a channel switch never runs without the record it works on.
THEOREM SwitchWorkKeepsRecord == Spec => []SwitchWorkHasRecord
<1>1. Inv => SwitchWorkHasRecord
  BY DEF Inv, NetInv, Switch, SwitchWorkHasRecord
<1> QED BY <1>1, NetInvariant, PTL
=============================================================================
