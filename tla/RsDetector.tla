------------------------------ MODULE RsDetector ------------------------------
(***************************************************************************)
(* The pattern detectors, one radar type on one frequency: a queue of the  *)
(* pulses heard in a window of time, and the pulse sequences that are      *)
(* being built from them.  Short pulses make sequences of one repetition   *)
(* interval (PRI); one that reaches its threshold of pulses, with fewer    *)
(* others in between, is a radar.  Long pulses make one sequence of bursts *)
(* anywhere in a long window; enough of them, over more than half of the   *)
(* window, are a radar.                                                    *)
(*                                                                         *)
(* Source: net/linux/rs_net_dfs.c.  Time is in units of the tolerance.     *)
(* Pulses of the same time are one pulse (the second is ignored), so the   *)
(* queue is a set of times; the lists of the code are ordered by time.     *)
(* The pools of list elements and the widths of the integers are left out. *)
(* dpd_add_pulse keeps the time: a pulse carries its distance from the     *)
(* previous one, or 0 when that is too long to be told.                    *)
(***************************************************************************)
EXTENDS Integers, FiniteSets

CONSTANTS
  PriMin, PriMax, \* rs->pri_min, rs->pri_max
  Ppb,            \* rs->ppb, pulses per burst
  NumPri,         \* rs->num_pri, interleaved intervals of a burst
  Tolerance,      \* rs->max_pri_tolerance
  PpbThresh,      \* rs->ppb_thresh; for weather radars it depends on the PRI
  LongDuration,   \* LONG_RADAR_DURATION
  LongMaxBurst,   \* LONG_RADAR_MAX_BURST
  LongPriMax,     \* rs->pri_max of long pulses
  LongThresh,     \* their rs->ppb_thresh
  Distances,      \* distances between two pulses, 0 among them, of each waveform
  MaxTs,          \* bound on last_pulse_ts, of each waveform
  MaxPulses,      \* bound on the pulses since the detector was reset, of each waveform
  MaxDomainTs     \* bound on last_pulse_ts when the domain changes

ASSUME SpecAssumption ==
  /\ PriMin \in Nat \ {0} /\ PriMax \in Nat /\ PriMin <= PriMax
  /\ Ppb \in Nat \ {0, 1} /\ NumPri \in Nat \ {0} /\ Tolerance \in Nat \ {0}
  /\ 2 * Tolerance <= PriMin
  /\ PpbThresh \in [PriMin..PriMax -> Nat \ {0, 1}]
  /\ LongDuration \in Nat \ {0} /\ LongMaxBurst \in Nat \ {0, 1} /\ LongThresh \in Nat
  /\ LongPriMax \in Nat /\ LongPriMax <= LongDuration /\ MaxDomainTs \in Nat
  /\ Distances \in [{"short", "long"} -> SUBSET Nat]
  /\ MaxTs \in [{"short", "long"} -> Nat] /\ MaxPulses \in [{"short", "long"} -> Nat]

Least(S) == CHOOSE x \in S : \A y \in S : x <= y

\* LONG_RADAR_BURST_MIN_DURATION
BurstMin == LongDuration \div LongMaxBurst

\* net_pde_short_init
ShortInit == [waveform |-> "short", window_size |-> PriMax * Ppb * NumPri, max_count |-> Ppb * 2]

\* net_pde_long_init
LongInit == [waveform |-> "long", window_size |-> LongDuration, max_count |-> LongMaxBurst]

\* net_pri_detector_init, for a type of either waveform
NewDetector(init) == [rs |-> init, pulses |-> {}, sequences |-> {}, last_ts |-> 0]

\* net_pri_detector_reset
Reset(pde, ts) == [rs |-> pde.rs, pulses |-> {}, sequences |-> {}, last_ts |-> ts]

\* Mutant: pulses never grow too old.
BugCheckWindow(pde, pulses) == pulses

\* net_pulse_queue_check_window
CheckWindow(pde, pulses) ==
  IF Cardinality(pulses) < 2 \/ pde.last_ts <= pde.rs.window_size THEN pulses
  ELSE {p \in pulses : p >= pde.last_ts - pde.rs.window_size}

\* net_pulse_queue_enqueue: the oldest pulse leaves a full queue.
Enqueue(pde, ts) ==
  LET kept == CheckWindow([pde EXCEPT !.last_ts = ts], pde.pulses \cup {ts})
  IN  [pde EXCEPT !.last_ts = ts,
                  !.pulses = IF Cardinality(kept) >= pde.rs.max_count THEN kept \ {Least(kept)} ELSE kept]

\* net_pde_get_multiple: how many times fraction fits val, 0 if it does not
\* within the tolerance.
Multiple(val, fraction) ==
  LET remainder == val % fraction
      near      == val - fraction \in -Tolerance..Tolerance
  IN  CASE fraction = 0                                        -> 0
        [] fraction # 0 /\ near                                -> 1
        [] fraction # 0 /\ ~near /\ remainder <= Tolerance     -> val \div fraction
        [] fraction # 0 /\ ~near /\ remainder > Tolerance      ->
             IF fraction - remainder <= Tolerance THEN val \div fraction + 1 ELSE 0

Fits(val, fraction) == Multiple(val, fraction) > 0

\* The longest time a burst of this PRI takes.
Duration(pri) == pri * (Ppb - 1) + 2 * Tolerance

\* The sequence that the pulse at ts would continue with the queued pulse p
\* before it: every older pulse at a multiple of their distance belongs to it.
SequenceOf(pulses, p, ts) ==
  LET pri   == ts - p
      older == {q \in pulses : q < p /\ q >= ts - Duration(pri)}
      match == {q \in older : Fits(ts - q, pri)}
      first == Least(match \cup {p})
  IN  [pri |-> pri, count |-> 2 + Cardinality(match), first_ts |-> first, last_ts |-> ts, dur |-> 0,
       deadline_ts |-> first + Duration(pri),
       falses |-> Cardinality({q \in pulses : q > p}) + Cardinality({q \in older \ match : q > first})]

\* net_pde_short_create_sequences: only those longer than every sequence the
\* pulse has continued.
CreateSequences(pulses, ts, min_count) ==
  {s \in {SequenceOf(pulses, p, ts) : p \in {q \in pulses : ts - q \in PriMin..PriMax}} :
     s.count > min_count}

\* net_pde_short_add_to_existing_seqs: sequences past their deadline are given up.
Continue(s, ts) ==
  IF Fits(ts - s.last_ts, s.pri)
  THEN [s EXCEPT !.last_ts = ts, !.count = @ + 1]
  ELSE [s EXCEPT !.falses = @ + 1]

\* Mutant: sequences past their deadline go on.
BugAddToExisting(sequences, ts) == {Continue(s, ts) : s \in sequences}

AddToExisting(sequences, ts) ==
  {Continue(s, ts) : s \in {q \in sequences : ts <= q.deadline_ts}}

\* The longest sequence the pulse at ts has continued, 0 if none.
LongestContinued(sequences, ts) ==
  LET counts == {s.count : s \in {q \in sequences : q.last_ts = ts}}
  IN  CHOOSE c \in counts \cup {0} : \A d \in counts : d <= c

\* Mutant: the threshold must be exceeded.
BugDetected(s) == s.count > PpbThresh[s.pri] /\ s.count * NumPri > s.falses

\* net_pde_short_check_detection
Detected(s) == s.count >= PpbThresh[s.pri] /\ s.count * NumPri > s.falses

\* net_pde_short_add_pulse: the detector after the pulse, and whether it
\* completes a radar, in which case it is not queued.
ShortAddPulse(pde, ts) ==
  LET updated   == AddToExisting(pde.sequences, ts)
      created   == CreateSequences(pde.pulses, ts, LongestContinued(updated, ts))
      sequences == updated \cup created
      hit       == \E s \in sequences : Detected(s)
      longer    == [pde EXCEPT !.sequences = sequences]
  IN  CASE pde.pulses = {}                                       -> [pde |-> Enqueue(pde, ts), hit |-> FALSE]
        [] pde.pulses # {} /\ ts - pde.last_ts < Tolerance       -> [pde |-> pde, hit |-> FALSE]
        [] pde.pulses # {} /\ ts - pde.last_ts >= Tolerance      ->
             [pde |-> IF hit THEN longer ELSE Enqueue(longer, ts), hit |-> hit]

\* The queued bursts that stay when one comes at ts: when the sequence has grown longer
\* than the window, those inside.
Inside(ps, pulses, ts) == IF ts > ps.deadline_ts THEN {p \in pulses : p >= ts - LongDuration} ELSE pulses

\* The sequence of long pulses with the burst at ts in it.  When it has grown longer
\* than the window it starts with the oldest burst inside, if one is.
NextBurst(ps, pulses, ts) ==
  LET inside == Inside(ps, pulses, ts)
      found  == ts > ps.deadline_ts /\ inside # {}
      first  == IF found THEN Least(inside) ELSE ps.first_ts
  IN  [pri |-> ps.pri, count |-> ps.count + 1 - Cardinality(pulses \ inside), falses |-> 1,
       first_ts |-> first, last_ts |-> ts, dur |-> ts - ps.last_ts,
       deadline_ts |-> IF found THEN first + LongDuration ELSE ps.deadline_ts]

\* net_pde_long_add_pulse: pulses of one burst, and bursts too close to each other,
\* only move the time of the last pulse of the sequence ps.
LongPulse(pde, ps, ts) ==
  LET delta == ts - ps.last_ts
      next  == NextBurst(ps, pde.pulses, ts)
      hit   == next.count > LongThresh /\ ts - next.first_ts > LongDuration \div 2
      With(s) == [pde EXCEPT !.sequences = {s}]
      burst == [pde EXCEPT !.sequences = {next}, !.pulses = Inside(ps, @, ts)]
      early == ps.count > 2 /\ ps.dur + delta < BurstMin
  IN  CASE delta < LongPriMax            -> [pde |-> With([ps EXCEPT !.last_ts = ts]), hit |-> FALSE]
        [] delta = LongPriMax            -> [pde |-> With([ps EXCEPT !.last_ts = ts, !.falses = @ + 1]), hit |-> FALSE]
        [] delta > LongPriMax /\ early   -> [pde |-> With([ps EXCEPT !.last_ts = ts]), hit |-> FALSE]
        [] delta > LongPriMax /\ ~early  -> [pde |-> IF hit THEN burst ELSE Enqueue(burst, ts), hit |-> hit]

FirstBurst(ts) ==
  [pri |-> 0, count |-> 1, falses |-> 1, first_ts |-> ts, last_ts |-> ts, dur |-> 0, deadline_ts |-> ts + LongDuration]

LongAddPulse(pde, ts) ==
  IF pde.sequences = {} THEN [pde |-> Enqueue([pde EXCEPT !.sequences = {FirstBurst(ts)}], ts), hit |-> FALSE]
  ELSE LongPulse(pde, CHOOSE s \in pde.sequences : TRUE, ts)

\* pde->ops->add_pulse
AddPulse(pde, ts) == IF pde.rs.waveform = "long" THEN LongAddPulse(pde, ts) ELSE ShortAddPulse(pde, ts)
-----------------------------------------------------------------------------
VARIABLES
  region,        \* dpd->region is set
  last_pulse_ts, \* dpd->last_pulse_ts
  pde,           \* the detector
  heard,         \* history: the pulses since the detector was last reset
  radar          \* history: what was heard when the last pulse completed a radar

vars == <<region, last_pulse_ts, pde, heard, radar>>

\* net_dpd_init
Init ==
  /\ region = FALSE
  /\ last_pulse_ts = 0
  /\ pde = NewDetector(ShortInit)
  /\ heard = {} /\ radar = {}

\* net_dpd_set_domain: the detectors are thrown away, and those of the domain's radar
\* types made as pulses come.  A domain the driver has no table for leaves the region
\* unset, and the detectors as they are.
SetDomain ==
  /\ last_pulse_ts <= MaxDomainTs
  /\ region' \in BOOLEAN /\ (region \/ region')
  /\ IF region' THEN pde' \in {NewDetector(ShortInit), NewDetector(LongInit)} /\ heard' = {}
     ELSE UNCHANGED <<pde, heard>>
  /\ radar' = {}
  /\ UNCHANGED last_pulse_ts

\* dpd_add_pulse, region unset: every pulse is a radar.
PulseUnset == ~region /\ UNCHANGED vars

\* dpd_add_pulse: what the detector pde0, to which the pulses pulses0 belong,
\* makes of a pulse at ts.  A hit resets the detector and the time (dpd_reset).
Hear(pde0, pulses0, ts) ==
  LET r == AddPulse(pde0, ts)
  IN  /\ Cardinality(pulses0) < MaxPulses[pde.rs.waveform]
      /\ pde' = IF r.hit THEN Reset(r.pde, ts) ELSE r.pde
      /\ last_pulse_ts' = IF r.hit THEN 0 ELSE ts
      /\ heard' = IF r.hit THEN {} ELSE pulses0 \cup {ts}
      /\ radar' = IF r.hit THEN pulses0 \cup {ts} ELSE {}
      /\ UNCHANGED region

Waveform == pde.rs.waveform

Pulse(d) ==
  /\ region /\ d # 0
  /\ last_pulse_ts + d <= MaxTs[Waveform]
  /\ Hear(pde, heard, last_pulse_ts + d)

\* After a pause the jiffies tell the time and a detector of short pulses starts anew
\* (dfs_pattern_detector_pri_overflow).
PulseAfterPause(elapsed) ==
  /\ region /\ 0 \in Distances[Waveform]
  /\ last_pulse_ts + elapsed <= MaxTs[Waveform]
  /\ IF Waveform = "short"
     THEN Hear(Reset(pde, last_pulse_ts + elapsed), {}, last_pulse_ts + elapsed)
     ELSE Hear(pde, heard, last_pulse_ts + elapsed)

Next ==
  \/ SetDomain
  \/ PulseUnset
  \/ \E d \in Distances[Waveform] : Pulse(d) \/ PulseAfterPause(d)

Spec == Init /\ [][Next]_vars

-----------------------------------------------------------------------------
(* Properties *)

Time == 0..MaxTs["short"] \cup 0..MaxTs["long"]

Sequence ==
  [pri : PriMin..PriMax \cup {0}, count : Nat, falses : Nat, dur : Nat,
   first_ts : Time, last_ts : Time, deadline_ts : Nat]

\* The types, and the bounds the lists are kept in: the queue never fills and
\* holds nothing older than its window, and long pulses make one sequence.
DetectorTypeOK ==
  /\ region \in BOOLEAN /\ last_pulse_ts \in Time /\ heard \subseteq Time
  /\ pde.rs \in {ShortInit, LongInit}
  /\ pde.pulses \subseteq Time /\ pde.last_ts \in Time
  /\ Cardinality(pde.pulses) < pde.rs.max_count
  /\ \A p \in pde.pulses : p <= pde.last_ts /\ p + pde.rs.window_size >= pde.last_ts
  /\ pde.sequences \subseteq Sequence
  /\ Waveform = "long" => Cardinality(pde.sequences) <= 1

\* A sequence that is being built counts pulses that were heard, each once: one of
\* short pulses none outside the time from its first to its last pulse, which is at
\* most one burst.
SequencesCountPulses ==
  \A s \in pde.sequences :
    /\ s.first_ts \in heard /\ s.last_ts \in heard
    /\ Waveform = "short" => s.last_ts - s.first_ts <= Duration(s.pri)
    /\ s.count <= Cardinality({p \in heard : Waveform = "short" => s.first_ts <= p /\ p <= s.last_ts})

\* The pulses of S fit one another one by one at the interval pri.
Chain(S, pri) ==
  \A p \in S : p = Least(S) \/ \E q \in S : q < p /\ Fits(p - q, pri) /\ ~\E r \in S : q < r /\ r < p

\* A radar of short pulses: PpbThresh of them no further apart than a burst takes,
\* those before some pulse at multiples of one interval from it and those after it
\* each at a multiple from the one before.
ShortRadar(S) ==
  \E pri \in PriMin..PriMax : \E p \in S :
    LET before == {q \in S : q < p /\ Fits(p - q, pri)}
    IN  /\ p - pri \in before
        /\ \E after \in SUBSET {q \in S : q > p} :
             LET train == {q \in before : \A r \in after \cup {p} : r - q <= Duration(pri)} \cup {p} \cup after
             IN  Chain(after \cup {p}, pri) /\ Cardinality(train) >= PpbThresh[pri]

\* The bursts in S: the pulses with a silence before them.
Bursts(S) == {p \in S : \A q \in S : q < p => p - q > LongPriMax}

\* A radar of long pulses: more than LongThresh bursts over more than half the window.
LongRadar(S) ==
  /\ Cardinality(Bursts(S)) > LongThresh
  /\ \E p, q \in Bursts(S) : p - q > LongDuration \div 2

\* A radar is found only when one was there.
RadarsAreGenuine == radar # {} => IF Waveform = "short" THEN ShortRadar(radar) ELSE LongRadar(radar)

\* The pulses of S from first on.
From(S, first) == {p \in S : p >= first}

\* The pulses of S before first are all longer ago than pause.
Silence(S, first, pause) == \A p \in S : p < first => first - p > pause

\* Short pulses from first on: the second at the interval pri, the others at multiples
\* of it from the one before, none later than a burst takes.
ShortTrain(T, first, pri) ==
  /\ first + pri \in T /\ \A p \in T : p = first \/ p >= first + pri
  /\ Chain(T, pri)
  /\ \A p \in T : p - first <= Duration(pri)

\* Long pulses from first on: bursts that keep their distance, for at most one window.
LongTrain(T, first) ==
  /\ \A p \in Bursts(T), q \in T : q < p => p - q >= BurstMin
  /\ \A p \in T : p - first <= LongDuration

\* Enough of them, over more than half the window.
LongTrainDone(T, first) ==
  Cardinality(Bursts(T)) > LongThresh /\ \E p \in Bursts(T) : p - first > LongDuration \div 2

\* A radar that comes after a silence, of the longest burst of the type or of one
\* window of long pulses, is found by the pulse that completes it, whatever noise was
\* heard before and however sequences and queue were left by it.
NoRadarMissed ==
  \A first \in heard :
    LET T == From(heard, first)
    IN  IF Waveform = "short"
        THEN Silence(heard, first, Duration(PriMax)) =>
               \A pri \in PriMin..PriMax : ShortTrain(T, first, pri) => Cardinality(T) < PpbThresh[pri]
        ELSE Silence(heard, first, LongDuration) /\ LongTrain(T, first) =>
               ~LongTrainDone(T, first)
=============================================================================
