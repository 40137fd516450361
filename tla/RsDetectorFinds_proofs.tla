------------------------ MODULE RsDetectorFinds_proofs ------------------------
(***************************************************************************)
(* Proofs about RsDetector, continued: the radars that come after a        *)
(* silence are found.                                                      *)
(***************************************************************************)
EXTENDS RsDetector_proofs

-----------------------------------------------------------------------------
(* The invariant, in terms of a detector d that has heard the pulses H.    *)

\* The first pulse after a silence is in the queue, and nothing else is going on.
Fresh(d, first) == d.sequences = {} /\ first \in d.pulses /\ d.last_ts = first

\* s counts the pulses of T, each of them.
Counts(s, T, first, pri) ==
  /\ s \in Fields /\ s.pri = pri /\ s.count = Cardinality(T) /\ s.falses = 0
  /\ s.last_ts \in T /\ \A p \in T : p <= s.last_ts
  /\ s.deadline_ts = first + Duration(pri)

\* The one sequence of the detector counts the pulses of T, not enough of them yet.
Tracked(d, T, first, pri) ==
  /\ d.pulses # {} /\ Cardinality(T) < PpbThresh[pri]
  /\ \E s \in d.sequences : d.sequences = {s} /\ d.last_ts = s.last_ts /\ Counts(s, T, first, pri)

\* What a detector of short pulses has made of a train after a silence.
ShortFinds(d, H) ==
  /\ d.pulses # {} => d.last_ts \in d.pulses
  /\ \A first \in H : Silence(H, first, Duration(PriMax)) =>
       /\ From(H, first) = {first} => Fresh(d, first)
       /\ \A pri \in PriMin..PriMax :
            ShortTrain(From(H, first), first, pri) => Tracked(d, From(H, first), first, pri)

\* s counts the bursts of T, and perhaps others: it begins with the first of them, or
\* will when the second comes, because it is past its deadline and the first is queued.
CountsBursts(s, P, T, first) ==
  /\ s.count >= Cardinality(Bursts(T))
  /\ Bursts(T) = {first} => first \in P
  /\ \/ s.first_ts = first /\ s.deadline_ts = first + LongDuration
     \/ Bursts(T) = {first} /\ s.deadline_ts < first
  /\ ~LongTrainDone(T, first)

\* What the sequence of long pulses has made of a train after a silence.
LongFinds(d, H) ==
  \A s \in d.sequences :
    /\ \E q \in H : s.deadline_ts <= q + LongDuration
    /\ \A first \in H :
         Silence(H, first, LongDuration) /\ LongTrain(From(H, first), first) =>
           CountsBursts(s, d.pulses, From(H, first), first)

Finds(d, H) == (d.rs = ShortInit => ShortFinds(d, H)) /\ (d.rs = LongInit => LongFinds(d, H))

FInv == DInv /\ Finds(pde, heard)

-----------------------------------------------------------------------------
(* Queue and intervals.                                                    *)

\* A pulse that is queued stays when the oldest leaves.
LEMMA NewestStays ==
  ASSUME NEW d, d \in [rs : {ShortInit, LongInit}, pulses : SUBSET Nat, sequences : SUBSET Fields, last_ts : Time],
         IsFiniteSet(d.pulses), NEW ts \in Nat, \A p \in d.pulses : p <= ts
  PROVE  ts \in Enqueue(d, ts).pulses
<1> DEFINE all  == d.pulses \cup {ts}
           kept == CheckWindow([d EXCEPT !.last_ts = ts], all)
           e    == Enqueue(d, ts)
<1>1. d.rs.max_count \in Nat \ {0, 1} /\ d.rs.window_size \in Nat
  BY Inits
<1>2. kept = IF Cardinality(all) < 2 \/ ts <= d.rs.window_size THEN all
             ELSE {p \in all : p >= ts - d.rs.window_size}
  BY DEF CheckWindow
<1>3. e.pulses = IF Cardinality(kept) >= d.rs.max_count THEN kept \ {Least(kept)} ELSE kept
  <2>1. e = [d EXCEPT !.last_ts = ts,
                      !.pulses = IF Cardinality(kept) >= d.rs.max_count THEN kept \ {Least(kept)} ELSE kept]
    BY DEF Enqueue
  <2> HIDE DEF kept, e
  <2> QED BY <2>1
<1>4. ts \in all /\ all \subseteq Nat /\ (\A p \in all : p <= ts) /\ IsFiniteSet(all)
  BY FS_AddElement
<1> HIDE DEF all, kept, e
<1>5. kept \subseteq all /\ ts \in kept
  BY <1>1, <1>2, <1>4
<1>6. ASSUME Cardinality(kept) >= d.rs.max_count
      PROVE  Least(kept) # ts
  <2>1. SUFFICES ASSUME Least(kept) = ts
                 PROVE  FALSE
    OBVIOUS
  <2>2. \A y \in kept : ts <= y
    BY <1>4, <1>5, <2>1, LeastIs
  <2>3. kept = {ts}
    <3>1. \A y \in kept : y \in Nat /\ y <= ts /\ ts <= y
      BY <1>4, <1>5, <2>2
    <3>2. \A y \in kept : y = ts
      BY <3>1
    <3> QED BY <1>5, <3>2
  <2>4. Cardinality(kept) = 1
    BY <2>3, FS_Singleton
  <2> QED BY <1>1, <1>6, <2>4
<1> QED BY <1>3, <1>5, <1>6 DEF e

\* The longest interval makes the longest burst.
LEMMA LongestBurst ==
  ASSUME NEW pri \in PriMin..PriMax
  PROVE  /\ pri \in Nat /\ PriMax \in PriMin..PriMax /\ Duration(pri) \in Nat /\ Duration(PriMax) \in Nat
         /\ Duration(pri) <= Duration(PriMax) /\ PriMax <= Duration(PriMax) /\ Tolerance <= pri /\ Tolerance \in Nat
<1>1. pri \in Nat /\ PriMax \in Nat /\ pri <= PriMax /\ PriMin <= pri /\ Ppb - 1 \in Nat /\ Tolerance \in Nat
      /\ 2 * Tolerance <= PriMin /\ PriMin \in Nat /\ PriMax \in PriMin..PriMax
  BY SpecAssumption
<1>2. Duration(pri) \in Nat /\ Duration(PriMax) \in Nat /\ PriMax <= Duration(PriMax)
  BY <1>1, Intervals
<1>3. pri * (Ppb - 1) <= PriMax * (Ppb - 1) /\ pri * (Ppb - 1) \in Nat /\ PriMax * (Ppb - 1) \in Nat
  <2>1. \A a, b, m \in Nat : a <= b => a * m <= b * m /\ a * m \in Nat /\ b * m \in Nat
    OBVIOUS
  <2> QED BY <1>1, <2>1
<1>4. Duration(pri) <= Duration(PriMax)
  BY <1>1, <1>3 DEF Duration
<1>5. Tolerance <= pri
  BY <1>1
<1> QED BY <1>1, <1>2, <1>4, <1>5

\* A pulse that fits an interval comes no sooner than a detector takes notice.
LEMMA FittingIsFar ==
  ASSUME NEW pri \in PriMin..PriMax, NEW val \in Nat, Fits(val, pri)
  PROVE  val >= Tolerance
<1>1. pri \in Nat \ {0} /\ Tolerance \in Nat /\ 2 * Tolerance <= pri
  BY SpecAssumption
<1>2. SUFFICES ASSUME val < Tolerance
               PROVE  FALSE
  BY <1>1
<1>3. ~(val - pri \in -Tolerance..Tolerance) /\ val < pri
  BY <1>1, <1>2
<1>4. val % pri = val /\ val \div pri = 0
  BY <1>1, <1>3
<1>5. Multiple(val, pri) = 0
  BY <1>1, <1>2, <1>3, <1>4 DEF Multiple
<1> QED BY <1>5 DEF Fits

-----------------------------------------------------------------------------
(* Trains that grow by one pulse.                                          *)

\* The pulses from first on, when one more comes.
LEMMA OneMore ==
  ASSUME NEW H, H \subseteq Nat, IsFiniteSet(H), NEW ts \in Nat, \A p \in H : p <= ts
  PROVE  /\ From(H \cup {ts}, ts) = {ts} \/ ts \in H
         /\ \A first \in H : /\ From(H \cup {ts}, first) = From(H, first) \cup {ts}
                             /\ From(H, first) \subseteq H /\ first \in From(H, first)
                             /\ IsFiniteSet(From(H, first)) /\ \A p \in From(H, first) : first <= p
         /\ \A first \in H : \A pause : Silence(H \cup {ts}, first, pause) => Silence(H, first, pause)
<1>1. ASSUME ts \notin H
      PROVE  From(H \cup {ts}, ts) = {ts}
  <2>1. \A p \in H : p \in Nat /\ p <= ts /\ p # ts
    BY <1>1
  <2>2. ts >= ts /\ \A p \in H : ~(p >= ts)
    BY <2>1
  <2> QED BY <2>2 DEF From
<1>2. ASSUME NEW first \in H
      PROVE  /\ From(H \cup {ts}, first) = From(H, first) \cup {ts}
             /\ From(H, first) \subseteq H /\ first \in From(H, first)
             /\ IsFiniteSet(From(H, first)) /\ \A p \in From(H, first) : first <= p
  <2>1. ts >= first /\ first >= first /\ first \in Nat
    OBVIOUS
  <2>2. From(H, first) \subseteq H
    BY DEF From
  <2>3. IsFiniteSet(From(H, first))
    BY <2>2, FS_Subset
  <2>4. From(H \cup {ts}, first) = From(H, first) \cup {ts} /\ first \in From(H, first)
    BY <2>1 DEF From
  <2>5. \A p \in From(H, first) : first <= p
    BY DEF From
  <2> QED BY <2>2, <2>3, <2>4, <2>5
<1>3. \A first \in H : \A pause : Silence(H \cup {ts}, first, pause) => Silence(H, first, pause)
  BY DEF Silence
<1> QED BY <1>1, <1>2, <1>3

\* A train without its last pulse is one, or only its first pulse.
LEMMA TrainBefore ==
  ASSUME NEW T, T \subseteq Nat, NEW first \in T, \A p \in T : first <= p,
         NEW ts \in Nat, \A p \in T : p < ts, NEW pri \in PriMin..PriMax,
         ShortTrain(T \cup {ts}, first, pri)
  PROVE  \/ T = {first} /\ ts = first + pri
         \/ /\ ShortTrain(T, first, pri) /\ ts <= first + Duration(pri)
            /\ \E m \in T : Fits(ts - m, pri) /\ \A p \in T : p <= m
<1> DEFINE U == T \cup {ts}
<1>1. pri \in Nat \ {0} /\ Duration(pri) \in Nat /\ first \in Nat
  BY Intervals
<1>2. /\ first + pri \in U /\ \A p \in U : p = first \/ p >= first + pri
      /\ Chain(U, pri) /\ \A p \in U : p - first <= Duration(pri)
  BY DEF ShortTrain
<1>3. CASE first + pri = ts
  <2>1. \A p \in T : p = first
    BY <1>2, <1>3
  <2> QED BY <1>3, <2>1
<1>4. CASE first + pri # ts
  <2>1. first + pri \in T
    BY <1>2, <1>4
  <2>2. Least(T) = first /\ Least(U) = first
    <3>1. first <= ts /\ U \subseteq Nat
      BY <1>1
    <3>2. Least(T) = first
      BY LeastUnique
    <3>3. Least(U) = first
      BY <3>1, LeastUnique
    <3> QED BY <3>2, <3>3
  <2>3. \A p \in U : p = first \/ \E q \in U : q < p /\ Fits(p - q, pri) /\ ~\E r \in U : q < r /\ r < p
    BY <1>2, <2>2 DEF Chain
  <2>4. Chain(T, pri)
    <3>1. ASSUME NEW p \in T, p # first
          PROVE  \E q \in T : q < p /\ Fits(p - q, pri) /\ ~\E r \in T : q < r /\ r < p
      <4>1. PICK q \in U : q < p /\ Fits(p - q, pri) /\ ~\E r \in U : q < r /\ r < p
        BY <2>3, <3>1
      <4>2. q # ts
        BY <4>1
      <4> QED BY <4>1, <4>2
    <3> QED BY <2>2, <3>1 DEF Chain
  <2>5. ShortTrain(T, first, pri)
    BY <1>2, <2>1, <2>4 DEF ShortTrain
  <2>6. PICK m \in U : m < ts /\ Fits(ts - m, pri) /\ ~\E r \in U : m < r /\ r < ts
    <3>1. ts # first
      OBVIOUS
    <3> QED BY <2>3, <3>1
  <2>7. m \in T /\ \A p \in T : p <= m
    <3>1. m \in T
      BY <2>6
    <3>2. \A p \in T : p \in Nat /\ m \in Nat /\ ~(m < p)
      BY <2>6, <3>1
    <3> QED BY <3>1, <3>2
  <2>8. ts <= first + Duration(pri)
    BY <1>1, <1>2
  <2> QED BY <2>5, <2>6, <2>7, <2>8
<1> QED BY <1>3, <1>4

-----------------------------------------------------------------------------
(* Short pulses.                                                           *)

\* What becomes of a sequence at a pulse.
LEMMA ContinueTypes ==
  ASSUME NEW s \in Fields, NEW ts \in Nat, NEW t, t = Continue(s, ts)
  PROVE  /\ t \in Fields /\ t.pri = s.pri /\ t.deadline_ts = s.deadline_ts
         /\ Fits(ts - s.last_ts, s.pri) => t.last_ts = ts /\ t.count = s.count + 1 /\ t.falses = s.falses
<1>1. /\ s = [pri |-> s.pri, count |-> s.count, falses |-> s.falses, dur |-> s.dur, first_ts |-> s.first_ts,
              last_ts |-> s.last_ts, deadline_ts |-> s.deadline_ts]
      /\ s.pri \in Nat /\ s.count \in Nat /\ s.falses \in Nat /\ s.dur \in Nat
      /\ s.first_ts \in Nat /\ s.last_ts \in Nat /\ s.deadline_ts \in Nat
  BY DEF Fields
<1>2. CASE Fits(ts - s.last_ts, s.pri)
  <2>1. t = [s EXCEPT !.last_ts = ts, !.count = @ + 1]
    BY <1>2 DEF Continue
  <2>2. t = [pri |-> s.pri, count |-> s.count + 1, falses |-> s.falses, dur |-> s.dur, first_ts |-> s.first_ts,
             last_ts |-> ts, deadline_ts |-> s.deadline_ts]
    BY <1>1, <2>1
  <2>3. s.count + 1 \in Nat
    BY <1>1
  <2> QED BY <1>1, <2>2, <2>3 DEF Fields
<1>3. CASE ~Fits(ts - s.last_ts, s.pri)
  <2>1. t = [s EXCEPT !.falses = @ + 1]
    BY <1>3 DEF Continue
  <2>2. t = [pri |-> s.pri, count |-> s.count, falses |-> s.falses + 1, dur |-> s.dur, first_ts |-> s.first_ts,
             last_ts |-> s.last_ts, deadline_ts |-> s.deadline_ts]
    BY <1>1, <2>1
  <2>3. s.falses + 1 \in Nat
    BY <1>1
  <2> QED BY <1>1, <1>3, <2>2, <2>3 DEF Fields
<1> QED BY <1>2, <1>3

Updated(d, ts) == AddToExisting(d.sequences, ts)
Created(d, ts) == CreateSequences(d.pulses, ts, LongestContinued(Updated(d, ts), ts))

Noticed(d, ts, e) ==
  /\ d.pulses # {} /\ ts - d.last_ts >= Tolerance
  /\ e.sequences = Updated(d, ts) \cup Created(d, ts)
  /\ \A s \in e.sequences : ~Detected(s)
  /\ ts \in e.pulses /\ e.last_ts = ts

\* What a pulse that completes no radar does to a detector of short pulses.
LEMMA ShortOutcome ==
  ASSUME NEW d, NEW H, H \subseteq Time, IsFiniteSet(H), DetectorInv(d, H), d.rs = ShortInit,
         NEW ts \in Time, \A p \in H : p <= ts, ~ShortAddPulse(d, ts).hit,
         NEW e, e = ShortAddPulse(d, ts).pde
  PROVE  \/ d.pulses = {} /\ e.sequences = {} /\ ts \in e.pulses /\ e.last_ts = ts
         \/ d.pulses # {} /\ ts - d.last_ts < Tolerance /\ e = d
         \/ Noticed(d, ts, e)
<1> DEFINE created   == CreateSequences(d.pulses, ts, LongestContinued(AddToExisting(d.sequences, ts), ts))
           sequences == AddToExisting(d.sequences, ts) \cup created
           hit       == \E s \in sequences : Detected(s)
           longer    == [d EXCEPT !.sequences = sequences]
           r         == ShortAddPulse(d, ts)
<1>1. Time \subseteq Nat /\ ts \in Nat /\ H \subseteq Nat /\ Tolerance \in Nat
  BY Times, SpecAssumption
<1>2. /\ d \in [rs : {ShortInit, LongInit}, pulses : SUBSET Nat, sequences : SUBSET Fields, last_ts : Time]
      /\ d.pulses \subseteq H /\ IsFiniteSet(d.pulses)
      /\ d.pulses = {} => d.sequences = {}
  BY DEF DetectorInv, QueueInv
<1>3. d.last_ts \in Nat /\ \A p \in d.pulses : p <= ts
  BY <1>1, <1>2
<1>4. CASE d.pulses = {}
  <2>1. e = Enqueue(d, ts)
    BY <1>4 DEF ShortAddPulse
  <2>2. ts \in e.pulses
    BY <1>1, <1>2, <1>3, <2>1, NewestStays
  <2>3. e.sequences = d.sequences /\ e.last_ts = ts
    BY <1>2, <2>1 DEF Enqueue
  <2> QED BY <1>2, <1>4, <2>2, <2>3
<1>5. CASE d.pulses # {} /\ ts - d.last_ts < Tolerance
  BY <1>1, <1>3, <1>5 DEF ShortAddPulse
<1>6. CASE d.pulses # {} /\ ts - d.last_ts >= Tolerance
  <2>1. r = [pde |-> IF hit THEN longer ELSE Enqueue(longer, ts), hit |-> hit]
    BY <1>1, <1>3, <1>6 DEF ShortAddPulse
  <2> HIDE DEF r
  <2>2. ~hit /\ e = Enqueue(longer, ts)
    <3> HIDE DEF hit, longer
    <3> QED BY <2>1 DEF r
  <2>3. sequences \subseteq Fields
    <3>1. ASSUME NEW t \in created
          PROVE  t \in Fields
      <4> DEFINE m == LongestContinued(AddToExisting(d.sequences, ts), ts)
      <4>1. t \in CreateSequences(d.pulses, ts, m)
        BY <3>1
      <4> HIDE DEF m
      <4> QED BY <1>1, <1>2, <4>1, CreatedSequence
    <3>2. ASSUME NEW t \in AddToExisting(d.sequences, ts)
          PROVE  t \in Fields
      <4>1. PICK s \in d.sequences : t = Continue(s, ts)
        BY <3>2 DEF AddToExisting
      <4>2. s \in Fields /\ s.count \in Nat /\ s.falses \in Nat
        BY <1>2 DEF Fields
      <4> QED BY <1>1, <4>1, <4>2, ContinueTypes
    <3> HIDE DEF created
    <3> QED BY <3>1, <3>2
  <2>4. /\ longer \in [rs : {ShortInit, LongInit}, pulses : SUBSET Nat, sequences : SUBSET Fields, last_ts : Time]
        /\ longer.pulses = d.pulses /\ longer.sequences = sequences
    <3> HIDE DEF sequences
    <3> QED BY <1>2, <2>3
  <2> HIDE DEF longer
  <2>5. ts \in e.pulses
    BY <1>1, <1>2, <1>3, <2>2, <2>4, NewestStays
  <2>6. e.sequences = sequences /\ e.last_ts = ts
    <3> HIDE DEF sequences
    <3> QED BY <2>2, <2>4 DEF Enqueue
  <2>7. sequences = Updated(d, ts) \cup Created(d, ts)
    BY DEF Updated, Created
  <2> HIDE DEF sequences
  <2> QED BY <1>6, <2>2, <2>5, <2>6, <2>7 DEF Noticed
<1> QED BY <1>1, <1>3, <1>4, <1>5, <1>6

\* What was being built before a silence is over when it ends.
LEMMA AfterSilence ==
  ASSUME NEW d, NEW H, H \subseteq Time, IsFiniteSet(H), DetectorInv(d, H), d.rs = ShortInit, ShortFinds(d, H),
         NEW ts \in Time, \A p \in H : p < ts, Silence(H, ts, Duration(PriMax)),
         NEW e, \/ d.pulses = {} /\ e.sequences = {} /\ ts \in e.pulses /\ e.last_ts = ts
                \/ d.pulses # {} /\ ts - d.last_ts < Tolerance /\ e = d
                \/ Noticed(d, ts, e)
  PROVE  Fresh(e, ts)
<1>1. Time \subseteq Nat /\ ts \in Nat /\ H \subseteq Nat
  BY Times
<1>2. PriMax \in Nat /\ Duration(PriMax) \in Nat /\ PriMax <= Duration(PriMax) /\ Tolerance <= PriMax /\ Tolerance \in Nat
  <2>1. PriMax \in PriMin..PriMax
    BY SpecAssumption
  <2> QED BY <2>1, LongestBurst
<1>3. \A p \in H : p \in Nat /\ ts - p > Duration(PriMax)
  BY <1>1 DEF Silence
<1>4. d.pulses \subseteq H /\ d.sequences \subseteq Fields /\ (d.pulses # {} => d.last_ts \in d.pulses)
  BY DEF DetectorInv, QueueInv, ShortFinds
<1>5. CASE d.pulses = {} /\ e.sequences = {} /\ ts \in e.pulses /\ e.last_ts = ts
  BY <1>5 DEF Fresh
<1>6. CASE d.pulses # {} /\ ts - d.last_ts < Tolerance /\ e = d
  <2>1. d.last_ts \in Nat /\ ts - d.last_ts > Duration(PriMax)
    BY <1>3, <1>4, <1>6
  <2> QED BY <1>1, <1>2, <1>6, <2>1
<1>7. CASE Noticed(d, ts, e)
  <2>1. Updated(d, ts) = {}
    <3>1. ASSUME NEW s \in d.sequences
          PROVE  ~(ts <= s.deadline_ts)
      <4>1. s.pri \in PriMin..PriMax /\ s.first_ts \in H /\ s.deadline_ts = s.first_ts + Duration(s.pri)
        BY DEF DetectorInv, ShortSequence
      <4>2. Duration(s.pri) \in Nat /\ Duration(s.pri) <= Duration(PriMax)
        BY <4>1, LongestBurst
      <4>3. s.first_ts \in Nat /\ ts - s.first_ts > Duration(PriMax)
        BY <1>3, <4>1
      <4> QED BY <1>1, <1>2, <4>1, <4>2, <4>3
    <3> QED BY <3>1 DEF Updated, AddToExisting
  <2>2. Created(d, ts) = {}
    <3>1. ASSUME NEW p \in d.pulses
          PROVE  ~(ts - p \in PriMin..PriMax)
      <4>1. p \in Nat /\ ts - p > Duration(PriMax)
        BY <1>3, <1>4
      <4> QED BY <1>1, <1>2, <4>1
    <3> QED BY <3>1 DEF Created, CreateSequences
  <2> QED BY <1>7, <2>1, <2>2 DEF Noticed, Fresh
<1> QED BY <1>5, <1>6, <1>7

\* A sequence is no radar when there are too few pulses, if none is false.
LEMMA TooFew ==
  ASSUME NEW s \in Fields, NEW pri \in PriMin..PriMax, s.pri = pri, s.falses = 0, s.count \in Nat \ {0}, ~Detected(s)
  PROVE  s.count < PpbThresh[pri]
<1>1. PpbThresh[pri] \in Nat /\ NumPri \in Nat \ {0}
  BY SpecAssumption
<1>2. s.count * NumPri > 0
  <2>1. \A m, n \in Nat \ {0} : m * n > 0
    OBVIOUS
  <2> QED BY <1>1, <2>1
<1> QED BY <1>1, <1>2 DEF Detected

\* The second pulse of a train makes the sequence, and the only one.
LEMMA SecondPulse ==
  ASSUME NEW d, NEW H, H \subseteq Time, IsFiniteSet(H), DetectorInv(d, H), d.rs = ShortInit,
         NEW first \in H, Silence(H, first, Duration(PriMax)), From(H, first) = {first}, Fresh(d, first),
         NEW pri \in PriMin..PriMax, NEW ts \in Time, ts = first + pri,
         NEW e, Noticed(d, ts, e)
  PROVE  Tracked(e, {first} \cup {ts}, first, pri)
<1> DEFINE s     == SequenceOf(d.pulses, first, ts)
           older == {q \in d.pulses : q < first /\ q >= ts - Duration(pri)}
           match == {q \in older : Fits(ts - q, pri)}
           f1    == {q \in d.pulses : q > first}
           f2    == {q \in older \ match : q > Least(match \cup {first})}
<1>1. Time \subseteq Nat /\ ts \in Nat /\ H \subseteq Nat /\ first \in Nat
  BY Times
<1>2. /\ PriMax \in Nat /\ Duration(PriMax) \in Nat /\ PriMax <= Duration(PriMax) /\ pri \in Nat \ {0} /\ pri <= PriMax
      /\ Duration(pri) \in Nat /\ Duration(pri) <= Duration(PriMax)
  BY LongestBurst, Intervals
<1>3. d.pulses \subseteq H /\ IsFiniteSet(d.pulses) /\ d.sequences = {} /\ first \in d.pulses
  BY DEF DetectorInv, QueueInv, Fresh
<1>4. \A p \in d.pulses : p \in Nat /\ (p = first \/ first - p > Duration(PriMax))
  <2>1. ASSUME NEW p \in d.pulses, p # first
        PROVE  p < first
    <3>1. p \in H /\ p \notin From(H, first)
      BY <1>3, <2>1
    <3>2. p \in Nat /\ ~(p >= first)
      BY <1>1, <3>1 DEF From
    <3> QED BY <1>1, <3>2
  <2> QED BY <1>1, <1>3, <2>1 DEF Silence
<1>5. Updated(d, ts) = {}
  BY <1>3 DEF Updated, AddToExisting
<1>6. LongestContinued({}, ts) = 0
  BY DEF LongestContinued
<1>7. \A p \in d.pulses : ts - p \in PriMin..PriMax <=> p = first
  <2>1. ts - first = pri
    BY <1>1, <1>2
  <2>2. ASSUME NEW p \in d.pulses, p # first
        PROVE  ~(ts - p \in PriMin..PriMax)
    BY <1>1, <1>2, <1>4, <2>2
  <2> QED BY <2>1, <2>2
<1>8. older = {}
  BY <1>1, <1>2, <1>4
<1>9. f1 = {}
  BY <1>1, <1>2, <1>4
<1>10. s = [pri |-> pri, count |-> 2, first_ts |-> first, last_ts |-> ts, dur |-> 0,
            deadline_ts |-> first + Duration(pri), falses |-> 0]
  <2>1. match = {} /\ f2 = {}
    BY <1>8
  <2>2. Least({} \cup {first}) = first
    BY <1>1, LeastUnique
  <2>3. Cardinality({}) = 0
    BY FS_EmptySet
  <2>4. ts - first = pri
    BY <1>1, <1>2
  <2>5. s = [pri |-> pri, count |-> 2 + Cardinality(match), first_ts |-> Least(match \cup {first}), last_ts |-> ts, dur |-> 0,
             deadline_ts |-> Least(match \cup {first}) + Duration(pri), falses |-> Cardinality(f1) + Cardinality(f2)]
    BY <2>4 DEF SequenceOf
  <2> HIDE DEF match, f1, f2, s
  <2> QED BY <1>9, <2>1, <2>2, <2>3, <2>5
<1> HIDE DEF older, match, f1, f2
<1>11. Created(d, ts) = {s}
  <2>1. s.count > 0
    BY <1>10
  <2>2. {SequenceOf(d.pulses, p, ts) : p \in {q \in d.pulses : ts - q \in PriMin..PriMax}} = {s}
    BY <1>3, <1>7
  <2>3. Created(d, ts) = {c \in {SequenceOf(d.pulses, p, ts) : p \in {q \in d.pulses : ts - q \in PriMin..PriMax}} : c.count > 0}
    BY <1>5, <1>6 DEF Created, CreateSequences
  <2> HIDE DEF s
  <2> QED BY <2>1, <2>2, <2>3
<1> HIDE DEF s
<1>12. e.sequences = {s} /\ ~Detected(s) /\ ts \in e.pulses /\ e.last_ts = ts
  BY <1>5, <1>11 DEF Noticed
<1>13. Cardinality({first} \cup {ts}) = 2
  <2>1. first # ts
    BY <1>1, <1>2
  <2>2. IsFiniteSet({first}) /\ Cardinality({first}) = 1
    BY FS_Singleton
  <2>3. Cardinality({first} \cup {ts}) = Cardinality({first}) + 1
    BY <2>1, <2>2, CardAdd
  <2> QED BY <2>2, <2>3
<1>14. s \in Fields /\ s.pri = pri /\ s.count = 2 /\ s.falses = 0 /\ s.last_ts = ts /\ s.deadline_ts = first + Duration(pri)
  BY <1>1, <1>2, <1>10 DEF Fields
<1>15. 2 < PpbThresh[pri]
  BY <1>12, <1>14, TooFew
<1>16. Counts(s, {first} \cup {ts}, first, pri)
  <2>1. \A p \in {first} \cup {ts} : p <= ts
    BY <1>1, <1>2
  <2> QED BY <1>13, <1>14, <2>1 DEF Counts
<1> QED BY <1>12, <1>13, <1>14, <1>15, <1>16 DEF Tracked

\* Every further pulse of the train is counted, and makes no other sequence.
LEMMA NextPulse ==
  ASSUME NEW d, NEW H, H \subseteq Time, IsFiniteSet(H), DetectorInv(d, H), d.rs = ShortInit,
         NEW first \in H, Silence(H, first, Duration(PriMax)),
         NEW pri \in PriMin..PriMax, Tracked(d, From(H, first), first, pri),
         NEW ts \in Time, \A p \in H : p < ts, ts <= first + Duration(pri),
         NEW m \in From(H, first), \A p \in From(H, first) : p <= m, Fits(ts - m, pri),
         NEW e, Noticed(d, ts, e)
  PROVE  Tracked(e, From(H, first) \cup {ts}, first, pri)
<1> DEFINE T == From(H, first)
<1>1. Time \subseteq Nat /\ ts \in Nat /\ H \subseteq Nat /\ first \in Nat
  BY Times
<1>2. PICK s \in d.sequences : d.sequences = {s} /\ d.last_ts = s.last_ts /\ Counts(s, T, first, pri)
  BY DEF Tracked
<1>3. /\ s \in Fields /\ s.pri = pri /\ s.count = Cardinality(T) /\ s.falses = 0
      /\ s.last_ts \in T /\ \A p \in T : p <= s.last_ts
      /\ s.deadline_ts = first + Duration(pri)
  BY <1>2 DEF Counts
<1>4. T \subseteq H /\ T \subseteq Nat /\ IsFiniteSet(T) /\ Cardinality(T) \in Nat
  <2>1. T \subseteq H
    BY DEF From
  <2> HIDE DEF T
  <2> QED BY <1>1, <2>1, CardSubset
<1> HIDE DEF T
<1>5. s.last_ts = m
  <2>1. s.last_ts \in Nat /\ m \in Nat /\ s.last_ts <= m /\ m <= s.last_ts
    BY <1>3, <1>4 DEF T
  <2> QED BY <2>1
<1> DEFINE t == Continue(s, ts)
<1>6. /\ t \in Fields /\ t.pri = pri /\ t.deadline_ts = first + Duration(pri) /\ t.last_ts = ts
      /\ t.count = Cardinality(T) + 1 /\ t.falses = 0
  <2>1. Fits(ts - s.last_ts, s.pri) /\ t = Continue(s, ts)
    BY <1>3, <1>5
  <2> HIDE DEF t
  <2>2. /\ t \in Fields /\ t.pri = s.pri /\ t.deadline_ts = s.deadline_ts
        /\ Fits(ts - s.last_ts, s.pri) => t.last_ts = ts /\ t.count = s.count + 1 /\ t.falses = s.falses
    <3>1. s \in Fields /\ ts \in Nat /\ t = Continue(s, ts)
      BY <1>1, <1>3, <2>1
    <3> QED BY ONLY <3>1, ContinueTypes
  <2> QED BY <1>3, <2>1, <2>2
<1>7. Updated(d, ts) = {t}
  BY <1>2, <1>3 DEF Updated, AddToExisting
<1> HIDE DEF t
<1>8. LongestContinued({t}, ts) = Cardinality(T) + 1
  <2>1. {u.count : u \in {q \in {t} : q.last_ts = ts}} = {Cardinality(T) + 1}
    BY <1>6
  <2> DEFINE n == Cardinality(T) + 1
  <2>2. n \in Nat /\ LongestContinued({t}, ts) = CHOOSE c \in {n} \cup {0} : \A k \in {n} \cup {0} : k <= c
    BY <1>4, <2>1 DEF LongestContinued
  <2> HIDE DEF n
  <2>3. \A c \in {n} \cup {0} : (\A k \in {n} \cup {0} : k <= c) <=> c = n
    BY <2>2
  <2>4. LongestContinued({t}, ts) = n
    BY <2>2, <2>3
  <2> QED BY <2>4 DEF n
<1>9. Created(d, ts) = {}
  <2>1. d.pulses \subseteq H /\ IsFiniteSet(d.pulses) /\ d.pulses \subseteq Nat
    BY <1>1 DEF DetectorInv, QueueInv
  <2>2. ASSUME NEW c \in CreateSequences(d.pulses, ts, Cardinality(T) + 1)
        PROVE  FALSE
    <3>1. PICK p \in d.pulses : ts - p \in PriMin..PriMax /\ c = SequenceOf(d.pulses, p, ts)
      BY <2>2 DEF CreateSequences
    <3>2. c.count > Cardinality(T) + 1
      BY <2>2 DEF CreateSequences
    <3>3. NewSequence(c, d.pulses, p, ts)
      BY <1>1, <2>1, <3>1, SequenceOfMakes
    <3>4. /\ c.pri = ts - p /\ c.first_ts \in Nat /\ ts <= c.first_ts + Duration(c.pri)
      BY <2>1, <3>3 DEF NewSequence
    <3>5. PICK M \in SUBSET d.pulses : c.count = Cardinality(M) + 1 /\ \A q \in M : c.first_ts <= q
      BY <3>3 DEF NewSequence
    <3>6. Duration(c.pri) \in Nat /\ Duration(c.pri) <= Duration(PriMax) /\ Duration(PriMax) \in Nat
      BY <3>1, <3>4, LongestBurst
    <3>7. ASSUME NEW q \in M
          PROVE  q \in T
      <4>1. q \in H /\ q \in Nat /\ c.first_ts <= q /\ first < ts
        BY <2>1, <3>5
      <4>2. ~(first - q > Duration(PriMax))
        BY <1>1, <3>4, <3>6, <4>1
      <4>3. q >= first
        BY <1>1, <4>1, <4>2 DEF Silence
      <4> QED BY <4>1, <4>3 DEF T, From
    <3>8. Cardinality(M) \in Nat /\ Cardinality(M) <= Cardinality(T)
      BY <1>4, <3>7, CardSubset
    <3> QED BY <1>4, <3>2, <3>5, <3>8
  <2>3. Created(d, ts) = CreateSequences(d.pulses, ts, Cardinality(T) + 1)
    BY <1>7, <1>8 DEF Created
  <2> QED BY <2>2, <2>3
<1>10. e.sequences = {t} /\ ~Detected(t) /\ ts \in e.pulses /\ e.last_ts = ts
  BY <1>7, <1>9 DEF Noticed
<1>11. Cardinality(T \cup {ts}) = Cardinality(T) + 1
  <2>1. ts \notin T
    <3>1. ~(ts < ts)
      BY <1>1
    <3> QED BY <1>4, <3>1
  <2> QED BY <1>4, <2>1, CardAdd
<1>12. Cardinality(T) + 1 < PpbThresh[pri]
  BY <1>4, <1>6, <1>10, TooFew
<1>13. Counts(t, T \cup {ts}, first, pri)
  <2>1. \A p \in T \cup {ts} : p <= ts
    BY <1>1, <1>4
  <2> QED BY <1>6, <1>11, <2>1 DEF Counts
<1> QED BY <1>6, <1>10, <1>11, <1>12, <1>13 DEF Tracked, T

\* Whatever a detector of short pulses has made of noise, it builds the sequence of a
\* train that comes after a silence.
LEMMA ShortFindsMore ==
  ASSUME NEW d, NEW H, H \subseteq Time, IsFiniteSet(H), DetectorInv(d, H), d.rs = ShortInit, ShortFinds(d, H),
         NEW ts \in Time, \A p \in H : p < ts, ~ShortAddPulse(d, ts).hit,
         NEW e, e = ShortAddPulse(d, ts).pde
  PROVE  ShortFinds(e, H \cup {ts})
<1> DEFINE HT == H \cup {ts}
<1>1. Time \subseteq Nat /\ ts \in Nat /\ H \subseteq Nat /\ ts \notin H /\ \A p \in H : p <= ts
  <2>1. Time \subseteq Nat /\ ts \in Nat /\ H \subseteq Nat
    BY Times
  <2>2. \A p \in H : p \in Nat /\ p < ts
    BY <2>1
  <2>3. ts \notin H
    BY <2>1, <2>2
  <2>4. \A p \in H : p <= ts
    BY <2>1, <2>2
  <2> QED BY <2>1, <2>3, <2>4
<1>2. \/ d.pulses = {} /\ e.sequences = {} /\ ts \in e.pulses /\ e.last_ts = ts
      \/ d.pulses # {} /\ ts - d.last_ts < Tolerance /\ e = d
      \/ Noticed(d, ts, e)
  BY <1>1, ShortOutcome
<1>3. e.pulses # {} => e.last_ts \in e.pulses
  BY <1>2 DEF Noticed, ShortFinds
<1>4. /\ From(HT, ts) = {ts}
      /\ \A first \in H : /\ From(HT, first) = From(H, first) \cup {ts}
                          /\ From(H, first) \subseteq H /\ first \in From(H, first)
                          /\ IsFiniteSet(From(H, first)) /\ \A p \in From(H, first) : first <= p
      /\ \A first \in H : \A pause : Silence(HT, first, pause) => Silence(H, first, pause)
  BY <1>1, OneMore
<1>5. ASSUME Silence(HT, ts, Duration(PriMax))
      PROVE  /\ From(HT, ts) = {ts} => Fresh(e, ts)
             /\ \A pri \in PriMin..PriMax : ShortTrain(From(HT, ts), ts, pri) => Tracked(e, From(HT, ts), ts, pri)
  <2>1. Silence(H, ts, Duration(PriMax))
    BY <1>5 DEF Silence
  <2>2. Fresh(e, ts)
    BY <1>2, <2>1, AfterSilence
  <2>3. ASSUME NEW pri \in PriMin..PriMax
        PROVE  ~ShortTrain({ts}, ts, pri)
    <3>1. pri \in Nat \ {0}
      BY Intervals
    <3>2. ts + pri \notin {ts}
      BY <1>1, <3>1
    <3> QED BY <3>2 DEF ShortTrain
  <2> QED BY <1>4, <2>2, <2>3
<1>6. ASSUME NEW first \in H, Silence(HT, first, Duration(PriMax))
      PROVE  /\ From(HT, first) = {first} => Fresh(e, first)
             /\ \A pri \in PriMin..PriMax : ShortTrain(From(HT, first), first, pri) => Tracked(e, From(HT, first), first, pri)
  <2> DEFINE T == From(H, first)
  <2>1. /\ From(HT, first) = T \cup {ts} /\ T \subseteq H /\ first \in T /\ IsFiniteSet(T)
        /\ \A p \in T : first <= p
        /\ Silence(H, first, Duration(PriMax))
    BY <1>4, <1>6
  <2>2. From(HT, first) # {first}
    BY <1>1, <2>1
  <2>3. /\ T = {first} => Fresh(d, first)
        /\ \A pri \in PriMin..PriMax : ShortTrain(T, first, pri) => Tracked(d, T, first, pri)
    BY <2>1 DEF ShortFinds
  <2> HIDE DEF T
  <2>4. ASSUME NEW pri \in PriMin..PriMax, ShortTrain(T \cup {ts}, first, pri)
        PROVE  Tracked(e, T \cup {ts}, first, pri)
    <3>1. \/ T = {first} /\ ts = first + pri
          \/ /\ ShortTrain(T, first, pri) /\ ts <= first + Duration(pri)
             /\ \E m \in T : Fits(ts - m, pri) /\ \A p \in T : p <= m
      <4>1. T \subseteq Nat /\ first \in T /\ ts \in Nat
        BY <1>1, <2>1
      <4>2. \A p \in T : first <= p /\ p < ts
        BY <2>1
      <4> QED BY <2>4, <4>1, <4>2, TrainBefore
    <3>2. Tolerance <= pri /\ Tolerance \in Nat /\ pri \in Nat
      BY LongestBurst
    <3>3. CASE T = {first} /\ ts = first + pri
      <4>1. Fresh(d, first)
        BY <2>3, <3>3
      <4>2. Noticed(d, ts, e)
        <5>1. d.pulses # {} /\ d.last_ts = first /\ first \in Nat
          BY <1>1, <4>1 DEF Fresh
        <5>2. ~(ts - d.last_ts < Tolerance)
          BY <3>2, <3>3, <5>1
        <5> QED BY <1>2, <5>1, <5>2
      <4>3. Tracked(e, {first} \cup {ts}, first, pri)
        BY <2>1, <3>3, <4>1, <4>2, SecondPulse DEF T
      <4> QED BY <3>3, <4>3
    <3>4. CASE ShortTrain(T, first, pri) /\ ts <= first + Duration(pri)
               /\ \E m \in T : Fits(ts - m, pri) /\ \A p \in T : p <= m
      <4>1. Tracked(d, T, first, pri)
        BY <2>3, <3>4
      <4>2. PICK m \in T : Fits(ts - m, pri) /\ \A p \in T : p <= m
        BY <3>4
      <4>3. d.pulses # {} /\ d.last_ts = m
        <5>1. PICK s \in d.sequences : d.last_ts = s.last_ts /\ Counts(s, T, first, pri)
          BY <4>1 DEF Tracked
        <5>2. s.last_ts \in T /\ \A p \in T : p <= s.last_ts
          BY <5>1 DEF Counts
        <5>3. s.last_ts \in Nat /\ m \in Nat /\ s.last_ts <= m /\ m <= s.last_ts
          BY <1>1, <2>1, <4>2, <5>2
        <5>4. s.last_ts = m
          BY <5>3
        <5> QED BY <4>1, <5>1, <5>4 DEF Tracked
      <4>4. Noticed(d, ts, e)
        <5>1. m \in H /\ m \in Nat /\ m < ts
          BY <1>1, <2>1
        <5>2. ts - m \in Nat
          BY <1>1, <5>1
        <5>3. ts - m >= Tolerance
          BY <4>2, <5>2, FittingIsFar
        <5>4. ~(ts - d.last_ts < Tolerance)
          BY <3>2, <4>3, <5>2, <5>3
        <5> QED BY <1>2, <4>3, <5>4
      <4> QED BY <1>1, <2>1, <3>4, <4>1, <4>2, <4>4, NextPulse DEF T
    <3> QED BY <3>1, <3>3, <3>4
  <2> QED BY <2>1, <2>2, <2>4
<1> QED BY <1>3, <1>5, <1>6 DEF ShortFinds

-----------------------------------------------------------------------------
(* Long pulses.                                                            *)

\* The bursts of a set of pulses when one more comes.
LEMMA OneMoreBurst ==
  ASSUME NEW T, T \subseteq Nat, IsFiniteSet(T), NEW ts \in Nat, \A p \in T : p < ts
  PROVE  /\ (\A p \in T : ts - p > LongPriMax) =>
              /\ Bursts(T \cup {ts}) = Bursts(T) \cup {ts} /\ ts \notin Bursts(T)
              /\ Cardinality(Bursts(T \cup {ts})) = Cardinality(Bursts(T)) + 1
         /\ (\E p \in T : ~(ts - p > LongPriMax)) => Bursts(T \cup {ts}) = Bursts(T)
         /\ Cardinality(Bursts(T)) \in Nat /\ Bursts(T) \subseteq T
<1>1. Bursts(T) \subseteq T /\ Bursts(T \cup {ts}) \subseteq T \cup {ts}
  BY DEF Bursts
<1>2. IsFiniteSet(Bursts(T)) /\ Cardinality(Bursts(T)) \in Nat
  BY <1>1, CardSubset
<1>3. ASSUME NEW p \in T
      PROVE  p \in Bursts(T \cup {ts}) <=> p \in Bursts(T)
  <2>1. ~(ts < p)
    OBVIOUS
  <2> QED BY <2>1 DEF Bursts
<1>4. ts \in Bursts(T \cup {ts}) <=> \A p \in T : ts - p > LongPriMax
  <2>1. ~(ts < ts)
    OBVIOUS
  <2> QED BY <2>1 DEF Bursts
<1>5. ts \notin T
  <2>1. ~(ts < ts)
    OBVIOUS
  <2> QED BY <2>1
<1>6. ASSUME \A p \in T : ts - p > LongPriMax
      PROVE  /\ Bursts(T \cup {ts}) = Bursts(T) \cup {ts} /\ ts \notin Bursts(T)
             /\ Cardinality(Bursts(T \cup {ts})) = Cardinality(Bursts(T)) + 1
  <2>1. Bursts(T \cup {ts}) = Bursts(T) \cup {ts} /\ ts \notin Bursts(T)
    BY <1>1, <1>3, <1>4, <1>5, <1>6
  <2>2. Cardinality(Bursts(T) \cup {ts}) = Cardinality(Bursts(T)) + 1
    BY <1>2, <2>1, CardAdd
  <2> QED BY <2>1, <2>2
<1>7. ASSUME \E p \in T : ~(ts - p > LongPriMax)
      PROVE  Bursts(T \cup {ts}) = Bursts(T)
  BY <1>1, <1>3, <1>4, <1>7
<1> QED BY <1>1, <1>2, <1>6, <1>7

\* The shortest time between bursts is no longer than the window.
LEMMA BurstsInWindow == BurstMin \in Nat /\ BurstMin <= LongDuration /\ LongDuration \in Nat /\ LongPriMax \in Nat
                        /\ LongPriMax <= LongDuration /\ LongThresh \in Nat /\ LongDuration \div 2 \in Nat
<1>1. LongDuration \in Nat /\ LongMaxBurst \in Nat \ {0} /\ LongPriMax \in Nat /\ LongPriMax <= LongDuration /\ LongThresh \in Nat
  BY SpecAssumption
<1>2. LongDuration \div LongMaxBurst \in Nat /\ LongDuration \div LongMaxBurst <= LongDuration
  <2>1. \A a \in Nat, b \in Nat \ {0} : a \div b \in Nat /\ a \div b <= a
    OBVIOUS
  <2> QED BY <1>1, <2>1
<1>3. LongDuration \div 2 \in Nat
  BY <1>1
<1> QED BY <1>1, <1>2, <1>3 DEF BurstMin

\* The sequence with one more burst: its type, and that it counts those that are queued.
LEMMA NextBurstTypes ==
  ASSUME NEW d, NEW H, H \subseteq Time, IsFiniteSet(H), DetectorInv(d, H),
         NEW s \in Fields, LongSequence(s, d, H), NEW ts \in Time, \A p \in H : p <= ts,
         NEW t, t = NextBurst(s, d.pulses, ts)
  PROVE  /\ t \in Fields /\ Cardinality(Inside(s, d.pulses, ts)) + 1 <= t.count
         /\ Cardinality(Inside(s, d.pulses, ts)) \in Nat
         /\ Inside(s, d.pulses, ts) = d.pulses => t.count = s.count + 1
<1> DEFINE P      == d.pulses
           inside == Inside(s, P, ts)
           found  == ts > s.deadline_ts /\ inside # {}
           first  == IF found THEN Least(inside) ELSE s.first_ts
           gone   == P \ inside
<1>1. Time \subseteq Nat /\ ts \in Nat /\ H \subseteq Nat /\ LongDuration \in Nat
  BY Times, BurstsInWindow
<1>2. P \subseteq H /\ IsFiniteSet(P) /\ Cardinality(P) <= s.count /\ s.last_ts \in H
  BY DEF DetectorInv, QueueInv, LongSequence
<1>3. s.count \in Nat /\ s.deadline_ts \in Nat /\ s.first_ts \in Nat /\ s.last_ts \in Nat /\ s.pri \in Nat
  BY DEF Fields
<1>4. inside \subseteq P
  BY DEF Inside
<1>5. t = [pri |-> s.pri, count |-> s.count + 1 - Cardinality(gone), falses |-> 1,
           first_ts |-> first, last_ts |-> ts, dur |-> ts - s.last_ts,
           deadline_ts |-> IF found THEN first + LongDuration ELSE s.deadline_ts]
  BY DEF NextBurst
<1>6. first \in Nat
  <2>1. inside # {} => Least(inside) \in inside
    <3> HIDE DEF inside
    <3>1. inside \subseteq Nat
      BY <1>1, <1>2, <1>4
    <3> QED BY <3>1, LeastIs
  <2> HIDE DEF inside
  <2> QED BY <1>1, <1>2, <1>3, <1>4, <2>1
<1>7. inside = P => gone = {}
  OBVIOUS
<1> HIDE DEF inside, gone, first, found
<1>8. /\ Cardinality(inside) \in Nat /\ Cardinality(gone) \in Nat /\ Cardinality(P) \in Nat
      /\ Cardinality(P) = Cardinality(inside) + Cardinality(gone)
  <2>1. gone \subseteq P
    BY DEF gone
  <2>2. Cardinality(P) = Cardinality(inside) + Cardinality(P \ inside)
    BY <1>2, <1>4, CardDifference
  <2> HIDE DEF P
  <2>3. Cardinality(inside) \in Nat /\ Cardinality(gone) \in Nat /\ Cardinality(P) \in Nat
    BY <1>2, <1>4, <2>1, CardSubset
  <2> QED BY <2>2, <2>3 DEF gone
<1>9. t.count = s.count + 1 - Cardinality(gone)
  BY <1>5
<1> HIDE DEF P
<1>10. t.count \in Nat /\ Cardinality(inside) + 1 <= t.count
  BY <1>2, <1>3, <1>8, <1>9
<1>11. inside = P => t.count = s.count + 1
  <2>1. Cardinality({}) = 0
    BY FS_EmptySet
  <2> QED BY <1>3, <1>7, <1>9, <2>1
<1>12. t \in Fields
  <2>1. ts - s.last_ts \in Nat
    BY <1>1, <1>2, <1>3
  <2>2. (IF found THEN first + LongDuration ELSE s.deadline_ts) \in Nat
    BY <1>1, <1>3, <1>6
  <2>3. s.count + 1 - Cardinality(gone) \in Nat
    BY <1>9, <1>10
  <2> QED BY <1>1, <1>3, <1>5, <1>6, <2>1, <2>2, <2>3 DEF Fields
<1> QED BY <1>8, <1>10, <1>11, <1>12 DEF inside, P

\* A long pulse that makes no burst: it comes too soon after the one before.
Moved(d, s, ts, e, t) ==
  /\ d.sequences = {s} /\ e.sequences = {t} /\ e.pulses = d.pulses
  /\ t.count = s.count /\ t.first_ts = s.first_ts /\ t.deadline_ts = s.deadline_ts
  /\ \/ ts - s.last_ts <= LongPriMax
     \/ ts - s.last_ts < BurstMin

\* A long pulse that begins a burst.
Begun(d, s, ts, e, t) ==
  /\ d.sequences = {s} /\ e.sequences = {t} /\ ts \in e.pulses
  /\ ts - s.last_ts > LongPriMax /\ t = NextBurst(s, d.pulses, ts)
  /\ ~(t.count > LongThresh /\ ts - t.first_ts > LongDuration \div 2)

\* What a pulse that completes no radar does to a detector of long pulses.
LEMMA LongOutcome ==
  ASSUME NEW d, NEW H, H \subseteq Time, IsFiniteSet(H), DetectorInv(d, H), d.rs = LongInit,
         NEW ts \in Time, \A p \in H : p <= ts, ~LongAddPulse(d, ts).hit,
         NEW e, e = LongAddPulse(d, ts).pde
  PROVE  \/ H = {} /\ e.sequences = {FirstBurst(ts)} /\ ts \in e.pulses
         \/ \E s \in Fields : \E t : LongSequence(s, d, H) /\ (Moved(d, s, ts, e, t) \/ Begun(d, s, ts, e, t))
<1> DEFINE r == LongAddPulse(d, ts)
<1>1. /\ Time \subseteq Nat /\ ts \in Nat /\ H \subseteq Nat /\ ShortInit # LongInit
      /\ LongPriMax \in Nat /\ LongDuration \in Nat /\ BurstMin \in Nat
  BY Times, BurstsInWindow
<1>2. /\ d \in [rs : {ShortInit, LongInit}, pulses : SUBSET Nat, sequences : SUBSET Fields, last_ts : Time]
      /\ d.pulses \subseteq H /\ IsFiniteSet(d.pulses)
  BY DEF DetectorInv, QueueInv
<1>3. CASE d.sequences = {}
  <2> DEFINE n == [d EXCEPT !.sequences = {FirstBurst(ts)}]
  <2>1. e = Enqueue(n, ts)
    BY <1>3 DEF LongAddPulse
  <2>2. H = {}
    BY <1>3 DEF DetectorInv
  <2>3. FirstBurst(ts) \in Fields
    <3>1. ts + LongDuration \in Nat
      BY <1>1
    <3> QED BY <1>1, <3>1 DEF Fields, FirstBurst
  <2>4. /\ n \in [rs : {ShortInit, LongInit}, pulses : SUBSET Nat, sequences : SUBSET Fields, last_ts : Time]
        /\ n.pulses = d.pulses /\ n.sequences = {FirstBurst(ts)}
    <3> DEFINE f == FirstBurst(ts)
    <3>1. f \in Fields /\ n = [d EXCEPT !.sequences = {f}]
      BY <2>3
    <3> HIDE DEF f
    <3>2. /\ n \in [rs : {ShortInit, LongInit}, pulses : SUBSET Nat, sequences : SUBSET Fields, last_ts : Time]
          /\ n.pulses = d.pulses /\ n.sequences = {f}
      BY <1>2, <3>1
    <3> QED BY <3>2 DEF f
  <2> HIDE DEF n
  <2>5. ts \in e.pulses
    <3>1. IsFiniteSet(n.pulses) /\ \A p \in n.pulses : p <= ts
      BY <1>2, <2>4
    <3> QED BY <1>1, <2>1, <2>4, <3>1, NewestStays
  <2>6. e.sequences = {FirstBurst(ts)}
    BY <2>1, <2>4 DEF Enqueue
  <2> QED BY <2>2, <2>5, <2>6
<1>4. CASE d.sequences # {}
  <2>1. PICK s \in Fields : d.sequences = {s} /\ LongSequence(s, d, H)
    BY <1>1, <1>4 DEF DetectorInv
  <2>2. r = LongPulse(d, s, ts)
    <3>1. (CHOOSE q \in d.sequences : TRUE) = s
      BY <2>1
    <3> QED BY <1>4, <3>1 DEF LongAddPulse
  <2> DEFINE delta == ts - s.last_ts
             next  == NextBurst(s, d.pulses, ts)
             hit   == next.count > LongThresh /\ ts - next.first_ts > LongDuration \div 2
             burst == [d EXCEPT !.sequences = {next}, !.pulses = Inside(s, @, ts)]
             early == s.count > 2 /\ s.dur + delta < BurstMin
  <2>3. s.last_ts \in Nat /\ s.last_ts \in H /\ delta \in Nat /\ s.dur \in Nat /\ s.count \in Nat
    <3>1. s.last_ts \in H
      BY <2>1 DEF LongSequence
    <3> QED BY <1>1, <3>1 DEF Fields
  <2>a. e = r.pde /\ ~r.hit
    OBVIOUS
  <2> HIDE DEF r
  <2>4. ASSUME NEW t, e = [d EXCEPT !.sequences = {t}],
               t.count = s.count, t.first_ts = s.first_ts, t.deadline_ts = s.deadline_ts,
               delta <= LongPriMax \/ delta < BurstMin
        PROVE  Moved(d, s, ts, e, t)
    <3>1. e.sequences = {t} /\ e.pulses = d.pulses
      BY <1>2, <2>4
    <3> QED BY <2>1, <2>4, <3>1 DEF Moved
  <2>5. CASE delta < LongPriMax
    <3> DEFINE t == [s EXCEPT !.last_ts = ts]
    <3>1. e = [d EXCEPT !.sequences = {t}]
      <4>1. r = [pde |-> [d EXCEPT !.sequences = {t}], hit |-> FALSE]
        BY <1>1, <2>2, <2>3, <2>5 DEF LongPulse
      <4> HIDE DEF t
      <4> QED BY <2>a, <4>1
    <3>2. t.count = s.count /\ t.first_ts = s.first_ts /\ t.deadline_ts = s.deadline_ts
      BY DEF Fields
    <3> HIDE DEF t
    <3>3. delta <= LongPriMax
      BY <1>1, <2>3, <2>5
    <3>4. Moved(d, s, ts, e, t)
      BY <2>4, <3>1, <3>2, <3>3
    <3> QED BY <2>1, <3>4
  <2>6. CASE delta = LongPriMax
    <3> DEFINE t == [s EXCEPT !.last_ts = ts, !.falses = @ + 1]
    <3>1. e = [d EXCEPT !.sequences = {t}]
      <4>1. r = [pde |-> [d EXCEPT !.sequences = {t}], hit |-> FALSE]
        BY <1>1, <2>2, <2>3, <2>6 DEF LongPulse
      <4> HIDE DEF t
      <4> QED BY <2>a, <4>1
    <3>2. t.count = s.count /\ t.first_ts = s.first_ts /\ t.deadline_ts = s.deadline_ts
      BY DEF Fields
    <3> HIDE DEF t
    <3>3. delta <= LongPriMax
      BY <1>1, <2>3, <2>6
    <3>4. Moved(d, s, ts, e, t)
      BY <2>4, <3>1, <3>2, <3>3
    <3> QED BY <2>1, <3>4
  <2>7. CASE delta > LongPriMax /\ early
    <3> DEFINE t == [s EXCEPT !.last_ts = ts]
    <3>1. e = [d EXCEPT !.sequences = {t}]
      <4>1. r = [pde |-> [d EXCEPT !.sequences = {t}], hit |-> FALSE]
        BY <1>1, <2>2, <2>3, <2>7 DEF LongPulse
      <4> HIDE DEF t
      <4> QED BY <2>a, <4>1
    <3>2. t.count = s.count /\ t.first_ts = s.first_ts /\ t.deadline_ts = s.deadline_ts
      BY DEF Fields
    <3> HIDE DEF t
    <3>3. delta < BurstMin
      BY <1>1, <2>3, <2>7
    <3>4. Moved(d, s, ts, e, t)
      BY <2>4, <3>1, <3>2, <3>3
    <3> QED BY <2>1, <3>4
  <2>8. CASE delta > LongPriMax /\ ~early
    <3>1. r = [pde |-> IF hit THEN burst ELSE Enqueue(burst, ts), hit |-> hit]
      BY <1>1, <2>2, <2>3, <2>8 DEF LongPulse
    <3>2. ~hit /\ e = Enqueue(burst, ts)
      <4> HIDE DEF hit, burst
      <4> QED BY <2>a, <3>1
    <3> DEFINE inside == Inside(s, d.pulses, ts)
    <3>3. burst = [d EXCEPT !.sequences = {next}, !.pulses = inside]
      OBVIOUS
    <3>b. next \in Fields
      <4>1. ts - s.last_ts > LongPriMax
        BY <2>8
      <4> HIDE DEF r, delta, hit, burst, early, next
      <4>2. next = NextBurst(s, d.pulses, ts)
        BY DEF next
      <4> QED BY <1>1, <2>1, <4>1, <4>2, NextBurstTypes
    <3>4. inside \subseteq d.pulses
      BY DEF Inside
    <3> HIDE DEF next, inside, burst
    <3>5. /\ burst = [rs |-> d.rs, pulses |-> inside, sequences |-> {next}, last_ts |-> d.last_ts]
      BY <1>2, <3>3
    <3>6. /\ burst \in [rs : {ShortInit, LongInit}, pulses : SUBSET Nat, sequences : SUBSET Fields, last_ts : Time]
          /\ burst.sequences = {next} /\ burst.pulses = inside
      BY <1>2, <3>b, <3>4, <3>5
    <3>7. ts \in e.pulses
      <4>1. IsFiniteSet(burst.pulses) /\ \A p \in burst.pulses : p <= ts
        BY <1>2, <3>4, <3>6, FS_Subset
      <4> QED BY <1>1, <3>2, <3>6, <4>1, NewestStays
    <3>8. e.sequences = {next}
      BY <3>2, <3>6 DEF Enqueue
    <3>9. Begun(d, s, ts, e, next)
      BY <2>1, <2>8, <3>2, <3>7, <3>8 DEF Begun, next
    <3> QED BY <2>1, <3>9
  <2> QED BY <1>1, <2>3, <2>5, <2>6, <2>7, <2>8
<1> QED BY <1>3, <1>4

\* The first pulse of all is the first of a train, and the only one.
LEMMA FirstLongPulse ==
  ASSUME NEW ts \in Nat, NEW e, e.sequences = {FirstBurst(ts)}, ts \in e.pulses
  PROVE  LongFinds(e, {ts})
<1> DEFINE s == FirstBurst(ts)
<1>1. s.count = 1 /\ s.first_ts = ts /\ s.deadline_ts = ts + LongDuration
  BY DEF FirstBurst
<1> HIDE DEF s
<1>2. LongDuration \in Nat /\ LongDuration \div 2 \in Nat
  BY BurstsInWindow
<1>3. From({ts}, ts) = {ts}
  BY DEF From
<1>4. Bursts({ts}) = {ts}
  <2>1. ~(ts < ts)
    OBVIOUS
  <2> QED BY <2>1 DEF Bursts
<1>5. ~LongTrainDone({ts}, ts)
  <2>1. ~(ts - ts > LongDuration \div 2)
    BY <1>2
  <2> QED BY <1>4, <2>1 DEF LongTrainDone
<1>6. CountsBursts(s, e.pulses, {ts}, ts)
  <2>1. Cardinality({ts}) = 1
    BY FS_Singleton
  <2>2. s.count >= Cardinality(Bursts({ts}))
    <3>1. Cardinality(Bursts({ts})) = 1
      BY <1>4, <2>1
    <3> QED BY <1>1, <3>1
  <2> QED BY <1>1, <1>5, <2>2 DEF CountsBursts
<1>7. s.deadline_ts <= ts + LongDuration
  BY <1>1, <1>2
<1>8. e.sequences = {s}
  BY DEF s
<1> QED BY <1>3, <1>6, <1>7, <1>8 DEF LongFinds

\* A pulse that is no burst leaves a train as it was counted.
LEMMA MovedFinds ==
  ASSUME NEW d, NEW H, H \subseteq Nat, IsFiniteSet(H), LongFinds(d, H),
         NEW s \in Fields, LongSequence(s, d, H),
         NEW ts \in Nat, \A p \in H : p <= ts,
         NEW e, NEW t, Moved(d, s, ts, e, t)
  PROVE  LongFinds(e, H \cup {ts})
<1> DEFINE HT == H \cup {ts}
<1>1. /\ d.sequences = {s} /\ e.sequences = {t} /\ e.pulses = d.pulses
      /\ t.count = s.count /\ t.first_ts = s.first_ts /\ t.deadline_ts = s.deadline_ts
      /\ ts - s.last_ts <= LongPriMax \/ ts - s.last_ts < BurstMin
  BY DEF Moved
<1>2. s.last_ts \in H /\ s.last_ts \in Nat /\ \A p \in H : p <= s.last_ts
  BY DEF LongSequence, Fields
<1>3. PICK q \in H : s.deadline_ts <= q + LongDuration
  BY <1>1 DEF LongFinds
<1>4. BurstMin \in Nat /\ BurstMin <= LongDuration /\ LongDuration \in Nat /\ LongPriMax \in Nat /\ LongPriMax <= LongDuration
  BY BurstsInWindow
<1>5. ASSUME NEW first \in H, Silence(H, first, LongDuration), LongTrain(From(H, first), first)
      PROVE  CountsBursts(t, e.pulses, From(H, first), first)
  <2>1. CountsBursts(s, d.pulses, From(H, first), first)
    BY <1>1, <1>5 DEF LongFinds
  <2> QED BY <1>1, <2>1 DEF CountsBursts
<1>6. CASE ts \in H
  <2>1. HT = H
    BY <1>6
  <2> HIDE DEF HT
  <2> QED BY <1>1, <1>3, <1>5, <2>1 DEF LongFinds, HT
<1>7. CASE ts \notin H
  <2>1. /\ From(HT, ts) = {ts}
        /\ \A first \in H : /\ From(HT, first) = From(H, first) \cup {ts}
                            /\ From(H, first) \subseteq H /\ first \in From(H, first)
                            /\ IsFiniteSet(From(H, first)) /\ \A p \in From(H, first) : first <= p
        /\ \A first \in H : \A pause : Silence(HT, first, pause) => Silence(H, first, pause)
    BY <1>7, OneMore
  <2>2. \A p \in H : p < ts
    <3>1. \A p \in H : p \in Nat /\ p <= ts /\ p # ts
      BY <1>7
    <3> QED BY <3>1
  <2>3. ~Silence(HT, ts, LongDuration)
    <3>1. s.last_ts < ts /\ ~(ts - s.last_ts > LongDuration)
      BY <1>1, <1>2, <1>4, <2>2
    <3> QED BY <1>2, <3>1 DEF Silence
  <2>4. ASSUME NEW first \in H, Silence(HT, first, LongDuration), LongTrain(From(HT, first), first)
        PROVE  CountsBursts(t, e.pulses, From(HT, first), first)
    <3> DEFINE T == From(H, first)
    <3>1. /\ From(HT, first) = T \cup {ts} /\ T \subseteq H /\ first \in T /\ IsFiniteSet(T)
          /\ Silence(H, first, LongDuration)
      BY <2>1, <2>4
    <3>2. s.last_ts \in T
      BY <1>2 DEF From
    <3> HIDE DEF T
    <3>3. T \subseteq Nat /\ \A p \in T : p < ts
      BY <2>2, <3>1
    <3>4. /\ (\A p \in T : ts - p > LongPriMax) => Bursts(T \cup {ts}) = Bursts(T) \cup {ts}
          /\ (\E p \in T : ~(ts - p > LongPriMax)) => Bursts(T \cup {ts}) = Bursts(T)
      BY <3>1, <3>3, OneMoreBurst
    <3>5. LongTrain(T \cup {ts}, first)
      BY <2>4, <3>1
    <3>6. Bursts(T \cup {ts}) = Bursts(T)
      <4>1. SUFFICES ASSUME \A p \in T : ts - p > LongPriMax
                     PROVE  FALSE
        BY <3>4
      <4>2. ts \in Bursts(T \cup {ts})
        BY <3>4, <4>1
      <4>3. s.last_ts < ts /\ s.last_ts \in T \cup {ts}
        BY <3>2, <3>3
      <4>4. ts - s.last_ts >= BurstMin
        BY <3>5, <4>2, <4>3 DEF LongTrain
      <4>5. ts - s.last_ts > LongPriMax
        BY <3>2, <4>1
      <4> QED BY <1>1, <1>2, <1>4, <4>4, <4>5
    <3>7. LongTrain(T, first)
      BY <3>5, <3>6 DEF LongTrain
    <3>8. CountsBursts(t, e.pulses, T, first)
      BY <1>5, <3>1, <3>7 DEF T
    <3>9. LongTrainDone(T \cup {ts}, first) <=> LongTrainDone(T, first)
      BY <3>6 DEF LongTrainDone
    <3> QED BY <3>1, <3>6, <3>8, <3>9 DEF CountsBursts
  <2>5. q \in HT /\ t.deadline_ts <= q + LongDuration
    BY <1>1, <1>3
  <2> QED BY <1>1, <2>3, <2>4, <2>5 DEF LongFinds
<1> QED BY <1>6, <1>7

\* The bursts that stay when the sequence is past its deadline.
LEMMA InsideIs ==
  ASSUME NEW s \in Fields, NEW P, P \subseteq Nat, NEW ts \in Nat, NEW t, t = NextBurst(s, P, ts)
  PROVE  /\ ts <= s.deadline_ts => /\ Inside(s, P, ts) = P
                                   /\ t.first_ts = s.first_ts /\ t.deadline_ts = s.deadline_ts
         /\ ts > s.deadline_ts => /\ Inside(s, P, ts) = {p \in P : p >= ts - LongDuration}
                                  /\ Inside(s, P, ts) = {} => t.first_ts = s.first_ts /\ t.deadline_ts = s.deadline_ts
                                  /\ Inside(s, P, ts) # {} => /\ t.first_ts = Least(Inside(s, P, ts))
                                                              /\ t.deadline_ts = t.first_ts + LongDuration
<1> DEFINE inside == Inside(s, P, ts)
           found  == ts > s.deadline_ts /\ inside # {}
           first  == IF found THEN Least(inside) ELSE s.first_ts
<1>1. s.deadline_ts \in Nat
  BY DEF Fields
<1>2. t.first_ts = first /\ t.deadline_ts = IF found THEN first + LongDuration ELSE s.deadline_ts
  BY DEF NextBurst
<1>3. inside = IF ts > s.deadline_ts THEN {p \in P : p >= ts - LongDuration} ELSE P
  BY DEF Inside
<1> HIDE DEF inside
<1>4. ASSUME ts <= s.deadline_ts
      PROVE  inside = P /\ t.first_ts = s.first_ts /\ t.deadline_ts = s.deadline_ts
  <2>1. ~(ts > s.deadline_ts)
    BY <1>1, <1>4
  <2> QED BY <1>2, <1>3, <2>1
<1>5. ASSUME ts > s.deadline_ts
      PROVE  /\ inside = {p \in P : p >= ts - LongDuration}
             /\ inside = {} => t.first_ts = s.first_ts /\ t.deadline_ts = s.deadline_ts
             /\ inside # {} => t.first_ts = Least(inside) /\ t.deadline_ts = t.first_ts + LongDuration
  BY <1>2, <1>3, <1>5
<1> QED BY <1>4, <1>5 DEF inside

\* A burst is counted, and the sequence begins with the first of its train when the second
\* has come.
LEMMA BegunFinds ==
  ASSUME NEW d, NEW H, H \subseteq Time, IsFiniteSet(H), DetectorInv(d, H), LongFinds(d, H),
         NEW s \in Fields, LongSequence(s, d, H),
         NEW ts \in Time, \A p \in H : p <= ts,
         NEW e, NEW t, Begun(d, s, ts, e, t)
  PROVE  LongFinds(e, H \cup {ts})
<1> DEFINE HT == H \cup {ts}
           inside == Inside(s, d.pulses, ts)
<1>1. /\ d.sequences = {s} /\ e.sequences = {t} /\ ts \in e.pulses
      /\ ts - s.last_ts > LongPriMax /\ t = NextBurst(s, d.pulses, ts)
      /\ ~(t.count > LongThresh /\ ts - t.first_ts > LongDuration \div 2)
  BY DEF Begun
<1>2. Time \subseteq Nat /\ ts \in Nat /\ H \subseteq Nat /\ d.pulses \subseteq H /\ d.pulses \subseteq Bursts(H) /\ d.pulses \subseteq Nat
  BY Times DEF DetectorInv, QueueInv, LongSequence
<1>3. s.last_ts \in H /\ s.last_ts \in Nat /\ (\A p \in H : p <= s.last_ts) /\ s.count \in Nat /\ s.first_ts \in Nat
      /\ s.deadline_ts \in Nat
  BY DEF LongSequence, Fields
<1>4. /\ LongDuration \in Nat /\ LongPriMax \in Nat /\ LongPriMax <= LongDuration /\ LongThresh \in Nat
      /\ LongDuration \div 2 \in Nat
  BY BurstsInWindow
<1>5. \A p \in H : p \in Nat /\ p < ts /\ ts - p > LongPriMax
  BY <1>1, <1>2, <1>3, <1>4
<1>6. ts \notin H
  <2>1. ~(ts < ts)
    BY <1>2
  <2> QED BY <1>5, <2>1
<1>7. /\ t \in Fields /\ Cardinality(inside) + 1 <= t.count
      /\ Cardinality(inside) \in Nat
      /\ inside = d.pulses => t.count = s.count + 1
  BY <1>1, NextBurstTypes
<1>8. /\ ts <= s.deadline_ts => inside = d.pulses /\ t.first_ts = s.first_ts /\ t.deadline_ts = s.deadline_ts
      /\ ts > s.deadline_ts => /\ inside = {p \in d.pulses : p >= ts - LongDuration}
                               /\ inside = {} => t.first_ts = s.first_ts /\ t.deadline_ts = s.deadline_ts
                               /\ inside # {} => t.first_ts = Least(inside) /\ t.deadline_ts = t.first_ts + LongDuration
  <2>1. s \in Fields /\ d.pulses \subseteq Nat /\ ts \in Nat /\ t = NextBurst(s, d.pulses, ts)
    BY <1>1, <1>2
  <2> QED BY ONLY <2>1, InsideIs
<1> HIDE DEF inside
<1>9. t.count \in Nat /\ t.first_ts \in Nat /\ t.deadline_ts \in Nat
  BY <1>7 DEF Fields
<1>10. PICK q \in H : s.deadline_ts <= q + LongDuration
  BY <1>1 DEF LongFinds
<1>11. inside \subseteq d.pulses /\ IsFiniteSet(inside)
  <2>1. inside \subseteq d.pulses
    BY DEF Inside, inside
  <2>2. IsFiniteSet(d.pulses)
    BY DEF DetectorInv, QueueInv
  <2> QED BY <2>1, <2>2, FS_Subset
<1>12. \E p \in HT : t.deadline_ts <= p + LongDuration
  <2>1. CASE ts <= s.deadline_ts \/ inside = {}
    <3>1. t.deadline_ts = s.deadline_ts
      BY <1>2, <1>3, <1>8, <2>1
    <3> QED BY <1>10, <3>1
  <2>2. CASE ts > s.deadline_ts /\ inside # {}
    <3>1. Least(inside) \in inside
      BY <1>2, <1>11, <2>2, LeastIs
    <3>2. t.first_ts \in H /\ t.deadline_ts = t.first_ts + LongDuration
      BY <1>2, <1>8, <1>11, <2>2, <3>1
    <3> QED BY <1>4, <1>9, <3>2
  <2> QED BY <1>2, <1>3, <2>1, <2>2
<1>13. /\ From(HT, ts) = {ts}
       /\ \A first \in H : /\ From(HT, first) = From(H, first) \cup {ts}
                           /\ From(H, first) \subseteq H /\ first \in From(H, first)
                           /\ IsFiniteSet(From(H, first)) /\ \A p \in From(H, first) : first <= p
       /\ \A first \in H : \A pause : Silence(HT, first, pause) => Silence(H, first, pause)
  BY <1>2, <1>6, OneMore
<1>14. ASSUME Silence(HT, ts, LongDuration)
       PROVE  CountsBursts(t, e.pulses, {ts}, ts)
  <2>1. \A p \in H : ts - p > LongDuration
    BY <1>5, <1>14 DEF Silence
  <2>2. s.deadline_ts < ts
    BY <1>2, <1>3, <1>4, <1>10, <2>1
  <2>3. inside = {}
    <3>1. \A p \in d.pulses : p \in Nat /\ ~(p >= ts - LongDuration)
      BY <1>2, <1>4, <2>1
    <3> QED BY <1>2, <1>3, <1>8, <2>2, <3>1
  <2>4. t.deadline_ts = s.deadline_ts
    BY <1>2, <1>3, <1>8, <2>2, <2>3
  <2>5. Bursts({ts}) = {ts} /\ Cardinality({ts}) = 1
    <3>1. ~(ts < ts)
      BY <1>2
    <3> QED BY <3>1, FS_Singleton DEF Bursts
  <2>6. t.count >= Cardinality(Bursts({ts}))
    BY <1>7, <1>9, <2>5
  <2>7. ~LongTrainDone({ts}, ts)
    <3>1. ~(ts - ts > LongDuration \div 2)
      BY <1>2, <1>4
    <3> QED BY <2>5, <3>1 DEF LongTrainDone
  <2> QED BY <1>1, <2>2, <2>4, <2>5, <2>6, <2>7 DEF CountsBursts
<1>15. ASSUME NEW first \in H, Silence(HT, first, LongDuration), LongTrain(From(HT, first), first)
       PROVE  CountsBursts(t, e.pulses, From(HT, first), first)
  <2> DEFINE T == From(H, first)
  <2>1. /\ From(HT, first) = T \cup {ts} /\ T \subseteq H /\ first \in T /\ IsFiniteSet(T)
        /\ Silence(H, first, LongDuration) /\ \A p \in T : first <= p
    BY <1>13, <1>15
  <2>2. CountsBursts(s, d.pulses, T, first) \/ ~LongTrain(T, first)
    BY <1>1, <2>1 DEF LongFinds
  <2> HIDE DEF T
  <2>3. T \subseteq Nat /\ first \in Nat /\ \A p \in T : p < ts /\ ts - p > LongPriMax
    BY <1>2, <1>5, <2>1
  <2>4. /\ Bursts(T \cup {ts}) = Bursts(T) \cup {ts} /\ ts \notin Bursts(T)
        /\ Cardinality(Bursts(T \cup {ts})) = Cardinality(Bursts(T)) + 1
        /\ Cardinality(Bursts(T)) \in Nat /\ Bursts(T) \subseteq T
    BY <1>2, <2>1, <2>3, OneMoreBurst
  <2>5. LongTrain(T \cup {ts}, first)
    BY <1>15, <2>1
  <2>6. CountsBursts(s, d.pulses, T, first)
    <3>1. LongTrain(T, first)
      BY <2>4, <2>5 DEF LongTrain
    <3> QED BY <2>2, <3>1
  <2>7. /\ s.count >= Cardinality(Bursts(T))
        /\ Bursts(T) = {first} => first \in d.pulses
        /\ \/ s.first_ts = first /\ s.deadline_ts = first + LongDuration
           \/ Bursts(T) = {first} /\ s.deadline_ts < first
    BY <2>6 DEF CountsBursts
  <2>8. ts - first <= LongDuration
    BY <2>5 DEF LongTrain
  <2>9. t.first_ts = first /\ t.deadline_ts = first + LongDuration /\ t.count >= Cardinality(Bursts(T)) + 1
    <3>1. CASE s.first_ts = first /\ s.deadline_ts = first + LongDuration
      <4>1. ts <= s.deadline_ts
        BY <1>2, <1>4, <2>3, <2>8, <3>1
      <4> QED BY <1>3, <1>7, <1>8, <2>4, <2>7, <3>1, <4>1
    <3>2. CASE Bursts(T) = {first} /\ s.deadline_ts < first
      <4>1. ts > s.deadline_ts /\ inside = {p \in d.pulses : p >= ts - LongDuration}
        <5>1. first < ts
          BY <2>1, <2>3
        <5>2. ts > s.deadline_ts
          BY <1>2, <1>3, <2>3, <3>2, <5>1
        <5> QED BY <1>8, <5>2
      <4>2. first \in inside
        <5>1. first >= ts - LongDuration
          BY <1>2, <1>4, <2>3, <2>8
        <5> QED BY <2>7, <3>2, <4>1, <5>1
      <4>3. ASSUME NEW p \in inside
            PROVE  first <= p
        <5>1. p \in H /\ p \in Nat /\ p >= ts - LongDuration /\ first < ts
          BY <1>2, <2>1, <2>3, <4>1
        <5>2. ~(first - p > LongDuration)
          BY <1>2, <1>4, <2>3, <5>1
        <5> QED BY <2>1, <2>3, <5>1, <5>2 DEF Silence
      <4>4. Least(inside) = first
        BY <1>2, <1>11, <4>2, <4>3, LeastUnique
      <4>5. Cardinality(inside) >= 1
        <5>1. Cardinality(inside) # 0
          BY <1>11, <4>2, FS_EmptySet
        <5> QED BY <1>7, <5>1
      <4>6. Cardinality(Bursts(T)) = 1
        BY <3>2, FS_Singleton
      <4>7. t.count >= 2
        BY <1>7, <1>9, <4>5
      <4>8. t.first_ts = first /\ t.deadline_ts = first + LongDuration
        BY <1>8, <4>1, <4>2, <4>4
      <4> QED BY <4>6, <4>7, <4>8
    <3> QED BY <2>7, <3>1, <3>2
  <2>10. Bursts(T \cup {ts}) # {first}
    <3>1. ts # first
      BY <1>6
    <3> QED BY <2>4, <3>1
  <2>11. ~LongTrainDone(T \cup {ts}, first)
    <3>1. SUFFICES ASSUME LongTrainDone(T \cup {ts}, first)
                   PROVE  FALSE
      OBVIOUS
    <3>2. PICK p \in Bursts(T \cup {ts}) : p - first > LongDuration \div 2
      BY <3>1 DEF LongTrainDone
    <3>3. Cardinality(Bursts(T)) + 1 > LongThresh
      BY <2>4, <3>1 DEF LongTrainDone
    <3>4. t.count > LongThresh
      BY <1>4, <1>9, <2>4, <2>9, <3>3
    <3>5. p \in Nat /\ p <= ts
      <4>1. CASE p \in T
        BY <1>2, <2>3, <4>1
      <4>2. CASE p = ts
        BY <1>2, <4>2
      <4> QED BY <2>4, <3>2, <4>1, <4>2
    <3>6. ts - first > LongDuration \div 2
      BY <1>2, <1>4, <2>3, <3>2, <3>5
    <3> QED BY <1>1, <2>9, <3>4, <3>6
  <2>12. t.count >= Cardinality(Bursts(T \cup {ts}))
    BY <2>4, <2>9
  <2> QED BY <2>1, <2>9, <2>10, <2>11, <2>12 DEF CountsBursts
<1>16. ASSUME NEW first \in HT, Silence(HT, first, LongDuration), LongTrain(From(HT, first), first)
       PROVE  CountsBursts(t, e.pulses, From(HT, first), first)
  <2>1. CASE first = ts
    BY <1>13, <1>14, <1>16, <2>1
  <2>2. CASE first \in H
    BY <1>15, <1>16, <2>2
  <2> QED BY <2>1, <2>2
<1> HIDE DEF HT
<1>17. LongFinds(e, HT)
  BY <1>1, <1>12, <1>16 DEF LongFinds
<1> QED BY <1>17 DEF HT

-----------------------------------------------------------------------------
(* Every step keeps the invariant.                                         *)

\* A detector that has heard nothing has found all there was.
LEMMA NothingHeard ==
  ASSUME NEW d, d.pulses = {}, d.sequences = {}
  PROVE  Finds(d, {})
BY DEF Finds, ShortFinds, LongFinds

\* The detector of long pulses, whatever pulse comes.
LEMMA LongFindsMore ==
  ASSUME NEW d, NEW H, H \subseteq Time, IsFiniteSet(H), DetectorInv(d, H), d.rs = LongInit, LongFinds(d, H),
         NEW ts \in Time, \A p \in H : p <= ts, ~LongAddPulse(d, ts).hit,
         NEW e, e = LongAddPulse(d, ts).pde
  PROVE  LongFinds(e, H \cup {ts})
<1>1. ts \in Nat /\ H \subseteq Nat
  BY Times
<1>2. CASE H = {} /\ e.sequences = {FirstBurst(ts)} /\ ts \in e.pulses
  <2>1. LongFinds(e, {ts})
    BY <1>1, <1>2, FirstLongPulse
  <2>2. H \cup {ts} = {ts}
    BY <1>2
  <2> QED BY <2>1, <2>2
<1>3. ASSUME NEW s \in Fields, NEW t, LongSequence(s, d, H), Moved(d, s, ts, e, t)
      PROVE  LongFinds(e, H \cup {ts})
  BY <1>1, <1>3, MovedFinds
<1>4. ASSUME NEW s \in Fields, NEW t, LongSequence(s, d, H), Begun(d, s, ts, e, t)
      PROVE  LongFinds(e, H \cup {ts})
  BY <1>4, BegunFinds
<1> QED BY <1>2, <1>3, <1>4, LongOutcome

\* A pulse that a detector hears: one of short pulses ignores what it has heard already.
LEMMA HearFinds ==
  ASSUME NEW d, NEW H, H \subseteq Time, IsFiniteSet(H), DetectorInv(d, H), Finds(d, H),
         NEW ts \in Time, \A p \in H : p <= ts, d.rs = ShortInit => ts \notin H, Hear(d, H, ts)
  PROVE  Finds(pde', heard')
<1> DEFINE r == AddPulse(d, ts)
<1>1. /\ pde' = IF r.hit THEN Reset(r.pde, ts) ELSE r.pde
      /\ heard' = IF r.hit THEN {} ELSE H \cup {ts}
  BY DEF Hear
<1>2. ~r.hit => r.pde.rs = d.rs
  BY AddPulseKeeps
<1>3. d.rs \in {ShortInit, LongInit} /\ ShortInit # LongInit
  BY Times DEF DetectorInv, QueueInv
<1>4. ASSUME d.rs = ShortInit, ~r.hit
      PROVE  ShortFinds(r.pde, H \cup {ts})
  <2>1. r = ShortAddPulse(d, ts)
    BY <1>4, Inits DEF AddPulse
  <2>2. \A p \in H : p < ts
    <3>1. \A p \in H : p \in Nat /\ ts \in Nat /\ p <= ts /\ p # ts
      BY <1>4, Times
    <3> QED BY <3>1
  <2>3. ShortFinds(d, H) /\ ~ShortAddPulse(d, ts).hit
    BY <1>4, <2>1 DEF Finds
  <2> HIDE DEF r
  <2>4. ShortFinds(ShortAddPulse(d, ts).pde, H \cup {ts})
    BY <1>4, <2>2, <2>3, ShortFindsMore
  <2> QED BY <2>1, <2>4
<1>5. ASSUME d.rs = LongInit, ~r.hit
      PROVE  LongFinds(r.pde, H \cup {ts})
  <2>1. r = LongAddPulse(d, ts)
    BY <1>5, Inits DEF AddPulse
  <2>2. LongFinds(d, H) /\ ~LongAddPulse(d, ts).hit
    BY <1>5, <2>1 DEF Finds
  <2> HIDE DEF r
  <2>3. LongFinds(LongAddPulse(d, ts).pde, H \cup {ts})
    BY <1>5, <2>2, LongFindsMore
  <2> QED BY <2>1, <2>3
<1> HIDE DEF r
<1>6. CASE r.hit
  <2>1. pde' = [rs |-> r.pde.rs, pulses |-> {}, sequences |-> {}, last_ts |-> ts] /\ heard' = {}
    BY <1>1, <1>6 DEF Reset
  <2>2. pde'.pulses = {} /\ pde'.sequences = {}
    BY <2>1
  <2>3. Finds(pde', {})
    BY <2>2, NothingHeard
  <2> QED BY <2>1, <2>3
<1>7. CASE ~r.hit
  <2>1. pde' = r.pde /\ heard' = H \cup {ts}
    BY <1>1, <1>7
  <2>2. Finds(r.pde, H \cup {ts})
    BY <1>2, <1>4, <1>5, <1>7 DEF Finds
  <2> QED BY <2>1, <2>2
<1> QED BY <1>6, <1>7

\* The invariant holds before the first pulse.
LEMMA FindsInitial == Init => FInv
<1> SUFFICES ASSUME Init
             PROVE  FInv
  OBVIOUS
<1>1. DInv
  BY DetectorInitial
<1>2. pde = [rs |-> ShortInit, pulses |-> {}, sequences |-> {}, last_ts |-> 0] /\ heard = {}
  BY DEF Init, NewDetector
<1>3. pde.pulses = {} /\ pde.sequences = {}
  BY <1>2
<1>4. Finds(pde, heard)
  BY <1>2, <1>3, NothingHeard
<1> QED BY <1>1, <1>4 DEF FInv

\* Every pulse, pause and reset keeps the invariant.
LEMMA FindsStep == FInv /\ [Next]_vars => FInv'
<1> SUFFICES ASSUME FInv, [Next]_vars
             PROVE  FInv'
  OBVIOUS
<1>1. DInv /\ DInv' /\ Finds(pde, heard)
  BY DetectorStep DEF FInv
<1>2. /\ last_pulse_ts \in Time /\ heard \subseteq Time /\ IsFiniteSet(heard)
      /\ (\A p \in heard : p <= last_pulse_ts) /\ DetectorInv(pde, heard)
      /\ pde.rs \in {ShortInit, LongInit}
  BY <1>1 DEF DInv, TimeInv, DetectorInv, QueueInv
<1>3. SUFFICES Finds(pde', heard')
  BY <1>1 DEF FInv
<1>4. CASE SetDomain
  <2>1. CASE region'
    <3>1. heard' = {}
      BY <1>4, <2>1 DEF SetDomain
    <3>2. PICK i \in {ShortInit, LongInit} : pde' = NewDetector(i)
      BY <1>4, <2>1 DEF SetDomain
    <3>3. pde'.pulses = {} /\ pde'.sequences = {}
      BY <3>2 DEF NewDetector
    <3>4. Finds(pde', {})
      BY <3>3, NothingHeard
    <3> QED BY <3>1, <3>4
  <2>2. CASE ~region'
    <3>1. pde' = pde /\ heard' = heard
      BY <1>4, <2>2 DEF SetDomain
    <3> QED BY <1>1, <3>1
  <2> QED BY <2>1, <2>2
<1>5. CASE UNCHANGED vars
  <2>1. pde' = pde /\ heard' = heard
    BY <1>5 DEF vars
  <2> QED BY <1>1, <2>1
<1>6. ASSUME NEW d \in Distances[Waveform], Pulse(d) \/ PulseAfterPause(d)
      PROVE  Finds(pde', heard')
  <2> DEFINE ts == last_pulse_ts + d
  <2>1. d \in Nat /\ ts <= MaxTs[Waveform] /\ Waveform \in {"short", "long"}
    <3>1. Waveform \in {"short", "long"}
      BY <1>2, Inits DEF Waveform
    <3>2. d \in Nat
      BY <1>6, <3>1, SpecAssumption
    <3>3. ts <= MaxTs[Waveform]
      BY <1>6 DEF Pulse, PulseAfterPause
    <3> QED BY <3>1, <3>2, <3>3
  <2>2. /\ ts \in Time /\ (\A p \in heard : p <= ts) /\ (d # 0 => ts \notin heard)
    <3>1. last_pulse_ts \in Nat /\ ts \in Nat /\ last_pulse_ts <= ts /\ (d # 0 => last_pulse_ts < ts)
      BY <1>2, <2>1, Times
    <3>2. MaxTs["short"] \in Nat /\ MaxTs["long"] \in Nat
      BY SpecAssumption
    <3>3. ts \in Time
      BY <2>1, <3>1, <3>2 DEF Time
    <3>4. \A p \in heard : p \in Nat /\ p <= last_pulse_ts
      BY <1>2, Times
    <3> HIDE DEF ts
    <3>5. \A p \in heard : p <= ts
      BY <3>1, <3>4
    <3>6. d # 0 => ts \notin heard
      <4>1. SUFFICES ASSUME d # 0, ts \in heard
                     PROVE  FALSE
        OBVIOUS
      <4>2. ts <= last_pulse_ts /\ last_pulse_ts < ts
        BY <3>1, <3>4, <4>1
      <4> QED BY <3>1, <4>2
    <3> QED BY <3>3, <3>5, <3>6
  <2>3. CASE Hear(pde, heard, ts) /\ (d # 0 \/ Waveform # "short")
    <3>1. pde.rs = ShortInit => ts \notin heard
      <4>1. pde.rs = ShortInit => Waveform = "short"
        BY Inits DEF Waveform
      <4> QED BY <2>2, <2>3, <4>1
    <3> HIDE DEF ts
    <3> QED BY <1>1, <1>2, <2>2, <2>3, <3>1, HearFinds
  <2>4. CASE Hear(Reset(pde, ts), {}, ts)
    <3> HIDE DEF ts
    <3> DEFINE n == Reset(pde, ts)
    <3>1. n = [rs |-> pde.rs, pulses |-> {}, sequences |-> {}, last_ts |-> ts]
      BY DEF Reset
    <3>0. Hear(n, {}, ts)
      BY <2>4
    <3> HIDE DEF n
    <3>2. n.rs = pde.rs /\ n.pulses = {} /\ n.sequences = {} /\ n.last_ts = ts /\ IsDetector(n, n.rs)
      BY <3>1 DEF IsDetector
    <3>3. DetectorInv(n, {})
      BY <1>2, <2>2, <3>2, Unheard
    <3>4. Finds(n, {})
      BY <3>2, NothingHeard
    <3>5. {} \subseteq Time /\ IsFiniteSet({}) /\ ts \notin {} /\ \A p \in {} : p <= ts
      BY FS_EmptySet
    <3> QED BY <2>2, <3>0, <3>3, <3>4, <3>5, HearFinds
  <2>5. \/ Hear(pde, heard, ts) /\ (d # 0 \/ Waveform # "short")
        \/ Hear(Reset(pde, ts), {}, ts)
    <3>1. CASE Pulse(d)
      BY <3>1 DEF Pulse
    <3>2. CASE PulseAfterPause(d)
      BY <3>2 DEF PulseAfterPause
    <3> QED BY <1>6, <3>1, <3>2
  <2> QED BY <2>3, <2>4, <2>5
<1>7. CASE PulseUnset
  BY <1>5, <1>7 DEF PulseUnset
<1> QED BY <1>4, <1>5, <1>6, <1>7 DEF Next

-----------------------------------------------------------------------------
(* The theorem.                                                            *)

\* A radar that comes after a silence is never missed: no noise leaves the detector in
\* a state in which a train of pulses would reach the threshold and not be reported,
\* whatever the type's intervals and thresholds.
THEOREM RadarsAfterSilenceAreFound == Spec => []NoRadarMissed
<1>1. FInv => NoRadarMissed
  <2> SUFFICES ASSUME FInv, NEW first \in heard
               PROVE  LET T == From(heard, first)
                      IN  IF Waveform = "short"
                          THEN Silence(heard, first, Duration(PriMax)) =>
                                 \A pri \in PriMin..PriMax : ShortTrain(T, first, pri) => Cardinality(T) < PpbThresh[pri]
                          ELSE Silence(heard, first, LongDuration) /\ LongTrain(T, first) => ~LongTrainDone(T, first)
    BY DEF NoRadarMissed
  <2>1. DetectorInv(pde, heard) /\ Finds(pde, heard) /\ pde.rs \in {ShortInit, LongInit} /\ ShortInit # LongInit
    BY Times DEF FInv, DInv, DetectorInv, QueueInv
  <2>2. CASE pde.rs = ShortInit
    <3>1. Waveform = "short" /\ ShortFinds(pde, heard)
      BY <2>1, <2>2, Inits DEF Waveform, Finds
    <3>2. ASSUME Silence(heard, first, Duration(PriMax)),
                 NEW pri \in PriMin..PriMax, ShortTrain(From(heard, first), first, pri)
          PROVE  Cardinality(From(heard, first)) < PpbThresh[pri]
      <4>1. Tracked(pde, From(heard, first), first, pri)
        BY <3>1, <3>2 DEF ShortFinds
      <4> QED BY <4>1 DEF Tracked
    <3> QED BY <3>1, <3>2
  <2>3. CASE pde.rs = LongInit
    <3>1. Waveform # "short" /\ LongFinds(pde, heard)
      BY <2>1, <2>3, Inits DEF Waveform, Finds
    <3>2. ASSUME Silence(heard, first, LongDuration), LongTrain(From(heard, first), first)
          PROVE  ~LongTrainDone(From(heard, first), first)
      <4>1. PICK s \in Fields : pde.sequences = {s}
        BY <2>1, <2>3 DEF DetectorInv
      <4>2. CountsBursts(s, pde.pulses, From(heard, first), first)
        BY <3>1, <3>2, <4>1 DEF LongFinds
      <4> QED BY <4>2 DEF CountsBursts
    <3> QED BY <3>1, <3>2
  <2> QED BY <2>1, <2>2, <2>3
<1>2. Spec => []FInv
  BY FindsInitial, FindsStep, PTL DEF Spec
<1> QED BY <1>1, <1>2, PTL
=============================================================================
