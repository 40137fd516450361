-------------------------- MODULE RsDetector_proofs --------------------------
(***************************************************************************)
(* Proofs about RsDetector, for any radar type, any thresholds and any     *)
(* series of pulses.                                                       *)
(***************************************************************************)
EXTENDS RsDetector, FiniteSetTheorems, WellFoundedInduction, TLAPS

-----------------------------------------------------------------------------
(* The invariant, in terms of a detector d that has heard the pulses H.    *)

\* A sequence of any waveform.
Fields == [pri : Nat, count : Nat, falses : Nat, dur : Nat, first_ts : Nat, last_ts : Nat, deadline_ts : Nat]

IsDetector(d, rs) == d = [rs |-> rs, pulses |-> d.pulses, sequences |-> d.sequences, last_ts |-> d.last_ts]

\* The queue holds pulses that were heard, not too many and none too old; there are no
\* sequences without it.
QueueInv(d, H) ==
  /\ d \in [rs : {ShortInit, LongInit}, pulses : SUBSET Nat, sequences : SUBSET Fields, last_ts : Time]
  /\ d.pulses \subseteq H
  /\ IsFiniteSet(d.pulses) /\ Cardinality(d.pulses) < d.rs.max_count
  /\ \A p \in d.pulses : p <= d.last_ts /\ p + d.rs.window_size >= d.last_ts
  /\ d.pulses = {} => d.sequences = {}

\* The pulses that match the interval of s before p, back to the first of s.
Matching(s, p, H) == {q \in H : s.first_ts <= q /\ q < p /\ Fits(p - q, s.pri)}

\* s was created by the pulse p and continued by those after it.
MadeOf(s, p, after, H) ==
  /\ p - s.pri \in Matching(s, p, H)
  /\ \A q \in after : p < q /\ q <= s.last_ts
  /\ s.last_ts \in after \cup {p}
  /\ Chain(after \cup {p}, s.pri)
  /\ s.count <= Cardinality(Matching(s, p, H) \cup {p} \cup after)

\* A sequence of short pulses.
ShortSequence(s, H) ==
  /\ s.pri \in PriMin..PriMax
  /\ s.first_ts \in H /\ s.last_ts \in H
  /\ s.deadline_ts = s.first_ts + Duration(s.pri) /\ s.last_ts <= s.deadline_ts
  /\ \E p \in H, after \in SUBSET H : MadeOf(s, p, after, H)

\* The sequence of long pulses: it counts bursts, those in the queue among them.
LongSequence(s, d, H) ==
  /\ s.pri = 0
  /\ s.first_ts \in Bursts(H) /\ s.last_ts \in H
  /\ \A p \in H : p <= s.last_ts
  /\ d.pulses \subseteq Bursts(H)
  /\ Cardinality(d.pulses) <= s.count /\ s.count <= Cardinality(Bursts(H))

DetectorInv(d, H) ==
  /\ QueueInv(d, H)
  /\ d.rs = ShortInit => \A s \in d.sequences : s.last_ts <= d.last_ts /\ ShortSequence(s, H)
  /\ d.rs = LongInit  => \/ d.sequences = {} /\ H = {}
                         \/ \E s \in Fields : d.sequences = {s} /\ LongSequence(s, d, H)

\* Nothing was heard in the future.
TimeInv ==
  /\ region \in BOOLEAN /\ last_pulse_ts \in Time
  /\ heard \subseteq Time /\ IsFiniteSet(heard)
  /\ \A p \in heard : p <= last_pulse_ts

DInv == TimeInv /\ DetectorInv(pde, heard) /\ RadarsAreGenuine

-----------------------------------------------------------------------------
(* Sets of times.                                                          *)

\* A set of naturals has a least element, and Least names it.
LEMMA LeastIs ==
  ASSUME NEW S, S \subseteq Nat, S # {}
  PROVE  Least(S) \in S /\ \A y \in S : Least(S) <= y
<1> DEFINE T == {0..x : x \in S}
<1>1. T \subseteq FiniteSubsetsOf(Nat) /\ T # {}
  <2>1. ASSUME NEW x \in S
        PROVE  0..x \in FiniteSubsetsOf(Nat)
    BY FS_Interval DEF FiniteSubsetsOf
  <2> QED BY <2>1
<1>2. IsWellFoundedOn(StrictSubsetOrdering(Nat), FiniteSubsetsOf(Nat))
  BY FS_StrictSubsetOrderingWellFounded
<1>3. PICK t \in T : \A u \in T : <<u, t>> \notin StrictSubsetOrdering(Nat)
  BY <1>1, <1>2, WFMin
<1>4. PICK x \in S : t = 0..x
  OBVIOUS
<1>5. ASSUME NEW y \in S, y < x
      PROVE  FALSE
  <2>1. 0..y \subseteq 0..x /\ x \in 0..x /\ x \notin 0..y
    BY <1>5
  <2>2. <<0..y, 0..x>> \in StrictSubsetOrdering(Nat)
    BY <2>1 DEF StrictSubsetOrdering
  <2> QED BY <1>3, <1>4, <2>2
<1>6. \A y \in S : x <= y
  BY <1>5
<1> QED BY <1>6 DEF Least

\* The least of a set of numbers is the one that no other is below.
LEMMA LeastUnique ==
  ASSUME NEW S, S \subseteq Nat, NEW x \in S, \A y \in S : x <= y
  PROVE  Least(S) = x
<1>1. Least(S) \in S /\ Least(S) <= x
  BY LeastIs
<1>2. Least(S) \in Nat /\ x \in Nat /\ x <= Least(S)
  BY <1>1
<1> QED BY <1>1, <1>2

\* The finite sets of naturals: how many elements a set has that gains or loses one.
LEMMA CardAdd ==
  ASSUME NEW S, NEW x, IsFiniteSet(S), x \notin S
  PROVE  IsFiniteSet(S \cup {x}) /\ Cardinality(S) \in Nat /\ Cardinality(S \cup {x}) = Cardinality(S) + 1
BY FS_AddElement, FS_CardinalityType

\* A part of a finite set is finite, and no larger.
LEMMA CardSubset ==
  ASSUME NEW S, IsFiniteSet(S), NEW T, T \subseteq S
  PROVE  IsFiniteSet(T) /\ Cardinality(T) \in Nat /\ Cardinality(S) \in Nat /\ Cardinality(T) <= Cardinality(S)
BY FS_Subset, FS_CardinalityType

\* A part of a finite set and the rest count as many as the whole.
LEMMA CardDifference ==
  ASSUME NEW S, IsFiniteSet(S), NEW T, T \subseteq S
  PROVE  Cardinality(S) = Cardinality(T) + Cardinality(S \ T)
<1>1. IsFiniteSet(T) /\ IsFiniteSet(S \ T) /\ Cardinality(T) \in Nat /\ Cardinality(S \ T) \in Nat
  BY CardSubset
<1>2. T \cup (S \ T) = S /\ T \cap (S \ T) = {}
  OBVIOUS
<1>3. Cardinality(S) = Cardinality(T) + Cardinality(S \ T) - Cardinality({})
  BY <1>1, <1>2, FS_Union
<1> QED BY <1>1, <1>3, FS_EmptySet

-----------------------------------------------------------------------------
(* The queue.                                                              *)

\* What the two kinds of detectors are set up with.
LEMMA Inits ==
  /\ \A i \in {ShortInit, LongInit} : i.max_count \in Nat \ {0, 1} /\ i.window_size \in Nat
  /\ ShortInit.waveform = "short" /\ LongInit.waveform = "long" /\ LongInit.window_size = LongDuration
  /\ LongInit.max_count = LongMaxBurst
<1>1. Ppb * 2 \in Nat \ {0, 1} /\ PriMax * Ppb \in Nat
  BY SpecAssumption
<1>2. PriMax * Ppb * NumPri \in Nat
  BY <1>1, SpecAssumption
<1> QED BY <1>1, <1>2, SpecAssumption DEF ShortInit, LongInit

\* Times are numbers, and the two kinds of detectors differ.
LEMMA Times == Time \subseteq Nat /\ ShortInit # LongInit
<1>1. Time \subseteq Nat
  BY SpecAssumption DEF Time
<1>2. ShortInit # LongInit
  BY Inits
<1> QED BY <1>1, <1>2

\* The oldest pulse leaves a queue that is full.
LEMMA WithoutOldest ==
  ASSUME NEW K, K \subseteq Nat, IsFiniteSet(K), NEW max \in Nat \ {0, 1}, Cardinality(K) <= max, K # {},
         NEW K2, K2 = IF Cardinality(K) >= max THEN K \ {Least(K)} ELSE K
  PROVE  K2 \subseteq K /\ K2 # {} /\ IsFiniteSet(K2) /\ Cardinality(K2) < max /\ Cardinality(K2) <= Cardinality(K)
<1>1. Cardinality(K) \in Nat
  BY FS_CardinalityType
<1>2. CASE Cardinality(K) >= max
  <2>1. Least(K) \in K
    BY LeastIs
  <2>2. IsFiniteSet(K2) /\ Cardinality(K2) = Cardinality(K) - 1
    BY <1>2, <2>1, FS_RemoveElement
  <2>3. K2 # {}
    BY <1>1, <1>2, <2>2, FS_EmptySet
  <2> QED BY <1>1, <1>2, <2>2, <2>3
<1>3. CASE ~(Cardinality(K) >= max)
  BY <1>1, <1>3
<1> QED BY <1>2, <1>3

\* net_pulse_queue_enqueue keeps the newest pulses of the window.
LEMMA EnqueueKeeps ==
  ASSUME NEW d, d \in [rs : {ShortInit, LongInit}, pulses : SUBSET Nat, sequences : SUBSET Fields, last_ts : Time],
         IsFiniteSet(d.pulses), Cardinality(d.pulses) < d.rs.max_count,
         NEW ts \in Nat, \A p \in d.pulses : p <= ts
  PROVE  LET e == Enqueue(d, ts)
         IN  /\ e = [rs |-> d.rs, pulses |-> e.pulses, sequences |-> d.sequences, last_ts |-> ts]
             /\ e.pulses \subseteq d.pulses \cup {ts} /\ e.pulses # {}
             /\ IsFiniteSet(e.pulses) /\ Cardinality(e.pulses) < d.rs.max_count
             /\ Cardinality(e.pulses) <= Cardinality(d.pulses) + 1
             /\ \A p \in e.pulses : p <= ts /\ p + d.rs.window_size >= ts
<1> DEFINE all  == d.pulses \cup {ts}
           kept == CheckWindow([d EXCEPT !.last_ts = ts], all)
           e    == Enqueue(d, ts)
<1>1. d.rs.max_count \in Nat \ {0, 1} /\ d.rs.window_size \in Nat
  BY Inits
<1>2. /\ IsFiniteSet(all) /\ Cardinality(all) \in Nat /\ Cardinality(d.pulses) \in Nat
      /\ Cardinality(all) <= Cardinality(d.pulses) + 1
  <2>1. IsFiniteSet(all) /\ Cardinality(d.pulses) \in Nat
    BY FS_AddElement, FS_CardinalityType
  <2>2. Cardinality(all) = IF ts \in d.pulses THEN Cardinality(d.pulses) ELSE Cardinality(d.pulses) + 1
    BY FS_AddElement
  <2> QED BY <2>1, <2>2
<1>3. kept = IF Cardinality(all) < 2 \/ ts <= d.rs.window_size THEN all
             ELSE {p \in all : p >= ts - d.rs.window_size}
  BY DEF CheckWindow
<1>4. /\ e = [rs |-> d.rs, pulses |-> e.pulses, sequences |-> d.sequences, last_ts |-> ts]
      /\ e.pulses = IF Cardinality(kept) >= d.rs.max_count THEN kept \ {Least(kept)} ELSE kept
  <2>1. e = [d EXCEPT !.last_ts = ts,
                      !.pulses = IF Cardinality(kept) >= d.rs.max_count THEN kept \ {Least(kept)} ELSE kept]
    BY DEF Enqueue
  <2> HIDE DEF kept, e
  <2> QED BY <2>1
<1>5. ts \in all /\ all \subseteq d.pulses \cup {ts} /\ all \subseteq Nat /\ \A p \in all : p <= ts
  OBVIOUS
<1> HIDE DEF all, kept, e
<1>6. kept \subseteq all /\ ts \in kept
  BY <1>1, <1>3, <1>5
<1>7. \A p \in kept : p + d.rs.window_size >= ts
  <2>1. CASE Cardinality(all) < 2
    <3>1. Cardinality(all) = 1
      BY <1>2, <1>5, <2>1, FS_EmptySet
    <3>2. all = {ts}
      BY <1>2, <1>5, <3>1, FS_Singleton
    <3> QED BY <1>1, <1>6, <3>2
  <2>2. CASE ~(Cardinality(all) < 2)
    <3>1. CASE ts <= d.rs.window_size
      BY <1>1, <1>5, <1>6, <3>1
    <3>2. CASE ~(ts <= d.rs.window_size)
      BY <1>1, <1>3, <1>5, <2>2, <3>2
    <3> QED BY <3>1, <3>2
  <2> QED BY <2>1, <2>2
<1>8. IsFiniteSet(kept) /\ Cardinality(kept) \in Nat /\ Cardinality(kept) <= Cardinality(all) /\ kept \subseteq Nat
  BY <1>2, <1>5, <1>6, CardSubset
<1>9. Cardinality(kept) <= d.rs.max_count /\ kept # {}
  BY <1>1, <1>2, <1>6, <1>8
<1>10. /\ e.pulses \subseteq kept /\ e.pulses # {} /\ IsFiniteSet(e.pulses)
       /\ Cardinality(e.pulses) < d.rs.max_count /\ Cardinality(e.pulses) <= Cardinality(kept)
  BY <1>1, <1>4, <1>8, <1>9, WithoutOldest
<1>11. Cardinality(e.pulses) <= Cardinality(d.pulses) + 1
  BY <1>2, <1>8, <1>10, FS_CardinalityType
<1> QED BY <1>4, <1>5, <1>6, <1>7, <1>10, <1>11 DEF e
-----------------------------------------------------------------------------
(* Sequences of short pulses.                                              *)

\* The intervals of a radar are positive, no longer than its burst, and fit themselves.
LEMMA Intervals ==
  ASSUME NEW pri \in PriMin..PriMax
  PROVE  pri \in Nat \ {0} /\ Duration(pri) \in Nat /\ pri <= Duration(pri) /\ Fits(pri, pri)
<1>1. pri \in Nat \ {0} /\ Tolerance \in Nat \ {0} /\ Ppb - 1 \in Nat \ {0} /\ Ppb - 2 \in Nat /\ Ppb \in Nat
  BY SpecAssumption
<1>2. pri * (Ppb - 1) \in Nat /\ pri <= pri * (Ppb - 1)
  <2>1. \A m \in Nat : pri * m \in Nat /\ pri * (m + 1) = pri * m + pri
    BY <1>1
  <2>2. Ppb - 1 = (Ppb - 2) + 1
    BY <1>1
  <2> QED BY <1>1, <2>1, <2>2
<1>3. Fits(pri, pri)
  <2>1. pri # 0 /\ pri - pri \in -Tolerance..Tolerance
    BY <1>1
  <2>2. Multiple(pri, pri) = 1
    BY <2>1 DEF Multiple
  <2> QED BY <2>2 DEF Fits
<1> QED BY <1>1, <1>2, <1>3 DEF Duration

\* What a new sequence is made of: queued pulses at multiples of its interval before
\* the pulse that makes it, no further back than a burst takes.
NewSequence(s, P, p, ts) ==
  /\ s \in Fields /\ s.pri = ts - p /\ s.last_ts = ts /\ s.first_ts \in P
  /\ s.deadline_ts = s.first_ts + Duration(s.pri) /\ ts <= s.deadline_ts
  /\ \E M \in SUBSET P :
       /\ p \in M /\ s.count = Cardinality(M) + 1
       /\ \A q \in M : s.first_ts <= q /\ q < ts /\ Fits(ts - q, s.pri)

\* The sequence built from a pulse and an earlier one is made of heard pulses at multiples of
\* their distance.
LEMMA SequenceOfMakes ==
  ASSUME NEW P, P \subseteq Nat, IsFiniteSet(P), NEW p \in P, NEW ts \in Nat, ts - p \in PriMin..PriMax,
         NEW s, s = SequenceOf(P, p, ts)
  PROVE  NewSequence(s, P, p, ts)
<1> DEFINE pri   == ts - p
           older == {q \in P : q < p /\ q >= ts - Duration(pri)}
           match == {q \in older : Fits(ts - q, pri)}
           first == Least(match \cup {p})
           f1    == {q \in P : q > p}
           f2    == {q \in older \ match : q > first}
<1>1. pri \in Nat \ {0} /\ Duration(pri) \in Nat /\ pri <= Duration(pri) /\ Fits(pri, pri)
  BY Intervals
<1>2. s = [pri |-> pri, count |-> 2 + Cardinality(match), first_ts |-> first, last_ts |-> ts, dur |-> 0,
           deadline_ts |-> first + Duration(pri), falses |-> Cardinality(f1) + Cardinality(f2)]
  BY DEF SequenceOf
<1>3. f1 \subseteq P /\ f2 \subseteq P /\ match \subseteq P /\ match \cup {p} \subseteq P
  OBVIOUS
<1>4. \A q \in match \cup {p} : q < ts /\ Fits(ts - q, pri) /\ q + Duration(pri) >= ts
  <2>1. \A q \in match : q < p /\ q >= ts - Duration(pri) /\ Fits(ts - q, pri) /\ q \in Nat
    OBVIOUS
  <2>2. p < ts /\ p + Duration(pri) >= ts /\ Fits(ts - p, pri)
    BY <1>1
  <2> HIDE DEF match
  <2> QED BY <1>1, <2>1, <2>2
<1>5. p \notin match
  OBVIOUS
<1>6. Cardinality(f1) \in Nat /\ Cardinality(f2) \in Nat
  <2> HIDE DEF f1, f2
  <2> QED BY <1>3, CardSubset
<1> HIDE DEF match, first, f1, f2, pri
<1>7. Cardinality(match) \in Nat /\ Cardinality(match \cup {p}) = Cardinality(match) + 1
  BY <1>3, <1>5, CardAdd, CardSubset
<1>8. first \in match \cup {p} /\ \A q \in match \cup {p} : first <= q
  BY <1>3, LeastIs DEF first
<1>9. first \in P /\ first \in Nat /\ ts <= first + Duration(pri)
  BY <1>1, <1>3, <1>4, <1>8
<1>10. s \in Fields
  BY <1>1, <1>2, <1>6, <1>7, <1>9 DEF Fields
<1>11. s.count = Cardinality(match \cup {p}) + 1
  BY <1>2, <1>7
<1>12. /\ s.pri = pri /\ s.last_ts = ts /\ s.first_ts = first
       /\ s.deadline_ts = first + Duration(pri)
  BY <1>2
<1> QED BY <1>3, <1>4, <1>8, <1>9, <1>10, <1>11, <1>12 DEF pri, NewSequence

\* A sequence that a pulse makes is one of pulses that were heard.
LEMMA CreatedSequence ==
  ASSUME NEW P, NEW H, H \subseteq Nat, IsFiniteSet(H), P \subseteq H, NEW ts \in Nat, NEW m,
         NEW s \in CreateSequences(P, ts, m)
  PROVE  s \in Fields /\ s.last_ts = ts /\ ShortSequence(s, H \cup {ts})
<1> DEFINE HT == H \cup {ts}
<1>1. PICK p \in P : ts - p \in PriMin..PriMax /\ s = SequenceOf(P, p, ts)
  BY DEF CreateSequences
<1>2. P \subseteq Nat /\ IsFiniteSet(P)
  BY FS_Subset
<1>a. NewSequence(s, P, p, ts)
  BY <1>1, <1>2, SequenceOfMakes
<1>3. /\ s \in Fields /\ s.pri = ts - p /\ s.last_ts = ts /\ s.first_ts \in P
      /\ s.deadline_ts = s.first_ts + Duration(s.pri) /\ ts <= s.deadline_ts
  BY <1>a DEF NewSequence
<1>4. PICK M \in SUBSET P :
           /\ p \in M /\ s.count = Cardinality(M) + 1
           /\ \A q \in M : s.first_ts <= q /\ q < ts /\ Fits(ts - q, s.pri)
  BY <1>a DEF NewSequence
<1>5. MadeOf(s, ts, {}, HT)
  <2>1. ts - s.pri = p /\ ts - p = s.pri
    BY <1>2, <1>3
  <2>2. M \subseteq Matching(s, ts, HT)
    BY <1>4 DEF Matching
  <2>3. ts - s.pri \in Matching(s, ts, HT)
    BY <1>4, <2>1, <2>2
  <2>4. Chain({} \cup {ts}, s.pri)
    <3>1. Least({ts}) = ts
      BY LeastUnique
    <3>2. {} \cup {ts} = {ts}
      OBVIOUS
    <3> QED BY <3>1, <3>2 DEF Chain
  <2>5. s.count <= Cardinality(Matching(s, ts, HT) \cup {ts} \cup {})
    <3>1. IsFiniteSet(HT) /\ IsFiniteSet(M)
      BY <1>4, FS_AddElement, FS_Subset
    <3>2. ts \notin M
      BY <1>4
    <3>3. Cardinality(M \cup {ts}) = Cardinality(M) + 1 /\ Cardinality(M) \in Nat
      BY <3>1, <3>2, CardAdd
    <3>4. M \cup {ts} \subseteq Matching(s, ts, HT) \cup {ts} \cup {}
      BY <2>2
    <3>5. IsFiniteSet(Matching(s, ts, HT) \cup {ts} \cup {})
      <4>1. Matching(s, ts, HT) \cup {ts} \cup {} \subseteq HT
        BY DEF Matching
      <4> QED BY <3>1, <4>1, FS_Subset
    <3> QED BY <1>4, <3>3, <3>4, <3>5, CardSubset
  <2> QED BY <1>3, <2>3, <2>4, <2>5 DEF MadeOf
<1>6. \E q \in HT, after \in SUBSET HT : MadeOf(s, q, after, HT)
  BY <1>5
<1>7. s.pri \in PriMin..PriMax /\ s.first_ts \in HT /\ s.last_ts \in HT
  BY <1>1, <1>3
<1> QED BY <1>3, <1>6, <1>7 DEF ShortSequence

\* A pulse that a sequence does not count leaves it as it was.
LEMMA ShortKept ==
  ASSUME NEW s, NEW H, H \subseteq Nat, NEW ts \in Nat, \A q \in H : q <= ts, ShortSequence(s, H),
         NEW t, t.pri = s.pri, t.first_ts = s.first_ts, t.last_ts = s.last_ts, t.count = s.count,
         t.deadline_ts = s.deadline_ts
  PROVE  ShortSequence(t, H \cup {ts})
<1>1. PICK p \in H, after \in SUBSET H : MadeOf(s, p, after, H)
  BY DEF ShortSequence
<1>2. Matching(t, p, H \cup {ts}) = Matching(s, p, H)
  <2>1. ~(ts < p)
    OBVIOUS
  <2> QED BY <2>1 DEF Matching
<1>3. MadeOf(t, p, after, H \cup {ts})
  BY <1>1, <1>2 DEF MadeOf
<1>4. \E q \in H \cup {ts}, a \in SUBSET (H \cup {ts}) : MadeOf(t, q, a, H \cup {ts})
  BY <1>3
<1> QED BY <1>4 DEF ShortSequence

\* net_pde_short_add_to_existing_seqs.
LEMMA ContinuedSequence ==
  ASSUME NEW s \in Fields, NEW H, H \subseteq Nat, IsFiniteSet(H), NEW ts \in Nat, \A q \in H : q <= ts,
         ShortSequence(s, H), s.last_ts < ts, ts <= s.deadline_ts
  PROVE  LET t == Continue(s, ts)
         IN  t \in Fields /\ t.last_ts <= ts /\ ShortSequence(t, H \cup {ts})
<1> DEFINE t  == Continue(s, ts)
           HT == H \cup {ts}
<1>1. CASE ~Fits(ts - s.last_ts, s.pri)
  <2>1. t = [s EXCEPT !.falses = @ + 1]
    BY <1>1 DEF Continue
  <2> HIDE DEF t
  <2>2. /\ t.pri = s.pri /\ t.first_ts = s.first_ts /\ t.last_ts = s.last_ts /\ t.count = s.count
        /\ t.deadline_ts = s.deadline_ts /\ t \in Fields
    BY <2>1 DEF Fields
  <2>3. ShortSequence(t, HT)
    BY <2>2, ShortKept
  <2>4. t.last_ts <= ts
    BY <2>2 DEF Fields
  <2> QED BY <2>2, <2>3, <2>4 DEF t
<1>2. CASE Fits(ts - s.last_ts, s.pri)
  <2>1. t = [s EXCEPT !.last_ts = ts, !.count = @ + 1]
    BY <1>2 DEF Continue
  <2> HIDE DEF t
  <2>2. /\ t.pri = s.pri /\ t.first_ts = s.first_ts /\ t.last_ts = ts /\ t.count = s.count + 1
        /\ t.deadline_ts = s.deadline_ts /\ t \in Fields /\ s.count \in Nat
    <3>1. s = [pri |-> s.pri, count |-> s.count, falses |-> s.falses, dur |-> s.dur, first_ts |-> s.first_ts,
               last_ts |-> s.last_ts, deadline_ts |-> s.deadline_ts]
      BY DEF Fields
    <3>2. /\ s.pri \in Nat /\ s.count \in Nat /\ s.falses \in Nat /\ s.dur \in Nat
          /\ s.first_ts \in Nat /\ s.deadline_ts \in Nat
      BY DEF Fields
    <3>3. t = [pri |-> s.pri, count |-> s.count + 1, falses |-> s.falses, dur |-> s.dur, first_ts |-> s.first_ts,
               last_ts |-> ts, deadline_ts |-> s.deadline_ts]
      BY <2>1, <3>1
    <3> QED BY <3>2, <3>3 DEF Fields
  <2>3. PICK p \in H, after \in SUBSET H : MadeOf(s, p, after, H)
    BY DEF ShortSequence
  <2> DEFINE A == after \cup {p}
             B == (after \cup {ts}) \cup {p}
             X == Matching(s, p, H) \cup {p} \cup after
             Y == Matching(t, p, HT) \cup {p} \cup (after \cup {ts})
  <2>4. Matching(t, p, HT) = Matching(s, p, H)
    <3>1. ~(ts < p)
      OBVIOUS
    <3> QED BY <2>2, <3>1 DEF Matching
  <2>5. /\ p - s.pri \in Matching(s, p, H)
        /\ \A q \in after : p < q /\ q <= s.last_ts
        /\ s.last_ts \in A /\ Chain(A, s.pri) /\ s.count <= Cardinality(X)
    BY <2>3 DEF MadeOf
  <2>6. \A q \in A : p <= q /\ q <= s.last_ts /\ q < ts /\ q \in Nat
    <3>1. s.last_ts \in Nat /\ p \in Nat /\ after \subseteq Nat
      BY DEF Fields
    <3> QED BY <2>5, <3>1
  <2>7. Chain(B, t.pri)
    <3>1. A \subseteq Nat /\ B \subseteq Nat /\ p \in A /\ p \in B /\ B = A \cup {ts} /\ \A q \in B : p <= q
      BY <2>6
    <3>2. Least(A) = p /\ Least(B) = p
      BY <2>6, <3>1, LeastUnique
    <3>3. \A x \in A : x = p \/ \E q \in A : q < x /\ Fits(x - q, s.pri) /\ ~\E r \in A : q < r /\ r < x
      BY <2>5, <3>2 DEF Chain
    <3> HIDE DEF A, B
    <3>4. ASSUME NEW x \in A
          PROVE  x = p \/ \E q \in B : q < x /\ Fits(x - q, t.pri) /\ ~\E r \in B : q < r /\ r < x
      <4>1. CASE x # p
        <5>1. PICK q \in A : q < x /\ Fits(x - q, s.pri) /\ ~\E r \in A : q < r /\ r < x
          BY <3>3, <4>1
        <5>2. ~(ts < x)
          BY <2>6
        <5>3. ~\E r \in B : q < r /\ r < x
          BY <3>1, <5>1, <5>2
        <5> QED BY <2>2, <3>1, <5>1, <5>3
      <4> QED BY <4>1
    <3>5. \E q \in B : q < ts /\ Fits(ts - q, t.pri) /\ ~\E r \in B : q < r /\ r < ts
      <4>1. ~\E r \in B : s.last_ts < r /\ r < ts
        BY <2>6, <3>1 DEF Fields
      <4> QED BY <1>2, <2>2, <2>5, <3>1, <4>1
    <3> QED BY <3>1, <3>2, <3>4, <3>5 DEF Chain
  <2>8. t.count <= Cardinality(Y)
    <3>1. X \subseteq H /\ ts \notin X /\ Y = X \cup {ts}
      <4>1. Matching(s, p, H) \subseteq H /\ \A q \in Matching(s, p, H) : q < p
        BY DEF Matching
      <4>2. ts \notin Matching(s, p, H)
        BY <2>6, <4>1
      <4>3. ts \notin A
        BY <2>6
      <4> QED BY <2>4, <4>1, <4>2, <4>3
    <3> HIDE DEF X, Y
    <3>2. IsFiniteSet(X)
      BY <3>1, FS_Subset
    <3>3. Cardinality(Y) = Cardinality(X) + 1 /\ Cardinality(X) \in Nat
      BY <3>1, <3>2, CardAdd
    <3> QED BY <2>2, <2>5, <3>3
  <2>9. MadeOf(t, p, after \cup {ts}, HT)
    <3>1. p - t.pri \in Matching(t, p, HT)
      BY <2>2, <2>4, <2>5
    <3>2. \A q \in after \cup {ts} : p < q /\ q <= t.last_ts
      BY <2>2, <2>5, <2>6
    <3>3. t.last_ts \in (after \cup {ts}) \cup {p}
      BY <2>2
    <3> QED BY <2>7, <2>8, <3>1, <3>2, <3>3 DEF MadeOf
  <2>10. \E q \in HT, a \in SUBSET HT : MadeOf(t, q, a, HT)
    BY <2>9
  <2>11. /\ t.pri \in PriMin..PriMax /\ t.first_ts \in HT /\ t.last_ts \in HT
         /\ t.deadline_ts = t.first_ts + Duration(t.pri) /\ t.last_ts <= t.deadline_ts
    BY <2>2 DEF ShortSequence
  <2>12. ShortSequence(t, HT)
    BY <2>10, <2>11 DEF ShortSequence
  <2>13. t.last_ts <= ts
    BY <2>2
  <2> QED BY <2>2, <2>12, <2>13 DEF t
<1> QED BY <1>1, <1>2

\* A sequence that reaches the threshold is a radar.
LEMMA DetectedIsRadar ==
  ASSUME NEW s \in Fields, NEW H, H \subseteq Nat, IsFiniteSet(H), ShortSequence(s, H), Detected(s)
  PROVE  ShortRadar(H)
<1> DEFINE pri == s.pri
<1>1. PICK p \in H, after \in SUBSET H : MadeOf(s, p, after, H)
  BY DEF ShortSequence
<1> DEFINE before == {q \in H : q < p /\ Fits(p - q, pri)}
           train  == {q \in before : \A r \in after \cup {p} : r - q <= Duration(pri)} \cup {p} \cup after
           X      == Matching(s, p, H) \cup {p} \cup after
<1>2. /\ p - pri \in Matching(s, p, H)
      /\ \A q \in after : p < q /\ q <= s.last_ts
      /\ s.last_ts \in after \cup {p} /\ Chain(after \cup {p}, pri) /\ s.count <= Cardinality(X)
  BY <1>1 DEF MadeOf
<1>3. /\ pri \in PriMin..PriMax /\ Duration(pri) \in Nat /\ s.first_ts \in Nat /\ s.last_ts \in Nat /\ s.count \in Nat
      /\ s.last_ts <= s.first_ts + Duration(pri) /\ PpbThresh[pri] \in Nat /\ s.count >= PpbThresh[pri]
  <2>1. pri \in PriMin..PriMax /\ s.last_ts <= s.first_ts + Duration(pri)
    BY DEF ShortSequence
  <2>2. Duration(pri) \in Nat
    BY <2>1, Intervals
  <2>3. PpbThresh[pri] \in Nat
    BY <2>1, SpecAssumption
  <2> QED BY <2>1, <2>2, <2>3 DEF Fields, Detected
<1>4. Matching(s, p, H) \subseteq before /\ \A q \in Matching(s, p, H) : s.first_ts <= q /\ q < p /\ q \in Nat
  BY DEF Matching
<1>5. \A r \in after \cup {p} : r <= s.last_ts /\ r \in Nat /\ p <= r
  BY <1>2, <1>3
<1>6. ASSUME NEW q \in Matching(s, p, H), NEW r \in after \cup {p}
      PROVE  r - q <= Duration(pri)
  <2>1. s.first_ts <= q /\ q \in Nat /\ r <= s.last_ts /\ r \in Nat
    BY <1>4, <1>5
  <2> HIDE DEF pri
  <2> QED BY <1>3, <2>1
<1>7. X \subseteq train
  BY <1>4, <1>6
<1>8. IsFiniteSet(train)
  <2>1. train \subseteq H
    OBVIOUS
  <2> HIDE DEF train
  <2> QED BY <2>1, FS_Subset
<1>9. Cardinality(train) >= PpbThresh[pri]
  <2> HIDE DEF train, X, pri
  <2>1. Cardinality(X) \in Nat /\ Cardinality(train) \in Nat /\ Cardinality(X) <= Cardinality(train)
    BY <1>7, <1>8, CardSubset
  <2> QED BY <1>2, <1>3, <2>1
<1>10. p - pri \in before
  BY <1>2, <1>4
<1>11. after \in SUBSET {q \in H : q > p}
  BY <1>2, <1>5
<1> QED BY <1>2, <1>3, <1>9, <1>10, <1>11 DEF ShortRadar
\* net_pde_short_add_pulse keeps the invariant, and what it finds is a radar.
LEMMA ShortKeeps ==
  ASSUME NEW d, NEW H, H \subseteq Time, IsFiniteSet(H), DetectorInv(d, H), d.rs = ShortInit,
         NEW ts \in Time, \A p \in H : p <= ts
  PROVE  LET r == ShortAddPulse(d, ts)
         IN  /\ r.hit => ShortRadar(H \cup {ts}) /\ IsDetector(r.pde, d.rs)
             /\ ~r.hit => DetectorInv(r.pde, H \cup {ts}) /\ r.pde.rs = d.rs
<1> DEFINE HT        == H \cup {ts}
           updated   == AddToExisting(d.sequences, ts)
           created   == CreateSequences(d.pulses, ts, LongestContinued(updated, ts))
           sequences == updated \cup created
           hit       == \E s \in sequences : Detected(s)
           longer    == [d EXCEPT !.sequences = sequences]
           r         == ShortAddPulse(d, ts)
<1>1. /\ Time \subseteq Nat /\ H \subseteq Nat /\ ts \in Nat /\ IsFiniteSet(HT) /\ HT \subseteq Nat
      /\ Tolerance \in Nat \ {0} /\ ShortInit # LongInit
  <2>1. IsFiniteSet(HT)
    BY FS_AddElement
  <2> QED BY <2>1, Times, SpecAssumption
<1>2. QueueInv(d, H) /\ \A s \in d.sequences : s.last_ts <= d.last_ts /\ ShortSequence(s, H)
  BY DEF DetectorInv
<1>3. /\ d \in [rs : {ShortInit, LongInit}, pulses : SUBSET Nat, sequences : SUBSET Fields, last_ts : Time]
      /\ d.pulses \subseteq H /\ IsFiniteSet(d.pulses) /\ Cardinality(d.pulses) < d.rs.max_count
      /\ \A p \in d.pulses : p <= d.last_ts /\ p + d.rs.window_size >= d.last_ts
      /\ d.pulses = {} => d.sequences = {}
  BY <1>2 DEF QueueInv
<1>4. d.last_ts \in Nat /\ d.sequences \subseteq Fields /\ \A p \in d.pulses : p <= ts
  BY <1>1, <1>3
<1>5. CASE d.pulses = {}
  <2> DEFINE e == Enqueue(d, ts)
  <2>1. r = [pde |-> e, hit |-> FALSE]
    BY <1>5 DEF ShortAddPulse
  <2>2. /\ e = [rs |-> d.rs, pulses |-> e.pulses, sequences |-> d.sequences, last_ts |-> ts]
        /\ e.pulses \subseteq d.pulses \cup {ts} /\ e.pulses # {}
        /\ IsFiniteSet(e.pulses) /\ Cardinality(e.pulses) < d.rs.max_count
        /\ \A p \in e.pulses : p <= ts /\ p + d.rs.window_size >= ts
    BY <1>1, <1>3, <1>4, EnqueueKeeps
  <2> HIDE DEF e, r
  <2>3. e.rs = d.rs /\ e.sequences = {} /\ e.last_ts = ts
    BY <1>3, <1>5, <2>2
  <2>4. QueueInv(e, HT)
    BY <1>1, <1>3, <2>2, <2>3 DEF QueueInv
  <2>5. DetectorInv(e, HT)
    BY <1>1, <2>3, <2>4 DEF DetectorInv
  <2> QED BY <2>1, <2>3, <2>5 DEF r
<1>6. CASE d.pulses # {} /\ ts - d.last_ts < Tolerance
  <2>1. r = [pde |-> d, hit |-> FALSE]
    BY <1>1, <1>4, <1>6 DEF ShortAddPulse
  <2> HIDE DEF r
  <2>2. QueueInv(d, HT)
    BY <1>3 DEF QueueInv
  <2>3. ASSUME NEW s \in d.sequences
        PROVE  ShortSequence(s, HT)
    BY <1>1, <1>2, ShortKept
  <2>4. DetectorInv(d, HT)
    BY <1>1, <1>2, <2>2, <2>3 DEF DetectorInv
  <2> QED BY <2>1, <2>4 DEF r
<1>7. CASE d.pulses # {} /\ ts - d.last_ts >= Tolerance
  <2>1. r = [pde |-> IF hit THEN longer ELSE Enqueue(longer, ts), hit |-> hit]
    BY <1>1, <1>4, <1>7 DEF ShortAddPulse
  <2>2. d.last_ts < ts
    BY <1>1, <1>4, <1>7
  <2>3. ASSUME NEW t \in updated
        PROVE  t \in Fields /\ t.last_ts <= ts /\ ShortSequence(t, HT)
    <3>1. PICK s \in d.sequences : ts <= s.deadline_ts /\ t = Continue(s, ts)
      BY DEF AddToExisting
    <3>2. s \in Fields /\ ShortSequence(s, H) /\ s.last_ts <= d.last_ts /\ s.last_ts \in Nat
      BY <1>2, <1>4, <3>1 DEF Fields
    <3>3. s.last_ts < ts
      BY <1>1, <1>4, <2>2, <3>2
    <3> QED BY <1>1, <3>1, <3>2, <3>3, ContinuedSequence
  <2>4. ASSUME NEW t \in created
        PROVE  t \in Fields /\ t.last_ts <= ts /\ ShortSequence(t, HT)
    <3> HIDE DEF updated
    <3>1. t \in Fields /\ t.last_ts = ts /\ ShortSequence(t, HT)
      BY <1>1, <1>3, CreatedSequence
    <3> QED BY <1>1, <3>1
  <2> HIDE DEF updated, created, r
  <2>5. \A t \in sequences : t \in Fields /\ t.last_ts <= ts /\ ShortSequence(t, HT)
    BY <2>3, <2>4
  <2> HIDE DEF sequences
  <2>6. ASSUME hit
        PROVE  ShortRadar(HT)
    <3>1. PICK t \in sequences : Detected(t)
      BY <2>6
    <3> QED BY <1>1, <2>5, <3>1, DetectedIsRadar
  <2>7. /\ longer = [rs |-> d.rs, pulses |-> d.pulses, sequences |-> sequences, last_ts |-> d.last_ts]
        /\ longer \in [rs : {ShortInit, LongInit}, pulses : SUBSET Nat, sequences : SUBSET Fields, last_ts : Time]
    BY <1>3, <2>5
  <2>8. IsDetector(longer, d.rs)
    BY <2>7 DEF IsDetector
  <2> DEFINE e == Enqueue(longer, ts)
  <2>9. /\ e.rs = d.rs /\ e.sequences = sequences /\ e.last_ts = ts
        /\ e = [rs |-> d.rs, pulses |-> e.pulses, sequences |-> sequences, last_ts |-> ts]
        /\ e.pulses \subseteq d.pulses \cup {ts} /\ e.pulses # {}
        /\ IsFiniteSet(e.pulses) /\ Cardinality(e.pulses) < d.rs.max_count
        /\ \A p \in e.pulses : p <= ts /\ p + d.rs.window_size >= ts
    <3>1. longer.rs = d.rs /\ longer.pulses = d.pulses /\ longer.sequences = sequences
      BY <2>7
    <3> HIDE DEF longer
    <3>2. /\ e = [rs |-> longer.rs, pulses |-> e.pulses, sequences |-> longer.sequences, last_ts |-> ts]
          /\ e.pulses \subseteq longer.pulses \cup {ts} /\ e.pulses # {}
          /\ IsFiniteSet(e.pulses) /\ Cardinality(e.pulses) < longer.rs.max_count
          /\ \A p \in e.pulses : p <= ts /\ p + longer.rs.window_size >= ts
      BY <1>1, <1>3, <1>4, <2>7, <3>1, EnqueueKeeps
    <3> HIDE DEF e
    <3> QED BY <3>1, <3>2
  <2> HIDE DEF e
  <2>10. QueueInv(e, HT)
    BY <1>1, <1>3, <2>5, <2>9 DEF QueueInv
  <2>11. DetectorInv(e, HT)
    BY <1>1, <2>5, <2>9, <2>10 DEF DetectorInv
  <2> HIDE DEF longer, hit
  <2>12. CASE hit
    <3>1. r = [pde |-> longer, hit |-> hit]
      BY <2>1, <2>12 DEF e
    <3> QED BY <2>6, <2>8, <2>12, <3>1 DEF r
  <2>13. CASE ~hit
    <3>1. r = [pde |-> e, hit |-> hit]
      BY <2>1, <2>13 DEF e
    <3> QED BY <2>9, <2>11, <2>13, <3>1 DEF r
  <2> QED BY <2>12, <2>13
<1> QED BY <1>1, <1>4, <1>5, <1>6, <1>7

-----------------------------------------------------------------------------
(* The sequence of long pulses.                                            *)

\* Pulses do not make a burst of what was none, and a pulse after a silence is one.
LEMMA BurstsGrow ==
  ASSUME NEW H, H \subseteq Nat, IsFiniteSet(H), NEW ts \in Nat, \A p \in H : p <= ts
  PROVE  /\ Bursts(H) \subseteq Bursts(H \cup {ts}) /\ IsFiniteSet(Bursts(H)) /\ IsFiniteSet(Bursts(H \cup {ts}))
         /\ Cardinality(Bursts(H)) \in Nat /\ Cardinality(Bursts(H \cup {ts})) \in Nat
         /\ Cardinality(Bursts(H)) <= Cardinality(Bursts(H \cup {ts}))
         /\ (\A p \in H : ts - p > LongPriMax) =>
              /\ ts \in Bursts(H \cup {ts})
              /\ Cardinality(Bursts(H \cup {ts})) >= Cardinality(Bursts(H)) + 1
<1>1. Bursts(H) \subseteq Bursts(H \cup {ts})
  <2>1. \A p \in H : ~(ts < p)
    OBVIOUS
  <2> QED BY <2>1 DEF Bursts
<1>2. IsFiniteSet(H \cup {ts}) /\ Bursts(H) \subseteq H /\ Bursts(H \cup {ts}) \subseteq H \cup {ts}
  BY FS_AddElement DEF Bursts
<1>3. /\ IsFiniteSet(Bursts(H)) /\ IsFiniteSet(Bursts(H \cup {ts}))
      /\ Cardinality(Bursts(H)) \in Nat /\ Cardinality(Bursts(H \cup {ts})) \in Nat
      /\ Cardinality(Bursts(H)) <= Cardinality(Bursts(H \cup {ts}))
  BY <1>1, <1>2, CardSubset
<1>4. ASSUME \A p \in H : ts - p > LongPriMax
      PROVE  /\ ts \in Bursts(H \cup {ts})
             /\ Cardinality(Bursts(H \cup {ts})) >= Cardinality(Bursts(H)) + 1
  <2>1. LongPriMax \in Nat
    BY SpecAssumption
  <2>2. ts \notin H
    BY <1>4, <2>1
  <2>3. ts \in Bursts(H \cup {ts})
    BY <1>4 DEF Bursts
  <2>4. Bursts(H) \cup {ts} \subseteq Bursts(H \cup {ts}) /\ ts \notin Bursts(H)
    BY <1>1, <1>2, <2>2, <2>3
  <2>5. Cardinality(Bursts(H) \cup {ts}) = Cardinality(Bursts(H)) + 1
    BY <1>3, <2>4, CardAdd
  <2>6. Cardinality(Bursts(H) \cup {ts}) <= Cardinality(Bursts(H \cup {ts}))
    BY <1>3, <2>4, CardSubset
  <2> QED BY <2>3, <2>5, <2>6
<1> QED BY <1>1, <1>3, <1>4

\* A pulse that only moves the time of the last one.
LEMMA LongKept ==
  ASSUME NEW d, NEW H, H \subseteq Time, IsFiniteSet(H), QueueInv(d, H), d.rs = LongInit, d.pulses # {},
         NEW s \in Fields, LongSequence(s, d, H), NEW ts \in Time, \A p \in H : p <= ts,
         NEW t \in Fields, t.last_ts = ts, t.pri = s.pri, t.first_ts = s.first_ts, t.count = s.count,
         NEW e, e.rs = d.rs, e.pulses = d.pulses, e.last_ts = d.last_ts, e.sequences = {t}, IsDetector(e, d.rs)
  PROVE  DetectorInv(e, H \cup {ts})
<1> DEFINE HT == H \cup {ts}
<1>1. Time \subseteq Nat /\ ts \in Nat /\ H \subseteq Nat /\ ShortInit # LongInit
  BY Times
<1>2. s.count \in Nat
  BY DEF Fields
<1>5. /\ d \in [rs : {ShortInit, LongInit}, pulses : SUBSET Nat, sequences : SUBSET Fields, last_ts : Time]
      /\ d.pulses \subseteq H /\ IsFiniteSet(d.pulses) /\ Cardinality(d.pulses) < d.rs.max_count
      /\ \A p \in d.pulses : p <= d.last_ts /\ p + d.rs.window_size >= d.last_ts
  BY DEF QueueInv
<1>6. e = [rs |-> d.rs, pulses |-> d.pulses, sequences |-> {t}, last_ts |-> d.last_ts]
  BY DEF IsDetector
<1>7. QueueInv(e, HT)
  BY <1>5, <1>6 DEF QueueInv
<1>8. LongSequence(t, e, HT)
  <2>1. /\ Bursts(H) \subseteq Bursts(HT) /\ Cardinality(Bursts(H)) \in Nat /\ Cardinality(Bursts(HT)) \in Nat
        /\ Cardinality(Bursts(H)) <= Cardinality(Bursts(HT))
    BY <1>1, BurstsGrow
  <2>2. /\ s.pri = 0 /\ s.first_ts \in Bursts(H) /\ d.pulses \subseteq Bursts(H)
        /\ Cardinality(d.pulses) <= s.count /\ s.count <= Cardinality(Bursts(H))
    BY DEF LongSequence
  <2>3. \A p \in HT : p <= ts
    BY <1>1
  <2>4. s.count <= Cardinality(Bursts(HT))
    BY <1>2, <2>1, <2>2
  <2> QED BY <2>1, <2>2, <2>3, <2>4 DEF LongSequence
<1> QED BY <1>1, <1>7, <1>8 DEF DetectorInv

\* A burst at ts: the detector n, that was d, has it in its sequence t, but not in its
\* queue yet.
Burst(n, t, d, s, ts) ==
  /\ ts - s.last_ts > LongPriMax /\ t = NextBurst(s, d.pulses, ts)
  /\ IsDetector(n, d.rs) /\ n.pulses = Inside(s, d.pulses, ts) /\ n.sequences = {t} /\ n.last_ts = d.last_ts

BurstKeeps(n, t, d, ts, H) ==
  /\ t.count > LongThresh /\ ts - t.first_ts > LongDuration \div 2 => LongRadar(H \cup {ts})
  /\ DetectorInv(Enqueue(n, ts), H \cup {ts}) /\ Enqueue(n, ts).rs = d.rs

\* A burst that goes on keeps the one sequence of the detector for long pulses true.
LEMMA LongBurst ==
  ASSUME NEW d, NEW H, H \subseteq Time, IsFiniteSet(H), QueueInv(d, H), d.rs = LongInit,
         NEW s \in Fields, LongSequence(s, d, H), NEW ts \in Time,
         NEW t, NEW n, Burst(n, t, d, s, ts)
  PROVE  BurstKeeps(n, t, d, ts, H)
<1> DEFINE HT    == H \cup {ts}
           inside == Inside(s, d.pulses, ts)
           found == ts > s.deadline_ts /\ inside # {}
           first == IF found THEN Least(inside) ELSE s.first_ts
           gone  == d.pulses \ inside
           e     == Enqueue(n, ts)
<1>0. /\ ts - s.last_ts > LongPriMax /\ t = NextBurst(s, d.pulses, ts)
      /\ IsDetector(n, d.rs) /\ n.pulses = inside /\ n.sequences = {t} /\ n.last_ts = d.last_ts
  BY DEF Burst
<1>1. /\ Time \subseteq Nat /\ ts \in Nat /\ H \subseteq Nat /\ ShortInit # LongInit
      /\ LongPriMax \in Nat /\ LongDuration \in Nat /\ LongThresh \in Nat
  BY Times, SpecAssumption
<1>2. /\ d \in [rs : {ShortInit, LongInit}, pulses : SUBSET Nat, sequences : SUBSET Fields, last_ts : Time]
      /\ d.pulses \subseteq H /\ IsFiniteSet(d.pulses) /\ Cardinality(d.pulses) < d.rs.max_count
  BY DEF QueueInv
<1>3. /\ s.pri = 0 /\ s.first_ts \in Bursts(H) /\ d.pulses \subseteq Bursts(H)
      /\ Cardinality(d.pulses) <= s.count /\ s.count <= Cardinality(Bursts(H))
      /\ s.last_ts \in H /\ \A p \in H : p <= s.last_ts
  BY DEF LongSequence
<1>4. /\ s = [pri |-> s.pri, count |-> s.count, falses |-> s.falses, dur |-> s.dur, first_ts |-> s.first_ts,
              last_ts |-> s.last_ts, deadline_ts |-> s.deadline_ts]
      /\ s.count \in Nat /\ s.deadline_ts \in Nat /\ s.first_ts \in Nat /\ s.last_ts \in Nat
  BY DEF Fields
<1>5. \A p \in H : p <= ts /\ ts - p > LongPriMax
  <2>1. \A p \in H : p \in Nat /\ p <= s.last_ts
    BY <1>1, <1>3
  <2> QED BY <1>0, <1>1, <1>4, <2>1
<1>6. /\ Bursts(H) \subseteq Bursts(HT) /\ Cardinality(Bursts(H)) \in Nat /\ Cardinality(Bursts(HT)) \in Nat
      /\ ts \in Bursts(HT) /\ Cardinality(Bursts(HT)) >= Cardinality(Bursts(H)) + 1
  BY <1>1, <1>5, BurstsGrow
<1>7. inside \subseteq d.pulses
  BY DEF Inside
<1>8. /\ IsFiniteSet(inside) /\ Cardinality(inside) \in Nat /\ Cardinality(gone) \in Nat
      /\ Cardinality(d.pulses) = Cardinality(inside) + Cardinality(gone)
  <2>1. IsFiniteSet(gone)
    BY <1>2, FS_Difference
  <2> QED BY <1>2, <1>7, <2>1, CardDifference, CardSubset
<1>9. first \in Bursts(H) /\ first \in Nat
  <2>1. Bursts(H) \subseteq Nat
    BY <1>1 DEF Bursts
  <2>2. CASE found
    <3>1. inside \subseteq Nat /\ inside # {}
      BY <1>1, <1>2, <1>7, <2>2
    <3>2. Least(inside) \in inside
      BY <3>1, LeastIs
    <3> QED BY <1>3, <1>7, <2>1, <2>2, <3>2
  <2>3. CASE ~found
    BY <1>3, <2>1, <2>3
  <2> QED BY <2>2, <2>3
<1>10. t = [pri |-> s.pri, count |-> s.count + 1 - Cardinality(gone), falses |-> 1,
            first_ts |-> first, last_ts |-> ts, dur |-> ts - s.last_ts,
            deadline_ts |-> IF found THEN first + LongDuration ELSE s.deadline_ts]
  BY <1>0 DEF NextBurst
<1> HIDE DEF first, found, gone, inside
<1>11. ts - s.last_ts \in Nat
  BY <1>1, <1>3, <1>4, <1>5
<1>12. /\ t.count \in Nat /\ Cardinality(inside) + 1 <= t.count /\ t.count <= Cardinality(Bursts(HT))
       /\ t.first_ts = first /\ t.last_ts = ts /\ t.pri = 0
  <2>1. t.count = s.count + 1 - Cardinality(gone)
    BY <1>10
  <2>2. t.count \in Nat /\ Cardinality(inside) + 1 <= t.count
    BY <1>2, <1>3, <1>4, <1>8, <2>1
  <2>3. t.count <= Cardinality(Bursts(HT))
    <3>1. /\ s.count \in Nat /\ Cardinality(gone) \in Nat /\ Cardinality(Bursts(H)) \in Nat
          /\ Cardinality(Bursts(HT)) \in Nat /\ Cardinality(Bursts(HT)) >= Cardinality(Bursts(H)) + 1
          /\ s.count <= Cardinality(Bursts(H))
      BY <1>3, <1>4, <1>6, <1>8
    <3> QED BY <2>1, <3>1
  <2> QED BY <1>3, <1>10, <2>2, <2>3
<1>13. t \in Fields
  <2>1. (IF found THEN first + LongDuration ELSE s.deadline_ts) \in Nat
    BY <1>1, <1>4, <1>9
  <2> QED BY <1>1, <1>9, <1>10, <1>11, <1>12, <2>1 DEF Fields
<1>14. /\ n \in [rs : {ShortInit, LongInit}, pulses : SUBSET Nat, sequences : SUBSET Fields, last_ts : Time]
       /\ n.rs = d.rs /\ n.pulses = inside /\ n.sequences = {t}
       /\ Cardinality(inside) < d.rs.max_count
  <2>1. Cardinality(inside) < d.rs.max_count
    <3>1. d.rs.max_count \in Nat
      BY Inits
    <3> QED BY <1>2, <1>8, <3>1
  <2>2. d.rs \in {ShortInit, LongInit} /\ d.last_ts \in Time /\ inside \subseteq Nat
    BY <1>2, <1>7
  <2>3. n = [rs |-> d.rs, pulses |-> inside, sequences |-> {t}, last_ts |-> d.last_ts]
    BY <1>0 DEF IsDetector
  <2> QED BY <1>13, <2>1, <2>2, <2>3
<1>15. /\ e = [rs |-> d.rs, pulses |-> e.pulses, sequences |-> {t}, last_ts |-> ts]
       /\ e.pulses \subseteq inside \cup {ts} /\ e.pulses # {}
       /\ IsFiniteSet(e.pulses) /\ Cardinality(e.pulses) < d.rs.max_count
       /\ Cardinality(e.pulses) <= Cardinality(inside) + 1
       /\ \A p \in e.pulses : p <= ts /\ p + d.rs.window_size >= ts
  <2>1. /\ IsFiniteSet(n.pulses) /\ Cardinality(n.pulses) < n.rs.max_count /\ \A p \in n.pulses : p <= ts
    BY <1>2, <1>5, <1>7, <1>8, <1>14
  <2>2. /\ e = [rs |-> n.rs, pulses |-> e.pulses, sequences |-> n.sequences, last_ts |-> ts]
        /\ e.pulses \subseteq n.pulses \cup {ts} /\ e.pulses # {}
        /\ IsFiniteSet(e.pulses) /\ Cardinality(e.pulses) < n.rs.max_count
        /\ Cardinality(e.pulses) <= Cardinality(n.pulses) + 1
        /\ \A p \in e.pulses : p <= ts /\ p + n.rs.window_size >= ts
    BY <1>1, <1>14, <2>1, EnqueueKeeps
  <2> HIDE DEF e
  <2> QED BY <1>14, <2>2
<1> HIDE DEF e
<1>16. QueueInv(e, HT)
  BY <1>1, <1>2, <1>7, <1>13, <1>15 DEF QueueInv
<1>17. LongSequence(t, e, HT)
  <2>1. e.pulses \subseteq Bursts(HT)
    BY <1>3, <1>6, <1>7, <1>15
  <2>2. Cardinality(e.pulses) <= t.count
    BY <1>8, <1>12, <1>15, FS_CardinalityType
  <2>3. t.first_ts \in Bursts(HT)
    BY <1>6, <1>9, <1>12
  <2>4. ts \in HT /\ \A p \in HT : p <= ts
    BY <1>1, <1>5
  <2> QED BY <1>12, <2>1, <2>2, <2>3, <2>4 DEF LongSequence
<1>18. DetectorInv(e, HT) /\ e.rs = d.rs
  <2>1. e.rs = LongInit /\ e.sequences = {t}
    BY <1>15
  <2> QED BY <1>1, <1>13, <1>16, <1>17, <2>1 DEF DetectorInv
<1>19. ASSUME t.count > LongThresh, ts - t.first_ts > LongDuration \div 2
       PROVE  LongRadar(HT)
  <2>1. Cardinality(Bursts(HT)) > LongThresh
    BY <1>1, <1>6, <1>12, <1>19
  <2>2. ts \in Bursts(HT) /\ first \in Bursts(HT) /\ ts - first > LongDuration \div 2
    BY <1>6, <1>9, <1>12, <1>19
  <2> QED BY <2>1, <2>2 DEF LongRadar
<1> QED BY <1>18, <1>19 DEF e, BurstKeeps

\* net_pde_long_add_pulse keeps the invariant, and what it finds is a radar.
LEMMA LongKeeps ==
  ASSUME NEW d, NEW H, H \subseteq Time, IsFiniteSet(H), DetectorInv(d, H), d.rs = LongInit,
         NEW ts \in Time, \A p \in H : p <= ts
  PROVE  LET r == LongAddPulse(d, ts)
         IN  /\ r.hit => LongRadar(H \cup {ts}) /\ IsDetector(r.pde, d.rs)
             /\ ~r.hit => DetectorInv(r.pde, H \cup {ts}) /\ r.pde.rs = d.rs
<1> DEFINE HT == H \cup {ts}
           r  == LongAddPulse(d, ts)
<1>1. /\ Time \subseteq Nat /\ ts \in Nat /\ H \subseteq Nat /\ ShortInit # LongInit
      /\ LongPriMax \in Nat /\ LongDuration \in Nat
  BY Times, SpecAssumption
<1>2. QueueInv(d, H)
  BY DEF DetectorInv
<1>3. /\ d \in [rs : {ShortInit, LongInit}, pulses : SUBSET Nat, sequences : SUBSET Fields, last_ts : Time]
      /\ d.pulses \subseteq H /\ IsFiniteSet(d.pulses) /\ Cardinality(d.pulses) < d.rs.max_count
      /\ d.pulses = {} => d.sequences = {}
  BY <1>2 DEF QueueInv
<1>4. CASE d.sequences = {}
  <2> DEFINE t == FirstBurst(ts)
             n == [d EXCEPT !.sequences = {t}]
             e == Enqueue(n, ts)
  <2>1. r = [pde |-> e, hit |-> FALSE]
    BY <1>4 DEF LongAddPulse
  <2>2. H = {} /\ d.pulses = {}
    BY <1>3, <1>4 DEF DetectorInv
  <2>3. t \in Fields
    <3>1. ts + LongDuration \in Nat
      BY <1>1
    <3> QED BY <1>1, <3>1 DEF Fields, FirstBurst
  <2>4. t.pri = 0 /\ t.first_ts = ts /\ t.last_ts = ts /\ t.count = 1
    BY DEF FirstBurst
  <2> HIDE DEF t, r
  <2>5. /\ n \in [rs : {ShortInit, LongInit}, pulses : SUBSET Nat, sequences : SUBSET Fields, last_ts : Time]
        /\ n.rs = d.rs /\ n.pulses = {} /\ n.sequences = {t}
    BY <1>3, <2>2, <2>3
  <2> HIDE DEF n
  <2>6. /\ e = [rs |-> n.rs, pulses |-> e.pulses, sequences |-> n.sequences, last_ts |-> ts]
        /\ e.pulses \subseteq n.pulses \cup {ts} /\ e.pulses # {}
        /\ IsFiniteSet(e.pulses) /\ Cardinality(e.pulses) < n.rs.max_count
        /\ Cardinality(e.pulses) <= Cardinality(n.pulses) + 1
        /\ \A p \in e.pulses : p <= ts /\ p + n.rs.window_size >= ts
    <3>1. IsFiniteSet(n.pulses) /\ Cardinality(n.pulses) < n.rs.max_count /\ \A p \in n.pulses : p <= ts
      BY <1>3, <2>2, <2>5
    <3> QED BY <1>1, <2>5, <3>1, EnqueueKeeps
  <2> HIDE DEF e
  <2>7. e.rs = d.rs /\ e.sequences = {t} /\ e.last_ts = ts /\ e.pulses = {ts} /\ HT = {ts} /\ Cardinality({ts}) = 1
    <3>1. e.pulses = {ts} /\ HT = {ts}
      BY <2>2, <2>5, <2>6
    <3>2. e.rs = d.rs /\ e.sequences = {t} /\ e.last_ts = ts
      BY <2>5, <2>6
    <3>3. Cardinality({ts}) = 1
      BY FS_Singleton
    <3> QED BY <3>1, <3>2, <3>3
  <2>8. QueueInv(e, HT)
    BY <1>1, <1>3, <2>3, <2>5, <2>6, <2>7 DEF QueueInv
  <2>9. Bursts(HT) = {ts}
    <3>1. ~(ts < ts)
      BY <1>1
    <3> QED BY <2>7, <3>1 DEF Bursts
  <2>10. LongSequence(t, e, HT)
    <3>1. \A p \in HT : p <= ts
      BY <1>1, <2>7
    <3> QED BY <2>4, <2>7, <2>9, <3>1 DEF LongSequence
  <2>11. DetectorInv(e, HT)
    BY <1>1, <2>3, <2>7, <2>8, <2>10 DEF DetectorInv
  <2> QED BY <2>1, <2>7, <2>11 DEF r
<1>5. CASE d.sequences # {}
  <2>1. PICK s \in Fields : d.sequences = {s} /\ LongSequence(s, d, H)
    BY <1>5 DEF DetectorInv
  <2>2. r = LongPulse(d, s, ts)
    <3>1. (CHOOSE q \in d.sequences : TRUE) = s
      BY <2>1
    <3> QED BY <1>5, <3>1 DEF LongAddPulse
  <2> DEFINE delta == ts - s.last_ts
             next  == NextBurst(s, d.pulses, ts)
             hit   == next.count > LongThresh /\ ts - next.first_ts > LongDuration \div 2
             burst == [d EXCEPT !.sequences = {next}, !.pulses = Inside(s, @, ts)]
             early == s.count > 2 /\ s.dur + delta < BurstMin
  <2>3. /\ s.last_ts \in Nat /\ s.falses \in Nat /\ s.last_ts \in H /\ delta \in Nat
        /\ d.pulses # {}
    <3>1. s.last_ts \in H
      BY <2>1 DEF LongSequence
    <3> QED BY <1>1, <1>3, <1>5, <3>1 DEF Fields
  <2> HIDE DEF r
  <2>4. CASE delta < LongPriMax
    <3> DEFINE u == [s EXCEPT !.last_ts = ts]
               w == [d EXCEPT !.sequences = {u}]
    <3>1. r = [pde |-> w, hit |-> FALSE]
      BY <1>1, <2>2, <2>3, <2>4 DEF LongPulse
    <3>2. DetectorInv(w, HT) /\ w.rs = d.rs
      <4>1. u \in Fields /\ u.last_ts = ts /\ u.pri = s.pri /\ u.first_ts = s.first_ts /\ u.count = s.count
        BY <1>1, <2>3 DEF Fields
      <4> HIDE DEF u
      <4>2. w = [rs |-> d.rs, pulses |-> d.pulses, sequences |-> {u}, last_ts |-> d.last_ts]
        BY <1>3
      <4> HIDE DEF w
      <4>3. /\ w.rs = d.rs /\ w.pulses = d.pulses /\ w.last_ts = d.last_ts /\ w.sequences = {u}
            /\ IsDetector(w, d.rs)
        BY <4>2 DEF IsDetector
      <4> QED BY <1>2, <2>1, <2>3, <4>1, <4>3, LongKept
    <3> HIDE DEF w
    <3> QED BY <3>1, <3>2 DEF r
  <2>5. CASE delta = LongPriMax
    <3> DEFINE u == [s EXCEPT !.last_ts = ts, !.falses = @ + 1]
               w == [d EXCEPT !.sequences = {u}]
    <3>1. r = [pde |-> w, hit |-> FALSE]
      BY <1>1, <2>2, <2>3, <2>5 DEF LongPulse
    <3>2. DetectorInv(w, HT) /\ w.rs = d.rs
      <4>1. u \in Fields /\ u.last_ts = ts /\ u.pri = s.pri /\ u.first_ts = s.first_ts /\ u.count = s.count
        <5>0. u = [s EXCEPT !.last_ts = ts, !.falses = @ + 1]
          OBVIOUS
        <5>1. s = [pri |-> s.pri, count |-> s.count, falses |-> s.falses, dur |-> s.dur, first_ts |-> s.first_ts,
                   last_ts |-> s.last_ts, deadline_ts |-> s.deadline_ts]
          BY DEF Fields
        <5> HIDE DEF u
        <5>2. u = [pri |-> s.pri, count |-> s.count, falses |-> s.falses + 1, dur |-> s.dur, first_ts |-> s.first_ts,
                   last_ts |-> ts, deadline_ts |-> s.deadline_ts]
          BY <5>0, <5>1
        <5>3. /\ s.pri \in Nat /\ s.count \in Nat /\ s.falses + 1 \in Nat /\ s.dur \in Nat
              /\ s.first_ts \in Nat /\ s.deadline_ts \in Nat
          BY <2>3 DEF Fields
        <5> QED BY <1>1, <5>2, <5>3 DEF Fields
      <4> HIDE DEF u
      <4>2. w = [rs |-> d.rs, pulses |-> d.pulses, sequences |-> {u}, last_ts |-> d.last_ts]
        BY <1>3
      <4> HIDE DEF w
      <4>3. /\ w.rs = d.rs /\ w.pulses = d.pulses /\ w.last_ts = d.last_ts /\ w.sequences = {u}
            /\ IsDetector(w, d.rs)
        BY <4>2 DEF IsDetector
      <4> QED BY <1>2, <2>1, <2>3, <4>1, <4>3, LongKept
    <3> HIDE DEF w
    <3> QED BY <3>1, <3>2 DEF r
  <2>6. CASE delta > LongPriMax /\ early
    <3> DEFINE u == [s EXCEPT !.last_ts = ts]
               w == [d EXCEPT !.sequences = {u}]
    <3>1. r = [pde |-> w, hit |-> FALSE]
      BY <1>1, <2>2, <2>3, <2>6 DEF LongPulse
    <3>2. DetectorInv(w, HT) /\ w.rs = d.rs
      <4>1. u \in Fields /\ u.last_ts = ts /\ u.pri = s.pri /\ u.first_ts = s.first_ts /\ u.count = s.count
        BY <1>1, <2>3 DEF Fields
      <4> HIDE DEF u
      <4>2. w = [rs |-> d.rs, pulses |-> d.pulses, sequences |-> {u}, last_ts |-> d.last_ts]
        BY <1>3
      <4> HIDE DEF w
      <4>3. /\ w.rs = d.rs /\ w.pulses = d.pulses /\ w.last_ts = d.last_ts /\ w.sequences = {u}
            /\ IsDetector(w, d.rs)
        BY <4>2 DEF IsDetector
      <4> QED BY <1>2, <2>1, <2>3, <4>1, <4>3, LongKept
    <3> HIDE DEF w
    <3> QED BY <3>1, <3>2 DEF r
  <2>7. CASE delta > LongPriMax /\ ~early
    <3>1. r = [pde |-> IF hit THEN burst ELSE Enqueue(burst, ts), hit |-> hit]
      BY <1>1, <2>2, <2>3, <2>7 DEF LongPulse
    <3> HIDE DEF next
    <3> DEFINE inside == Inside(s, d.pulses, ts)
    <3>2. burst = [d EXCEPT !.sequences = {next}, !.pulses = inside]
      OBVIOUS
    <3> HIDE DEF burst, inside
    <3>3. burst = [rs |-> d.rs, pulses |-> inside, sequences |-> {next}, last_ts |-> d.last_ts]
      BY <1>3, <3>2
    <3>5. IsDetector(burst, d.rs)
      BY <3>3 DEF IsDetector
    <3>4. /\ hit => LongRadar(HT)
          /\ DetectorInv(Enqueue(burst, ts), HT) /\ Enqueue(burst, ts).rs = d.rs
      <4>1. QueueInv(d, H) /\ LongSequence(s, d, H) /\ ts - s.last_ts > LongPriMax
        BY <1>2, <2>1, <2>7
      <4>2. burst.pulses = inside /\ burst.sequences = {next} /\ burst.last_ts = d.last_ts
        BY <3>3
      <4>3. Burst(burst, next, d, s, ts)
        BY <3>5, <4>1, <4>2 DEF Burst, next, inside
      <4> HIDE DEF early
      <4>4. BurstKeeps(burst, next, d, ts, H)
        BY <4>1, <4>3, LongBurst
      <4> QED BY <4>4 DEF BurstKeeps
    <3> HIDE DEF hit
    <3>6. CASE hit
      <4>1. r = [pde |-> burst, hit |-> hit]
        BY <3>1, <3>6
      <4> QED BY <3>4, <3>5, <3>6, <4>1 DEF r
    <3>7. CASE ~hit
      <4>1. r = [pde |-> Enqueue(burst, ts), hit |-> hit]
        BY <3>1, <3>7
      <4> QED BY <3>4, <3>7, <4>1 DEF r
    <3> QED BY <3>6, <3>7
  <2> QED BY <1>1, <2>3, <2>4, <2>5, <2>6, <2>7
<1> QED BY <1>4, <1>5
-----------------------------------------------------------------------------
(* Every step keeps the invariant.                                         *)

\* A detector is of one of the two kinds, and its waveform tells which.
LEMMA Waveforms ==
  ASSUME NEW d, d.rs \in {ShortInit, LongInit}
  PROVE  (d.rs.waveform = "long" => d.rs = LongInit) /\ (d.rs.waveform # "long" => d.rs = ShortInit)
         /\ (d.rs = ShortInit => d.rs.waveform = "short")
BY Inits

\* A detector that has heard nothing.
LEMMA Unheard ==
  ASSUME NEW d, d.rs \in {ShortInit, LongInit}, IsDetector(d, d.rs),
         d.pulses = {}, d.sequences = {}, d.last_ts \in Time
  PROVE  DetectorInv(d, {})
<1>1. /\ IsFiniteSet({}) /\ Cardinality({}) = 0 /\ d.rs.max_count \in Nat \ {0}
  BY FS_EmptySet, Inits
<1>2. d \in [rs : {ShortInit, LongInit}, pulses : SUBSET Nat, sequences : SUBSET Fields, last_ts : Time]
  BY DEF IsDetector
<1>3. QueueInv(d, {})
  BY <1>1, <1>2 DEF QueueInv
<1> QED BY <1>3 DEF DetectorInv

\* pde->ops->add_pulse.
LEMMA AddPulseKeeps ==
  ASSUME NEW d, NEW H, H \subseteq Time, IsFiniteSet(H), DetectorInv(d, H),
         NEW ts \in Time, \A p \in H : p <= ts
  PROVE  LET r == AddPulse(d, ts)
         IN  /\ r.hit => /\ IF d.rs.waveform = "short" THEN ShortRadar(H \cup {ts}) ELSE LongRadar(H \cup {ts})
                         /\ IsDetector(r.pde, d.rs)
             /\ ~r.hit => DetectorInv(r.pde, H \cup {ts}) /\ r.pde.rs = d.rs
<1>1. d.rs \in {ShortInit, LongInit}
  BY DEF DetectorInv, QueueInv
<1>2. CASE d.rs = ShortInit
  <2>1. d.rs.waveform = "short" /\ AddPulse(d, ts) = ShortAddPulse(d, ts)
    BY <1>2, Inits DEF AddPulse
  <2> QED BY <1>2, <2>1, ShortKeeps
<1>3. CASE d.rs = LongInit
  <2>1. d.rs.waveform = "long" /\ AddPulse(d, ts) = LongAddPulse(d, ts)
    BY <1>3, Inits DEF AddPulse
  <2> QED BY <1>3, <2>1, LongKeeps
<1> QED BY <1>1, <1>2, <1>3

\* A pulse that a detector hears.
LEMMA HearKeeps ==
  ASSUME NEW d, NEW H, H \subseteq Time, IsFiniteSet(H), DetectorInv(d, H), d.rs = pde.rs,
         NEW ts \in Time, \A p \in H : p <= ts, region \in BOOLEAN, Hear(d, H, ts)
  PROVE  TimeInv' /\ DetectorInv(pde, heard)' /\ RadarsAreGenuine'
<1> DEFINE r == AddPulse(d, ts)
<1>1. /\ r.hit => /\ IF d.rs.waveform = "short" THEN ShortRadar(H \cup {ts}) ELSE LongRadar(H \cup {ts})
                  /\ IsDetector(r.pde, d.rs)
      /\ ~r.hit => DetectorInv(r.pde, H \cup {ts}) /\ r.pde.rs = d.rs
  BY AddPulseKeeps
<1>2. /\ pde' = IF r.hit THEN Reset(r.pde, ts) ELSE r.pde
      /\ last_pulse_ts' = IF r.hit THEN 0 ELSE ts
      /\ heard' = IF r.hit THEN {} ELSE H \cup {ts}
      /\ radar' = IF r.hit THEN H \cup {ts} ELSE {}
      /\ region' = region
  BY DEF Hear
<1> HIDE DEF r
<1>3. 0 \in Time /\ Time \subseteq Nat /\ IsFiniteSet({}) /\ IsFiniteSet(H \cup {ts}) /\ H \cup {ts} \subseteq Time
  <2>1. 0 \in Time
    BY SpecAssumption DEF Time
  <2>2. IsFiniteSet({}) /\ IsFiniteSet(H \cup {ts})
    BY FS_EmptySet, FS_AddElement
  <2> QED BY <2>1, <2>2, Times
<1>4. CASE r.hit
  <2>1. /\ pde' = Reset(r.pde, ts) /\ last_pulse_ts' = 0 /\ heard' = {} /\ radar' = H \cup {ts}
        /\ IF d.rs.waveform = "short" THEN ShortRadar(H \cup {ts}) ELSE LongRadar(H \cup {ts})
        /\ IsDetector(r.pde, d.rs)
    BY <1>1, <1>2, <1>4
  <2>2. pde' = [rs |-> d.rs, pulses |-> {}, sequences |-> {}, last_ts |-> ts]
    <3>1. r.pde.rs = d.rs
      BY <2>1 DEF IsDetector
    <3> QED BY <2>1, <3>1 DEF Reset
  <2>3. TimeInv'
    BY <1>2, <1>3, <2>1 DEF TimeInv
  <2>4. DetectorInv(pde', heard')
    <3>1. d.rs \in {ShortInit, LongInit}
      BY DEF DetectorInv, QueueInv
    <3>2. /\ pde'.rs \in {ShortInit, LongInit} /\ IsDetector(pde', pde'.rs)
          /\ pde'.pulses = {} /\ pde'.sequences = {} /\ pde'.last_ts \in Time
      BY <2>2, <3>1 DEF IsDetector
    <3> QED BY <2>1, <3>2, Unheard
  <2>5. RadarsAreGenuine'
    <3>1. pde'.rs.waveform = d.rs.waveform
      BY <2>2
    <3> QED BY <2>1, <3>1 DEF RadarsAreGenuine, Waveform
  <2> QED BY <2>3, <2>4, <2>5
<1>5. CASE ~r.hit
  <2>1. /\ pde' = r.pde /\ last_pulse_ts' = ts /\ heard' = H \cup {ts} /\ radar' = {}
        /\ DetectorInv(r.pde, H \cup {ts})
    BY <1>1, <1>2, <1>5
  <2>2. TimeInv'
    <3>1. \A p \in H \cup {ts} : p <= ts
      BY <1>3
    <3> QED BY <1>2, <1>3, <2>1, <3>1 DEF TimeInv
  <2>3. RadarsAreGenuine'
    BY <2>1 DEF RadarsAreGenuine
  <2> QED BY <2>1, <2>2, <2>3
<1> QED BY <1>4, <1>5

\* The invariant of the detector holds before the first pulse.
LEMMA DetectorInitial == Init => DInv
<1> SUFFICES ASSUME Init
             PROVE  DInv
  OBVIOUS
<1>1. /\ region = FALSE /\ last_pulse_ts = 0 /\ heard = {} /\ radar = {}
      /\ pde = [rs |-> ShortInit, pulses |-> {}, sequences |-> {}, last_ts |-> 0]
  BY DEF Init, NewDetector
<1>2. 0 \in Time /\ IsFiniteSet({})
  BY SpecAssumption, FS_EmptySet DEF Time
<1>3. TimeInv
  BY <1>1, <1>2 DEF TimeInv
<1>4. DetectorInv(pde, heard)
  <2>1. /\ pde.rs \in {ShortInit, LongInit} /\ IsDetector(pde, pde.rs)
        /\ pde.pulses = {} /\ pde.sequences = {} /\ pde.last_ts \in Time
    BY <1>1, <1>2 DEF IsDetector
  <2> QED BY <1>1, <2>1, Unheard
<1>5. RadarsAreGenuine
  BY <1>1 DEF RadarsAreGenuine
<1> QED BY <1>3, <1>4, <1>5 DEF DInv

\* Every pulse, pause and reset keeps the invariant of the detector.
LEMMA DetectorStep == DInv /\ [Next]_vars => DInv'
<1> SUFFICES ASSUME DInv, [Next]_vars
             PROVE  DInv'
  OBVIOUS
<1>1. /\ region \in BOOLEAN /\ last_pulse_ts \in Time /\ heard \subseteq Time /\ IsFiniteSet(heard)
      /\ \A p \in heard : p <= last_pulse_ts
      /\ DetectorInv(pde, heard) /\ RadarsAreGenuine
  BY DEF DInv, TimeInv
<1>2. /\ pde \in [rs : {ShortInit, LongInit}, pulses : SUBSET Nat, sequences : SUBSET Fields, last_ts : Time]
  BY <1>1 DEF DetectorInv, QueueInv
<1>3. 0 \in Time /\ Time \subseteq Nat /\ IsFiniteSet({})
  BY SpecAssumption, Times, FS_EmptySet DEF Time
<1>4. CASE SetDomain
  <2>1. last_pulse_ts' = last_pulse_ts /\ radar' = {} /\ region' \in BOOLEAN
    BY <1>4 DEF SetDomain
  <2>2. RadarsAreGenuine'
    BY <2>1 DEF RadarsAreGenuine
  <2>3. CASE region'
    <3>1. heard' = {}
      BY <1>4, <2>3 DEF SetDomain
    <3>2. PICK i \in {ShortInit, LongInit} : pde' = NewDetector(i)
      BY <1>4, <2>3 DEF SetDomain
    <3>3. pde' = [rs |-> i, pulses |-> {}, sequences |-> {}, last_ts |-> 0]
      BY <3>2 DEF NewDetector
    <3>4. /\ pde'.rs \in {ShortInit, LongInit} /\ IsDetector(pde', pde'.rs)
          /\ pde'.pulses = {} /\ pde'.sequences = {} /\ pde'.last_ts \in Time
      BY <1>3, <3>3 DEF IsDetector
    <3>5. DetectorInv(pde', heard')
      BY <3>1, <3>4, Unheard
    <3>6. TimeInv'
      BY <1>1, <1>3, <2>1, <3>1 DEF TimeInv
    <3> QED BY <2>2, <3>5, <3>6 DEF DInv
  <2>4. CASE ~region'
    <3>1. pde' = pde /\ heard' = heard
      BY <1>4, <2>4 DEF SetDomain
    <3>2. TimeInv' /\ DetectorInv(pde', heard')
      BY <1>1, <2>1, <3>1 DEF TimeInv
    <3> QED BY <2>2, <3>2 DEF DInv
  <2> QED BY <2>1, <2>3, <2>4
<1>5. CASE UNCHANGED vars
  <2>1. /\ region' = region /\ last_pulse_ts' = last_pulse_ts /\ pde' = pde /\ heard' = heard /\ radar' = radar
    BY <1>5 DEF vars
  <2> QED BY <1>1, <2>1 DEF DInv, TimeInv, RadarsAreGenuine, Waveform
<1>6. ASSUME NEW d \in Distances[Waveform], Pulse(d) \/ PulseAfterPause(d)
      PROVE  DInv'
  <2> DEFINE ts == last_pulse_ts + d
  <2>1. d \in Nat /\ ts <= MaxTs[Waveform] /\ Waveform \in {"short", "long"}
    <3>1. Waveform \in {"short", "long"}
      BY <1>2, Inits DEF Waveform
    <3>2. d \in Nat
      BY <1>6, <3>1, SpecAssumption
    <3>3. ts <= MaxTs[Waveform]
      BY <1>6 DEF Pulse, PulseAfterPause
    <3> QED BY <3>1, <3>2, <3>3
  <2>2. ts \in Time /\ \A p \in heard : p <= ts
    <3>1. last_pulse_ts \in Nat /\ ts \in Nat /\ last_pulse_ts <= ts
      BY <1>1, <1>3, <2>1
    <3>2. MaxTs["short"] \in Nat /\ MaxTs["long"] \in Nat
      BY SpecAssumption
    <3>3. ts \in Time
      BY <2>1, <3>1, <3>2 DEF Time
    <3>4. \A p \in heard : p \in Nat /\ p <= last_pulse_ts
      BY <1>1, <1>3
    <3> HIDE DEF ts
    <3>5. \A p \in heard : p <= ts
      BY <1>1, <1>3, <3>1, <3>4
    <3> QED BY <3>3, <3>5
  <2> HIDE DEF ts
  <2>3. CASE Hear(pde, heard, ts)
    <3>1. TimeInv' /\ DetectorInv(pde, heard)' /\ RadarsAreGenuine'
      BY <1>1, <2>2, <2>3, HearKeeps
    <3> QED BY <3>1 DEF DInv
  <2>4. CASE Hear(Reset(pde, ts), {}, ts)
    <3> DEFINE n == Reset(pde, ts)
    <3>1. n = [rs |-> pde.rs, pulses |-> {}, sequences |-> {}, last_ts |-> ts]
      BY DEF Reset
    <3> HIDE DEF n
    <3>2. n.rs = pde.rs /\ n.pulses = {} /\ n.sequences = {} /\ n.last_ts = ts /\ IsDetector(n, n.rs)
      BY <3>1 DEF IsDetector
    <3>3. DetectorInv(n, {})
      BY <1>2, <2>2, <3>2, Unheard
    <3>4. {} \subseteq Time /\ \A p \in {} : p <= ts
      OBVIOUS
    <3>5. TimeInv' /\ DetectorInv(pde, heard)' /\ RadarsAreGenuine'
      BY <1>1, <1>3, <2>2, <2>4, <3>2, <3>3, <3>4, HearKeeps DEF n
    <3> QED BY <3>5 DEF DInv
  <2>5. Hear(pde, heard, ts) \/ Hear(Reset(pde, ts), {}, ts)
    BY <1>6 DEF Pulse, PulseAfterPause, ts
  <2> QED BY <2>3, <2>4, <2>5
<1>7. CASE PulseUnset
  BY <1>5, <1>7 DEF PulseUnset
<1> QED BY <1>4, <1>5, <1>6, <1>7 DEF Next

\* The invariant of the detector holds in every state.
LEMMA DetectorInvariant == Spec => []DInv
BY DetectorInitial, DetectorStep, PTL DEF Spec

-----------------------------------------------------------------------------
(* The theorems.                                                           *)

\* A pulse detector never loses count: the queue stays below its size whatever comes,
\* holds nothing older than its window, and long pulses make one sequence.
THEOREM DetectorTypeCorrect == Spec => []DetectorTypeOK
<1>1. DInv => DetectorTypeOK
  <2> SUFFICES ASSUME DInv
               PROVE  DetectorTypeOK
    OBVIOUS
  <2>1. /\ region \in BOOLEAN /\ last_pulse_ts \in Time /\ heard \subseteq Time /\ DetectorInv(pde, heard)
    BY DEF DInv, TimeInv
  <2>2. /\ pde \in [rs : {ShortInit, LongInit}, pulses : SUBSET Nat, sequences : SUBSET Fields, last_ts : Time]
        /\ pde.pulses \subseteq heard /\ Cardinality(pde.pulses) < pde.rs.max_count
        /\ \A p \in pde.pulses : p <= pde.last_ts /\ p + pde.rs.window_size >= pde.last_ts
    BY <2>1 DEF DetectorInv, QueueInv
  <2>3. CASE pde.rs = ShortInit
    <3>1. \A s \in pde.sequences : ShortSequence(s, heard)
      BY <2>1, <2>3 DEF DetectorInv
    <3>2. \A s \in pde.sequences : s \in Sequence
      <4> TAKE s \in pde.sequences
      <4>1. s \in Fields
        BY <2>2
      <4>2. s.pri \in PriMin..PriMax /\ s.first_ts \in heard /\ s.last_ts \in heard
        BY <3>1 DEF ShortSequence
      <4> QED BY <2>1, <4>1, <4>2 DEF Fields, Sequence
    <3>3. Waveform = "short"
      BY <2>3, Inits DEF Waveform
    <3> QED BY <2>1, <2>2, <3>2, <3>3 DEF DetectorTypeOK
  <2>4. CASE pde.rs = LongInit
    <3>1. pde.sequences = {} \/ \E s \in Fields : pde.sequences = {s} /\ LongSequence(s, pde, heard)
      BY <2>1, <2>4 DEF DetectorInv
    <3>2. pde.sequences \subseteq Sequence /\ Cardinality(pde.sequences) <= 1
      <4>1. CASE pde.sequences = {}
        BY <4>1, FS_EmptySet
      <4>2. ASSUME NEW s \in Fields, pde.sequences = {s}, LongSequence(s, pde, heard)
            PROVE  pde.sequences \subseteq Sequence /\ Cardinality(pde.sequences) <= 1
        <5>1. s.pri = 0 /\ s.first_ts \in heard /\ s.last_ts \in heard
          BY <4>2 DEF LongSequence, Bursts
        <5>2. s \in Sequence
          BY <2>1, <5>1 DEF Fields, Sequence
        <5>3. Cardinality({s}) = 1
          BY FS_Singleton
        <5> QED BY <4>2, <5>2, <5>3
      <4> QED BY <3>1, <4>1, <4>2
    <3> QED BY <2>1, <2>2, <3>2 DEF DetectorTypeOK
  <2> QED BY <2>2, <2>3, <2>4
<1> QED BY <1>1, DetectorInvariant, PTL

\* A sequence counts pulses that were heard, each once, and none outside its time: no
\* count ever promises more of a radar than there was.
THEOREM SequencesAreCounted == Spec => []SequencesCountPulses
<1>1. DInv => SequencesCountPulses
  <2> SUFFICES ASSUME DInv
               PROVE  SequencesCountPulses
    OBVIOUS
  <2>1. heard \subseteq Time /\ heard \subseteq Nat /\ IsFiniteSet(heard) /\ DetectorInv(pde, heard)
    BY Times DEF DInv, TimeInv
  <2>2. pde.rs \in {ShortInit, LongInit} /\ pde.sequences \subseteq Fields
    BY <2>1 DEF DetectorInv, QueueInv
  <2>3. SUFFICES ASSUME NEW s \in pde.sequences
                 PROVE  /\ s.first_ts \in heard /\ s.last_ts \in heard
                        /\ Waveform = "short" => s.last_ts - s.first_ts <= Duration(s.pri)
                        /\ s.count <= Cardinality({p \in heard : Waveform = "short" => s.first_ts <= p /\ p <= s.last_ts})
    BY DEF SequencesCountPulses
  <2> DEFINE counted == {p \in heard : Waveform = "short" => s.first_ts <= p /\ p <= s.last_ts}
  <2>4. /\ s \in Fields /\ s.count \in Nat /\ s.first_ts \in Nat /\ s.last_ts \in Nat
        /\ counted \subseteq heard
    BY <2>2 DEF Fields
  <2>5. CASE pde.rs = ShortInit
    <3>1. ShortSequence(s, heard) /\ Waveform = "short"
      BY <2>1, <2>5, Inits DEF DetectorInv, Waveform
    <3>2. PICK p \in heard, after \in SUBSET heard : MadeOf(s, p, after, heard)
      BY <3>1 DEF ShortSequence
    <3> DEFINE X == Matching(s, p, heard) \cup {p} \cup after
    <3>3. /\ \A q \in after : p < q /\ q <= s.last_ts
          /\ s.last_ts \in after \cup {p} /\ s.count <= Cardinality(X) /\ p - s.pri \in Matching(s, p, heard)
      BY <3>2 DEF MadeOf
    <3>4. \A q \in Matching(s, p, heard) : q \in heard /\ s.first_ts <= q /\ q < p
      BY DEF Matching
    <3>5. s.first_ts <= p /\ p <= s.last_ts
      <4>1. PICK q \in Matching(s, p, heard) : TRUE
        BY <3>3
      <4>2. p \in Nat /\ q \in Nat /\ s.first_ts <= q /\ q < p
        BY <2>1, <3>4
      <4>3. s.last_ts = p \/ p < s.last_ts
        BY <3>3
      <4> QED BY <2>4, <4>2, <4>3
    <3>6. X \subseteq counted
      <4>1. \A q \in X : q \in heard /\ s.first_ts <= q /\ q <= s.last_ts
        <5>1. ASSUME NEW q \in Matching(s, p, heard)
              PROVE  q \in heard /\ s.first_ts <= q /\ q <= s.last_ts
          BY <2>1, <2>4, <3>4, <3>5
        <5>2. ASSUME NEW q \in after
              PROVE  q \in heard /\ s.first_ts <= q /\ q <= s.last_ts
          <6>1. q \in Nat /\ p \in Nat /\ p < q /\ q <= s.last_ts
            BY <2>1, <3>3
          <6> QED BY <2>4, <3>5, <6>1
        <5> QED BY <3>5, <5>1, <5>2
      <4> QED BY <4>1
    <3> HIDE DEF X, counted
    <3>7. Cardinality(X) \in Nat /\ Cardinality(counted) \in Nat /\ Cardinality(X) <= Cardinality(counted)
      <4>1. IsFiniteSet(counted)
        BY <2>1, <2>4, FS_Subset
      <4> QED BY <3>6, <4>1, CardSubset
    <3>8. s.count <= Cardinality(counted)
      BY <2>4, <3>3, <3>7
    <3>9. /\ s.first_ts \in heard /\ s.last_ts \in heard /\ s.last_ts <= s.first_ts + Duration(s.pri)
          /\ Duration(s.pri) \in Nat
      <4>1. s.pri \in PriMin..PriMax
        BY <3>1 DEF ShortSequence
      <4> QED BY <3>1, <4>1, Intervals DEF ShortSequence
    <3> QED BY <2>4, <3>8, <3>9 DEF counted
  <2>6. CASE pde.rs = LongInit
    <3>1. LongSequence(s, pde, heard)
      BY <2>1, <2>6 DEF DetectorInv
    <3>2. Waveform # "short"
      BY <2>6, Inits DEF Waveform
    <3>3. counted = heard
      BY <3>2
    <3>4. Bursts(heard) \subseteq heard
      BY DEF Bursts
    <3>5. Cardinality(Bursts(heard)) \in Nat /\ Cardinality(heard) \in Nat /\ Cardinality(Bursts(heard)) <= Cardinality(heard)
      BY <2>1, <3>4, CardSubset
    <3>6. s.first_ts \in heard /\ s.last_ts \in heard /\ s.count <= Cardinality(Bursts(heard))
      BY <3>1, <3>4 DEF LongSequence
    <3> HIDE DEF counted
    <3>7. s.count <= Cardinality(counted)
      BY <2>4, <3>3, <3>5, <3>6
    <3> QED BY <3>2, <3>6, <3>7 DEF counted
  <2> QED BY <2>2, <2>5, <2>6
<1> QED BY <1>1, DetectorInvariant, PTL

\* No radar is reported that was not in the pulses heard: the channel is never given
\* up for noise that only looks like one to a stale or miscounted sequence.
THEOREM RadarsFoundAreGenuine == Spec => []RadarsAreGenuine
<1>1. DInv => RadarsAreGenuine
  BY DEF DInv
<1> QED BY <1>1, DetectorInvariant, PTL
=============================================================================
