---------------------------- MODULE ScoringProofs ----------------------------
(***************************************************************************)
(* The scorer's safety properties hold for a week of any size, any minimum *)
(* of samples and any bound.                                               *)
(*                                                                         *)
(* The argument: a verdict is formed from the samples as they are, and the *)
(* samples stay while it is there (no window is learned unscored once the  *)
(* phase is monitoring), so it is enough to look at the lookup: a          *)
(* confidence of 0.6 takes 9/5 of the minimum in the bucket or four        *)
(* neighbours, and the week as a whole never gives more than 0.5.          *)
(***************************************************************************)
EXTENDS Scoring, FiniteSetTheorems, TLAPS

\* Learning leaves no verdict.
Idle == phase = "learning" => verdict = NoVerdict

SInv == TypeOK /\ Idle /\ CriticalHasGrounds /\ SilentOnlyUnready

-----------------------------------------------------------------------------

\* Four names name four things at most.
LEMMA FourAtMost ==
    ASSUME NEW a, NEW b, NEW c, NEW d
    PROVE  IsFiniteSet({a, b, c, d}) /\ Cardinality({a, b, c, d}) \in 0 .. 4
<1>1. IsFiniteSet({}) /\ Cardinality({}) = 0
  BY FS_EmptySet
<1>2. IsFiniteSet({a}) /\ Cardinality({a}) = 1
  BY FS_Singleton
<1>3. IsFiniteSet({a} \cup {b}) /\ Cardinality({a} \cup {b}) \in 0 .. 2
  BY <1>2, FS_AddElement
<1>4. IsFiniteSet({a, b} \cup {c}) /\ Cardinality({a, b} \cup {c}) \in 0 .. 3
  <2>1. {a} \cup {b} = {a, b}
    OBVIOUS
  <2>. QED  BY <1>3, <2>1, FS_AddElement
<1>5. IsFiniteSet({a, b, c} \cup {d}) /\ Cardinality({a, b, c} \cup {d}) \in 0 .. 4
  <2>1. {a, b} \cup {c} = {a, b, c}
    OBVIOUS
  <2>. QED  BY <1>4, <2>1, FS_AddElement
<1>6. {a, b, c} \cup {d} = {a, b, c, d}
  OBVIOUS
<1>. QED  BY <1>5, <1>6

\* The number of buckets of a week is a positive number, and so is the number of samples that
\* would make all of them ready.
LEMMA WeekSize ==
    /\ HourlyBuckets \in Nat \ {0}
    /\ MinSamples * HourlyBuckets \in Nat \ {0}
<1>1. HourlyBuckets \in Nat \ {0}
  BY ConstantsAssumption DEF HourlyBuckets
<1>. QED  BY <1>1, ConstantsAssumption

\* The samples of all buckets together are a natural number.
LEMMA TotalIsNat == TotalSamples \in Nat
<1>1. IsFiniteSet(Slots)
  BY WeekSize, FS_Interval DEF Slots
<1>2. IsFiniteSet(1 .. SampleCap)
  BY ConstantsAssumption, FS_Interval
<1>3. IsFiniteSet(Slots \X (1 .. SampleCap))
  BY <1>1, <1>2, FS_Product
<1>4. IsFiniteSet({p \in Slots \X (1 .. SampleCap) : p[2] <= samples[p[1]]})
  BY <1>3, FS_Subset
<1>. QED  BY <1>4, FS_CardinalityType DEF TotalSamples

\* Where four neighbours are ready, they are all that the bucket has.
LEMMA FourNeighbors ==
    ASSUME NEW slot \in Slots, Cardinality(ReadyNeighbors(slot)) >= 4, ~Ready(slot)
    PROVE  Surrounded(slot)
<1>. DEFINE all == {slot - 1, slot + 1, slot - HoursPerDay, slot + HoursPerDay}
<1>1. IsFiniteSet(all) /\ Cardinality(all) \in 0 .. 4
  BY FourAtMost
<1>2. ReadyNeighbors(slot) \subseteq all
  BY DEF ReadyNeighbors, NeighborIndices
<1>3. /\ IsFiniteSet(ReadyNeighbors(slot))
      /\ Cardinality(ReadyNeighbors(slot)) <= Cardinality(all)
      /\ Cardinality(ReadyNeighbors(slot)) = Cardinality(all) => ReadyNeighbors(slot) = all
  BY <1>1, <1>2, FS_Subset
<1>4. Cardinality(ReadyNeighbors(slot)) \in Nat
  BY <1>3, FS_CardinalityType
<1>5. ReadyNeighbors(slot) = all
  BY <1>1, <1>3, <1>4
<1>6. \A n \in all : n \in Slots /\ Ready(n)
  BY <1>5 DEF ReadyNeighbors, NeighborIndices
<1>7. slot - HoursPerDay \in Slots /\ slot + HoursPerDay \in Slots
  BY <1>6
<1>8. slot >= HoursPerDay /\ slot + HoursPerDay < HourlyBuckets
  BY <1>7, WeekSize, ConstantsAssumption DEF Slots
<1>. QED  BY <1>6, <1>8 DEF Surrounded

\* A severity is critical only if the base is, with a confidence of 0.6 or more.
LEMMA CriticalIsConfident ==
    ASSUME NEW base \in {"warning", "critical"}, NEW answer
    PROVE  /\ SeverityFromConfidence(base, answer) \in {"info", "warning", "critical"}
           /\ SeverityFromConfidence(base, answer) = "critical" =>
                 base = "critical" /\ ~(5 * answer.num < 3 * answer.den)
BY DEF SeverityFromConfidence

\* An answer with a confidence of 0.6 or more has the grounds it takes.
LEMMA ConfidenceHasGrounds ==
    ASSUME TypeOK, NEW slot \in Slots, ~(5 * Lookup(slot).num < 3 * Lookup(slot).den)
    PROVE  WellSampled(slot) \/ Surrounded(slot)
<1>. DEFINE full == MinSamples * HourlyBuckets
<1>0. samples[slot] \in Nat /\ MinSamples \in Nat \ {0}
  BY ConstantsAssumption DEF TypeOK
<1>1. CASE Ready(slot)
  <2>1. /\ Lookup(slot).num = AtMost(samples[slot], 3 * MinSamples)
        /\ Lookup(slot).den = 3 * MinSamples
    BY <1>1 DEF Lookup, Answer
  <2>2. 5 * AtMost(samples[slot], 3 * MinSamples) >= 9 * MinSamples
    BY <2>1, <1>0 DEF AtMost
  <2>. QED  BY <2>2, <1>0 DEF AtMost, WellSampled
<1>2. CASE ~Ready(slot) /\ ReadyNeighbors(slot) # {}
  <2>1. /\ Lookup(slot).num = 3 * Cardinality(ReadyNeighbors(slot))
        /\ Lookup(slot).den = 16
    BY <1>2 DEF Lookup, Answer
  <2>2. IsFiniteSet(ReadyNeighbors(slot))
    <3>1. ReadyNeighbors(slot) \subseteq
              {slot - 1, slot + 1, slot - HoursPerDay, slot + HoursPerDay}
      BY DEF ReadyNeighbors, NeighborIndices
    <3>. QED  BY <3>1, FourAtMost, FS_Subset
  <2>3. Cardinality(ReadyNeighbors(slot)) \in Nat
    BY <2>2, FS_CardinalityType
  <2>4. Cardinality(ReadyNeighbors(slot)) >= 4
    BY <2>1, <2>3
  <2>. QED  BY <2>4, <1>2, FourNeighbors
<1>3. CASE ~Ready(slot) /\ ReadyNeighbors(slot) = {}
  <2>0. full \in Nat \ {0} /\ TotalSamples \in Nat
    BY WeekSize, TotalIsNat
  <2>1. Lookup(slot) = GlobalFallback
    BY <1>3 DEF Lookup
  <2>2. CASE GlobalFallback = NoAnswer
    BY <2>1, <2>2 DEF NoAnswer
  <2>3. CASE GlobalFallback = Answer(AtMost(TotalSamples, full), 2 * full)
    <3>. HIDE DEF full
    <3>1. /\ Lookup(slot).num = AtMost(TotalSamples, full)
          /\ Lookup(slot).den = 2 * full
      BY <2>1, <2>3 DEF Answer
    <3>2. AtMost(TotalSamples, full) \in Nat /\ AtMost(TotalSamples, full) <= full
      BY <2>0 DEF AtMost
    <3>. QED  BY <2>0, <3>1, <3>2
  <2>. QED  BY <2>2, <2>3 DEF GlobalFallback
<1>. QED  BY <1>1, <1>2, <1>3

-----------------------------------------------------------------------------
(* The invariant. *)

LEMMA InitInv == Init => SInv
<1>. SUFFICES ASSUME Init PROVE SInv
  OBVIOUS
<1>1. 0 \in 0 .. SampleCap
  BY ConstantsAssumption
<1>. QED
  BY <1>1 DEF Init, SInv, TypeOK, Idle, CriticalHasGrounds, SilentOnlyUnready, NoVerdict

\* A new verdict has a kind and a severity, and the grounds for them.
LEMMA ScoreInv ==
    ASSUME SInv, NEW slot \in Slots, NEW present \in BOOLEAN, NEW over \in BOOLEAN,
           NEW maintenance \in BOOLEAN, NEW deviation \in Deviations,
           Score(slot, present, deviation, over, maintenance)
    PROVE  SInv'
<1>. DEFINE kind == Kind(slot, deviation, over, maintenance)
            severity == Severity(slot, kind, deviation)
<1>1. /\ verdict'.slot = slot /\ verdict'.kind = kind /\ verdict'.severity = severity
      /\ phase = "monitoring" /\ phase' = phase /\ samples' = samples
      /\ fastTrack' \in {"on", fastTrack}
  BY DEF Score
<1>2. kind \in {"excused", "ceiling", "cold", "scored", "silent", "rare"}
  BY DEF Kind
<1>3. /\ severity \in {"none", "info", "warning", "critical"}
      /\ severity = "critical" => ~(5 * Lookup(slot).num < 3 * Lookup(slot).den)
  BY <1>2, CriticalIsConfident DEF Severity
<1>4. TypeOK'
  <2>1. TypeOK
    BY DEF SInv
  <2>. HIDE DEF kind, severity
  <2>. QED  BY <1>1, <1>2, <1>3, <2>1 DEF TypeOK
<1>5. CriticalHasGrounds'
  <2>1. severity = "critical" => WellSampled(slot) \/ Surrounded(slot)
    BY <1>3, ConfidenceHasGrounds DEF SInv
  <2>2. WellSampled(slot)' <=> WellSampled(slot)
    BY <1>1 DEF WellSampled
  <2>3. Surrounded(slot)' <=> Surrounded(slot)
    BY <1>1 DEF Surrounded, Ready
  <2>4. (WellSampled(verdict.slot) \/ Surrounded(verdict.slot))'
            <=> (WellSampled(slot) \/ Surrounded(slot))'
    BY <1>1 DEF WellSampled, Surrounded, Ready
  <2>. HIDE DEF kind, severity
  <2>. QED  BY <1>1, <2>1, <2>2, <2>3, <2>4 DEF CriticalHasGrounds
<1>6. SilentOnlyUnready'
  <2>1. ASSUME kind = "silent" PROVE \A s \in Slots : ~Ready(s)
    <3>1. ~Lookup(slot).ready
      BY <2>1 DEF Kind
    <3>. QED  BY <3>1 DEF Lookup, Answer, GlobalFallback
  <2>. HIDE DEF kind, severity
  <2>. QED  BY <1>1, <2>1 DEF SilentOnlyUnready, Ready
<1>7. Idle'
  BY <1>1 DEF Idle
<1>. QED  BY <1>4, <1>5, <1>6, <1>7 DEF SInv

\* A sample more leaves every count within the bound.
LEMMA UpdateInv ==
    ASSUME SInv, NEW slot \in Slots, Update(slot)
    PROVE  samples' \in [Slots -> 0 .. SampleCap]
<1>1. samples \in [Slots -> 0 .. SampleCap] /\ samples[slot] \in 0 .. SampleCap
  BY DEF SInv, TypeOK
<1>2. CASE samples[slot] < SampleCap
  <2>1. samples' = [samples EXCEPT ![slot] = samples[slot] + 1]
    BY <1>2 DEF Update
  <2>2. samples[slot] + 1 \in 0 .. SampleCap
    BY <1>1, <1>2, ConstantsAssumption
  <2>. QED  BY <1>1, <2>1, <2>2
<1>3. CASE ~(samples[slot] < SampleCap)
  BY <1>1, <1>3 DEF Update
<1>. QED  BY <1>2, <1>3

LEMMA NextInv == SInv /\ [Next]_vars => SInv'
<1>. SUFFICES ASSUME SInv, [Next]_vars PROVE SInv'
  OBVIOUS
<1>. USE DEF SInv
<1>1. ASSUME NEW slot \in Slots, Ingest(slot) PROVE SInv'
  <2>1. verdict = NoVerdict /\ verdict' = NoVerdict
    BY <1>1 DEF Ingest, Idle
  <2>2. samples' \in [Slots -> 0 .. SampleCap]
    BY <1>1, UpdateInv DEF Ingest
  <2>. QED  BY <1>1, <2>1, <2>2
         DEF Ingest, TypeOK, Idle, CriticalHasGrounds, SilentOnlyUnready, NoVerdict
<1>2. ASSUME NEW slot \in Slots, NEW present \in BOOLEAN, NEW over \in BOOLEAN,
             NEW maintenance \in BOOLEAN, NEW deviation \in Deviations,
             Score(slot, present, deviation, over, maintenance)
      PROVE  SInv'
  BY <1>2, ScoreInv
<1>3. ASSUME NEW held \in BOOLEAN, IngestFiltered(held) PROVE SInv'
  <2>1. verdict' = NoVerdict /\ verdict.slot \in Slots
    BY <1>3 DEF IngestFiltered, TypeOK
  <2>2. samples' \in [Slots -> 0 .. SampleCap]
    <3>1. CASE Update(verdict.slot)
      BY <3>1, <2>1, UpdateInv
    <3>2. CASE UNCHANGED samples
      BY <3>2 DEF TypeOK
    <3>. QED  BY <1>3, <3>1, <3>2 DEF IngestFiltered
  <2>. QED  BY <1>3, <2>1, <2>2
         DEF IngestFiltered, TypeOK, Idle, CriticalHasGrounds, SilentOnlyUnready, NoVerdict
<1>4. CASE LearningEnds
  <2>1. verdict = NoVerdict /\ verdict' = NoVerdict
    BY <1>4 DEF LearningEnds, Idle
  <2>. QED  BY <1>4, <2>1
         DEF LearningEnds, TypeOK, Idle, CriticalHasGrounds, SilentOnlyUnready, NoVerdict
<1>5. CASE FastTrackEnds
  <2>1. verdict = NoVerdict /\ verdict' = NoVerdict
    BY <1>5 DEF FastTrackEnds
  <2>. QED  BY <1>5, <2>1
         DEF FastTrackEnds, TypeOK, Idle, CriticalHasGrounds, SilentOnlyUnready, NoVerdict
<1>6. CASE UNCHANGED vars
  BY <1>6 DEF vars, TypeOK, Idle, CriticalHasGrounds, SilentOnlyUnready, WellSampled,
              Surrounded, Ready
<1>. QED  BY <1>1, <1>2, <1>3, <1>4, <1>5, <1>6 DEF Next

\* Every variable of the scoring model keeps its type.
THEOREM TypeCorrect == Spec => []TypeOK
<1>1. SInv => TypeOK
  BY DEF SInv
<1>. QED  BY <1>1, InitInv, NextInv, PTL DEF Spec

\* No critical alert rests on a bucket that is thin unless ready buckets surround it.
THEOREM CriticalsAreGrounded == Spec => []CriticalHasGrounds
<1>1. SInv => CriticalHasGrounds
  BY DEF SInv
<1>. QED  BY <1>1, InitInv, NextInv, PTL DEF Spec

\* A known dimension is passed over only while no bucket of it is ready.
THEOREM SilenceIsUnready == Spec => []SilentOnlyUnready
<1>1. SInv => SilentOnlyUnready
  BY DEF SInv
<1>. QED  BY <1>1, InitInv, NextInv, PTL DEF Spec
=============================================================================
