--------------------------- MODULE DetectionProofs ---------------------------
(***************************************************************************)
(* What the detectors report of the event stream happened, and what they   *)
(* promise to report they do report: for any processes, rules, windows,    *)
(* caps, keys, gaps, and any number of events, restarts and failures.      *)
(*                                                                         *)
(* Loops.  What a loop over a list computes is argued round by round       *)
(* (UpTo).  Pruning leaves the end of a list, as its times ascend          *)
(* (SinceIs).  Of what the matcher has matched after n steps there is a    *)
(* lower bound, as no start that has run out hides one (Caught), and an    *)
(* upper one (Partial).                                                    *)
(*                                                                         *)
(* Rules.  A list holds every recorded event that is recent, drawn from    *)
(* the history in its order (CompositeInv).                                *)
(*                                                                         *)
(* Kill chains.  A list is the end of its history and holds what is within *)
(* the window of the last Cap events; none of it was too old at any event  *)
(* of any pid, hence a stale exec needs silence (StepsInv).  A span is     *)
(* remembered for exactly the window (SpansInv).                           *)
(*                                                                         *)
(* First sightings.  Memory knows every key that this incarnation has      *)
(* reported (Remembered) and the store every key whose report left a row   *)
(* (Rows); so a key on its way to a report is new to both, or it was not   *)
(* looked up (NewInHand).  Conversely what memory or store know has been   *)
(* reported, is about to be, or was cut off (Accounted).                   *)
(*                                                                         *)
(* Beacons.  The kept times are the last eight connects (BeaconInv).       *)
(***************************************************************************)
EXTENDS Detectors, Tracker, WellFoundedInduction, TLAPS

-----------------------------------------------------------------------------
(* Loops. *)

LEMMA LeastNatural ==
    ASSUME NEW T \in SUBSET Nat, T # {}
    PROVE  \E x \in T : \A y \in T : x <= y
<1>. DEFINE R == {ss \in Nat \X Nat : ss[1] < ss[2]}
<1>1. IsWellFoundedOn(R, Nat)
  BY NatLessThanWellFounded DEF OpToRel
<1>2. PICK x \in T : \A y \in T : ~ (<<y, x>> \in R)
  <2>. HIDE DEF R
  <2>. QED  BY <1>1, WFMin
<1>3. ASSUME NEW y \in T
      PROVE  x <= y
  <2>1. <<y, x>> \notin R /\ x \in Nat /\ y \in Nat
    BY <1>2
  <2>. QED  BY <2>1 DEF R
<1>. QED  BY <1>3

\* A set of numbers up to n that has 0 and with each number the next one has them all.
LEMMA UpTo ==
    ASSUME NEW n \in Nat, NEW G, 0 \in G,
           \A i \in Nat : i < n /\ i \in G => i + 1 \in G
    PROVE  \A i \in 0..n : i \in G
<1>1. SUFFICES ASSUME NEW j \in 0..n, j \notin G PROVE FALSE
  OBVIOUS
<1>. DEFINE T == {i \in Nat : i <= n /\ i \notin G}
<1>2. PICK i \in T : \A y \in T : i <= y
  <2>1. T \in SUBSET Nat /\ T # {}
    BY <1>1
  <2>. HIDE DEF T
  <2>. QED  BY <2>1, LeastNatural
<1>3. i \in Nat /\ i <= n /\ i \notin G /\ i # 0
  OBVIOUS
<1>4. i - 1 \in Nat /\ i - 1 < n /\ i - 1 \notin T
  BY <1>2, <1>3
<1>5. i - 1 \in G
  BY <1>3, <1>4
<1>. QED  BY <1>3, <1>4, <1>5

\* What a loop over the numbers up to n computes, round by round.
IsLoop(f, n, start, round) == f[0] = start /\ \A i \in 1..n : f[i] = round[<<i, f[i - 1]>>]

\* It computes something.
LEMMA LoopExists ==
    ASSUME NEW n \in Nat, NEW T, NEW start \in T, NEW round \in [(1..n) \X T -> T]
    PROVE  \E f \in [0..n -> T] : IsLoop(f, n, start, round)
<1>. DEFINE G == {m \in Nat : m <= n => \E f \in [0..m -> T] :
                    f[0] = start /\ \A i \in 1..m : f[i] = round[<<i, f[i - 1]>>]}
<1>1. 0 \in G
  <2>1. PICK f : f = [i \in 0..0 |-> start]
    OBVIOUS
  <2>2. f \in [0..0 -> T] /\ f[0] = start
    BY <2>1
  <2>3. \A i \in 1..0 : f[i] = round[<<i, f[i - 1]>>]
    OBVIOUS
  <2>. QED  BY <2>2, <2>3
<1>2. ASSUME NEW m \in Nat, m < n, m \in G
      PROVE  m + 1 \in G
  <2>1. PICK f \in [0..m -> T] :
            f[0] = start /\ \A i \in 1..m : f[i] = round[<<i, f[i - 1]>>]
    BY <1>2
  <2>. DEFINE last == round[<<m + 1, f[m]>>]
              g == [i \in 0..m + 1 |-> IF i = m + 1 THEN last ELSE f[i]]
  <2>2. last \in T
    <3>1. m + 1 \in 1..n /\ f[m] \in T
      BY <1>2, <2>1
    <3>. QED  BY <3>1
  <2>. HIDE DEF last
  <2>3. g \in [0..m + 1 -> T]
    <3>1. \A i \in 0..m + 1 : i # m + 1 => i \in 0..m
      OBVIOUS
    <3>. QED  BY <2>1, <2>2, <3>1
  <2>4. g[0] = start
    BY <2>1
  <2>5. ASSUME NEW i \in 1..m + 1
        PROVE  g[i] = round[<<i, g[i - 1]>>]
    <3>1. i - 1 \in 0..m /\ g[i - 1] = f[i - 1]
      OBVIOUS
    <3>2. CASE i = m + 1
      <4>1. g[i] = last /\ i - 1 = m
        BY <3>2
      <4>. QED  BY <3>1, <3>2, <4>1 DEF last
    <3>3. CASE i # m + 1
      BY <2>1, <3>1, <3>3
    <3>. QED  BY <3>2, <3>3
  <2>. HIDE DEF g
  <2>. QED  BY <2>3, <2>4, <2>5
<1>. HIDE DEF G
<1>3. n \in 0..n
  OBVIOUS
<1>4. n \in G
  BY <1>1, <1>2, <1>3, UpTo
<1>. QED  BY <1>4 DEF G, IsLoop

LEMMA SinceUnfolds ==
    ASSUME NEW S, NEW seq \in Seq(S), NEW limit
    PROVE  \E f : /\ f[0] = <<>> /\ Since(seq, limit) = f[Len(seq)]
                  /\ \A i \in 1..Len(seq) :
                        f[i] = IF now - seq[i].at <= limit THEN Append(f[i - 1], seq[i])
                               ELSE f[i - 1]
<1>0. PICK n \in Nat : n = Len(seq)
  OBVIOUS
<1>. DEFINE Round(i, list) == IF now - seq[i].at <= limit THEN Append(list, seq[i]) ELSE list
            Body(g) == [i \in 0..n |-> IF i = 0 THEN <<>> ELSE Round(i, g[i - 1])]
            kept == CHOOSE g : g = Body(g)
<1>2. Since(seq, limit) = kept[n]
  BY <1>0 DEF Since
<1>3. PICK T : T = Seq(S)
  OBVIOUS
<1>4. <<>> \in T /\ \A i \in 1..n, list \in T : Round(i, list) \in T
  BY <1>0, <1>3
<1>. HIDE DEF Round
<1>5. [x \in (1..n) \X T |-> Round(x[1], x[2])] \in [(1..n) \X T -> T]
  BY <1>4
<1>6. PICK round \in [(1..n) \X T -> T] : round = [x \in (1..n) \X T |-> Round(x[1], x[2])]
  BY <1>5
<1>7. \A i \in 1..n, list \in T : round[<<i, list>>] = Round(i, list)
  BY <1>6
<1>8. PICK f \in [0..n -> T] :
        f[0] = <<>> /\ \A i \in 1..n : f[i] = round[<<i, f[i - 1]>>]
  <2>1. PICK start \in T : start = <<>>
    BY <1>4
  <2>2. \E f \in [0..n -> T] : IsLoop(f, n, start, round)
    BY LoopExists
  <2>. QED  BY <2>1, <2>2 DEF IsLoop
<1>9. f = Body(f)
  <2>1. ASSUME NEW i \in 0..n, i # 0
        PROVE  f[i] = Round(i, f[i - 1])
    <3>1. i \in 1..n /\ i - 1 \in 0..n
      BY <1>0, <2>1
    <3>. QED  BY <1>7, <1>8, <3>1
  <2>2. f = [i \in 0..n |-> f[i]]
    BY <1>8
  <2>. QED  BY <1>8, <2>1, <2>2
<1>10. kept = Body(kept)
  <2>. HIDE DEF Body
  <2>. QED  BY <1>9
<1>11. kept[0] = <<>> /\ \A i \in 1..n : kept[i] = Round(i, kept[i - 1])
  <2>1. PICK g : g = kept
    OBVIOUS
  <2>2. g = Body(g)
    BY <1>10, <2>1
  <2>3. g[0] = <<>> /\ \A i \in 1..n : g[i] = Round(i, g[i - 1])
    BY <1>0, <2>2
  <2>. HIDE DEF kept
  <2>. QED  BY <2>1, <2>3
<1>. HIDE DEF kept
<1>. QED  BY <1>0, <1>2, <1>11 DEF Round
\* The rounds of the matcher, one per step.
Matching(f, rule, seq) ==
    /\ f[0] = <<>> /\ MatchRule(rule, seq) = f[Len(seq)]
    /\ \A i \in 1..Len(seq) : f[i] = Advance(rule, f[i - 1], seq[i])

LEMMA MatchUnfolds ==
    ASSUME NEW S, NEW rule, NEW seq \in Seq(S)
    PROVE  \E f : Matching(f, rule, seq)
<1>0. PICK n \in Nat : n = Len(seq)
  OBVIOUS
<1>. DEFINE Round(i, list) == Advance(rule, list, seq[i])
            Body(g) == [i \in 0..n |-> IF i = 0 THEN <<>> ELSE Round(i, g[i - 1])]
            matched == CHOOSE g : g = Body(g)
<1>2. MatchRule(rule, seq) = matched[n]
  BY <1>0 DEF MatchRule
<1>3. PICK T : T = Seq(S)
  OBVIOUS
<1>4. <<>> \in T /\ \A i \in 1..n, list \in T : Round(i, list) \in T
  <2>1. ASSUME NEW s \in S, NEW list \in Seq(S)
        PROVE  Advance(rule, list, s) \in Seq(S)
    BY DEF Advance
  <2>. QED  BY <1>0, <1>3, <2>1
<1>. HIDE DEF Round
<1>5. [x \in (1..n) \X T |-> Round(x[1], x[2])] \in [(1..n) \X T -> T]
  BY <1>4
<1>6. PICK round \in [(1..n) \X T -> T] : round = [x \in (1..n) \X T |-> Round(x[1], x[2])]
  BY <1>5
<1>7. \A i \in 1..n, list \in T : round[<<i, list>>] = Round(i, list)
  BY <1>6
<1>8. PICK f \in [0..n -> T] :
        f[0] = <<>> /\ \A i \in 1..n : f[i] = round[<<i, f[i - 1]>>]
  <2>1. PICK start \in T : start = <<>>
    BY <1>4
  <2>2. \E f \in [0..n -> T] : IsLoop(f, n, start, round)
    BY LoopExists
  <2>. QED  BY <2>1, <2>2 DEF IsLoop
<1>9. f = Body(f)
  <2>1. ASSUME NEW i \in 0..n, i # 0
        PROVE  f[i] = Round(i, f[i - 1])
    <3>1. i \in 1..n /\ i - 1 \in 0..n
      BY <1>0, <2>1
    <3>. QED  BY <1>7, <1>8, <3>1
  <2>2. f = [i \in 0..n |-> f[i]]
    BY <1>8
  <2>. QED  BY <1>8, <2>1, <2>2
<1>10. matched = Body(matched)
  <2>. HIDE DEF Body
  <2>. QED  BY <1>9
<1>11. matched[0] = <<>> /\ \A i \in 1..n : matched[i] = Round(i, matched[i - 1])
  <2>1. PICK g : g = matched
    OBVIOUS
  <2>2. g = Body(g)
    BY <1>10, <2>1
  <2>3. g[0] = <<>> /\ \A i \in 1..n : g[i] = Round(i, g[i - 1])
    BY <1>0, <2>2
  <2>. HIDE DEF matched
  <2>. QED  BY <2>1, <2>3
<1>. HIDE DEF matched
<1>. QED  BY <1>0, <1>2, <1>11 DEF Round, Matching

\* In a list of ascending times the loop keeps the end of it.
InTime(seq) == \A i, j \in 1..Len(seq) : i < j => seq[i].at <= seq[j].at

\* The first k of n steps are too old and the list holds the others.
Tells(list, seq, n, k, limit) ==
    /\ list \in Seq(Steps) /\ Len(list) = n - k
    /\ \A j \in 1..n - k : list[j] = seq[k + j]
    /\ \A j \in 1..n : now - seq[j].at <= limit <=> j > k

LEMMA SinceIs ==
    ASSUME StreamAssumption, now \in Nat,
           NEW seq \in Seq(Steps), InTime(seq), NEW limit \in Int
    PROVE  \E k \in 0..Len(seq) : Tells(Since(seq, limit), seq, Len(seq), k, limit)
<1>1. PICK f : /\ f[0] = <<>> /\ Since(seq, limit) = f[Len(seq)]
               /\ \A i \in 1..Len(seq) :
                    f[i] = IF now - seq[i].at <= limit THEN Append(f[i - 1], seq[i])
                           ELSE f[i - 1]
  <2>1. PICK S : S = Steps
    OBVIOUS
  <2>2. seq \in Seq(S)
    BY <2>1
  <2>. QED  BY <2>2, SinceUnfolds
<1>. DEFINE G == {i \in Nat : i <= Len(seq) => \E k \in 0..i : Tells(f[i], seq, i, k, limit)}
<1>2. Len(seq) \in Nat /\ \A i \in 1..Len(seq) : seq[i] \in Steps /\ seq[i].at \in Nat
  <2>1. \A s \in Steps : s.at \in Nat
    BY DEF Steps, StreamAssumption
  <2>2. \A i \in 1..Len(seq) : seq[i] \in Steps
    OBVIOUS
  <2>. QED  BY <2>1, <2>2
<1>3. 0 \in G
  <2>1. Tells(f[0], seq, 0, 0, limit)
    BY <1>1 DEF Tells
  <2>. QED  BY <2>1
<1>4. ASSUME NEW m \in Nat, m < Len(seq), m \in G
      PROVE  m + 1 \in G
  <2>1. PICK k \in 0..m : Tells(f[m], seq, m, k, limit)
    BY <1>4
  <2>2. m + 1 \in 1..Len(seq) /\ m + 1 - 1 = m
    BY <1>2, <1>4
  <2>3. CASE now - seq[m + 1].at <= limit
    <3>1. f[m + 1] = Append(f[m], seq[m + 1])
      <4>1. PICK i \in 1..Len(seq) : i = m + 1
        BY <2>2
      <4>2. f[i] = Append(f[i - 1], seq[i])
        BY <1>1, <2>3, <4>1
      <4>. QED  BY <2>2, <4>1, <4>2
    <3>2. Tells(f[m + 1], seq, m + 1, k, limit)
      <4>1. seq[m + 1] \in Steps
        BY <1>2, <2>2
      <4>2. f[m] \in Seq(Steps) /\ Len(f[m]) = m - k
        BY <2>1 DEF Tells
      <4>3. f[m + 1] \in Seq(Steps) /\ Len(f[m + 1]) = m + 1 - k
            /\ f[m + 1][m - k + 1] = seq[m + 1]
            /\ \A j \in 1..m - k : f[m + 1][j] = f[m][j]
        <5>1. PICK list \in Seq(Steps) : list = f[m]
          BY <4>2
        <5>2. PICK s \in Steps : s = seq[m + 1]
          BY <4>1
        <5>3. PICK new : new = Append(list, s)
          OBVIOUS
        <5>4. new \in Seq(Steps) /\ Len(new) = Len(list) + 1 /\ new[Len(list) + 1] = s
              /\ \A j \in 1..Len(list) : new[j] = list[j]
          BY <5>3
        <5>. QED  BY <3>1, <4>2, <5>1, <5>2, <5>3, <5>4
      <4>4. ASSUME NEW j \in 1..m + 1 - k
            PROVE  f[m + 1][j] = seq[k + j]
        <5>1. CASE j = m + 1 - k
          <6>1. j = m - k + 1 /\ k + j = m + 1
            BY <5>1
          <6>. QED  BY <4>3, <6>1
        <5>2. CASE j # m + 1 - k
          <6>1. j \in 1..m - k
            BY <5>2
          <6>. QED  BY <2>1, <4>3, <6>1 DEF Tells
        <5>. QED  BY <5>1, <5>2
      <4>5. ASSUME NEW j \in 1..m + 1
            PROVE  now - seq[j].at <= limit <=> j > k
        <5>1. CASE j = m + 1
          BY <2>3, <5>1
        <5>2. CASE j # m + 1
          <6>1. j \in 1..m
            BY <5>2
          <6>. QED  BY <2>1, <6>1 DEF Tells
        <5>. QED  BY <5>1, <5>2
      <4>. QED  BY <4>3, <4>4, <4>5 DEF Tells
    <3>3. k \in 0..m + 1
      OBVIOUS
    <3>. QED  BY <3>2, <3>3
  <2>4. CASE ~(now - seq[m + 1].at <= limit)
    <3>1. f[m + 1] = f[m]
      BY <1>1, <2>2, <2>4
    <3>2. ASSUME NEW j \in 1..m + 1
          PROVE  ~(now - seq[j].at <= limit)
      <4>1. j \in 1..Len(seq) /\ (j # m + 1 => j < m + 1)
        BY <1>2, <2>2
      <4>2. seq[j].at \in Nat /\ seq[m + 1].at \in Nat /\ seq[j].at <= seq[m + 1].at
        BY <1>2, <2>2, <4>1 DEF InTime
      <4>. QED  BY SMTT(30), <2>4, <4>2
    <3>3. k = m
      <4>1. SUFFICES ASSUME k # m PROVE FALSE
        OBVIOUS
      <4>2. m \in 1..m /\ m > k /\ m \in 1..m + 1
        BY <4>1
      <4>. QED  BY <2>1, <3>2, <4>2 DEF Tells
    <3>4. f[m + 1] \in Seq(Steps) /\ Len(f[m + 1]) = 0
      BY <2>1, <3>1, <3>3 DEF Tells
    <3>5. Tells(f[m + 1], seq, m + 1, m + 1, limit)
      BY <3>2, <3>4 DEF Tells
    <3>6. m + 1 \in 0..m + 1
      OBVIOUS
    <3>. QED  BY <3>5, <3>6
  <2>. QED  BY <2>3, <2>4
<1>. HIDE DEF G
<1>5. Len(seq) \in 0..Len(seq)
  BY <1>2
<1>6. Len(seq) \in G
  BY <1>2, <1>3, <1>4, <1>5, UpTo
<1>7. \E k \in 0..Len(seq) : Tells(f[Len(seq)], seq, Len(seq), k, limit)
  BY <1>2, <1>6 DEF G
<1>. QED  BY <1>1, <1>7
\* The steps of a list are in the order of their arrival.
Ascending(seq) == \A i, j \in DOMAIN seq : i < j => seq[i].nr < seq[j].nr

\* What the matcher has matched of the first n steps.
Partial(m, rule, seq, n) ==
    /\ m \in Seq(Steps) /\ Len(m) <= Len(rule.sequence)
    /\ \A j \in 1..Len(m) :
        /\ m[j].type = rule.sequence[j] /\ m[j].at - m[1].at <= rule.window
        /\ \E x \in 1..n : m[j] = seq[x]
    /\ \A j \in 1..Len(m) : j > 1 => m[j - 1].nr < m[j].nr

LEMMA AdvanceKeeps ==
    ASSUME StreamAssumption, CompositeAssumption, NEW rule \in Rules,
           NEW seq \in Seq(Steps), Ascending(seq), NEW n \in Nat, n < Len(seq),
           NEW m, Partial(m, rule, seq, n)
    PROVE  Partial(Advance(rule, m, seq[n + 1]), rule, seq, n + 1)
<1>1. PICK s \in Steps : s = seq[n + 1]
  OBVIOUS
<1>2. /\ Len(rule.sequence) \in Nat /\ Len(rule.sequence) >= 2 /\ rule.window \in Nat
      /\ s.at \in Nat /\ \A x \in 1..Len(seq) : seq[x].nr \in Nat
  <2>1. \A t \in Steps : t.at \in Nat /\ t.nr \in Nat
    BY DEF Steps, StreamAssumption
  <2>2. \A x \in 1..Len(seq) : seq[x] \in Steps
    OBVIOUS
  <2>. QED  BY <1>1, <2>1, <2>2 DEF CompositeAssumption
<1>3. \A x \in 1..n : x \in 1..n + 1 /\ seq[x].nr < s.nr
  BY <1>1 DEF Ascending
<1>4. n + 1 \in 1..n + 1
  OBVIOUS
<1>5. Partial(m, rule, seq, n + 1)
  BY <1>3 DEF Partial
<1>6. Partial(<<>>, rule, seq, n + 1)
  BY <1>2 DEF Partial
<1>7. ASSUME s.type = rule.sequence[1]
      PROVE  Partial(<<s>>, rule, seq, n + 1)
  <2>1. PICK new : new = <<s>>
    OBVIOUS
  <2>2. new \in Seq(Steps) /\ Len(new) = 1 /\ new[1] = s
    BY <2>1
  <2>. QED  BY <1>1, <1>2, <1>4, <1>7, <2>1, <2>2 DEF Partial
<1>8. ASSUME Len(m) # Len(rule.sequence), s.type = rule.sequence[Len(m) + 1],
             m # <<>> => s.at - m[1].at <= rule.window
      PROVE  Partial(Append(m, s), rule, seq, n + 1)
  <2>1. PICK new : new = Append(m, s)
    OBVIOUS
  <2>2. m \in Seq(Steps) /\ Len(m) \in Nat /\ Len(m) <= Len(rule.sequence)
    BY DEF Partial
  <2>3. /\ new \in Seq(Steps) /\ Len(new) = Len(m) + 1 /\ new[Len(m) + 1] = s
        /\ \A j \in 1..Len(m) : new[j] = m[j]
    BY <2>1, <2>2
  <2>4. ASSUME NEW j \in 1..Len(new)
        PROVE  /\ new[j].type = rule.sequence[j] /\ new[j].at - new[1].at <= rule.window
               /\ \E x \in 1..n + 1 : new[j] = seq[x]
               /\ j > 1 => new[j - 1].nr < new[j].nr
    <3>1. CASE j = Len(m) + 1
      <4>1. new[j].type = rule.sequence[j] /\ \E x \in 1..n + 1 : new[j] = seq[x]
        BY <1>1, <1>4, <1>8, <2>3, <3>1
      <4>2. new[j].at - new[1].at <= rule.window
        <5>1. CASE m = <<>>
          <6>1. j = 1 /\ new[1] = s
            BY <2>3, <3>1, <5>1
          <6>. QED  BY <1>2, <6>1
        <5>2. CASE m # <<>>
          <6>1. new[1] = m[1]
            BY <2>2, <2>3, <5>2
          <6>. QED  BY <1>8, <2>3, <3>1, <5>2, <6>1
        <5>. QED  BY <5>1, <5>2
      <4>3. ASSUME j > 1
            PROVE  new[j - 1].nr < new[j].nr
        <5>1. j - 1 \in 1..Len(m) /\ new[j - 1] = m[j - 1] /\ new[j] = s
          BY <2>2, <2>3, <3>1, <4>3
        <5>2. PICK x \in 1..n : m[j - 1] = seq[x]
          BY <5>1 DEF Partial
        <5>. QED  BY <1>3, <5>1, <5>2
      <4>. QED  BY <4>1, <4>2, <4>3
    <3>2. CASE j # Len(m) + 1
      <4>1. j \in 1..Len(m) /\ new[j] = m[j] /\ 1 \in 1..Len(m) /\ new[1] = m[1]
        BY <2>2, <2>3, <3>2
      <4>2. j > 1 => j - 1 \in 1..Len(m) /\ new[j - 1] = m[j - 1]
        BY <2>2, <2>3, <4>1
      <4>. QED  BY <1>3, <4>1, <4>2 DEF Partial
    <3>. QED  BY <3>1, <3>2
  <2>5. Len(new) <= Len(rule.sequence)
    BY <1>2, <1>8, <2>2, <2>3
  <2>. QED  BY <2>1, <2>3, <2>4, <2>5 DEF Partial
<1>. DEFINE next == Advance(rule, m, s)
<1>9. \/ next = m
      \/ next = <<>>
      \/ next = <<s>> /\ s.type = rule.sequence[1]
      \/ /\ next = Append(m, s) /\ Len(m) # Len(rule.sequence)
         /\ s.type = rule.sequence[Len(m) + 1] /\ (m # <<>> => s.at - m[1].at <= rule.window)
  <2>1. m # <<>> => m[1].at \in Int /\ s.at \in Int /\ rule.window \in Int
    <3>1. m # <<>> => m[1] \in Steps
      BY DEF Partial
    <3>. QED  BY <1>2, <3>1 DEF Steps, StreamAssumption
  <2>. QED  BY SMTT(30), <2>1 DEF Advance
<1>. HIDE DEF next
<1>10. Partial(next, rule, seq, n + 1)
  BY <1>5, <1>6, <1>7, <1>8, <1>9
<1>. QED  BY <1>1, <1>10 DEF next

LEMMA MatchIsPartial ==
    ASSUME StreamAssumption, CompositeAssumption, NEW rule \in Rules,
           NEW seq \in Seq(Steps), Ascending(seq)
    PROVE  Partial(MatchRule(rule, seq), rule, seq, Len(seq))
<1>1. PICK f : /\ f[0] = <<>> /\ MatchRule(rule, seq) = f[Len(seq)]
               /\ \A i \in 1..Len(seq) : f[i] = Advance(rule, f[i - 1], seq[i])
  <2>1. PICK S : S = Steps
    OBVIOUS
  <2>2. seq \in Seq(S)
    BY <2>1
  <2>3. \E f : Matching(f, rule, seq)
    BY <2>2, MatchUnfolds
  <2>. QED  BY <2>3 DEF Matching
<1>. DEFINE G == {i \in Nat : i <= Len(seq) => Partial(f[i], rule, seq, i)}
<1>2. Len(seq) \in Nat
  OBVIOUS
<1>3. 0 \in G
  <2>1. Len(rule.sequence) \in Nat
    BY DEF CompositeAssumption
  <2>2. Partial(<<>>, rule, seq, 0)
    BY <2>1 DEF Partial
  <2>. HIDE DEF Partial
  <2>. QED  BY <1>1, <2>2
<1>4. ASSUME NEW n \in Nat, n < Len(seq), n \in G
      PROVE  n + 1 \in G
  <2>1. PICK i \in 1..Len(seq) : i = n + 1
    BY <1>2, <1>4
  <2>2. f[i] = Advance(rule, f[i - 1], seq[i]) /\ i - 1 = n
    BY <1>1, <2>1
  <2>3. PICK m : m = f[n] /\ Partial(m, rule, seq, n)
    BY <1>4
  <2>4. Partial(Advance(rule, m, seq[n + 1]), rule, seq, n + 1)
    BY <1>4, <2>3, AdvanceKeeps
  <2>. QED  BY <2>1, <2>2, <2>3, <2>4
<1>. HIDE DEF G
<1>5. Len(seq) \in 0..Len(seq)
  BY <1>2
<1>6. Len(seq) \in G
  BY <1>2, <1>3, <1>4, <1>5, UpTo
<1>. QED  BY <1>1, <1>2, <1>6 DEF G
\* No start of the rule is in the list whose window has run out at a later step.
NoneStale(rule, seq) ==
    \A x, y \in 1..Len(seq) :
        seq[x].type = rule.sequence[1] => seq[y].at - seq[x].at <= rule.window

\* Where the rule's steps are, one after another.
Fits(where, rule, seq) ==
    /\ where \in [1..Len(rule.sequence) -> 1..Len(seq)]
    /\ \A j \in 1..Len(rule.sequence) : seq[where[j]].type = rule.sequence[j]
    /\ \A j \in 1..Len(rule.sequence) - 1 : where[j] < where[j + 1]

\* How far the matcher is at least after n steps.
Caught(m, where, rule, n) == \A j \in 1..Len(rule.sequence) : where[j] <= n => j <= Len(m)

LEMMA AdvanceCatches ==
    ASSUME StreamAssumption, CompositeAssumption, NEW rule \in Rules,
           NEW seq \in Seq(Steps), NoneStale(rule, seq), NEW where, Fits(where, rule, seq),
           NEW n \in Nat, n < Len(seq),
           NEW m, Partial(m, rule, seq, n), Caught(m, where, rule, n)
    PROVE  Caught(Advance(rule, m, seq[n + 1]), where, rule, n + 1)
<1>1. PICK s \in Steps : s = seq[n + 1]
  OBVIOUS
<1>2. /\ Len(rule.sequence) \in Nat /\ m \in Seq(Steps) /\ Len(m) \in Nat
      /\ Len(m) <= Len(rule.sequence)
  BY DEF CompositeAssumption, Partial
<1>3. m # <<>> => s.at - m[1].at <= rule.window
  <2>1. SUFFICES ASSUME m # <<>> PROVE s.at - m[1].at <= rule.window
    OBVIOUS
  <2>2. 1 \in 1..Len(m)
    BY <1>2, <2>1
  <2>3. PICK x \in 1..n : m[1] = seq[x] /\ m[1].type = rule.sequence[1]
    BY <2>2 DEF Partial
  <2>4. x \in 1..Len(seq) /\ n + 1 \in 1..Len(seq)
    OBVIOUS
  <2>. QED  BY <1>1, <2>3, <2>4 DEF NoneStale
<1>. DEFINE next == Advance(rule, m, s)
<1>4. next = IF Len(m) = Len(rule.sequence) \/ s.type # rule.sequence[Len(m) + 1]
             THEN m ELSE Append(m, s)
  <2>1. m # <<>> => m[1].at \in Int /\ s.at \in Int /\ rule.window \in Int
    <3>1. m # <<>> => m[1] \in Steps
      BY DEF Partial
    <3>. QED  BY <3>1 DEF Steps, StreamAssumption, CompositeAssumption
  <2>. QED  BY <1>3, <2>1 DEF Advance
<1>. HIDE DEF next
<1>5. Len(Append(m, s)) = Len(m) + 1
  BY <1>2
<1>6. Len(next) \in Nat /\ Len(next) >= Len(m)
  BY <1>2, <1>4, <1>5
<1>. DEFINE k == Len(rule.sequence)
<1>0. /\ \A j \in 1..k : where[j] \in 1..Len(seq)
      /\ \A j \in 1..k - 1 : where[j] < where[j + 1]
  <2>1. where \in [1..k -> 1..Len(seq)] /\ \A j \in 1..k - 1 : where[j] < where[j + 1]
    BY DEF Fits
  <2>. HIDE DEF k
  <2>. QED  BY <2>1
<1>7. ASSUME NEW j \in 1..Len(rule.sequence), where[j] <= n + 1
      PROVE  j <= Len(next)
  <2>1. where[j] \in Nat
    BY <1>0
  <2>2. CASE where[j] <= n
    BY <1>2, <1>6, <2>2 DEF Caught
  <2>3. CASE where[j] = n + 1
    <3>1. s.type = rule.sequence[j]
      BY <1>1, <2>3 DEF Fits
    <3>2. j - 1 <= Len(m)
      <4>1. CASE j = 1
        BY <1>2, <4>1
      <4>2. CASE j # 1
        <5>1. PICK i \in 1..Len(rule.sequence) - 1 : i = j - 1
          BY <1>2, <4>2
        <5>2. i \in 1..Len(rule.sequence) /\ i + 1 = j
          BY <1>2, <5>1
        <5>3. where[i] < where[j] /\ where[i] \in Nat
          BY <1>0, <5>1, <5>2
        <5>. QED  BY SMTT(30), <2>3, <5>1, <5>2, <5>3 DEF Caught
      <4>. QED  BY <4>1, <4>2
    <3>3. CASE j <= Len(m)
      BY <1>2, <1>6, <3>3
    <3>4. CASE j - 1 = Len(m)
      <4>1. j = Len(m) + 1 /\ Len(m) # Len(rule.sequence)
        BY <1>2, <3>4
      <4>2. next = Append(m, s)
        BY <1>4, <3>1, <4>1
      <4>. QED  BY <1>5, <4>1, <4>2
    <3>. QED  BY <1>2, <3>2, <3>3, <3>4
  <2>. QED  BY <1>7, <2>1, <2>2, <2>3
<1>8. Caught(next, where, rule, n + 1)
  BY <1>7 DEF Caught
<1>. QED  BY <1>1, <1>8 DEF next

LEMMA MatchIsComplete ==
    ASSUME StreamAssumption, CompositeAssumption, NEW rule \in Rules,
           NEW seq \in Seq(Steps), Ascending(seq), NoneStale(rule, seq),
           NEW where, Fits(where, rule, seq)
    PROVE  Len(MatchRule(rule, seq)) = Len(rule.sequence)
<1>1. PICK f : /\ f[0] = <<>> /\ MatchRule(rule, seq) = f[Len(seq)]
               /\ \A i \in 1..Len(seq) : f[i] = Advance(rule, f[i - 1], seq[i])
  <2>1. PICK S : S = Steps
    OBVIOUS
  <2>2. seq \in Seq(S)
    BY <2>1
  <2>3. \E f : Matching(f, rule, seq)
    BY <2>2, MatchUnfolds
  <2>. QED  BY <2>3 DEF Matching
<1>. DEFINE G == {i \in Nat : i <= Len(seq) =>
                    Partial(f[i], rule, seq, i) /\ Caught(f[i], where, rule, i)}
<1>2. Len(seq) \in Nat /\ Len(rule.sequence) \in Nat /\ Len(rule.sequence) >= 2
  BY DEF CompositeAssumption
<1>3. 0 \in G
  <2>1. Partial(<<>>, rule, seq, 0)
    BY <1>2 DEF Partial
  <2>2. Caught(<<>>, where, rule, 0)
    BY <1>2 DEF Caught, Fits
  <2>. HIDE DEF Partial, Caught
  <2>. QED  BY <1>1, <2>1, <2>2
<1>4. ASSUME NEW n \in Nat, n < Len(seq), n \in G
      PROVE  n + 1 \in G
  <2>1. PICK i \in 1..Len(seq) : i = n + 1
    BY <1>2, <1>4
  <2>2. f[i] = Advance(rule, f[i - 1], seq[i]) /\ i - 1 = n
    BY <1>1, <2>1
  <2>3. PICK m : m = f[n] /\ Partial(m, rule, seq, n) /\ Caught(m, where, rule, n)
    BY <1>4
  <2>4. Partial(Advance(rule, m, seq[n + 1]), rule, seq, n + 1)
    BY <1>4, <2>3, AdvanceKeeps
  <2>5. Caught(Advance(rule, m, seq[n + 1]), where, rule, n + 1)
    BY <1>4, <2>3, AdvanceCatches
  <2>. QED  BY <2>1, <2>2, <2>3, <2>4, <2>5
<1>. HIDE DEF G
<1>5. Len(seq) \in 0..Len(seq)
  BY <1>2
<1>6. Len(seq) \in G
  BY <1>2, <1>3, <1>4, <1>5, UpTo
<1>7. PICK m : m = MatchRule(rule, seq)
  OBVIOUS
<1>8. Partial(m, rule, seq, Len(seq)) /\ Caught(m, where, rule, Len(seq))
  BY <1>1, <1>2, <1>6, <1>7 DEF G
<1>9. PICK k \in 1..Len(rule.sequence) : k = Len(rule.sequence)
  BY <1>2
<1>10. k <= Len(m) /\ Len(m) <= Len(rule.sequence) /\ Len(m) \in Nat
  <2>1. where \in [1..Len(rule.sequence) -> 1..Len(seq)]
    BY DEF Fits
  <2>2. where[k] \in 1..Len(seq)
    BY <2>1
  <2>3. where[k] <= Len(seq)
    BY <1>2, <2>2
  <2>. QED  BY <1>8, <1>9, <2>3 DEF Partial, Caught
<1>. QED  BY <1>2, <1>7, <1>9, <1>10
-----------------------------------------------------------------------------
(* The stream. *)

StreamInv ==
    /\ now \in 0..MaxTime /\ newest \in Pids \cup {NoPid}
    /\ hist \in [Pids -> Seq(Steps)]
    /\ \A p \in Pids : \A i \in 1..Len(hist[p]) : hist[p][i].nr = i /\ hist[p][i].at <= now
    /\ \A p \in Pids : \A i, j \in 1..Len(hist[p]) : i < j => hist[p][i].at <= hist[p][j].at
    /\ newest # NoPid => hist[newest] # <<>> /\ hist[newest][Len(hist[newest])].at = now

\* What an event adds to the histories.
Adds(pid, s) ==
    /\ s \in Steps /\ s.at = now /\ s.nr = Len(hist[pid]) + 1
    /\ now' = now /\ newest' = pid
    /\ hist' \in [Pids -> Seq(Steps)]
    /\ Len(hist'[pid]) = Len(hist[pid]) + 1 /\ hist'[pid][Len(hist[pid]) + 1] = s
    /\ \A i \in 1..Len(hist[pid]) : hist'[pid][i] = hist[pid][i]
    /\ \A q \in Pids \ {pid} : hist'[q] = hist[q]

LEMMA ArriveIs ==
    ASSUME StreamAssumption, StreamInv, NEW pid \in Pids, NEW type \in EventTypes,
           Arrive(pid, type)
    PROVE  Adds(pid, Step(pid, type)) /\ Step(pid, type).type = type
<1>1. PICK s : s = Step(pid, type)
  OBVIOUS
<1>2. hist \in [Pids -> Seq(Steps)] /\ Len(hist[pid]) \in Nat
  BY DEF StreamInv
<1>3. s.at = now /\ s.type = type /\ s.nr = Len(hist[pid]) + 1 /\ s \in Steps
  BY <1>1, <1>2 DEF Step, Steps, StreamInv
<1>4. PICK old \in Seq(Steps) : old = hist[pid]
  BY <1>2
<1>5. PICK new : new = Append(old, s)
  OBVIOUS
<1>6. /\ new \in Seq(Steps) /\ Len(new) = Len(old) + 1 /\ new[Len(old) + 1] = s
      /\ \A i \in 1..Len(old) : new[i] = old[i]
  BY <1>3, <1>5
<1>7. hist' = [hist EXCEPT ![pid] = new] /\ newest' = pid /\ now' = now
  BY <1>1, <1>4, <1>5 DEF Arrive
<1>8. /\ hist' \in [Pids -> Seq(Steps)] /\ hist'[pid] = new
      /\ \A q \in Pids \ {pid} : hist'[q] = hist[q]
  BY <1>2, <1>6, <1>7
<1>. QED  BY <1>1, <1>3, <1>4, <1>6, <1>7, <1>8 DEF Adds

LEMMA StreamGrows ==
    ASSUME StreamAssumption, StreamInv, NEW pid \in Pids, NEW s, Adds(pid, s)
    PROVE  StreamInv'
<1>1. /\ now \in Nat /\ Len(hist[pid]) \in Nat /\ s \in Steps
      /\ hist' \in [Pids -> Seq(Steps)] /\ now' = now /\ newest' = pid
  BY DEF StreamInv, Adds
<1>2. ASSUME NEW p \in Pids, NEW i \in 1..Len(hist'[p])
      PROVE  /\ hist'[p][i].nr = i /\ hist'[p][i].at <= now
             /\ \A j \in 1..Len(hist'[p]) : i < j => hist'[p][i].at <= hist'[p][j].at
  <2>1. CASE p # pid
    BY <2>1 DEF Adds, StreamInv
  <2>2. CASE p = pid
    <3>0. PICK new, old, n : new = hist'[pid] /\ old = hist[pid] /\ n = Len(old)
      OBVIOUS
    <3>1. \A j \in 1..n + 1 :
            (j \in 1..n /\ new[j] = old[j]) \/ (j = n + 1 /\ new[j] = s)
      BY SMTT(30), <1>1, <3>0 DEF Adds
    <3>2. \A j \in 1..n : old[j].at <= now /\ old[j].nr = j
      BY <3>0 DEF StreamInv
    <3>3. s.at = now /\ s.nr = n + 1 /\ Len(new) = n + 1 /\ n \in Nat
      BY <1>1, <3>0 DEF Adds
    <3>4. \A j, k \in 1..n : j < k => old[j].at <= old[k].at
      BY <3>0 DEF StreamInv
    <3>5. \A j \in 1..n + 1 : new[j].nr = j /\ new[j].at <= now
      BY <1>1, <3>1, <3>2, <3>3
    <3>6. \A j, k \in 1..n + 1 : j < k => new[j].at <= new[k].at
      <4>1. SUFFICES ASSUME NEW j \in 1..n + 1, NEW k \in 1..n + 1, j < k
                     PROVE  new[j].at <= new[k].at
        OBVIOUS
      <4>2. j \in 1..n /\ new[j] = old[j]
        BY <3>1, <3>3, <4>1
      <4>. QED  BY <1>1, <3>1, <3>2, <3>3, <3>4, <4>1, <4>2
    <3>. QED  BY <2>2, <3>0, <3>3, <3>5, <3>6
  <2>. QED  BY <2>1, <2>2
<1>3. hist'[pid] # <<>> /\ hist'[pid][Len(hist'[pid])].at = now
  BY <1>1 DEF Adds
<1>. QED  BY <1>1, <1>2, <1>3 DEF StreamInv

LEMMA StreamWaits ==
    ASSUME StreamAssumption, StreamInv, TimePasses
    PROVE  StreamInv' /\ now' = now + 1 /\ newest' = NoPid /\ hist' = hist
<1>1. now \in Nat /\ now' \in 0..MaxTime
  BY DEF StreamInv, TimePasses, StreamAssumption
<1>2. \A p \in Pids : \A i \in 1..Len(hist[p]) : hist[p][i].at <= now' /\ hist[p][i].at \in Int
  <2>1. \A p \in Pids : \A i \in 1..Len(hist[p]) : hist[p][i] \in Steps
    BY DEF StreamInv
  <2>2. \A t \in Steps : t.at \in Int
    BY DEF Steps
  <2>. QED  BY <1>1, <2>1, <2>2 DEF StreamInv, TimePasses
<1>. QED  BY <1>1, <1>2 DEF StreamInv, TimePasses
-----------------------------------------------------------------------------
(* The composite rules. *)

\* A list of recorded events of a history, in their order.
Drawn(list, h) ==
    /\ list \in Seq(Steps) /\ Ascending(list)
    /\ \A i \in 1..Len(list) :
        list[i].nr \in 1..Len(h) /\ list[i] = h[list[i].nr] /\ list[i].type \in Recorded

AllRecent(list, h, t) ==
    \A i \in 1..Len(h) : h[i].type \in Recorded /\ t - h[i].at <= Keep =>
        \E j \in 1..Len(list) : list[j] = h[i]

OnlyRecent(list, t) == \A i \in 1..Len(list) : t - list[i].at <= Keep

CompositeInv ==
    /\ compositeSteps \in [Pids -> Seq(Steps)]
    /\ \A p \in Pids :
        Drawn(compositeSteps[p], hist[p]) /\ AllRecent(compositeSteps[p], hist[p], now)
    /\ newest # NoPid /\ hist[newest][Len(hist[newest])].type \in Recorded =>
        OnlyRecent(compositeSteps[newest], now)

\* The history new is the history h with the event s after it.
Longer(new, h, s) ==
    /\ h \in Seq(Steps) /\ new \in Seq(Steps) /\ s \in Steps /\ s.nr = Len(h) + 1
    /\ Len(new) = Len(h) + 1 /\ new[Len(h) + 1] = s
    /\ \A i \in 1..Len(h) : new[i] = h[i]

LEMMA DrawnGrows ==
    ASSUME NEW list, NEW h, NEW new, NEW s, Longer(new, h, s), Drawn(list, h),
           s.type \in Recorded
    PROVE  /\ Drawn(Append(list, s), new)
           /\ \A t : AllRecent(list, h, t) => AllRecent(Append(list, s), new, t)
<1>1. PICK grown : grown = Append(list, s)
  OBVIOUS
<1>2. /\ list \in Seq(Steps) /\ s \in Steps /\ Len(list) \in Nat /\ Len(h) \in Nat
      /\ Len(new) = Len(h) + 1 /\ s.nr = Len(h) + 1 /\ new[Len(h) + 1] = s
      /\ \A i \in 1..Len(h) : new[i] = h[i]
  BY DEF Drawn, Longer
<1>3. /\ grown \in Seq(Steps) /\ Len(grown) = Len(list) + 1 /\ grown[Len(list) + 1] = s
      /\ \A i \in 1..Len(list) : grown[i] = list[i]
  BY <1>1, <1>2
<1>4. \A i \in 1..Len(list) : list[i].nr \in 1..Len(h) /\ list[i] = h[list[i].nr]
                               /\ list[i].type \in Recorded
  BY DEF Drawn
<1>5. ASSUME NEW i \in 1..Len(grown)
      PROVE  /\ grown[i].nr \in 1..Len(new) /\ grown[i] = new[grown[i].nr]
             /\ grown[i].type \in Recorded
  <2>1. CASE i = Len(list) + 1
    BY <1>2, <1>3, <2>1
  <2>2. CASE i # Len(list) + 1
    <3>1. i \in 1..Len(list) /\ grown[i] = list[i]
      BY <1>2, <1>3, <2>2
    <3>. QED  BY <1>2, <1>4, <3>1
  <2>. QED  BY <2>1, <2>2
<1>6. ASSUME NEW i \in 1..Len(grown), NEW j \in 1..Len(grown), i < j
      PROVE  grown[i].nr < grown[j].nr
  <2>1. i \in 1..Len(list) /\ grown[i] = list[i]
    BY <1>2, <1>3, <1>6
  <2>2. CASE j = Len(list) + 1
    BY <1>2, <1>3, <1>4, <2>1, <2>2
  <2>3. CASE j # Len(list) + 1
    <3>1. j \in 1..Len(list) /\ grown[j] = list[j]
      BY <1>2, <1>3, <2>3
    <3>. QED  BY <1>2, <1>6, <2>1, <3>1 DEF Drawn, Ascending
  <2>. QED  BY <2>2, <2>3
<1>7. Drawn(grown, new)
  BY <1>3, <1>5, <1>6 DEF Drawn, Ascending
<1>8. ASSUME NEW t, AllRecent(list, h, t)
      PROVE  AllRecent(grown, new, t)
  <2>1. SUFFICES ASSUME NEW i \in 1..Len(new), new[i].type \in Recorded, t - new[i].at <= Keep
                 PROVE  \E j \in 1..Len(grown) : grown[j] = new[i]
    BY DEF AllRecent
  <2>2. CASE i = Len(h) + 1
    <3>1. Len(list) + 1 \in 1..Len(grown)
      BY <1>2, <1>3
    <3>. QED  BY <1>2, <1>3, <2>2, <3>1
  <2>3. CASE i # Len(h) + 1
    <3>1. i \in 1..Len(h) /\ new[i] = h[i]
      BY <1>2, <2>3
    <3>2. PICK j \in 1..Len(list) : list[j] = h[i]
      BY <1>8, <2>1, <3>1 DEF AllRecent
    <3>3. j \in 1..Len(grown)
      BY <1>2, <1>3
    <3>. QED  BY <1>3, <3>1, <3>2, <3>3
  <2>. QED  BY <2>2, <2>3
<1>. QED  BY <1>1, <1>7, <1>8

LEMMA DrawnIsPruned ==
    ASSUME StreamAssumption, CompositeAssumption, NEW h \in Seq(Steps), InTime(h), NEW list,
           Drawn(list, h), now \in Nat
    PROVE  /\ Drawn(Kept(list), h) /\ OnlyRecent(Kept(list), now)
           /\ AllRecent(list, h, now) => AllRecent(Kept(list), h, now)
<1>1. list \in Seq(Steps) /\ Len(list) \in Nat
  BY DEF Drawn
<1>2. InTime(list)
  <2>1. \A i, j \in 1..Len(list) : i < j => list[i].nr < list[j].nr
    BY <1>1 DEF Drawn, Ascending
  <2>. QED  BY <2>1 DEF Drawn, InTime
<1>3. PICK k \in 0..Len(list) : Tells(Kept(list), list, Len(list), k, Keep)
  <2>1. Keep \in Int
    BY DEF CompositeAssumption
  <2>2. \E k \in 0..Len(list) : Tells(Since(list, Keep), list, Len(list), k, Keep)
    BY <1>1, <1>2, <2>1, SinceIs
  <2>. QED  BY <2>2 DEF Kept
<1>4. PICK rest : rest = Kept(list)
  OBVIOUS
<1>5. PICK n \in Nat : n = Len(list)
  BY <1>1
<1>6. /\ rest \in Seq(Steps) /\ Len(rest) = n - k
      /\ \A j \in 1..n - k : rest[j] = list[k + j]
      /\ \A j \in 1..n : now - list[j].at <= Keep <=> j > k
  BY <1>3, <1>4, <1>5 DEF Tells
<1>7. \A j \in 1..n - k : k + j \in 1..n
  BY <1>5
<1>8. ASSUME NEW i \in 1..n - k
      PROVE  /\ rest[i].nr \in 1..Len(h) /\ rest[i] = h[rest[i].nr]
             /\ rest[i].type \in Recorded /\ now - rest[i].at <= Keep
  <2>1. k + i \in 1..n /\ k + i > k
    BY <1>7
  <2>. QED  BY <1>5, <1>6, <2>1 DEF Drawn
<1>9. ASSUME NEW i \in 1..n - k, NEW j \in 1..n - k, i < j
      PROVE  rest[i].nr < rest[j].nr
  <2>1. k + i \in 1..n /\ k + j \in 1..n /\ k + i < k + j
    BY <1>7, <1>9
  <2>2. \A x, y \in 1..Len(list) : x < y => list[x].nr < list[y].nr
    BY <1>1 DEF Drawn, Ascending
  <2>. QED  BY <1>5, <1>6, <2>1, <2>2
<1>10. Drawn(rest, h) /\ OnlyRecent(rest, now)
  <2>1. DOMAIN rest = 1..n - k
    BY <1>6
  <2>. QED  BY <1>6, <1>8, <1>9, <2>1 DEF Drawn, OnlyRecent, Ascending
<1>11. ASSUME AllRecent(list, h, now)
       PROVE  AllRecent(rest, h, now)
  <2>1. SUFFICES ASSUME NEW i \in 1..Len(h), h[i].type \in Recorded, now - h[i].at <= Keep
                 PROVE  \E j \in 1..Len(rest) : rest[j] = h[i]
    BY DEF AllRecent
  <2>2. PICK j \in 1..n : list[j] = h[i]
    BY <1>5, <1>11, <2>1 DEF AllRecent
  <2>3. j > k
    BY <1>6, <2>1, <2>2
  <2>4. j - k \in 1..n - k /\ k + (j - k) = j
    BY <1>5, <2>3
  <2>. QED  BY <1>6, <2>2, <2>4
<1>. QED  BY <1>4, <1>10, <1>11

LEMMA RecordedStep ==
    ASSUME StreamAssumption, CompositeAssumption, StreamInv, CompositeInv, NEW pid \in Pids,
           NEW s, Adds(pid, s), s.type \in Recorded,
           NEW kept, kept = Kept(Append(compositeSteps[pid], s))
    PROVE  /\ Drawn(kept, hist'[pid]) /\ OnlyRecent(kept, now)
           /\ AllRecent(kept, hist'[pid], now)
<1>1. now \in Nat /\ hist[pid] \in Seq(Steps) /\ hist'[pid] \in Seq(Steps)
  BY DEF StreamInv, Adds
<1>2. Longer(hist'[pid], hist[pid], s)
  BY <1>1 DEF Longer, Adds
<1>3. Drawn(compositeSteps[pid], hist[pid]) /\ AllRecent(compositeSteps[pid], hist[pid], now)
  BY DEF CompositeInv
<1>4. PICK list : list = Append(compositeSteps[pid], s)
  OBVIOUS
<1>5. Drawn(list, hist'[pid]) /\ AllRecent(list, hist'[pid], now)
  BY <1>2, <1>3, <1>4, DrawnGrows
<1>6. InTime(hist'[pid])
  <2>1. StreamInv'
    BY StreamGrows
  <2>. QED  BY <2>1 DEF StreamInv, InTime
<1>7. PICK h \in Seq(Steps) : h = hist'[pid]
  BY <1>1
<1>8. InTime(h) /\ Drawn(list, h) /\ AllRecent(list, h, now)
  BY <1>5, <1>6, <1>7
<1>9. Drawn(Kept(list), h) /\ OnlyRecent(Kept(list), now) /\ AllRecent(Kept(list), h, now)
  BY <1>1, <1>8, DrawnIsPruned
<1>. QED  BY <1>4, <1>7, <1>9

LEMMA CompositeKeeps ==
    ASSUME StreamAssumption, CompositeAssumption, StreamInv, CompositeInv, NEW pid \in Pids,
           NEW type \in EventTypes, Arrive(pid, type), ObserveComposite(pid, type)
    PROVE  CompositeInv'
<1>1. PICK s : s = Step(pid, type) /\ Adds(pid, s) /\ s.type = type
  BY ArriveIs
<1>2. /\ compositeSteps \in [Pids -> Seq(Steps)] /\ now \in Nat /\ Len(hist[pid]) \in Nat
      /\ now' = now /\ newest' = pid
      /\ hist'[pid][Len(hist'[pid])] = s /\ \A q \in Pids \ {pid} : hist'[q] = hist[q]
  BY <1>1 DEF CompositeInv, StreamInv, Adds
<1>3. CASE type \in Recorded
  <2>1. PICK kept : kept = Kept(Append(compositeSteps[pid], s))
    OBVIOUS
  <2>2. /\ Drawn(kept, hist'[pid]) /\ OnlyRecent(kept, now)
        /\ AllRecent(kept, hist'[pid], now)
    BY <1>1, <1>3, <2>1, RecordedStep
  <2>3. kept \in Seq(Steps)
    BY <2>2 DEF Drawn
  <2>4. compositeSteps' = [compositeSteps EXCEPT ![pid] = kept]
    BY <1>1, <1>3, <2>1 DEF ObserveComposite
  <2>5. /\ compositeSteps' \in [Pids -> Seq(Steps)] /\ compositeSteps'[pid] = kept
        /\ \A q \in Pids \ {pid} : compositeSteps'[q] = compositeSteps[q]
    BY <1>2, <2>3, <2>4
  <2>6. ASSUME NEW p \in Pids
        PROVE  /\ Drawn(compositeSteps'[p], hist'[p])
               /\ AllRecent(compositeSteps'[p], hist'[p], now')
    <3>1. CASE p = pid
      BY <1>2, <2>2, <2>5, <3>1
    <3>2. CASE p # pid
      BY <1>2, <2>5, <3>2 DEF CompositeInv
    <3>. QED  BY <3>1, <3>2
  <2>7. OnlyRecent(compositeSteps'[newest'], now')
    BY <1>2, <2>2, <2>5
  <2>. QED  BY <2>5, <2>6, <2>7 DEF CompositeInv
<1>4. CASE type \notin Recorded
  <2>1. compositeSteps' = compositeSteps
    BY <1>4 DEF ObserveComposite
  <2>2. ASSUME NEW p \in Pids
        PROVE  /\ Drawn(compositeSteps[p], hist'[p])
               /\ AllRecent(compositeSteps[p], hist'[p], now)
    <3>1. CASE p # pid
      BY <1>2, <3>1 DEF CompositeInv
    <3>2. CASE p = pid
      <4>1. Drawn(compositeSteps[p], hist[p]) /\ AllRecent(compositeSteps[p], hist[p], now)
        BY DEF CompositeInv
      <4>2. PICK h, new, n : h = hist[pid] /\ new = hist'[pid] /\ n = Len(h)
        OBVIOUS
      <4>3. /\ n \in Nat /\ Len(new) = n + 1 /\ new[n + 1].type \notin Recorded
            /\ \A i \in 1..n : new[i] = h[i]
        BY <1>1, <1>2, <1>4, <4>2 DEF Adds
      <4>4. \A i \in 1..n + 1 : i = n + 1 \/ i \in 1..n
        BY <4>3
      <4>5. Drawn(compositeSteps[p], new)
        BY SMTT(30), <3>2, <4>1, <4>2, <4>3, <4>4 DEF Drawn
      <4>6. AllRecent(compositeSteps[p], new, now)
        BY <3>2, <4>1, <4>2, <4>3, <4>4 DEF AllRecent
      <4>. QED  BY <3>2, <4>2, <4>5, <4>6
    <3>. QED  BY <3>1, <3>2
  <2>. QED  BY <1>1, <1>2, <1>4, <2>1, <2>2 DEF CompositeInv
<1>. QED  BY <1>3, <1>4

LEMMA CompositeWaits ==
    ASSUME StreamAssumption, CompositeAssumption, StreamInv, CompositeInv, TimePasses,
           CompositePass
    PROVE  CompositeInv'
<1>1. now \in Nat /\ now' = now + 1 /\ newest' = NoPid /\ hist' = hist
      /\ compositeSteps' = compositeSteps /\ Keep \in Nat
  BY DEF StreamInv, TimePasses, CompositePass, CompositeAssumption
<1>2. ASSUME NEW p \in Pids
      PROVE  AllRecent(compositeSteps[p], hist[p], now + 1)
  <2>1. PICK list, h, later : list = compositeSteps[p] /\ h = hist[p] /\ later = now + 1
    OBVIOUS
  <2>2. AllRecent(list, h, now)
    BY <2>1 DEF CompositeInv
  <2>3. \A i \in 1..Len(h) : later - h[i].at <= Keep => now - h[i].at <= Keep
    <3>1. \A i \in 1..Len(h) : h[i] \in Steps
      BY <2>1 DEF StreamInv
    <3>2. \A i \in 1..Len(h) : h[i].at \in Int
      BY <3>1 DEF Steps
    <3>. QED  BY <1>1, <2>1, <3>2
  <2>4. AllRecent(list, h, later)
    BY <2>2, <2>3 DEF AllRecent
  <2>. QED  BY <2>1, <2>4
<1>. QED  BY <1>1, <1>2 DEF CompositeInv

\* What the matcher reports of a recorded event is what the event completed.
LEMMA FiredIsReal ==
    ASSUME StreamAssumption, CompositeAssumption, StreamInv, CompositeInv, NEW pid \in Pids,
           NEW type \in EventTypes, Arrive(pid, type), ObserveComposite(pid, type)
    PROVE  MatchIsOccurrence' /\ \A f \in fired' : f.rule \in Rules /\ f.matched \in Seq(Steps)
<1>1. PICK s : s = Step(pid, type) /\ Adds(pid, s) /\ s.type = type
  BY ArriveIs
<1>2. now' = now /\ newest' = pid /\ now \in Nat
  BY <1>1 DEF Adds, StreamInv
<1>3. CASE type \notin Recorded
  <2>1. fired' = {}
    BY <1>3 DEF ObserveComposite
  <2>. QED  BY <2>1 DEF MatchIsOccurrence
<1>4. CASE type \in Recorded
  <2>1. PICK kept : kept = Kept(Append(compositeSteps[pid], s))
    OBVIOUS
  <2>2. Drawn(kept, hist'[pid]) /\ OnlyRecent(kept, now)
    BY <1>1, <1>4, <2>1, RecordedStep
  <2>3. fired' = {[rule |-> rule, matched |-> MatchRule(rule, kept)] :
                    rule \in {r \in Rules : Len(MatchRule(r, kept)) = Len(r.sequence)}}
    BY <1>1, <1>4, <2>1 DEF ObserveComposite
  <2>4. kept \in Seq(Steps) /\ Ascending(kept)
    BY <2>2 DEF Drawn
  <2>5. ASSUME NEW f \in fired'
        PROVE  /\ f.rule \in Rules /\ f.matched \in Seq(Steps)
               /\ Len(f.matched) = Len(f.rule.sequence)
               /\ \A i \in DOMAIN f.matched :
                    /\ f.matched[i].type = f.rule.sequence[i]
                    /\ f.matched[i] = hist'[pid][f.matched[i].nr]
                    /\ f.matched[i].at - f.matched[1].at <= f.rule.window
                    /\ now - f.matched[i].at <= Keep
                    /\ i > 1 => f.matched[i - 1].nr < f.matched[i].nr
    <3>1. PICK rule \in Rules : /\ f = [rule |-> rule, matched |-> MatchRule(rule, kept)]
                                /\ Len(MatchRule(rule, kept)) = Len(rule.sequence)
      BY <2>3
    <3>2. PICK m : m = MatchRule(rule, kept)
      OBVIOUS
    <3>3. Partial(m, rule, kept, Len(kept))
      BY <2>4, <3>2, MatchIsPartial
    <3>4. m \in Seq(Steps) /\ DOMAIN m = 1..Len(m) /\ Len(m) = Len(rule.sequence)
      BY <3>1, <3>2, <3>3 DEF Partial
    <3>5. ASSUME NEW i \in 1..Len(m)
          PROVE  m[i] = hist'[pid][m[i].nr] /\ now - m[i].at <= Keep
      <4>1. PICK x \in 1..Len(kept) : m[i] = kept[x]
        BY <3>3 DEF Partial
      <4>. QED  BY <2>2, <4>1 DEF Drawn, OnlyRecent
    <3>6. f.rule = rule /\ f.matched = m
      BY <3>1, <3>2
    <3>. QED  BY <3>3, <3>4, <3>5, <3>6 DEF Partial
  <2>. QED  BY <1>2, <2>5 DEF MatchIsOccurrence
<1>. QED  BY <1>3, <1>4

LEMMA CompletedFires ==
    ASSUME StreamAssumption, CompositeAssumption, StreamInv, CompositeInv, NEW pid \in Pids,
           NEW type \in EventTypes, Arrive(pid, type), ObserveComposite(pid, type)
    PROVE  FreshSequencesFire'
<1>1. PICK s : s = Step(pid, type) /\ Adds(pid, s) /\ s.type = type
  BY ArriveIs
<1>2. PICK h \in Seq(Steps) : h = hist'[pid] /\ Len(h) \in Nat
  BY <1>1 DEF Adds
<1>3. now' = now /\ newest' = pid /\ now \in Nat /\ h[Len(h)] = s
  BY <1>1, <1>2 DEF Adds, StreamInv
<1>4. StreamInv'
  BY <1>1, StreamGrows
<1>5. \A i \in 1..Len(h) : h[i].nr = i /\ h[i].at <= now /\ h[i].at \in Nat
  <2>1. \A i \in 1..Len(h) : h[i] \in Steps
    BY <1>2
  <2>2. \A t \in Steps : t.at \in Nat
    BY DEF Steps, StreamAssumption
  <2>. QED  BY <1>2, <1>3, <1>4, <2>1, <2>2 DEF StreamInv
<1>6. SUFFICES ASSUME NEW rule \in Rules, Completed(rule)',
                      \A t \in ToSet(h) : t.type \in Recorded /\ now - t.at <= Keep
                            /\ t.type = rule.sequence[1] => now - t.at <= rule.window
               PROVE  HasFired(rule)'
  BY <1>2, <1>3 DEF FreshSequencesFire, Recent
<1>. DEFINE k == Len(rule.sequence)
<1>7. k \in Nat /\ k >= 2 /\ rule.window \in Nat
      /\ \A j \in 1..k : rule.sequence[j] \in {"exec", "connect", "setuid"}
  BY DEF CompositeAssumption
<1>8. PICK at \in [1..k -> 1..Len(h)] :
        /\ at[k] = Len(h)
        /\ \A i \in 1..k : h[at[i]].type = rule.sequence[i]
        /\ \A i \in 1..k - 1 : at[i] < at[i + 1]
        /\ now - h[at[1]].at <= Keep
  <2>1. DOMAIN h = 1..Len(h)
    BY <1>2
  <2>. QED  BY <1>2, <1>3, <1>6, <2>1 DEF Completed
<1>. HIDE DEF k
<1>9. type \in Recorded
  <2>1. k \in 1..k
    BY <1>7
  <2>. QED  BY <1>1, <1>3, <1>7, <1>8, <2>1 DEF Recorded
<1>10. PICK kept : kept = Kept(Append(compositeSteps[pid], s))
  OBVIOUS
<1>11. Drawn(kept, h) /\ OnlyRecent(kept, now) /\ AllRecent(kept, h, now)
  BY <1>1, <1>2, <1>9, <1>10, RecordedStep
<1>12. kept \in Seq(Steps) /\ Ascending(kept) /\ Len(kept) \in Nat
  BY <1>11 DEF Drawn
<1>13. NoneStale(rule, kept)
  <2>1. SUFFICES ASSUME NEW x \in 1..Len(kept), NEW y \in 1..Len(kept),
                        kept[x].type = rule.sequence[1]
                 PROVE  kept[y].at - kept[x].at <= rule.window
    BY DEF NoneStale
  <2>2. /\ kept[x].nr \in 1..Len(h) /\ kept[x] = h[kept[x].nr] /\ kept[x].type \in Recorded
        /\ kept[y].nr \in 1..Len(h) /\ kept[y] = h[kept[y].nr]
        /\ now - kept[x].at <= Keep
    BY <1>11 DEF Drawn, OnlyRecent
  <2>3. kept[x] \in ToSet(h)
    BY <1>2, <2>2 DEF ToSet
  <2>4. now - kept[x].at <= rule.window
    BY <1>6, <2>1, <2>2, <2>3
  <2>5. kept[y].at <= now /\ kept[y].at \in Nat /\ kept[x].at \in Nat
    BY <1>5, <2>2
  <2>. QED  BY SMTT(30), <1>3, <1>7, <2>4, <2>5
<1>14. \A i \in 1..k : at[1] <= at[i] /\ at[i] \in 1..Len(h)
  <2>. DEFINE G == {i \in Nat : i + 1 <= k => at[1] <= at[i + 1]}
  <2>1. 0 \in G
    BY <1>7, <1>8
  <2>2. ASSUME NEW i \in Nat, i < k - 1, i \in G
        PROVE  i + 1 \in G
    <3>1. PICK j \in 1..k - 1 : j = i + 1
      BY <1>7, <2>2
    <3>2. at[j] < at[j + 1] /\ at[j] \in Nat /\ at[j + 1] \in Nat /\ at[1] \in Nat
      BY <1>7, <1>8
    <3>3. at[1] <= at[j]
      BY <1>7, <2>2, <3>1
    <3>. QED  BY <3>1, <3>2, <3>3
  <2>3. k - 1 \in Nat
    BY <1>7
  <2>. HIDE DEF G
  <2>4. \A i \in 0..k - 1 : i \in G
    BY <2>1, <2>2, <2>3, UpTo
  <2>5. ASSUME NEW i \in 1..k
        PROVE  at[1] <= at[i]
    <3>1. PICK j \in 0..k - 1 : i = j + 1
      BY <1>7
    <3>. QED  BY <1>7, <2>4, <3>1 DEF G
  <2>. QED  BY <1>8, <2>5
<1>15. \A i \in 1..k : \E j \in 1..Len(kept) : kept[j] = h[at[i]]
  <2>1. ASSUME NEW i \in 1..k
        PROVE  \E j \in 1..Len(kept) : kept[j] = h[at[i]]
    <3>1. at[i] \in 1..Len(h) /\ at[1] \in 1..Len(h) /\ at[1] <= at[i]
      BY <1>7, <1>14
    <3>2. h[at[1]].at <= h[at[i]].at
      <4>1. \A x, y \in 1..Len(h) : x < y => h[x].at <= h[y].at
        BY <1>2, <1>4 DEF StreamInv
      <4>. QED  BY <1>5, <3>1, <4>1
    <3>3. now - h[at[i]].at <= Keep
      <4>1. Keep \in Nat /\ h[at[1]].at \in Nat /\ h[at[i]].at \in Nat
        BY <1>5, <3>1 DEF CompositeAssumption
      <4>2. now \in Nat /\ now - h[at[1]].at <= Keep
        BY <1>3, <1>8
      <4>. QED  BY <3>2, <4>1, <4>2
    <3>4. h[at[i]].type \in Recorded
      BY <1>7, <1>8 DEF Recorded
    <3>. QED  BY <1>11, <3>1, <3>3, <3>4 DEF AllRecent
  <2>. QED  BY <2>1
<1>16. PICK where : where = [i \in 1..k |-> CHOOSE j \in 1..Len(kept) : kept[j] = h[at[i]]]
  OBVIOUS
<1>17. where \in [1..k -> 1..Len(kept)] /\ \A i \in 1..k : kept[where[i]] = h[at[i]]
  BY <1>15, <1>16
<1>18. Fits(where, rule, kept)
  <2>1. ASSUME NEW i \in 1..k - 1
        PROVE  where[i] < where[i + 1]
    <3>1. i \in 1..k /\ i + 1 \in 1..k
      BY <1>7
    <3>2. PICK x, y \in 1..Len(kept) : x = where[i] /\ y = where[i + 1]
      BY <1>17, <3>1
    <3>3. kept[x] = h[at[i]] /\ kept[y] = h[at[i + 1]]
      BY <1>17, <3>1, <3>2
    <3>4. kept[x].nr = at[i] /\ kept[y].nr = at[i + 1] /\ at[i] < at[i + 1]
          /\ at[i] \in Nat /\ at[i + 1] \in Nat
      BY SMTT(30), <1>5, <1>8, <1>14, <3>1, <3>3
    <3>5. y < x => kept[y].nr < kept[x].nr
      BY <1>12 DEF Ascending
    <3>. QED  BY <1>12, <3>2, <3>4, <3>5
  <2>2. \A i \in 1..k : kept[where[i]].type = rule.sequence[i]
    BY <1>8, <1>17
  <2>. QED  BY <1>17, <2>1, <2>2 DEF Fits, k
<1>19. Len(MatchRule(rule, kept)) = Len(rule.sequence)
  BY <1>12, <1>13, <1>18, MatchIsComplete
<1>20. fired' = {[rule |-> r, matched |-> MatchRule(r, kept)] :
                    r \in {r \in Rules : Len(MatchRule(r, kept)) = Len(r.sequence)}}
  BY <1>1, <1>9, <1>10 DEF ObserveComposite
<1>21. PICK f : f = [rule |-> rule, matched |-> MatchRule(rule, kept)]
  OBVIOUS
<1>22. f \in fired' /\ f.rule = rule
  BY <1>19, <1>20, <1>21
<1>. QED  BY <1>22 DEF HasFired
-----------------------------------------------------------------------------
(* The kill chains. *)

LEMMA LeastIs ==
    ASSUME NEW S \in SUBSET Nat, S # {}
    PROVE  Min(S) \in S /\ \A x \in S : Min(S) <= x
<1>1. \E x \in S : \A y \in S : x <= y
  BY LeastNatural
<1>. QED  BY <1>1 DEF Min

LEMMA GreatestIs ==
    ASSUME NEW n \in Nat, NEW S \in SUBSET (1..n), S # {}
    PROVE  Max(S) \in S /\ \A x \in S : x <= Max(S)
<1>. DEFINE T == {n - x : x \in S}
<1>1. PICK t \in T : \A y \in T : t <= y
  <2>1. \A x \in S : n - x \in Nat /\ n - x \in T
    OBVIOUS
  <2>2. T \in SUBSET Nat
    BY <2>1
  <2>3. T # {}
    BY <2>1
  <2>. HIDE DEF T
  <2>. QED  BY <2>2, <2>3, LeastNatural
<1>2. PICK x \in S : t = n - x
  OBVIOUS
<1>3. \A y \in S : y <= x
  <2>1. ASSUME NEW y \in S
        PROVE  y <= x
    <3>1. n - x <= n - y
      BY <1>1, <1>2
    <3>. QED  BY <3>1
  <2>. QED  BY <2>1
<1>4. \E m \in S : \A y \in S : m >= y
  BY <1>3
<1>. QED  BY <1>4 DEF Max

\* The last events of a history.
EndOf(list, h) ==
    /\ list \in Seq(Steps) /\ Len(list) <= Len(h)
    /\ \A j \in 1..Len(list) : list[j] = h[Len(h) - Len(list) + j]

\* Of the last Cap events those within the window are there.
HoldsLast(list, h, t) ==
    \A i \in 1..Len(h) :
        Len(h) - i < Cap /\ t - h[i].at <= Window => i > Len(h) - Len(list)

\* What the list that is looked at has of the kept one, the history and the event.
Grown(seq, list, new, s, t) ==
    /\ EndOf(seq, new) /\ HoldsLast(seq, new, t)
    /\ Len(seq) <= Cap /\ Len(seq) >= 1 /\ seq[Len(seq)] = s
    /\ \A j \in 1..Len(seq) : seq[j] = s \/ \E x \in 1..Len(list) : seq[j] = list[x]

LEMMA EndGrows ==
    ASSUME ChainAssumption, NEW list, NEW h, NEW new, NEW s, NEW t, Longer(new, h, s),
           EndOf(list, h), HoldsLast(list, h, t), Len(list) <= Cap,
           NEW seq, seq = Latest(Append(list, s))
    PROVE  Grown(seq, list, new, s, t)
<1>1. PICK grown : grown = Append(list, s)
  OBVIOUS
<1>2. PICK n \in Nat, c \in Nat : n = Len(h) /\ c = Len(list)
  BY DEF Longer, EndOf
<1>3. /\ list \in Seq(Steps) /\ s \in Steps /\ Len(new) = n + 1 /\ new[n + 1] = s
      /\ \A i \in 1..n : new[i] = h[i]
      /\ c <= n /\ \A j \in 1..c : list[j] = h[n - c + j]
      /\ c <= Cap /\ Cap \in Nat /\ Cap >= 1
  BY <1>2 DEF Longer, EndOf, ChainAssumption
<1>4. /\ grown \in Seq(Steps) /\ Len(grown) = c + 1 /\ grown[c + 1] = s
      /\ \A j \in 1..c : grown[j] = list[j]
  BY <1>1, <1>2, <1>3
<1>5. ASSUME NEW j \in 1..c + 1
      PROVE  /\ grown[j] = new[n - c + j]
             /\ grown[j] = s \/ \E x \in 1..c : grown[j] = list[x]
  <2>1. CASE j = c + 1
    BY <1>3, <1>4, <2>1
  <2>2. CASE j # c + 1
    <3>1. j \in 1..c /\ n - c + j \in 1..n
      BY <1>3, <2>2
    <3>. QED  BY <1>3, <1>4, <3>1
  <2>. QED  BY <2>1, <2>2
<1>6. \A i \in 1..n : n - i < Cap /\ t - h[i].at <= Window => i > n - c
  BY <1>2 DEF HoldsLast
<1>7. CASE c + 1 <= Cap
  <2>1. seq = grown
    BY <1>1, <1>3, <1>4, <1>7 DEF Latest
  <2>2. EndOf(seq, new)
    <3>1. /\ seq \in Seq(Steps) /\ Len(seq) = c + 1 /\ Len(new) - Len(seq) = n - c
          /\ Len(seq) <= Len(new)
      BY <1>3, <1>4, <2>1
    <3>2. \A j \in 1..Len(seq) : seq[j] = new[Len(new) - Len(seq) + j]
      BY <1>5, <2>1, <3>1
    <3>. QED  BY <3>1, <3>2 DEF EndOf
  <2>3. HoldsLast(seq, new, t)
    <3>1. SUFFICES ASSUME NEW i \in 1..n + 1, n + 1 - i < Cap, t - new[i].at <= Window
                   PROVE  i > n - c
      BY <1>3, <1>4, <2>1 DEF HoldsLast
    <3>2. CASE i = n + 1
      BY <1>3, <3>2
    <3>3. CASE i # n + 1
      BY <1>3, <1>6, <3>1, <3>3
    <3>. QED  BY <3>2, <3>3
  <2>. QED  BY <1>2, <1>3, <1>4, <1>5, <1>7, <2>1, <2>2, <2>3 DEF Grown
<1>8. CASE c = Cap
  <2>1. seq = SubSeq(grown, 2, c + 1)
    <3>1. Len(grown) > Cap /\ Len(grown) - (Cap - 1) = 2 /\ Len(grown) = c + 1
      BY <1>3, <1>4, <1>8
    <3>. QED  BY <1>1, <3>1 DEF Latest
  <2>2. /\ seq \in Seq(Steps) /\ Len(seq) = c
        /\ \A j \in 1..c : seq[j] = grown[j + 1]
    BY <1>3, <1>4, <1>8, <2>1
  <2>3. \A j \in 1..c : j + 1 \in 1..c + 1
    BY <1>3
  <2>4. EndOf(seq, new)
    <3>1. \A j \in 1..c : seq[j] = new[n - c + (j + 1)]
      BY <1>5, <2>2, <2>3
    <3>2. \A j \in 1..c : n - c + (j + 1) = n + 1 - c + j
      BY <1>3
    <3>. QED  BY <1>3, <2>2, <3>1, <3>2 DEF EndOf
  <2>5. HoldsLast(seq, new, t)
    <3>2. PICK m \in Nat, d \in Nat : m = Len(new) /\ d = Len(seq) /\ m = n + 1 /\ d = c
      BY <1>3, <2>2
    <3>3. \A i \in 1..m : m - i < Cap => i > m - d
      BY <1>3, <1>8, <3>2
    <3>4. \A i \in 1..Len(new) : Len(new) - i < Cap => i > Len(new) - Len(seq)
      BY <3>2, <3>3
    <3>. QED  BY <3>4 DEF HoldsLast
  <2>6. c \in 1..c /\ seq[c] = s
    BY <1>3, <1>4, <1>8, <2>2
  <2>7. \A j \in 1..c : seq[j] = s \/ \E x \in 1..c : seq[j] = list[x]
    <3>1. ASSUME NEW j \in 1..c
          PROVE  seq[j] = s \/ \E x \in 1..c : seq[j] = list[x]
      <4>1. PICK i \in 1..c + 1 : i = j + 1
        BY <2>3
      <4>2. seq[j] = grown[i]
        BY <2>2, <4>1
      <4>. QED  BY <1>5, <4>2
    <3>. QED  BY <3>1
  <2>. QED  BY <1>2, <1>3, <1>8, <2>2, <2>4, <2>5, <2>6, <2>7 DEF Grown
<1>. QED  BY <1>3, <1>7, <1>8

LEMMA EndIsPruned ==
    ASSUME StreamAssumption, ChainAssumption, now \in Nat, NEW h \in Seq(Steps), InTime(h),
           NEW list, EndOf(list, h), HoldsLast(list, h, now),
           NEW rest, rest = Since(list, Window)
    PROVE  /\ EndOf(rest, h) /\ HoldsLast(rest, h, now) /\ Len(rest) <= Len(list)
           /\ \A j \in 1..Len(rest) : now - rest[j].at <= Window
<1>1. PICK n \in Nat, c \in Nat : n = Len(h) /\ c = Len(list)
  BY DEF EndOf
<1>2. /\ list \in Seq(Steps) /\ c <= n /\ \A j \in 1..c : list[j] = h[n - c + j]
      /\ Window \in Int
  BY <1>1 DEF EndOf, ChainAssumption
<1>3. \A j \in 1..c : n - c + j \in 1..n
  BY <1>2
<1>4. InTime(list)
  <2>1. SUFFICES ASSUME NEW i \in 1..c, NEW j \in 1..c, i < j
                 PROVE  list[i].at <= list[j].at
    BY <1>1 DEF InTime
  <2>2. n - c + i \in 1..n /\ n - c + j \in 1..n /\ n - c + i < n - c + j
    BY SMTT(30), <1>3, <2>1
  <2>. QED  BY <1>1, <1>2, <2>2 DEF InTime
<1>5. PICK k \in 0..c : Tells(rest, list, c, k, Window)
  <2>1. \E k \in 0..Len(list) : Tells(Since(list, Window), list, Len(list), k, Window)
    BY <1>2, <1>4, SinceIs
  <2>. QED  BY <1>1, <2>1
<1>6. /\ rest \in Seq(Steps) /\ Len(rest) = c - k
      /\ \A j \in 1..c - k : rest[j] = list[k + j]
      /\ \A j \in 1..c : now - list[j].at <= Window <=> j > k
  BY <1>5 DEF Tells
<1>7. \A j \in 1..c - k : k + j \in 1..c /\ k + j > k
  OBVIOUS
<1>8. EndOf(rest, h)
  <2>1. ASSUME NEW j \in 1..c - k
        PROVE  rest[j] = h[n - (c - k) + j]
    <3>1. k + j \in 1..c /\ n - c + (k + j) = n - (c - k) + j
      BY <1>7
    <3>. QED  BY <1>2, <1>6, <3>1
  <2>. QED  BY <1>1, <1>2, <1>6, <2>1 DEF EndOf
<1>9. HoldsLast(rest, h, now)
  <2>1. SUFFICES ASSUME NEW i \in 1..n, n - i < Cap, now - h[i].at <= Window
                 PROVE  i > n - (c - k)
    BY <1>1, <1>6 DEF HoldsLast
  <2>2. i > n - c
    BY <1>1, <2>1 DEF HoldsLast
  <2>3. PICK j \in 1..c : i = n - c + j
    <3>1. i - (n - c) \in 1..c /\ i = n - c + (i - (n - c))
      BY <1>2, <2>2
    <3>. QED  BY <3>1
  <2>4. j > k
    BY <1>2, <1>6, <2>1, <2>3
  <2>. QED  BY <2>3, <2>4
<1>10. \A j \in 1..c - k : now - rest[j].at <= Window
  BY <1>6, <1>7
<1>. QED  BY <1>1, <1>6, <1>8, <1>9, <1>10

\* The kill-chain detector's lists are the ends of the histories, with all of the last Cap
\* events that are within the window and none that was not at the last event.
StepsInv ==
    /\ chainSteps \in [Pids -> Seq(Steps)]
    /\ \A p \in Pids :
        /\ EndOf(chainSteps[p], hist[p]) /\ HoldsLast(chainSteps[p], hist[p], now)
        /\ Len(chainSteps[p]) <= Cap
        /\ \A j \in 1..Len(chainSteps[p]) :
            /\ newest # NoPid => now - chainSteps[p][j].at <= Window
            /\ \A q \in Pids : \A i \in 1..Len(hist[q]) :
                hist[q][i].at <= chainSteps[p][j].at + Window

\* A span is remembered for as long as the window, and a chain that is remembered has one.
SpansInv ==
    /\ \A c \in emitted : /\ c.at \in 0..now /\ newest # NoPid => now - c.at <= Window
                          /\ \E s \in spans : c.key = Key(s) /\ c.at = s.at
    /\ \A s \in spans :
        /\ s.at \in Nat /\ s.at <= now /\ s.pid \in Pids
        /\ s.exec.nr \in 1..Len(hist[s.pid]) /\ s.connect.nr \in 1..Len(hist[s.pid])
        /\ now - s.at <= Window => \E c \in emitted : c.key = Key(s) /\ c.at = s.at
    /\ SpanIsChain /\ SpansApart /\ StaleSpansFollowSilence

ChainInv == StepsInv /\ SpansInv /\ root \in BOOLEAN

\* The list that detectLocked looks at.
Looked(pid, s) == Latest(Append(chainSteps[pid], s))

LEMMA LookedIs ==
    ASSUME StreamAssumption, ChainAssumption, StreamInv, StepsInv, NEW pid \in Pids,
           NEW s, Adds(pid, s), NEW seq, seq = Looked(pid, s)
    PROVE  Grown(seq, chainSteps[pid], hist'[pid], s, now)
<1>1. Longer(hist'[pid], hist[pid], s)
  BY DEF Longer, Adds, StreamInv
<1>2. PICK list, h, new, t : /\ list = chainSteps[pid] /\ h = hist[pid] /\ new = hist'[pid]
                              /\ t = now
  OBVIOUS
<1>3. EndOf(list, h) /\ HoldsLast(list, h, t) /\ Len(list) <= Cap /\ Longer(new, h, s)
  BY <1>1, <1>2 DEF StepsInv
<1>4. seq = Latest(Append(list, s))
  BY <1>2 DEF Looked
<1>5. Grown(seq, list, new, s, t)
  BY <1>3, <1>4, EndGrows
<1>. QED  BY <1>2, <1>5

LEMMA StepsKept ==
    ASSUME StreamAssumption, ChainAssumption, StreamInv, StepsInv, NEW pid \in Pids,
           NEW s, Adds(pid, s), NEW seq, seq = Looked(pid, s),
           chainSteps' = PruneSteps([chainSteps EXCEPT ![pid] = seq])
    PROVE  StepsInv'
<1>1. StreamInv' /\ now' = now /\ newest' = pid /\ now \in Nat /\ Window \in Nat
  <2>1. StreamInv'
    BY StreamGrows
  <2>2. now' = now /\ newest' = pid /\ now \in Nat /\ Window \in Nat
    BY DEF StreamInv, Adds, ChainAssumption
  <2>. QED  BY <2>1, <2>2
<1>2. ASSUME NEW p \in Pids
      PROVE  /\ EndOf(chainSteps'[p], hist'[p]) /\ HoldsLast(chainSteps'[p], hist'[p], now)
             /\ Len(chainSteps'[p]) <= Cap /\ chainSteps'[p] \in Seq(Steps)
             /\ \A j \in 1..Len(chainSteps'[p]) : now - chainSteps'[p][j].at <= Window
  <2>1. PICK list, rest : list = (IF p = pid THEN seq ELSE chainSteps[p]) /\ rest = Since(list, Window)
    OBVIOUS
  <2>2. chainSteps'[p] = rest
    BY <2>1 DEF PruneSteps, StepsInv
  <2>3. PICK h \in Seq(Steps) : h = hist'[p] /\ InTime(h)
    BY <1>1 DEF StreamInv, InTime
  <2>4. EndOf(list, h) /\ HoldsLast(list, h, now) /\ Len(list) <= Cap
    <3>1. CASE p = pid
      BY <2>1, <2>3, <3>1, LookedIs DEF Grown
    <3>2. CASE p # pid
      BY <2>1, <2>3, <3>2 DEF StepsInv, Adds
    <3>. QED  BY <3>1, <3>2
  <2>5. /\ EndOf(rest, h) /\ HoldsLast(rest, h, now) /\ Len(rest) <= Len(list)
        /\ \A j \in 1..Len(rest) : now - rest[j].at <= Window
    BY <1>1, <2>1, <2>3, <2>4, EndIsPruned
  <2>6. Len(rest) <= Cap /\ rest \in Seq(Steps)
    <3>1. Len(rest) \in Nat /\ Len(list) \in Nat /\ Cap \in Nat /\ rest \in Seq(Steps)
      BY <2>4, <2>5 DEF EndOf, ChainAssumption
    <3>. QED  BY <2>4, <2>5, <3>1
  <2>. QED  BY <2>2, <2>3, <2>5, <2>6
<1>3. chainSteps' \in [Pids -> Seq(Steps)]
  BY <1>2 DEF PruneSteps
<1>4. ASSUME NEW p \in Pids, NEW j \in 1..Len(chainSteps'[p]),
             NEW q \in Pids, NEW i \in 1..Len(hist'[q])
      PROVE  hist'[q][i].at <= chainSteps'[p][j].at + Window
  <2>0. PICK rest \in Seq(Steps) : rest = chainSteps'[p]
    BY <1>2
  <2>1. hist'[q][i].at <= now /\ hist'[q][i].at \in Int
    <3>1. hist'[q][i] \in Steps
      BY <1>1 DEF StreamInv
    <3>. QED  BY SMTT(30), <1>1, <3>1 DEF StreamInv, Steps
  <2>2. now - chainSteps'[p][j].at <= Window /\ chainSteps'[p][j].at \in Int
    <3>1. rest[j] \in Steps
      BY <1>4, <2>0
    <3>2. rest[j].at \in Int
      BY <3>1 DEF Steps
    <3>. QED  BY <1>2, <2>0, <3>2
  <2>. QED  BY SMTT(30), <1>1, <2>1, <2>2
<1>. QED  BY <1>1, <1>2, <1>3, <1>4 DEF StepsInv
\* A chain that is found is one of the process.
IsReal(ch, pid) ==
    /\ ch.pid = pid /\ ch.at = now /\ ch.exec.type = "exec" /\ ch.connect.type = "connect"
    /\ ch.exec.nr \in 1..Len(hist'[pid]) /\ hist'[pid][ch.exec.nr] = ch.exec
    /\ ch.connect.nr \in 1..Len(hist'[pid]) /\ hist'[pid][ch.connect.nr] = ch.connect
    /\ ch.exec.nr < ch.connect.nr
    /\ \A p \in Pids : \A i \in 1..Len(hist'[p]) :
        ~(ch.exec.at + Window < hist'[p][i].at /\ hist'[p][i].at < now)

LEMMA HistoriesGrow ==
    ASSUME StreamInv, NEW pid \in Pids, NEW s, Adds(pid, s)
    PROVE  /\ \A p \in Pids : \A i \in 1..Len(hist[p]) :
                i \in 1..Len(hist'[p]) /\ hist'[p][i] = hist[p][i]
           /\ \A p \in Pids : \A i \in 1..Len(hist'[p]) :
                (i \in 1..Len(hist[p]) /\ hist'[p][i] = hist[p][i]) \/ hist'[p][i].at = now
<1>1. hist[pid] \in Seq(Steps) /\ Len(hist[pid]) \in Nat
  BY DEF StreamInv
<1>2. ASSUME NEW p \in Pids
      PROVE  /\ \A i \in 1..Len(hist[p]) : i \in 1..Len(hist'[p]) /\ hist'[p][i] = hist[p][i]
             /\ \A i \in 1..Len(hist'[p]) :
                (i \in 1..Len(hist[p]) /\ hist'[p][i] = hist[p][i]) \/ hist'[p][i].at = now
  <2>1. CASE p = pid
    BY <1>1, <2>1 DEF Adds
  <2>2. CASE p # pid
    BY <2>2 DEF Adds
  <2>. QED  BY <2>1, <2>2
<1>. QED  BY <1>2

LEMMA FoundIsReal ==
    ASSUME StreamAssumption, ChainAssumption, StreamInv, StepsInv, NEW pid \in Pids,
           NEW s, Adds(pid, s), NEW seq, seq = Looked(pid, s), IsChain(seq)
    PROVE  IsReal(Chain(pid, seq), pid)
<1>1. StreamInv' /\ now' = now /\ now \in Nat /\ Window \in Nat /\ s.at = now
  <2>1. StreamInv'
    BY StreamGrows
  <2>2. now' = now /\ now \in Nat /\ Window \in Nat /\ s.at = now
    BY DEF StreamInv, Adds, ChainAssumption
  <2>. QED  BY <2>1, <2>2
<1>2. Grown(seq, chainSteps[pid], hist'[pid], s, now)
  BY LookedIs
<1>3. PICK new \in Seq(Steps), n \in Nat, c \in Nat :
        new = hist'[pid] /\ n = Len(new) /\ c = Len(seq)
  BY <1>1, <1>2 DEF StreamInv, Grown, EndOf
<1>4. /\ seq \in Seq(Steps) /\ c <= n /\ DOMAIN seq = 1..c
      /\ \A j \in 1..c : seq[j] = new[n - c + j]
      /\ \A j \in 1..c : seq[j] = s \/ \E x \in 1..Len(chainSteps[pid]) : seq[j] = chainSteps[pid][x]
  BY <1>2, <1>3 DEF Grown, EndOf
<1>5. PICK e \in 1..c, x \in 1..c :
        /\ e = Min(Indices(seq, "exec")) /\ x = Max(Indices(seq, "connect"))
        /\ seq[e].type = "exec" /\ seq[x].type = "connect" /\ e < x
  <2>1. /\ Indices(seq, "exec") \in SUBSET (1..c) /\ Indices(seq, "exec") # {}
        /\ Indices(seq, "connect") \in SUBSET (1..c) /\ Indices(seq, "connect") # {}
        /\ Min(Indices(seq, "exec")) < Max(Indices(seq, "connect"))
    BY <1>4 DEF Indices, IsChain
  <2>2. Indices(seq, "exec") \in SUBSET Nat
    BY <2>1
  <2>3. /\ Min(Indices(seq, "exec")) \in Indices(seq, "exec")
        /\ Max(Indices(seq, "connect")) \in Indices(seq, "connect")
    BY <1>3, <2>1, <2>2, LeastIs, GreatestIs
  <2>. QED  BY <2>1, <2>3 DEF Indices
<1>6. PICK ch : ch = Chain(pid, seq)
  OBVIOUS
<1>7. ch.pid = pid /\ ch.at = now /\ ch.exec = seq[e] /\ ch.connect = seq[x]
  BY <1>5, <1>6 DEF Chain
<1>8. \A j \in 1..c : n - c + j \in 1..n /\ seq[j].nr = n - c + j
  <2>1. \A j \in 1..c : n - c + j \in 1..n
    BY <1>4
  <2>2. \A i \in 1..n : new[i].nr = i
    BY <1>1, <1>3 DEF StreamInv
  <2>. QED  BY <1>4, <2>1, <2>2
<1>9. ASSUME NEW p \in Pids, NEW i \in 1..Len(hist'[p]),
             seq[e].at + Window < hist'[p][i].at, hist'[p][i].at < now
      PROVE  FALSE
  <2>1. i \in 1..Len(hist[p]) /\ hist'[p][i] = hist[p][i]
    BY <1>1, <1>9, HistoriesGrow
  <2>2. hist[p][i] \in Steps
    BY <2>1 DEF StreamInv
  <2>3. hist[p][i].at \in Int
    BY <2>2 DEF Steps
  <2>4. CASE seq[e] = s
    BY <1>1, <1>9, <2>1, <2>3, <2>4
  <2>5. CASE seq[e] # s
    <3>1. PICK y \in 1..Len(chainSteps[pid]) : seq[e] = chainSteps[pid][y]
      BY <1>4, <2>5
    <3>2. hist[p][i].at <= seq[e].at + Window
      BY <2>1, <3>1 DEF StepsInv
    <3>3. seq[e] \in Steps
      BY <1>4
    <3>4. seq[e].at \in Int
      BY <3>3 DEF Steps
    <3>. QED  BY SMTT(30), <1>1, <1>9, <2>1, <2>3, <3>2, <3>4
  <2>. QED  BY <2>4, <2>5
<1>10. /\ n - c + e \in 1..n /\ n - c + x \in 1..n /\ n - c + e < n - c + x
       /\ seq[e].nr = n - c + e /\ seq[x].nr = n - c + x
       /\ seq[e] = new[n - c + e] /\ seq[x] = new[n - c + x]
  BY <1>4, <1>5, <1>8
<1>11. IsReal(ch, pid)
  <2>1. ch.pid = pid /\ ch.at = now /\ ch.exec.type = "exec" /\ ch.connect.type = "connect"
    BY <1>5, <1>7
  <2>2. ch.exec.nr \in 1..Len(hist'[pid]) /\ hist'[pid][ch.exec.nr] = ch.exec
    BY <1>3, <1>7, <1>10
  <2>3. ch.connect.nr \in 1..Len(hist'[pid]) /\ hist'[pid][ch.connect.nr] = ch.connect
    BY <1>3, <1>7, <1>10
  <2>4. ch.exec.nr < ch.connect.nr
    BY <1>7, <1>10
  <2>5. \A p \in Pids : \A i \in 1..Len(hist'[p]) :
          ~(ch.exec.at + Window < hist'[p][i].at /\ hist'[p][i].at < now)
    BY <1>7, <1>9
  <2>. QED  BY <2>1, <2>2, <2>3, <2>4, <2>5 DEF IsReal
<1>. QED  BY <1>6, <1>11

\* The chains that an event adds to those that are remembered: at most one.
Found(pid, seq, supervisor) ==
    IF ~supervisor /\ IsChain(seq)
          /\ \A c \in PruneEmitted(emitted) : c.key # Key(Chain(pid, seq))
    THEN {Chain(pid, seq)} ELSE {}

LEMMA ObserveChainIs ==
    ASSUME NEW pid \in Pids, NEW type, NEW supervisor, ObserveChain(pid, type, supervisor),
           NEW s, s = Step(pid, type), NEW seq, seq = Looked(pid, s)
    PROVE  /\ chainSteps' = PruneSteps([chainSteps EXCEPT ![pid] = seq])
           /\ emitted' = PruneEmitted(emitted)
                \cup {[key |-> Key(c), at |-> now] : c \in Found(pid, seq, supervisor)}
           /\ spans' = spans \cup Found(pid, seq, supervisor)
           /\ root' = supervisor
BY DEF ObserveChain, Looked, Found

LEMMA SpansKept ==
    ASSUME StreamAssumption, ChainAssumption, StreamInv, StepsInv, SpansInv, NEW pid \in Pids,
           NEW type, NEW supervisor, ObserveChain(pid, type, supervisor),
           NEW s, s = Step(pid, type), Adds(pid, s)
    PROVE  SpansInv'
<1>1. now' = now /\ newest' = pid /\ now \in Nat /\ Window \in Nat
  BY DEF StreamInv, Adds, ChainAssumption
<1>2. PICK seq, found : seq = Looked(pid, s) /\ found = Found(pid, seq, supervisor)
  OBVIOUS
<1>3. /\ emitted' = PruneEmitted(emitted) \cup {[key |-> Key(c), at |-> now] : c \in found}
      /\ spans' = spans \cup found
  BY <1>2, ObserveChainIs
<1>4. ASSUME NEW ch \in found
      PROVE  /\ found = {ch} /\ IsReal(ch, pid)
             /\ \A c \in PruneEmitted(emitted) : c.key # Key(ch)
  <2>1. IsChain(seq) /\ found = {Chain(pid, seq)}
        /\ \A c \in PruneEmitted(emitted) : c.key # Key(Chain(pid, seq))
    BY <1>2, <1>4 DEF Found
  <2>2. IsReal(Chain(pid, seq), pid)
    BY <1>2, <2>1, FoundIsReal
  <2>3. ch = Chain(pid, seq)
    BY <1>4, <2>1
  <2>. QED  BY <2>1, <2>2, <2>3
<1>5. /\ \A p \in Pids : \A i \in 1..Len(hist[p]) :
            i \in 1..Len(hist'[p]) /\ hist'[p][i] = hist[p][i]
      /\ \A p \in Pids : \A i \in 1..Len(hist'[p]) :
            (i \in 1..Len(hist[p]) /\ hist'[p][i] = hist[p][i]) \/ hist'[p][i].at = now
  BY HistoriesGrow
<1>6. ASSUME NEW c \in emitted'
      PROVE  /\ c.at \in 0..now /\ now - c.at <= Window
             /\ \E x \in spans' : c.key = Key(x) /\ c.at = x.at
  <2>1. CASE c \in PruneEmitted(emitted)
    <3>1. c \in emitted /\ now - c.at <= Window
      BY <2>1 DEF PruneEmitted
    <3>. QED  BY <1>3, <3>1 DEF SpansInv
  <2>2. CASE c \notin PruneEmitted(emitted)
    <3>1. PICK ch \in found : c = [key |-> Key(ch), at |-> now]
      BY <1>3, <2>2
    <3>2. ch \in spans' /\ ch.at = now
      BY <1>3, <1>4, <3>1 DEF IsReal
    <3>. QED  BY <1>1, <3>1, <3>2
  <2>. QED  BY <2>1, <2>2
<1>7. ASSUME NEW x \in spans'
      PROVE  /\ x.at \in Nat /\ x.at <= now /\ x.pid \in Pids
             /\ x.exec.nr \in 1..Len(hist'[x.pid]) /\ x.connect.nr \in 1..Len(hist'[x.pid])
             /\ now - x.at <= Window => \E c \in emitted' : c.key = Key(x) /\ c.at = x.at
             /\ x.exec.type = "exec" /\ x.connect.type = "connect"
             /\ hist'[x.pid][x.exec.nr] = x.exec /\ hist'[x.pid][x.connect.nr] = x.connect
             /\ x.exec.nr < x.connect.nr
             /\ \A p \in Pids : \A i \in 1..Len(hist'[p]) :
                    ~(x.exec.at + Window < hist'[p][i].at /\ hist'[p][i].at < x.at)
  <2>1. CASE x \in spans
    <3>1. /\ x.at \in Nat /\ x.at <= now /\ x.pid \in Pids
          /\ x.exec.nr \in 1..Len(hist[x.pid]) /\ x.connect.nr \in 1..Len(hist[x.pid])
          /\ now - x.at <= Window => \E c \in emitted : c.key = Key(x) /\ c.at = x.at
      BY <2>1 DEF SpansInv
    <3>2. now - x.at <= Window => \E c \in emitted' : c.key = Key(x) /\ c.at = x.at
      BY <1>3, <3>1 DEF PruneEmitted
    <3>3. /\ x.exec.type = "exec" /\ x.connect.type = "connect"
          /\ hist[x.pid][x.exec.nr] = x.exec /\ hist[x.pid][x.connect.nr] = x.connect
          /\ x.exec.nr < x.connect.nr
      BY <2>1 DEF SpansInv, SpanIsChain
    <3>4. ASSUME NEW p \in Pids, NEW i \in 1..Len(hist'[p]),
                 x.exec.at + Window < hist'[p][i].at, hist'[p][i].at < x.at
          PROVE  FALSE
      <4>1. hist'[p][i].at # now
        BY <1>1, <3>1, <3>4
      <4>2. i \in 1..Len(hist[p]) /\ hist'[p][i] = hist[p][i]
        BY <1>5, <4>1
      <4>3. i \in DOMAIN hist[p]
        BY <4>2 DEF StreamInv
      <4>. QED  BY <2>1, <3>4, <4>2, <4>3 DEF SpansInv, StaleSpansFollowSilence
    <3>. QED  BY SMTT(30), <1>5, <3>1, <3>2, <3>3, <3>4
  <2>2. CASE x \notin spans
    <3>1. x \in found
      BY <1>3, <2>2
    <3>2. IsReal(x, pid)
      BY <1>4, <3>1
    <3>3. PICK c : c = [key |-> Key(x), at |-> now]
      OBVIOUS
    <3>4. c \in emitted' /\ c.key = Key(x) /\ c.at = x.at
      BY <1>3, <3>1, <3>2, <3>3 DEF IsReal
    <3>. QED  BY <1>1, <3>2, <3>4 DEF IsReal
  <2>. QED  BY <2>1, <2>2
<1>8. ASSUME NEW x \in spans', NEW y \in spans', x # y, Key(x) = Key(y)
      PROVE  x.at - y.at > Window \/ y.at - x.at > Window
  <2>1. ASSUME NEW old \in spans, NEW ch \in found, Key(old) = Key(ch)
        PROVE  ch.at - old.at > Window
    <3>1. old.at \in Nat /\ ch.at = now
      BY <1>4 DEF SpansInv, IsReal
    <3>2. ASSUME now - old.at <= Window
          PROVE  FALSE
      <4>1. PICK c \in emitted : c.key = Key(old) /\ c.at = old.at
        BY <3>2 DEF SpansInv
      <4>2. c \in PruneEmitted(emitted)
        BY <3>2, <4>1 DEF PruneEmitted
      <4>. QED  BY <1>4, <2>1, <4>1, <4>2
    <3>. QED  BY <1>1, <3>1, <3>2
  <2>2. CASE x \in spans /\ y \in spans
    BY <1>8, <2>2 DEF SpansInv, SpansApart
  <2>3. CASE x \in spans /\ y \notin spans
    <3>1. y \in found
      BY <1>3, <2>3
    <3>. QED  BY <1>8, <2>1, <2>3, <3>1
  <2>4. CASE x \notin spans /\ y \in spans
    <3>1. x \in found
      BY <1>3, <2>4
    <3>. QED  BY <1>8, <2>1, <2>4, <3>1
  <2>5. CASE x \notin spans /\ y \notin spans
    <3>1. x \in found /\ y \in found
      BY <1>3, <2>5
    <3>. QED  BY <1>4, <1>8, <3>1
  <2>. QED  BY <2>2, <2>3, <2>4, <2>5
<1>9. SpanIsChain'
  BY <1>7 DEF SpanIsChain
<1>10. SpansApart'
  BY <1>8 DEF SpansApart, Key
<1>11. StaleSpansFollowSilence'
  <2>1. \A p \in Pids : DOMAIN hist'[p] = 1..Len(hist'[p])
    BY DEF Adds
  <2>. QED  BY <1>7, <2>1 DEF StaleSpansFollowSilence
<1>12. /\ \A c \in emitted' : /\ c.at \in 0..now' /\ newest' # NoPid => now' - c.at <= Window
                              /\ \E x \in spans' : c.key = Key(x) /\ c.at = x.at
       /\ \A x \in spans' :
            /\ x.at \in Nat /\ x.at <= now' /\ x.pid \in Pids
            /\ x.exec.nr \in 1..Len(hist'[x.pid]) /\ x.connect.nr \in 1..Len(hist'[x.pid])
            /\ now' - x.at <= Window => \E c \in emitted' : c.key = Key(x) /\ c.at = x.at
  BY <1>1, <1>6, <1>7
<1>. QED  BY <1>9, <1>10, <1>11, <1>12 DEF SpansInv, Key

LEMMA ChainWaits ==
    ASSUME StreamAssumption, ChainAssumption, StreamInv, StepsInv, SpansInv, TimePasses, ChainPass
    PROVE  StepsInv' /\ SpansInv' /\ root' \in BOOLEAN
<1>1. /\ now \in Nat /\ now' = now + 1 /\ newest' = NoPid /\ hist' = hist
      /\ chainSteps' = chainSteps /\ emitted' = emitted /\ spans' = spans /\ root' = FALSE
      /\ Window \in Nat
  BY DEF StreamInv, TimePasses, ChainPass, ChainAssumption
<1>2. ASSUME NEW p \in Pids
      PROVE  HoldsLast(chainSteps[p], hist[p], now + 1)
  <2>1. PICK list, h, later : list = chainSteps[p] /\ h = hist[p] /\ later = now + 1
    OBVIOUS
  <2>2. HoldsLast(list, h, now)
    BY <2>1 DEF StepsInv
  <2>3. \A i \in 1..Len(h) : later - h[i].at <= Window => now - h[i].at <= Window
    <3>1. \A i \in 1..Len(h) : h[i] \in Steps
      BY <2>1 DEF StreamInv
    <3>2. \A i \in 1..Len(h) : h[i].at \in Int
      BY <3>1 DEF Steps
    <3>. QED  BY <1>1, <2>1, <3>2
  <2>4. HoldsLast(list, h, later)
    BY <2>2, <2>3 DEF HoldsLast
  <2>. QED  BY <2>1, <2>4
<1>3. StepsInv'
  BY <1>1, <1>2 DEF StepsInv
<1>4. \A c \in emitted : c.at \in 0..now + 1
  BY <1>1 DEF SpansInv
<1>5. \A s \in spans : /\ s.at \in Nat /\ s.at <= now + 1
                       /\ now + 1 - s.at <= Window => now - s.at <= Window
  BY <1>1 DEF SpansInv
<1>6. SpanIsChain' /\ SpansApart' /\ StaleSpansFollowSilence'
  BY <1>1 DEF SpansInv, SpanIsChain, SpansApart, StaleSpansFollowSilence, Key
<1>7. \A c \in emitted' : /\ c.at \in 0..now' /\ newest' # NoPid => now' - c.at <= Window
                          /\ \E s \in spans' : c.key = Key(s)' /\ c.at = s.at
  BY <1>1, <1>4 DEF SpansInv, Key
<1>8. \A s \in spans' :
        /\ s.at \in Nat /\ s.at <= now' /\ s.pid \in Pids
        /\ s.exec.nr \in 1..Len(hist'[s.pid]) /\ s.connect.nr \in 1..Len(hist'[s.pid])
        /\ now' - s.at <= Window => \E c \in emitted' : c.key = Key(s)' /\ c.at = s.at
  <2>1. ASSUME NEW s \in spans
        PROVE  /\ s.pid \in Pids
               /\ s.exec.nr \in 1..Len(hist[s.pid]) /\ s.connect.nr \in 1..Len(hist[s.pid])
               /\ now - s.at <= Window => \E c \in emitted : c.key = Key(s) /\ c.at = s.at
    BY <2>1 DEF SpansInv
  <2>2. ASSUME NEW s \in spans
        PROVE  /\ s.at \in Nat /\ s.at <= now' /\ s.pid \in Pids
               /\ s.exec.nr \in 1..Len(hist'[s.pid]) /\ s.connect.nr \in 1..Len(hist'[s.pid])
               /\ now' - s.at <= Window => \E c \in emitted' : c.key = Key(s)' /\ c.at = s.at
    <3>1. s.at \in Nat /\ s.at <= now' /\ (now' - s.at <= Window => now - s.at <= Window)
      BY <1>1, <1>5
    <3>2. Key(s)' = Key(s) /\ hist' = hist /\ emitted' = emitted
      BY <1>1 DEF Key
    <3>. QED  BY <2>1, <3>1, <3>2
  <2>. QED  BY <1>1, <2>2
<1>9. SpansInv'
  BY <1>6, <1>7, <1>8 DEF SpansInv
<1>. QED  BY <1>1, <1>3, <1>9
LEMMA CloseChainIsReported ==
    ASSUME StreamAssumption, ChainAssumption, StreamInv, StepsInv, SpansInv, NEW pid \in Pids,
           NEW type, NEW supervisor, ObserveChain(pid, type, supervisor),
           NEW s, s = Step(pid, type), Adds(pid, s)
    PROVE  CloseChainsReported'
<1>1. now' = now /\ newest' = pid /\ now \in Nat /\ Window \in Nat /\ s.at = now
  BY DEF StreamInv, Adds, ChainAssumption
<1>2. PICK seq, found : seq = Looked(pid, s) /\ found = Found(pid, seq, supervisor)
  OBVIOUS
<1>3. root' = supervisor /\ spans' = spans \cup found
  BY <1>2, ObserveChainIs
<1>4. SUFFICES ASSUME ~supervisor, ConnectAfterExec'
               PROVE  \E x \in spans' : x.pid = pid /\ x.connect.at = now /\ now - x.at <= Window
  BY <1>1, <1>3 DEF CloseChainsReported, Reported
<1>5. Grown(seq, chainSteps[pid], hist'[pid], s, now)
  BY <1>2, LookedIs
<1>6. PICK new \in Seq(Steps), n \in Nat, c \in Nat :
        new = hist'[pid] /\ n = Len(new) /\ c = Len(seq)
  BY <1>5 DEF Adds, Grown, EndOf
<1>7. /\ seq \in Seq(Steps) /\ c >= 1 /\ c <= n /\ DOMAIN seq = 1..c /\ seq[c] = s
      /\ \A j \in 1..c : seq[j] = new[n - c + j]
      /\ \A i \in 1..n : n - i < Cap /\ now - new[i].at <= Window => i > n - c
  BY <1>5, <1>6 DEF Grown, EndOf, HoldsLast
<1>8. PICK i \in 1..n : /\ new[i].type = "exec" /\ now - new[i].at <= Window
                        /\ i < n /\ n - i < Cap /\ new[n].type = "connect"
  BY <1>1, <1>4, <1>6 DEF ConnectAfterExec, Last
<1>9. PICK e \in 1..c : e < c /\ seq[e].type = "exec"
  <2>1. i > n - c
    BY <1>7, <1>8
  <2>2. i - (n - c) \in 1..c /\ i - (n - c) < c /\ n - c + (i - (n - c)) = i
    BY <1>7, <1>8, <2>1
  <2>. QED  BY <1>7, <1>8, <2>2
<1>10. c \in 1..c /\ seq[c].type = "connect"
  BY <1>7, <1>8
<1>11. /\ Indices(seq, "exec") \in SUBSET Nat /\ e \in Indices(seq, "exec")
       /\ Indices(seq, "connect") \in SUBSET (1..c) /\ c \in Indices(seq, "connect")
  BY <1>7, <1>9, <1>10 DEF Indices
<1>12. Min(Indices(seq, "exec")) <= e /\ Min(Indices(seq, "exec")) \in Nat
  BY <1>11, LeastIs
<1>13. Max(Indices(seq, "connect")) = c
  <2>1. Max(Indices(seq, "connect")) \in 1..c /\ c <= Max(Indices(seq, "connect"))
    BY <1>11, GreatestIs
  <2>. QED  BY <2>1
<1>14. IsChain(seq)
  BY <1>9, <1>11, <1>12, <1>13 DEF IsChain
<1>15. PICK ch : ch = Chain(pid, seq)
  OBVIOUS
<1>16. ch.pid = pid /\ ch.at = now /\ ch.connect.at = now
  BY <1>1, <1>7, <1>13, <1>15 DEF Chain
<1>17. CASE \A d \in PruneEmitted(emitted) : d.key # Key(ch)
  <2>1. ch \in found
    BY <1>2, <1>4, <1>14, <1>15, <1>17 DEF Found
  <2>. QED  BY <1>1, <1>3, <1>16, <2>1
<1>18. CASE \E d \in PruneEmitted(emitted) : d.key = Key(ch)
  <2>1. PICK d \in emitted : d.key = Key(ch) /\ now - d.at <= Window
    BY <1>18 DEF PruneEmitted
  <2>2. PICK x \in spans : d.key = Key(x) /\ d.at = x.at
    BY <2>1 DEF SpansInv
  <2>3. x.pid = ch.pid /\ x.connect.at = ch.connect.at
    BY <2>1, <2>2 DEF Key
  <2>. QED  BY <1>3, <1>16, <2>1, <2>2, <2>3
<1>. QED  BY <1>17, <1>18

-----------------------------------------------------------------------------
(* Both detectors. *)

\* What holds right after an event: the alerts are real, and none is missing.
AlertsInv ==
    /\ MatchIsOccurrence /\ FreshSequencesFire /\ CloseChainsReported
    /\ \A f \in fired : f.rule \in Rules /\ f.matched \in Seq(Steps)

DetectorsInv == StreamInv /\ CompositeInv /\ StepsInv /\ SpansInv /\ root \in BOOLEAN /\ AlertsInv

LEMMA DetectorsStart ==
    ASSUME StreamAssumption, CompositeAssumption, ChainAssumption, DetectorsInit
    PROVE  DetectorsInv
<1>1. /\ now = 0 /\ newest = NoPid /\ hist = [p \in Pids |-> <<>>]
      /\ compositeSteps = [p \in Pids |-> <<>>] /\ fired = {}
      /\ chainSteps = [p \in Pids |-> <<>>] /\ emitted = {} /\ root = FALSE /\ spans = {}
      /\ MaxTime \in Nat /\ Cap \in Nat
  BY DEF DetectorsInit, StreamInit, CompositeInit, ChainInit, StreamAssumption, ChainAssumption
<1>2. StreamInv
  BY <1>1 DEF StreamInv
<1>3. CompositeInv
  BY <1>1 DEF CompositeInv, Drawn, AllRecent, Ascending
<1>4. StepsInv
  BY <1>1 DEF StepsInv, EndOf, HoldsLast
<1>5. SpansInv
  BY <1>1 DEF SpansInv, SpanIsChain, SpansApart, StaleSpansFollowSilence
<1>6. AlertsInv
  BY <1>1 DEF AlertsInv, MatchIsOccurrence, FreshSequencesFire, CloseChainsReported
<1>. QED  BY <1>1, <1>2, <1>3, <1>4, <1>5, <1>6 DEF DetectorsInv

LEMMA EventKeeps ==
    ASSUME StreamAssumption, CompositeAssumption, ChainAssumption, DetectorsInv,
           NEW pid \in Pids, NEW type \in EventTypes, NEW supervisor \in BOOLEAN,
           Event(pid, type, supervisor)
    PROVE  DetectorsInv'
<1>1. /\ StreamInv /\ CompositeInv /\ StepsInv /\ SpansInv
      /\ Arrive(pid, type) /\ ObserveComposite(pid, type) /\ ObserveChain(pid, type, supervisor)
  BY DEF DetectorsInv, Event
<1>2. PICK s : s = Step(pid, type) /\ Adds(pid, s)
  BY <1>1, ArriveIs
<1>3. StreamInv'
  BY <1>1, <1>2, StreamGrows
<1>4. CompositeInv'
  BY <1>1, CompositeKeeps
<1>5. PICK seq : seq = Looked(pid, s)
  OBVIOUS
<1>6. chainSteps' = PruneSteps([chainSteps EXCEPT ![pid] = seq]) /\ root' = supervisor
  BY <1>1, <1>2, <1>5, ObserveChainIs
<1>7. StepsInv'
  BY <1>1, <1>2, <1>5, <1>6, StepsKept
<1>8. SpansInv'
  BY <1>1, <1>2, SpansKept
<1>9. AlertsInv'
  <2>1. MatchIsOccurrence' /\ \A f \in fired' : f.rule \in Rules /\ f.matched \in Seq(Steps)
    BY <1>1, FiredIsReal
  <2>2. FreshSequencesFire'
    BY <1>1, CompletedFires
  <2>3. CloseChainsReported'
    BY <1>1, <1>2, CloseChainIsReported
  <2>. QED  BY <2>1, <2>2, <2>3 DEF AlertsInv
<1>. QED  BY <1>3, <1>4, <1>6, <1>7, <1>8, <1>9 DEF DetectorsInv

LEMMA TickKeeps ==
    ASSUME StreamAssumption, CompositeAssumption, ChainAssumption, DetectorsInv, Tick
    PROVE  DetectorsInv'
<1>1. /\ StreamInv /\ CompositeInv /\ StepsInv /\ SpansInv
      /\ TimePasses /\ CompositePass /\ ChainPass
  BY DEF DetectorsInv, Tick
<1>2. StreamInv' /\ newest' = NoPid
  BY <1>1, StreamWaits
<1>3. CompositeInv'
  BY <1>1, CompositeWaits
<1>4. StepsInv' /\ SpansInv' /\ root' \in BOOLEAN
  BY <1>1, ChainWaits
<1>5. fired' = {}
  BY <1>1 DEF CompositePass
<1>6. AlertsInv'
  BY <1>2, <1>5 DEF AlertsInv, MatchIsOccurrence, FreshSequencesFire, CloseChainsReported
<1>. QED  BY <1>2, <1>3, <1>4, <1>6 DEF DetectorsInv

LEMMA DetectorsInvAlways == DetectorsSpec => []DetectorsInv
<1>1. DetectorsInit => DetectorsInv
  BY DetectorsStart, StreamAssumption, CompositeAssumption, ChainAssumption
<1>2. DetectorsInv /\ [DetectorsNext]_detectorsVars => DetectorsInv'
  <2>1. SUFFICES ASSUME DetectorsInv, [DetectorsNext]_detectorsVars
                 PROVE  DetectorsInv'
    OBVIOUS
  <2>2. CASE UNCHANGED detectorsVars
    <3>1. /\ now' = now /\ hist' = hist /\ newest' = newest /\ fired' = fired
          /\ compositeSteps' = compositeSteps /\ chainSteps' = chainSteps
          /\ emitted' = emitted /\ root' = root /\ spans' = spans
      BY <2>2 DEF detectorsVars, stream
    <3>2. StreamInv' /\ CompositeInv' /\ StepsInv'
      BY <2>1, <3>1 DEF DetectorsInv, StreamInv, CompositeInv, StepsInv
    <3>3. SpansInv'
      BY <2>1, <3>1 DEF DetectorsInv, SpansInv, SpanIsChain, SpansApart,
          StaleSpansFollowSilence, Key
    <3>4. MatchIsOccurrence' /\ CloseChainsReported'
      BY <2>1, <3>1 DEF DetectorsInv, AlertsInv, MatchIsOccurrence, CloseChainsReported,
          Reported, ConnectAfterExec
    <3>5. FreshSequencesFire'
      BY <2>1, <3>1 DEF DetectorsInv, AlertsInv, FreshSequencesFire, Completed, HasFired, Recent
    <3>. QED  BY <2>1, <3>1, <3>2, <3>3, <3>4, <3>5 DEF DetectorsInv, AlertsInv
  <2>3. ASSUME NEW pid \in Pids, NEW type \in EventTypes, NEW supervisor \in BOOLEAN,
               Event(pid, type, supervisor)
        PROVE  DetectorsInv'
    BY <2>1, <2>3, EventKeeps, StreamAssumption, CompositeAssumption, ChainAssumption
  <2>4. CASE Tick
    BY <2>1, <2>4, TickKeeps, StreamAssumption, CompositeAssumption, ChainAssumption
  <2>. QED  BY <2>1, <2>2, <2>3, <2>4 DEF DetectorsNext
<1>. QED  BY <1>1, <1>2, PTL DEF DetectorsSpec

LEMMA InvSays == DetectorsInv => DetectorsOK
<1>1. SUFFICES ASSUME DetectorsInv PROVE DetectorsOK
  OBVIOUS
<1>2. /\ StreamInv /\ CompositeInv /\ StepsInv /\ SpansInv /\ AlertsInv /\ root \in BOOLEAN
      /\ now \in Nat
  BY <1>1 DEF DetectorsInv, StreamInv
<1>3. StreamOK
  BY <1>2 DEF StreamInv, StreamOK
<1>4. ChainOK /\ MemoryBounded
  BY <1>2 DEF ChainOK, MemoryBounded, StepsInv, SpansInv
<1>5. ASSUME newest # NoPid, Last(hist[newest]).type \in Recorded
      PROVE  ToSet(compositeSteps[newest]) = Recent(newest)
  <2>1. newest \in Pids
    BY <1>2, <1>5 DEF StreamInv
  <2>2. PICK h \in Seq(Steps), list \in Seq(Steps) :
            h = hist[newest] /\ list = compositeSteps[newest]
    BY <1>2, <2>1 DEF StreamInv, CompositeInv
  <2>3. Drawn(list, h) /\ AllRecent(list, h, now) /\ OnlyRecent(list, now)
    BY <1>2, <1>5, <2>1, <2>2 DEF CompositeInv, Last
  <2>4. ToSet(list) \subseteq Recent(newest)
    BY <2>2, <2>3 DEF ToSet, Recent, Drawn, OnlyRecent
  <2>5. Recent(newest) \subseteq ToSet(list)
    BY <2>2, <2>3 DEF ToSet, Recent, AllRecent
  <2>. QED  BY <2>2, <2>4, <2>5
<1>6. CompositeOK
  BY <1>2, <1>5 DEF CompositeOK, CompositeInv, Drawn, Ascending, AlertsInv
<1>. QED  BY <1>3, <1>4, <1>6 DEF DetectorsOK

\* The detectors' lists keep their types and hold what is recent, and only that: memory is
\* bounded by the windows of time and the cap.
THEOREM DetectorTypes == DetectorsSpec => []DetectorsOK
BY DetectorsInvAlways, InvSays, PTL

\* Every composite alert and every kill-chain span tells of events that happened, of one pid,
\* in the order that it tells and within the rule's window.
THEOREM AlertsTellTruth == DetectorsSpec => []AlertsAreReal
<1>1. DetectorsInv => AlertsAreReal
  BY DEF DetectorsInv, AlertsInv, SpansInv, AlertsAreReal
<1>. QED  BY <1>1, DetectorsInvAlways, PTL

\* No sequence within its window and no connect soon after an exec goes unreported, but for
\* those that an expired start hides and those of supervisors.
THEOREM SequencesAreReported == DetectorsSpec => []SequencesReported
<1>1. DetectorsInv => SequencesReported
  BY DEF DetectorsInv, AlertsInv, SequencesReported
<1>. QED  BY <1>1, DetectorsInvAlways, PTL

\* One chain has one span per window.
THEOREM SpansStayApart == DetectorsSpec => []SpansApart
<1>1. DetectorsInv => SpansApart
  BY DEF DetectorsInv, SpansInv
<1>. QED  BY <1>1, DetectorsInvAlways, PTL

\* A chain with an exec from before the window is reported only by the first event after it.
THEOREM StaleSpansAreFirst == DetectorsSpec => []StaleSpansFollowSilence
<1>1. DetectorsInv => StaleSpansFollowSilence
  BY DEF DetectorsInv, SpansInv
<1>. QED  BY <1>1, DetectorsInvAlways, PTL

-----------------------------------------------------------------------------
(* First sightings. *)

Row == [start : Nat, row : BOOLEAN, blind : BOOLEAN]

Types ==
    /\ starts \in Nat /\ monitoring \in BOOLEAN /\ blind \in BOOLEAN
    /\ pc \in {"idle", "check", "record", "mark", "report"}
    /\ pc # "idle" => key \in Keys
    /\ reports \in [Keys -> Seq(Row)]

\* What this incarnation reported is in memory; no report is of a later one.
Remembered ==
    \A k \in Keys : \A i \in DOMAIN reports[k] :
        reports[k][i].start <= starts /\ (reports[k][i].start = starts => k \in memSeen)

\* A report that left a row has it in the store.
Rows == \A k \in Keys : \A i \in DOMAIN reports[k] : reports[k][i].row => k \in db

\* The key in hand enters memory right before its report, which is its first.
InHand ==
    /\ pc \in {"check", "record", "mark"} => key \notin memSeen
    /\ pc = "report" =>
          key \in memSeen /\ \A i \in DOMAIN reports[key] : reports[key][i].start < starts

\* It has no row, unless it was not looked up.
NewInHand ==
    pc \in {"record", "mark", "report"} =>
        blind \/ \A i \in DOMAIN reports[key] : ~reports[key][i].row

\* The two halves of ReportedOnce.
StartsAscend ==
    \A k \in Keys : \A i, j \in DOMAIN reports[k] :
        i < j => reports[k][i].start < reports[k][j].start
RowsBlind ==
    \A k \in Keys : \A i, j \in DOMAIN reports[k] :
        i < j => (reports[k][i].row => reports[k][j].blind)

\* What memory or store know has been reported, will be next, or was cut off.
Settled(k) == reports[k] # <<>> \/ k \in cut
Accounted ==
    /\ \A k \in memSeen : Settled(k) \/ (pc = "report" /\ key = k)
    /\ \A k \in db : Settled(k) \/ (pc \in {"mark", "report"} /\ key = k)

OnceInv == Types /\ Remembered /\ Rows /\ InHand /\ NewInHand /\ StartsAscend /\ RowsBlind
LossInv ==
    /\ Types /\ memSeen \cup db \subseteq Keys /\ skipped \subseteq Keys
    /\ Accounted /\ SkippedWereReported

-----------------------------------------------------------------------------

LEMMA TypesInit == Init => Types
<1>. SUFFICES ASSUME Init PROVE Types
  OBVIOUS
<1>1. reports = [k \in Keys |-> <<>>]
  BY DEF Init
<1>2. reports \in [Keys -> Seq(Row)]
  BY <1>1
<1>. QED  BY <1>2 DEF Init, Types

LEMMA TypesNext == Types /\ [Next]_vars => Types'
<1>. SUFFICES ASSUME Types, [Next]_vars PROVE Types'
  OBVIOUS
<1>1. ASSUME NEW k \in Keys, Sight(k) PROVE Types'
  BY <1>1 DEF Sight, AfterSight, Types, process
<1>2. CASE HasNovelty
  BY <1>2 DEF HasNovelty, Types, process
<1>3. CASE RecordNovelty
  BY <1>3 DEF RecordNovelty, Types, process, history
<1>4. CASE Mark
  BY <1>4 DEF Mark, Types, process, history
<1>5. CASE Report
  <2>. DEFINE new == [start |-> starts, row |-> key \in db, blind |-> blind]
  <2>1. key \in Keys
    BY <1>5 DEF Report, Types
  <2>2. new \in Row
    BY DEF Types, Row
  <2>3. reports' = [reports EXCEPT ![key] = Append(reports[key], new)]
    BY <1>5, <2>1 DEF Report, Types
  <2>. HIDE DEF new
  <2>4. reports' \in [Keys -> Seq(Row)]
    BY <2>1, <2>2, <2>3 DEF Types
  <2>. QED  BY <1>5, <2>4 DEF Report, Types, process
<1>6. CASE ChangePhase
  BY <1>6 DEF ChangePhase, Types, history
<1>7. CASE Restart
  BY <1>7 DEF Restart, Types
<1>8. CASE UNCHANGED vars
  BY <1>8 DEF vars, Types, process, history
<1>. QED  BY <1>1, <1>2, <1>3, <1>4, <1>5, <1>6, <1>7, <1>8 DEF Next

\* What the report of the key in hand adds, and what it leaves.
LEMMA ReportAppends ==
    ASSUME Types, Report
    PROVE  /\ key \in Keys
           /\ \A k \in Keys \ {key} : reports'[k] = reports[k]
           /\ DOMAIN reports'[key] = 1 .. Len(reports[key]) + 1
           /\ Len(reports[key]) \in Nat /\ DOMAIN reports[key] = 1 .. Len(reports[key])
           /\ \A i \in DOMAIN reports[key] : reports'[key][i] = reports[key][i]
           /\ reports'[key][Len(reports[key]) + 1]
                = [start |-> starts, row |-> key \in db, blind |-> blind]
<1>. DEFINE new == [start |-> starts, row |-> key \in db, blind |-> blind]
<1>1. key \in Keys
  BY DEF Report, Types
<1>2. new \in Row
  BY DEF Types, Row
<1>3. reports' = [reports EXCEPT ![key] = Append(reports[key], new)] /\ reports \in [Keys -> Seq(Row)]
  BY <1>1 DEF Report, Types
<1>. HIDE DEF new
<1>4. reports'[key] = Append(reports[key], new) /\ reports[key] \in Seq(Row)
  BY <1>1, <1>3
<1>5. \A k \in Keys \ {key} : reports'[k] = reports[k]
  BY <1>1, <1>3
<1>. QED  BY <1>1, <1>2, <1>4, <1>5 DEF new

-----------------------------------------------------------------------------
(* Reported once. *)

LEMMA OnceInit == Init => OnceInv
<1>. SUFFICES ASSUME Init PROVE OnceInv
  OBVIOUS
<1>1. \A k \in Keys : reports[k] = <<>>
  BY DEF Init
<1>. QED
  BY <1>1, TypesInit DEF Init, OnceInv, Remembered, Rows, InHand, NewInHand, StartsAscend, RowsBlind

\* The report itself: it is later than all that are there, and new to the store or blind.
LEMMA OnceReport == ASSUME OnceInv, Report PROVE OnceInv'
<1>. DEFINE n == Len(reports[key])
<1>0. Types /\ Types' /\ pc = "report" /\ pc' = "idle"
  <2>1. Types'
    BY TypesNext DEF OnceInv, Next
  <2>. QED  BY <2>1 DEF OnceInv, Report
<1>1. UNCHANGED <<starts, memSeen, db, blind>>
  BY DEF Report, process
<1>2. /\ key \in Keys
      /\ \A k \in Keys \ {key} : reports'[k] = reports[k]
      /\ DOMAIN reports'[key] = 1 .. n + 1
      /\ n \in Nat /\ DOMAIN reports[key] = 1 .. n
      /\ \A i \in 1 .. n : reports'[key][i] = reports[key][i]
      /\ reports'[key][n + 1].start = starts
      /\ reports'[key][n + 1].row = (key \in db)
      /\ reports'[key][n + 1].blind = blind
  BY <1>0, ReportAppends
<1>. HIDE DEF n
<1>3. key \in memSeen /\ \A i \in 1 .. n : reports[key][i].start < starts
  BY <1>0, <1>2 DEF OnceInv, InHand
<1>4. starts \in Nat
  BY <1>0 DEF Types
<1>5. Remembered'
  <2>1. ASSUME NEW k \in Keys, k # key, NEW i \in DOMAIN reports'[k]
        PROVE  reports'[k][i].start <= starts /\ (reports'[k][i].start = starts => k \in memSeen)
    BY <1>2, <2>1 DEF OnceInv, Remembered
  <2>2. ASSUME NEW i \in 1 .. n + 1
        PROVE  reports'[key][i].start <= starts
    <3>1. CASE i = n + 1
      BY <3>1, <1>2, <1>4
    <3>2. CASE i \in 1 .. n
      BY <3>2, <1>2 DEF OnceInv, Remembered
    <3>. QED  BY <3>1, <3>2, <1>2
  <2>. QED  BY <1>1, <1>2, <1>3, <2>1, <2>2 DEF Remembered
<1>6. Rows'
  <2>1. ASSUME NEW k \in Keys, k # key, NEW i \in DOMAIN reports'[k], reports'[k][i].row
        PROVE  k \in db
    BY <1>2, <2>1 DEF OnceInv, Rows
  <2>2. ASSUME NEW i \in 1 .. n + 1, reports'[key][i].row
        PROVE  key \in db
    <3>1. CASE i = n + 1
      BY <3>1, <2>2, <1>2
    <3>2. CASE i \in 1 .. n
      BY <3>2, <2>2, <1>2 DEF OnceInv, Rows
    <3>. QED  BY <3>1, <3>2, <1>2
  <2>. QED  BY <1>1, <1>2, <2>1, <2>2 DEF Rows
<1>7. InHand' /\ NewInHand'
  BY <1>0 DEF InHand, NewInHand
<1>8. StartsAscend'
  <2>1. ASSUME NEW k \in Keys, k # key, NEW i \in DOMAIN reports'[k],
               NEW j \in DOMAIN reports'[k], i < j
        PROVE  reports'[k][i].start < reports'[k][j].start
    BY <1>2, <2>1 DEF OnceInv, StartsAscend
  <2>2. ASSUME NEW i \in 1 .. n + 1, NEW j \in 1 .. n + 1, i < j
        PROVE  reports'[key][i].start < reports'[key][j].start
    <3>1. CASE j = n + 1
      <4>1. i \in 1 .. n
        BY <3>1, <2>2, <1>2
      <4>. QED  BY <3>1, <4>1, <1>2, <1>3
    <3>2. CASE j \in 1 .. n
      <4>1. i \in 1 .. n
        BY <3>2, <2>2, <1>2
      <4>. QED  BY <3>2, <4>1, <2>2, <1>2 DEF OnceInv, StartsAscend
    <3>. QED  BY <3>1, <3>2, <1>2
  <2>. QED  BY <1>2, <2>1, <2>2 DEF StartsAscend
<1>9. RowsBlind'
  <2>1. ASSUME NEW k \in Keys, k # key, NEW i \in DOMAIN reports'[k],
               NEW j \in DOMAIN reports'[k], i < j, reports'[k][i].row
        PROVE  reports'[k][j].blind
    <3>1. reports'[k] = reports[k]
      BY <1>2, <2>1
    <3>. QED  BY <2>1, <3>1 DEF OnceInv, RowsBlind
  <2>2. ASSUME NEW i \in 1 .. n + 1, NEW j \in 1 .. n + 1, i < j, reports'[key][i].row
        PROVE  reports'[key][j].blind
    <3>0. i \in 1 .. n /\ reports[key][i].row
      <4>1. i \in 1 .. n
        BY <2>2, <1>2
      <4>. QED  BY <2>2, <4>1, <1>2
    <3>1. CASE j = n + 1
      <4>1. blind
        BY <3>0, <1>0, <1>2 DEF OnceInv, NewInHand
      <4>. QED  BY <3>1, <4>1, <1>2
    <3>2. CASE j \in 1 .. n
      <4>1. reports[key][j].blind
        BY <3>0, <3>2, <2>2, <1>2 DEF OnceInv, RowsBlind
      <4>. QED  BY <3>2, <4>1, <1>2
    <3>. QED  BY <3>1, <3>2, <1>2
  <2>3. ASSUME NEW k \in Keys
        PROVE  \A i, j \in DOMAIN reports'[k] : i < j => (reports'[k][i].row => reports'[k][j].blind)
    <3>1. CASE k = key
      BY <3>1, <2>2, <1>2
    <3>2. CASE k # key
      BY <3>2, <2>1
    <3>. QED  BY <3>1, <3>2
  <2>. QED  BY <2>3 DEF RowsBlind
<1>. QED  BY <1>0, <1>5, <1>6, <1>7, <1>8, <1>9 DEF OnceInv

LEMMA OnceNext == OnceInv /\ [Next]_vars => OnceInv'
<1>. SUFFICES ASSUME OnceInv, [Next]_vars PROVE OnceInv'
  OBVIOUS
<1>0. Types /\ Types'
  BY TypesNext DEF OnceInv
<1>1. CASE Report
  BY <1>1, OnceReport
<1>2. CASE ~Report
  <2>1. reports' = reports /\ db \subseteq db'
    BY <1>2 DEF Next, Sight, HasNovelty, RecordNovelty, Mark, ChangePhase, Restart, vars,
                process, history
  <2>2. Rows' /\ StartsAscend' /\ RowsBlind'
    <3>1. Rows'
      BY <2>1 DEF OnceInv, Rows
    <3>2. StartsAscend' /\ RowsBlind'
      BY <2>1 DEF OnceInv, StartsAscend, RowsBlind
    <3>. QED  BY <3>1, <3>2
  <2>3. ASSUME NEW k \in Keys, Sight(k) PROVE (Remembered /\ InHand /\ NewInHand)'
    <3>1. starts' = starts /\ memSeen' = memSeen
      BY <2>3 DEF Sight, process
    <3>2. Remembered'
      BY <2>1, <3>1 DEF OnceInv, Remembered
    <3>3. \/ pc' = "idle"
          \/ pc' = "check" /\ key' \notin memSeen'
          \/ pc' = "mark" /\ key' \notin memSeen' /\ blind'
      BY <2>3, <3>1 DEF Sight, AfterSight
    <3>4. InHand' /\ NewInHand'
      BY <3>3 DEF InHand, NewInHand
    <3>. QED  BY <3>2, <3>4
  <2>4. ASSUME HasNovelty PROVE (Remembered /\ InHand /\ NewInHand)'
    <3>1. starts' = starts /\ memSeen' = memSeen
      BY <2>4 DEF HasNovelty, process
    <3>2. Remembered'
      BY <2>1, <3>1 DEF OnceInv, Remembered
    <3>3. \/ pc' = "idle"
          \/ pc' = "record" /\ key' = key /\ key \notin db
          \/ pc' = "record" /\ key' = key /\ blind'
      BY <2>4 DEF HasNovelty
    <3>4. key \in Keys /\ key \notin memSeen
      BY <2>4, <1>0 DEF HasNovelty, Types, OnceInv, InHand
    <3>5. key \notin db => \A i \in DOMAIN reports[key] : ~reports[key][i].row
      BY <3>4 DEF OnceInv, Rows
    <3>6. InHand'
      BY <3>1, <3>3, <3>4 DEF InHand
    <3>7. NewInHand'
      BY <2>1, <3>3, <3>5 DEF NewInHand
    <3>. QED  BY <3>2, <3>6, <3>7
  <2>5. ASSUME RecordNovelty PROVE (Remembered /\ InHand /\ NewInHand)'
    <3>1. /\ starts' = starts /\ memSeen' = memSeen /\ key' = key /\ blind' = blind
          /\ pc = "record" /\ pc' = "mark"
      BY <2>5 DEF RecordNovelty, process, history
    <3>2. Remembered' /\ InHand'
      BY <2>1, <3>1 DEF OnceInv, Remembered, InHand
    <3>3. NewInHand'
      BY <2>1, <3>1 DEF OnceInv, NewInHand
    <3>. QED  BY <3>2, <3>3
  <2>6. ASSUME Mark PROVE (Remembered /\ InHand /\ NewInHand)'
    <3>1. /\ starts' = starts /\ memSeen' = memSeen \cup {key} /\ key' = key /\ blind' = blind
          /\ pc = "mark" /\ pc' = "report"
      BY <2>6 DEF Mark, process, history
    <3>2. Remembered'
      BY <2>1, <3>1 DEF OnceInv, Remembered
    <3>3. key \in Keys /\ key \notin memSeen
      BY <1>0, <3>1 DEF Types, OnceInv, InHand
    <3>4. \A i \in DOMAIN reports[key] : reports[key][i].start < starts
      <4>1. ASSUME NEW i \in DOMAIN reports[key] PROVE reports[key][i].start \in Nat
        <5>1. reports[key] \in Seq(Row)
          BY <1>0, <3>3 DEF Types
        <5>2. reports[key][i] \in Row
          BY <5>1
        <5>. QED  BY <5>2 DEF Row
      <4>2. starts \in Nat
        BY <1>0 DEF Types
      <4>. QED  BY <3>3, <4>1, <4>2 DEF OnceInv, Remembered
    <3>5. InHand'
      BY <2>1, <3>1, <3>4 DEF InHand
    <3>6. NewInHand'
      BY <2>1, <3>1 DEF OnceInv, NewInHand
    <3>. QED  BY <3>2, <3>5, <3>6
  <2>7. ASSUME ChangePhase \/ UNCHANGED vars PROVE (Remembered /\ InHand /\ NewInHand)'
    <3>1. UNCHANGED <<starts, memSeen, pc, key, blind>>
      BY <2>7 DEF ChangePhase, vars, process, history
    <3>2. Remembered' /\ InHand'
      BY <2>1, <3>1 DEF OnceInv, Remembered, InHand
    <3>3. NewInHand'
      BY <2>1, <3>1 DEF OnceInv, NewInHand
    <3>. QED  BY <3>2, <3>3
  <2>8. ASSUME Restart PROVE (Remembered /\ InHand /\ NewInHand)'
    <3>1. starts' = starts + 1 /\ pc' = "idle"
      BY <2>8 DEF Restart
    <3>2. InHand' /\ NewInHand'
      BY <3>1 DEF InHand, NewInHand
    <3>3. ASSUME NEW k \in Keys, NEW i \in DOMAIN reports[k]
          PROVE  reports[k][i].start < starts + 1
      <4>1. reports[k][i].start \in Nat
        <5>1. reports[k] \in Seq(Row)
          BY <1>0 DEF Types
        <5>2. reports[k][i] \in Row
          BY <5>1
        <5>. QED  BY <5>2 DEF Row
      <4>2. reports[k][i].start <= starts /\ starts \in Nat
        BY <1>0 DEF OnceInv, Remembered, Types
      <4>. QED  BY <4>1, <4>2
    <3>4. Remembered'
      <4>1. ASSUME NEW k \in Keys, NEW i \in DOMAIN reports[k]
            PROVE  reports[k][i].start <= starts' /\ reports[k][i].start # starts'
        <5>1. reports[k][i].start \in Nat /\ starts \in Nat
          <6>1. reports[k] \in Seq(Row)
            BY <1>0 DEF Types
          <6>2. reports[k][i] \in Row
            BY <6>1
          <6>. QED  BY <6>2, <1>0 DEF Row, Types
        <5>. QED  BY <3>1, <3>3, <5>1
      <4>. QED  BY <2>1, <4>1 DEF Remembered
    <3>. QED  BY <3>2, <3>4
  <2>9. (Remembered /\ InHand /\ NewInHand)'
    BY <1>2, <2>3, <2>4, <2>5, <2>6, <2>7, <2>8 DEF Next
  <2>. QED  BY <1>0, <2>2, <2>9 DEF OnceInv
<1>. QED  BY <1>1, <1>2

\* A first sighting is reported once by each incarnation, and by a later one only if no row was
\* written or read: whatever fails, and wherever the process is cut off.
THEOREM ReportsAreOnce == Spec => []ReportedOnce
<1>1. OnceInv => ReportedOnce
  BY DEF OnceInv, StartsAscend, RowsBlind, ReportedOnce
<1>. QED  BY <1>1, OnceInit, OnceNext, PTL DEF Spec

-----------------------------------------------------------------------------
(* None is lost. *)

LEMMA LossInit == Init => LossInv
BY TypesInit DEF Init, LossInv, Accounted, SkippedWereReported

\* What is reported or cut off stays so.
LEMMA SettledStays ==
    ASSUME Types, [Next]_vars, NEW k \in Keys
    PROVE  Settled(k) => Settled(k)'
<1>1. CASE Report
  <2>1. CASE k = key
    <3>1. DOMAIN reports'[k] = 1 .. Len(reports[key]) + 1 /\ Len(reports[key]) \in Nat
      BY <1>1, <2>1, ReportAppends
    <3>2. Len(reports[key]) + 1 \in DOMAIN reports'[k]
      BY <3>1
    <3>3. reports'[k] # <<>>
      BY <3>2
    <3>. QED  BY <3>3 DEF Settled
  <2>2. CASE k # key
    BY <1>1, <2>2, ReportAppends DEF Settled, Report
  <2>. QED  BY <2>1, <2>2
<1>2. CASE ~Report
  BY <1>2 DEF Next, Sight, HasNovelty, RecordNovelty, Mark, ChangePhase, Restart, vars, process,
              history, Settled
<1>. QED  BY <1>1, <1>2

\* The key in hand is settled by its report.
LEMMA ReportSettles ==
    ASSUME Types, Report, NEW k, k = key
    PROVE  Settled(k)'
<1>1. DOMAIN reports'[k] = 1 .. Len(reports[k]) + 1 /\ Len(reports[k]) \in Nat
  BY ReportAppends
<1>2. Len(reports[k]) + 1 \in DOMAIN reports'[k]
  BY <1>1
<1>3. reports'[k] # <<>>
  BY <1>2
<1>. QED  BY <1>3 DEF Settled

LEMMA AccountedNext == LossInv /\ [Next]_vars => Accounted' /\ SkippedWereReported'
<1>. SUFFICES ASSUME LossInv, [Next]_vars PROVE Accounted' /\ SkippedWereReported'
  OBVIOUS
<1>0. Types /\ memSeen \cup db \subseteq Keys /\ skipped \subseteq Keys
  BY DEF LossInv
<1>1. \A k \in Keys : Settled(k) => Settled(k)'
  BY <1>0, SettledStays
<1>2. ASSUME NEW k \in Keys, Sight(k) PROVE Accounted' /\ SkippedWereReported'
  <2>1. memSeen' = memSeen /\ db' = db /\ pc = "idle"
    BY <1>2 DEF Sight
  <2>2. Accounted'
    BY <1>0, <1>1, <2>1 DEF LossInv, Accounted
  <2>3. skipped' = skipped \/ (k \in memSeen /\ skipped' = skipped \cup {k})
    BY <1>2 DEF Sight
  <2>4. \A s \in skipped' : s \in Keys /\ Settled(s)
    BY <1>0, <2>1, <2>3 DEF LossInv, Accounted, SkippedWereReported, Settled
  <2>5. SkippedWereReported'
    BY <1>1, <2>4 DEF SkippedWereReported, Settled
  <2>. QED  BY <2>2, <2>5
<1>3. ASSUME HasNovelty PROVE Accounted' /\ SkippedWereReported'
  <2>1. memSeen' = memSeen /\ db' = db /\ pc = "check"
    BY <1>3 DEF HasNovelty
  <2>2. Accounted'
    BY <1>0, <1>1, <2>1 DEF LossInv, Accounted
  <2>3. skipped' = skipped \/ (key \in db /\ skipped' = skipped \cup {key})
    BY <1>3 DEF HasNovelty
  <2>4. \A s \in skipped' : s \in Keys /\ Settled(s)
    BY <1>0, <2>1, <2>3 DEF LossInv, Accounted, SkippedWereReported, Settled
  <2>5. SkippedWereReported'
    BY <1>1, <2>4 DEF SkippedWereReported, Settled
  <2>. QED  BY <2>2, <2>5
<1>4. ASSUME skipped' = skipped PROVE SkippedWereReported'
  <2>1. \A s \in skipped : s \in Keys /\ Settled(s)
    BY <1>0 DEF LossInv, SkippedWereReported, Settled
  <2>. QED  BY <1>1, <1>4, <2>1 DEF SkippedWereReported, Settled
<1>5. ASSUME RecordNovelty PROVE Accounted' /\ SkippedWereReported'
  <2>1. /\ memSeen' = memSeen /\ db' \subseteq db \cup {key} /\ key' = key /\ skipped' = skipped
        /\ pc = "record" /\ pc' = "mark"
    BY <1>5 DEF RecordNovelty, history
  <2>2. Accounted'
    BY <1>0, <1>1, <2>1 DEF LossInv, Accounted
  <2>. QED  BY <1>4, <2>1, <2>2
<1>6. ASSUME Mark PROVE Accounted' /\ SkippedWereReported'
  <2>1. /\ memSeen' = memSeen \cup {key} /\ db' = db /\ key' = key /\ skipped' = skipped
        /\ pc = "mark" /\ pc' = "report"
    BY <1>6 DEF Mark, history
  <2>2. Accounted'
    BY <1>0, <1>1, <2>1 DEF LossInv, Accounted
  <2>. QED  BY <1>4, <2>1, <2>2
<1>7. ASSUME Report PROVE Accounted' /\ SkippedWereReported'
  <2>1. memSeen' = memSeen /\ db' = db /\ skipped' = skipped /\ key \in Keys
    BY <1>7, <1>0 DEF Report, Types
  <2>2. \A k \in memSeen \cup db : Settled(k)'
    BY <1>0, <1>1, <1>7, ReportSettles DEF LossInv, Accounted
  <2>3. Accounted'
    BY <2>1, <2>2 DEF Accounted
  <2>. QED  BY <1>4, <2>1, <2>3
<1>8. ASSUME ChangePhase \/ UNCHANGED vars PROVE Accounted' /\ SkippedWereReported'
  <2>1. UNCHANGED <<memSeen, db, pc, key, skipped>>
    BY <1>8 DEF ChangePhase, vars, history, process
  <2>2. Accounted'
    BY <1>0, <1>1, <2>1 DEF LossInv, Accounted
  <2>. QED  BY <1>4, <2>1, <2>2
<1>9. ASSUME Restart PROVE Accounted' /\ SkippedWereReported'
  <2>1. /\ memSeen' = {} /\ db' = db /\ skipped' = skipped
        /\ cut' = IF pc \in {"mark", "report"} THEN cut \cup {key} ELSE cut
    BY <1>9 DEF Restart
  <2>2. ASSUME NEW k \in db PROVE Settled(k)'
    <3>1. CASE Settled(k)
      BY <1>0, <1>1, <3>1
    <3>2. CASE pc \in {"mark", "report"} /\ key = k
      BY <2>1, <3>2 DEF Settled
    <3>. QED  BY <3>1, <3>2 DEF LossInv, Accounted
  <2>3. Accounted'
    BY <2>1, <2>2 DEF Accounted
  <2>. QED  BY <1>4, <2>1, <2>3
<1>. QED  BY <1>2, <1>3, <1>5, <1>6, <1>7, <1>8, <1>9 DEF Next

LEMMA LossNext == LossInv /\ [Next]_vars => LossInv'
<1>. SUFFICES ASSUME LossInv, [Next]_vars PROVE LossInv'
  OBVIOUS
<1>1. Types'
  BY TypesNext DEF LossInv
<1>2. Accounted' /\ SkippedWereReported'
  BY AccountedNext
<1>3. (memSeen \cup db \subseteq Keys /\ skipped \subseteq Keys)'
  BY DEF LossInv, Types, Next, Sight, HasNovelty, RecordNovelty, Mark, Report, ChangePhase, Restart,
         vars, process, history
<1>. QED  BY <1>1, <1>2, <1>3 DEF LossInv

\* A key that is passed over in silence has been reported, unless a crash cut its report off.
THEOREM NoneIsLost == Spec => []SkippedWereReported
<1>1. LossInv => SkippedWereReported
  BY DEF LossInv
<1>. QED  BY <1>1, LossInit, LossNext, PTL DEF Spec

-----------------------------------------------------------------------------
(* Tracker as a whole: its sightings are those of Novelty, its beacons do not touch them. *)

\* Observe is first sightings and beacons side by side: what holds of the one alone, holds.
THEOREM TrackerSights == TrackerSpec => Spec
<1>1. TrackerInit => Init
  BY DEF TrackerInit
<1>2. [TrackerNext]_<<vars, beaconVars, half>> => [Next]_vars
  BY DEF TrackerNext, Sightings, Beacons
<1>. QED  BY <1>1, <1>2, PTL DEF TrackerSpec, Spec

-----------------------------------------------------------------------------
(* Beacons. *)

KeptTimes == IF Len(connects) < Depth THEN Len(connects) ELSE Depth

Clock == Int

\* The times kept are those of the last connects.
BeaconInv ==
    /\ connects \in Seq(Clock) /\ interval \in Seq(Clock) /\ Len(interval) = KeptTimes
    /\ \A i \in 1 .. KeptTimes : interval[i] = connects[Len(connects) - KeptTimes + i]
    /\ beacon <=> Steady(interval)

LEMMA BeaconFirst == BeaconInit => BeaconInv
<1>. SUFFICES ASSUME BeaconInit PROVE BeaconInv
  OBVIOUS
<1>1. interval = <<>> /\ connects = <<>> /\ beacon = FALSE /\ KeptTimes = 0
  BY DEF BeaconInit, KeptTimes, Depth
<1>2. ~ Steady(<<>>)
  BY DEF Steady
<1>. QED  BY <1>1, <1>2 DEF BeaconInv

\* What is left of a sequence without its first element.
LEMMA TailIs ==
    ASSUME NEW S, NEW s \in Seq(S), s # <<>>
    PROVE  /\ Tail(s) \in Seq(S) /\ Len(Tail(s)) = Len(s) - 1
           /\ \A i \in 1 .. Len(s) - 1 : Tail(s)[i] = s[i + 1]
OBVIOUS

\* The eight kept times after a connect: the oldest is dropped and the new one put last.
LEMMA Shifted ==
    ASSUME NEW S, NEW s \in Seq(S), Len(s) = 8, NEW e \in S
    PROVE  /\ Append(Tail(s), e) \in Seq(S) /\ Len(Append(Tail(s), e)) = 8
           /\ Append(Tail(s), e)[8] = e
           /\ \A i \in 1 .. 7 : Append(Tail(s), e)[i] = s[i + 1]
<1>1. s # <<>>
  OBVIOUS
<1>2. Tail(s) \in Seq(S) /\ Len(Tail(s)) = Len(s) - 1
  BY <1>1
<1>3. \A i \in 1 .. Len(s) - 1 : Tail(s)[i] = s[i + 1]
  BY <1>1, TailIs, Zenon
<1>4. PICK t \in Seq(S) : t = Tail(s)
  BY <1>2
<1>5. /\ Append(t, e) \in Seq(S) /\ Len(Append(t, e)) = Len(t) + 1
      /\ Append(t, e)[Len(t) + 1] = e
      /\ \A i \in 1 .. Len(t) : Append(t, e)[i] = t[i]
  OBVIOUS
<1>6. Len(t) = 7 /\ Len(s) - 1 = 7
  BY <1>2, <1>4
<1>7. Append(t, e) \in Seq(S) /\ Len(Append(t, e)) = 8 /\ Append(t, e)[8] = e
  BY <1>5, <1>6
<1>8. \A i \in 1 .. 7 : Append(t, e)[i] = t[i]
  BY <1>5, <1>6
<1>9. \A i \in 1 .. 7 : t[i] = s[i + 1]
  BY <1>3, <1>4, <1>6
<1>. QED  BY <1>4, <1>7, <1>8, <1>9

LEMMA ConnectKeeps ==
    ASSUME BeaconInv, NEW gap \in Gaps, Connect(gap)
    PROVE  BeaconInv'
<1>. DEFINE at == IF connects = <<>> THEN 0 ELSE Last(connects) + gap
            n == Len(connects)
<1>1. /\ connects \in Seq(Clock) /\ interval \in Seq(Clock) /\ n \in Nat
      /\ Len(interval) = KeptTimes /\ KeptTimes = IF n < 8 THEN n ELSE 8
  BY DEF BeaconInv, KeptTimes, Depth
<1>2. at \in Clock
  <2>1. connects # <<>> => Last(connects) \in Clock
    BY <1>1 DEF Last
  <2>2. gap \in Int
    BY BeaconAssumption
  <2>. QED  BY <2>1, <2>2 DEF Clock
<1>3. /\ connects' = Append(connects, at) /\ interval' = Times(at)
      /\ beacon' = Steady(Times(at))
  BY DEF Connect, CheckBeacon
<1>. HIDE DEF at
<1>4. /\ connects' \in Seq(Clock) /\ Len(connects') = n + 1 /\ connects'[n + 1] = at
      /\ \A i \in 1 .. n : connects'[i] = connects[i]
  BY <1>1, <1>2, <1>3
<1>5. CASE n < 8
  <2>1. Times(at) = Append(interval, at)
    BY <1>1, <1>5 DEF Times, Depth
  <2>2. /\ Times(at) \in Seq(Clock) /\ Len(Times(at)) = n + 1 /\ Times(at)[n + 1] = at
        /\ \A i \in 1 .. n : Times(at)[i] = interval[i]
    BY <1>1, <1>2, <1>5, <2>1
  <2>3. KeptTimes' = n + 1
    BY <1>1, <1>4, <1>5 DEF KeptTimes, Depth
  <2>4. \A i \in 1 .. n : interval[i] = connects[i]
    BY <1>1, <1>5 DEF BeaconInv
  <2>. QED  BY <1>1, <1>3, <1>4, <2>2, <2>3, <2>4 DEF BeaconInv
<1>6. CASE n >= 8
  <2>1. Times(at) = Append(Tail(interval), at) /\ Len(interval) = 8
    BY <1>1, <1>6 DEF Times, Depth
  <2>2. /\ Times(at) \in Seq(Clock) /\ Len(Times(at)) = 8 /\ Times(at)[8] = at
        /\ \A i \in 1 .. 7 : Times(at)[i] = interval[i + 1]
    <3>1. PICK times \in Seq(Clock) : times = interval
      BY <1>1
    <3>2. PICK e \in Clock : e = at
      BY <1>2
    <3>3. Len(times) = 8
      BY <2>1, <3>1
    <3>4. /\ Append(Tail(times), e) \in Seq(Clock) /\ Len(Append(Tail(times), e)) = 8
          /\ Append(Tail(times), e)[8] = e
          /\ \A i \in 1 .. 7 : Append(Tail(times), e)[i] = times[i + 1]
      BY <3>3, Shifted
    <3>. QED  BY <2>1, <3>1, <3>2, <3>4
  <2>3. KeptTimes = 8 /\ KeptTimes' = 8
    BY <1>1, <1>4, <1>6 DEF KeptTimes, Depth
  <2>4. \A i \in 1 .. 8 : interval[i] = connects[n - 8 + i]
    BY <2>3 DEF BeaconInv
  <2>5. ASSUME NEW i \in 1 .. 8
        PROVE  Times(at)[i] = connects'[n + 1 - 8 + i]
    <3>1. CASE i = 8
      BY <1>1, <1>4, <2>2, <3>1
    <3>2. CASE i # 8
      <4>1. i \in 1 .. 7 /\ i + 1 \in 1 .. 8 /\ n + 1 - 8 + i \in 1 .. n
        BY <1>1, <1>6, <3>2
      <4>2. n - 8 + (i + 1) = n + 1 - 8 + i
        BY <1>1
      <4>. QED  BY <1>4, <2>2, <2>4, <4>1, <4>2
    <3>. QED  BY <3>1, <3>2
  <2>6. Len(connects') - KeptTimes' = n + 1 - 8
    BY <1>4, <2>3
  <2>7. \A i \in 1 .. KeptTimes' : interval'[i] = connects'[Len(connects') - KeptTimes' + i]
    BY <1>3, <2>3, <2>5, <2>6
  <2>. QED  BY <1>3, <1>4, <2>2, <2>3, <2>7 DEF BeaconInv
<1>. QED  BY <1>1, <1>5, <1>6

\* Gaps within an eleventh of a period differ by no more than a fifth of any of them.
LEMMA NearPeriod ==
    ASSUME NEW period \in Nat, NEW g \in Int, NEW h \in Int,
           11 * Distance(g, period) <= period, 11 * Distance(h, period) <= period
    PROVE  /\ 5 * Distance(h, g) <= g
           /\ 10 * period <= 11 * g /\ 11 * g <= 12 * period
BY DEF Distance

\* Gaps within a fifth of the first differ by no more than a half.
LEMMA NearFirst ==
    ASSUME NEW first \in Nat, NEW g \in Int, NEW h \in Int,
           5 * Distance(g, first) <= first, 5 * Distance(h, first) <= first
    PROVE  2 * g <= 3 * h
BY DEF Distance

\* A process that connects at a steady pace is reported as a beacon, from its fourth connect on
\* or after eight at the latest, and what is reported did connect at a steady pace
\* (checkBeacon), for any range of periods and any gaps.
THEOREM BeaconsAreRegular == TrackerSpec => []BeaconMeansRegular
<1>1. TrackerInit => BeaconInv
  BY BeaconFirst DEF TrackerInit
<1>2. BeaconInv /\ [TrackerNext]_<<vars, beaconVars, half>> => BeaconInv'
  <2>. SUFFICES ASSUME BeaconInv, [TrackerNext]_<<vars, beaconVars, half>> PROVE BeaconInv'
    OBVIOUS
  <2>1. CASE UNCHANGED beaconVars
    BY <2>1 DEF beaconVars, BeaconInv, KeptTimes
  <2>2. ASSUME NEW gap \in Gaps, Connect(gap)
        PROVE  BeaconInv'
    BY <2>2, ConnectKeeps
  <2>. QED  BY <2>1, <2>2 DEF TrackerNext, Sightings, Beacons
<1>3. BeaconInv => BeaconMeansRegular
  <2>. SUFFICES ASSUME BeaconInv PROVE BeaconMeansRegular
    OBVIOUS
  <2>. DEFINE n == KeptTimes
              last == SubSeq(connects, Len(connects) - n + 1, Len(connects))
              gaps == Between(interval)
  <2>1. /\ Len(connects) \in Nat /\ n \in Nat /\ n <= Len(connects) /\ Len(interval) = n
        /\ interval \in Seq(Clock) /\ connects \in Seq(Clock)
    BY DEF BeaconInv, KeptTimes, Depth
  <2>2. Between(last) = gaps
    <3>1. Len(last) = n /\ \A i \in 1 .. n : last[i] = interval[i]
      BY <2>1 DEF BeaconInv
    <3>. HIDE DEF last, n
    <3>2. \A i \in 1 .. n - 1 : last[i + 1] - last[i] = interval[i + 1] - interval[i]
      BY <2>1, <3>1
    <3>. QED  BY <2>1, <3>1, <3>2 DEF Between
  <2>3. LastGaps(n) = {gaps[i] : i \in 1 .. n - 1}
    <3>1. DOMAIN gaps = 1 .. n - 1
      BY <2>1 DEF Between
    <3>. QED  BY <2>2, <3>1 DEF LastGaps, ToSet
  <2>4. \A i \in 1 .. n - 1 : gaps[i] \in Int
    <3>1. \A i \in 1 .. n - 1 : interval[i] \in Int /\ interval[i + 1] \in Int
      BY <2>1 DEF Clock
    <3>. QED  BY <2>1, <3>1 DEF Between
  <2>5. Steady(interval) <=> /\ n >= 4
                             /\ gaps[1] \in Shortest .. Longest
                             /\ \A i \in 1 .. n - 1 : 5 * Distance(gaps[i], gaps[1]) <= gaps[1]
    BY <2>1 DEF Steady, Between
  <2>. HIDE DEF n, gaps
  <2>6. ASSUME n >= 4, Regular(LastGaps(n))
        PROVE  beacon
    <3>1. PICK period \in Gaps :
             /\ 10 * period >= 11 * Shortest /\ 12 * period <= 11 * Longest
             /\ \A gap \in LastGaps(n) : 11 * Distance(gap, period) <= period
      BY <2>6 DEF Regular
    <3>2. period \in Nat /\ Shortest \in Nat /\ Longest \in Nat
      BY BeaconAssumption
    <3>3. \A i \in 1 .. n - 1 : 11 * Distance(gaps[i], period) <= period
      BY <2>3, <3>1
    <3>4. 1 \in 1 .. n - 1
      BY <2>1, <2>6
    <3>5. \A i \in 1 .. n - 1 : /\ 5 * Distance(gaps[i], gaps[1]) <= gaps[1]
                                /\ 10 * period <= 11 * gaps[1] /\ 11 * gaps[1] <= 12 * period
      BY <2>4, <3>2, <3>3, <3>4, NearPeriod
    <3>6. gaps[1] \in Shortest .. Longest
      BY <2>4, <3>1, <3>2, <3>4, <3>5
    <3>. QED  BY <2>5, <2>6, <3>5, <3>6 DEF BeaconInv
  <2>7. ASSUME beacon, NEW g \in LastGaps(n), NEW h \in LastGaps(n)
        PROVE  n >= 4 /\ 2 * g <= 3 * h
    <3>1. Steady(interval)
      BY <2>7 DEF BeaconInv
    <3>2. /\ g \in Int /\ 5 * Distance(g, gaps[1]) <= gaps[1]
          /\ h \in Int /\ 5 * Distance(h, gaps[1]) <= gaps[1]
      BY <2>3, <2>4, <2>5, <2>7, <3>1
    <3>3. gaps[1] \in Nat
      BY <2>5, <3>1, BeaconAssumption
    <3>. QED  BY <2>5, <3>1, <3>2, <3>3, NearFirst
  <2>8. beacon => n >= 4
    BY <2>5 DEF BeaconInv
  <2>. QED  BY <2>6, <2>7, <2>8 DEF BeaconMeansRegular, n, KeptTimes
<1>. QED  BY <1>1, <1>2, <1>3, PTL DEF TrackerSpec
=============================================================================
