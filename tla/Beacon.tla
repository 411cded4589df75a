------------------------------- MODULE Beacon --------------------------------
(***************************************************************************)
(* Beacons: connects of one key at steady gaps.                            *)
(*                                                                         *)
(* Abstractions.  One key; keys do not touch each other's times.  The unit *)
(* of time is any that the gaps are multiples of, so a fifth of a gap is   *)
(* compared without rounding.  A restart is a new start.                   *)
(***************************************************************************)
EXTENDS Integers, Sequences, SequencesExt

CONSTANTS
    Shortest, Longest,  \* 2 s and 10 min
    Gaps,               \* bound: the times between two connects
    MaxConnects         \* bound: connects

Depth == 8              \* connect times kept for a key

ASSUME BeaconAssumption ==
    /\ Shortest \in Nat \ {0} /\ Longest \in Nat
    /\ Gaps \subseteq Nat /\ MaxConnects \in Nat

VARIABLES
    interval,    \* Tracker.interval of the key
    beacon,      \* what the last checkBeacon returned
    connects     \* history: the times of all connects

beaconVars == <<interval, beacon, connects>>

BeaconInit == interval = <<>> /\ beacon = FALSE /\ connects = <<>>

AllTimes(at) == Append(interval, at)                    \* mutant: none is ever dropped

Times(at) == IF Len(interval) < Depth THEN Append(interval, at)
             ELSE Append(Tail(interval), at)

Between(times) == [i \in 1..Len(times) - 1 |-> times[i + 1] - times[i]]

Distance(m, n) == IF m < n THEN n - m ELSE m - n

\* Three gaps at least, the first of them in range, the others within a fifth of it.
Steady(times) ==
    LET gaps == Between(times) IN
    /\ Len(times) >= 4
    /\ gaps[1] \in Shortest..Longest
    /\ \A i \in DOMAIN gaps : 5 * Distance(gaps[i], gaps[1]) <= gaps[1]

CheckBeacon(at) == interval' = Times(at) /\ beacon' = Steady(Times(at))

\* The key connects, after a gap.
Connect(gap) ==
    LET at == IF connects = <<>> THEN 0 ELSE Last(connects) + gap IN
    /\ Len(connects) < MaxConnects
    /\ CheckBeacon(at)
    /\ connects' = Append(connects, at)

-----------------------------------------------------------------------------
(* Properties. *)

\* The gaps between the last n connects.
LastGaps(n) == ToSet(Between(SubSeq(connects, Len(connects) - n + 1, Len(connects))))

\* Within an eleventh of a period that is well in range.
Regular(gaps) ==
    \E period \in Gaps :
        /\ 10 * period >= 11 * Shortest /\ 12 * period <= 11 * Longest
        /\ \A gap \in gaps : 11 * Distance(gap, period) <= period

\* A process that connects at the same pace, give or take an eleventh, is reported with every
\* connect from its fourth on if it did nothing else before, and with its eighth at the latest
\* whatever it did. Conversely four connects at least stand behind a report, and of the gaps
\* between the last of them, up to eight, none is longer than another by more than a half.
BeaconMeansRegular ==
    LET n == IF Len(connects) < Depth THEN Len(connects) ELSE Depth IN
    /\ n >= 4 /\ Regular(LastGaps(n)) => beacon
    /\ beacon =>
        /\ n >= 4
        /\ \A g, h \in LastGaps(n) : g >= h => 2 * g <= 3 * h
=============================================================================
