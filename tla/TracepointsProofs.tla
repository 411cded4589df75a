-------------------------- MODULE TracepointsProofs --------------------------
(***************************************************************************)
(* Proofs about the BPF programs, for every number of CPUs and tasks,      *)
(* every limit, every length of the window and every size of the ring      *)
(* buffer.                                                                 *)
(*                                                                         *)
(* Limiters. LimiterOK ties window and count to all admissions there ever  *)
(* were.                                                                   *)
(*                                                                         *)
(* Ring buffer. What a program fills or is about to reserve is the last    *)
(* there is of its CPU and of its task, because it holds both (RingOK).    *)
(*                                                                         *)
(* Flags. Every event that a program can report bears the right ones       *)
(* (EventsExact), and a record is of such an event from its reservation    *)
(* on.                                                                     *)
(*                                                                         *)
(* Accounts. A tracepoint that fires ends in one of three ways             *)
(* (FireEnds), and each step of the ring buffer moves it from one place    *)
(* to another; the sums over the CPUs are cardinalities of unfolded        *)
(* counters.                                                               *)
(***************************************************************************)
EXTENDS Tracepoints, FiniteSetTheorems, TLAPS

-----------------------------------------------------------------------------
(* The limiters. Of n admissions in all, the last k are those that the current window, *)
(* begun at w, counts.                                                                  *)

\* What one limiter of one CPU, v, has to do with the times of its admissions.
LimiterOK(v, adm, limit, time) ==
    /\ v \in [window : Nat, count : Nat] /\ adm \in Seq(Nat)
    /\ v.window <= time /\ v.count <= limit /\ v.count <= Len(adm)
    /\ v.window = 0 => Len(adm) = 0
    /\ v.window # 0 => v.count > 0
    /\ \A i \in 1..Len(adm) :
        /\ i <= Len(adm) - v.count - limit + 1 => adm[i] + Window < v.window
        /\ i <= Len(adm) - v.count + 1 => adm[i] <= v.window
        /\ i > Len(adm) - v.count => v.window <= adm[i] /\ adm[i] <= v.window + Window

LimitersOK ==
    /\ now \in Nat \ {0}
    /\ rl \in [Limiters -> [Cpus -> [window : Nat, count : Nat]]]
    /\ admitted \in [Limiters -> [Cpus -> Seq(Nat)]]
    /\ suppressed \in [Limiters -> [Cpus -> Nat]]
    /\ \A l \in Limiters, c \in Cpus : LimiterOK(rl[l][c], admitted[l][c], Limit[l], now)
    /\ SampledWithinRate

LEMMA LimitersInit == Init => LimitersOK
<1> SUFFICES ASSUME Init PROVE LimitersOK
    OBVIOUS
<1>1. \A l \in Limiters, c \in Cpus :
        rl[l][c] = [window |-> 0, count |-> 0] /\ admitted[l][c] = <<>>
    BY DEF Init
<1>2. \A l \in Limiters : Limit[l] \in Nat \ {0}
    BY ConstantsAssumption
<1>3. \A l \in Limiters, c \in Cpus : LimiterOK(rl[l][c], admitted[l][c], Limit[l], now)
    BY <1>1, <1>2 DEF LimiterOK, Init
<1>4. SampledWithinRate
    BY <1>1, <1>2 DEF SampledWithinRate
<1> QED
    BY <1>3, <1>4 DEF LimitersOK, Init

\* An event that passes when the window is not over: it is one more of the current window.
LEMMA AdmitInWindow ==
    ASSUME NEW v, NEW adm, NEW limit \in Nat \ {0}, NEW time \in Nat,
           LimiterOK(v, adm, limit, time), v.window # 0, time - v.window <= Window,
           v.count < limit
    PROVE  /\ LimiterOK([v EXCEPT !.count = @ + 1], Append(adm, time), limit, time)
           /\ Len(adm) + 2 - 2 * limit >= 1 => time - adm[Len(adm) + 2 - 2 * limit] > Window
<1> DEFINE w == [v EXCEPT !.count = @ + 1]
           new == Append(adm, time)
<1>1. /\ v \in [window : Nat, count : Nat] /\ adm \in Seq(Nat) /\ Window \in Nat
      /\ v.window <= time /\ v.count <= Len(adm)
      /\ v.window \in Nat /\ v.count \in Nat /\ v.count > 0 /\ Len(adm) \in Nat
      /\ \A i \in 1..Len(adm) : adm[i] \in Nat
    BY ConstantsAssumption DEF LimiterOK
<1>2. w \in [window : Nat, count : Nat] /\ w.window = v.window /\ w.count = v.count + 1
    BY SMTT(30), <1>1
<1>3. /\ new \in Seq(Nat) /\ Len(new) = Len(adm) + 1 /\ new[Len(adm) + 1] = time
      /\ \A i \in 1..Len(adm) : new[i] = adm[i]
    BY <1>1
<1> HIDE DEF w, new
<1>4. ASSUME NEW i \in 1..Len(new)
      PROVE  /\ i <= Len(new) - w.count - limit + 1 => new[i] + Window < w.window
             /\ i <= Len(new) - w.count + 1 => new[i] <= w.window
             /\ i > Len(new) - w.count => w.window <= new[i] /\ new[i] <= w.window + Window
    <2>1. CASE i = Len(adm) + 1
        <3>1. Len(new) - w.count = Len(adm) - v.count
            BY <1>1, <1>2, <1>3
        <3>2. ~(i <= Len(new) - w.count - limit + 1) /\ ~(i <= Len(new) - w.count + 1)
            <4>1. \A a, b, k \in Nat : b > 0 /\ k > 0 =>
                      ~(a + 1 <= a - b - k + 1) /\ ~(a + 1 <= a - b + 1)
                OBVIOUS
            <4>2. Len(adm) \in Nat /\ v.count \in Nat /\ v.count > 0 /\ limit \in Nat /\ limit > 0
                BY <1>1
            <4> QED
                BY <2>1, <3>1, <4>1, <4>2
        <3>3. new[i] = time /\ w.window = v.window
            BY <2>1, <1>2, <1>3
        <3>4. w.window <= new[i] /\ new[i] <= w.window + Window
            BY <3>3, <1>1
        <3> QED
            BY <3>2, <3>4
    <2>2. CASE i \in 1..Len(adm)
        <3>1. /\ i <= Len(adm) - v.count - limit + 1 => adm[i] + Window < v.window
              /\ i <= Len(adm) - v.count + 1 => adm[i] <= v.window
              /\ i > Len(adm) - v.count => v.window <= adm[i] /\ adm[i] <= v.window + Window
            BY <2>2 DEF LimiterOK
        <3>2. new[i] = adm[i]
            BY <2>2, <1>3
        <3>3. Len(new) - w.count = Len(adm) - v.count
            BY <1>1, <1>2, <1>3
        <3> QED
            BY <3>1, <3>2, <3>3, <1>2
    <2> QED
        BY <2>1, <2>2, <1>1, <1>3
<1>5. LimiterOK(w, new, limit, time)
    BY SMTT(30), <1>1, <1>2, <1>3, <1>4 DEF LimiterOK
<1>6. ASSUME Len(adm) + 2 - 2 * limit >= 1
      PROVE  time - adm[Len(adm) + 2 - 2 * limit] > Window
    <2> DEFINE i == Len(adm) + 2 - 2 * limit
    <2>1. i \in 1..Len(adm) /\ i <= Len(adm) - v.count - limit + 1
        BY SMTT(30), <1>1, <1>6
    <2> HIDE DEF i
    <2>2. adm[i] + Window < v.window /\ adm[i] \in Nat
        BY <2>1, <1>1 DEF LimiterOK
    <2>3. time - adm[i] > Window
        BY <2>2, <1>1
    <2> QED
        BY <2>3 DEF i
<1> QED
    BY <1>5, <1>6 DEF w, new

\* An event that begins a window: the admissions so far become those of older windows, and
\* of them, the first of the window that is over and all before it lie further back than its
\* length.
LEMMA AdmitInNextWindow ==
    ASSUME NEW v, NEW adm, NEW limit \in Nat \ {0}, NEW time \in Nat \ {0},
           LimiterOK(v, adm, limit, time), v.window = 0 \/ time - v.window > Window
    PROVE  /\ LimiterOK([window |-> time, count |-> 1], Append(adm, time), limit, time)
           /\ Len(adm) + 2 - 2 * limit >= 1 => time - adm[Len(adm) + 2 - 2 * limit] > Window
<1> DEFINE w == [window |-> time, count |-> 1]
           new == Append(adm, time)
<1>1. /\ v \in [window : Nat, count : Nat] /\ adm \in Seq(Nat) /\ Window \in Nat
      /\ v.window <= time /\ v.count <= Len(adm) /\ v.count <= limit
      /\ v.window \in Nat /\ v.count \in Nat /\ Len(adm) \in Nat
      /\ \A i \in 1..Len(adm) : adm[i] \in Nat
    BY ConstantsAssumption DEF LimiterOK
<1>2. w \in [window : Nat, count : Nat] /\ w.window = time /\ w.count = 1
    OBVIOUS
<1>3. /\ new \in Seq(Nat) /\ Len(new) = Len(adm) + 1 /\ new[Len(adm) + 1] = time
      /\ \A i \in 1..Len(adm) : new[i] = adm[i]
    BY <1>1
<1> HIDE DEF w, new
<1>4. ASSUME NEW i \in 1..Len(adm)
      PROVE  /\ adm[i] \in Nat /\ adm[i] < time
             /\ i <= Len(adm) - limit + 1 => adm[i] + Window < time
    <2>1. adm[i] \in Nat /\ v.window # 0 /\ v.window + Window < time
        BY <1>1 DEF LimiterOK
    <2>2. /\ i <= Len(adm) - v.count + 1 => adm[i] <= v.window
          /\ i > Len(adm) - v.count => adm[i] <= v.window + Window
        BY DEF LimiterOK
    <2>3. CASE i <= Len(adm) - v.count + 1
        BY SMTT(30), <2>1, <2>2, <2>3, <1>1
    <2>4. CASE i > Len(adm) - v.count + 1
        <3>1. ~(i <= Len(adm) - limit + 1) /\ i > Len(adm) - v.count
            BY <2>4, <1>1
        <3> QED
            BY SMTT(30), <2>1, <2>2, <3>1, <1>1
    <2> QED
        BY <2>3, <2>4, <1>1
<1>5. ASSUME NEW i \in 1..Len(new)
      PROVE  /\ i <= Len(new) - w.count - limit + 1 => new[i] + Window < w.window
             /\ i <= Len(new) - w.count + 1 => new[i] <= w.window
             /\ i > Len(new) - w.count => w.window <= new[i] /\ new[i] <= w.window + Window
    <2>1. CASE i = Len(adm) + 1
        BY <2>1, <1>1, <1>2, <1>3
    <2>2. CASE i \in 1..Len(adm)
        <3>1. new[i] = adm[i] /\ Len(new) - w.count = Len(adm)
            BY SMTT(30), <2>2, <1>1, <1>2, <1>3
        <3> QED
            BY <2>2, <3>1, <1>1, <1>2, <1>4
    <2> QED
        BY <2>1, <2>2, <1>1, <1>3
<1>6. LimiterOK(w, new, limit, time)
    BY <1>1, <1>2, <1>3, <1>5 DEF LimiterOK
<1>7. ASSUME Len(adm) + 2 - 2 * limit >= 1
      PROVE  time - adm[Len(adm) + 2 - 2 * limit] > Window
    <2> DEFINE i == Len(adm) + 2 - 2 * limit
    <2>1. i \in 1..Len(adm) /\ i <= Len(adm) - limit + 1
        BY <1>1, <1>7
    <2> HIDE DEF i
    <2>2. time - adm[i] > Window
        BY SMTT(30), <2>1, <1>1, <1>4
    <2> QED
        BY <2>2 DEF i
<1> QED
    BY <1>6, <1>7 DEF w, new

\* Appending a time that keeps the rate keeps all of them at the rate.
LEMMA RateKept ==
    ASSUME NEW adm \in Seq(Nat), NEW time \in Nat, NEW most \in Nat \ {0},
           \A i \in 1..Len(adm) - most : adm[i + most] - adm[i] > Window,
           Len(adm) + 1 - most >= 1 => time - adm[Len(adm) + 1 - most] > Window
    PROVE  \A i \in 1..Len(Append(adm, time)) - most :
               Append(adm, time)[i + most] - Append(adm, time)[i] > Window
<1> DEFINE new == Append(adm, time)
<1>1. /\ Len(new) = Len(adm) + 1 /\ new[Len(adm) + 1] = time /\ Len(adm) \in Nat
      /\ \A j \in 1..Len(adm) : new[j] = adm[j]
    OBVIOUS
<1> HIDE DEF new
<1>2. ASSUME NEW i \in 1..Len(new) - most
      PROVE  new[i + most] - new[i] > Window
    <2> DEFINE n == Len(adm)
    <2>1. i \in Nat /\ i >= 1 /\ i + most <= n + 1 /\ n \in Nat /\ most \in Nat \ {0}
        BY <1>1
    <2> HIDE DEF n
    <2>2. i \in 1..n
        BY <2>1
    <2>3. new[i] = adm[i]
        BY <1>1, <2>2 DEF n
    <2>4. CASE i + most = n + 1
        <3>1. i = n + 1 - most
            BY <2>4, <2>1
        <3>2. new[i + most] = time
            BY <2>4, <1>1 DEF n
        <3> QED
            BY <2>3, <2>2, <3>1, <3>2 DEF n
    <2>5. CASE i + most # n + 1
        <3>1. i \in 1..n - most /\ i + most \in 1..n
            BY <2>5, <2>1
        <3>2. new[i + most] = adm[i + most]
            BY <3>1, <1>1 DEF n
        <3>3. adm[i + most] - adm[i] > Window
            BY <3>1 DEF n
        <3> QED
            BY <2>3, <3>2, <3>3
    <2> QED
        BY <2>4, <2>5
<1> QED
    BY <1>2 DEF new

\* What a step does to the limiters: nothing, let time pass, or ask one of them.
LEMMA LimiterSteps ==
    ASSUME [Next]_vars
    PROVE  \/ now' = now /\ UNCHANGED limits
           \/ now' = now + 1 /\ UNCHANGED limits
           \/ \E l \in Limiters, c \in Cpus, t \in Tasks : \E event :
                  Sampled(l, c, t, event) /\ now' = now
<1> DEFINE Goal ==
        \/ now' = now /\ UNCHANGED limits
        \/ now' = now + 1 /\ UNCHANGED limits
        \/ \E l \in Limiters, c \in Cpus, t \in Tasks : \E event :
               Sampled(l, c, t, event) /\ now' = now
<1>1. CASE UNCHANGED vars
    BY <1>1 DEF vars
<1>2. ASSUME NEW c \in Cpus, Reserve(c) \/ Drop(c) \/ Submit(c)
      PROVE  Goal
    BY <1>2 DEF Reserve, Drop, Submit
<1>3. CASE Read
    BY <1>3 DEF Read
<1>4. CASE Tick
    BY <1>4 DEF Tick
<1>5. ASSUME NEW c \in Cpus, NEW t \in Tasks,
             \/ TracePtrace(c, t) \/ TraceSetuid(c, t) \/ TraceSetgid(c, t)
             \/ TraceCapset(c, t) \/ TraceOomKill(c, t)
      PROVE  Goal
    BY <1>5 DEF TracePtrace, TraceSetuid, TraceSetgid, TraceCapset, TraceOomKill, Always, Fire
<1>6. ASSUME NEW c \in Cpus, NEW t \in Tasks, TraceWrite(c, t)
      PROVE  Goal
    <2>1. Sampled("write", c, t, PlainEvent("write")) /\ now' = now
        BY <1>6 DEF TraceWrite, Fire
    <2> QED
        BY <2>1 DEF Limiters
<1>7. ASSUME NEW c \in Cpus, NEW t \in Tasks, TraceExit(c, t)
      PROVE  Goal
    BY <1>7 DEF TraceExit, Fire
<1>8. ASSUME NEW c \in Cpus, NEW t \in Tasks, NEW path, TraceExec(c, t, path)
      PROVE  Goal
    BY <1>8 DEF TraceExec, Always, Fire
<1>9. ASSUME NEW c \in Cpus, NEW t \in Tasks, NEW path, NEW name, FileOpened(name, c, t, path)
      PROVE  Goal
    <2>1. now' = now /\ (UNCHANGED limits \/ Sampled("open", c, t, OpenEvent(path)))
        BY <1>9 DEF FileOpened, Fire
    <2> QED
        BY <2>1 DEF Limiters
<1>10. ASSUME NEW c \in Cpus, NEW t \in Tasks, NEW addr,
              TraceConnect(c, t, addr) \/ TraceBind(c, t, addr) \/ TraceSendto(c, t, addr)
       PROVE  Goal
    BY <1>10 DEF TraceConnect, TraceBind, TraceSendto, Always, Fire
<1>11. ASSUME NEW c \in Cpus, NEW t \in Tasks, NEW child, NEW thread,
              TraceFork(c, t, child, thread)
       PROVE  Goal
    BY <1>11 DEF TraceFork, Fire
<1> QED
    BY <1>1, <1>2, <1>3, <1>4, <1>5, <1>6, <1>7, <1>8, <1>9, <1>10, <1>11
    DEF Next, TraceOpenat, TraceOpen, TraceOpenat2

\* The two outcomes of asking a limiter.
LEMMA SampledCases ==
    ASSUME LimitersOK, NEW l \in Limiters, NEW c \in Cpus, NEW t \in Tasks, NEW event,
           Sampled(l, c, t, event)
    PROVE  \/ /\ rl[l][c].window # 0 /\ now - rl[l][c].window <= Window
              /\ rl[l][c].count = Limit[l]
              /\ rl' = rl /\ admitted' = admitted
              /\ suppressed' = [suppressed EXCEPT ![l][c] = @ + 1]
           \/ /\ rl[l][c].window # 0 /\ now - rl[l][c].window <= Window
              /\ rl[l][c].count < Limit[l]
              /\ rl' = [rl EXCEPT ![l][c] = [rl[l][c] EXCEPT !.count = @ + 1]]
              /\ admitted' = [admitted EXCEPT ![l][c] = Append(@, now)]
              /\ suppressed' = suppressed
           \/ /\ rl[l][c].window = 0 \/ now - rl[l][c].window > Window
              /\ rl' = [rl EXCEPT ![l][c] = [window |-> now, count |-> 1]]
              /\ admitted' = [admitted EXCEPT ![l][c] = Append(@, now)]
              /\ suppressed' = suppressed
<1> DEFINE v == rl[l][c]
           over == v.window = 0 \/ now - v.window > Window
<1>1. /\ v \in [window : Nat, count : Nat] /\ v.count <= Limit[l]
      /\ now \in Nat /\ Window \in Nat /\ Limit[l] \in Nat \ {0}
    BY ConstantsAssumption DEF LimitersOK, LimiterOK
<1>2. CASE over
    <2>1. Fresh(v) = [window |-> now, count |-> 0]
        BY <1>2 DEF Fresh
    <2>2. ~AtLimit(l, Fresh(v))
        BY <2>1, <1>1 DEF AtLimit
    <2>3. /\ rl' = [rl EXCEPT ![l][c] = [Fresh(v) EXCEPT !.count = @ + 1]]
          /\ admitted' = [admitted EXCEPT ![l][c] = Append(@, now)] /\ suppressed' = suppressed
        BY <2>2 DEF Sampled
    <2>4. [Fresh(v) EXCEPT !.count = @ + 1] = [window |-> now, count |-> 1]
        BY <2>1
    <2> QED
        BY <1>2, <2>3, <2>4
<1>3. CASE ~over
    <2>1. Fresh(v) = v
        BY <1>3 DEF Fresh
    <2>2. v.window # 0 /\ now - v.window <= Window
        BY <1>3, <1>1
    <2>3. CASE AtLimit(l, v)
        <3>1. v.count = Limit[l]
            BY <2>3, <1>1 DEF AtLimit
        <3>2. /\ rl' = [rl EXCEPT ![l][c] = v] /\ admitted' = admitted
              /\ suppressed' = [suppressed EXCEPT ![l][c] = @ + 1]
            BY <2>1, <2>3 DEF Sampled
        <3>3. rl' = rl
            <4>1. [rl EXCEPT ![l][c] = rl[l][c]] = rl
                BY DEF LimitersOK
            <4> QED
                BY <3>2, <4>1
        <3> QED
            BY <2>2, <3>1, <3>2, <3>3
    <2>4. CASE ~AtLimit(l, v)
        <3>1. v.count < Limit[l]
            BY <2>4, <1>1 DEF AtLimit
        <3>2. /\ rl' = [rl EXCEPT ![l][c] = [v EXCEPT !.count = @ + 1]]
              /\ admitted' = [admitted EXCEPT ![l][c] = Append(@, now)]
              /\ suppressed' = suppressed
            BY <2>1, <2>4 DEF Sampled
        <3> QED
            BY <2>2, <3>1, <3>2
    <2> QED
        BY <2>3, <2>4
<1> QED
    BY <1>2, <1>3

LEMMA LimitersStep == LimitersOK /\ [Next]_vars => LimitersOK'
<1> SUFFICES ASSUME LimitersOK, [Next]_vars
             PROVE  LimitersOK'
    OBVIOUS
<1>1. /\ now \in Nat \ {0} /\ Window \in Nat
      /\ \A l \in Limiters : Limit[l] \in Nat \ {0}
    BY ConstantsAssumption DEF LimitersOK
<1>2. CASE now' = now /\ UNCHANGED limits
    BY <1>2 DEF LimitersOK, SampledWithinRate, limits
<1>3. CASE now' = now + 1 /\ UNCHANGED limits
    <2>1. ASSUME NEW l \in Limiters, NEW c \in Cpus
          PROVE  LimiterOK(rl[l][c], admitted[l][c], Limit[l], now + 1)
        <3>1. LimiterOK(rl[l][c], admitted[l][c], Limit[l], now)
            BY DEF LimitersOK
        <3>2. rl[l][c].window \in Nat
            BY <3>1 DEF LimiterOK
        <3> QED
            BY <1>1, <3>1, <3>2 DEF LimiterOK
    <2> QED
        BY <1>1, <1>3, <2>1 DEF LimitersOK, SampledWithinRate, limits
<1>4. ASSUME NEW l \in Limiters, NEW c \in Cpus, NEW t \in Tasks, NEW event,
             Sampled(l, c, t, event), now' = now
      PROVE  LimitersOK'
    <2> DEFINE v == rl[l][c]
               adm == admitted[l][c]
    <2>1. /\ LimiterOK(v, adm, Limit[l], now) /\ adm \in Seq(Nat)
          /\ v \in [window : Nat, count : Nat]
          /\ \A i \in 1..Len(adm) - (2 * Limit[l] - 1) : adm[i + (2 * Limit[l] - 1)] - adm[i] > Window
        BY DEF LimitersOK, LimiterOK, SampledWithinRate
    <2>2. CASE /\ rl' = rl /\ admitted' = admitted
               /\ suppressed' = [suppressed EXCEPT ![l][c] = @ + 1]
        BY <1>4, <2>2 DEF LimitersOK, SampledWithinRate
    <2>3. ASSUME NEW w, w \in [window : Nat, count : Nat],
                 LimiterOK(w, Append(adm, now), Limit[l], now),
                 Len(adm) + 2 - 2 * Limit[l] >= 1 =>
                     now - adm[Len(adm) + 2 - 2 * Limit[l]] > Window,
                 rl' = [rl EXCEPT ![l][c] = w],
                 admitted' = [admitted EXCEPT ![l][c] = Append(@, now)],
                 suppressed' = suppressed
          PROVE  LimitersOK'
        <3>1. /\ rl' \in [Limiters -> [Cpus -> [window : Nat, count : Nat]]]
              /\ rl'[l][c] = w
              /\ \A k \in Limiters, d \in Cpus : k # l \/ d # c => rl'[k][d] = rl[k][d]
            BY <2>3 DEF LimitersOK
        <3>2. Append(adm, now) \in Seq(Nat)
            BY <1>1, <2>1
        <3>3. /\ admitted' \in [Limiters -> [Cpus -> Seq(Nat)]]
              /\ admitted'[l][c] = Append(adm, now)
              /\ \A k \in Limiters, d \in Cpus :
                    k # l \/ d # c => admitted'[k][d] = admitted[k][d]
            BY <2>3, <3>2 DEF LimitersOK
        <3>4. \A i \in 1..Len(Append(adm, now)) - (2 * Limit[l] - 1) :
                 Append(adm, now)[i + (2 * Limit[l] - 1)] - Append(adm, now)[i] > Window
            <4> DEFINE most == 2 * Limit[l] - 1
            <4>1. most \in Nat \ {0} /\ Len(adm) + 1 - most = Len(adm) + 2 - 2 * Limit[l]
                BY <1>1, <2>1
            <4>2. /\ \A i \in 1..Len(adm) - most : adm[i + most] - adm[i] > Window
                  /\ Len(adm) + 1 - most >= 1 => now - adm[Len(adm) + 1 - most] > Window
                BY <4>1, <2>1, <2>3
            <4> HIDE DEF most
            <4>3. \A i \in 1..Len(Append(adm, now)) - most :
                     Append(adm, now)[i + most] - Append(adm, now)[i] > Window
                BY <1>1, <2>1, <4>1, <4>2, RateKept
            <4> QED
                BY <4>3 DEF most
        <3> HIDE DEF adm, v
        <3>5. ASSUME NEW k \in Limiters, NEW d \in Cpus
              PROVE  /\ LimiterOK(rl'[k][d], admitted'[k][d], Limit[k], now)
                     /\ \A i \in 1..Len(admitted'[k][d]) - (2 * Limit[k] - 1) :
                           admitted'[k][d][i + (2 * Limit[k] - 1)] - admitted'[k][d][i] > Window
            <4>1. CASE k = l /\ d = c
                BY <4>1, <3>1, <3>3, <3>4, <2>3
            <4>2. CASE ~(k = l /\ d = c)
                <5>1. rl'[k][d] = rl[k][d] /\ admitted'[k][d] = admitted[k][d]
                    BY <4>2, <3>1, <3>3
                <5>2. /\ LimiterOK(rl[k][d], admitted[k][d], Limit[k], now)
                      /\ \A i \in 1..Len(admitted[k][d]) - (2 * Limit[k] - 1) :
                            admitted[k][d][i + (2 * Limit[k] - 1)] - admitted[k][d][i] > Window
                    BY DEF LimitersOK, SampledWithinRate
                <5> QED
                    BY <5>1, <5>2
            <4> QED
                BY <4>1, <4>2
        <3>6. SampledWithinRate'
            BY <3>5 DEF SampledWithinRate
        <3>7. now' \in Nat \ {0} /\ suppressed' \in [Limiters -> [Cpus -> Nat]]
            BY <1>1, <1>4, <2>3 DEF LimitersOK
        <3> QED
            BY <1>4, <3>1, <3>3, <3>5, <3>6, <3>7 DEF LimitersOK
    <2>4. CASE /\ v.window # 0 /\ now - v.window <= Window /\ v.count < Limit[l]
               /\ rl' = [rl EXCEPT ![l][c] = [rl[l][c] EXCEPT !.count = @ + 1]]
               /\ admitted' = [admitted EXCEPT ![l][c] = Append(@, now)]
               /\ suppressed' = suppressed
        <3> DEFINE w == [v EXCEPT !.count = @ + 1]
        <3>1. w \in [window : Nat, count : Nat]
            BY <2>1
        <3>2. rl' = [rl EXCEPT ![l][c] = w]
            BY <2>4
        <3>3. /\ LimiterOK(w, Append(adm, now), Limit[l], now)
              /\ Len(adm) + 2 - 2 * Limit[l] >= 1 =>
                     now - adm[Len(adm) + 2 - 2 * Limit[l]] > Window
            BY <1>1, <2>1, <2>4, AdmitInWindow
        <3> HIDE DEF w
        <3> QED
            BY <2>3, <2>4, <3>1, <3>2, <3>3
    <2>5. CASE /\ v.window = 0 \/ now - v.window > Window
               /\ rl' = [rl EXCEPT ![l][c] = [window |-> now, count |-> 1]]
               /\ admitted' = [admitted EXCEPT ![l][c] = Append(@, now)]
               /\ suppressed' = suppressed
        <3>1. [window |-> now, count |-> 1] \in [window : Nat, count : Nat]
            BY <1>1
        <3>2. /\ LimiterOK([window |-> now, count |-> 1], Append(adm, now), Limit[l], now)
              /\ Len(adm) + 2 - 2 * Limit[l] >= 1 =>
                     now - adm[Len(adm) + 2 - 2 * Limit[l]] > Window
            BY <1>1, <2>1, <2>5, AdmitInNextWindow
        <3> QED
            BY <2>3, <2>5, <3>1, <3>2
    <2> QED
        BY <1>4, <2>2, <2>4, <2>5, SampledCases
<1> QED
    BY <1>2, <1>3, <1>4, LimiterSteps

\* SampledWithinRate for every limit, window and number of CPUs: no interleaving of the
\* three open programs, which share a limiter, lets twice the limit through within the
\* length of a window.
THEOREM RateIsKept == Spec => []SampledWithinRate
<1>1. LimitersOK => SampledWithinRate
    BY DEF LimitersOK
<1> QED
    BY <1>1, LimitersInit, LimitersStep, PTL DEF Spec

\* SuppressedAtLimit: nothing is held back but under a burst that lasts.
THEOREM SuppressionIsJustified == Spec => SuppressedAtLimit
<1>1. ASSUME LimitersOK, [Next]_vars, NEW l \in Limiters, NEW c \in Cpus,
             suppressed'[l][c] # suppressed[l][c]
      PROVE  /\ Len(admitted[l][c]) >= Limit[l]
             /\ now - admitted[l][c][Len(admitted[l][c]) - Limit[l] + 1] <= Window
    <2> DEFINE v == rl[l][c]
               adm == admitted[l][c]
               first == Len(adm) - Limit[l] + 1
    <2>1. PICK k \in Limiters, d \in Cpus, t \in Tasks : \E event : Sampled(k, d, t, event)
        BY <1>1, LimiterSteps DEF limits
    <2>2. /\ now - rl[k][d].window <= Window /\ rl[k][d].count = Limit[k]
          /\ suppressed' = [suppressed EXCEPT ![k][d] = @ + 1]
        BY <1>1, <2>1, SampledCases
    <2>3. k = l /\ d = c
        BY <1>1, <2>2 DEF LimitersOK
    <2>4. /\ LimiterOK(v, adm, Limit[l], now) /\ adm \in Seq(Nat) /\ v.window \in Nat
          /\ now \in Nat /\ Limit[l] \in Nat \ {0} /\ Window \in Nat
        BY <1>1, ConstantsAssumption DEF LimitersOK, LimiterOK
    <2>5. Limit[l] <= Len(adm) /\ v.count = Limit[l]
        BY <2>2, <2>3, <2>4 DEF LimiterOK
    <2>6. first \in 1..Len(adm) /\ first > Len(adm) - v.count
        BY SMTT(30), <2>4, <2>5
    <2>7. v.window <= adm[first] /\ adm[first] \in Nat
        <3> HIDE DEF first, adm, v
        <3>1. adm[first] \in Nat
            BY <2>4, <2>6
        <3> QED
            BY <2>4, <2>6, <3>1 DEF LimiterOK
    <2> HIDE DEF first
    <2>8. now - adm[first] <= Window
        BY SMTT(30), <2>2, <2>3, <2>4, <2>7
    <2> QED
        BY <2>5, <2>4, <2>8 DEF first
<1>2. LimitersOK /\ [Next]_vars =>
        [\A l \in Limiters, c \in Cpus : suppressed'[l][c] # suppressed[l][c] =>
            /\ Len(admitted[l][c]) >= Limit[l]
            /\ now - admitted[l][c][Len(admitted[l][c]) - Limit[l] + 1] <= Window]_vars
    BY <1>1
<1> QED
    BY <1>2, LimitersInit, LimitersStep, PTL DEF Spec, SuppressedAtLimit

-----------------------------------------------------------------------------
(* The ring buffer. *)

PlainTypes ==
    {"ptrace", "setuid", "setgid", "capset", "oom_kill", "write", "fork", "exit"}

Events ==
    {PlainEvent(type) : type \in PlainTypes}
        \cup {ExecEvent(path) : path \in Paths} \cup {OpenEvent(path) : path \in Paths}
        \cup UNION {{AddrEvent("connect", addr, PortFlags(addr)), AddrEvent("bind", addr, {}),
                     AddrEvent("dns", addr, {})} : addr \in Addrs}

Records ==
    [event : Events, cpu : Cpus, task : Tasks, pid : Tasks, nr : Nat, at : Nat,
     ppid : Tasks \cup {None}, ready : BOOLEAN]

\* What the program of CPU c is about to emit comes after all there is of its CPU and task.
EmitOK(c) ==
    /\ cpu[c].rec \in Records /\ cpu[c].rec.cpu = c /\ cpu[c].rec.task \in cpu[c].holds
    /\ cpu[c].rec.nr <= fired /\ cpu[c].rec.at <= now
    /\ \A i \in 1..Len(log) :
        log[i].cpu = c \/ log[i].task = cpu[c].rec.task =>
            /\ log[i].ready /\ log[i].nr < cpu[c].rec.nr
            /\ cpu[c].rec.ready => log[i].at <= cpu[c].rec.at

\* What it fills is its own, and the last there is of its CPU and task.
FillOK(c) ==
    /\ cpu[c].slot \in 1..Len(log)
    /\ log[cpu[c].slot].cpu = c /\ log[cpu[c].slot].task \in cpu[c].holds
    /\ ~log[cpu[c].slot].ready
    /\ \A j \in 1..Len(log) :
        j > cpu[c].slot => log[j].cpu # c /\ log[j].task # log[cpu[c].slot].task

Types ==
    /\ attached \in Attachments /\ now \in Nat \ {0} /\ fired \in Nat /\ silent \in Nat
    /\ group \in [Tasks -> Tasks \cup {None}] /\ pidParents \in [Tasks -> Tasks \cup {None}]
    /\ log \in Seq(Records) /\ taken \in Nat /\ taken <= Len(log)
    /\ Len(log) - taken <= RingCap /\ drops \in [Cpus -> Nat]
    /\ DOMAIN cpu = Cpus /\ cpu = [c \in Cpus |-> cpu[c]]
    /\ \A c \in Cpus : cpu[c].stage \in {"idle", "emit", "fill"}

RingOK ==
    /\ Types
    /\ \A c, d \in Cpus : c # d => cpu[c].holds \cap cpu[d].holds = {}
    /\ \A c \in Emitting : EmitOK(c)
    /\ \A c \in Filling : FillOK(c)
    /\ \A i \in 1..Len(log) :
        /\ log[i].nr <= fired /\ log[i].at <= now
        /\ ~log[i].ready => \E c \in Filling : cpu[c].slot = i
    /\ InOrder

\* The three ends of a tracepoint that fires: nothing to report, held back, or a report, of a
\* task and perhaps a child that no other CPU is busy with.
FireEnds(c, t) ==
    \/ UNCHANGED <<cpu, suppressed>> /\ silent' = silent + 1
    \/ /\ UNCHANGED <<cpu, silent>>
       /\ \E l \in Limiters : suppressed' = [suppressed EXCEPT ![l][c] = @ + 1]
    \/ /\ UNCHANGED <<silent, suppressed>>
       /\ \E event \in Events, child \in SUBSET Tasks :
            child \cap Held = {} /\ EmitWith(c, t, event, child)

LEMMA TraceSteps ==
    ASSUME Types, NEW c \in Cpus, NEW t \in Tasks,
           \/ TracePtrace(c, t) \/ TraceSetuid(c, t) \/ TraceSetgid(c, t) \/ TraceCapset(c, t)
           \/ TraceOomKill(c, t) \/ TraceWrite(c, t) \/ TraceExit(c, t)
           \/ \E path \in Paths :
               \/ TraceExec(c, t, path) \/ TraceOpenat(c, t, path)
               \/ TraceOpen(c, t, path) \/ TraceOpenat2(c, t, path)
           \/ \E addr \in Addrs :
               TraceConnect(c, t, addr) \/ TraceBind(c, t, addr) \/ TraceSendto(c, t, addr)
           \/ \E child \in Tasks, thread \in BOOLEAN : TraceFork(c, t, child, thread)
    PROVE  /\ cpu[c] = Idle /\ t \notin Held /\ group[t] \in Tasks /\ fired' = fired + 1
           /\ UNCHANGED <<attached, now, ring>>
           /\ group' \in [Tasks -> Tasks \cup {None}]
           /\ pidParents' \in [Tasks -> Tasks \cup {None}]
           /\ FireEnds(c, t)
<1> DEFINE Goal ==
        /\ cpu[c] = Idle /\ t \notin Held /\ group[t] \in Tasks /\ fired' = fired + 1
        /\ UNCHANGED <<attached, now, ring>>
        /\ group' \in [Tasks -> Tasks \cup {None}]
        /\ pidParents' \in [Tasks -> Tasks \cup {None}]
        /\ FireEnds(c, t)
<1> DEFINE Begun(name) ==
        /\ name \in attached /\ cpu[c] = Idle /\ t \notin Held /\ group[t] \in Tasks
        /\ fired' = fired + 1
        /\ UNCHANGED <<attached, now, ring>>
<1>1. ASSUME NEW name, Fire(name, c, t)
      PROVE  Begun(name)
    BY <1>1 DEF Fire, Types
<1>2. ASSUME NEW event \in Events, Report(c, t, event), UNCHANGED suppressed
      PROVE  FireEnds(c, t)
    <2>1. {} \in SUBSET Tasks /\ {} \cap Held = {}
        OBVIOUS
    <2> QED
        BY <1>2, <2>1 DEF Report, Emit, FireEnds
<1>3. UNCHANGED tasks => /\ group' \in [Tasks -> Tasks \cup {None}]
                         /\ pidParents' \in [Tasks -> Tasks \cup {None}]
    BY DEF Types, tasks
<1> HIDE DEF Begun
<1>4. ASSUME NEW name, NEW event \in Events, Always(name, c, t, event)
      PROVE  Goal
    BY <1>4, <1>1, <1>2, <1>3 DEF Always, Begun, limits
<1>5. \A type \in PlainTypes : PlainEvent(type) \in Events
    BY DEF Events
<1>6. ASSUME \/ TracePtrace(c, t) \/ TraceSetuid(c, t) \/ TraceSetgid(c, t)
             \/ TraceCapset(c, t) \/ TraceOomKill(c, t)
      PROVE  Goal
    <2>1. PICK type \in PlainTypes : Always(type, c, t, PlainEvent(type))
        BY <1>6
        DEF TracePtrace, TraceSetuid, TraceSetgid, TraceCapset, TraceOomKill, PlainTypes
    <2> QED
        BY <2>1, <1>4, <1>5
<1>7. ASSUME NEW l \in Limiters, NEW event \in Events, Sampled(l, c, t, event)
      PROVE  FireEnds(c, t)
    <2>1. \/ Report(c, t, event) /\ UNCHANGED suppressed
          \/ /\ UNCHANGED <<cpu, silent>>
             /\ suppressed' = [suppressed EXCEPT ![l][c] = @ + 1]
        BY <1>7 DEF Sampled
    <2> QED
        BY <2>1, <1>2 DEF FireEnds
<1>8. CASE TraceWrite(c, t)
    <2>1. Begun("write") /\ UNCHANGED tasks /\ Sampled("write", c, t, PlainEvent("write"))
        BY <1>8, <1>1 DEF TraceWrite
    <2>2. PlainEvent("write") \in Events
        BY <1>5 DEF PlainTypes
    <2> QED
        BY <2>1, <2>2, <1>3, <1>7 DEF Begun, Limiters
<1>9. CASE TraceExit(c, t)
    <2>1. Begun("exit") /\ Report(c, t, PlainEvent("exit")) /\ UNCHANGED limits
          /\ group' = [group EXCEPT ![t] = None] /\ pidParents' = pidParents
        BY <1>9, <1>1 DEF TraceExit
    <2>2. PlainEvent("exit") \in Events
        BY <1>5 DEF PlainTypes
    <2>3. /\ group' \in [Tasks -> Tasks \cup {None}]
          /\ pidParents' \in [Tasks -> Tasks \cup {None}]
        BY <2>1 DEF Types
    <2> QED
        BY <2>1, <2>2, <2>3, <1>2 DEF Begun, limits
<1>10. ASSUME NEW path \in Paths
       PROVE  ExecEvent(path) \in Events /\ OpenEvent(path) \in Events
    BY DEF Events
<1>11. ASSUME NEW path \in Paths, TraceExec(c, t, path)
       PROVE  Goal
    BY <1>11, <1>4, <1>10 DEF TraceExec
<1>12. ASSUME NEW path \in Paths, NEW name, FileOpened(name, c, t, path)
       PROVE  Goal
    <2>1. Begun(name) /\ UNCHANGED tasks
        BY <1>12, <1>1 DEF FileOpened
    <2>2. \/ Quiet /\ UNCHANGED limits
          \/ Report(c, t, OpenEvent(path)) /\ UNCHANGED limits
          \/ Sampled("open", c, t, OpenEvent(path))
        BY <1>12 DEF FileOpened
    <2>3. FireEnds(c, t)
        BY <2>2, <1>2, <1>7, <1>10 DEF Quiet, FireEnds, limits, Limiters
    <2> QED
        BY <2>1, <2>3, <1>3 DEF Begun
<1>13. ASSUME NEW addr \in Addrs
       PROVE  /\ AddrEvent("connect", addr, PortFlags(addr)) \in Events
              /\ AddrEvent("bind", addr, {}) \in Events /\ AddrEvent("dns", addr, {}) \in Events
    BY DEF Events
<1>14. ASSUME NEW addr \in Addrs, TraceConnect(c, t, addr) \/ TraceBind(c, t, addr)
       PROVE  Goal
    BY <1>14, <1>4, <1>13 DEF TraceConnect, TraceBind
<1>15. ASSUME NEW addr \in Addrs, TraceSendto(c, t, addr)
       PROVE  Goal
    <2>1. /\ Begun("sendto") /\ UNCHANGED <<tasks, limits>>
          /\ Quiet \/ Report(c, t, AddrEvent("dns", addr, {}))
        BY <1>15, <1>1 DEF TraceSendto
    <2>2. FireEnds(c, t)
        BY <2>1, <1>2, <1>13 DEF Quiet, FireEnds, limits
    <2> QED
        BY <2>1, <2>2, <1>3 DEF Begun
<1>16. ASSUME NEW child \in Tasks, NEW thread \in BOOLEAN, TraceFork(c, t, child, thread)
       PROVE  Goal
    <2>1. /\ Begun("fork") /\ child \notin Held /\ silent' = silent
          /\ EmitWith(c, t, PlainEvent("fork"), {child})
          /\ group' = [group EXCEPT ![child] = IF thread THEN group[t] ELSE child]
          /\ SetParent(child, t) /\ UNCHANGED limits
        BY <1>16, <1>1 DEF TraceFork
    <2>2. PlainEvent("fork") \in Events
        BY <1>5 DEF PlainTypes
    <2>3. group' \in [Tasks -> Tasks \cup {None}]
        BY <2>1 DEF Types
    <2>4. pidParents' = pidParents \/ pidParents' = [pidParents EXCEPT ![child] = t]
        BY <2>1 DEF SetParent
    <2>5. pidParents' \in [Tasks -> Tasks \cup {None}]
        BY <2>4 DEF Types
    <2>6. {child} \in SUBSET Tasks /\ {child} \cap Held = {}
        BY <2>1
    <2> QED
        BY <2>1, <2>2, <2>3, <2>5, <2>6 DEF Begun, limits, FireEnds
<1> QED
    BY <1>6, <1>8, <1>9, <1>11, <1>12, <1>14, <1>15, <1>16
    DEF TraceOpenat, TraceOpen, TraceOpenat2

LEMMA LogTypes ==
    ASSUME log \in Seq(Records)
    PROVE  \A i \in 1..Len(log) : log[i].nr \in Nat /\ log[i].at \in Nat
<1>1. \A i \in 1..Len(log) : log[i] \in Records
    OBVIOUS
<1> QED
    BY <1>1 DEF Records

LEMMA RingInit == Init => RingOK
<1> SUFFICES ASSUME Init PROVE RingOK
    OBVIOUS
<1>1. \A c \in Cpus : cpu[c] = [stage |-> "idle", holds |-> {}]
    BY DEF Init, Idle
<1>2. Emitting = {} /\ Filling = {}
    BY <1>1 DEF Emitting, Filling
<1>3. Len(log) = 0 /\ log \in Seq(Records)
    BY DEF Init
<1>4. Types
    BY <1>1, <1>3, ConstantsAssumption DEF Types, Init
<1> QED
    BY <1>1, <1>2, <1>3, <1>4 DEF RingOK, InOrder

LEMMA ReserveKeepsRing ==
    ASSUME RingOK, NEW c \in Cpus, Reserve(c)
    PROVE  RingOK'
<1> DEFINE rec == cpu[c].rec
           n == Len(log) + 1
<1>1. /\ c \in Emitting /\ EmitOK(c) /\ rec \in Records /\ rec.cpu = c
      /\ rec.task \in cpu[c].holds /\ rec.nr <= fired /\ rec.at <= now
    BY DEF Reserve, Emitting, RingOK, EmitOK
<1>2. /\ log \in Seq(Records) /\ Len(log) \in Nat /\ taken \in Nat /\ taken <= Len(log)
      /\ now \in Nat /\ fired \in Nat
    BY DEF RingOK, Types
<1>3. /\ log' \in Seq(Records) /\ Len(log') = n /\ log'[n] = rec
      /\ \A i \in 1..Len(log) : log'[i] = log[i]
    BY <1>1, <1>2 DEF Reserve
<1>4. 1..Len(log') = 1..Len(log) \cup {n} /\ \A i \in 1..Len(log) : i < n
    BY <1>2, <1>3
<1>5. UNCHANGED <<attached, now, tasks, limits, taken, drops, fired, silent>>
    BY DEF Reserve
<1>6. /\ DOMAIN cpu' = Cpus /\ cpu' = [d \in Cpus |-> cpu'[d]]
      /\ \A d \in Cpus : d # c => cpu'[d] = cpu[d]
      /\ cpu'[c] = IF rec.ready THEN Idle
                   ELSE [stage |-> "fill", holds |-> cpu[c].holds, slot |-> n]
    BY DEF RingOK, Types, Reserve
<1>7. cpu'[c].holds \subseteq cpu[c].holds /\ cpu'[c].stage \in {"idle", "fill"}
    BY <1>6 DEF Idle
<1> HIDE DEF rec, n
<1>8. ASSUME NEW d \in Cpus, d # c
      PROVE  rec.task \notin cpu[d].holds
    BY <1>8, <1>1 DEF RingOK
<1>9. Types'
    <2>1. Len(log) - taken < RingCap /\ RingCap \in Nat
        BY ConstantsAssumption DEF Reserve, Room
    <2>2. taken <= n /\ n - taken <= RingCap
        BY <1>2, <2>1 DEF n
    <2>3. \A d \in Cpus : cpu'[d].stage \in {"idle", "emit", "fill"}
        BY <1>6, <1>7 DEF RingOK, Types
    <2> QED
        BY <1>3, <1>5, <1>6, <2>2, <2>3 DEF RingOK, Types, tasks
<1>10. \A d, e \in Cpus : d # e => cpu'[d].holds \cap cpu'[e].holds = {}
    <2>1. \A d \in Cpus : cpu'[d].holds \subseteq cpu[d].holds
        BY <1>6, <1>7
    <2> QED
        BY <2>1 DEF RingOK
<1>11. ASSUME NEW d \in Emitting'
       PROVE  EmitOK(d)'
    <2>1. d \in Cpus /\ d # c /\ cpu'[d] = cpu[d] /\ d \in Emitting
        BY <1>6, <1>7 DEF Emitting
    <2>2. EmitOK(d)
        BY <2>1 DEF RingOK
    <2>3. /\ cpu[d].rec \in Records /\ cpu[d].rec.cpu = d /\ cpu[d].rec.task \in cpu[d].holds
          /\ cpu[d].rec.nr <= fired /\ cpu[d].rec.at <= now
        BY <2>2 DEF EmitOK
    <2>4. ASSUME NEW i \in 1..Len(log'),
                 log'[i].cpu = d \/ log'[i].task = cpu[d].rec.task
          PROVE  /\ log'[i].ready /\ log'[i].nr < cpu[d].rec.nr
                 /\ cpu[d].rec.ready => log'[i].at <= cpu[d].rec.at
        <3>1. i # n
            BY <2>1, <2>3, <2>4, <1>1, <1>3, <1>8
        <3>2. i \in 1..Len(log) /\ log'[i] = log[i]
            BY <3>1, <1>3, <1>4
        <3> QED
            BY <2>2, <2>4, <3>2 DEF EmitOK
    <2> QED
        BY <1>5, <2>1, <2>3, <2>4 DEF EmitOK
<1>12. ASSUME NEW d \in Filling'
       PROVE  FillOK(d)'
    <2>1. CASE d = c
        <3>1. cpu'[c] = [stage |-> "fill", holds |-> cpu[c].holds, slot |-> n] /\ ~rec.ready
            BY <2>1, <1>6 DEF Filling, Idle
        <3>2. n \in 1..Len(log') /\ \A j \in 1..Len(log') : ~(j > n)
            BY <1>2, <1>4 DEF n
        <3> QED
            BY <2>1, <3>1, <3>2, <1>1, <1>3 DEF FillOK
    <2>2. CASE d # c
        <3>1. d \in Cpus /\ cpu'[d] = cpu[d] /\ d \in Filling
            BY <2>2, <1>6 DEF Filling
        <3>2. FillOK(d)
            BY <3>1 DEF RingOK
        <3> DEFINE s == cpu[d].slot
        <3>3. s \in 1..Len(log) /\ log'[s] = log[s] /\ s \in 1..Len(log')
            BY <3>2, <1>3, <1>4 DEF FillOK
        <3>4. ASSUME NEW j \in 1..Len(log'), j > s
              PROVE  log'[j].cpu # d /\ log'[j].task # log[s].task
            <4>1. CASE j = n
                BY <4>1, <1>1, <1>3, <1>8, <2>2, <3>1, <3>2 DEF FillOK
            <4>2. CASE j \in 1..Len(log)
                BY <4>2, <1>3, <3>2, <3>4 DEF FillOK
            <4> QED
                BY <4>1, <4>2, <1>4
        <3> QED
            BY <3>1, <3>2, <3>3, <3>4 DEF FillOK
    <2> QED
        BY <2>1, <2>2
<1>13. ASSUME NEW i \in 1..Len(log')
       PROVE  /\ log'[i].nr <= fired /\ log'[i].at <= now
              /\ ~log'[i].ready => \E d \in Filling' : cpu'[d].slot = i
    <2>1. CASE i = n
        <3>1. ~rec.ready => c \in Filling' /\ cpu'[c].slot = n
            BY <1>6 DEF Filling
        <3> QED
            BY <2>1, <3>1, <1>1, <1>3
    <2>2. CASE i \in 1..Len(log)
        <3>1. /\ log[i].nr <= fired /\ log[i].at <= now
              /\ ~log[i].ready => \E d \in Filling : cpu[d].slot = i
            BY <2>2 DEF RingOK
        <3>2. c \notin Filling
            BY <1>1 DEF Emitting, Filling
        <3>3. \A d \in Filling : d \in Filling' /\ cpu'[d] = cpu[d]
            BY <1>6, <3>2 DEF Filling
        <3> QED
            BY <2>2, <3>1, <3>3, <1>3
    <2> QED
        BY <2>1, <2>2, <1>4
<1>14. InOrder'
    <2>1. ASSUME NEW i \in 1..Len(log'), NEW j \in 1..Len(log'),
                 i < j, log'[i].cpu = log'[j].cpu \/ log'[i].task = log'[j].task
          PROVE  /\ log'[i].nr < log'[j].nr
                 /\ log'[i].ready /\ log'[j].ready => log'[i].at <= log'[j].at
        <3>1. i \in 1..Len(log) /\ log'[i] = log[i]
            BY <2>1, <1>2, <1>3, <1>4 DEF n
        <3>2. CASE j = n
            BY <3>1, <3>2, <2>1, <1>1, <1>3 DEF EmitOK, rec
        <3>3. CASE j \in 1..Len(log)
            BY <3>1, <3>3, <2>1, <1>3 DEF RingOK, InOrder
        <3> QED
            BY <3>2, <3>3, <1>4
    <2> QED
        BY <2>1 DEF InOrder
<1> QED
    BY <1>5, <1>9, <1>10, <1>11, <1>12, <1>13, <1>14 DEF RingOK

LEMMA DropKeepsRing ==
    ASSUME RingOK, NEW c \in Cpus, Drop(c)
    PROVE  RingOK'
<1>1. UNCHANGED <<attached, now, tasks, limits, log, taken, fired, silent>>
    BY DEF Drop
<1>2. /\ DOMAIN cpu' = Cpus /\ cpu' = [d \in Cpus |-> cpu'[d]]
      /\ \A d \in Cpus : d # c => cpu'[d] = cpu[d]
      /\ cpu'[c] = Idle
    BY DEF RingOK, Types, Drop
<1>3. drops' \in [Cpus -> Nat]
    BY DEF RingOK, Types, Drop
<1>4. cpu'[c].stage = "idle" /\ cpu'[c].holds = {}
    BY <1>2 DEF Idle
<1>5. Types'
    BY <1>1, <1>2, <1>3, <1>4 DEF RingOK, Types, tasks
<1>6. Filling' = Filling /\ Emitting' = Emitting \ {c}
    BY <1>2, <1>4 DEF Filling, Emitting, Drop
<1>7. \A d \in Emitting' \cup Filling' : d # c /\ cpu'[d] = cpu[d] /\ d \in Cpus
    BY <1>2, <1>4 DEF Filling, Emitting
<1>8. \A d, e \in Cpus : d # e => cpu'[d].holds \cap cpu'[e].holds = {}
    BY <1>2, <1>4 DEF RingOK
<1>9. \A d \in Emitting' : EmitOK(d)'
    BY <1>1, <1>6, <1>7 DEF RingOK, EmitOK
<1>10. \A d \in Filling' : FillOK(d)'
    BY <1>1, <1>6, <1>7 DEF RingOK, FillOK
<1>11. \A i \in 1..Len(log') :
        /\ log'[i].nr <= fired' /\ log'[i].at <= now'
        /\ ~log'[i].ready => \E d \in Filling' : cpu'[d].slot = i
    BY <1>1, <1>6, <1>7 DEF RingOK
<1>12. InOrder'
    BY <1>1 DEF RingOK, InOrder
<1> QED
    BY <1>5, <1>8, <1>9, <1>10, <1>11, <1>12 DEF RingOK

LEMMA SubmitKeepsRing ==
    ASSUME RingOK, NEW c \in Cpus, Submit(c)
    PROVE  RingOK'
<1> DEFINE s == cpu[c].slot
           new == [Header(log[s]) EXCEPT !.ready = TRUE]
<1>1. /\ c \in Filling /\ FillOK(c) /\ s \in 1..Len(log) /\ log[s].cpu = c
      /\ log[s].task \in cpu[c].holds
    BY DEF Submit, Filling, RingOK, FillOK
<1>2. /\ log \in Seq(Records) /\ Len(log) \in Nat /\ now \in Nat /\ fired \in Nat
      /\ pidParents \in [Tasks -> Tasks \cup {None}]
      /\ \A i \in 1..Len(log) : log[i] \in Records
    BY DEF RingOK, Types
<1>3. /\ new \in Records /\ new.cpu = c /\ new.task = log[s].task /\ new.nr = log[s].nr
      /\ new.at = now /\ new.ready = TRUE
    <2>1. log[s].pid \in Tasks /\ LookupPpid(log[s].pid) \in Tasks \cup {None}
        BY <1>1, <1>2 DEF Records, LookupPpid
    <2>2. new = [log[s] EXCEPT !.at = now, !.ppid = LookupPpid(log[s].pid), !.ready = TRUE]
        BY DEF Header
    <2> HIDE DEF new, s
    <2> QED
        BY <1>1, <1>2, <2>1, <2>2 DEF Records
<1>4. log' = [log EXCEPT ![s] = new]
    BY DEF Submit
<1> HIDE DEF new
<1>5. /\ log' \in Seq(Records) /\ Len(log') = Len(log) /\ log'[s] = new
      /\ \A i \in 1..Len(log) : i # s => log'[i] = log[i]
      /\ \A i \in 1..Len(log) : /\ log'[i].cpu = log[i].cpu /\ log'[i].task = log[i].task
                                /\ log'[i].nr = log[i].nr
    BY <1>1, <1>2, <1>3, <1>4
<1>6. UNCHANGED <<attached, now, tasks, limits, taken, drops, fired, silent>>
    BY DEF Submit
<1>7. /\ DOMAIN cpu' = Cpus /\ cpu' = [d \in Cpus |-> cpu'[d]]
      /\ \A d \in Cpus : d # c => cpu'[d] = cpu[d]
      /\ cpu'[c] = Idle
    BY DEF RingOK, Types, Submit
<1>8. cpu'[c].stage = "idle" /\ cpu'[c].holds = {}
    BY <1>7 DEF Idle
<1> HIDE DEF s
<1>9. Types'
    BY <1>5, <1>6, <1>7, <1>8 DEF RingOK, Types, tasks
<1>10. Emitting' = Emitting /\ Filling' = Filling \ {c}
    BY <1>1, <1>7, <1>8 DEF Filling, Emitting
<1>11. \A d \in Emitting' \cup Filling' :
         d # c /\ cpu'[d] = cpu[d] /\ d \in Cpus /\ log[s].task \notin cpu[d].holds
    BY <1>1, <1>7, <1>8 DEF Filling, Emitting, RingOK
<1>12. \A d, e \in Cpus : d # e => cpu'[d].holds \cap cpu'[e].holds = {}
    BY <1>7, <1>8 DEF RingOK
<1>13. ASSUME NEW d \in Emitting'
       PROVE  EmitOK(d)'
    <2>1. EmitOK(d) /\ cpu'[d] = cpu[d] /\ d # c /\ log[s].task \notin cpu[d].holds
        BY <1>10, <1>11 DEF RingOK
    <2>2. ASSUME NEW i \in 1..Len(log'), log'[i].cpu = d \/ log'[i].task = cpu[d].rec.task
          PROVE  i # s /\ log'[i] = log[i]
        BY <2>1, <2>2, <1>1, <1>5 DEF EmitOK
    <2> QED
        BY <1>5, <1>6, <2>1, <2>2 DEF EmitOK
<1>14. ASSUME NEW d \in Filling'
       PROVE  FillOK(d)'
    <2>1. FillOK(d) /\ cpu'[d] = cpu[d] /\ d # c
        BY <1>10, <1>11 DEF RingOK
    <2>2. cpu[d].slot # s
        BY <2>1, <1>1 DEF FillOK
    <2> QED
        BY <1>5, <2>1, <2>2 DEF FillOK
<1>15. ASSUME NEW i \in 1..Len(log')
       PROVE  /\ log'[i].nr <= fired' /\ log'[i].at <= now'
              /\ ~log'[i].ready => \E d \in Filling' : cpu'[d].slot = i
    <2>1. CASE i = s
        BY <2>1, <1>1, <1>2, <1>3, <1>5, <1>6 DEF RingOK
    <2>2. CASE i # s
        <3>1. log'[i] = log[i] /\ i \in 1..Len(log)
            BY <2>2, <1>5
        <3>2. \A d \in Filling : cpu[d].slot = i => d \in Filling'
            BY <2>2, <1>10 DEF s
        <3> QED
            BY <3>1, <3>2, <1>6, <1>11 DEF RingOK
    <2> QED
        BY <2>1, <2>2
<1>16. InOrder'
    <2>1. ASSUME NEW i \in 1..Len(log'), NEW j \in 1..Len(log'),
                 i < j, log'[i].cpu = log'[j].cpu \/ log'[i].task = log'[j].task
          PROVE  /\ log'[i].nr < log'[j].nr
                 /\ log'[i].ready /\ log'[j].ready => log'[i].at <= log'[j].at
        <3>1. /\ i \in 1..Len(log) /\ j \in 1..Len(log)
              /\ log[i].cpu = log[j].cpu \/ log[i].task = log[j].task
            BY <2>1, <1>5
        <3>2. log'[i].nr < log'[j].nr
            BY <3>1, <2>1, <1>5 DEF RingOK, InOrder
        <3>3. i # s
            BY <2>1, <3>1, <1>1 DEF FillOK, s
        <3>4. log'[i] = log[i]
            BY <3>1, <3>3, <1>5
        <3>5. CASE j = s
            BY <3>1, <3>2, <3>4, <3>5, <1>3, <1>5 DEF RingOK
        <3>6. CASE j # s
            <4>1. log'[j] = log[j]
                BY <3>1, <3>6, <1>5
            <4> QED
                BY <2>1, <3>1, <3>4, <4>1 DEF RingOK, InOrder
        <3> QED
            BY <3>2, <3>5, <3>6
    <2> QED
        BY <2>1 DEF InOrder
<1> QED
    BY <1>9, <1>12, <1>13, <1>14, <1>15, <1>16 DEF RingOK

LEMMA ReportKeepsRing ==
    ASSUME RingOK, NEW c \in Cpus, NEW t \in Tasks, NEW event \in Events,
           NEW child \in SUBSET Tasks, EmitWith(c, t, event, child),
           child \cap Held = {}, t \notin Held, cpu[c] = Idle, group[t] \in Tasks,
           fired' = fired + 1, UNCHANGED <<attached, now, ring>>, Types'
    PROVE  RingOK'
<1> DEFINE rec == Record(c, t, event)
<1>1. /\ now \in Nat /\ fired \in Nat /\ log \in Seq(Records)
      /\ pidParents \in [Tasks -> Tasks \cup {None}]
      /\ \A i \in 1..Len(log) : log[i].nr \in Nat /\ log[i].at \in Nat
    BY LogTypes DEF RingOK, Types
<1>2. /\ rec \in Records /\ rec.cpu = c /\ rec.task = t /\ rec.nr = fired + 1
      /\ rec.at <= now
      /\ rec.ready => rec.at = now
    <2> DEFINE raw == [event |-> event, cpu |-> c, task |-> t, pid |-> group[t],
                       nr |-> fired + 1, at |-> 0, ppid |-> None, ready |-> FALSE]
    <2>1. raw \in Records
        BY <1>1 DEF Records
    <2>2. pidParents[group[t]] \in Tasks \cup {None}
        BY <1>1
    <2> DEFINE new == [Header(raw) EXCEPT !.ready = TRUE]
    <2>3. new = [raw EXCEPT !.at = now, !.ppid = pidParents[group[t]], !.ready = TRUE]
        BY DEF Header, LookupPpid
    <2>4. /\ raw.cpu = c /\ raw.task = t /\ raw.nr = fired + 1 /\ raw.at = 0
          /\ raw.ready = FALSE
        OBVIOUS
    <2> HIDE DEF raw, new
    <2>8. /\ new \in Records /\ new.cpu = c /\ new.task = t /\ new.nr = fired + 1
          /\ new.at = now
        BY <1>1, <2>1, <2>2, <2>3, <2>4 DEF Records
    <2>5. CASE OnStack(event)
        <3>1. rec = new
            BY <2>5 DEF Record, raw, new
        <3> QED
            BY <1>1, <2>8, <3>1
    <2>6. CASE ~OnStack(event)
        <3>1. rec = raw
            BY <2>6 DEF Record, raw
        <3> QED
            BY <1>1, <2>1, <2>4, <3>1
    <2> QED
        BY <2>5, <2>6
<1>3. /\ \A d \in Cpus : d # c => cpu'[d] = cpu[d]
      /\ cpu'[c] = [stage |-> "emit", holds |-> {t} \cup child, rec |-> rec]
    BY DEF RingOK, Types, EmitWith
<1> HIDE DEF rec
<1>4. cpu'[c].stage = "emit" /\ cpu'[c].holds = {t} \cup child /\ cpu'[c].rec = rec
    BY <1>3
<1>5. log' = log /\ now' = now /\ taken' = taken
    BY DEF ring
<1>6. Emitting' = Emitting \cup {c} /\ Filling' = Filling /\ c \notin Emitting /\ c \notin Filling
    BY <1>3, <1>4 DEF Emitting, Filling, Idle
<1>7. \A d \in Emitting \cup Filling : d # c /\ d \in Cpus /\ cpu'[d] = cpu[d]
    BY <1>3, <1>6 DEF Emitting, Filling
<1>8. \A d \in Cpus : cpu[d].holds \subseteq Held
    BY DEF Held
<1>9. \A d, e \in Cpus : d # e => cpu'[d].holds \cap cpu'[e].holds = {}
    BY <1>3, <1>4, <1>8 DEF RingOK
<1>10. ASSUME NEW d \in Emitting'
       PROVE  EmitOK(d)'
    <2>1. CASE d = c
        <3>1. ASSUME NEW i \in 1..Len(log), log[i].cpu = c \/ log[i].task = t
              PROVE  log[i].ready
            <4>1. ASSUME NEW e \in Filling, cpu[e].slot = i
                  PROVE  FALSE
                <5>1. log[i].cpu = e /\ log[i].task \in cpu[e].holds /\ e # c /\ e \in Cpus
                    BY <4>1, <1>7 DEF RingOK, FillOK
                <5> QED
                    BY <5>1, <3>1, <1>8
            <4> QED
                BY <4>1 DEF RingOK
        <3>2. \A i \in 1..Len(log) : log[i].nr < rec.nr
            BY <1>1, <1>2 DEF RingOK
        <3>3. \A i \in 1..Len(log) : log[i].at <= now
            BY DEF RingOK
        <3>4. rec.ready => \A i \in 1..Len(log) : log[i].at <= rec.at
            <4> SUFFICES ASSUME rec.ready
                         PROVE  \A i \in 1..Len(log) : log[i].at <= rec.at
                OBVIOUS
            <4>1. rec.at = now
                BY <1>2
            <4> QED
                BY <3>3, <4>1
        <3>5. fired' = fired + 1 /\ now' = now
            BY <1>5
        <3>6. rec.nr <= fired' /\ rec.at <= now'
            BY <1>1, <1>2, <3>5
        <3>7. \A i \in 1..Len(log) :
                 log[i].cpu = c \/ log[i].task = rec.task =>
                     /\ log[i].ready /\ log[i].nr < rec.nr
                     /\ rec.ready => log[i].at <= rec.at
            BY <3>1, <3>2, <3>4, <1>2, Zenon
        <3>8. rec \in Records /\ rec.cpu = c /\ rec.task \in cpu'[c].holds
            BY <1>2, <1>4
        <3> QED
            BY <2>1, <3>6, <3>7, <3>8, <1>4, <1>5 DEF EmitOK
    <2>2. CASE d # c
        <3>1. d \in Emitting /\ EmitOK(d) /\ cpu'[d] = cpu[d]
            BY <2>2, <1>6, <1>7 DEF RingOK
        <3>2. cpu[d].rec.nr \in Nat
            BY <3>1 DEF EmitOK, Records
        <3> QED
            BY <3>1, <3>2, <1>1, <1>5 DEF EmitOK
    <2> QED
        BY <2>1, <2>2
<1>11. \A d \in Filling' : FillOK(d)'
    BY <1>5, <1>6, <1>7 DEF RingOK, FillOK
<1>12. \A i \in 1..Len(log') :
        /\ log'[i].nr <= fired' /\ log'[i].at <= now'
        /\ ~log'[i].ready => \E d \in Filling' : cpu'[d].slot = i
    BY SMTT(30), <1>1, <1>5, <1>6, <1>7 DEF RingOK
<1>13. InOrder'
    BY <1>5 DEF RingOK, InOrder
<1> QED
    BY <1>9, <1>10, <1>11, <1>12, <1>13 DEF RingOK

\* Neither the CPUs nor the ring buffer change: what is true of them stays true.
LEMMA OthersKeepRing ==
    ASSUME RingOK, UNCHANGED <<cpu, log>>, Types',
           fired' = fired \/ fired' = fired + 1, now' = now \/ now' = now + 1
    PROVE  RingOK'
<1>1. /\ now \in Nat /\ fired \in Nat
      /\ \A i \in 1..Len(log) : log[i].nr \in Nat /\ log[i].at \in Nat
    BY LogTypes DEF RingOK, Types
<1>2. Emitting' = Emitting /\ Filling' = Filling
    BY DEF Emitting, Filling
<1>3. \A d \in Emitting' : EmitOK(d)'
    <2>1. \A d \in Emitting : EmitOK(d) /\ cpu[d].rec.nr \in Nat /\ cpu[d].rec.at \in Nat
        BY DEF RingOK, EmitOK, Records
    <2> QED
        BY <1>1, <1>2, <2>1 DEF EmitOK
<1>4. \A d \in Filling' : FillOK(d)'
    BY <1>2 DEF RingOK, FillOK
<1>5. \A i \in 1..Len(log') :
        /\ log'[i].nr <= fired' /\ log'[i].at <= now'
        /\ ~log'[i].ready => \E d \in Filling' : cpu'[d].slot = i
    BY <1>1, <1>2 DEF RingOK
<1>6. InOrder'
    BY DEF RingOK, InOrder
<1>7. \A d, e \in Cpus : d # e => cpu'[d].holds \cap cpu'[e].holds = {}
    BY DEF RingOK
<1> QED
    BY <1>3, <1>4, <1>5, <1>6, <1>7 DEF RingOK

LEMMA RingStep == RingOK /\ [Next]_vars => RingOK'
<1> SUFFICES ASSUME RingOK, [Next]_vars
             PROVE  RingOK'
    OBVIOUS
<1>1. now \in Nat \ {0} /\ fired \in Nat /\ silent \in Nat /\ taken \in Nat /\ Len(log) \in Nat
    BY DEF RingOK, Types
<1>2. CASE UNCHANGED vars
    <2>1. Types'
        BY <1>2 DEF RingOK, Types, vars, tasks, ring
    <2> QED
        BY <1>2, <2>1, OthersKeepRing DEF vars, ring
<1>3. CASE Read
    <2>1. taken' = taken + 1 /\ taken < Len(log)
          /\ UNCHANGED <<attached, now, tasks, limits, cpu, log, drops, fired, silent>>
        BY <1>3, Zenon DEF Read
    <2>2. taken' \in Nat /\ taken' <= Len(log) /\ Len(log) - taken' <= RingCap
        BY <1>1, <2>1, ConstantsAssumption DEF RingOK, Types
    <2>3. Types'
        BY <2>1, <2>2 DEF RingOK, Types, tasks
    <2> QED
        BY <2>1, <2>3, OthersKeepRing
<1>4. CASE Tick
    <2>1. now' = now + 1 /\ UNCHANGED <<attached, tasks, limits, cpu, ring, fired, silent>>
        BY <1>4 DEF Tick
    <2>2. Types'
        BY <1>1, <2>1 DEF RingOK, Types, tasks, ring
    <2> QED
        BY <2>1, <2>2, OthersKeepRing DEF ring
<1>5. ASSUME NEW c \in Cpus, NEW t \in Tasks,
             cpu[c] = Idle, t \notin Held, group[t] \in Tasks, fired' = fired + 1,
             UNCHANGED <<attached, now, ring>>,
             group' \in [Tasks -> Tasks \cup {None}],
             pidParents' \in [Tasks -> Tasks \cup {None}],
             FireEnds(c, t)
      PROVE  RingOK'
    <2>0. silent' \in Nat
        BY <1>1, <1>5 DEF FireEnds
    <2>1. CASE cpu' = cpu
        <3>1. Types'
            BY <2>0, <1>1, <1>5, <2>1 DEF RingOK, Types, ring
        <3> QED
            BY <1>5, <2>1, <3>1, OthersKeepRing DEF ring
    <2>2. ASSUME NEW event \in Events, NEW child \in SUBSET Tasks,
                 child \cap Held = {}, EmitWith(c, t, event, child)
          PROVE  RingOK'
        <3>1. /\ DOMAIN cpu' = Cpus /\ cpu' = [d \in Cpus |-> cpu'[d]]
              /\ \A d \in Cpus : cpu'[d].stage \in {"idle", "emit", "fill"}
            BY <2>2 DEF RingOK, Types, EmitWith
        <3>2. Types'
            BY <2>0, <1>1, <1>5, <3>1 DEF RingOK, Types, ring
        <3> QED
            BY <1>5, <2>2, <3>2, ReportKeepsRing
    <2> QED
        BY <1>5, <2>1, <2>2 DEF FireEnds
<1>6. ASSUME NEW c \in Cpus, Reserve(c) \/ Drop(c) \/ Submit(c)
      PROVE  RingOK'
    BY <1>6, ReserveKeepsRing, DropKeepsRing, SubmitKeepsRing
<1>7. ASSUME NEW c \in Cpus, NEW t \in Tasks,
             \/ TracePtrace(c, t) \/ TraceSetuid(c, t) \/ TraceSetgid(c, t)
             \/ TraceCapset(c, t) \/ TraceOomKill(c, t) \/ TraceWrite(c, t)
             \/ TraceExit(c, t)
             \/ \E path \in Paths :
                 \/ TraceExec(c, t, path) \/ TraceOpenat(c, t, path)
                 \/ TraceOpen(c, t, path) \/ TraceOpenat2(c, t, path)
             \/ \E addr \in Addrs :
                 TraceConnect(c, t, addr) \/ TraceBind(c, t, addr) \/ TraceSendto(c, t, addr)
             \/ \E child \in Tasks, thread \in BOOLEAN : TraceFork(c, t, child, thread)
      PROVE  RingOK'
    <2>1. Types
        BY DEF RingOK
    <2> QED
        BY <1>5, <1>7, <2>1, TraceSteps
<1> QED
    BY <1>2, <1>3, <1>4, <1>6, <1>7 DEF Next

\* InOrder for every number of CPUs and size of the ring buffer.
THEOREM RecordsInOrder == Spec => []InOrder
<1>1. RingOK => InOrder
    BY DEF RingOK
<1> QED
    BY <1>1, RingInit, RingStep, PTL DEF Spec

\* TypeOK, with the limits of the counters, the bound of the ring buffer and the record
\* each CPU fills.
THEOREM TypeCorrect == Spec => []TypeOK
<1>1. RingOK /\ LimitersOK => TypeOK
    <2> SUFFICES ASSUME RingOK, LimitersOK
                 PROVE  TypeOK
        OBVIOUS
    <2>1. ASSUME NEW l \in Limiters, NEW c \in Cpus
          PROVE  /\ rl[l][c].window \in 0..now /\ rl[l][c].count \in 0..Limit[l]
                 /\ suppressed[l][c] \in Nat
        <3>1. /\ LimiterOK(rl[l][c], admitted[l][c], Limit[l], now)
              /\ now \in Nat /\ Limit[l] \in Nat
            BY ConstantsAssumption DEF LimitersOK
        <3>2. /\ rl[l][c].window \in Nat /\ rl[l][c].count \in Nat
              /\ rl[l][c].window <= now /\ rl[l][c].count <= Limit[l]
            BY <3>1 DEF LimiterOK
        <3> QED
            BY <3>1, <3>2 DEF LimitersOK
    <2>2. taken \in 0..Len(log)
        BY DEF RingOK, Types
    <2>3. ASSUME NEW i \in 1..Len(log)
          PROVE  ~log[i].ready <=> \E c \in Filling : cpu[c].slot = i /\ log[i].cpu = c
        BY DEF RingOK, FillOK
    <2> QED
        BY <2>1, <2>2, <2>3 DEF TypeOK, RingOK, Types
<1> QED
    BY <1>1, RingInit, RingStep, LimitersInit, LimitersStep, PTL DEF Spec

-----------------------------------------------------------------------------
(* What the records say. *)

\* The facts FlagsExact states of a record's event hold of whatever a program can report.
LEMMA EventsExact ==
    ASSUME NEW e \in Events
    PROVE  /\ e.type = "exec" /\ e.arg.length <= 126 =>
                ("sudo" \in e.flags <=> e.arg.length - 5 \in e.arg.sudo)
           /\ e.type = "openat" => ("tmp" \in e.flags <=> e.arg.tmp)
           /\ e.type \in {"connect", "bind", "dns"} =>
                /\ e.version # 0 => e.port = e.arg.port
                /\ "port" \in e.flags <=>
                      e.type = "connect" /\ e.version # 0 /\ e.arg.port \in Suspicious
<1>1. ASSUME NEW type \in PlainTypes, e = PlainEvent(type)
      PROVE  e.type \notin {"exec", "openat", "connect", "bind", "dns"}
    BY <1>1 DEF PlainTypes, PlainEvent, Event
<1>2. ASSUME NEW path \in Paths, e = ExecEvent(path)
      PROVE  /\ e.type = "exec"
             /\ e.arg.length <= 126 => ("sudo" \in e.flags <=> e.arg.length - 5 \in e.arg.sudo)
    <2>1. e.type = "exec" /\ e.arg = path
        BY <1>2 DEF ExecEvent, Event
    <2>2. path.length \in Nat /\ path.sudo \subseteq Nat
        BY ConstantsAssumption
    <2>3. CASE ~path.readable
        <3>1. e.flags = {} /\ path.sudo = {}
            BY <1>2, <2>3, ConstantsAssumption DEF ExecEvent, Event, Unreadable
        <3> QED
            BY <2>1, <3>1
    <2>4. ASSUME path.readable, path.length <= 126
          PROVE  "sudo" \in e.flags <=> path.length - 5 \in path.sudo
        <3>1. ReadUserStr(path, 127) = path.length + 1
            BY <2>2, <2>4 DEF ReadUserStr
        <3>2. e.flags = IF EndsInSudo(path, path.length + 1) THEN {"sudo"} ELSE {}
            BY <1>2, <2>4, <3>1 DEF ExecEvent, Event
        <3>3. EndsInSudo(path, path.length + 1) <=> path.length - 5 \in path.sudo
            <4>1. (path.length + 1) - 6 = path.length - 5
                BY <2>2
            <4>2. path.length - 5 \in path.sudo => path.length - 5 \in Nat
                BY <2>2
            <4>3. path.length - 5 \in Nat => path.length + 1 >= 6
                BY <2>2
            <4> QED
                BY <4>1, <4>2, <4>3 DEF EndsInSudo
        <3> QED
            BY <3>2, <3>3
    <2> QED
        BY <2>1, <2>3, <2>4
<1>3. ASSUME NEW path \in Paths, e = OpenEvent(path)
      PROVE  e.type = "openat" /\ ("tmp" \in e.flags <=> e.arg.tmp)
    <2>1. /\ e.type = "openat" /\ e.arg = path
          /\ e.flags = IF path.tmp THEN {"tmp"} ELSE {}
        BY <1>3 DEF OpenEvent, Event, ClassifyPathFlags
    <2>2. path.tmp \in BOOLEAN
        BY ConstantsAssumption
    <2> QED
        BY <2>1, <2>2
<1>4. ASSUME NEW addr \in Addrs, NEW type \in {"connect", "bind", "dns"},
             e = AddrEvent(type, addr, IF type = "connect" THEN PortFlags(addr) ELSE {})
      PROVE  /\ e.type = type
             /\ e.version # 0 => e.port = e.arg.port
             /\ "port" \in e.flags <=>
                   e.type = "connect" /\ e.version # 0 /\ e.arg.port \in Suspicious
    <2>1. CASE Parsed(addr)
        <3>1. addr.family # 0
            BY <2>1 DEF Parsed
        <3> QED
            BY <1>4, <2>1, <3>1 DEF AddrEvent, Event, PortFlags, IsSuspiciousPort
    <2>2. CASE ~Parsed(addr)
        BY <1>4, <2>2 DEF AddrEvent, Event, PortFlags
    <2> QED
        BY <2>1, <2>2
<1>5. \/ \E type \in PlainTypes : e = PlainEvent(type)
      \/ \E path \in Paths : e = ExecEvent(path) \/ e = OpenEvent(path)
      \/ \E addr \in Addrs, type \in {"connect", "bind", "dns"} :
            e = AddrEvent(type, addr, IF type = "connect" THEN PortFlags(addr) ELSE {})
    BY DEF Events
<1> QED
    BY <1>1, <1>2, <1>3, <1>4, <1>5

\* FlagsExact, for every set of paths and addresses.
THEOREM FlagsAreExact == Spec => []FlagsExact
<1>1. RingOK => FlagsExact
    <2> SUFFICES ASSUME RingOK PROVE FlagsExact
        OBVIOUS
    <2>1. \A i \in 1..Len(log) : log[i] \in Records
        BY DEF RingOK, Types
    <2>2. \A i \in 1..Len(log) : log[i].event \in Events
        BY <2>1 DEF Records
    <2> QED
        BY <2>2, EventsExact DEF FlagsExact
<1> QED
    BY <1>1, RingInit, RingStep, PTL DEF Spec

-----------------------------------------------------------------------------
(* The accounts. *)

\* What is counted by unfolding can be counted: none of it is infinite.
Countable ==
    /\ IsFiniteSet(Emitting) /\ IsFiniteSet(Unfolded(drops))
    /\ \A l \in Limiters : IsFiniteSet(Unfolded(suppressed[l]))

AccountsOK == RingOK /\ LimitersOK /\ Countable /\ Accounted

\* One more in the counter of a CPU is one member more.
LEMMA OneMore ==
    ASSUME NEW count \in [Cpus -> Nat], NEW c \in Cpus, IsFiniteSet(Unfolded(count))
    PROVE  LET new == Unfolded([count EXCEPT ![c] = @ + 1]) IN
           IsFiniteSet(new) /\ Cardinality(new) = Cardinality(Unfolded(count)) + 1
<1> DEFINE next == [count EXCEPT ![c] = @ + 1]
           p == <<c, count[c] + 1>>
<1>1. \A f, q : q \in Unfolded(f) <=> \E d \in Cpus : \E n \in 1..f[d] : q = <<d, n>>
    BY DEF Unfolded
<1>2. /\ next[c] = count[c] + 1 /\ count[c] \in Nat
      /\ \A d \in Cpus : d # c => next[d] = count[d]
    OBVIOUS
<1> HIDE DEF next
<1>3. 1..next[c] = (1..count[c]) \cup {count[c] + 1} /\ count[c] + 1 \notin 1..count[c]
    BY <1>2
<1>4. Unfolded(next) = Unfolded(count) \cup {p} /\ p \notin Unfolded(count)
    <2>1. ASSUME NEW q \in Unfolded(next)
          PROVE  q \in Unfolded(count) \cup {p}
        <3>0. PICK d \in Cpus : \E n \in 1..next[d] : q = <<d, n>>
            BY <1>1
        <3>1. PICK n \in 1..next[d] : q = <<d, n>>
            BY <3>0
        <3>2. CASE d = c
            BY <3>1, <3>2, <1>1, <1>3
        <3>3. CASE d # c
            BY <3>1, <3>3, <1>1, <1>2
        <3> QED
            BY <3>2, <3>3
    <2>2. ASSUME NEW q \in Unfolded(count)
          PROVE  q \in Unfolded(next)
        <3>0. PICK d \in Cpus : \E n \in 1..count[d] : q = <<d, n>>
            BY <1>1
        <3>1. PICK n \in 1..count[d] : q = <<d, n>>
            BY <3>0
        <3>2. n \in 1..next[d]
            BY <1>2, <1>3
        <3> QED
            BY <3>1, <3>2, <1>1
    <2>3. p \in Unfolded(next)
        BY <1>1, <1>3
    <2>4. p \notin Unfolded(count)
        BY <1>1, <1>3
    <2> QED
        BY <2>1, <2>2, <2>3, <2>4
<1>5. /\ IsFiniteSet(Unfolded(count) \cup {p})
      /\ Cardinality(Unfolded(count) \cup {p}) = Cardinality(Unfolded(count)) + 1
    BY <1>4, FS_AddElement
<1> QED
    BY <1>4, <1>5 DEF next

LEMMA AccountsInit == Init => Countable /\ Accounted
<1> SUFFICES ASSUME Init PROVE Countable /\ Accounted
    OBVIOUS
<1>1. Emitting = {}
    BY DEF Init, Emitting, Idle
<1>2. Unfolded(drops) = {} /\ \A l \in Limiters : Unfolded(suppressed[l]) = {}
    BY DEF Init, Unfolded
<1>3. Len(log) = 0 /\ fired = 0 /\ silent = 0
    BY DEF Init
<1>4. Unfolded(suppressed["open"]) = {} /\ Unfolded(suppressed["write"]) = {}
    BY <1>2 DEF Limiters
<1>5. IsFiniteSet({}) /\ Cardinality({}) = 0
    BY FS_EmptySet
<1>6. Countable
    BY <1>1, <1>2, <1>5 DEF Countable
<1>7. fired = Len(log) + 0 + silent + 0 + 0 + 0
    BY <1>3
<1> QED
    BY <1>1, <1>2, <1>4, <1>5, <1>6, <1>7 DEF Accounted

LEMMA AccountsStep == AccountsOK /\ [Next]_vars => Countable' /\ Accounted'
<1> SUFFICES ASSUME AccountsOK, [Next]_vars
             PROVE  Countable' /\ Accounted'
    OBVIOUS
<1> DEFINE N(count) == Cardinality(Unfolded(count))
<1>1. /\ fired \in Nat /\ silent \in Nat /\ log \in Seq(Records) /\ Len(log) \in Nat
      /\ Cardinality(Emitting) \in Nat /\ N(drops) \in Nat
      /\ \A l \in Limiters : N(suppressed[l]) \in Nat
    BY FS_CardinalityType DEF AccountsOK, RingOK, Types, Countable
<1>2. /\ IsFiniteSet(Emitting) /\ IsFiniteSet(Unfolded(drops))
      /\ \A l \in Limiters : IsFiniteSet(Unfolded(suppressed[l]))
      /\ drops \in [Cpus -> Nat] /\ suppressed \in [Limiters -> [Cpus -> Nat]]
    BY DEF AccountsOK, Countable, RingOK, LimitersOK, Types
<1>3. fired = Len(log) + N(drops) + silent + Cardinality(Emitting)
                + N(suppressed["open"]) + N(suppressed["write"])
    BY DEF AccountsOK, Accounted
<1>4. "open" \in Limiters /\ "write" \in Limiters /\ \A l \in Limiters : l \in {"open", "write"}
    BY DEF Limiters
<1> HIDE DEF N
<1>5. ASSUME UNCHANGED <<cpu, silent, fired, drops, suppressed>>, Len(log') = Len(log)
      PROVE  Countable' /\ Accounted'
    BY <1>2, <1>3, <1>5 DEF Countable, Accounted, Emitting, N
<1>6. CASE UNCHANGED vars
    BY <1>5, <1>6 DEF vars, limits, ring
<1>7. CASE Read \/ Tick
    BY <1>5, <1>7 DEF Read, Tick, limits, ring
<1>8. ASSUME NEW c \in Cpus, c \in Emitting, cpu' = [cpu EXCEPT ![c] = cpu'[c]],
             cpu'[c].stage # "emit"
      PROVE  IsFiniteSet(Emitting') /\ Cardinality(Emitting') = Cardinality(Emitting) - 1
    <2>1. \A d \in Cpus : d # c => cpu'[d] = cpu[d]
        BY <1>8 DEF AccountsOK, RingOK, Types
    <2>2. Emitting' = Emitting \ {c}
        BY <1>8, <2>1 DEF Emitting
    <2> QED
        BY <1>2, <1>8, <2>2, FS_RemoveElement
<1>9. ASSUME NEW c \in Cpus, Reserve(c)
      PROVE  Countable' /\ Accounted'
    <2>1. /\ UNCHANGED <<silent, fired, drops, suppressed>> /\ Len(log') = Len(log) + 1
          /\ c \in Emitting
        <3>1. cpu[c].rec \in Records /\ c \in Emitting
            BY <1>9 DEF Reserve, Emitting, AccountsOK, RingOK, EmitOK
        <3> QED
            BY <1>1, <1>9, <3>1 DEF Reserve, limits
    <2>2. /\ cpu' = [cpu EXCEPT ![c] = cpu'[c]]
          /\ cpu'[c].stage # "emit"
        BY <1>9 DEF Reserve, Idle, AccountsOK, RingOK, Types
    <2>3. IsFiniteSet(Emitting') /\ Cardinality(Emitting') = Cardinality(Emitting) - 1
        BY <1>8, <2>1, <2>2
    <2> QED
        BY <1>1, <1>2, <1>3, <1>4, <2>1, <2>3 DEF Countable, Accounted, N
<1>10. ASSUME NEW c \in Cpus, Drop(c)
       PROVE  Countable' /\ Accounted'
    <2>1. /\ UNCHANGED <<silent, fired, suppressed, log>> /\ c \in Emitting
          /\ drops' = [drops EXCEPT ![c] = @ + 1]
        BY <1>10 DEF Drop, Emitting, limits
    <2>2. /\ cpu' = [cpu EXCEPT ![c] = cpu'[c]]
          /\ cpu'[c].stage # "emit"
        BY <1>10 DEF Drop, Idle, AccountsOK, RingOK, Types
    <2>3. IsFiniteSet(Emitting') /\ Cardinality(Emitting') = Cardinality(Emitting) - 1
        BY <1>8, <2>1, <2>2
    <2>4. IsFiniteSet(Unfolded(drops')) /\ N(drops') = N(drops) + 1
        BY <1>2, <2>1, OneMore DEF N
    <2> QED
        BY SMTT(30), <1>1, <1>2, <1>3, <1>4, <2>1, <2>3, <2>4 DEF Countable, Accounted, N
<1>11. ASSUME NEW c \in Cpus, Submit(c)
       PROVE  Countable' /\ Accounted'
    <2>1. UNCHANGED <<silent, fired, drops, suppressed>> /\ Len(log') = Len(log)
        BY <1>1, <1>11 DEF Submit, limits
    <2>2. /\ cpu[c].stage = "fill" /\ cpu'[c].stage = "idle"
          /\ \A d \in Cpus : d # c => cpu'[d] = cpu[d]
        BY <1>11 DEF Submit, Idle, AccountsOK, RingOK, Types
    <2>3. Emitting' = Emitting
        BY <2>2 DEF Emitting
    <2> QED
        BY <1>2, <1>3, <2>1, <2>3 DEF Countable, Accounted, N
<1>12. ASSUME NEW c \in Cpus, NEW t \in Tasks, cpu[c] = Idle, fired' = fired + 1, 
              UNCHANGED ring, FireEnds(c, t)
       PROVE  Countable' /\ Accounted'
    <2>1. log' = log /\ drops' = drops
        BY <1>12 DEF ring
    <2>2. CASE UNCHANGED <<cpu, suppressed>> /\ silent' = silent + 1
        <3>1. Emitting' = Emitting /\ suppressed' = suppressed
            BY <2>2 DEF Emitting
        <3>2. Countable'
            BY <1>2, <2>1, <3>1 DEF Countable
        <3>3. fired' = Len(log') + N(drops') + silent' + Cardinality(Emitting')
                         + N(suppressed'["open"]) + N(suppressed'["write"])
            BY SMTT(30), <1>1, <1>3, <1>4, <1>12, <2>1, <2>2, <3>1
        <3> QED
            BY <3>2, <3>3 DEF Accounted, N
    <2>3. ASSUME NEW l \in Limiters, UNCHANGED <<cpu, silent>>,
                 suppressed' = [suppressed EXCEPT ![l][c] = @ + 1]
          PROVE  Countable' /\ Accounted'
        <3>1. suppressed[l] \in [Cpus -> Nat]
            BY <1>2
        <3>2. /\ suppressed'[l] = [suppressed[l] EXCEPT ![c] = @ + 1]
              /\ \A k \in Limiters : k # l => suppressed'[k] = suppressed[k]
            BY <1>2, <2>3
        <3>3. IsFiniteSet(Unfolded(suppressed'[l])) /\ N(suppressed'[l]) = N(suppressed[l]) + 1
            BY <1>2, <3>1, <3>2, OneMore DEF N
        <3>4. Emitting' = Emitting
            BY <2>3 DEF Emitting
        <3>5. Countable'
            BY <1>2, <2>1, <3>2, <3>3, <3>4 DEF Countable
        <3>6. silent' = silent /\ Len(log') = Len(log) /\ N(drops') = N(drops)
            BY <2>1, <2>3
        <3>7. fired' = Len(log') + N(drops') + silent' + Cardinality(Emitting')
                         + N(suppressed'["open"]) + N(suppressed'["write"])
            <4>1. CASE l = "open"
                <5>1. /\ N(suppressed'["open"]) = N(suppressed["open"]) + 1
                      /\ N(suppressed'["write"]) = N(suppressed["write"])
                    BY <1>4, <3>2, <3>3, <4>1
                <5> QED
                    BY SMTT(30), <1>1, <1>3, <1>4, <1>12, <3>4, <3>6, <5>1
            <4>2. CASE l = "write"
                <5>1. /\ N(suppressed'["open"]) = N(suppressed["open"])
                      /\ N(suppressed'["write"]) = N(suppressed["write"]) + 1
                    BY <1>4, <3>2, <3>3, <4>2
                <5> QED
                    BY SMTT(30), <1>1, <1>3, <1>4, <1>12, <3>4, <3>6, <5>1
            <4> QED
                BY <4>1, <4>2, <1>4
        <3> QED
            BY <3>5, <3>7 DEF Accounted, N
    <2>4. ASSUME UNCHANGED <<silent, suppressed>>,
                 NEW event, NEW child, EmitWith(c, t, event, child)
          PROVE  Countable' /\ Accounted'
        <3>1. /\ cpu'[c].stage = "emit"
              /\ \A d \in Cpus : d # c => cpu'[d] = cpu[d]
            BY <2>4 DEF EmitWith, AccountsOK, RingOK, Types
        <3>2. Emitting' = Emitting \cup {c} /\ c \notin Emitting
            BY <1>12, <3>1 DEF Emitting, Idle
        <3>3. IsFiniteSet(Emitting') /\ Cardinality(Emitting') = Cardinality(Emitting) + 1
            BY <1>2, <3>2, FS_AddElement
        <3>4. suppressed' = suppressed /\ silent' = silent
            BY <2>4
        <3>5. Countable'
            BY <1>2, <2>1, <3>3, <3>4 DEF Countable
        <3>6. fired' = Len(log') + N(drops') + silent' + Cardinality(Emitting')
                         + N(suppressed'["open"]) + N(suppressed'["write"])
            BY SMTT(30), <1>1, <1>3, <1>4, <1>12, <2>1, <3>3, <3>4
        <3> QED
            BY <3>5, <3>6 DEF Accounted, N
    <2> QED
        BY <1>12, <2>2, <2>3, <2>4 DEF FireEnds
<1>13. ASSUME NEW c \in Cpus, NEW t \in Tasks,
             \/ TracePtrace(c, t) \/ TraceSetuid(c, t) \/ TraceSetgid(c, t)
             \/ TraceCapset(c, t) \/ TraceOomKill(c, t) \/ TraceWrite(c, t)
             \/ TraceExit(c, t)
             \/ \E path \in Paths :
                 \/ TraceExec(c, t, path) \/ TraceOpenat(c, t, path)
                 \/ TraceOpen(c, t, path) \/ TraceOpenat2(c, t, path)
             \/ \E addr \in Addrs :
                 TraceConnect(c, t, addr) \/ TraceBind(c, t, addr) \/ TraceSendto(c, t, addr)
             \/ \E child \in Tasks, thread \in BOOLEAN : TraceFork(c, t, child, thread)
      PROVE  Countable' /\ Accounted'
    <2>1. Types
        BY DEF AccountsOK, RingOK
    <2> QED
        BY <1>12, <1>13, <2>1, TraceSteps
<1> QED
    BY <1>6, <1>7, <1>9, <1>10, <1>11, <1>13 DEF Next

\* Accounted, for every number of CPUs: the counters and the ring buffer add up.
THEOREM NothingLostUncounted == Spec => []Accounted
<1>1. Init => AccountsOK
    BY RingInit, LimitersInit, AccountsInit DEF AccountsOK
<1>2. AccountsOK /\ [Next]_vars => AccountsOK'
    BY RingStep, LimitersStep, AccountsStep DEF AccountsOK
<1>3. AccountsOK => Accounted
    BY DEF AccountsOK
<1> QED
    BY <1>1, <1>2, <1>3, PTL DEF Spec

=============================================================================
