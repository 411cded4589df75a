--------------------------- MODULE PipelineProofs ----------------------------
(***************************************************************************)
(* Theorems about Pipeline for every number of events, every size of the   *)
(* ring buffer and of the channel.                                         *)
(***************************************************************************)
EXTENDS Pipeline, TLAPS

USE DEF kernel, reader, channel, consumer, main, Alive

-----------------------------------------------------------------------------
(* The order of the shutdown. *)

\* The reader ends before the channel is closed, the consumer after it is closed and
\* empty, and the main goroutine passes consumerWg.Wait after both.
ShutdownInv ==
    /\ cpc = "done" => rpc = "done" /\ chan = <<>>
    /\ chanClosed => rpc = "done"
    /\ mpc \in {"rotate", "last", "persist", "exited"} => rpc = "done" /\ cpc = "done"
    /\ mpc \in {"last", "persist", "exited"} => current = {}

LEMMA ShutdownStep == ShutdownInv /\ [Next]_vars => ShutdownInv'
  <1> SUFFICES ASSUME ShutdownInv, [Next]_vars
               PROVE  ShutdownInv'
    OBVIOUS
  <1> USE DEF ShutdownInv
  <1>1. CASE Emit
    BY <1>1 DEF Emit
  <1>2. CASE Reader
    BY <1>2 DEF Reader, Read, Push, ReadClosed
  <1>3. CASE Consumer
    BY <1>3 DEF Consumer, Receive, Observe, Add, ConsumerDone
  <1>4. CASE Main
    BY <1>4 DEF Main, SelectTick, ProcessTicked, SelectDone, Wait, RotateLast, ProcessLast,
       Persist, Rotate, ProcessWindow
  <1>5. CASE Tick \/ Signal \/ Kill
    BY <1>5 DEF Tick, Signal, Kill
  <1>6. CASE UNCHANGED vars
    BY <1>6 DEF vars
  <1> QED
    BY <1>1, <1>2, <1>3, <1>4, <1>5, <1>6 DEF Next

\* From the last rotation on nothing is left that could be counted.
THEOREM LastWindowIsLast == Spec => []NothingBehind
  <1>1. Init => ShutdownInv
    BY DEF Init, ShutdownInv
  <1>2. ShutdownInv => NothingBehind
    BY DEF ShutdownInv, NothingBehind
  <1> QED
    BY <1>1, <1>2, ShutdownStep, PTL DEF Spec

-----------------------------------------------------------------------------
(* Facts about sequences of numbers. *)

Below(A, B) == \A a \in A, b \in B : a < b
Sorted(s) == \A i, j \in DOMAIN s : i < j => s[i] < s[j]

\* The last element is new, and keeps the order if it is above all others.
LEMMA AppendFacts ==
    ASSUME NEW s \in Seq(Nat), NEW e \in Nat
    PROVE  /\ Append(s, e) \in Seq(Nat)
           /\ Range(Append(s, e)) = Range(s) \cup {e}
           /\ Sorted(s) /\ Below(Range(s), {e}) => Sorted(Append(s, e))
  <1> DEFINE t == Append(s, e)
  <1>1. t \in Seq(Nat) /\ Len(t) = Len(s) + 1 /\ t[Len(s) + 1] = e
    OBVIOUS
  <1>2. DOMAIN t = 1..(Len(s) + 1) /\ DOMAIN s = 1..Len(s) /\ Len(s) \in Nat
    OBVIOUS
  <1>3. \A i \in 1..Len(s) : t[i] = s[i]
    OBVIOUS
  <1>4. Range(t) = Range(s) \cup {e}
    BY <1>1, <1>2, <1>3 DEF Range
  <1>5. ASSUME Sorted(s), Below(Range(s), {e}) PROVE Sorted(t)
    <2>1. \A i \in 1..Len(s) : s[i] < e
      BY <1>2, <1>5 DEF Below, Range
    <2> QED
      BY <1>1, <1>2, <1>3, <1>5, <2>1 DEF Sorted
  <1> QED
    BY <1>1, <1>4, <1>5

\* Taking the head of a sorted sequence leaves what is above it.
LEMMA HeadTailFacts ==
    ASSUME NEW s \in Seq(Nat), s # <<>>, Sorted(s)
    PROVE  /\ Tail(s) \in Seq(Nat) /\ Head(s) \in Nat
           /\ Range(s) = Range(Tail(s)) \cup {Head(s)}
           /\ Below({Head(s)}, Range(Tail(s)))
           /\ Sorted(Tail(s))
  <1> DEFINE t == Tail(s)
  <1>1. t \in Seq(Nat) /\ Len(s) \in Nat \ {0} /\ Len(t) = Len(s) - 1
    OBVIOUS
  <1>2. DOMAIN t = 1..(Len(s) - 1) /\ DOMAIN s = 1..Len(s) /\ Head(s) = s[1]
    OBVIOUS
  <1>3. \A i \in 1..(Len(s) - 1) : t[i] = s[i + 1]
    OBVIOUS
  <1>4. Range(s) = Range(t) \cup {Head(s)}
    <2>1. Range(t) \subseteq Range(s)
      BY <1>1, <1>2, <1>3 DEF Range
    <2>2. ASSUME NEW i \in 1..Len(s), i # 1 PROVE s[i] \in Range(t)
      <3>1. i - 1 \in 1..(Len(s) - 1) /\ t[i - 1] = s[i]
        BY <1>1, <1>3, <2>2
      <3> QED
        BY <1>2, <3>1 DEF Range
    <2>3. Head(s) \in Range(s)
      BY <1>1, <1>2 DEF Range
    <2>4. ASSUME NEW x \in Range(s) PROVE x \in Range(t) \cup {Head(s)}
      <3>1. PICK i \in 1..Len(s) : s[i] = x
        BY <1>2, <2>4 DEF Range
      <3> QED
        BY <1>2, <2>2, <3>1
    <2> QED
      BY <2>1, <2>3, <2>4
  <1>5. \A i \in 1..(Len(s) - 1) : s[1] < t[i]
    BY <1>1, <1>2, <1>3 DEF Sorted
  <1>6. Below({Head(s)}, Range(t))
    BY <1>2, <1>5 DEF Below, Range
  <1>7. Sorted(t)
    BY SMTT(30), <1>1, <1>2, <1>3 DEF Sorted
  <1>8. Head(s) \in Nat
    BY <1>1, <1>2
  <1> QED
    BY <1>1, <1>4, <1>6, <1>7, <1>8

-----------------------------------------------------------------------------
(* The flow of events. *)

\* Seven places in the order of the pipeline, downstream first, and four ways to be
\* lost: together they hold exactly the events emitted, none of them twice, and each
\* place holds events emitted later than those further downstream.
Ordered(rt, w, cu, ce, ch, re, ri) ==
    /\ Below(rt, w)
    /\ Below(rt \cup w, cu)
    /\ Below(rt \cup w \cup cu, ce)
    /\ Below(rt \cup w \cup cu \cup ce, ch)
    /\ Below(rt \cup w \cup cu \cup ce \cup ch, re)
    /\ Below(rt \cup w \cup cu \cup ce \cup ch \cup re, ri)

Partition(live, rd, rj, cd, sk, n) ==
    /\ live \cup rd \cup rj \cup cd \cup sk = 1..n
    /\ live \cap (rd \cup rj \cup cd \cup sk) = {}
    /\ rd \cap rj = {} /\ rd \cap cd = {} /\ rd \cap sk = {}
    /\ rj \cap cd = {} /\ rj \cap sk = {} /\ cd \cap sk = {}

Live == rated \cup win \cup current \cup Hand(cev) \cup Range(chan) \cup Hand(rev) \cup Range(ring)

\* What each goroutine holds in its hand, by the point it has reached.
HandInv ==
    /\ rpc = "push" <=> rev # None
    /\ cpc \in {"observe", "add"} <=> cev # None
    /\ mpc \in {"select", "wait", "rotate", "persist", "exited"} => win = {}

FlowInv ==
    /\ emitted \in Nat /\ ring \in Seq(Nat) /\ chan \in Seq(Nat)
    /\ Sorted(ring) /\ Sorted(chan)
    /\ Ordered(rated, win, current, Hand(cev), Range(chan), Hand(rev), Range(ring))
    /\ Partition(Live, ringDrops, rejected, chanDrops, skipped, emitted)


\* What is taken from the ring buffer or the channel is an event.
LEMMA HeadIsEvent ==
    ASSUME FlowInv
    PROVE  /\ ring # <<>> => Head(ring) \in 1..emitted
           /\ chan # <<>> => Head(chan) \in 1..emitted
  <1>1. Range(ring) \subseteq 1..emitted /\ Range(chan) \subseteq 1..emitted
    BY DEF FlowInv, Partition, Live
  <1>2. ring # <<>> => Head(ring) \in Range(ring)
    BY HeadTailFacts DEF FlowInv
  <1>3. chan # <<>> => Head(chan) \in Range(chan)
    BY HeadTailFacts DEF FlowInv
  <1> QED
    BY <1>1, <1>2, <1>3

LEMMA HandStep == FlowInv /\ HandInv /\ [Next]_vars => HandInv'
  <1> SUFFICES ASSUME FlowInv, HandInv, [Next]_vars
               PROVE  HandInv'
    OBVIOUS
  <1> USE DEF HandInv
  <1>1. CASE Emit
    BY <1>1 DEF Emit
  <1>2. CASE Reader
    <2>1. CASE Read
      <3>1. Head(ring) # None
        BY <2>1, HeadIsEvent DEF Read, None
      <3> QED
        BY <2>1, <3>1 DEF Read
    <2>2. CASE Push \/ ReadClosed
      BY <2>2 DEF Push, ReadClosed
    <2> QED
      BY <1>2, <2>1, <2>2 DEF Reader
  <1>3. CASE Consumer
    <2>1. CASE Receive
      <3>1. Head(chan) # None
        BY <2>1, HeadIsEvent DEF Receive, None
      <3> QED
        BY <2>1, <3>1 DEF Receive
    <2>2. CASE Observe \/ Add \/ ConsumerDone
      BY <2>2 DEF Observe, Add, ConsumerDone
    <2> QED
      BY <1>3, <2>1, <2>2 DEF Consumer
  <1>4. CASE Main
    BY <1>4 DEF Main, SelectTick, ProcessTicked, SelectDone, Wait, RotateLast, ProcessLast,
       Persist, Rotate, ProcessWindow
  <1>5. CASE Tick \/ Signal \/ Kill
    BY <1>5 DEF Tick, Signal, Kill
  <1>6. CASE UNCHANGED vars
    BY <1>6 DEF vars
  <1> QED
    BY <1>1, <1>2, <1>3, <1>4, <1>5, <1>6 DEF Next

LEMMA FlowStep == FlowInv /\ HandInv /\ [Next]_vars => FlowInv'
  <1> SUFFICES ASSUME FlowInv, HandInv, [Next]_vars
               PROVE  FlowInv'
    OBVIOUS
  <1>1. CASE Emit
    <2> DEFINE e == emitted + 1
    <2>1. /\ e \in Nat /\ e \notin 1..emitted /\ 1..e = 1..emitted \cup {e}
          /\ \A x \in 1..emitted : x < e
      BY DEF FlowInv
    <2>2. /\ emitted' = e
          /\ UNCHANGED <<rated, win, current, cev, chan, rev, rejected, chanDrops, skipped>>
      BY <1>1, Zenon DEF Emit
    <2>3. CASE ring' = Append(ring, e) /\ ringDrops' = ringDrops
      <3>1. Range(ring) \subseteq 1..emitted
        BY DEF FlowInv, Partition, Live
      <3>2. ring' \in Seq(Nat) /\ Range(ring') = Range(ring) \cup {e} /\ Sorted(ring')
        BY <2>1, <2>3, <3>1, AppendFacts DEF FlowInv, Below
      <3>3. Live' = Live \cup {e}
        BY <2>2, <3>2 DEF Live
      <3>4. Partition(Live', ringDrops', rejected', chanDrops', skipped', emitted')
        BY <2>1, <2>2, <2>3, <3>3 DEF FlowInv, Partition
      <3>5. \A x \in Live : x < e
        BY <2>1 DEF FlowInv, Partition
      <3>6. Ordered(rated', win', current', Hand(cev'), Range(chan'), Hand(rev'), Range(ring'))
        BY <2>2, <3>2, <3>5 DEF FlowInv, Ordered, Below, Live
      <3> QED
        BY <2>1, <2>2, <3>2, <3>4, <3>6 DEF FlowInv
    <2>4. CASE ringDrops' = ringDrops \cup {e} /\ ring' = ring
      <3>1. Live' = Live
        BY <2>2, <2>4 DEF Live
      <3>2. Partition(Live', ringDrops', rejected', chanDrops', skipped', emitted')
        BY <2>1, <2>2, <2>4, <3>1 DEF FlowInv, Partition
      <3> QED
        BY <2>1, <2>2, <2>4, <3>2 DEF FlowInv
    <2> QED
      BY <1>1, <2>3, <2>4 DEF Emit
  <1>2. CASE Read
    <2> DEFINE e == Head(ring)
    <2>1. /\ ring' = Tail(ring)
          /\ UNCHANGED <<emitted, rated, win, current, cev, chan, ringDrops, chanDrops, skipped>>
      BY <1>2, Zenon DEF Read
    <2>2. ring # <<>> /\ Hand(rev) = {}
      BY <1>2 DEF Read, HandInv, Hand
    <2>3. /\ ring' \in Seq(Nat) /\ Sorted(ring')
          /\ Range(ring) = Range(ring') \cup {e}
          /\ Below({e}, Range(ring'))
          /\ e \in 1..emitted
      BY <2>1, <2>2, HeadTailFacts, HeadIsEvent DEF FlowInv
    <2>4. e \notin Range(ring')
      BY <2>3 DEF Below
    <2>5. \A x \in rated \cup win \cup current \cup Hand(cev) \cup Range(chan) : x < e
      BY <2>3 DEF FlowInv, Ordered, Below
    <2>6. CASE rev' = e /\ rejected' = rejected
      <3>1. Hand(rev') = {e}
        BY <2>3, <2>6 DEF Hand, None
      <3>2. Live' = Live
        BY <2>1, <2>2, <2>3, <3>1 DEF Live
      <3>3. Ordered(rated', win', current', Hand(cev'), Range(chan'), Hand(rev'), Range(ring'))
        BY <2>1, <2>2, <2>3, <2>5, <3>1 DEF FlowInv, Ordered, Below
      <3> QED
        BY <2>1, <2>3, <2>6, <3>2, <3>3 DEF FlowInv
    <2>7. CASE rejected' = rejected \cup {e} /\ rev' = rev
      <3>1. Live = Live' \cup {e} /\ e \notin Live'
        BY <2>1, <2>2, <2>3, <2>4, <2>5, <2>7 DEF Live
      <3>2. Partition(Live', ringDrops', rejected', chanDrops', skipped', emitted')
        BY <2>1, <2>7, <3>1 DEF FlowInv, Partition
      <3>3. Ordered(rated', win', current', Hand(cev'), Range(chan'), Hand(rev'), Range(ring'))
        BY <2>1, <2>2, <2>3, <2>7 DEF FlowInv, Ordered, Below
      <3> QED
        BY <2>1, <2>3, <3>2, <3>3 DEF FlowInv
    <2> QED
      BY <1>2, <2>6, <2>7 DEF Read
  <1>3. CASE Push
    <2>1. /\ rev' = None
          /\ UNCHANGED <<emitted, rated, win, current, cev, ring, ringDrops, rejected, skipped>>
      BY <1>3, Zenon DEF Push
    <2>2. Hand(rev) = {rev} /\ Hand(rev') = {}
      BY <1>3, <2>1 DEF Push, HandInv, Hand
    <2>3. rev \in 1..emitted
      BY <2>2 DEF FlowInv, Partition, Live
    <2>4. \A x \in rated \cup win \cup current \cup Hand(cev) \cup Range(chan) : x < rev
      BY <2>2 DEF FlowInv, Ordered, Below
    <2>5. \A x \in Range(ring) : rev < x
      BY <2>2 DEF FlowInv, Ordered, Below
    <2>6. CASE chan' = Append(chan, rev) /\ chanDrops' = chanDrops
      <3>1. chan' \in Seq(Nat) /\ Range(chan') = Range(chan) \cup {rev} /\ Sorted(chan')
        BY <2>3, <2>4, <2>6, AppendFacts DEF FlowInv, Below
      <3>2. Live' = Live
        BY <2>1, <2>2, <3>1 DEF Live
      <3>3. Ordered(rated', win', current', Hand(cev'), Range(chan'), Hand(rev'), Range(ring'))
        BY <2>1, <2>2, <2>4, <2>5, <3>1 DEF FlowInv, Ordered, Below
      <3> QED
        BY <2>1, <2>6, <3>1, <3>2, <3>3 DEF FlowInv
    <2>7. CASE chanDrops' = chanDrops \cup {rev} /\ chan' = chan
      <3>1. Live = Live' \cup {rev} /\ rev \notin Live'
        <4>1. rev \notin Range(ring) /\ rev \notin rated \cup win \cup current \cup Hand(cev) \cup Range(chan)
          BY <2>3, <2>4, <2>5
        <4> QED
          BY <2>1, <2>2, <2>7, <4>1 DEF Live
      <3>2. Partition(Live', ringDrops', rejected', chanDrops', skipped', emitted')
        BY <2>1, <2>7, <3>1 DEF FlowInv, Partition
      <3>3. Ordered(rated', win', current', Hand(cev'), Range(chan'), Hand(rev'), Range(ring'))
        BY <2>1, <2>2, <2>7 DEF FlowInv, Ordered, Below
      <3> QED
        BY <2>1, <2>7, <3>2, <3>3 DEF FlowInv
    <2> QED
      BY <1>3, <2>6, <2>7 DEF Push
  <1>4. CASE Receive
    <2> DEFINE e == Head(chan)
    <2>1. /\ chan' = Tail(chan) /\ cev' = e
          /\ UNCHANGED <<emitted, rated, win, current, rev, ring, ringDrops, rejected, chanDrops, skipped>>
      BY <1>4, Zenon DEF Receive
    <2>2. chan # <<>> /\ Hand(cev) = {}
      BY <1>4 DEF Receive, HandInv, Hand
    <2>3. /\ chan' \in Seq(Nat) /\ Sorted(chan')
          /\ Range(chan) = Range(chan') \cup {e}
          /\ Below({e}, Range(chan'))
          /\ e \in 1..emitted
      BY <2>1, <2>2, HeadTailFacts, HeadIsEvent DEF FlowInv
    <2>4. Hand(cev') = {e}
      BY <2>1, <2>3 DEF Hand, None
    <2>5. Live' = Live
      BY <2>1, <2>2, <2>3, <2>4 DEF Live
    <2>6. Ordered(rated', win', current', Hand(cev'), Range(chan'), Hand(rev'), Range(ring'))
      BY <2>1, <2>2, <2>3, <2>4 DEF FlowInv, Ordered, Below
    <2> QED
      BY <2>1, <2>3, <2>5, <2>6 DEF FlowInv
  <1>5. CASE Add
    <2>1. /\ cev' = None
          /\ UNCHANGED <<emitted, rated, win, chan, rev, ring, ringDrops, rejected, chanDrops>>
      BY <1>5, Zenon DEF Add
    <2>2. Hand(cev) = {cev} /\ Hand(cev') = {}
      BY <1>5, <2>1 DEF Add, HandInv, Hand
    <2>3. cev \in 1..emitted
      BY <2>2 DEF FlowInv, Partition, Live
    <2>4. \A x \in rated \cup win \cup current : x < cev
      BY <2>2 DEF FlowInv, Ordered, Below
    <2>5. \A x \in Range(chan) \cup Hand(rev) \cup Range(ring) : cev < x
      BY <2>2 DEF FlowInv, Ordered, Below
    <2>6. CASE current' = current \cup {cev} /\ skipped' = skipped
      <3>1. Live' = Live
        BY <2>1, <2>2, <2>6 DEF Live
      <3>2. Ordered(rated', win', current', Hand(cev'), Range(chan'), Hand(rev'), Range(ring'))
        BY <2>1, <2>2, <2>6, <2>4, <2>5 DEF FlowInv, Ordered, Below
      <3> QED
        BY <2>1, <2>6, <3>1, <3>2 DEF FlowInv
    <2>7. CASE skipped' = skipped \cup {cev} /\ current' = current
      <3>1. Live = Live' \cup {cev} /\ cev \notin Live'
        <4>1. /\ cev \notin Range(chan) \cup Hand(rev) \cup Range(ring)
              /\ cev \notin rated \cup win \cup current
          BY <2>3, <2>4, <2>5
        <4> QED
          BY <2>1, <2>2, <2>7, <4>1 DEF Live
      <3>2. Partition(Live', ringDrops', rejected', chanDrops', skipped', emitted')
        BY <2>1, <2>7, <3>1 DEF FlowInv, Partition
      <3>3. Ordered(rated', win', current', Hand(cev'), Range(chan'), Hand(rev'), Range(ring'))
        BY <2>1, <2>2, <2>7 DEF FlowInv, Ordered, Below
      <3> QED
        BY <2>1, <3>2, <3>3 DEF FlowInv
    <2> QED
      BY <1>5, <2>6, <2>7 DEF Add
  <1>6. CASE SelectTick \/ RotateLast
    <2>1. /\ win' = current /\ current' = {} /\ win = {}
          /\ UNCHANGED <<emitted, rated, cev, chan, rev, ring, ringDrops, rejected, chanDrops, skipped>>
      BY <1>6 DEF SelectTick, RotateLast, Rotate, HandInv
    <2>2. Live' = Live
      BY <2>1 DEF Live
    <2>3. Ordered(rated', win', current', Hand(cev'), Range(chan'), Hand(rev'), Range(ring'))
      BY <2>1 DEF FlowInv, Ordered, Below
    <2> QED
      BY <2>1, <2>2, <2>3 DEF FlowInv
  <1>7. CASE ProcessTicked \/ ProcessLast
    <2>1. /\ rated' = rated \cup win /\ win' = {}
          /\ UNCHANGED <<emitted, current, cev, chan, rev, ring, ringDrops, rejected, chanDrops, skipped>>
      BY <1>7 DEF ProcessTicked, ProcessLast, ProcessWindow
    <2>2. Live' = Live
      BY <2>1 DEF Live
    <2>3. Ordered(rated', win', current', Hand(cev'), Range(chan'), Hand(rev'), Range(ring'))
      BY <2>1 DEF FlowInv, Ordered, Below
    <2> QED
      BY <2>1, <2>2, <2>3 DEF FlowInv
  <1>8. CASE UNCHANGED <<emitted, rated, win, current, cev, chan, rev, ring, ringDrops, rejected,
                         chanDrops, skipped>>
    BY <1>8 DEF FlowInv, Live
  <1> QED
    <2>1. ReadClosed \/ Observe \/ ConsumerDone \/ SelectDone \/ Wait \/ Persist \/ Tick \/ Signal
            \/ Kill \/ UNCHANGED vars
          => UNCHANGED <<emitted, rated, win, current, cev, chan, rev, ring, ringDrops, rejected,
                         chanDrops, skipped>>
      BY DEF ReadClosed, Observe, ConsumerDone, SelectDone, Wait, Persist, Tick, Signal, Kill, vars
    <2> QED
      BY <1>1, <1>2, <1>3, <1>4, <1>5, <1>6, <1>7, <1>8, <2>1 DEF Next, Reader, Consumer, Main

-----------------------------------------------------------------------------
(* The invariant of the pipeline, and what follows from it. *)

\* The process has exited with a baseline that holds every window it rated.
StoredInv == mpc = "exited" => stored = rated

PipelineInv == ShutdownInv /\ HandInv /\ FlowInv /\ StoredInv

LEMMA StoredStep == StoredInv /\ [Next]_vars => StoredInv'
  <1> SUFFICES ASSUME StoredInv, [Next]_vars
               PROVE  StoredInv'
    OBVIOUS
  <1> USE DEF StoredInv
  <1>1. CASE Emit \/ Reader \/ Consumer \/ Tick \/ Signal \/ Kill
    BY <1>1 DEF Emit, Reader, Read, Push, ReadClosed, Consumer, Receive, Observe, Add,
       ConsumerDone, Tick, Signal, Kill
  <1>2. CASE Main
    BY <1>2 DEF Main, SelectTick, ProcessTicked, SelectDone, Wait, RotateLast, ProcessLast,
       Persist, ProcessWindow
  <1>3. CASE UNCHANGED vars
    BY <1>3 DEF vars
  <1> QED
    BY <1>1, <1>2, <1>3 DEF Next

LEMMA InitPipelineInv == Init => PipelineInv
  <1> SUFFICES ASSUME Init PROVE PipelineInv
    OBVIOUS
  <1>1. ShutdownInv /\ HandInv /\ StoredInv
    BY DEF Init, ShutdownInv, HandInv, StoredInv
  <1>2. emitted = 0 /\ ring = <<>> /\ chan = <<>> /\ rev = None /\ cev = None
    BY Zenon DEF Init
  <1>3. /\ rated = {} /\ win = {} /\ current = {}
        /\ ringDrops = {} /\ rejected = {} /\ chanDrops = {} /\ skipped = {}
    BY Zenon DEF Init
  <1>4. Range(<<>>) = {} /\ Sorted(<<>>) /\ <<>> \in Seq(Nat)
    BY DEF Range, Sorted
  <1>5. Hand(None) = {}
    BY DEF Hand
  <1>6. Live = {}
    BY <1>2, <1>3, <1>4, <1>5 DEF Live
  <1>7. Ordered(rated, win, current, Hand(cev), Range(chan), Hand(rev), Range(ring))
    BY <1>2, <1>3, <1>4, <1>5 DEF Ordered, Below
  <1>8. Partition(Live, ringDrops, rejected, chanDrops, skipped, emitted)
    BY <1>2, <1>3, <1>6 DEF Partition
  <1> QED
    BY <1>1, <1>2, <1>4, <1>7, <1>8 DEF PipelineInv, FlowInv

LEMMA PipelineInvariant == Spec => []PipelineInv
  <1>1. PipelineInv /\ [Next]_vars => PipelineInv'
    BY ShutdownStep, HandStep, FlowStep, StoredStep DEF PipelineInv
  <1> QED
    BY <1>1, InitPipelineInv, PTL DEF Spec

\* The places of Conservation and InOrder, one by one.
LEMMA PlacesFacts ==
    /\ DOMAIN Places = 1..7
    /\ Places[1] = Range(ring) /\ Places[2] = Hand(rev) /\ Places[3] = Range(chan)
    /\ Places[4] = Hand(cev) /\ Places[5] = current /\ Places[6] = win /\ Places[7] = rated
  BY DEF Places

LEMMA WhereFacts ==
    LET where == Places \o Gone IN
    /\ DOMAIN where = 1..11
    /\ where[1] = Range(ring) /\ where[2] = Hand(rev) /\ where[3] = Range(chan)
    /\ where[4] = Hand(cev) /\ where[5] = current /\ where[6] = win /\ where[7] = rated
    /\ where[8] = ringDrops /\ where[9] = rejected /\ where[10] = chanDrops
    /\ where[11] = skipped
  BY DEF Places, Gone

\* No event overtakes another, in whatever order the goroutines run.
THEOREM EventsInOrder == Spec => []InOrder
  <1> SUFFICES ASSUME PipelineInv PROVE InOrder
    BY PipelineInvariant, PTL
  <1>1. \A i, j \in DOMAIN Places : i < j => \A e \in Places[i], f \in Places[j] : f < e
    <2> SUFFICES ASSUME NEW i \in 1..7, NEW j \in 1..7, i < j PROVE Below(Places[j], Places[i])
      BY PlacesFacts DEF Below
    <2> QED
      BY PlacesFacts DEF PipelineInv, FlowInv, Ordered, Below
  <1> QED
    BY <1>1 DEF PipelineInv, FlowInv, Sorted, InOrder

\* An event is in exactly one place, at any time: none is counted in two windows, and
\* none vanishes without a trace.
THEOREM EventsConserved == Spec => []Conservation
  <1> SUFFICES ASSUME PipelineInv PROVE Conservation
    BY PipelineInvariant, PTL
  <1> DEFINE where == Places \o Gone
  <1>1. /\ DOMAIN where = 1..11
        /\ where[1] = Range(ring) /\ where[2] = Hand(rev) /\ where[3] = Range(chan)
        /\ where[4] = Hand(cev) /\ where[5] = current /\ where[6] = win /\ where[7] = rated
        /\ where[8] = ringDrops /\ where[9] = rejected /\ where[10] = chanDrops
        /\ where[11] = skipped
    BY WhereFacts
  <1>2. /\ Ordered(rated, win, current, Hand(cev), Range(chan), Hand(rev), Range(ring))
        /\ Partition(Live, ringDrops, rejected, chanDrops, skipped, emitted)
        /\ emitted \in Nat
    BY DEF PipelineInv, FlowInv
  <1> DEFINE lost == ringDrops \cup rejected \cup chanDrops \cup skipped
  <1>5. UNION Range(where) = Emitted /\ \A i, j \in DOMAIN where : i # j => where[i] \cap where[j] = {}
    <2> HIDE DEF where
    <2>1. Live \cup lost = Emitted /\ Live \subseteq Nat
      BY <1>2 DEF Partition, Emitted
    <2>2. \A i \in 1..11 : where[i] \subseteq Live \cup lost
      BY <1>1 DEF Live
    <2>3. \A x \in Live \cup lost : \E i \in 1..11 : x \in where[i]
      BY <1>1 DEF Live
    <2>4. UNION Range(where) = Emitted
      <3>1. Range(where) = {where[i] : i \in 1..11}
        BY <1>1 DEF Range
      <3>2. \A x : x \in UNION Range(where) <=> \E i \in 1..11 : x \in where[i]
        BY <3>1
      <3> QED
        BY <2>1, <2>2, <2>3, <3>2
    <2>5. \A i, j \in 1..7 : i < j => where[i] \cap where[j] = {}
      <3> SUFFICES ASSUME NEW i \in 1..7, NEW j \in 1..7, i < j PROVE where[i] \cap where[j] = {}
        OBVIOUS
      <3>1. Below(where[j], where[i])
        <4>1. Below(rated, win) /\ \A k \in {6, 7} : Below(where[k], current)
          BY <1>1, <1>2 DEF Ordered, Below
        <4>2. \A k \in 5..7 : Below(where[k], Hand(cev))
          BY <1>1, <1>2 DEF Ordered, Below
        <4>3. \A k \in 4..7 : Below(where[k], Range(chan))
          BY <1>1, <1>2 DEF Ordered, Below
        <4>4. \A k \in 3..7 : Below(where[k], Hand(rev))
          BY <1>1, <1>2 DEF Ordered, Below
        <4>5. \A k \in 2..7 : Below(where[k], Range(ring))
          BY <1>1, <1>2 DEF Ordered, Below
        <4> QED
          BY <1>1, <4>1, <4>2, <4>3, <4>4, <4>5
      <3>2. where[i] \subseteq Nat
        BY <1>1, <2>1 DEF Live
      <3>3. ASSUME NEW x \in where[i], x \in where[j] PROVE FALSE
        BY <3>1, <3>2, <3>3 DEF Below
      <3> QED
        BY <3>3
    <2>6. \A i \in 1..7, j \in 8..11 : where[i] \cap where[j] = {}
      <3>1. \A i \in 1..7 : where[i] \subseteq Live
        BY <1>1 DEF Live
      <3>2. \A j \in 8..11 : where[j] \subseteq lost
        BY <1>1
      <3> QED
        BY <1>2, <3>1, <3>2 DEF Partition
    <2>7. \A i, j \in 8..11 : i < j => where[i] \cap where[j] = {}
      BY <1>1, <1>2 DEF Partition
    <2> QED
      BY <1>1, <2>4, <2>5, <2>6, <2>7
  <1> QED
    BY <1>5 DEF Conservation

\* After a graceful shutdown the baseline holds every event that nothing counted or logged
\* as lost and that is not still in the ring buffer.
THEOREM ShutdownDelivers == Spec => []GracefulDelivery
  <1> SUFFICES ASSUME PipelineInv, mpc = "exited"
               PROVE  Emitted = stored \cup Range(ring) \cup UNION Range(Gone)
    BY PipelineInvariant, PTL DEF GracefulDelivery
  <1>1. /\ chan = <<>> /\ current = {} /\ win = {}
        /\ rev = None /\ cev = None /\ stored = rated
    BY DEF PipelineInv, ShutdownInv, HandInv, StoredInv
  <1>2. Range(chan) = {} /\ Hand(rev) = {} /\ Hand(cev) = {}
    BY <1>1 DEF Range, Hand
  <1>3. Live = stored \cup Range(ring)
    BY <1>1, <1>2 DEF Live
  <1>4. UNION Range(Gone) = ringDrops \cup rejected \cup chanDrops \cup skipped
    BY DEF Gone, Range
  <1> QED
    BY <1>3, <1>4 DEF PipelineInv, FlowInv, Partition, Emitted

-----------------------------------------------------------------------------
(* Types and bounds. *)

PointsInv ==
    /\ rpc \in {"read", "push", "done"} /\ cpc \in {"recv", "observe", "add", "done"}
    /\ mpc \in {"select", "process", "wait", "rotate", "last", "persist", "exited", "killed"}
    /\ closed \in BOOLEAN /\ chanClosed \in BOOLEAN
    /\ tickDue \in BOOLEAN /\ signalled \in BOOLEAN
    /\ stored \subseteq rated

BoundsInv == emitted <= NEvents /\ Len(ring) <= RingCap /\ Len(chan) <= ChanCap

LEMMA PointsStep == PointsInv /\ [Next]_vars => PointsInv'
  <1> SUFFICES ASSUME PointsInv, [Next]_vars
               PROVE  PointsInv'
    OBVIOUS
  <1> USE DEF PointsInv
  <1>1. CASE Emit
    BY <1>1 DEF Emit
  <1>2. CASE Reader
    BY ZenonT(40), <1>2 DEF Reader, Read, Push, ReadClosed
  <1>3. CASE Consumer
    BY <1>3 DEF Consumer, Receive, Observe, Add, ConsumerDone
  <1>4. CASE Main
    BY <1>4 DEF Main, SelectTick, ProcessTicked, SelectDone, Wait, RotateLast, ProcessLast,
       Persist, Rotate, ProcessWindow
  <1>5. CASE Tick \/ Signal \/ Kill
    BY ZenonT(40), <1>5 DEF Tick, Signal, Kill
  <1>6. CASE UNCHANGED vars
    BY <1>6 DEF vars
  <1> QED
    BY <1>1, <1>2, <1>3, <1>4, <1>5, <1>6 DEF Next

LEMMA BoundsStep == FlowInv /\ BoundsInv /\ [Next]_vars => BoundsInv'
  <1> SUFFICES ASSUME FlowInv, BoundsInv, [Next]_vars
               PROVE  BoundsInv'
    OBVIOUS
  <1> USE ConstantsAssumption DEF BoundsInv
  <1>0. /\ emitted \in Nat /\ ring \in Seq(Nat) /\ chan \in Seq(Nat)
        /\ (ring # <<>> => Head(ring) \in Nat) /\ (chan # <<>> => Head(chan) \in Nat)
    BY HeadIsEvent DEF FlowInv
  <1>1. CASE Emit
    <2>1. /\ emitted' = emitted + 1 /\ chan' = chan
          /\ ring' = ring \/ (ring' = Append(ring, emitted + 1) /\ Len(ring) < RingCap)
          /\ emitted < NEvents
      BY <1>1, Zenon DEF Emit
    <2> QED
      BY <1>0, <2>1
  <1>2. CASE Read
    <2>1. ring # <<>> /\ ring' = Tail(ring) /\ UNCHANGED <<emitted, chan>>
      BY <1>2, Zenon DEF Read
    <2> QED
      BY <1>0, <2>1
  <1>3. CASE Push
    <2>1. /\ chan' = chan \/ (chan' = Append(chan, rev) /\ Len(chan) < ChanCap)
          /\ UNCHANGED <<emitted, ring>>
      BY <1>3, Zenon DEF Push
    <2> QED
      BY <1>0, <2>1
  <1>4. CASE Receive
    <2>1. chan # <<>> /\ chan' = Tail(chan) /\ UNCHANGED <<emitted, ring>>
      BY <1>4, Zenon DEF Receive
    <2> QED
      BY <1>0, <2>1
  <1>5. CASE ~(Emit \/ Read \/ Push \/ Receive)
    <2>1. UNCHANGED <<emitted, ring, chan>>
      BY <1>5 DEF Next, vars, Reader, Consumer, Main, ReadClosed, Observe, Add, ConsumerDone,
         SelectTick, ProcessTicked, SelectDone, Wait, RotateLast, ProcessLast, ProcessWindow,
         Persist, Tick, Signal, Kill
    <2> QED
      BY <2>1
  <1> QED
    BY <1>1, <1>2, <1>3, <1>4, <1>5

\* Every variable of the pipeline keeps its type, and neither buffer exceeds its bound.
THEOREM TypeCorrect == Spec => []TypeOK
  <1>1. Init => PointsInv
    BY DEF Init, PointsInv
  <1>2. Init => BoundsInv
    <2> SUFFICES ASSUME Init PROVE BoundsInv
      OBVIOUS
    <2>1. emitted = 0 /\ ring = <<>> /\ chan = <<>>
      BY Zenon DEF Init
    <2> QED
      BY <2>1, ConstantsAssumption DEF BoundsInv
  <1>3. PipelineInv /\ PointsInv /\ BoundsInv => TypeOK
    <2> SUFFICES ASSUME PipelineInv, PointsInv, BoundsInv PROVE TypeOK
      OBVIOUS
    <2>1. FlowInv /\ HandInv
      BY DEF PipelineInv
    <2>2. /\ Live \subseteq Emitted
          /\ ringDrops \subseteq Emitted /\ rejected \subseteq Emitted
          /\ chanDrops \subseteq Emitted /\ skipped \subseteq Emitted
      BY <2>1 DEF FlowInv, Partition, Emitted
    <2>3. /\ Range(ring) \subseteq Emitted /\ Range(chan) \subseteq Emitted
          /\ current \subseteq Emitted /\ win \subseteq Emitted /\ rated \subseteq Emitted
          /\ Hand(rev) \subseteq Emitted /\ Hand(cev) \subseteq Emitted
      BY <2>2 DEF Live
    <2>4. ASSUME NEW s \in Seq(Nat), Range(s) \subseteq Emitted PROVE s \in Seq(Emitted)
      <3>1. \A i \in 1..Len(s) : s[i] \in Emitted
        BY <2>4 DEF Range
      <3> QED
        BY <3>1
    <2>5. rev \in 0..emitted /\ cev \in 0..emitted /\ emitted \in 0..NEvents
      BY <2>1, <2>3, ConstantsAssumption DEF FlowInv, BoundsInv, Hand, None, Emitted
    <2>6. Len(ring) <= RingCap /\ Len(chan) <= ChanCap
      BY DEF BoundsInv
    <2>7. ring \in Seq(Emitted) /\ chan \in Seq(Emitted)
      BY <2>1, <2>3, <2>4 DEF FlowInv
    <2> QED
      BY <2>1, <2>2, <2>3, <2>5, <2>6, <2>7, Zenon DEF TypeOK, PointsInv, HandInv
  <1>4. PipelineInv => FlowInv
    BY DEF PipelineInv
  <1> QED
    BY <1>1, <1>2, <1>3, <1>4, PipelineInvariant, PointsStep, BoundsStep, PTL DEF Spec

-----------------------------------------------------------------------------
(* The pipeline is a Delivery: each step is a step of Delivery, or changes nothing of it. *)

LEMMA DeliveryStep == PipelineInv /\ [Next]_vars => [D!Next]_D!vars
  <1> DEFINE lost == ringDrops \cup rejected \cup chanDrops \cup skipped
  <1> SUFFICES ASSUME PipelineInv, [Next]_vars
               PROVE  D!Next \/ UNCHANGED <<emitted, lost, rated>>
    BY DEF D!vars
  <1>0. /\ FlowInv /\ HandInv
        /\ Live \cup lost = 1..emitted /\ Live \cap lost = {}
    BY DEF PipelineInv, FlowInv, Partition
  <1>1. CASE Emit
    <2>1. emitted' = emitted + 1 /\ UNCHANGED <<rejected, chanDrops, skipped, rated>>
      BY <1>1, Zenon DEF Emit
    <2>2. ringDrops' \in {ringDrops, ringDrops \cup {emitted + 1}}
      BY <1>1 DEF Emit
    <2>3. lost' \in {lost, lost \cup {emitted + 1}}
      BY <2>1, <2>2
    <2> QED
      BY <2>1, <2>3 DEF D!Next, D!Emit
  <1>2. ASSUME NEW e, e \in Live, e \notin rated, lost' = lost \cup {e}, UNCHANGED <<emitted, rated>>
        PROVE  D!Next
    <2>1. e \in D!Open
      BY <1>0, <1>2 DEF D!Open
    <2> QED
      BY <1>2, <2>1 DEF D!Next, D!Lose
  <1>3. CASE Read
    <2>1. UNCHANGED <<emitted, ringDrops, chanDrops, skipped, rated>>
      BY <1>3, Zenon DEF Read
    <2>2. CASE rejected' = rejected
      BY <2>1, <2>2
    <2>3. CASE rejected' = rejected \cup {Head(ring)}
      <3>1. Head(ring) \in Range(ring)
        BY <1>0, <1>3, HeadTailFacts DEF Read, FlowInv
      <3>2. Head(ring) \in Live /\ Head(ring) \notin rated
        BY <1>0, <3>1, HeadIsEvent DEF Live, FlowInv, Ordered, Below
      <3> QED
        BY <1>2, <2>1, <2>3, <3>2
    <2> QED
      BY <1>3, <2>2, <2>3 DEF Read
  <1>4. CASE Push
    <2>1. UNCHANGED <<emitted, ringDrops, rejected, skipped, rated>>
      BY <1>4, Zenon DEF Push
    <2>2. CASE chanDrops' = chanDrops
      BY <2>1, <2>2
    <2>3. CASE chanDrops' = chanDrops \cup {rev}
      <3>1. Hand(rev) = {rev}
        BY <1>0, <1>4 DEF Push, HandInv, Hand
      <3>2. rev \in Live /\ rev \in Nat
        BY <1>0, <3>1 DEF Live, FlowInv
      <3>3. rev \notin rated
        BY <3>1, <3>2, <1>0 DEF FlowInv, Ordered, Below
      <3> QED
        BY <1>2, <2>1, <2>3, <3>2, <3>3
    <2> QED
      BY <1>4, <2>2, <2>3 DEF Push
  <1>5. CASE Add
    <2>1. UNCHANGED <<emitted, ringDrops, rejected, chanDrops, rated>>
      BY <1>5, Zenon DEF Add
    <2>2. CASE skipped' = skipped
      BY <2>1, <2>2
    <2>3. CASE skipped' = skipped \cup {cev}
      <3>1. Hand(cev) = {cev}
        BY <1>0, <1>5 DEF Add, HandInv, Hand
      <3>2. cev \in Live /\ cev \in Nat
        BY <1>0, <3>1 DEF Live, FlowInv
      <3>3. cev \notin rated
        BY <3>1, <3>2, <1>0 DEF FlowInv, Ordered, Below
      <3> QED
        BY <1>2, <2>1, <2>3, <3>2, <3>3
    <2> QED
      BY <1>5, <2>2, <2>3 DEF Add
  <1>6. CASE ProcessTicked \/ ProcessLast
    <2>1. rated' = rated \cup win /\ UNCHANGED <<emitted, lost>>
      BY <1>6 DEF ProcessTicked, ProcessLast, ProcessWindow
    <2>2. Below(rated, win) /\ win \subseteq 1..emitted /\ win \cap lost = {}
      BY <1>0 DEF FlowInv, Ordered, Live
    <2>3. win \in SUBSET D!Open
      BY <2>2 DEF D!Open, Below
    <2> QED
      BY <2>1, <2>2, <2>3 DEF D!Next, D!RateWindow, Below
  <1>7. CASE ~(Emit \/ Read \/ Push \/ Add \/ ProcessTicked \/ ProcessLast)
    <2>1. UNCHANGED <<emitted, ringDrops, rejected, chanDrops, skipped, rated>>
      BY <1>7 DEF Next, vars, Reader, Consumer, Main, ReadClosed, Receive, Observe, ConsumerDone,
         SelectTick, SelectDone, Wait, RotateLast, Persist, Tick, Signal, Kill
    <2> QED
      BY <2>1
  <1> QED
    BY <1>1, <1>3, <1>4, <1>5, <1>6, <1>7

\* Every behaviour of the pipeline is one the path of an event is promised to have.
THEOREM PipelineDelivers == Spec => ImplementsDelivery
  <1>1. Init => D!Init
    BY DEF Init, D!Init
  <1> QED
    BY <1>1, PipelineInvariant, DeliveryStep, PTL DEF Spec, ImplementsDelivery, D!Spec
=============================================================================
