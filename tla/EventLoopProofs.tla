--------------------------- MODULE EventLoopProofs ---------------------------
(***************************************************************************)
(* Proofs about an event in the consumer goroutine, for any processes,     *)
(* workloads, sizes, limits and times to live.                             *)
(*                                                                         *)
(* Cache. An entry names what its pid runs, or stopped to run no earlier   *)
(* than a time to live before the entry expires, give or take the time     *)
(* that lookups lay between their read and their insertion                 *)
(* (EntriesRecent, ReadRecent). A hit comes before the entry expires.      *)
(* While a lookup reads, its pid has no entry, so no pid gets two          *)
(* (CacheInv).                                                             *)
(*                                                                         *)
(* Window. A bag of counts is followed event by event: one more event      *)
(* adds one to the recount of each dimension that Add increments, and      *)
(* nothing to any other. The derived metrics rest on tables that are       *)
(* recounts themselves: forks by parent, destinations, exec times          *)
(* (WindowInv).                                                            *)
(***************************************************************************)
EXTENDS EventLoop, TLAPS, FiniteSetTheorems, WellFoundedInduction

Bins == Binaries \cup {"none"}

Entry == [pid : Pids, binary : Bins, expires : Nat]

Event == [type : {k[1] : k \in UNION Workloads}, pid : Pids, ppid : Pids \cup {0}, at : Nat,
          comm : Bins, flags : {k[2] : k \in UNION Workloads}, file : Bins,
          ip : Addresses \cup {"none"}, binary : Bins]

Types ==
    /\ workload \in Workloads /\ now \in Nat /\ slow \in Nat
    /\ exe \in [Pids -> Bins] /\ parent \in [Pids -> Pids \cup {0}]
    /\ lastRan \in [Pids -> [Bins -> Nat]]
    /\ pidOrder \in Seq(Entry) /\ queue \in Seq(Event)

LookupTypes ==
    /\ lookup.stage \in {"none", "named", "asked", "read", "answered"}
    /\ lookup.stage \in {"asked", "read", "answered"} => lookup.pid \in Pids
    /\ lookup.stage \in {"named", "read", "answered"} => lookup.binary \in Bins
    /\ lookup.stage = "answered" => lookup.at \in Nat /\ lookup.at <= now
    /\ lookup.stage # "none" => queue # <<>>

RanBefore == \A pid \in Pids, binary \in Bins : lastRan[pid][binary] <= now

\* The pid runs the binary, or did so at the time given or later.
RanAt(pid, binary, time) == exe[pid] = binary \/ lastRan[pid][binary] >= time

ReadRecent == lookup.stage = "read" => RanAt(lookup.pid, lookup.binary, now - slow)

EntriesRecent ==
    \A i \in 1 .. Len(pidOrder) : LET e == pidOrder[i] IN
        e.expires <= now + TTL /\ RanAt(e.pid, e.binary, e.expires - TTL - slow)

AnswerRecent ==
    lookup.stage = "answered" => RanAt(lookup.pid, lookup.binary, lookup.at - TTL - slow + 1)

Recent == RanBefore /\ ReadRecent /\ EntriesRecent /\ AnswerRecent
Inv == Types /\ LookupTypes /\ Recent

-----------------------------------------------------------------------------

LEMMA Constants ==
    /\ TTL \in Nat \ {0} /\ CacheMax \in Nat \ {0} /\ Binaries # {}
BY ConstantsAssumption DEF CacheConstantsOK

LEMMA InitInv == Init => Inv
<1>. SUFFICES ASSUME Init PROVE Inv
  OBVIOUS
<1>1. exe \in [Pids -> Bins] /\ parent \in [Pids -> Pids \cup {0}]
  BY DEF Init, Bins
<1>2. /\ lastRan = [pid \in Pids |-> [b \in Bins |-> 0]]
      /\ pidOrder = <<>> /\ queue = <<>> /\ now = 1 /\ slow = 0
      /\ workload \in Workloads /\ lookup.stage = "none"
  BY DEF Init, CacheInit, NoLookup, Bins
<1>3. Types
  BY <1>1, <1>2 DEF Types
<1>4. LookupTypes
  BY <1>2 DEF LookupTypes
<1>5. RanBefore
  BY <1>2 DEF RanBefore
<1>6. ReadRecent /\ EntriesRecent /\ AnswerRecent
  BY <1>2 DEF ReadRecent, EntriesRecent, AnswerRecent
<1>. QED  BY <1>3, <1>4, <1>5, <1>6 DEF Inv, Recent

\* What was run lately still was, when a pid goes on to something else.
LEMMA RunsKeeps ==
    ASSUME Inv, now' = now, NEW p \in Pids, NEW b \in Bins, Runs(p, b)
    PROVE  /\ exe' \in [Pids -> Bins] /\ lastRan' \in [Pids -> [Bins -> Nat]]
           /\ RanBefore'
           /\ \A pid \in Pids, binary \in Bins, time \in Int :
                 RanAt(pid, binary, time) /\ time <= now => RanAt(pid, binary, time)'
<1>1. /\ exe' = [exe EXCEPT ![p] = b]
      /\ lastRan' = [lastRan EXCEPT ![p] = [lastRan[p] EXCEPT ![exe[p]] = now]]
  BY DEF Runs
<1>2. exe \in [Pids -> Bins] /\ lastRan \in [Pids -> [Bins -> Nat]] /\ now \in Nat
  BY DEF Inv, Types
<1>3. exe' \in [Pids -> Bins] /\ exe[p] \in Bins
  BY <1>1, <1>2
<1>4. lastRan' \in [Pids -> [Bins -> Nat]]
  <2>1. [lastRan[p] EXCEPT ![exe[p]] = now] \in [Bins -> Nat]
    BY <1>2, <1>3
  <2>. QED  BY <1>1, <1>2, <2>1
<1>5. ASSUME NEW pid \in Pids, NEW binary \in Bins
      PROVE  /\ lastRan'[pid][binary] = IF pid = p /\ binary = exe[p] THEN now
                                        ELSE lastRan[pid][binary]
             /\ exe'[pid] = IF pid = p THEN b ELSE exe[pid]
  <2>1. CASE pid = p
    <3>1. lastRan'[pid] = [lastRan[p] EXCEPT ![exe[p]] = now]
      BY <1>1, <1>2, <2>1
    <3>. QED  BY <1>1, <1>2, <2>1, <3>1
  <2>2. CASE pid # p
    BY <1>1, <1>2, <2>2
  <2>. QED  BY <2>1, <2>2
<1>6. RanBefore'
  BY <1>2, <1>5 DEF Inv, Recent, RanBefore
<1>7. ASSUME NEW pid \in Pids, NEW binary \in Bins, NEW time \in Int,
             RanAt(pid, binary, time), time <= now
      PROVE  RanAt(pid, binary, time)'
  <2>1. CASE exe[pid] = binary /\ pid = p
    BY <1>2, <1>5, <1>7, <2>1 DEF RanAt
  <2>2. CASE exe[pid] = binary /\ pid # p
    BY <1>5, <2>2 DEF RanAt
  <2>3. CASE lastRan[pid][binary] >= time
    BY <1>2, <1>5, <1>7, <2>3 DEF RanAt
  <2>. QED  BY <1>7, <2>1, <2>2, <2>3 DEF RanAt
<1>. QED  BY <1>3, <1>4, <1>6, <1>7

LEMMA Joined ==
    ASSUME NEW S, NEW s \in Seq(S), NEW t \in Seq(S)
    PROVE  /\ s \o t \in Seq(S) /\ Len(s \o t) = Len(s) + Len(t)
           /\ \A j \in 1 .. Len(s) + Len(t) :
                 (s \o t)[j] = IF j <= Len(s) THEN s[j] ELSE t[j - Len(s)]
OBVIOUS

\* Removing an entry leaves others as they were.
LEMMA RemovedAt ==
    ASSUME NEW S, NEW s \in Seq(S), NEW i \in 1 .. Len(s)
    PROVE  /\ RemoveAt(s, i) \in Seq(S) /\ Len(RemoveAt(s, i)) = Len(s) - 1
           /\ \A j \in 1 .. Len(s) - 1 : RemoveAt(s, i)[j] = s[IF j < i THEN j ELSE j + 1]
<1>. DEFINE a == SubSeq(s, 1, i - 1)
            c == SubSeq(s, i + 1, Len(s))
<1>0. Len(s) \in Nat /\ i \in Nat /\ i >= 1 /\ i <= Len(s)
  OBVIOUS
<1>1. /\ a \in Seq(S) /\ Len(a) = i - 1
      /\ \A j \in 1 .. i - 1 : a[j] = s[j]
  OBVIOUS
<1>2. /\ c \in Seq(S) /\ Len(c) = Len(s) - i
      /\ \A j \in 1 .. Len(s) - i : c[j] = s[i + j]
  OBVIOUS
<1>3. RemoveAt(s, i) = a \o c
  BY DEF RemoveAt
<1>. HIDE DEF a, c
<1>4. a \o c \in Seq(S) /\ Len(a \o c) = Len(s) - 1
  <2>1. a \o c \in Seq(S) /\ Len(a \o c) = Len(a) + Len(c)
    BY <1>1, <1>2, Joined
  <2>. QED  BY <1>0, <1>1, <1>2, <2>1
<1>5. ASSUME NEW j \in 1 .. Len(s) - 1
      PROVE  (a \o c)[j] = s[IF j < i THEN j ELSE j + 1]
  <2>1. CASE j <= i - 1
    <3>1. (a \o c)[j] = s[j]
      BY <1>1, <1>2, <2>1
    <3>2. j < i /\ j \in 1 .. Len(s)
      BY <1>0, <2>1
    <3>. QED  BY <3>1, <3>2
  <2>2. CASE j > i - 1
    <3>1. (a \o c)[j] = c[j - (i - 1)]
      BY <1>1, <1>2, <2>2
    <3>2. c[j - (i - 1)] = s[j + 1] /\ j + 1 \in 1 .. Len(s) /\ ~(j < i)
      BY <1>0, <1>2, <2>2
    <3>. QED  BY <3>1, <3>2
  <2>3. j \in Int
    OBVIOUS
  <2>4. j <= i - 1 \/ j > i - 1
    BY <1>0, <2>3
  <2>. QED  BY <2>1, <2>2, <2>4
<1>. QED  BY <1>3, <1>4, <1>5

LEMMA Removed ==
    ASSUME NEW S, NEW s \in Seq(S), NEW i \in 1 .. Len(s)
    PROVE  /\ RemoveAt(s, i) \in Seq(S)
           /\ \A j \in 1 .. Len(RemoveAt(s, i)) :
                 \E k \in 1 .. Len(s) : RemoveAt(s, i)[j] = s[k]
<1>1. /\ RemoveAt(s, i) \in Seq(S) /\ Len(RemoveAt(s, i)) = Len(s) - 1
      /\ \A j \in 1 .. Len(s) - 1 : RemoveAt(s, i)[j] = s[IF j < i THEN j ELSE j + 1]
  BY RemovedAt
<1>2. \A j \in 1 .. Len(s) - 1 : (IF j < i THEN j ELSE j + 1) \in 1 .. Len(s)
  OBVIOUS
<1>. QED  BY <1>1, <1>2

\* Entries that all come from the cache, put behind one that is recent, are recent.
LEMMA PutFirst ==
    ASSUME Inv, UNCHANGED <<now, slow, exe, lastRan>>,
           NEW e \in Entry, e.expires <= now + TTL, RanAt(e.pid, e.binary, e.expires - TTL - slow),
           NEW rest \in Seq(Entry),
           \A j \in 1 .. Len(rest) : \E k \in 1 .. Len(pidOrder) : rest[j] = pidOrder[k],
           pidOrder' = <<e>> \o rest
    PROVE  pidOrder' \in Seq(Entry) /\ EntriesRecent'
<1>1. /\ <<e>> \o rest \in Seq(Entry) /\ Len(<<e>> \o rest) = Len(rest) + 1
      /\ (<<e>> \o rest)[1] = e
      /\ \A j \in 2 .. Len(rest) + 1 : (<<e>> \o rest)[j] = rest[j - 1]
  OBVIOUS
<1>2. ASSUME NEW j \in 1 .. Len(pidOrder')
      PROVE  LET x == pidOrder'[j] IN
                x.expires <= now + TTL /\ RanAt(x.pid, x.binary, x.expires - TTL - slow)
  <2>1. CASE j = 1
    BY <1>1, <2>1
  <2>2. CASE j # 1
    <3>1. j - 1 \in 1 .. Len(rest) /\ pidOrder'[j] = rest[j - 1]
      BY <1>1, <1>2, <2>2
    <3>2. PICK k \in 1 .. Len(pidOrder) : rest[j - 1] = pidOrder[k]
      BY <3>1
    <3>. QED  BY <3>1, <3>2 DEF Inv, Recent, EntriesRecent
  <2>. QED  BY <2>1, <2>2
<1>3. EntriesRecent'
  BY <1>2 DEF EntriesRecent, RanAt
<1>. QED  BY <1>1, <1>3

\* Time alone leaves what was recent recent: the limits of a lookup move with it.
LEMMA TickKeeps ==
    ASSUME Inv, Tick
    PROVE  Inv'
<1>1. /\ now' = now + 1 /\ now \in Nat /\ slow \in Nat /\ slow' \in Nat
      /\ slow' = IF lookup.stage = "read" THEN slow + 1 ELSE slow
      /\ UNCHANGED <<pidOrder, lookup, workload, exe, parent, lastRan, queue>>
  BY DEF Tick, Inv, Types, kernel
<1>2. Types'
  BY <1>1 DEF Inv, Types
<1>3. LookupTypes'
  BY <1>1 DEF Inv, LookupTypes
<1>4. RanBefore'
  BY <1>1 DEF Inv, Types, Recent, RanBefore
<1>5. ReadRecent'
  <2>. SUFFICES ASSUME lookup.stage = "read" PROVE RanAt(lookup.pid, lookup.binary, now - slow)'
    BY <1>1 DEF ReadRecent
  <2>1. RanAt(lookup.pid, lookup.binary, now - slow) /\ now' - slow' = now - slow
    BY <1>1 DEF Inv, Recent, ReadRecent
  <2>. QED  BY <1>1, <2>1 DEF RanAt
<1>6. EntriesRecent'
  <2>1. ASSUME NEW i \in 1 .. Len(pidOrder)
        PROVE  LET e == pidOrder[i] IN
                  /\ e.expires <= now' + TTL
                  /\ exe[e.pid] = e.binary \/ lastRan[e.pid][e.binary] >= e.expires - TTL - slow'
    <3>1. PICK e \in Entry : e = pidOrder[i]
      BY DEF Inv, Types
    <3>2. e.expires <= now + TTL /\ RanAt(e.pid, e.binary, e.expires - TTL - slow)
      BY <3>1 DEF Inv, Recent, EntriesRecent
    <3>3. e.expires \in Nat /\ lastRan[e.pid][e.binary] \in Nat
      BY DEF Entry, Inv, Types
    <3>4. e.expires <= now' + TTL
      BY <1>1, <3>2, <3>3, Constants
    <3>5. e.expires - TTL - slow >= e.expires - TTL - slow'
      BY <1>1, <3>3, Constants
    <3>6. exe[e.pid] = e.binary \/ lastRan[e.pid][e.binary] >= e.expires - TTL - slow'
      BY <1>1, <3>2, <3>3, <3>5, Constants DEF RanAt
    <3>. QED  BY <3>1, <3>4, <3>6
  <2>. QED  BY <1>1, <2>1 DEF EntriesRecent, RanAt
<1>7. AnswerRecent'
  <2>. SUFFICES ASSUME lookup.stage = "answered"
                PROVE  RanAt(lookup.pid, lookup.binary, lookup.at - TTL - slow + 1)'
    BY <1>1 DEF AnswerRecent
  <2>1. RanAt(lookup.pid, lookup.binary, lookup.at - TTL - slow + 1) /\ slow' = slow
    BY <1>1 DEF Inv, Recent, AnswerRecent
  <2>. QED  BY <1>1, <2>1 DEF RanAt
<1>. QED  BY <1>2, <1>3, <1>4, <1>5, <1>6, <1>7 DEF Inv, Recent

\* An event that joins the queue, or is lost, touches neither clock nor cache.
LEMMA EmitKeeps ==
    ASSUME Inv, NEW type, NEW pid \in Pids, NEW flags, NEW file \in Bins,
           NEW ip \in Addresses \cup {"none"}, Emit(type, pid, flags, file, ip)
    PROVE  /\ UNCHANGED <<now, pidOrder, lookup, workload, slow>>
           /\ queue' \in Seq(Event) /\ (queue # <<>> => queue' # <<>>)
<1>1. UNCHANGED <<now, pidOrder, lookup, workload, slow>>
  BY DEF Emit, history
<1>. DEFINE ev == [type |-> type, pid |-> pid, ppid |-> parent[pid], at |-> now,
                   comm |-> exe[pid], flags |-> flags, file |-> file, ip |-> ip,
                   binary |-> "none"]
<1>2. ev \in Event
  <2>1. parent[pid] \in Pids \cup {0} /\ now \in Nat /\ exe[pid] \in Bins
    BY DEF Inv, Types
  <2>2. <<type, flags>> \in UNION Workloads
    BY DEF Emit, Inv, Types
  <2>3. type \in {k[1] : k \in UNION Workloads} /\ flags \in {k[2] : k \in UNION Workloads}
    BY <2>2
  <2>. QED  BY <2>1, <2>3 DEF Event, Bins
<1>3. queue' = Append(queue, ev) \/ queue' = queue
  BY DEF Emit
<1>4. queue \in Seq(Event)
  BY DEF Inv, Types
<1>. HIDE DEF ev
<1>. QED  BY <1>1, <1>2, <1>3, <1>4

\* What the kernel does to processes keeps the invariant, if it keeps what ran lately.
LEMMA KernelKeeps ==
    ASSUME Inv, UNCHANGED <<now, pidOrder, lookup, workload, slow>>, queue' \in Seq(Event),
           queue # <<>> => queue' # <<>>,
           parent' \in [Pids -> Pids \cup {0}],
           \/ \E p \in Pids, b \in Bins : Runs(p, b)
           \/ UNCHANGED <<exe, lastRan>>
    PROVE  Inv'
<1>1. /\ exe' \in [Pids -> Bins] /\ lastRan' \in [Pids -> [Bins -> Nat]] /\ RanBefore'
      /\ \A pid \in Pids, binary \in Bins, time \in Int :
            RanAt(pid, binary, time) /\ time <= now => RanAt(pid, binary, time)'
  <2>1. CASE \E p \in Pids, b \in Bins : Runs(p, b)
    BY <2>1, RunsKeeps
  <2>2. CASE UNCHANGED <<exe, lastRan>>
    BY <2>2 DEF Inv, Types, Recent, RanBefore, RanAt
  <2>. QED  BY <2>1, <2>2
<1>2. now \in Nat /\ slow \in Nat
  BY DEF Inv, Types
<1>3. Types'
  BY <1>1 DEF Inv, Types
<1>4. LookupTypes'
  BY DEF Inv, LookupTypes
<1>5. ReadRecent'
  <2>. SUFFICES ASSUME lookup.stage = "read" PROVE RanAt(lookup.pid, lookup.binary, now - slow)'
    BY DEF ReadRecent
  <2>1. lookup.pid \in Pids /\ lookup.binary \in Bins
    BY DEF Inv, LookupTypes
  <2>2. RanAt(lookup.pid, lookup.binary, now - slow)
    BY DEF Inv, Recent, ReadRecent
  <2>3. now - slow \in Int /\ now - slow <= now
    BY <1>2
  <2>4. \A time \in Int : RanAt(lookup.pid, lookup.binary, time) /\ time <= now
                            => RanAt(lookup.pid, lookup.binary, time)'
    BY <1>1, <2>1 DEF RanAt
  <2>. QED  BY <2>2, <2>3, <2>4 DEF RanAt
<1>6. EntriesRecent'
  <2>. SUFFICES ASSUME NEW i \in 1 .. Len(pidOrder)
                PROVE  LET e == pidOrder[i] IN
                          e.expires <= now + TTL /\ RanAt(e.pid, e.binary, e.expires - TTL - slow)'
    BY DEF EntriesRecent
  <2>. DEFINE e == pidOrder[i]
  <2>1. e \in Entry /\ e.expires <= now + TTL /\ RanAt(e.pid, e.binary, e.expires - TTL - slow)
    BY DEF Inv, Types, Recent, EntriesRecent
  <2>2. e.expires \in Nat /\ e.pid \in Pids /\ e.binary \in Bins
    BY <2>1 DEF Entry
  <2>3. e.expires - TTL - slow \in Int /\ e.expires - TTL - slow <= now
    BY <1>2, <2>1, <2>2, Constants
  <2>4. \A time \in Int : RanAt(e.pid, e.binary, time) /\ time <= now
                            => RanAt(e.pid, e.binary, time)'
    BY <1>1, <2>2 DEF RanAt
  <2>. QED  BY <2>1, <2>3, <2>4 DEF RanAt
<1>7. AnswerRecent'
  <2>. SUFFICES ASSUME lookup.stage = "answered"
                PROVE  RanAt(lookup.pid, lookup.binary, lookup.at - TTL - slow + 1)'
    BY DEF AnswerRecent
  <2>1. lookup.pid \in Pids /\ lookup.binary \in Bins /\ lookup.at \in Nat /\ lookup.at <= now
    BY DEF Inv, LookupTypes
  <2>2. RanAt(lookup.pid, lookup.binary, lookup.at - TTL - slow + 1)
    BY DEF Inv, Recent, AnswerRecent
  <2>3. lookup.at - TTL - slow + 1 \in Int /\ lookup.at - TTL - slow + 1 <= now
    BY <1>2, <2>1, Constants
  <2>4. \A time \in Int : RanAt(lookup.pid, lookup.binary, time) /\ time <= now
                            => RanAt(lookup.pid, lookup.binary, time)'
    BY <1>1, <2>1 DEF RanAt
  <2>. QED  BY <2>2, <2>3, <2>4 DEF RanAt
<1>. QED  BY <1>1, <1>3, <1>4, <1>5, <1>6, <1>7 DEF Inv, Recent

\* The consumer changes neither the clock nor what processes run.
Kept == UNCHANGED <<now, slow, exe, parent, lastRan, workload>>

\* A step of the consumer keeps the invariant if its entries and its lookup stay recent.
LEMMA ConsumerKeeps ==
    ASSUME Inv, Kept, queue' \in Seq(Event), pidOrder' \in Seq(Entry), EntriesRecent',
           LookupTypes', ReadRecent', AnswerRecent'
    PROVE  Inv'
BY DEF Inv, Types, Recent, RanBefore, Kept

LEMMA EnrichKeeps ==
    ASSUME Inv, Enrich
    PROVE  Inv'
<1>1. Kept /\ queue' = queue /\ queue # <<>> /\ queue \in Seq(Event)
  BY DEF Enrich, Kept, kernel, history, Inv, Types
<1>2. PICK ev \in Event :
        \/ /\ lookup' = [stage |-> "named", pid |-> ev.pid, binary |-> ev.file]
           /\ UNCHANGED pidOrder
        \/ AskCache(ev.pid)
  BY <1>1 DEF Enrich
<1>3. ev.pid \in Pids /\ now \in Nat /\ slow \in Nat /\ pidOrder \in Seq(Entry) /\ EntriesRecent
  BY DEF Event, Inv, Types, Recent
<1>. ev.file \in Bins
  BY DEF Event
<1>4. CASE UNCHANGED pidOrder /\ lookup'.stage \in {"named", "asked"}
                              /\ lookup'.pid = ev.pid
                              /\ (lookup'.stage = "named" => lookup'.binary \in Bins)
  <2>1. EntriesRecent'
    BY <1>1, <1>3, <1>4 DEF Kept, EntriesRecent, RanAt
  <2>2. LookupTypes' /\ ReadRecent' /\ AnswerRecent'
    BY <1>1, <1>3, <1>4 DEF LookupTypes, ReadRecent, AnswerRecent
  <2>. QED  BY <1>1, <1>3, <1>4, <2>1, <2>2, ConsumerKeeps
<1>5. ASSUME NEW i \in Index(ev.pid), ~Fresh(i), pidOrder' = RemoveAt(pidOrder, i),
             lookup' = [stage |-> "asked", pid |-> ev.pid]
      PROVE  Inv'
  <2>1. i \in 1 .. Len(pidOrder)
    BY <1>5 DEF Index
  <2>2. /\ pidOrder' \in Seq(Entry)
        /\ \A j \in 1 .. Len(pidOrder') : \E k \in 1 .. Len(pidOrder) : pidOrder'[j] = pidOrder[k]
    BY <1>3, <1>5, <2>1, Removed
  <2>3. EntriesRecent'
    BY <1>1, <1>3, <2>2 DEF Kept, EntriesRecent, RanAt
  <2>4. LookupTypes' /\ ReadRecent' /\ AnswerRecent'
    BY <1>1, <1>3, <1>5 DEF LookupTypes, ReadRecent, AnswerRecent
  <2>. QED  BY <1>1, <2>2, <2>3, <2>4, ConsumerKeeps
<1>6. ASSUME NEW i \in Index(ev.pid), Fresh(i), Hit(i),
             lookup' = Answered(ev.pid, pidOrder[i].binary)
      PROVE  Inv'
  <2>1. PICK e \in Entry : e = pidOrder[i] /\ e.pid = ev.pid /\ i \in 1 .. Len(pidOrder)
    BY <1>3, <1>6 DEF Index
  <2>2. /\ e.expires <= now + TTL /\ RanAt(e.pid, e.binary, e.expires - TTL - slow)
        /\ e.expires \in Nat /\ e.binary \in Bins /\ e.pid \in Pids /\ now < e.expires
    BY <1>3, <1>6, <2>1 DEF EntriesRecent, Entry, Fresh
  <2>3. /\ RemoveAt(pidOrder, i) \in Seq(Entry)
        /\ \A j \in 1 .. Len(RemoveAt(pidOrder, i)) :
              \E k \in 1 .. Len(pidOrder) : RemoveAt(pidOrder, i)[j] = pidOrder[k]
    BY <1>3, <2>1, Removed
  <2>4. pidOrder' = <<e>> \o RemoveAt(pidOrder, i)
    BY <1>6, <2>1 DEF Hit
  <2>5. pidOrder' \in Seq(Entry) /\ EntriesRecent'
    BY <1>1, <2>2, <2>3, <2>4, PutFirst DEF Kept
  <2>6. lookup' = [stage |-> "answered", pid |-> e.pid, binary |-> e.binary, at |-> now]
    BY <1>6, <2>1 DEF Answered
  <2>7. LookupTypes' /\ ReadRecent'
    BY <1>1, <1>3, <2>2, <2>6 DEF LookupTypes, ReadRecent, Kept
  <2>8. lastRan[e.pid][e.binary] \in Nat
    BY <2>2 DEF Inv, Types
  <2>9. exe[e.pid] = e.binary \/ lastRan[e.pid][e.binary] >= now - TTL - slow + 1
    BY <1>3, <2>2, <2>8, Constants DEF RanAt
  <2>10. AnswerRecent'
    BY <1>1, <2>6, <2>9 DEF AnswerRecent, RanAt, Kept
  <2>. QED  BY <1>1, <2>5, <2>7, <2>10, ConsumerKeeps
<1>. QED  BY <1>2, <1>3, <1>4, <1>5, <1>6 DEF AskCache

LEMMA ResolveKeeps ==
    ASSUME Inv, Resolve
    PROVE  Inv'
<1>1. /\ Kept /\ queue' = queue /\ UNCHANGED pidOrder /\ lookup.stage = "asked"
      /\ lookup' = [stage |-> "read", pid |-> lookup.pid, binary |-> exe[lookup.pid]]
  BY DEF Resolve, ReadLink, Kept, kernel, history
<1>2. lookup.pid \in Pids /\ exe[lookup.pid] \in Bins
  BY <1>1 DEF Inv, LookupTypes, Types
<1>3. EntriesRecent'
  BY <1>1 DEF Kept, Inv, Recent, EntriesRecent, RanAt
<1>4. LookupTypes' /\ AnswerRecent'
  BY <1>1, <1>2 DEF Inv, LookupTypes, AnswerRecent
<1>5. ReadRecent'
  BY <1>1 DEF Kept, ReadRecent, RanAt
<1>. QED  BY <1>1, <1>3, <1>4, <1>5, ConsumerKeeps DEF Inv, Types

LEMMA RememberKeeps ==
    ASSUME Inv, Remember
    PROVE  Inv'
<1>. DEFINE e == [pid |-> lookup.pid, binary |-> lookup.binary, expires |-> now + TTL]
<1>1. /\ Kept /\ queue' = queue /\ lookup.stage = "read"
      /\ pidOrder' = <<e>> \o EvictPIDIfNeeded
      /\ lookup' = [stage |-> "answered", pid |-> lookup.pid, binary |-> lookup.binary,
                    at |-> now]
  BY DEF Remember, Insert, Answered, Kept, kernel, history
<1>2. /\ lookup.pid \in Pids /\ lookup.binary \in Bins /\ now \in Nat /\ slow \in Nat
      /\ pidOrder \in Seq(Entry) /\ RanAt(lookup.pid, lookup.binary, now - slow)
  BY <1>1 DEF Inv, Types, LookupTypes, Recent, ReadRecent
<1>3. /\ EvictPIDIfNeeded \in Seq(Entry)
      /\ \A j \in 1 .. Len(EvictPIDIfNeeded) :
            \E k \in 1 .. Len(pidOrder) : EvictPIDIfNeeded[j] = pidOrder[k]
  <2>1. CASE Len(pidOrder) >= CacheMax
    <3>1. CacheMax - 1 \in Nat /\ CacheMax - 1 <= Len(pidOrder)
      BY <1>2, <2>1, Constants
    <3>2. /\ SubSeq(pidOrder, 1, CacheMax - 1) \in Seq(Entry)
          /\ Len(SubSeq(pidOrder, 1, CacheMax - 1)) = CacheMax - 1
          /\ \A j \in 1 .. CacheMax - 1 : SubSeq(pidOrder, 1, CacheMax - 1)[j] = pidOrder[j]
      BY <1>2, <3>1
    <3>. QED  BY <1>2, <2>1, <3>1, <3>2 DEF EvictPIDIfNeeded
  <2>2. CASE ~(Len(pidOrder) >= CacheMax)
    BY <1>2, <2>2 DEF EvictPIDIfNeeded
  <2>. QED  BY <2>1, <2>2
<1>4. e \in Entry /\ e.expires = now + TTL /\ e.pid = lookup.pid /\ e.binary = lookup.binary
  BY <1>2, Constants DEF Entry
<1>5. e.expires - TTL - slow = now - slow
  BY <1>2, <1>4, Constants
<1>6. pidOrder' \in Seq(Entry) /\ EntriesRecent'
  <2>. HIDE DEF e
  <2>1. e.expires <= now + TTL /\ RanAt(e.pid, e.binary, e.expires - TTL - slow)
    BY <1>2, <1>4, <1>5, Constants
  <2>. QED  BY <1>1, <1>3, <1>4, <2>1, PutFirst DEF Kept
<1>7. LookupTypes' /\ ReadRecent'
  BY <1>1, <1>2 DEF Inv, LookupTypes, ReadRecent, Kept
<1>8. AnswerRecent'
  <2>1. lastRan[lookup.pid][lookup.binary] \in Nat /\ now - TTL - slow + 1 <= now - slow
    BY <1>2, Constants DEF Inv, Types
  <2>2. \/ exe[lookup.pid] = lookup.binary
        \/ lastRan[lookup.pid][lookup.binary] >= now - TTL - slow + 1
    BY <1>2, <2>1, Constants DEF RanAt
  <2>. QED  BY <1>1, <2>2 DEF AnswerRecent, RanAt, Kept
<1>. QED  BY <1>1, <1>6, <1>7, <1>8, ConsumerKeeps DEF Inv, Types

LEMMA CountKeeps ==
    ASSUME Inv, Count
    PROVE  Inv'
<1>1. /\ Kept /\ queue' = Tail(queue) /\ UNCHANGED pidOrder /\ lookup'.stage = "none"
  BY DEF Count, NoLookup, Kept, kernel
<1>2. queue' \in Seq(Event)
  BY <1>1 DEF Count, Inv, Types, LookupTypes
<1>3. EntriesRecent' /\ LookupTypes' /\ ReadRecent' /\ AnswerRecent'
  BY <1>1 DEF Kept, Inv, Recent, EntriesRecent, RanAt, LookupTypes, ReadRecent, AnswerRecent
<1>. QED  BY <1>1, <1>2, <1>3, ConsumerKeeps DEF Inv, Types

LEMMA NextInv ==
    ASSUME Inv, [Next]_vars
    PROVE  Inv'
<1>1. ASSUME NEW kind \in workload, NEW pid \in Pids, NEW binary \in Binaries,
             NEW readable \in BOOLEAN, Exec(pid, binary, readable, kind[2])
      PROVE  Inv'
  <2>. DEFINE file == IF readable THEN binary ELSE "none"
  <2>1. file \in Bins /\ binary \in Bins /\ Emit("exec", pid, kind[2], file, "none")
    BY <1>1 DEF Exec, Bins
  <2>2. parent' \in [Pids -> Pids \cup {0}]
    BY <1>1 DEF Exec, Inv, Types
  <2>. HIDE DEF file
  <2>3. /\ UNCHANGED <<now, pidOrder, lookup, workload, slow>>
        /\ queue' \in Seq(Event) /\ (queue # <<>> => queue' # <<>>)
    BY <2>1, EmitKeeps
  <2>. QED  BY <1>1, <2>1, <2>2, <2>3, KernelKeeps DEF Exec
<1>2. ASSUME NEW pid \in Pids, NEW child \in Pids, Fork(pid, child)
      PROVE  Inv'
  <2>1. /\ UNCHANGED <<now, pidOrder, lookup, workload, slow>>
        /\ queue' \in Seq(Event) /\ (queue # <<>> => queue' # <<>>)
    BY <1>2, EmitKeeps DEF Fork, Bins
  <2>2. parent' \in [Pids -> Pids \cup {0}] /\ exe[pid] \in Bins
    BY <1>2 DEF Fork, Inv, Types
  <2>3. \E p \in Pids, b \in Bins : Runs(p, b)
    BY <1>2, <2>2 DEF Fork
  <2>. QED  BY <2>1, <2>2, <2>3, KernelKeeps
<1>3. ASSUME NEW pid \in Pids, Exit(pid)
      PROVE  Inv'
  <2>1. /\ UNCHANGED <<now, pidOrder, lookup, workload, slow>>
        /\ queue' \in Seq(Event) /\ (queue # <<>> => queue' # <<>>)
    BY <1>3, EmitKeeps DEF Exit, Bins
  <2>2. parent' \in [Pids -> Pids \cup {0}]
    BY <1>3 DEF Exit, Inv, Types
  <2>3. (\E p \in Pids, b \in Bins : Runs(p, b)) \/ UNCHANGED <<exe, lastRan>>
    BY <1>3 DEF Exit, Bins
  <2>. QED  BY <2>1, <2>2, <2>3, KernelKeeps
<1>4. ASSUME NEW type, NEW pid \in Pids, NEW flags, NEW ip \in Addresses \cup {"none"},
             Other(type, pid, flags, ip)
      PROVE  Inv'
  <2>1. /\ UNCHANGED <<now, pidOrder, lookup, workload, slow>>
        /\ queue' \in Seq(Event) /\ (queue # <<>> => queue' # <<>>)
    BY <1>4, EmitKeeps DEF Other, Bins
  <2>2. UNCHANGED <<exe, lastRan, parent>>
    BY <1>4 DEF Other, kernel
  <2>3. parent' \in [Pids -> Pids \cup {0}]
    BY <2>2 DEF Inv, Types
  <2>. QED  BY <2>1, <2>2, <2>3, KernelKeeps
<1>5. CASE RotateWindow \/ UNCHANGED vars
  <2>1. Kept /\ UNCHANGED <<queue, pidOrder, lookup>>
    BY <1>5 DEF RotateWindow, vars, Kept, kernel, history
  <2>2. EntriesRecent' /\ LookupTypes' /\ ReadRecent' /\ AnswerRecent'
    BY <2>1 DEF Kept, Inv, Recent, EntriesRecent, RanAt, LookupTypes, ReadRecent, AnswerRecent
  <2>. QED  BY <2>1, <2>2, ConsumerKeeps DEF Inv, Types
<1>. QED  BY <1>1, <1>2, <1>3, <1>4, <1>5, TickKeeps, EnrichKeeps, ResolveKeeps, RememberKeeps,
             CountKeeps DEF Next

LEMMA InvAlways == Spec => []Inv
BY InitInv, NextInv, PTL DEF Spec

\* The binary that the cache gives for a pid (resolveBinary) is one that it ran less than
\* pidCacheTTL before, and the time that the lookup lay between its read and its insertion:
\* for any number of pids and binaries, any size of the cache and any time to live.
THEOREM AnswersAreRecent == Spec => []AnswerIsRecent
<1>1. Inv => AnswerIsRecent
  <2>. SUFFICES ASSUME Inv, lookup.stage = "answered"
                PROVE  \/ exe[lookup.pid] = lookup.binary
                       \/ lastRan[lookup.pid][lookup.binary] + TTL + slow > lookup.at
    BY DEF AnswerIsRecent
  <2>1. /\ lookup.pid \in Pids /\ lookup.binary \in Bins /\ lookup.at \in Nat /\ slow \in Nat
        /\ RanAt(lookup.pid, lookup.binary, lookup.at - TTL - slow + 1)
    BY DEF Inv, Types, LookupTypes, Recent, AnswerRecent
  <2>2. lastRan[lookup.pid][lookup.binary] \in Nat
    BY <2>1 DEF Inv, Types
  <2>. QED  BY <2>1, <2>2, Constants DEF RanAt
<1>. QED  BY <1>1, InvAlways, PTL

-----------------------------------------------------------------------------
(* What was counted. *)

Logged == seen \in Seq(Event) /\ rotated \in Nat /\ rotated <= Len(seen)

LEMMA TypesAre == \A ev \in Event : ev.type \in EventTypes
BY ConstantsAssumption DEF Event

\* The aggregator is touched by Count and RotateWindow alone.
LEMMA Frames ==
    ASSUME [Next]_vars
    PROVE  /\ UNCHANGED options
           /\ Count \/ RotateWindow \/ UNCHANGED <<tables, seen, rotated>>
<1>1. CASE UNCHANGED vars
  BY <1>1 DEF vars, history
<1>2. ASSUME NEW type, NEW pid, NEW flags, NEW file, NEW ip, Emit(type, pid, flags, file, ip)
      PROVE  UNCHANGED <<options, tables, seen, rotated>>
  BY <1>2 DEF Emit, history
<1>3. CASE Tick \/ Enrich \/ Resolve \/ Remember
  BY <1>3 DEF Tick, Enrich, Resolve, Remember, history
<1>4. CASE Count \/ RotateWindow
  BY <1>4 DEF Count, RotateWindow
<1>. QED  BY <1>1, <1>2, <1>3, <1>4 DEF Next, Exec, Fork, Exit, Other

\* Count hands the head of the queue to Add, and puts it behind what was counted before.
LEMMA CountIs ==
    ASSUME Inv, Logged, Count
    PROVE  \E ev \in Event, n \in Nat :
              /\ Add(ev)
              /\ UNCHANGED <<options, rotated>> /\ seen' \in Seq(Event)
              /\ n = Len(seen) /\ Len(seen') = n + 1 /\ seen'[n + 1] = ev
              /\ \A i \in 1 .. n : seen'[i] = seen[i]
<1>. DEFINE ev == [Head(queue) EXCEPT !.binary = lookup.binary]
<1>1. Add(ev) /\ seen' = Append(seen, ev) /\ UNCHANGED <<options, rotated>>
  BY DEF Count
<1>2. ev \in Event
  <2>1. Head(queue) \in Event /\ lookup.binary \in Bins
    BY DEF Count, Inv, LookupTypes, Types
  <2>. QED  BY <2>1 DEF Event
<1>3. seen \in Seq(Event)
  BY DEF Logged
<1>. HIDE DEF ev
<1>. QED  BY <1>1, <1>2, <1>3

LEMMA LoggedStays ==
    ASSUME Inv, Logged, [Next]_vars
    PROVE  Logged'
<1>1. CASE Count
  BY <1>1, CountIs DEF Logged
<1>2. CASE RotateWindow
  BY <1>2 DEF RotateWindow, Logged
<1>3. CASE UNCHANGED <<tables, seen, rotated>>
  BY <1>3 DEF Logged
<1>. QED  BY <1>1, <1>2, <1>3, Frames

LEMMA LoggedFirst == Init => Logged
BY DEF Init, Logged

-----------------------------------------------------------------------------
(* The times of execs. *)

\* Event j is the exec of a process that was not seen to exec again or to exit since.
Opening(j) ==
    /\ seen[j].type = "exec"
    /\ \A i \in j + 1 .. Len(seen) :
          seen[i].pid = seen[j].pid /\ Counted(i) => seen[i].type \notin {"exec", "exit"}

TimesKept ==
    \A pid \in DOMAIN pidExecNs : \E j \in 1 .. Len(seen) :
        Opening(j) /\ seen[j].pid = pid /\ pidExecNs[pid] = seen[j].at

\* The pids whose entry StartsAreOpen asks for.
OpenPids ==
    {pid \in Pids : \E i \in 1 .. Len(seen) :
        /\ seen[i].type = "exec" /\ seen[i].pid = pid
        /\ \A j \in i + 1 .. Len(seen) :
              seen[j].pid = pid /\ seen[j].type = "exit" => ~options.scheduling}

LEMMA StartsFirst == Init => StartsAreOpen /\ TimesKept
BY DEF Init, AggregatorInit, StartsAreOpen, TimesKept

LEMMA StartsStay ==
    ASSUME Inv, Logged, StartsAreOpen, TimesKept, [Next]_vars
    PROVE  StartsAreOpen' /\ TimesKept'
<1>1. CASE Count
  <2>1. PICK ev \in Event, n \in Nat :
              /\ Add(ev)
              /\ UNCHANGED <<options, rotated>> /\ seen' \in Seq(Event)
              /\ n = Len(seen) /\ Len(seen') = n + 1 /\ seen'[n + 1] = ev
              /\ \A i \in 1 .. n : seen'[i] = seen[i]
    BY <1>1, CountIs
  <2>2. ev.pid \in Pids
    BY DEF Event
  <2>3. pidExecNs' = IF ShouldInclude(ev) THEN Starts(ev) ELSE pidExecNs
    BY <2>1 DEF Add, tables
  <2>4. \A i \in 1 .. n : seen'[i] = seen[i] /\ Counted(i)' = Counted(i)
    BY <2>1 DEF Counted, ShouldInclude
  <2>5. DOMAIN pidExecNs = OpenPids
    BY DEF StartsAreOpen, OpenPids
  <2>6. CASE ev.type = "exec"
    <3>1. /\ DOMAIN pidExecNs' = DOMAIN pidExecNs \cup {ev.pid}
          /\ pidExecNs'[ev.pid] = ev.at
          /\ \A pid \in DOMAIN pidExecNs : pid # ev.pid => pidExecNs'[pid] = pidExecNs[pid]
      BY <2>3, <2>6 DEF ShouldInclude, Starts, ExtendWith
    <3>2. OpenPids' = OpenPids \cup {ev.pid}
      BY <2>1, <2>2, <2>6 DEF OpenPids
    <3>3. ASSUME NEW pid \in DOMAIN pidExecNs'
          PROVE  \E j \in 1 .. Len(seen') : Opening(j)' /\ seen'[j].pid = pid
                                              /\ pidExecNs'[pid] = seen'[j].at
      <4>1. CASE pid = ev.pid
        <5>1. Opening(n + 1)'
          BY <2>1, <2>6 DEF Opening
        <5>. QED  BY <2>1, <3>1, <4>1, <5>1
      <4>2. CASE pid # ev.pid
        <5>1. PICK j \in 1 .. n :
                 Opening(j) /\ seen[j].pid = pid /\ pidExecNs[pid] = seen[j].at
          BY <2>1, <3>1, <4>2 DEF TimesKept
        <5>2. ASSUME NEW i \in j + 1 .. n + 1, seen'[i].pid = pid, Counted(i)'
              PROVE  seen'[i].type \notin {"exec", "exit"}
          <6>1. i \in j + 1 .. n
            BY <2>1, <4>2, <5>2
          <6>2. seen'[i] = seen[i] /\ Counted(i)
            BY <2>4, <5>2, <6>1
          <6>. QED  BY <2>1, <5>1, <5>2, <6>1, <6>2 DEF Opening
        <5>3. Opening(j)'
          BY <2>1, <5>1, <5>2 DEF Opening
        <5>. QED  BY <2>1, <3>1, <3>3, <4>2, <5>1, <5>3
      <4>. QED  BY <4>1, <4>2
    <3>. QED  BY <2>5, <3>1, <3>2, <3>3 DEF StartsAreOpen, OpenPids, TimesKept
  <2>7. CASE ev.type = "exit" /\ options.scheduling
    <3>1. /\ DOMAIN pidExecNs' = DOMAIN pidExecNs \ {ev.pid}
          /\ \A pid \in DOMAIN pidExecNs : pid # ev.pid => pidExecNs'[pid] = pidExecNs[pid]
      BY <2>3, <2>7 DEF ShouldInclude, Starts
    <3>2. OpenPids' = OpenPids \ {ev.pid}
      BY <2>1, <2>2, <2>7 DEF OpenPids
    <3>3. ASSUME NEW pid \in DOMAIN pidExecNs'
          PROVE  \E j \in 1 .. Len(seen') : Opening(j)' /\ seen'[j].pid = pid
                                              /\ pidExecNs'[pid] = seen'[j].at
      <4>1. PICK j \in 1 .. n :
               Opening(j) /\ seen[j].pid = pid /\ pidExecNs[pid] = seen[j].at
        BY <2>1, <3>1 DEF TimesKept
      <4>2. Opening(j)'
        BY <2>1, <2>4, <3>1, <3>3, <4>1 DEF Opening
      <4>. QED  BY <2>1, <3>1, <3>3, <4>1, <4>2
    <3>. QED  BY <2>5, <3>1, <3>2, <3>3 DEF StartsAreOpen, OpenPids, TimesKept
  <2>8. CASE ev.type # "exec" /\ ~(ev.type = "exit" /\ options.scheduling)
    <3>1. pidExecNs' = pidExecNs
      BY <2>3, <2>8 DEF ShouldInclude, Starts
    <3>2. OpenPids' = OpenPids
      BY SMTT(30), <2>1, <2>8 DEF OpenPids
    <3>3. ASSUME NEW pid \in DOMAIN pidExecNs
          PROVE  \E j \in 1 .. Len(seen') : Opening(j)' /\ seen'[j].pid = pid
                                              /\ pidExecNs'[pid] = seen'[j].at
      <4>1. PICK j \in 1 .. n :
               Opening(j) /\ seen[j].pid = pid /\ pidExecNs[pid] = seen[j].at
        BY <2>1 DEF TimesKept
      <4>2. ev.type = "exit" => ~Counted(n + 1)'
        BY <2>1, <2>8 DEF Counted, ShouldInclude
      <4>3. Opening(j)'
        BY SMTT(30), <2>1, <2>4, <2>8, <4>1, <4>2 DEF Opening
      <4>. QED  BY <2>1, <3>1, <4>1, <4>3
    <3>. QED  BY <2>5, <3>1, <3>2, <3>3 DEF StartsAreOpen, OpenPids, TimesKept
  <2>. QED  BY <2>6, <2>7, <2>8
<1>2. CASE UNCHANGED <<options, pidExecNs, seen>>
  BY <1>2 DEF StartsAreOpen, TimesKept, Opening, Counted, ShouldInclude
<1>. QED  BY <1>1, <1>2, Frames DEF RotateWindow, Rotate, tables

LoopInv == Inv /\ Logged /\ StartsAreOpen /\ TimesKept

LEMMA LoopInvAlways == Spec => []LoopInv
<1>1. Init => LoopInv
  BY InitInv, LoggedFirst, StartsFirst DEF LoopInv
<1>2. LoopInv /\ [Next]_vars => LoopInv'
  BY NextInv, LoggedStays, StartsStay DEF LoopInv
<1>. QED  BY <1>1, <1>2, PTL DEF Spec

\* pidExecNs holds the pids of which no counted exit followed the last exec, and no others:
\* an exit that is lost, or not counted, leaves its entry behind, whatever the window does.
THEOREM StartsStayOpen == Spec => []StartsAreOpen
BY LoopInvAlways, PTL DEF LoopInv

-----------------------------------------------------------------------------
(* Bags, and greatest elements. *)

LEMMA LeastNatural ==
    ASSUME NEW T \in SUBSET Nat, T # {}
    PROVE  \E x \in T : \A y \in T : x <= y
<1>. DEFINE R == {ss \in Nat \X Nat : ss[1] < ss[2]}
<1>1. IsWellFoundedOn(R, Nat)
  BY NatLessThanWellFounded DEF OpToRel
<1>2. PICK x \in T : \A y \in T : ~ (<<y, x>> \in R)
  <2>. HIDE DEF R
  <2>. QED  BY <1>1, WFMin
<1>3. ASSUME NEW y \in T
      PROVE  x <= y
  <2>1. <<y, x>> \notin R /\ x \in Nat /\ y \in Nat
    BY <1>2
  <2>. QED  BY <2>1 DEF R
<1>. QED  BY <1>3

LEMMA LatestIs ==
    ASSUME NEW n \in Nat, NEW S \in SUBSET (1 .. n), S # {}
    PROVE  Latest(S) \in S /\ \A j \in S : j <= Latest(S)
<1>. DEFINE T == {m \in Nat : \A j \in S : j <= m}
<1>1. n \in T
  OBVIOUS
<1>2. PICK m \in T : \A y \in T : m <= y
  <2>1. T \in SUBSET Nat /\ T # {}
    BY <1>1
  <2>. HIDE DEF T
  <2>. QED  BY <2>1, LeastNatural
<1>3. m \in S
  <2>1. SUFFICES ASSUME m \notin S PROVE FALSE
    OBVIOUS
  <2>2. \A j \in S : j \in Nat /\ 1 <= j /\ j <= m /\ j # m
    BY <1>2, <2>1
  <2>3. m - 1 \in Nat
    <3>1. PICK j \in S : TRUE
      OBVIOUS
    <3>. QED  BY <1>2, <2>2, <3>1
  <2>4. m - 1 \in T
    BY <2>2, <2>3
  <2>. QED  BY <1>2, <2>4
<1>4. \E i \in S : \A j \in S : j <= i
  BY <1>3
<1>. QED  BY <1>4 DEF Latest

\* To add a set to a bag is to add a copy of each of its members.
LEMMA SetAdded ==
    ASSUME NEW bag, IsABag(bag), NEW S
    PROVE  /\ IsABag(bag (+) SetToBag(S))
           /\ DOMAIN (bag (+) SetToBag(S)) = DOMAIN bag \cup S
           /\ \A x : Copies(bag (+) SetToBag(S), x) = Copies(bag, x) + IF x \in S THEN 1 ELSE 0
           /\ \A x : Copies(bag, x) \in Nat /\ (x \in DOMAIN bag <=> Copies(bag, x) # 0)
<1>. DEFINE new == bag (+) SetToBag(S)
<1>1. \A x \in DOMAIN bag : bag[x] \in Nat /\ bag[x] > 0
  BY DEF IsABag
<1>2. /\ new = [x \in DOMAIN bag \cup S |-> Copies(bag, x) + IF x \in S THEN 1 ELSE 0]
      /\ \A x : Copies(bag, x) \in Nat /\ (x \in DOMAIN bag <=> Copies(bag, x) # 0)
  BY <1>1 DEF (+), SetToBag, Copies
<1>. HIDE DEF new
<1>3. \A x \in DOMAIN new : new[x] \in Nat /\ new[x] > 0
  BY <1>2
<1>4. IsABag(new)
  BY <1>2, <1>3 DEF IsABag
<1>5. \A x : Copies(new, x) = Copies(bag, x) + IF x \in S THEN 1 ELSE 0
  BY <1>2 DEF Copies
<1>. QED  BY <1>2, <1>4, <1>5 DEF new

LEMMA EmptyBagIs == IsABag(EmptyBag) /\ DOMAIN EmptyBag = {} /\ \A x : Copies(EmptyBag, x) = 0
BY DEF EmptyBag, SetToBag, IsABag, Copies

-----------------------------------------------------------------------------
(* The counts of the window. *)

Counting(ev, n) ==
    /\ Add(ev)
    /\ UNCHANGED <<options, rotated>> /\ seen' \in Seq(Event)
    /\ n = Len(seen) /\ Len(seen') = n + 1 /\ seen'[n + 1] = ev
    /\ \A i \in 1 .. n : seen'[i] = seen[i]

Label(ev) == IF ~options.perProcess THEN Host
             ELSE IF ev.binary # "none" THEN <<"bin", ev.binary>> ELSE <<"comm", ev.comm>>

\* The event is counted under the label.
Bears(ev, label) == label = Label(ev) \/ label = Host

\* The sets of events that Recount speaks of.
Own(label) == {i \in InWindow : Counted(i) /\ Bears(seen[i], label)}
Same(metric, label) == {i \in Own(label) : EventTypeToMetric(seen[i]) = metric}
Shorts(label) == {i \in Own(label) : ShortLivedAt(i)}
Ips(label) == {seen[i].ip : i \in {j \in Own(label) : /\ seen[j].ip # "none"
                                                      /\ EventTypeToMetric(seen[j]) = "connect"}}
Parents(label) == IF options.perProcess THEN {p \in Pids : label = <<"ppid", p>>}
                  ELSE {p \in Pids : label = Host}
Score(label) == LET last == Latest(Bombs(Parents(label))) IN
                IF Bombs(Parents(label)) = {} THEN 0 ELSE ForksUpTo(last, seen[last].ppid)

Derived == {"short_lived_process", "unique_dest_ips", "fork_bomb_score"}

RecountSplits ==
    \A metric, label :
        Recount(Key(metric, label)) =
           CASE metric = "short_lived_process" -> Cardinality(Shorts(label))
             [] metric = "unique_dest_ips" -> Cardinality(Ips(label))
             [] metric = "fork_bomb_score" -> Score(label)
             [] OTHER -> Cardinality(Same(metric, label))

LEMMA RecountIs == RecountSplits
<1>. SUFFICES ASSUME NEW metric, NEW label
              PROVE  Recount(Key(metric, label)) =
                        CASE metric = "short_lived_process" -> Cardinality(Shorts(label))
                          [] metric = "unique_dest_ips" -> Cardinality(Ips(label))
                          [] metric = "fork_bomb_score" -> Score(label)
                          [] OTHER -> Cardinality(Same(metric, label))
  BY DEF RecountSplits
<1>. DEFINE k == Key(metric, label)
<1>1. k.metric = metric /\ k.label = label
  BY DEF Key
<1>2. {i \in InWindow : Counted(i) /\ k \in {DimensionKey(k.metric, seen[i]), Key(k.metric, Host)}}
         = Own(label)
  BY DEF Own, Bears, Label, DimensionKey, Key
<1>. HIDE DEF k
<1>. QED  BY <1>1, <1>2 DEF Recount, Shorts, Ips, Score, Parents, Same, k

BagsOK ==
    /\ IsABag(counts) /\ IsABag(ppidForks)
    /\ \A k \in DOMAIN counts : k = Key(k.metric, k.label)

ForksExact == \A p \in Pids : Copies(ppidForks, p) = ForksUpTo(Len(seen), p)

DestinationsExact ==
    \A label : /\ IsFiniteSet(Ips(label))
               /\ \A ip : <<Key("connect", label), ip>> \in uniqueDestIP <=> ip \in Ips(label)

CountsExact == \A metric, label : Copies(counts, Key(metric, label)) = Recount(Key(metric, label))

WindowInv == BagsOK /\ ForksExact /\ DestinationsExact /\ CountsExact

\* A window with nothing in it yet.
FreshTables ==
    /\ Logged /\ rotated = Len(seen)
    /\ counts = EmptyBag /\ uniqueDestIP = {} /\ ppidForks = EmptyBag

LEMMA FreshWindow == FreshTables => WindowInv
<1>. SUFFICES ASSUME FreshTables PROVE WindowInv
  OBVIOUS
<1>1. InWindow = {}
  BY DEF FreshTables, InWindow, Logged
<1>2. /\ \A p : ForksUpTo(Len(seen), p) = 0
      /\ \A label : Own(label) = {} /\ Bombs(Parents(label)) = {}
  <2>1. \A p : {j \in InWindow : j <= Len(seen) /\ seen[j].type = "fork" /\ Counted(j) /\ seen[j].ppid = p} = {}
    BY <1>1
  <2>. QED  BY <1>1, <2>1, FS_EmptySet DEF ForksUpTo, Own, Bombs
<1>3. \A metric, label : /\ Same(metric, label) = {} /\ Shorts(label) = {} /\ Ips(label) = {}
                         /\ Score(label) = 0
  BY <1>2 DEF Same, Shorts, Ips, Score
<1>4. BagsOK /\ ForksExact /\ DestinationsExact
  BY <1>2, <1>3, EmptyBagIs, FS_EmptySet
  DEF FreshTables, BagsOK, ForksExact, DestinationsExact
<1>5. CountsExact
  BY <1>3, EmptyBagIs, FS_EmptySet, RecountIs DEF FreshTables, CountsExact, RecountSplits
<1>. QED  BY <1>4, <1>5 DEF WindowInv

\* ForksUpTo after the step, with its arguments as they are before it.
ForksNext(i, p) ==
    Cardinality({j \in InWindow' : /\ j <= i /\ seen'[j].type = "fork" /\ Counted(j)'
                                   /\ seen'[j].ppid = p})

\* Nothing changes for the events that were there before.
LEMMA Earlier ==
    ASSUME Logged, NEW ev \in Event, NEW n \in Nat, Counting(ev, n)
    PROVE  /\ InWindow' = InWindow \cup {n + 1} /\ InWindow \subseteq 1 .. n
           /\ IsFiniteSet(InWindow)
           /\ \A label : Parents(label)' = Parents(label)
           /\ \A label, x : Bears(x, label)' = Bears(x, label)
           /\ \A i \in 1 .. n : /\ seen'[i] = seen[i] /\ Counted(i)' = Counted(i)
                                /\ ShortLivedAt(i)' = ShortLivedAt(i)
                                /\ \A p : ForksNext(i, p) = ForksUpTo(i, p)
           /\ Counted(n + 1)' = ShouldInclude(ev)
<1>1. /\ UNCHANGED <<options, rotated>> /\ n = Len(seen) /\ Len(seen') = n + 1
      /\ seen'[n + 1] = ev /\ \A i \in 1 .. n : seen'[i] = seen[i]
  BY DEF Counting
<1>2. InWindow' = InWindow \cup {n + 1} /\ InWindow \subseteq 1 .. n
  BY <1>1 DEF InWindow, Logged
<1>3. IsFiniteSet(InWindow)
  BY <1>1, FS_Interval DEF InWindow, Logged
<1>4. \A i \in 1 .. n : Counted(i)' = Counted(i)
  BY <1>1 DEF Counted, ShouldInclude
<1>5. ASSUME NEW i \in 1 .. n
      PROVE  /\ ShortLivedAt(i)' = ShortLivedAt(i)
             /\ \A p : ForksNext(i, p) = ForksUpTo(i, p)
  <2>1. \A j \in 1 .. i : seen'[j] = seen[j] /\ Counted(j)' = Counted(j)
    BY <1>1, <1>4
  <2>2. ASSUME NEW p
        PROVE  {j \in InWindow : /\ j <= i /\ seen[j].type = "fork" /\ Counted(j)
                                 /\ seen[j].ppid = p}'
                 = {j \in InWindow : /\ j <= i /\ seen[j].type = "fork" /\ Counted(j)
                                     /\ seen[j].ppid = p}
    <3>1. \A j : j \in InWindow' /\ j <= i <=> j \in InWindow /\ j <= i
      BY <1>2
    <3>2. \A j \in InWindow : j <= i => j \in 1 .. i
      BY <1>2
    <3>. QED  BY <2>1, <3>1, <3>2
  <2>3. {j \in 1..i - 1 : /\ seen[j].pid = seen[i].pid /\ Counted(j)
                          /\ seen[j].type \in {"exec", "exit"}}'
           = {j \in 1..i - 1 : /\ seen[j].pid = seen[i].pid /\ Counted(j)
                               /\ seen[j].type \in {"exec", "exit"}}
    BY <2>1
  <2>4. StartOf(i)' = StartOf(i)
    BY <2>1, <2>3 DEF StartOf, Latest
  <2>5. StartOf(i) \subseteq 1 .. i
    BY DEF StartOf
  <2>6. ShortLivedAt(i)' = ShortLivedAt(i)
    BY <2>1, <2>4, <2>5 DEF ShortLivedAt
  <2>. QED  BY <2>2, <2>6 DEF ForksUpTo, ForksNext
<1>6. /\ \A label : Parents(label)' = Parents(label)
      /\ \A label, x : Bears(x, label)' = Bears(x, label)
      /\ Counted(n + 1)' = ShouldInclude(ev)
  BY <1>1 DEF Parents, Bears, Label, Counted, ShouldInclude
<1>. QED  BY <1>1, <1>2, <1>3, <1>4, <1>5, <1>6

LEMMA OneMoreIndex ==
    ASSUME NEW n \in Nat, NEW S \in SUBSET (1 .. n)
    PROVE  /\ IsFiniteSet(S) /\ Cardinality(S) \in Nat
           /\ Cardinality(S \cup {n + 1}) = Cardinality(S) + 1
<1>1. IsFiniteSet(S)
  <2>1. IsFiniteSet(1 .. n)
    BY FS_Interval
  <2>. QED  BY <2>1, FS_Subset
<1>2. n + 1 \notin S
  OBVIOUS
<1>. QED  BY <1>1, <1>2, FS_AddElement, FS_CardinalityType

\* The sets of Recount gain the new event, or stay as they were.
LEMMA Grown ==
    ASSUME Logged, NEW ev \in Event, NEW n \in Nat, Counting(ev, n), NEW label
    PROVE  /\ Own(label) \subseteq 1 .. n
           /\ Own(label)' = IF ShouldInclude(ev) /\ Bears(ev, label) THEN Own(label) \cup {n + 1}
                            ELSE Own(label)
           /\ \A metric : Same(metric, label)' =
                 IF ShouldInclude(ev) /\ Bears(ev, label) /\ EventTypeToMetric(ev) = metric
                 THEN Same(metric, label) \cup {n + 1} ELSE Same(metric, label)
           /\ Shorts(label)' =
                 IF ShouldInclude(ev) /\ Bears(ev, label) /\ ShortLivedAt(n + 1)'
                 THEN Shorts(label) \cup {n + 1} ELSE Shorts(label)
           /\ Ips(label)' =
                 IF /\ ShouldInclude(ev) /\ Bears(ev, label)
                    /\ ev.ip # "none" /\ EventTypeToMetric(ev) = "connect"
                 THEN Ips(label) \cup {ev.ip} ELSE Ips(label)
<1>1. /\ InWindow' = InWindow \cup {n + 1} /\ InWindow \subseteq 1 .. n
      /\ \A x : Bears(x, label)' = Bears(x, label)
      /\ \A i \in 1 .. n : /\ seen'[i] = seen[i] /\ Counted(i)' = Counted(i)
                           /\ ShortLivedAt(i)' = ShortLivedAt(i)
      /\ Counted(n + 1)' = ShouldInclude(ev) /\ seen'[n + 1] = ev
  BY Earlier DEF Counting
<1>2. Own(label) \subseteq 1 .. n
  BY <1>1 DEF Own
<1>3. Own(label)' = {i \in InWindow' : Counted(i)' /\ Bears(seen'[i], label)}
  BY <1>1 DEF Own, Bears, Label, Counting
<1>4. Own(label)' = IF ShouldInclude(ev) /\ Bears(ev, label) THEN Own(label) \cup {n + 1}
                    ELSE Own(label)
  BY <1>1, <1>3 DEF Own
<1>5. \A metric : Same(metric, label)' =
         IF ShouldInclude(ev) /\ Bears(ev, label) /\ EventTypeToMetric(ev) = metric
         THEN Same(metric, label) \cup {n + 1} ELSE Same(metric, label)
  <2>1. \A metric : Same(metric, label)' = {i \in Own(label)' : EventTypeToMetric(seen'[i]) = metric}
    BY DEF Same
  <2>. QED  BY <1>1, <1>2, <1>4, <2>1 DEF Same
<1>6. Shorts(label)' =
         IF ShouldInclude(ev) /\ Bears(ev, label) /\ ShortLivedAt(n + 1)'
         THEN Shorts(label) \cup {n + 1} ELSE Shorts(label)
  BY <1>1, <1>2, <1>4 DEF Shorts
<1>7. Ips(label)' =
         IF /\ ShouldInclude(ev) /\ Bears(ev, label)
            /\ ev.ip # "none" /\ EventTypeToMetric(ev) = "connect"
         THEN Ips(label) \cup {ev.ip} ELSE Ips(label)
  <2>. DEFINE C == {j \in Own(label) : seen[j].ip # "none" /\ EventTypeToMetric(seen[j]) = "connect"}
              new == /\ ShouldInclude(ev) /\ Bears(ev, label)
                     /\ ev.ip # "none" /\ EventTypeToMetric(ev) = "connect"
  <2>1. C' = {j \in Own(label)' : seen'[j].ip # "none" /\ EventTypeToMetric(seen'[j]) = "connect"}
    OBVIOUS
  <2>2. C' = IF new THEN C \cup {n + 1} ELSE C
    BY <1>1, <1>2, <1>4, <2>1
  <2>3. Ips(label) = {seen[i].ip : i \in C} /\ Ips(label)' = {seen'[i].ip : i \in C'}
    BY DEF Ips
  <2>4. \A i \in C : seen'[i] = seen[i]
    BY <1>1, <1>2
  <2>. HIDE DEF C, new
  <2>5. Ips(label)' = IF new THEN Ips(label) \cup {ev.ip} ELSE Ips(label)
    BY <1>1, <2>2, <2>3, <2>4
  <2>. QED  BY <2>5 DEF new
<1>. QED  BY <1>2, <1>4, <1>5, <1>6, <1>7

\* The exit of a process is that of a short life by the same rule in Recount and in the code.
LEMMA ShortIs ==
    ASSUME Logged, StartsAreOpen, TimesKept, NEW ev \in Event, NEW n \in Nat, Counting(ev, n)
    PROVE  ShortLivedAt(n + 1)' <=>
              /\ ev.type = "exit" /\ ev.pid \in DOMAIN pidExecNs
              /\ ev.at > pidExecNs[ev.pid] /\ ev.at - pidExecNs[ev.pid] < ShortLived
<1>. DEFINE own == {j \in 1 .. n : /\ seen[j].pid = ev.pid /\ Counted(j)
                                   /\ seen[j].type \in {"exec", "exit"}}
            start == {j \in own : j = Latest(own) /\ seen[j].type = "exec"}
<1>1. /\ seen'[n + 1] = ev /\ n = Len(seen)
      /\ \A i \in 1 .. n : seen'[i] = seen[i] /\ Counted(i)' = Counted(i)
  BY Earlier DEF Counting
<1>2. StartOf(n + 1)' = start
  <2>1. {j \in 1..(n + 1) - 1 : /\ seen[j].pid = seen[n + 1].pid /\ Counted(j)
                                /\ seen[j].type \in {"exec", "exit"}}' = own
    BY <1>1
  <2>. HIDE DEF own
  <2>2. StartOf(n + 1)' = {j \in own : j = Latest(own) /\ seen'[j].type = "exec"}
    BY <2>1 DEF StartOf, Latest
  <2>3. own \subseteq 1 .. n
    BY DEF own
  <2>. QED  BY <1>1, <2>2, <2>3
<1>3. ASSUME NEW j \in start
      PROVE  ev.pid \in DOMAIN pidExecNs
  <2>1. own \in SUBSET (1 .. n) /\ own # {} /\ j = Latest(own)
    BY <1>3
  <2>2. \A i \in own : i <= j
    <3>. HIDE DEF own
    <3>. QED  BY <2>1, LatestIs
  <2>3. ev.pid \in Pids /\ j \in 1 .. n /\ seen[j].type = "exec" /\ seen[j].pid = ev.pid
    BY <1>3 DEF Event
  <2>4. \A i \in j + 1 .. n : seen[i].pid = ev.pid /\ seen[i].type = "exit" => ~options.scheduling
    <3>1. ASSUME NEW i \in j + 1 .. n, seen[i].pid = ev.pid, seen[i].type = "exit",
                 options.scheduling
          PROVE  FALSE
      <4>1. Counted(i)
        BY <3>1 DEF Counted, ShouldInclude
      <4>2. i \in own /\ ~(i <= j)
        BY <2>3, <3>1, <4>1
      <4>. QED  BY <2>2, <4>2
    <3>. QED  BY <3>1
  <2>5. ev.pid \in OpenPids
    <3>. HIDE DEF own, start
    <3>. QED  BY <1>1, <2>3, <2>4 DEF OpenPids
  <2>6. DOMAIN pidExecNs = OpenPids
    BY DEF StartsAreOpen, OpenPids
  <2>. QED  BY <2>5, <2>6
<1>4. ASSUME ev.pid \in DOMAIN pidExecNs
      PROVE  \E j \in start : start = {j} /\ pidExecNs[ev.pid] = seen[j].at
  <2>1. PICK j \in 1 .. n : Opening(j) /\ seen[j].pid = ev.pid /\ pidExecNs[ev.pid] = seen[j].at
    BY <1>1, <1>4 DEF TimesKept
  <2>2. j \in own
    BY <2>1 DEF Opening, Counted, ShouldInclude
  <2>3. \A i \in own : i <= j
    BY <1>1, <2>1 DEF Opening
  <2>4. Latest(own) = j
    <3>1. own \in SUBSET (1 .. n) /\ own # {}
      BY <2>2
    <3>. HIDE DEF own
    <3>2. Latest(own) \in own /\ j <= Latest(own)
      BY <2>2, <3>1, LatestIs
    <3>3. Latest(own) <= j
      BY <2>3, <3>2
    <3>4. Latest(own) \in 1 .. n
      BY <3>1, <3>2
    <3>. QED  BY <3>2, <3>3, <3>4
  <2>. QED  BY <2>1, <2>2, <2>4 DEF Opening
<1>. HIDE DEF own, start
<1>5. ShortLivedAt(n + 1)' <=>
         ev.type = "exit" /\ \E j \in start : ev.at - seen'[j].at \in 1 .. ShortLived - 1
  BY <1>1, <1>2 DEF ShortLivedAt
<1>6. \A j \in start : seen'[j] = seen[j] /\ seen[j].at \in Nat
  <2>1. \A j \in start : j \in 1 .. n
    BY DEF start, own
  <2>2. \A j \in 1 .. n : seen[j] \in Event
    BY <1>1 DEF Logged
  <2>. QED  BY <1>1, <2>1, <2>2 DEF Event
<1>7. ev.at \in Nat /\ ShortLived \in Nat
  BY ConstantsAssumption DEF Event
<1>8. CASE ev.pid \in DOMAIN pidExecNs
  <2>1. PICK j \in start : start = {j} /\ pidExecNs[ev.pid] = seen[j].at
    BY <1>4, <1>8
  <2>2. (\E i \in start : ev.at - seen'[i].at \in 1 .. ShortLived - 1)
          <=> ev.at - seen[j].at \in 1 .. ShortLived - 1
    BY <1>6, <2>1
  <2>3. ev.at - seen[j].at \in 1 .. ShortLived - 1
          <=> ev.at > seen[j].at /\ ev.at - seen[j].at < ShortLived
    BY <1>6, <1>7, <2>1
  <2>. QED  BY <1>5, <1>8, <2>1, <2>2, <2>3
<1>9. CASE ev.pid \notin DOMAIN pidExecNs
  BY <1>3, <1>5, <1>9
<1>. QED  BY <1>8, <1>9

\* The forks of each parent, and their copies in ppidForks, gain the new event alike.
LEMMA ForksGrow ==
    ASSUME Logged, BagsOK, ForksExact, NEW ev \in Event, NEW n \in Nat, Counting(ev, n)
    PROVE  /\ IsABag(ppidForks') /\ ForksExact'
           /\ \A p \in Pids : ForksNext(n + 1, p) \in Nat
           /\ ShouldInclude(ev) /\ ev.type = "fork" /\ ev.ppid # 0
                 => Copies(Forks(ev), ev.ppid) = ForksNext(n + 1, ev.ppid)
<1>. DEFINE new(p) == ShouldInclude(ev) /\ ev.type = "fork" /\ ev.ppid = p
            of(p) == {j \in InWindow : /\ j <= n /\ seen[j].type = "fork" /\ Counted(j)
                                       /\ seen[j].ppid = p}
            next(p) == {j \in InWindow' : /\ j <= n + 1 /\ seen'[j].type = "fork" /\ Counted(j)'
                                          /\ seen'[j].ppid = p}
<1>1. /\ n = Len(seen) /\ Len(seen') = n + 1 /\ UNCHANGED options
      /\ InWindow' = InWindow \cup {n + 1} /\ InWindow \subseteq 1 .. n
      /\ \A i \in 1 .. n : seen'[i] = seen[i] /\ Counted(i)' = Counted(i)
      /\ Counted(n + 1)' = ShouldInclude(ev) /\ seen'[n + 1] = ev
  BY Earlier DEF Counting
<1>2. ASSUME NEW p \in Pids
      PROVE  /\ ForksUpTo(n, p) \in Nat
             /\ ForksNext(n + 1, p) = ForksUpTo(n, p) + IF new(p) THEN 1 ELSE 0
  <2>1. of(p) \in SUBSET (1 .. n)
    BY <1>1
  <2>2. next(p) = IF new(p) THEN of(p) \cup {n + 1} ELSE of(p)
    <3>1. \A j \in InWindow : j \in 1 .. n /\ j <= n /\ j <= n + 1
      BY <1>1
    <3>2. ASSUME NEW j
          PROVE  j \in next(p) <=> j \in of(p) \/ (new(p) /\ j = n + 1)
      <4>1. CASE j \in InWindow
        BY <1>1, <3>1, <4>1
      <4>2. CASE j = n + 1
        BY <1>1, <4>2
      <4>. QED  BY <1>1, <4>1, <4>2
    <3>. HIDE DEF of, next, new
    <3>. QED  BY <3>2
  <2>3. ForksUpTo(n, p) = Cardinality(of(p)) /\ ForksNext(n + 1, p) = Cardinality(next(p))
    BY DEF ForksUpTo, ForksNext
  <2>. HIDE DEF of, next, new
  <2>4. Cardinality(of(p)) \in Nat /\ Cardinality(of(p) \cup {n + 1}) = Cardinality(of(p)) + 1
    BY <2>1, OneMoreIndex
  <2>. QED  BY <2>2, <2>3, <2>4
<1>3. ppidForks' = IF ShouldInclude(ev) THEN Forks(ev) ELSE ppidForks
  BY DEF Counting, Add, tables
<1>4. /\ IsABag(Forks(ev))
      /\ ShouldInclude(ev) => \A p \in Pids :
            Copies(Forks(ev), p) = Copies(ppidForks, p) + IF new(p) THEN 1 ELSE 0
  <2>1. \A p \in Pids : Copies(ppidForks, p) \in Nat /\ p # 0
    BY SetAdded, ConstantsAssumption DEF BagsOK
  <2>2. CASE ev.type = "fork" /\ ev.ppid # 0
    <3>1. Forks(ev) = ppidForks (+) SetToBag({ev.ppid})
      BY <2>2 DEF Forks
    <3>2. IsABag(ppidForks)
      BY DEF BagsOK
    <3>3. /\ IsABag(Forks(ev))
          /\ \A p : Copies(Forks(ev), p) = Copies(ppidForks, p) + IF p \in {ev.ppid} THEN 1 ELSE 0
      <4>1. PICK S : S = {ev.ppid}
        OBVIOUS
      <4>2. Forks(ev) = ppidForks (+) SetToBag(S)
        BY <3>1, <4>1
      <4>. HIDE DEF of, next, new
      <4>3. /\ IsABag(ppidForks (+) SetToBag(S))
            /\ \A p : Copies(ppidForks (+) SetToBag(S), p)
                        = Copies(ppidForks, p) + IF p \in S THEN 1 ELSE 0
        BY <3>2, SetAdded
      <4>. QED  BY <4>1, <4>2, <4>3
    <3>. QED  BY <2>1, <2>2, <3>3
  <2>3. CASE ~(ev.type = "fork" /\ ev.ppid # 0)
    <3>1. Forks(ev) = ppidForks
      BY <2>3 DEF Forks
    <3>2. \A p \in Pids : ~new(p)
      BY <2>1, <2>3
    <3>. HIDE DEF new
    <3>. QED  BY <2>1, <3>1, <3>2 DEF BagsOK
  <2>. QED  BY <2>2, <2>3
<1>5. \A p \in Pids : ~ShouldInclude(ev) => ~new(p)
  OBVIOUS
<1>6. ev.ppid # 0 => ev.ppid \in Pids
  BY DEF Event
<1>. HIDE DEF new
<1>7. ASSUME NEW p \in Pids
      PROVE  Copies(ppidForks', p) = ForksNext(n + 1, p)
  <2>1. Copies(ppidForks, p) = ForksUpTo(n, p) /\ ForksUpTo(n, p) \in Nat
    BY <1>1, <1>2 DEF ForksExact
  <2>. QED  BY <1>2, <1>3, <1>4, <1>5, <2>1
<1>8. ForksExact'
  <2>1. \A p \in Pids : Copies(ppidForks', p) = ForksNext(n + 1, p)
    BY <1>7
  <2>2. \A p : ForksUpTo(Len(seen), p)' = ForksNext(n + 1, p)
    BY <1>1 DEF ForksUpTo, ForksNext
  <2>. QED  BY <2>1, <2>2 DEF ForksExact, Copies
<1>9. \A p \in Pids : ForksNext(n + 1, p) \in Nat
  BY <1>2
<1>10. IsABag(ppidForks')
  BY <1>3, <1>4 DEF BagsOK
<1>. QED  BY <1>3, <1>6, <1>7, <1>8, <1>9, <1>10

\* The score of a label is that of the new event, if it makes one, or stays as it was.
LEMMA ScoreIs ==
    ASSUME Logged, NEW ev \in Event, NEW n \in Nat, Counting(ev, n), NEW label
    PROVE  Score(label)' =
              IF /\ ShouldInclude(ev) /\ ev.type = "fork" /\ ev.ppid \in Parents(label)
                 /\ ForksNext(n + 1, ev.ppid) >= ForkBomb
              THEN ForksNext(n + 1, ev.ppid) ELSE Score(label)
<1>. DEFINE B == Bombs(Parents(label))
            new == /\ ShouldInclude(ev) /\ ev.type = "fork" /\ ev.ppid \in Parents(label)
                   /\ ForksNext(n + 1, ev.ppid) >= ForkBomb
<1>1. /\ InWindow' = InWindow \cup {n + 1} /\ InWindow \subseteq 1 .. n
      /\ Parents(label)' = Parents(label)
      /\ \A i \in 1 .. n : /\ seen'[i] = seen[i] /\ Counted(i)' = Counted(i)
                           /\ \A p : ForksNext(i, p) = ForksUpTo(i, p)
      /\ Counted(n + 1)' = ShouldInclude(ev) /\ seen'[n + 1] = ev
  BY Earlier DEF Counting
<1>2. B \in SUBSET (1 .. n)
  BY <1>1 DEF Bombs
<1>3. B' = IF new THEN B \cup {n + 1} ELSE B
  <2>1. B' = {i \in InWindow' : /\ seen'[i].type = "fork" /\ Counted(i)'
                                /\ seen'[i].ppid \in Parents(label)
                                /\ ForksNext(i, seen'[i].ppid) >= ForkBomb}
    BY <1>1 DEF Bombs, ForksUpTo, ForksNext
  <2>2. ASSUME NEW i
        PROVE  i \in B' <=> i \in B \/ (new /\ i = n + 1)
    <3>1. CASE i \in InWindow
      BY <1>1, <2>1, <3>1 DEF Bombs
    <3>2. CASE i = n + 1
      BY <1>1, <2>1, <3>2 DEF Bombs
    <3>. QED  BY <1>1, <2>1, <3>1, <3>2 DEF Bombs
  <2>. HIDE DEF B, new
  <2>. QED  BY <2>2
<1>4. Score(label)' = IF B' = {} THEN 0 ELSE ForksNext(Latest(B)', seen'[Latest(B)'].ppid)
  BY <1>1 DEF Score, ForksUpTo, ForksNext
<1>5. Score(label) = IF B = {} THEN 0 ELSE ForksUpTo(Latest(B), seen[Latest(B)].ppid)
  BY DEF Score
<1>. HIDE DEF B
<1>6. CASE new
  <2>1. Latest(B)' = n + 1
    <3>1. Latest(B)' = Latest(B \cup {n + 1})
      BY <1>3, <1>6 DEF Latest
    <3>. HIDE DEF new
    <3>2. /\ B \cup {n + 1} \in SUBSET (1 .. n + 1) /\ n + 1 \in Nat
          /\ n + 1 \in B \cup {n + 1}
      BY <1>2
    <3>3. Latest(B \cup {n + 1}) \in 1 .. n + 1 /\ n + 1 <= Latest(B \cup {n + 1})
      BY <3>2, LatestIs
    <3>. QED  BY <3>1, <3>3
  <2>. QED  BY <1>1, <1>3, <1>4, <1>6, <2>1
<1>7. CASE ~new
  <2>1. CASE B = {}
    BY <1>3, <1>4, <1>5, <1>7, <2>1
  <2>2. CASE B # {}
    <3>1. Latest(B)' = Latest(B)
      BY <1>3, <1>7 DEF Latest
    <3>2. Latest(B) \in 1 .. n
      BY <1>2, <2>2, LatestIs
    <3>. QED  BY <1>1, <1>3, <1>4, <1>5, <1>7, <2>2, <3>1, <3>2
  <2>. QED  BY <2>1, <2>2
<1>. QED  BY <1>6, <1>7

CountsOK(bag) == IsABag(bag) /\ \A k \in DOMAIN bag : k = Key(k.metric, k.label)

LEMMA IncrementIs ==
    ASSUME NEW bag, CountsOK(bag), NEW m, NEW ev
    PROVE  /\ CountsOK(Increment(bag, m, ev))
           /\ \A metric, label :
                 Copies(Increment(bag, m, ev), Key(metric, label))
                   = Copies(bag, Key(metric, label))
                       + IF metric = m /\ Bears(ev, label) THEN 1 ELSE 0
           /\ \A metric, label : Copies(bag, Key(metric, label)) \in Nat
<1>1. PICK S : S = {DimensionKey(m, ev), Key(m, Host)}
  OBVIOUS
<1>2. Increment(bag, m, ev) = bag (+) SetToBag(S)
  BY <1>1 DEF Increment
<1>3. \A metric, label : Key(metric, label) \in S <=> metric = m /\ Bears(ev, label)
  BY <1>1 DEF DimensionKey, Key, Bears, Label
<1>4. \A k \in S : k = Key(k.metric, k.label)
  BY <1>1 DEF DimensionKey, Key
<1>5. /\ IsABag(bag (+) SetToBag(S)) /\ DOMAIN (bag (+) SetToBag(S)) = DOMAIN bag \cup S
      /\ \A x : Copies(bag (+) SetToBag(S), x) = Copies(bag, x) + IF x \in S THEN 1 ELSE 0
      /\ \A x : Copies(bag, x) \in Nat
  BY SetAdded DEF CountsOK
<1>6. CountsOK(bag (+) SetToBag(S))
  BY <1>4, <1>5 DEF CountsOK
<1>. QED  BY <1>2, <1>3, <1>5, <1>6

LEMMA ForkBombScoreIs ==
    ASSUME NEW bag, CountsOK(bag), NEW ev \in Event, NEW n \in Nat,
           ev.type = "fork" /\ ev.ppid # 0 => Copies(Forks(ev), ev.ppid) = n
    PROVE  /\ CountsOK(ForkBombScore(bag, ev))
           /\ \A metric, label :
                 Copies(ForkBombScore(bag, ev), Key(metric, label))
                   = IF /\ metric = "fork_bomb_score" /\ ev.type = "fork"
                        /\ ev.ppid \in Parents(label) /\ n >= ForkBomb
                     THEN n ELSE Copies(bag, Key(metric, label))
<1>0. PICK key : key = Key("fork_bomb_score",
                           IF options.perProcess THEN <<"ppid", ev.ppid>> ELSE Host)
  OBVIOUS
<1>1. ev.ppid # 0 <=> ev.ppid \in Pids
  BY ConstantsAssumption DEF Event
<1>2. \A metric, label :
         Key(metric, label) = key /\ ev.ppid # 0
           <=> metric = "fork_bomb_score" /\ ev.ppid \in Parents(label)
  BY <1>0, <1>1 DEF Key, Parents
<1>3. CASE ev.type = "fork" /\ ev.ppid # 0 /\ n >= ForkBomb
  <2>1. ForkBombScore(bag, ev) = ExtendWith(bag, key, n)
    BY <1>0, <1>3 DEF ForkBombScore
  <2>2. n > 0 /\ IsABag(bag)
    BY <1>3, ConstantsAssumption DEF CountsOK
  <2>3. key = Key(key.metric, key.label)
    BY <1>0 DEF Key
  <2>4. /\ IsABag(ExtendWith(bag, key, n))
        /\ DOMAIN ExtendWith(bag, key, n) = DOMAIN bag \cup {key}
        /\ \A x : Copies(ExtendWith(bag, key, n), x) = IF x = key THEN n ELSE Copies(bag, x)
    BY <2>2 DEF ExtendWith, IsABag, Copies
  <2>5. CountsOK(ExtendWith(bag, key, n))
    BY <2>3, <2>4 DEF CountsOK
  <2>. QED  BY <1>2, <1>3, <2>1, <2>4, <2>5
<1>4. CASE ~(ev.type = "fork" /\ ev.ppid # 0 /\ n >= ForkBomb)
  <2>1. ForkBombScore(bag, ev) = bag
    BY <1>4 DEF ForkBombScore
  <2>2. \A label : ~(ev.type = "fork" /\ ev.ppid \in Parents(label) /\ n >= ForkBomb)
    BY <1>1, <1>4 DEF Parents
  <2>. QED  BY <2>1, <2>2
<1>. QED  BY <1>3, <1>4

LEMMA UniqueDestIPsIs ==
    ASSUME NEW bag, CountsOK(bag), DestinationsExact, NEW ev \in Event
    PROVE  /\ CountsOK(UniqueDestIPs(bag, ev))
           /\ \A metric, label :
                 Copies(UniqueDestIPs(bag, ev), Key(metric, label))
                   = Copies(bag, Key(metric, label))
                       + IF /\ metric = "unique_dest_ips" /\ Bears(ev, label)
                            /\ ev.ip # "none" /\ EventTypeToMetric(ev) = "connect"
                            /\ ev.ip \notin Ips(label)
                         THEN 1 ELSE 0
<1>1. PICK S : S = {Key("unique_dest_ips", d[1].label) : d \in Destinations(ev) \ uniqueDestIP}
  OBVIOUS
<1>2. UniqueDestIPs(bag, ev) = bag (+) SetToBag(S)
  BY <1>1 DEF UniqueDestIPs
<1>3. \A k \in S : k = Key(k.metric, k.label) /\ k.metric = "unique_dest_ips"
  BY <1>1 DEF Key
<1>4. ASSUME NEW label
      PROVE  Key("unique_dest_ips", label) \in S
               <=> /\ Bears(ev, label)
                   /\ ev.ip # "none" /\ EventTypeToMetric(ev) = "connect"
                   /\ ev.ip \notin Ips(label)
  <2>1. Key("unique_dest_ips", label) \in S
           <=> \E d \in Destinations(ev) : d \notin uniqueDestIP /\ d[1].label = label
    BY <1>1 DEF Key
  <2>2. \A d \in Destinations(ev) :
           d = <<Key("connect", d[1].label), ev.ip>> /\ Bears(ev, d[1].label)
    BY DEF Destinations, DimensionKey, Key, Bears, Label
  <2>3. <<Key("connect", label), ev.ip>> \in Destinations(ev)
           <=> Bears(ev, label) /\ ev.ip # "none" /\ EventTypeToMetric(ev) = "connect"
    BY DEF Destinations, DimensionKey, Key, Bears, Label
  <2>4. <<Key("connect", label), ev.ip>>[1].label = label
    BY DEF Key
  <2>5. <<Key("connect", label), ev.ip>> \in uniqueDestIP <=> ev.ip \in Ips(label)
    BY DEF DestinationsExact
  <2>6. (\E d \in Destinations(ev) : d \notin uniqueDestIP /\ d[1].label = label)
           <=> /\ <<Key("connect", label), ev.ip>> \in Destinations(ev)
               /\ <<Key("connect", label), ev.ip>> \notin uniqueDestIP
    BY <2>2, <2>4
  <2>. QED  BY <2>1, <2>3, <2>5, <2>6
<1>5. \A metric, label : Key(metric, label) \in S
         <=> metric = "unique_dest_ips" /\ Key("unique_dest_ips", label) \in S
  <2>1. \A metric, label : Key(metric, label).metric = metric
    BY DEF Key
  <2>. QED  BY <1>3, <2>1
<1>6. /\ IsABag(bag (+) SetToBag(S)) /\ DOMAIN (bag (+) SetToBag(S)) = DOMAIN bag \cup S
      /\ \A x : Copies(bag (+) SetToBag(S), x) = Copies(bag, x) + IF x \in S THEN 1 ELSE 0
  BY SetAdded DEF CountsOK
<1>7. CountsOK(bag (+) SetToBag(S))
  BY <1>3, <1>6 DEF CountsOK
<1>8. ASSUME NEW metric, NEW label
      PROVE  Key(metric, label) \in S
               <=> /\ metric = "unique_dest_ips" /\ Bears(ev, label)
                   /\ ev.ip # "none" /\ EventTypeToMetric(ev) = "connect"
                   /\ ev.ip \notin Ips(label)
  BY <1>4, <1>5
<1>. QED  BY <1>2, <1>6, <1>7, <1>8

LEMMA DestinationsGrow ==
    ASSUME Logged, DestinationsExact, NEW ev \in Event, NEW n \in Nat, Counting(ev, n)
    PROVE  DestinationsExact'
<1>1. uniqueDestIP' = IF ShouldInclude(ev) THEN uniqueDestIP \cup Destinations(ev)
                      ELSE uniqueDestIP
  BY DEF Counting, Add, tables
<1>2. ASSUME NEW label
      PROVE  /\ IsFiniteSet(Ips(label)')
             /\ \A ip : <<Key("connect", label), ip>> \in uniqueDestIP' <=> ip \in Ips(label)'
  <2>1. Ips(label)' = IF /\ ShouldInclude(ev) /\ Bears(ev, label)
                         /\ ev.ip # "none" /\ EventTypeToMetric(ev) = "connect"
                      THEN Ips(label) \cup {ev.ip} ELSE Ips(label)
    BY Grown
  <2>2. /\ IsFiniteSet(Ips(label)) /\ IsFiniteSet(Ips(label) \cup {ev.ip})
        /\ \A ip : <<Key("connect", label), ip>> \in uniqueDestIP <=> ip \in Ips(label)
    BY FS_AddElement DEF DestinationsExact
  <2>3. \A ip : <<Key("connect", label), ip>> \in Destinations(ev)
           <=> /\ Bears(ev, label) /\ ev.ip # "none" /\ EventTypeToMetric(ev) = "connect"
               /\ ip = ev.ip
    BY DEF Destinations, DimensionKey, Key, Bears, Label
  <2>. QED  BY <1>1, <2>1, <2>2, <2>3
<1>3. \A label, x : Key("connect", label)' = Key("connect", label)
  BY DEF Key
<1>. QED  BY <1>2, <1>3 DEF DestinationsExact

LEMMA MetricsApart ==
    \A ev \in Event : EventTypeToMetric(ev) \notin Derived
<1>. SUFFICES ASSUME NEW ev \in Event PROVE EventTypeToMetric(ev) \notin Derived
  OBVIOUS
<1>1. ev.type \in EventTypes
  BY TypesAre
<1>. QED  BY <1>1 DEF EventTypeToMetric, EventTypes, Derived

\* Add leaves in counts, under each key, what a recount with the new event gives.
LEMMA CountsGrow ==
    ASSUME Logged, StartsAreOpen, TimesKept, WindowInv,
           NEW ev \in Event, NEW n \in Nat, Counting(ev, n)
    PROVE  CountsOK(counts') /\ CountsExact'
<1>. DEFINE m == EventTypeToMetric(ev)
            short == ShortLivedAt(n + 1)'
            f == ForksNext(n + 1, ev.ppid)
            old(metric, label) == Copies(counts, Key(metric, label))
            new(metric, label) == Copies(counts', Key(metric, label))
            bomb(label) == ev.type = "fork" /\ ev.ppid \in Parents(label) /\ f >= ForkBomb
            fresh(label) == /\ Bears(ev, label) /\ ev.ip # "none" /\ m = "connect"
                            /\ ev.ip \notin Ips(label)
<1>0. CountsOK(counts) /\ m \notin Derived
  BY MetricsApart DEF WindowInv, BagsOK, CountsOK
<1>1. /\ CountsOK(counts')
      /\ ~ShouldInclude(ev) => counts' = counts
      /\ ShouldInclude(ev) => \A metric, label : new(metric, label) =
            IF metric = "fork_bomb_score" THEN IF bomb(label) THEN f ELSE old(metric, label)
            ELSE old(metric, label) + IF \/ metric = m /\ Bears(ev, label)
                                         \/ metric = "short_lived_process" /\ short /\ Bears(ev, label)
                                         \/ metric = "unique_dest_ips" /\ fresh(label)
                                      THEN 1 ELSE 0
  <2>1. CASE ~ShouldInclude(ev)
    BY <1>0, <2>1 DEF Counting, Add, tables
  <2>2. CASE ShouldInclude(ev)
    <3>. DEFINE c1 == Increment(counts, m, ev)
                c2 == ForkBombScore(c1, ev)
                c3 == ShortLivedProcess(c2, ev)
                c4 == UniqueDestIPs(c3, ev)
    <3>1. counts' = c4
      BY <2>2 DEF Counting, Add
    <3>2. /\ CountsOK(c1)
          /\ \A metric, label : /\ old(metric, label) \in Nat
                                /\ Copies(c1, Key(metric, label)) =
                                     old(metric, label) + IF metric = m /\ Bears(ev, label) THEN 1 ELSE 0
      BY <1>0, IncrementIs
    <3>3. ev.type = "fork" /\ ev.ppid # 0 => f \in Nat /\ Copies(Forks(ev), ev.ppid) = f
      BY <2>2, ForksGrow DEF WindowInv, Event
    <3>4. PICK g \in Nat : ev.type = "fork" /\ ev.ppid # 0 => g = f
      BY <3>3
    <3>5. \A label : bomb(label) <=> ev.type = "fork" /\ ev.ppid \in Parents(label) /\ g >= ForkBomb
      <4>1. \A label : ev.ppid \in Parents(label) => ev.ppid # 0
        BY ConstantsAssumption DEF Parents
      <4>. QED  BY <3>4, <4>1
    <3>. HIDE DEF c1, f, m
    <3>6. /\ CountsOK(c2)
          /\ \A metric, label : Copies(c2, Key(metric, label)) =
                IF metric = "fork_bomb_score" /\ bomb(label) THEN f
                ELSE Copies(c1, Key(metric, label))
      <4>1. /\ CountsOK(c2)
            /\ \A metric, label : Copies(c2, Key(metric, label)) =
                  IF /\ metric = "fork_bomb_score" /\ ev.type = "fork"
                     /\ ev.ppid \in Parents(label) /\ g >= ForkBomb
                  THEN g ELSE Copies(c1, Key(metric, label))
        BY <3>2, <3>3, <3>4, ForkBombScoreIs
      <4>2. \A label : bomb(label) => g = f
        <5>1. \A label : ev.ppid \in Parents(label) => ev.ppid # 0
          BY ConstantsAssumption DEF Parents
        <5>. QED  BY <3>4, <5>1
      <4>. HIDE DEF c2, bomb
      <4>. QED  BY <3>5, <4>1, <4>2
    <3>. HIDE DEF c2, bomb
    <3>7. /\ CountsOK(c3)
          /\ \A metric, label : Copies(c3, Key(metric, label)) =
                Copies(c2, Key(metric, label))
                  + IF metric = "short_lived_process" /\ short /\ Bears(ev, label) THEN 1 ELSE 0
      <4>1. short <=> /\ ev.type = "exit" /\ ev.pid \in DOMAIN pidExecNs
                      /\ ev.at > pidExecNs[ev.pid] /\ ev.at - pidExecNs[ev.pid] < ShortLived
        BY ShortIs
      <4>2. c3 = IF short THEN Increment(c2, "short_lived_process", ev) ELSE c2
        BY <4>1 DEF ShortLivedProcess
      <4>3. /\ CountsOK(Increment(c2, "short_lived_process", ev))
            /\ \A metric, label :
                  /\ Copies(c2, Key(metric, label)) \in Nat
                  /\ Copies(Increment(c2, "short_lived_process", ev), Key(metric, label))
                       = Copies(c2, Key(metric, label))
                           + IF metric = "short_lived_process" /\ Bears(ev, label) THEN 1 ELSE 0
        BY <3>6, IncrementIs
      <4>. HIDE DEF short, c3
      <4>4. CASE short
        BY <4>2, <4>3, <4>4
      <4>5. CASE ~short
        BY <3>6, <4>2, <4>3, <4>5
      <4>. QED  BY <4>4, <4>5
    <3>. HIDE DEF c3, short
    <3>8. /\ CountsOK(c4)
          /\ \A metric, label : Copies(c4, Key(metric, label)) =
                Copies(c3, Key(metric, label))
                  + IF metric = "unique_dest_ips" /\ fresh(label) THEN 1 ELSE 0
      BY <3>7, UniqueDestIPsIs DEF WindowInv, m
    <3>. HIDE DEF c4, fresh
    <3>9. ASSUME NEW metric, NEW label
          PROVE  Copies(c4, Key(metric, label)) =
            IF metric = "fork_bomb_score" THEN IF bomb(label) THEN f ELSE old(metric, label)
            ELSE old(metric, label) + IF \/ metric = m /\ Bears(ev, label)
                                         \/ metric = "short_lived_process" /\ short /\ Bears(ev, label)
                                         \/ metric = "unique_dest_ips" /\ fresh(label)
                                      THEN 1 ELSE 0
      <4>1. old(metric, label) \in Nat /\ (metric = m => metric \notin Derived)
        BY <1>0, <3>2 DEF m
      <4>2. bomb(label) /\ metric = "fork_bomb_score" => f \in Nat
        <5>1. ev.ppid \in Parents(label) => ev.ppid # 0
          BY ConstantsAssumption DEF Parents
        <5>. QED  BY <3>3, <5>1 DEF bomb
      <4>. HIDE DEF old
      <4>3. /\ Copies(c1, Key(metric, label)) =
                 old(metric, label) + IF metric = m /\ Bears(ev, label) THEN 1 ELSE 0
            /\ Copies(c2, Key(metric, label)) =
                 IF metric = "fork_bomb_score" /\ bomb(label) THEN f
                 ELSE Copies(c1, Key(metric, label))
            /\ Copies(c3, Key(metric, label)) =
                 Copies(c2, Key(metric, label))
                   + IF metric = "short_lived_process" /\ short /\ Bears(ev, label) THEN 1 ELSE 0
            /\ Copies(c4, Key(metric, label)) =
                 Copies(c3, Key(metric, label))
                   + IF metric = "unique_dest_ips" /\ fresh(label) THEN 1 ELSE 0
        BY <3>2, <3>6, <3>7, <3>8 DEF old
      <4>. QED  BY <4>1, <4>2, <4>3 DEF Derived
    <3>. QED  BY <2>2, <3>1, <3>8, <3>9
  <2>. QED  BY <2>1, <2>2
<1>2. ASSUME NEW metric, NEW label
      PROVE  new(metric, label) = Recount(Key(metric, label))'
  <2>. DEFINE inc == ShouldInclude(ev) /\ Bears(ev, label)
  <2>1. Recount(Key(metric, label)) =
           CASE metric = "short_lived_process" -> Cardinality(Shorts(label))
             [] metric = "unique_dest_ips" -> Cardinality(Ips(label))
             [] metric = "fork_bomb_score" -> Score(label)
             [] OTHER -> Cardinality(Same(metric, label))
    BY RecountIs DEF RecountSplits
  <2>2. Recount(Key(metric, label))' =
           CASE metric = "short_lived_process" -> Cardinality(Shorts(label)')
             [] metric = "unique_dest_ips" -> Cardinality(Ips(label)')
             [] metric = "fork_bomb_score" -> Score(label)'
             [] OTHER -> Cardinality(Same(metric, label)')
    <3>1. RecountSplits'
      BY RecountIs, PTL
    <3>. QED  BY <3>1 DEF RecountSplits, Key
  <2>3. old(metric, label) = Recount(Key(metric, label))
    BY DEF WindowInv, CountsExact
  <2>4. /\ Own(label) \in SUBSET (1 .. n) /\ Shorts(label) \in SUBSET (1 .. n)
        /\ Same(metric, label) \in SUBSET (1 .. n)
        /\ Same(metric, label)' = IF inc /\ m = metric THEN Same(metric, label) \cup {n + 1}
                                  ELSE Same(metric, label)
        /\ Shorts(label)' = IF inc /\ short THEN Shorts(label) \cup {n + 1} ELSE Shorts(label)
        /\ Ips(label)' = IF inc /\ ev.ip # "none" /\ m = "connect"
                         THEN Ips(label) \cup {ev.ip} ELSE Ips(label)
    BY Grown DEF Shorts, Same
  <2>5. Score(label)' = IF ShouldInclude(ev) /\ bomb(label) THEN f ELSE Score(label)
    BY ScoreIs
  <2>6. /\ IsFiniteSet(Ips(label)) /\ Cardinality(Ips(label)) \in Nat
        /\ Cardinality(Ips(label) \cup {ev.ip}) =
             Cardinality(Ips(label)) + IF ev.ip \in Ips(label) THEN 0 ELSE 1
    <3>1. IsFiniteSet(Ips(label))
      BY DEF WindowInv, DestinationsExact
    <3>2. Cardinality(Ips(label)) \in Nat
      BY <3>1, FS_CardinalityType
    <3>3. Cardinality(Ips(label) \cup {ev.ip}) =
             IF ev.ip \in Ips(label) THEN Cardinality(Ips(label)) ELSE Cardinality(Ips(label)) + 1
      BY <3>1, FS_AddElement
    <3>. QED  BY <3>1, <3>2, <3>3
  <2>7. /\ Cardinality(Shorts(label)) \in Nat /\ Cardinality(Same(metric, label)) \in Nat
        /\ Cardinality(Shorts(label) \cup {n + 1}) = Cardinality(Shorts(label)) + 1
        /\ Cardinality(Same(metric, label) \cup {n + 1}) = Cardinality(Same(metric, label)) + 1
    BY <2>4, OneMoreIndex
  <2>8. ~ShouldInclude(ev) => new(metric, label) = old(metric, label)
    BY <1>1
  <2>9. ShouldInclude(ev) => new(metric, label) =
            IF metric = "fork_bomb_score" THEN IF bomb(label) THEN f ELSE old(metric, label)
            ELSE old(metric, label) + IF \/ metric = m /\ Bears(ev, label)
                                         \/ metric = "short_lived_process" /\ short /\ Bears(ev, label)
                                         \/ metric = "unique_dest_ips" /\ fresh(label)
                                      THEN 1 ELSE 0
    BY <1>1
  <2>10. fresh(label) <=> /\ Bears(ev, label) /\ ev.ip # "none" /\ m = "connect"
                          /\ ev.ip \notin Ips(label)
    OBVIOUS
  <2>. HIDE DEF m, short, f, old, new, bomb, fresh
  <2>11. CASE metric = "fork_bomb_score"
    BY <2>1, <2>2, <2>3, <2>5, <2>8, <2>9, <2>11
  <2>12. CASE metric = "short_lived_process"
    BY <1>0, <2>1, <2>2, <2>3, <2>4, <2>7, <2>8, <2>9, <2>12 DEF Derived
  <2>13. CASE metric = "unique_dest_ips"
    BY <1>0, <2>1, <2>2, <2>3, <2>4, <2>6, <2>8, <2>9, <2>10, <2>13 DEF Derived
  <2>14. CASE metric \notin Derived
    BY <2>1, <2>2, <2>3, <2>4, <2>7, <2>8, <2>9, <2>14 DEF Derived
  <2>. QED  BY <2>11, <2>12, <2>13, <2>14 DEF Derived
<1>3. CountsExact'
  <2>1. \A metric, label : Copies(counts', Key(metric, label)) = Recount(Key(metric, label))'
    BY <1>2
  <2>. QED  BY <2>1 DEF CountsExact, Copies, Key
<1>. QED  BY <1>1, <1>3

\* What is counted alike before and after a step of the rest of the system.
LEMMA WindowUntouched ==
    ASSUME UNCHANGED <<options, tables, seen, rotated>>, WindowInv
    PROVE  WindowInv'
<1>1. /\ UNCHANGED <<options, counts, uniqueDestIP, ppidForks, pidExecNs, seen, rotated>>
      /\ InWindow' = InWindow
  BY DEF tables, InWindow
<1>2. /\ \A i : Counted(i)' = Counted(i)
      /\ \A x, label : Bears(x, label)' = Bears(x, label)
      /\ \A label : Parents(label)' = Parents(label)
  BY <1>1 DEF Counted, ShouldInclude, Bears, Label, Parents
<1>3. \A i, p : ForksUpTo(i, p)' = ForksUpTo(i, p)
  BY <1>1 DEF ForksUpTo, Counted, ShouldInclude
<1>4. \A i : ShortLivedAt(i)' = ShortLivedAt(i)
  BY <1>1 DEF ShortLivedAt, StartOf, Counted, ShouldInclude, Latest
<1>5. \A label : Own(label)' = Own(label)
  BY <1>1 DEF Own, Counted, ShouldInclude, Bears, Label
<1>6. \A label : Shorts(label)' = Shorts(label) /\ Ips(label)' = Ips(label)
  BY <1>1, <1>4, <1>5 DEF Shorts, Ips
<1>7. \A metric, label : Same(metric, label)' = Same(metric, label)
  BY <1>1, <1>5 DEF Same
<1>8. \A label : Score(label)' = Score(label)
  BY <1>1 DEF Score, Bombs, Parents, Latest, ForksUpTo, Counted, ShouldInclude
<1>9. ASSUME NEW metric, NEW label
      PROVE  Recount(Key(metric, label))' = Recount(Key(metric, label))
  <2>1. RecountSplits'
    BY RecountIs, PTL
  <2>2. Recount(Key(metric, label)) =
           CASE metric = "short_lived_process" -> Cardinality(Shorts(label))
             [] metric = "unique_dest_ips" -> Cardinality(Ips(label))
             [] metric = "fork_bomb_score" -> Score(label)
             [] OTHER -> Cardinality(Same(metric, label))
    BY RecountIs DEF RecountSplits
  <2>3. Recount(Key(metric, label))' =
           CASE metric = "short_lived_process" -> Cardinality(Shorts(label)')
             [] metric = "unique_dest_ips" -> Cardinality(Ips(label)')
             [] metric = "fork_bomb_score" -> Score(label)'
             [] OTHER -> Cardinality(Same(metric, label)')
    BY <2>1 DEF RecountSplits, Key
  <2>. QED  BY <1>6, <1>7, <1>8, <2>2, <2>3
<1>10. BagsOK' /\ ForksExact'
  BY <1>1, <1>3 DEF WindowInv, BagsOK, ForksExact, ForksUpTo, Copies, Key, Counted, ShouldInclude
<1>11. DestinationsExact'
  BY <1>1, <1>6 DEF WindowInv, DestinationsExact, Key
<1>12. CountsExact'
  BY <1>1, <1>9 DEF WindowInv, CountsExact, Copies, Key
<1>. QED  BY <1>10, <1>11, <1>12 DEF WindowInv

LEMMA WindowStays ==
    ASSUME LoopInv, WindowInv, [Next]_vars
    PROVE  WindowInv'
<1>1. CASE Count
  <2>1. PICK ev \in Event, n \in Nat : Counting(ev, n)
    BY <1>1, CountIs DEF LoopInv, Counting
  <2>2. CountsOK(counts') /\ CountsExact'
    BY <2>1, CountsGrow DEF LoopInv
  <2>3. IsABag(ppidForks') /\ ForksExact'
    BY <2>1, ForksGrow DEF LoopInv, WindowInv
  <2>4. DestinationsExact'
    BY <2>1, DestinationsGrow DEF LoopInv, WindowInv
  <2>5. BagsOK'
    BY <2>2, <2>3 DEF BagsOK, CountsOK, Key
  <2>. QED  BY <2>2, <2>3, <2>4, <2>5 DEF WindowInv
<1>2. CASE RotateWindow
  <2>1. FreshTables'
    BY <1>2, LoggedStays DEF LoopInv, FreshTables, RotateWindow, Rotate
  <2>. QED  BY <2>1, FreshWindow, PTL
<1>3. CASE UNCHANGED <<options, tables, seen, rotated>>
  BY <1>3, WindowUntouched
<1>. QED  BY <1>1, <1>2, <1>3, Frames

LEMMA WindowInvAlways == Spec => [](LoopInv /\ WindowInv)
<1>1. Init => LoopInv /\ WindowInv
  <2>1. Init => FreshTables
    BY DEF Init, AggregatorInit, FreshTables, Logged
  <2>. QED  BY <2>1, InitInv, LoggedFirst, StartsFirst, FreshWindow DEF LoopInv
<1>2. LoopInv /\ WindowInv /\ [Next]_vars => (LoopInv /\ WindowInv)'
  BY NextInv, LoggedStays, StartsStay, WindowStays DEF LoopInv
<1>. QED  BY <1>1, <1>2, PTL DEF Spec

\* A dimension that Recount counts for bears a label and a metric of the window.
LEMMA CountedHere ==
    ASSUME LoopInv, NEW metric, NEW label, Recount(Key(metric, label)) # 0
    PROVE  metric \in Metrics /\ label \in Labels
<1>1. Recount(Key(metric, label)) =
         CASE metric = "short_lived_process" -> Cardinality(Shorts(label))
           [] metric = "unique_dest_ips" -> Cardinality(Ips(label))
           [] metric = "fork_bomb_score" -> Score(label)
           [] OTHER -> Cardinality(Same(metric, label))
  BY RecountIs DEF RecountSplits
<1>2. ASSUME NEW i \in Own(label)
      PROVE  label \in Labels
  <2>1. i \in InWindow /\ Bears(seen[i], label)
    BY DEF Own
  <2>2. DimensionKey("exec", seen[i]).label = Label(seen[i])
    BY DEF DimensionKey, Key, Label
  <2>. QED  BY <2>1, <2>2 DEF Bears, Labels
<1>3. CASE metric = "fork_bomb_score"
  <2>1. Bombs(Parents(label)) # {}
    BY <1>1, <1>3 DEF Score
  <2>2. Parents(label) # {}
    BY <2>1 DEF Bombs
  <2>. QED  BY <1>3, <2>2 DEF Parents, Labels, Metrics
<1>4. CASE metric = "short_lived_process"
  <2>1. Shorts(label) # {}
    BY <1>1, <1>4, FS_EmptySet
  <2>. QED  BY <1>2, <1>4, <2>1 DEF Shorts, Metrics
<1>5. CASE metric = "unique_dest_ips"
  <2>1. Ips(label) # {}
    BY <1>1, <1>5, FS_EmptySet
  <2>. QED  BY <1>2, <1>5, <2>1 DEF Ips, Metrics
<1>6. CASE metric \notin Derived
  <2>1. Same(metric, label) # {}
    BY <1>1, <1>6, FS_EmptySet DEF Derived
  <2>2. PICK i \in Own(label) : EventTypeToMetric(seen[i]) = metric
    BY <2>1 DEF Same
  <2>3. i \in InWindow
    BY DEF Own
  <2>. QED  BY <1>2, <2>2, <2>3 DEF Metrics
<1>. QED  BY <1>3, <1>4, <1>5, <1>6 DEF Derived

\* The counts that Add keeps in its four tables are those that a recount of the events of the
\* window gives, for any events, options, sizes and limits: the derived metrics (short-lived
\* processes, fork bombs, unique destinations) as well as the plain ones, and no dimension
\* is left over from an earlier window.
THEOREM WindowsAreRecounts == Spec => []WindowIsRecount
<1>1. LoopInv /\ WindowInv => WindowIsRecount
  <2>. SUFFICES ASSUME LoopInv, WindowInv PROVE WindowIsRecount
    OBVIOUS
  <2>1. ASSUME NEW k \in DOMAIN counts
        PROVE  k \in {Key(metric, label) : metric \in Metrics, label \in Labels}
    <3>1. k = Key(k.metric, k.label) /\ Copies(counts, k) # 0
      BY SetAdded DEF WindowInv, BagsOK
    <3>2. Recount(Key(k.metric, k.label)) # 0
      BY <3>1 DEF WindowInv, CountsExact
    <3>3. k.metric \in Metrics /\ k.label \in Labels
      BY <3>2, CountedHere
    <3>. QED  BY <3>1, <3>3
  <2>. QED  BY <2>1 DEF WindowIsRecount, WindowInv, CountsExact
<1>. QED  BY <1>1, WindowInvAlways, PTL

-----------------------------------------------------------------------------
(* The cache has one entry for each pid, and the consumer looks up the head of the queue. *)

Distinct(s) == \A i, j \in 1 .. Len(s) : s[i].pid = s[j].pid => i = j
Lacks(s, pid) == \A i \in 1 .. Len(s) : s[i].pid # pid

CacheInv ==
    /\ Len(pidOrder) <= CacheMax /\ Distinct(pidOrder)
    /\ lookup.stage \in {"asked", "read"} => Lacks(pidOrder, lookup.pid)

QueueInv ==
    /\ now \in 1 .. MaxTime[workload] /\ Len(queue) <= QueueMax
    /\ lookup # NoLookup => queue # <<>> /\ Head(queue).pid = lookup.pid

\* A sequence of entries without its i-th has none of its pid left.
LEMMA RemovedOne ==
    ASSUME NEW s \in Seq(Entry), Distinct(s), NEW i \in 1 .. Len(s)
    PROVE  Distinct(RemoveAt(s, i)) /\ Lacks(RemoveAt(s, i), s[i].pid)
<1>. DEFINE t == RemoveAt(s, i)
            at(j) == IF j < i THEN j ELSE j + 1
<1>1. Len(t) = Len(s) - 1 /\ \A j \in 1 .. Len(s) - 1 : t[j] = s[at(j)]
  BY RemovedAt
<1>2. \A j \in 1 .. Len(s) - 1 : at(j) \in 1 .. Len(s) /\ at(j) # i
  OBVIOUS
<1>3. \A j, k \in 1 .. Len(s) - 1 : at(j) = at(k) => j = k
  OBVIOUS
<1>. HIDE DEF t, at
<1>4. Distinct(t)
  BY <1>1, <1>2, <1>3 DEF Distinct
<1>5. Lacks(t, s[i].pid)
  BY <1>1, <1>2 DEF Distinct, Lacks
<1>. QED  BY <1>4, <1>5 DEF t

LEMMA AddedOne ==
    ASSUME NEW e \in Entry, NEW s \in Seq(Entry), Distinct(s), Lacks(s, e.pid)
    PROVE  Distinct(<<e>> \o s) /\ Len(<<e>> \o s) = Len(s) + 1
<1>1. /\ Len(s) \in Nat /\ Len(<<e>> \o s) = Len(s) + 1
      /\ (<<e>> \o s)[1] = e
      /\ \A j \in 2 .. Len(s) + 1 : (<<e>> \o s)[j] = s[j - 1] /\ j - 1 \in 1 .. Len(s)
  OBVIOUS
<1>. DEFINE t == <<e>> \o s
<1>2. ASSUME NEW i \in 1 .. Len(s) + 1, NEW j \in 1 .. Len(s) + 1, t[i].pid = t[j].pid
      PROVE  i = j
  <2>1. CASE i = 1 \/ j = 1
    <3>1. \A k \in 1 .. Len(s) + 1 : k # 1 => k \in 2 .. Len(s) + 1
      BY <1>1
    <3>2. \A k \in 2 .. Len(s) + 1 : t[k].pid # e.pid
      BY <1>1 DEF Lacks
    <3>. HIDE DEF t
    <3>3. t[1].pid = e.pid
      BY <1>1 DEF t
    <3>. QED  BY <1>2, <2>1, <3>1, <3>2, <3>3
  <2>2. CASE i # 1 /\ j # 1
    <3>1. i \in 2 .. Len(s) + 1 /\ j \in 2 .. Len(s) + 1
      BY <1>1, <2>2
    <3>2. i - 1 = j - 1
      BY <1>1, <1>2, <3>1 DEF Distinct
    <3>. QED  BY <3>1, <3>2
  <2>. QED  BY <2>1, <2>2
<1>. QED  BY <1>1, <1>2 DEF Distinct

LEMMA CacheFirst == Init => CacheInv /\ QueueInv
<1>1. Init => 1 \in 1 .. MaxTime[workload]
  BY ConstantsAssumption DEF Init
<1>. QED  BY <1>1, ConstantsAssumption DEF Init, CacheInit, CacheInv, QueueInv, NoLookup, Distinct,
                                           CacheConstantsOK

LEMMA CacheStays ==
    ASSUME Inv, CacheInv, [Next]_vars
    PROVE  CacheInv'
<1>. USE Constants
<1>1. CASE UNCHANGED <<pidOrder, lookup>>
  BY <1>1 DEF CacheInv, Distinct, Lacks
<1>2. CASE Enrich
  <2>1. queue # <<>> /\ queue \in Seq(Event) /\ pidOrder \in Seq(Entry)
    BY <1>2 DEF Enrich, Inv, Types
  <2>2. PICK ev \in Event :
          \/ lookup' = [stage |-> "named", pid |-> ev.pid, binary |-> ev.file]
             /\ UNCHANGED pidOrder
          \/ AskCache(ev.pid)
    BY <1>2, <2>1 DEF Enrich
  <2>3. CASE UNCHANGED pidOrder /\ lookup'.stage = "named"
    BY <2>3 DEF CacheInv, Distinct
  <2>4. CASE ~Cached(ev.pid) /\ UNCHANGED pidOrder
             /\ lookup' = [stage |-> "asked", pid |-> ev.pid]
    BY <2>4 DEF CacheInv, Distinct, Lacks, Cached, Index
  <2>5. ASSUME NEW i \in Index(ev.pid), pidOrder' = RemoveAt(pidOrder, i),
               lookup' = [stage |-> "asked", pid |-> ev.pid]
        PROVE  CacheInv'
    <3>1. i \in 1 .. Len(pidOrder) /\ pidOrder[i].pid = ev.pid
      BY <2>5 DEF Index
    <3>2. Distinct(pidOrder') /\ Lacks(pidOrder', ev.pid) /\ Len(pidOrder') = Len(pidOrder) - 1
      BY <2>1, <2>5, <3>1, RemovedAt, RemovedOne DEF CacheInv
    <3>3. Len(pidOrder') <= CacheMax
      BY <2>1, <3>2 DEF CacheInv
    <3>. QED  BY <2>5, <3>2, <3>3 DEF CacheInv, Distinct, Lacks
  <2>6. ASSUME NEW i \in Index(ev.pid), Hit(i), lookup'.stage = "answered"
        PROVE  CacheInv'
    <3>1. i \in 1 .. Len(pidOrder) /\ pidOrder[i] \in Entry
      BY <2>1, <2>6 DEF Index
    <3>2. /\ RemoveAt(pidOrder, i) \in Seq(Entry) /\ Len(RemoveAt(pidOrder, i)) = Len(pidOrder) - 1
          /\ Distinct(RemoveAt(pidOrder, i)) /\ Lacks(RemoveAt(pidOrder, i), pidOrder[i].pid)
      BY <2>1, <3>1, RemovedAt, RemovedOne DEF CacheInv
    <3>3. pidOrder' = <<pidOrder[i]>> \o RemoveAt(pidOrder, i)
      BY <2>6 DEF Hit
    <3>4. Distinct(pidOrder') /\ Len(pidOrder') = Len(RemoveAt(pidOrder, i)) + 1
      BY <3>1, <3>2, <3>3, AddedOne
    <3>5. Len(pidOrder') <= CacheMax
      BY <2>1, <3>2, <3>4 DEF CacheInv
    <3>. QED  BY <2>6, <3>4, <3>5 DEF CacheInv, Distinct
  <2>. QED  BY <2>2, <2>3, <2>4, <2>5, <2>6 DEF AskCache, Answered
<1>3. CASE Resolve
  BY <1>3 DEF Resolve, ReadLink, CacheInv, Distinct, Lacks
<1>4. CASE Remember
  <2>. DEFINE e == [pid |-> lookup.pid, binary |-> lookup.binary, expires |-> now + TTL]
  <2>1. /\ lookup.stage = "read" /\ lookup'.stage = "answered"
        /\ pidOrder' = <<e>> \o EvictPIDIfNeeded
    BY <1>4 DEF Remember, Insert, Answered
  <2>2. /\ e \in Entry /\ e.pid = lookup.pid /\ pidOrder \in Seq(Entry)
        /\ Distinct(pidOrder) /\ Lacks(pidOrder, lookup.pid) /\ Len(pidOrder) <= CacheMax
    BY <2>1 DEF Inv, Types, LookupTypes, Entry, CacheInv
  <2>. HIDE DEF e
  <2>3. /\ EvictPIDIfNeeded \in Seq(Entry) /\ Len(EvictPIDIfNeeded) <= CacheMax - 1
        /\ Distinct(EvictPIDIfNeeded) /\ Lacks(EvictPIDIfNeeded, e.pid)
    <3>1. CASE Len(pidOrder) >= CacheMax
      <4>1. /\ SubSeq(pidOrder, 1, CacheMax - 1) \in Seq(Entry)
            /\ Len(SubSeq(pidOrder, 1, CacheMax - 1)) = CacheMax - 1
            /\ \A j \in 1 .. CacheMax - 1 :
                  /\ SubSeq(pidOrder, 1, CacheMax - 1)[j] = pidOrder[j]
                  /\ j \in 1 .. Len(pidOrder)
        BY <2>2, <3>1
      <4>. QED  BY <2>2, <3>1, <4>1 DEF EvictPIDIfNeeded, Distinct, Lacks
    <3>2. CASE ~(Len(pidOrder) >= CacheMax)
      BY <2>2, <3>2 DEF EvictPIDIfNeeded
    <3>. QED  BY <3>1, <3>2
  <2>4. Distinct(pidOrder') /\ Len(pidOrder') = Len(EvictPIDIfNeeded) + 1
    BY <2>1, <2>2, <2>3, AddedOne
  <2>5. Len(pidOrder') <= CacheMax
    BY <2>3, <2>4
  <2>. QED  BY <2>1, <2>4, <2>5 DEF CacheInv, Distinct
<1>5. CASE Count
  BY <1>5 DEF Count, CacheInv, NoLookup, Distinct
<1>6. ASSUME NEW type, NEW pid, NEW flags, NEW file, NEW ip, Emit(type, pid, flags, file, ip)
      PROVE  UNCHANGED <<pidOrder, lookup>>
  BY <1>6 DEF Emit
<1>. QED  BY <1>1, <1>2, <1>3, <1>4, <1>5, <1>6
          DEF Next, Exec, Fork, Exit, Other, Tick, RotateWindow, vars

LEMMA QueueStays ==
    ASSUME Inv, QueueInv, [Next]_vars
    PROVE  QueueInv'
<1>0. queue \in Seq(Event) /\ now \in Nat /\ QueueMax \in Nat /\ MaxTime[workload] \in Nat
  BY ConstantsAssumption DEF Inv, Types
<1>1. ASSUME NEW type, NEW pid, NEW flags, NEW file, NEW ip, Emit(type, pid, flags, file, ip)
      PROVE  QueueInv'
  <2>. DEFINE ev == [type |-> type, pid |-> pid, ppid |-> parent[pid], at |-> now,
                     comm |-> exe[pid], flags |-> flags, file |-> file, ip |-> ip,
                     binary |-> "none"]
  <2>1. /\ UNCHANGED <<now, lookup, workload>>
        /\ \/ queue' = queue
           \/ Len(queue) < QueueMax /\ queue' = Append(queue, ev)
    BY <1>1 DEF Emit
  <2>. HIDE DEF ev
  <2>2. /\ Len(Append(queue, ev)) = Len(queue) + 1
        /\ queue # <<>> => Append(queue, ev) # <<>> /\ Head(Append(queue, ev)) = Head(queue)
    BY <1>0
  <2>. QED  BY <1>0, <2>1, <2>2 DEF QueueInv
<1>2. CASE Tick
  BY <1>0, <1>2 DEF Tick, QueueInv
<1>3. CASE Enrich
  <2>1. /\ UNCHANGED <<now, queue, workload>> /\ queue # <<>> /\ lookup'.pid = Head(queue).pid
    BY <1>3 DEF Enrich, AskCache, Answered
  <2>. QED  BY <2>1 DEF QueueInv
<1>4. CASE Resolve \/ Remember
  <2>1. UNCHANGED <<now, queue, workload>> /\ lookup # NoLookup /\ lookup'.pid = lookup.pid
    BY <1>4 DEF Resolve, ReadLink, Remember, Insert, Answered, NoLookup
  <2>. QED  BY <2>1 DEF QueueInv
<1>5. CASE Count
  <2>1. /\ UNCHANGED <<now, workload>> /\ lookup' = NoLookup
        /\ queue' = Tail(queue) /\ queue # <<>>
    BY <1>5 DEF Count, Inv, LookupTypes
  <2>2. Len(queue') <= Len(queue) /\ Len(queue') \in Nat
    BY <1>0, <2>1
  <2>. QED  BY <1>0, <2>1, <2>2 DEF QueueInv
<1>6. CASE RotateWindow \/ UNCHANGED vars
  BY <1>6 DEF RotateWindow, vars, QueueInv
<1>. QED  BY <1>1, <1>2, <1>3, <1>4, <1>5, <1>6 DEF Next, Exec, Fork, Exit, Other

\* Every event of a dimension is one of the host as well.
LEMMA TwinCounts ==
    ASSUME Logged, DestinationsExact, NEW metric, metric # "fork_bomb_score", NEW label
    PROVE  /\ Recount(Key(metric, label)) \in Nat /\ Recount(Key(metric, Host)) \in Nat
           /\ Recount(Key(metric, label)) <= Recount(Key(metric, Host))
<1>1. \A l : Recount(Key(metric, l)) =
         CASE metric = "short_lived_process" -> Cardinality(Shorts(l))
           [] metric = "unique_dest_ips" -> Cardinality(Ips(l))
           [] metric = "fork_bomb_score" -> Score(l)
           [] OTHER -> Cardinality(Same(metric, l))
  BY RecountIs DEF RecountSplits
<1>2. IsFiniteSet(InWindow)
  BY FS_Interval DEF InWindow, Logged
<1>3. Own(label) \subseteq Own(Host)
  BY DEF Own, Bears
<1>4. /\ Shorts(label) \subseteq Shorts(Host) /\ Ips(label) \subseteq Ips(Host)
      /\ Same(metric, label) \subseteq Same(metric, Host)
  BY <1>3 DEF Shorts, Ips, Same
<1>5. Shorts(Host) \subseteq InWindow /\ Same(metric, Host) \subseteq InWindow
  BY DEF Shorts, Same, Own
<1>6. IsFiniteSet(Shorts(Host)) /\ IsFiniteSet(Same(metric, Host)) /\ IsFiniteSet(Ips(Host))
  BY <1>2, <1>5, FS_Subset DEF DestinationsExact
<1>7. \A S, T : S \subseteq T /\ IsFiniteSet(T) =>
         Cardinality(S) \in Nat /\ Cardinality(T) \in Nat /\ Cardinality(S) <= Cardinality(T)
  BY FS_Subset, FS_CardinalityType
<1>8. /\ Cardinality(Shorts(label)) \in Nat /\ Cardinality(Shorts(Host)) \in Nat
      /\ Cardinality(Shorts(label)) <= Cardinality(Shorts(Host))
  BY <1>4, <1>6, <1>7
<1>9. /\ Cardinality(Ips(label)) \in Nat /\ Cardinality(Ips(Host)) \in Nat
      /\ Cardinality(Ips(label)) <= Cardinality(Ips(Host))
  BY <1>4, <1>6, <1>7
<1>10. /\ Cardinality(Same(metric, label)) \in Nat /\ Cardinality(Same(metric, Host)) \in Nat
       /\ Cardinality(Same(metric, label)) <= Cardinality(Same(metric, Host))
  BY <1>4, <1>6, <1>7
<1>. QED  BY <1>1, <1>8, <1>9, <1>10

\* The cache stays within its size with one entry for each pid, the consumer works on the head
\* of the queue, and no dimension is counted more often than the host, whatever the sizes.
THEOREM LoopTypes == Spec => []TypeOK
<1>1. Init => LoopInv /\ WindowInv /\ CacheInv /\ QueueInv
  <2>1. Init => FreshTables
    BY DEF Init, AggregatorInit, FreshTables, Logged
  <2>. QED  BY <2>1, InitInv, LoggedFirst, StartsFirst, FreshWindow, CacheFirst DEF LoopInv
<1>2. LoopInv /\ WindowInv /\ CacheInv /\ QueueInv /\ [Next]_vars
         => (LoopInv /\ WindowInv /\ CacheInv /\ QueueInv)'
  BY NextInv, LoggedStays, StartsStay, WindowStays, CacheStays, QueueStays DEF LoopInv
<1>3. LoopInv /\ WindowInv /\ CacheInv /\ QueueInv => TypeOK
  <2>. SUFFICES ASSUME LoopInv, WindowInv, CacheInv, QueueInv PROVE TypeOK
    OBVIOUS
  <2>1. ASSUME NEW k \in DOMAIN counts, k.metric # "fork_bomb_score"
        PROVE  Key(k.metric, Host) \in DOMAIN counts /\ counts[k] <= counts[Key(k.metric, Host)]
    <3>. DEFINE h == Key(k.metric, Host)
    <3>1. \A x : x \in DOMAIN counts <=> Copies(counts, x) # 0
      BY SetAdded DEF WindowInv, BagsOK
    <3>2. k = Key(k.metric, k.label) /\ Copies(counts, k) # 0 /\ Copies(counts, k) = counts[k]
      BY <2>1, <3>1 DEF WindowInv, BagsOK, Copies
    <3>3. Copies(counts, k) = Recount(Key(k.metric, k.label)) /\ Copies(counts, h) = Recount(h)
      BY <3>2 DEF WindowInv, CountsExact
    <3>4. Copies(counts, k) \in Nat /\ Copies(counts, h) \in Nat /\ Copies(counts, k) <= Copies(counts, h)
      BY <2>1, <3>3, TwinCounts DEF WindowInv, LoopInv
    <3>. HIDE DEF h
    <3>5. h \in DOMAIN counts
      BY <3>1, <3>2, <3>4
    <3>6. Copies(counts, h) = counts[h]
      BY <3>5 DEF Copies
    <3>. QED  BY <3>2, <3>4, <3>5, <3>6 DEF h
  <2>2. CacheOK
    BY DEF CacheOK, CacheInv, Distinct, LoopInv, Inv, Recent, EntriesRecent
  <2>3. lookup.stage \in {"none", "named", "asked", "read", "answered"}
    BY DEF LoopInv, Inv, LookupTypes
  <2>4. rotated \in 0 .. Len(seen)
    BY DEF LoopInv, Logged
  <2>. QED  BY <2>1, <2>2, <2>3, <2>4 DEF TypeOK, QueueInv, WindowInv, BagsOK
<1>. QED  BY <1>1, <1>2, <1>3, PTL DEF Spec
=============================================================================
