------------------------------ MODULE PidCache -------------------------------
(* The enricher's cache of binaries by pid. Only the consumer goroutine uses it; the link is *)
(* read with the lock released.                                                              *)
EXTENDS Naturals, Sequences, SequencesExt

CONSTANTS
    Binaries,
    CacheMax,  \* pidCacheMaxSize
    TTL        \* pidCacheTTL

VARIABLES
    now,
    pidOrder,  \* the list: the entry used last comes first. pidCache is its index by pid.
    lookup     \* the lookup of the consumer: the pid asked for, and the answer

CacheConstantsOK == CacheMax \in Nat \ {0} /\ TTL \in Nat \ {0}

NoLookup == [stage |-> "none"]

Answered(pid, binary) == [stage |-> "answered", pid |-> pid, binary |-> binary, at |-> now]

CacheInit == pidOrder = <<>> /\ lookup = NoLookup

Index(pid) == {i \in 1..Len(pidOrder) : pidOrder[i].pid = pid}

Cached(pid) == Index(pid) # {}

Fresh(i) == now < pidOrder[i].expires

\* mutant: a hit extends the life of the entry.
HitRenews(i) ==
    pidOrder' = <<[pidOrder[i] EXCEPT !.expires = now + TTL]>> \o RemoveAt(pidOrder, i)

Hit(i) == pidOrder' = <<pidOrder[i]>> \o RemoveAt(pidOrder, i)

\* resolveBinary up to the release of the lock: a fresh entry is the answer, even if it says
\* that there was no such process; one that has expired goes.
AskCache(pid) ==
    \/ \E i \in Index(pid) :
        /\ Fresh(i) /\ Hit(i)
        /\ lookup' = Answered(pid, pidOrder[i].binary)
    \/ /\ \E i \in Index(pid) : ~Fresh(i) /\ pidOrder' = RemoveAt(pidOrder, i)
       /\ lookup' = [stage |-> "asked", pid |-> pid]
    \/ /\ ~Cached(pid)
       /\ lookup' = [stage |-> "asked", pid |-> pid]
       /\ UNCHANGED pidOrder

\* os.Readlink of /proc/<pid>/exe: what the pid runs now.
ReadLink(target) ==
    /\ lookup.stage = "asked"
    /\ lookup' = [stage |-> "read", pid |-> lookup.pid, binary |-> target]
    /\ UNCHANGED pidOrder

EvictLate == IF Len(pidOrder) > CacheMax THEN Front(pidOrder) ELSE pidOrder   \* mutant

\* evictPIDIfNeeded: the entry that was not used for longest.
EvictPIDIfNeeded ==
    IF Len(pidOrder) >= CacheMax THEN SubSeq(pidOrder, 1, CacheMax - 1) ELSE pidOrder

\* The rest of resolveBinary.
Insert ==
    /\ lookup.stage = "read"
    /\ pidOrder' = <<[pid |-> lookup.pid, binary |-> lookup.binary, expires |-> now + TTL]>>
                     \o EvictPIDIfNeeded
    /\ lookup' = Answered(lookup.pid, lookup.binary)

\* One entry for each pid, and no more of them than the cache is to hold.
CacheOK ==
    /\ Len(pidOrder) <= CacheMax
    /\ \A i, j \in 1..Len(pidOrder) : pidOrder[i].pid = pidOrder[j].pid => i = j
    /\ \A i \in 1..Len(pidOrder) : pidOrder[i].expires <= now + TTL
=============================================================================
