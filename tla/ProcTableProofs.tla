--------------------------- MODULE ProcTableProofs ---------------------------
(***************************************************************************)
(* The two maps of the process table agree, the parent of an entry is the  *)
(* task that forked its process, and only what has had an exit is pruned:  *)
(* for any number of tasks, any capacity of pid_parents, and whatever      *)
(* events are lost.                                                        *)
(*                                                                         *)
(* Maps and parents. Every task belongs to a process that runs (Grouped),  *)
(* and the row of pid_parents under the pid of a running process, where    *)
(* there is one, is of the fork that made it (RowsOfRunning), as a fork    *)
(* replaces what its pid left behind. The events that make an entry come   *)
(* from running processes, so the table copies only such rows.             *)
(*                                                                         *)
(* Pruning. An exited entry of a process that runs owes its mark to the    *)
(* exit of a thread (ExitedEnded).                                         *)
(***************************************************************************)
EXTENDS ProcTable, TLAPS

Entry == [start : Nat, ppid : Tasks \cup {None}, exited : BOOLEAN]

KernelTypes ==
    /\ group \in [Tasks -> Tasks \cup {None}]
    /\ pidParents \in [Tasks -> Tasks \cup {None}]
    /\ life \in [Tasks -> Nat]

TableTypes ==
    /\ clock \in Nat
    /\ startNS \in [Tasks -> Nat] /\ byPID \in [Tasks -> Entry]
    /\ creator \in [Tasks -> Nat]

Grouped == \A t \in Tasks : group[t] # None => group[group[t]] = group[t]

RowsOfRunning ==
    \A t \in Tasks : group[t] = t /\ pidParents[t] # None => <<pidParents[t], t, life[t]>> \in forks

\* No entry without a start time.
EntriesStart == \A t \in Tasks : Has(t) => byPID[t].start # 0

KernelInv == KernelTypes /\ Grouped /\ RowsOfRunning
TableInv == TableTypes /\ EntriesStart /\ StartsMatchEntries
Inv == KernelInv /\ TableInv /\ PpidIsForker

NoneIsNoTask == None \notin Tasks

-----------------------------------------------------------------------------

LEMMA NoTask == NoneIsNoTask
BY ConstantsAssumption DEF NoneIsNoTask, None

LEMMA InitInv == Init => Inv
<1>. SUFFICES ASSUME Init PROVE Inv
  OBVIOUS
<1>1. KernelTypes /\ TableTypes
  BY ConstantsAssumption DEF Init, KernelTypes, TableTypes, Entry, NoEntry, None
<1>2. Grouped /\ RowsOfRunning
  BY ConstantsAssumption, NoTask DEF Init, Grouped, RowsOfRunning, NoneIsNoTask
<1>3. \A t \in Tasks : byPID[t] = NoEntry /\ startNS[t] = 0
  BY DEF Init
<1>4. EntriesStart /\ StartsMatchEntries /\ PpidIsForker
  <2>1. EntriesStart /\ StartsMatchEntries
    BY <1>3 DEF EntriesStart, StartsMatchEntries, Has
  <2>2. NoEntry.ppid = None
    BY DEF NoEntry
  <2>. QED  BY <1>3, <2>1, <2>2 DEF PpidIsForker
<1>. QED  BY <1>1, <1>2, <1>4 DEF Inv, KernelInv, TableInv

\* An update of pid_parents sets the row of the child to the task that forks, or nothing.
LEMMA ParentsUpdated ==
    ASSUME KernelTypes, NEW child \in Tasks, NEW task \in Tasks, UpdateParents(child, task)
    PROVE  /\ pidParents' \in [Tasks -> Tasks \cup {None}]
           /\ \A t \in Tasks : t # child => pidParents'[t] = pidParents[t]
           /\ pidParents'[child] \in {None, task}
BY DEF KernelTypes, UpdateParents

\* The kernel's part of a step.
LEMMA ForkProcessKernel ==
    ASSUME KernelInv, NEW task \in Tasks, NEW child \in Tasks, ForkProcess(task, child)
    PROVE  /\ KernelInv' /\ forks \subseteq forks'
           /\ LET pid == group[task] IN
                 /\ pid \in Tasks /\ group'[pid] = pid /\ life'[pid] = life[pid]
<1>1. /\ group[task] # None /\ group[child] = None
      /\ group' = [group EXCEPT ![child] = child]
      /\ life' = [life EXCEPT ![child] = life[child] + 1]
      /\ forks' = forks \cup {<<task, child, life[child] + 1>>}
      /\ UpdateParents(child, task)
  BY DEF ForkProcess, Alive, KernelInv, KernelTypes
<1>2. /\ pidParents' \in [Tasks -> Tasks \cup {None}]
      /\ \A t \in Tasks : t # child => pidParents'[t] = pidParents[t]
      /\ pidParents'[child] \in {None, task}
  BY <1>1, ParentsUpdated DEF KernelInv
<1>3. group[task] \in Tasks /\ group[group[task]] = group[task] /\ group[task] # child
  BY <1>1, NoTask DEF KernelInv, KernelTypes, Grouped, NoneIsNoTask
<1>4. KernelTypes'
  <2>1. group' \in [Tasks -> Tasks \cup {None}]
    BY <1>1 DEF KernelInv, KernelTypes
  <2>2. life' \in [Tasks -> Nat]
    BY <1>1 DEF KernelInv, KernelTypes
  <2>. QED  BY <1>2, <2>1, <2>2 DEF KernelTypes
<1>5. Grouped'
  BY <1>1, NoTask DEF KernelInv, KernelTypes, Grouped, NoneIsNoTask
<1>6. RowsOfRunning'
  <2>1. ASSUME NEW t \in Tasks, t # child, group'[t] = t, pidParents'[t] # None
        PROVE  <<pidParents'[t], t, life'[t]>> \in forks'
    BY <1>1, <1>2, <2>1 DEF KernelInv, KernelTypes, RowsOfRunning
  <2>2. pidParents'[child] # None => <<pidParents'[child], child, life'[child]>> \in forks'
    BY <1>1, <1>2 DEF KernelInv, KernelTypes
  <2>. QED  BY <2>1, <2>2 DEF RowsOfRunning
<1>. QED  BY <1>1, <1>3, <1>4, <1>5, <1>6 DEF KernelInv, KernelTypes

LEMMA CloneThreadKernel ==
    ASSUME KernelInv, NEW task \in Tasks, NEW child \in Tasks, CloneThread(task, child)
    PROVE  /\ KernelInv' /\ forks \subseteq forks'
           /\ LET pid == group[task] IN
                 /\ pid \in Tasks /\ group'[pid] = pid /\ life'[pid] = life[pid]
<1>1. /\ group[task] # None /\ group[child] = None
      /\ group' = [group EXCEPT ![child] = group[task]]
      /\ life' = life /\ forks' = forks
      /\ UpdateParents(child, task)
  BY DEF CloneThread, Alive
<1>2. /\ pidParents' \in [Tasks -> Tasks \cup {None}]
      /\ \A t \in Tasks : t # child => pidParents'[t] = pidParents[t]
  BY <1>1, ParentsUpdated DEF KernelInv
<1>3. group[task] \in Tasks /\ group[group[task]] = group[task] /\ group[task] # child
  BY <1>1, NoTask DEF KernelInv, KernelTypes, Grouped, NoneIsNoTask
<1>4. KernelTypes'
  BY <1>1, <1>2, <1>3 DEF KernelInv, KernelTypes
<1>5. Grouped'
  BY <1>1, <1>3, NoTask DEF KernelInv, KernelTypes, Grouped, NoneIsNoTask
<1>6. RowsOfRunning'
  BY <1>1, <1>2, <1>3 DEF KernelInv, KernelTypes, RowsOfRunning
<1>. QED  BY <1>1, <1>3, <1>4, <1>5, <1>6 DEF KernelInv, KernelTypes

\* A task that is not the leader of its process goes, or none does.
LEMMA ThreadGone ==
    ASSUME KernelInv, NEW task \in Tasks, UNCHANGED <<pidParents, life, forks>>,
           \/ group' = group
           \/ group[task] # task /\ group' = [group EXCEPT ![task] = None]
    PROVE  KernelInv' /\ \A t \in Tasks : group'[t] = t => group[t] = t
<1>1. CASE group' = group
  BY <1>1 DEF KernelInv, KernelTypes, Grouped, RowsOfRunning
<1>2. CASE group[task] # task /\ group' = [group EXCEPT ![task] = None]
  <2>1. KernelTypes' /\ RowsOfRunning' /\ \A t \in Tasks : group'[t] = t => group[t] = t
    BY <1>2, NoTask DEF KernelInv, KernelTypes, RowsOfRunning, NoneIsNoTask
  <2>2. Grouped'
    BY <1>2, NoTask DEF KernelInv, KernelTypes, Grouped, NoneIsNoTask
  <2>. QED  BY <2>1, <2>2 DEF KernelInv
<1>. QED  BY <1>1, <1>2

LEMMA ExecKernel ==
    ASSUME KernelInv, NEW task \in Tasks, Exec(task)
    PROVE  /\ KernelInv' /\ group[task] \in Tasks /\ group[group[task]] = group[task]
           /\ UNCHANGED <<pidParents, life, forks>>
           /\ \A t \in Tasks : group'[t] = t => group[t] = t
<1>1. group[task] \in Tasks /\ group[group[task]] = group[task]
  BY NoTask DEF Exec, Alive, KernelInv, KernelTypes, Grouped, NoneIsNoTask
<1>2. UNCHANGED <<pidParents, life, forks>>
  BY DEF Exec
<1>3. \/ group' = group
      \/ group[task] # task /\ group' = [group EXCEPT ![task] = None]
  BY DEF Exec, Alive
<1>. QED  BY <1>1, <1>2, <1>3, ThreadGone

LEMMA ExitKernel ==
    ASSUME KernelInv, NEW task \in Tasks, ExitThread(task) \/ ExitProcess(task)
    PROVE  /\ KernelInv' /\ forks' = forks /\ group[task] \in Tasks
           /\ \A t \in Tasks : group'[t] = t => group[t] = t
<1>1. /\ pidParents' = pidParents /\ life' = life /\ forks' = forks
      /\ group[task] \in Tasks
  BY NoTask DEF ExitThread, ExitProcess, Alive, KernelInv, KernelTypes, NoneIsNoTask
<1>2. CASE ExitThread(task)
  <2>1. \/ group' = group
        \/ group[task] # task /\ group' = [group EXCEPT ![task] = None]
    BY <1>2 DEF ExitThread
  <2>. QED  BY <1>1, <2>1, ThreadGone
<1>3. CASE ExitProcess(task)
  <2>1. group' = [t \in Tasks |-> IF group[t] = task THEN None ELSE group[t]]
    BY <1>3 DEF ExitProcess
  <2>2. KernelTypes' /\ RowsOfRunning' /\ \A t \in Tasks : group'[t] = t => group[t] = t
    BY <1>1, <2>1, NoTask DEF KernelInv, KernelTypes, RowsOfRunning, NoneIsNoTask
  <2>3. Grouped'
    BY <2>1, NoTask DEF KernelInv, KernelTypes, Grouped, NoneIsNoTask
  <2>. QED  BY <1>1, <2>2, <2>3 DEF KernelInv
<1>. QED  BY <1>2, <1>3

-----------------------------------------------------------------------------
(* The table's part. *)

\* Parents stay right where the table does not change: forks are never forgotten.
LEMMA TableStays ==
    ASSUME TableInv, PpidIsForker, forks \subseteq forks', clock' \in Nat,
           UNCHANGED <<startNS, byPID, creator>>
    PROVE  TableInv' /\ PpidIsForker'
<1>1. TableInv'
  BY DEF TableInv, TableTypes, EntriesStart, StartsMatchEntries, Has
<1>2. PpidIsForker'
  BY DEF PpidIsForker
<1>. QED  BY <1>1, <1>2

\* An entry that is made new, for a process whose row is that of its fork.
LEMMA ForkObserved ==
    ASSUME TableInv, PpidIsForker, forks \subseteq forks', NEW pid \in Tasks, ObserveFork(pid),
           clock' = clock + 1, pidParents'[pid] \in Tasks \cup {None},
           life[pid] \in Nat,
           pidParents'[pid] # None => <<pidParents'[pid], pid, life[pid]>> \in forks'
    PROVE  TableInv' /\ PpidIsForker'
<1>. DEFINE new == [start |-> clock + 1, ppid |-> pidParents'[pid], exited |-> FALSE]
<1>1. /\ startNS' = [startNS EXCEPT ![pid] = clock + 1]
      /\ byPID' = [byPID EXCEPT ![pid] = new]
      /\ creator' = [creator EXCEPT ![pid] = life[pid]]
  BY DEF ObserveFork, Note
<1>2. /\ new \in Entry /\ new.start = clock + 1 /\ new.ppid = pidParents'[pid] /\ ~new.exited
      /\ clock + 1 # 0 /\ new # NoEntry /\ clock + 1 \in Nat
  BY DEF Entry, NoEntry, TableInv, TableTypes
<1>. HIDE DEF new
<1>3. TableTypes'
  BY <1>1, <1>2 DEF TableInv, TableTypes
<1>4. /\ byPID'[pid] = new /\ startNS'[pid] = clock + 1 /\ creator'[pid] = life[pid]
      /\ \A t \in Tasks : t # pid =>
            byPID'[t] = byPID[t] /\ startNS'[t] = startNS[t] /\ creator'[t] = creator[t]
  BY <1>1 DEF TableInv, TableTypes
<1>5. EntriesStart' /\ StartsMatchEntries'
  BY <1>2, <1>4 DEF TableInv, EntriesStart, StartsMatchEntries, Has
<1>6. PpidIsForker'
  BY <1>2, <1>4 DEF PpidIsForker
<1>. QED  BY <1>3, <1>5, <1>6 DEF TableInv

\* An exec makes an entry, or marks the one that is there as running again.
LEMMA ExecObserved ==
    ASSUME TableInv, PpidIsForker, forks' = forks, NEW pid \in Tasks, ObserveExec(pid),
           clock' = clock + 1, pidParents[pid] \in Tasks \cup {None}, life[pid] \in Nat,
           pidParents[pid] # None => <<pidParents[pid], pid, life[pid]>> \in forks
    PROVE  TableInv' /\ PpidIsForker'
<1>. DEFINE start == IF startNS[pid] = 0 THEN clock + 1 ELSE startNS[pid]
            new == [start |-> start, ppid |-> pidParents[pid], exited |-> FALSE]
            kept == [byPID[pid] EXCEPT !.exited = FALSE]
            entry == IF Has(pid) THEN kept ELSE new
            maker == IF Has(pid) THEN creator[pid] ELSE life[pid]
<1>1. /\ startNS' = [startNS EXCEPT ![pid] = start]
      /\ byPID' = [byPID EXCEPT ![pid] = entry]
      /\ creator' = [creator EXCEPT ![pid] = maker]
  BY DEF ObserveExec, Note, TableInv, TableTypes
<1>2. start \in Nat /\ start # 0 /\ byPID[pid] \in Entry /\ creator[pid] \in Nat /\ clock + 1 \in Nat
  BY DEF TableInv, TableTypes
<1>. HIDE DEF start
<1>3. /\ kept \in Entry /\ kept.start = byPID[pid].start /\ kept.ppid = byPID[pid].ppid
      /\ ~kept.exited
  BY <1>2 DEF Entry
<1>4. /\ new \in Entry /\ new.start = start /\ new.ppid = pidParents[pid] /\ ~new.exited
  BY <1>2 DEF Entry
<1>. HIDE DEF new, kept
<1>5. entry \in Entry /\ entry.start # 0 /\ ~entry.exited
  BY <1>2, <1>3, <1>4 DEF TableInv, EntriesStart
<1>6. entry # NoEntry
  BY <1>5 DEF NoEntry
<1>7. maker \in Nat /\ (entry.ppid # None => <<entry.ppid, pid, maker>> \in forks)
  BY <1>2, <1>3, <1>4 DEF PpidIsForker
<1>. HIDE DEF entry, maker
<1>8. TableTypes'
  BY <1>1, <1>2, <1>5, <1>7 DEF TableInv, TableTypes
<1>9. /\ byPID'[pid] = entry /\ startNS'[pid] = start /\ creator'[pid] = maker
      /\ \A t \in Tasks : t # pid =>
            byPID'[t] = byPID[t] /\ startNS'[t] = startNS[t] /\ creator'[t] = creator[t]
  BY <1>1 DEF TableInv, TableTypes
<1>10. EntriesStart' /\ StartsMatchEntries'
  BY <1>2, <1>5, <1>6, <1>9 DEF TableInv, EntriesStart, StartsMatchEntries, Has
<1>11. PpidIsForker'
  BY <1>7, <1>9 DEF PpidIsForker
<1>. QED  BY <1>8, <1>10, <1>11 DEF TableInv

\* An exit takes the start time away and marks the entry.
LEMMA ExitObserved ==
    ASSUME TableInv, PpidIsForker, forks' = forks, NEW pid \in Tasks, NEW thread,
           ObserveExit(pid, thread), clock' = clock + 1
    PROVE  TableInv' /\ PpidIsForker'
<1>. DEFINE gone == [byPID[pid] EXCEPT !.exited = TRUE]
            entry == IF Has(pid) THEN gone ELSE byPID[pid]
<1>1. /\ startNS' = [startNS EXCEPT ![pid] = 0]
      /\ byPID' = [byPID EXCEPT ![pid] = entry]
      /\ creator' = creator
  BY DEF ObserveExit, TableInv, TableTypes
<1>2. byPID[pid] \in Entry /\ clock + 1 \in Nat
  BY DEF TableInv, TableTypes
<1>3. /\ gone \in Entry /\ gone.start = byPID[pid].start /\ gone.ppid = byPID[pid].ppid
      /\ gone.exited
  BY <1>2 DEF Entry
<1>. HIDE DEF gone
<1>4. /\ entry \in Entry /\ entry.ppid = byPID[pid].ppid
      /\ entry # NoEntry => entry.exited /\ entry.start # 0
  BY <1>2, <1>3 DEF TableInv, EntriesStart, Has
<1>. HIDE DEF entry
<1>5. TableTypes'
  BY <1>1, <1>2, <1>4 DEF TableInv, TableTypes
<1>6. /\ byPID'[pid] = entry /\ startNS'[pid] = 0
      /\ \A t \in Tasks : t # pid => byPID'[t] = byPID[t] /\ startNS'[t] = startNS[t]
  BY <1>1 DEF TableInv, TableTypes
<1>7. EntriesStart' /\ StartsMatchEntries'
  BY <1>4, <1>6 DEF TableInv, EntriesStart, StartsMatchEntries, Has
<1>8. PpidIsForker'
  BY <1>1, <1>4, <1>6 DEF PpidIsForker
<1>. QED  BY <1>5, <1>7, <1>8 DEF TableInv

\* What is pruned had exited, so its start time has gone already.
LEMMA PruneInv ==
    ASSUME Inv, Prune
    PROVE  Inv'
<1>1. KernelInv'
  BY DEF Inv, Prune, kernel, KernelInv, KernelTypes, Grouped, RowsOfRunning
<1>2. /\ byPID' = [t \in Tasks |-> IF Old(t) THEN NoEntry ELSE byPID[t]]
      /\ UNCHANGED <<clock, startNS, creator, forks>>
  BY DEF Prune, kernel
<1>3. NoEntry \in Entry
  BY DEF NoEntry, Entry
<1>4. TableTypes'
  BY <1>2, <1>3 DEF Inv, TableInv, TableTypes
<1>5. EntriesStart' /\ StartsMatchEntries'
  BY <1>2 DEF Inv, TableInv, EntriesStart, StartsMatchEntries, Has, Old
<1>6. PpidIsForker'
  BY <1>2 DEF Inv, PpidIsForker, NoEntry
<1>. QED  BY <1>1, <1>4, <1>5, <1>6 DEF Inv, TableInv

-----------------------------------------------------------------------------

\* The events of a running process: a fork of it, or an exec.
LEMMA ForkInv ==
    ASSUME Inv, NEW task \in Tasks, NEW child \in Tasks,
           ForkProcess(task, child) \/ CloneThread(task, child)
    PROVE  Inv'
<1>. DEFINE pid == group[task]
<1>1. /\ KernelInv' /\ forks \subseteq forks'
      /\ pid \in Tasks /\ group'[pid] = pid /\ life'[pid] = life[pid]
  BY ForkProcessKernel, CloneThreadKernel DEF Inv
<1>2. Fire(ObserveFork(pid))
  BY DEF ForkProcess, CloneThread
<1>3. clock \in Nat /\ clock' = clock + 1
  BY <1>2 DEF Fire, Inv, TableInv, TableTypes
<1>4. CASE ObserveFork(pid)
  <2>1. pidParents'[pid] \in Tasks \cup {None} /\ life[pid] \in Nat
    BY <1>1 DEF KernelInv, KernelTypes, Inv
  <2>2. pidParents'[pid] # None => <<pidParents'[pid], pid, life[pid]>> \in forks'
    BY <1>1 DEF KernelInv, RowsOfRunning
  <2>. HIDE DEF pid
  <2>3. TableInv' /\ PpidIsForker'
    BY <1>1, <1>3, <1>4, <2>1, <2>2, ForkObserved DEF Inv
  <2>. QED  BY <1>1, <2>3 DEF Inv
<1>5. CASE UNCHANGED table
  BY <1>1, <1>3, <1>5, TableStays DEF Inv, table
<1>. QED  BY <1>2, <1>4, <1>5 DEF Fire

LEMMA ExecInv ==
    ASSUME Inv, NEW task \in Tasks, Exec(task)
    PROVE  Inv'
<1>. DEFINE pid == group[task]
<1>1. pid \in Tasks /\ group[pid] = pid
  BY ExecKernel DEF Inv
<1>2. UNCHANGED <<pidParents, life, forks>> /\ Fire(ObserveExec(pid))
  BY DEF Exec
<1>3. KernelInv'
  BY ExecKernel DEF Inv
<1>4. clock \in Nat /\ clock' = clock + 1
  BY <1>2 DEF Fire, Inv, TableInv, TableTypes
<1>5. CASE ObserveExec(pid)
  <2>1. /\ pidParents[pid] \in Tasks \cup {None} /\ life[pid] \in Nat
        /\ pidParents[pid] # None => <<pidParents[pid], pid, life[pid]>> \in forks
    BY <1>1 DEF Inv, KernelInv, KernelTypes, RowsOfRunning
  <2>. HIDE DEF pid
  <2>2. TableInv' /\ PpidIsForker'
    BY <1>1, <1>2, <1>4, <1>5, <2>1, ExecObserved DEF Inv
  <2>. QED  BY <1>3, <2>2 DEF Inv
<1>6. CASE UNCHANGED table
  BY <1>2, <1>3, <1>4, <1>6, TableStays DEF Inv, table
<1>. QED  BY <1>2, <1>5, <1>6 DEF Fire

LEMMA ExitInv ==
    ASSUME Inv, NEW task \in Tasks, ExitThread(task) \/ ExitProcess(task)
    PROVE  Inv'
<1>. DEFINE pid == group[task]
<1>1. KernelInv' /\ forks' = forks /\ pid \in Tasks
  BY ExitKernel DEF Inv
<1>2. \E thread \in BOOLEAN : Fire(ObserveExit(pid, thread))
  BY DEF ExitThread, ExitProcess
<1>3. PICK thread \in BOOLEAN : Fire(ObserveExit(pid, thread))
  BY <1>2
<1>4. clock \in Nat /\ clock' = clock + 1
  BY <1>3 DEF Fire, Inv, TableInv, TableTypes
<1>. HIDE DEF pid
<1>5. CASE ObserveExit(pid, thread)
  BY <1>1, <1>4, <1>5, ExitObserved DEF Inv
<1>6. CASE UNCHANGED table
  BY <1>1, <1>4, <1>6, TableStays DEF Inv, table
<1>. QED  BY <1>3, <1>5, <1>6 DEF Fire

\* Other events, time, and steps that change nothing leave the two maps alone.
LEMMA RestInv ==
    ASSUME Inv, (\E t \in Tasks : Other(t)) \/ Tick \/ UNCHANGED vars
    PROVE  Inv'
<1>1. UNCHANGED <<group, pidParents, life, forks, startNS, byPID, creator>>
  BY DEF Other, Tick, vars, kernel, table, Fire, ObserveOther
<1>2. clock' \in Nat
  BY DEF Other, Tick, vars, Fire, Inv, TableInv, TableTypes
<1>3. KernelInv'
  BY <1>1 DEF Inv, KernelInv, KernelTypes, Grouped, RowsOfRunning
<1>. QED  BY <1>1, <1>2, <1>3, TableStays DEF Inv

LEMMA NextInv == Inv /\ [Next]_vars => Inv'
BY ForkInv, ExecInv, ExitInv, RestInv, PruneInv DEF Next

\* There is a start time exactly for the entries that have not exited, whatever is lost.
THEOREM MapsAgree == Spec => []StartsMatchEntries
<1>1. Inv => StartsMatchEntries
  BY DEF Inv, TableInv
<1>. QED  BY <1>1, InitInv, NextInv, PTL DEF Spec

\* An entry names the task that forked its process, for any capacity of pid_parents.
THEOREM ParentsAreForkers == Spec => []PpidIsForker
<1>1. Inv => PpidIsForker
  BY DEF Inv
<1>. QED  BY <1>1, InitInv, NextInv, PTL DEF Spec

-----------------------------------------------------------------------------
(* What is pruned. An entry marked exited whose process runs was marked by the exit of a  *)
(* thread: the exit of the process takes its pid from it, and the next process that forks *)
(* into the pid has no entry of its own until an event of it has taken the mark away.     *)

HistoryTypes ==
    /\ owner \in [Tasks -> Nat] /\ threadGone \in [Tasks -> BOOLEAN]
    /\ \A t \in Tasks : owner[t] <= life[t]

ExitedEnded == \A t \in Tasks : byPID[t].exited /\ Runs(t) => threadGone[t]

ExitInvariant == Inv /\ HistoryTypes /\ ExitedEnded /\ PrunedHadExit

LEMMA InitExits == Init => HistoryTypes /\ ExitedEnded /\ PrunedHadExit
<1>. SUFFICES ASSUME Init PROVE HistoryTypes /\ ExitedEnded /\ PrunedHadExit
  OBVIOUS
<1>1. \A t \in Tasks : ~byPID[t].exited
  BY DEF Init, NoEntry
<1>2. \A t \in Tasks : owner[t] = 0 /\ life[t] \in Nat
  BY DEF Init
<1>. QED  BY <1>1, <1>2 DEF HistoryTypes, ExitedEnded, PrunedHadExit, Init

\* An event of a fork or an exec says that the process of the pid runs.
LEMMA RunningObserved ==
    ASSUME ExitInvariant, NEW pid \in Tasks, ObserveFork(pid) \/ ObserveExec(pid),
           wrongly' = wrongly, life'[pid] = life[pid],
           life' \in [Tasks -> Nat],
           \A t \in Tasks : t # pid /\ Runs(t)' => Runs(t),
           \A t \in Tasks : life[t] <= life'[t]
    PROVE  HistoryTypes' /\ ExitedEnded' /\ PrunedHadExit'
<1>1. /\ owner' = [owner EXCEPT ![pid] = life[pid]]
      /\ threadGone' = [threadGone EXCEPT ![pid] = FALSE]
      /\ \A t \in Tasks : t # pid => byPID'[t] = byPID[t]
  BY DEF ObserveFork, ObserveExec, Note, ExitInvariant, Inv, TableInv, TableTypes
<1>2. ~byPID'[pid].exited
  <2>1. byPID[pid] \in Entry /\ byPID \in [Tasks -> Entry]
    BY DEF ExitInvariant, Inv, TableInv, TableTypes
  <2>2. CASE ObserveFork(pid)
    BY <2>1, <2>2 DEF ObserveFork
  <2>3. CASE ObserveExec(pid)
    <3>1. \E start : byPID'[pid] =
                       IF Has(pid) THEN [byPID[pid] EXCEPT !.exited = FALSE]
                       ELSE [start |-> start, ppid |-> pidParents[pid], exited |-> FALSE]
      BY <2>1, <2>3 DEF ObserveExec
    <3>2. ~[byPID[pid] EXCEPT !.exited = FALSE].exited
      BY <2>1 DEF Entry
    <3>. QED  BY <3>1, <3>2
  <2>. QED  BY <2>2, <2>3
<1>3. HistoryTypes'
  BY <1>1 DEF ExitInvariant, HistoryTypes, Inv, KernelInv, KernelTypes
<1>4. ExitedEnded'
  <2>. SUFFICES ASSUME NEW t \in Tasks, byPID'[t].exited, Runs(t)'
                PROVE  threadGone'[t]
    BY DEF ExitedEnded
  <2>1. t # pid
    BY <1>2
  <2>2. byPID'[t] = byPID[t] /\ threadGone'[t] = threadGone[t] /\ Runs(t)
    BY <1>1, <2>1 DEF ExitInvariant, HistoryTypes
  <2>. QED  BY <2>2 DEF ExitInvariant, ExitedEnded
<1>. QED  BY <1>3, <1>4 DEF ExitInvariant, PrunedHadExit

\* Nothing is told of a process, and none is made to run under its own pid but the new one.
LEMMA UntoldExits ==
    ASSUME ExitInvariant, UNCHANGED <<byPID, owner, threadGone, wrongly>>,
           life' \in [Tasks -> Nat], \A t \in Tasks : life[t] <= life'[t],
           \A t \in Tasks : Runs(t)' => Runs(t)
    PROVE  HistoryTypes' /\ ExitedEnded' /\ PrunedHadExit'
<1>1. HistoryTypes'
  BY DEF ExitInvariant, HistoryTypes, Inv, KernelInv, KernelTypes
<1>. QED  BY <1>1 DEF ExitInvariant, ExitedEnded, PrunedHadExit

LEMMA ForkExits ==
    ASSUME ExitInvariant, NEW task \in Tasks, NEW child \in Tasks,
           ForkProcess(task, child) \/ CloneThread(task, child)
    PROVE  HistoryTypes' /\ ExitedEnded' /\ PrunedHadExit'
<1>. DEFINE pid == group[task]
<1>1. KernelInv' /\ pid \in Tasks /\ life'[pid] = life[pid]
  BY ForkProcessKernel, CloneThreadKernel DEF ExitInvariant, Inv
<1>2. Fire(ObserveFork(pid)) /\ wrongly' = wrongly
  BY DEF ForkProcess, CloneThread, Fire
<1>3. /\ owner \in [Tasks -> Nat] /\ life \in [Tasks -> Nat] /\ life' \in [Tasks -> Nat]
      /\ \A t \in Tasks : owner[t] <= life[t]
      /\ group \in [Tasks -> Tasks \cup {None}]
  BY <1>1 DEF ExitInvariant, Inv, KernelInv, KernelTypes, HistoryTypes
<1>4. /\ group[task] # None /\ group[child] = None /\ child # pid
      /\ \A t \in Tasks : t # child => group'[t] = group[t] /\ life'[t] = life[t]
      /\ \/ life'[child] = life[child] /\ group'[child] = pid
         \/ life'[child] = life[child] + 1
  <2>1. group[task] # None /\ group[child] = None
    BY DEF ForkProcess, CloneThread, Alive
  <2>2. child # pid
    BY <2>1, NoTask DEF ExitInvariant, Inv, KernelInv, KernelTypes, Grouped, NoneIsNoTask
  <2>3. CASE ForkProcess(task, child)
    BY <1>3, <2>1, <2>2, <2>3 DEF ForkProcess
  <2>4. CASE CloneThread(task, child)
    BY <1>3, <2>1, <2>2, <2>4 DEF CloneThread
  <2>. QED  BY <2>3, <2>4
<1>5. \A t \in Tasks : life[t] <= life'[t]
  BY <1>3, <1>4
<1>6. \A t \in Tasks : t # pid /\ owner'[t] = owner[t] => (Runs(t)' => Runs(t))
  <2>1. ~ (group'[child] = child /\ owner[child] = life'[child])
    BY <1>3, <1>4
  <2>. QED  BY <1>3, <1>4, <2>1 DEF Runs
<1>7. CASE ObserveFork(pid)
  <2>. HIDE DEF pid
  <2>1. \A t \in Tasks : t # pid => owner'[t] = owner[t]
    BY <1>3, <1>7 DEF ObserveFork, Note
  <2>. QED  BY <1>1, <1>2, <1>3, <1>5, <1>6, <1>7, <2>1, RunningObserved
<1>8. CASE UNCHANGED table
  <2>1. UNCHANGED <<byPID, owner, threadGone>>
    BY <1>8 DEF table
  <2>2. \A t \in Tasks : Runs(t)' => Runs(t)
    BY <1>1, <1>4, <1>6, <2>1 DEF Runs
  <2>. QED  BY <1>2, <1>3, <1>5, <2>1, <2>2, UntoldExits
<1>. QED  BY <1>2, <1>7, <1>8 DEF Fire

LEMMA ExecExits ==
    ASSUME ExitInvariant, NEW task \in Tasks, Exec(task)
    PROVE  HistoryTypes' /\ ExitedEnded' /\ PrunedHadExit'
<1>. DEFINE pid == group[task]
<1>1. pid \in Tasks /\ \A t \in Tasks : group'[t] = t => group[t] = t
  BY ExecKernel DEF ExitInvariant, Inv
<1>2. UNCHANGED <<life, wrongly>> /\ Fire(ObserveExec(pid))
  BY DEF Exec, Fire
<1>3. life' \in [Tasks -> Nat] /\ \A t \in Tasks : life[t] <= life'[t]
  BY <1>2 DEF ExitInvariant, Inv, KernelInv, KernelTypes
<1>. HIDE DEF pid
<1>4. CASE ObserveExec(pid)
  <2>1. \A t \in Tasks : t # pid => owner'[t] = owner[t]
    BY <1>4 DEF ObserveExec, Note, ExitInvariant, HistoryTypes
  <2>2. \A t \in Tasks : t # pid /\ Runs(t)' => Runs(t)
    BY <1>1, <1>2, <2>1 DEF Runs
  <2>. QED  BY <1>1, <1>2, <1>3, <1>4, <2>2, RunningObserved
<1>5. CASE UNCHANGED table
  BY <1>1, <1>2, <1>3, <1>5, UntoldExits DEF table, Runs
<1>. QED  BY <1>2, <1>4, <1>5 DEF Fire

LEMMA ExitExits ==
    ASSUME ExitInvariant, NEW task \in Tasks, ExitThread(task) \/ ExitProcess(task)
    PROVE  HistoryTypes' /\ ExitedEnded' /\ PrunedHadExit'
<1>. DEFINE pid == group[task]
<1>1. /\ pid \in Tasks /\ UNCHANGED <<life, wrongly>>
      /\ group \in [Tasks -> Tasks \cup {None}]
  BY ExitKernel DEF ExitInvariant, Inv, KernelInv, KernelTypes, ExitThread, ExitProcess, Fire
<1>2. life' \in [Tasks -> Nat] /\ \A t \in Tasks : life[t] <= life'[t]
  BY <1>1 DEF ExitInvariant, Inv, KernelInv, KernelTypes
<1>3. \A t \in Tasks : group'[t] = t => group[t] = t
  BY ExitKernel DEF ExitInvariant, Inv
<1>4. PICK thread \in BOOLEAN :
        /\ Fire(ObserveExit(pid, thread))
        /\ ~thread => group'[pid] = None
  <2>1. CASE ExitThread(task)
    BY <2>1 DEF ExitThread
  <2>2. CASE ExitProcess(task)
    BY <1>1, <2>2 DEF ExitProcess
  <2>. QED  BY <2>1, <2>2
<1>. HIDE DEF pid
<1>5. CASE ObserveExit(pid, thread)
  <2>1. /\ owner' = owner /\ threadGone' = [threadGone EXCEPT ![pid] = thread \/ threadGone[pid]]
        /\ \A t \in Tasks : t # pid => byPID'[t] = byPID[t]
    BY <1>5 DEF ObserveExit, ExitInvariant, Inv, TableInv, TableTypes
  <2>2. HistoryTypes'
    BY <1>1, <2>1 DEF ExitInvariant, HistoryTypes
  <2>3. ExitedEnded'
    <3>. SUFFICES ASSUME NEW t \in Tasks, byPID'[t].exited, Runs(t)'
                  PROVE  threadGone'[t]
      BY DEF ExitedEnded
    <3>1. CASE t = pid
      <4>1. thread
        BY <1>1, <1>4, <3>1, NoTask DEF Runs, NoneIsNoTask
      <4>. QED  BY <2>1, <3>1, <4>1 DEF ExitInvariant, HistoryTypes
    <3>2. CASE t # pid
      <4>1. byPID'[t] = byPID[t] /\ threadGone'[t] = threadGone[t] /\ Runs(t)
        BY <1>1, <1>3, <2>1, <3>2 DEF Runs, ExitInvariant, HistoryTypes
      <4>. QED  BY <4>1 DEF ExitInvariant, ExitedEnded
    <3>. QED  BY <3>1, <3>2
  <2>. QED  BY <1>1, <2>2, <2>3 DEF ExitInvariant, PrunedHadExit
<1>6. CASE UNCHANGED table
  BY <1>1, <1>2, <1>3, <1>6, UntoldExits DEF table, Runs
<1>. QED  BY <1>4, <1>5, <1>6 DEF Fire

LEMMA PruneExits ==
    ASSUME ExitInvariant, Prune
    PROVE  HistoryTypes' /\ ExitedEnded' /\ PrunedHadExit'
<1>1. /\ byPID' = [t \in Tasks |-> IF Old(t) THEN NoEntry ELSE byPID[t]]
      /\ wrongly' = wrongly \cup
            {<<t, threadGone[t]>> : t \in {u \in {v \in Tasks : Old(v)} : Runs(u)}}
      /\ UNCHANGED <<group, life, owner, threadGone>>
  BY DEF Prune, kernel
<1>2. HistoryTypes'
  BY <1>1 DEF ExitInvariant, HistoryTypes
<1>3. ExitedEnded'
  BY <1>1 DEF ExitInvariant, ExitedEnded, Runs, NoEntry
<1>4. \A t \in Tasks : Old(t) /\ Runs(t) => threadGone[t]
  BY DEF Old, ExitInvariant, ExitedEnded
<1>5. PrunedHadExit'
  BY <1>1, <1>4 DEF ExitInvariant, PrunedHadExit
<1>. QED  BY <1>2, <1>3, <1>5

LEMMA NextExits == ExitInvariant /\ [Next]_vars => ExitInvariant'
<1>. SUFFICES ASSUME ExitInvariant, [Next]_vars PROVE ExitInvariant'
  OBVIOUS
<1>1. Inv'
  BY NextInv DEF ExitInvariant
<1>2. CASE (\E t \in Tasks : Other(t)) \/ Tick \/ UNCHANGED vars
  <2>1. UNCHANGED <<group, life, byPID, owner, threadGone, wrongly>>
    BY <1>2 DEF Other, Tick, vars, kernel, table, Fire, ObserveOther
  <2>2. life' \in [Tasks -> Nat] /\ \A t \in Tasks : life[t] <= life'[t]
    BY <2>1 DEF ExitInvariant, Inv, KernelInv, KernelTypes
  <2>. QED  BY <1>1, <2>1, <2>2, UntoldExits DEF Runs, ExitInvariant
<1>. QED  BY <1>1, <1>2, ForkExits, ExecExits, ExitExits, PruneExits DEF Next, ExitInvariant

\* PrunedHadExit, whatever is lost and however pids are used again: an entry is pruned while
\* its process runs only if the exit of a thread was taken for that of the process.
THEOREM PrunedEntriesHadExit == Spec => []PrunedHadExit
<1>1. Init => ExitInvariant
  BY InitInv, InitExits DEF ExitInvariant
<1>2. ExitInvariant => PrunedHadExit
  BY DEF ExitInvariant
<1>. QED  BY <1>1, <1>2, NextExits, PTL DEF Spec
=============================================================================
