---------------------------- MODULE RunManagerProofs ----------------------------
(* What holds of the managers for any number of processes, generations, failed  *)
(* writes and crashes.  The invariant ties the three views of a run together:   *)
(* what executes, what is on disk and what each generation believes is there.   *)
EXTENDS RunManager, TLAPS

\* Generations that were never made, that died and that execute are apart, and
\* so are those that may write the record.
Apart ==
    /\ dead \intersect executing = {}
    /\ dead \intersect fresh = {}
    /\ \A g \in Unused : /\ g \notin dead \union executing \union fresh
                         /\ status[g] = "running"

\* Nobody may write a record that does not exist.
NoRecord ==
    /\ record.status \in {"none", "absent"} => fresh = {}
    /\ record.status = "none" => executing = {} /\ record.journal = 0

\* An execution whose status is no longer `running' is aborted: its end cannot
\* choose another status.
AbortedEnds ==
    \A g \in executing :
        /\ status[g] \in {"running", "paused", "aborted"}
        /\ status[g] # "running" => g \in aborting

\* What a generation with the current revision knows of the record.
FreshKnows ==
    \A g \in fresh :
        /\ record.status \in {"completed", "aborted"} => status[g] = record.status
        /\ record.status \in Resumable => journal[g] >= record.journal
        /\ status[g] = "completed" => record.status = "completed"
        /\ status[g] = "running" => g \in executing /\ record.status = "running"

ManagerInv ==
    /\ ManagerTypeOK
    /\ ExecutionIsLeased
    /\ OneExecution
    /\ Apart
    /\ NoRecord
    /\ AbortedEnds
    /\ FreshKnows

LEMMA InitManagerInv == ManagerInit => ManagerInv
BY ManagerAssumption
   DEF ManagerInit, ManagerInv, ManagerTypeOK, ExecutionIsLeased, OneExecution,
       Apart, NoRecord, AbortedEnds, FreshKnows, Unused, Statuses, Terminal, Resumable

----------------------------------------------------------------------------
\* Whoever could take the lease finds nothing executing: an execution holds the
\* lock and its process lives.
LEMMA FreeMeansIdle ==
    ASSUME ManagerInv, LeaseFree, record.status # "absent"
    PROVE  executing = {}
BY ManagerAssumption
   DEF ManagerInv, ManagerTypeOK, LeaseFree, ExecutionIsLeased, Apart

\* Whoever can write while something executes is what executes.
LEMMA WriterExecutes ==
    ASSUME ManagerInv, NEW g \in Gens, CanSave(g), executing # {}
    PROVE  executing = {g} /\ record.status \in Statuses
BY ManagerAssumption
   DEF ManagerInv, ManagerTypeOK, CanSave, LeaseFree, ExecutionIsLeased, OneExecution,
       Apart, NoRecord, Statuses

\* A new generation.
LEMMA LaunchSteps ==
    ASSUME ManagerInv, NEW p \in Procs, NEW g \in Unused, NEW n \in 0 .. MaxJournal,
           executing = {}, Launch(p, g, n), waiting' \in [Calls -> Gens \union {NoGen}]
    PROVE  ManagerInv'
<1> USE ManagerAssumption DEF ManagerInv, Launch, ClearTimer, Unused
<1>1. ManagerTypeOK'
  BY DEF ManagerTypeOK, queueVars, Statuses
<1>2. (ExecutionIsLeased /\ OneExecution /\ NoRecord)'
  BY DEF ExecutionIsLeased, OneExecution, NoRecord
<1>3. Apart'
  BY DEF Apart, ManagerTypeOK
<1>4. (AbortedEnds /\ FreshKnows)'
  BY DEF Apart, AbortedEnds, FreshKnows, ManagerTypeOK, Resumable
<1> QED
  BY <1>1, <1>2, <1>3, <1>4

LEMMA StartStep ==
    ASSUME ManagerInv, NEW p \in Procs, NEW g \in Gens, Start(p, g)
    PROVE  ManagerInv'
BY LaunchSteps, ManagerAssumption DEF Start, ManagerInv, NoRecord, ManagerTypeOK

LEMMA ReopenStep ==
    ASSUME ManagerInv, NEW p \in Procs, Reopen(p),
           waiting' \in [Calls -> Gens \union {NoGen}]
    PROVE  ManagerInv'
<1>1. executing = {} /\ record.journal \in 0 .. MaxJournal
  BY FreeMeansIdle DEF Reopen, Resumable, ManagerInv, ManagerTypeOK
<1>2. ASSUME NEW g \in Unused, Launch(p, g, record.journal) PROVE ManagerInv'
  BY <1>1, <1>2, LaunchSteps
<1>3. CASE ~ \E g \in Unused : Launch(p, g, record.journal)
  BY <1>1, <1>3, ManagerAssumption
     DEF Reopen, ClearTimer, ManagerInv, ManagerTypeOK, ExecutionIsLeased, OneExecution,
         Apart, NoRecord, AbortedEnds, FreshKnows, Unused, genVars, queueVars
<1> QED
  BY <1>2, <1>3

----------------------------------------------------------------------------
\* The steps that change neither the record nor what executes nor the lease.
LEMMA QuietSteps ==
    ASSUME ManagerInv, NEW g \in Gens,
           Progress(g) \/ AbortOnly(g) \/ EvictTerminal(g) \/ EvictPaused(g)
    PROVE  ManagerInv'
<1> USE ManagerAssumption
        DEF ManagerInv, ManagerTypeOK, ExecutionIsLeased, OneExecution, Apart, NoRecord,
            AbortedEnds, FreshKnows, Unused, IsCurrent
<1>1. CASE Progress(g)
  BY <1>1 DEF Progress, holdVars, queueVars, diskVars
<1>2. CASE AbortOnly(g)
  BY <1>2 DEF AbortOnly, holdVars, queueVars, diskVars
<1>3. CASE EvictTerminal(g)
  BY <1>3 DEF EvictTerminal, genVars, holdVars, diskVars
<1>4. CASE EvictPaused(g)
  BY <1>4 DEF EvictPaused, genVars, holdVars, diskVars
<1> QED
  BY <1>1, <1>2, <1>3, <1>4

LEMMA WaitStep ==
    ASSUME ManagerInv, NEW c \in Calls, NEW p \in Procs, ResumeWaits(c, p)
    PROVE  ManagerInv'
BY ManagerAssumption
   DEF ResumeWaits, ManagerInv, ManagerTypeOK, ExecutionIsLeased, OneExecution, Apart,
       NoRecord, AbortedEnds, FreshKnows, Unused, genVars, holdVars, queueVars, diskVars

\* The best-effort writes leave the status alone.
LEMMA TryToWriteStep ==
    ASSUME ManagerInv, NEW g \in Gens, TryToWrite(g),
           UNCHANGED <<holdVars, queueVars, up, runs, waiting, crashes>>,
           persistTimers' \in [Procs -> Gens \union {NoGen}]
    PROVE  ManagerInv'
<1> USE ManagerAssumption
        DEF ManagerInv, TryToWrite, Written, NotWritten, StateOf, holdVars, queueVars
<1>1. ManagerTypeOK'
  BY DEF ManagerTypeOK, Statuses
<1>2. (ExecutionIsLeased /\ OneExecution)'
  BY DEF ManagerTypeOK, ExecutionIsLeased, OneExecution, CanSave, NoRecord
<1>3. /\ UNCHANGED <<host, status, executing, aborting, dead, leased, lock, journal>>
      /\ \/ UNCHANGED <<record, fresh>>
         \/ g \in fresh /\ fresh' = {g} /\ record' = StateOf(g, status[g])
  BY DEF CanSave
<1>4. Apart'
  BY <1>3 DEF Apart, Unused
<1>5. (NoRecord /\ AbortedEnds)'
  BY <1>3 DEF ManagerTypeOK, NoRecord, AbortedEnds, Statuses, Terminal
<1>6. FreshKnows'
  BY <1>3 DEF ManagerTypeOK, FreshKnows, Resumable
<1> QED
  BY <1>1, <1>2, <1>4, <1>5, <1>6

LEMMA TimerStep ==
    ASSUME ManagerInv, NEW p \in Procs, TimerFires(p)
    PROVE  ManagerInv'
<1>1. persistTimers' \in [Procs -> Gens \union {NoGen}] /\ persistTimers[p] \in Gens
  BY DEF TimerFires, ClearTimer, ManagerInv, ManagerTypeOK
<1>2. CASE TryToWrite(persistTimers[p])
  BY <1>1, <1>2, TryToWriteStep DEF TimerFires
<1>3. CASE UNCHANGED <<genVars, diskVars>>
  BY <1>1, <1>3
     DEF TimerFires, ManagerInv, ManagerTypeOK, ExecutionIsLeased, OneExecution, Apart,
         NoRecord, AbortedEnds, FreshKnows, Unused, genVars, holdVars, queueVars, diskVars
<1> QED
  BY <1>2, <1>3 DEF TimerFires

LEMMA RepublishStep ==
    ASSUME ManagerInv, NEW g \in Gens, Republish(g)
    PROVE  ManagerInv'
<1>1. persistTimers' \in [Procs -> Gens \union {NoGen}]
  BY DEF Republish, ClearTimer, IsCurrent, ManagerInv, ManagerTypeOK
<1> QED
  BY <1>1, TryToWriteStep DEF Republish

LEMMA PauseStep ==
    ASSUME ManagerInv, NEW g \in Gens, Pause(g)
    PROVE  ManagerInv'
<1> USE ManagerAssumption
        DEF ManagerInv, Pause, Persist, Written, NotWritten, StateOf, holdVars, queueVars,
            IsCurrent
<1>1. ManagerTypeOK'
  BY DEF ManagerTypeOK, Statuses, ClearTimer
<1>2. (ExecutionIsLeased /\ OneExecution)'
  BY DEF ManagerTypeOK, ExecutionIsLeased, OneExecution, CanSave, NoRecord
<1>3. (Apart /\ NoRecord /\ AbortedEnds)'
  BY DEF ManagerTypeOK, Apart, NoRecord, AbortedEnds, Unused, Statuses, CanSave
<1>4. FreshKnows'
  BY DEF ManagerTypeOK, FreshKnows, Resumable
<1> QED
  BY <1>1, <1>2, <1>3, <1>4

LEMMA StopStep ==
    ASSUME ManagerInv, NEW g \in Gens, Stop(g)
    PROVE  ManagerInv'
<1> USE ManagerAssumption
        DEF ManagerInv, Stop, Persist, Written, NotWritten, StateOf, IsCurrent
<1>1. ManagerTypeOK'
  BY DEF ManagerTypeOK, Statuses, Terminal, ClearTimer, CleanupSettled, HostedBy,
         holdVars, queueVars
<1>2. (ExecutionIsLeased /\ OneExecution)'
  BY DEF ManagerTypeOK, ExecutionIsLeased, OneExecution, CanSave, NoRecord,
         CleanupSettled, holdVars
<1>3. (Apart /\ NoRecord /\ AbortedEnds)'
  BY DEF ManagerTypeOK, Apart, NoRecord, AbortedEnds, Unused, Statuses, CanSave
<1>4. FreshKnows'
  BY DEF ManagerTypeOK, FreshKnows, Resumable
<1> QED
  BY <1>1, <1>2, <1>3, <1>4

\* What executeRun() may end with, given what stop() and pause() have left.
LEMMA OutcomeStatuses ==
    ASSUME ManagerInv, NEW g \in executing, NEW s \in Outcomes(g)
    PROVE  /\ s \in {"completed", "failed", "paused", "aborted"}
           /\ status[g] # "running" => s = status[g]
BY DEF ManagerInv, AbortedEnds, Outcomes

LEMMA SettleStep ==
    ASSUME ManagerInv, NEW g \in Gens, Settle(g)
    PROVE  ManagerInv' /\ executing = {g}
<1> USE ManagerAssumption DEF ManagerInv, Settle, IsCurrent
<1>1. PICK s \in Outcomes(g) : /\ status' = [status EXCEPT ![g] = s]
                               /\ Persist(g, s)
                               /\ s = "completed" => g \notin blocked'
                               /\ CleanupSettled(g, s)
  OBVIOUS
<1>2. /\ s \in {"completed", "failed", "paused", "aborted"}
      /\ status[g] # "running" => s = status[g]
  BY OutcomeStatuses
<1>3. executing = {g} /\ executing' = {}
  BY DEF OneExecution, ManagerTypeOK
<1>4. /\ UNCHANGED <<host, dead, journal>>
      /\ \/ UNCHANGED <<record, fresh>> /\ s # "completed"
         \/ g \in fresh /\ fresh' = {g} /\ record' = StateOf(g, s)
  BY <1>1 DEF Persist, Written, NotWritten, CanSave
<1>5. ManagerTypeOK'
  <2>1. blocked' \in SUBSET Gens /\ faults' \in 0 .. MaxFaults
    BY <1>1 DEF Persist, Written, NotWritten, ManagerTypeOK
  <2>2. fresh' \in SUBSET Gens
        /\ record' \in [status : Statuses \union {"none", "absent"}, journal : 0 .. MaxJournal]
    BY <1>2, <1>4 DEF StateOf, ManagerTypeOK, Statuses, Terminal
  <2>3. /\ lock' \in Gens \union {NoGen}
        /\ leased' \in SUBSET Gens /\ reserved' \in SUBSET Gens
        /\ pausedRunQueue' \in SUBSET Gens /\ terminalRunQueue' \in SUBSET Gens
    BY <1>1 DEF CleanupSettled, ManagerTypeOK
  <2>4. /\ status' \in [Gens -> Statuses]
        /\ persistTimers' \in [Procs -> Gens \union {NoGen}]
    BY <1>1, <1>2 DEF ManagerTypeOK, Statuses, Terminal, ClearTimer
  <2> QED
    BY <1>3, <2>1, <2>2, <2>3, <2>4 DEF ManagerTypeOK
<1>6. (ExecutionIsLeased /\ OneExecution /\ AbortedEnds)'
  BY <1>3 DEF ExecutionIsLeased, OneExecution, AbortedEnds
<1>7. Apart'
  BY <1>1, <1>3, <1>4 DEF Apart, Unused, ManagerTypeOK
<1>8. NoRecord'
  BY <1>2, <1>3, <1>4 DEF NoRecord, StateOf
<1>9. FreshKnows'
  <2>1. CASE UNCHANGED <<record, fresh>> /\ s # "completed"
    BY <1>1, <1>2, <1>3, <1>4, <2>1 DEF FreshKnows, ManagerTypeOK
  <2>2. CASE g \in fresh /\ fresh' = {g} /\ record' = StateOf(g, s)
    BY <1>1, <1>2, <1>3, <1>4, <2>2 DEF FreshKnows, ManagerTypeOK, StateOf, Resumable
  <2> QED
    BY <1>4, <2>1, <2>2
<1> QED
  BY <1>3, <1>5, <1>6, <1>7, <1>8, <1>9

LEMMA SettleStaleStep ==
    ASSUME ManagerInv, NEW g \in Gens, SettleStale(g)
    PROVE  ManagerInv' /\ executing = {g} /\ executing' = {}
<1> USE ManagerAssumption DEF ManagerInv, SettleStale, queueVars, diskVars
<1>1. executing = {g} /\ executing' = {}
  BY DEF OneExecution, ManagerTypeOK
<1>2. ManagerTypeOK'
  BY DEF ManagerTypeOK, Statuses, Terminal
<1>3. (ExecutionIsLeased /\ OneExecution /\ AbortedEnds /\ NoRecord)'
  BY <1>1 DEF ExecutionIsLeased, OneExecution, AbortedEnds, NoRecord
<1>4. Apart'
  BY <1>1 DEF Apart, Unused, ManagerTypeOK
<1>5. FreshKnows'
  BY <1>1 DEF FreshKnows, ManagerTypeOK
<1> QED
  BY <1>1, <1>2, <1>3, <1>4, <1>5

----------------------------------------------------------------------------
\* The steps that leave nobody with the revision on disk.
LEMMA OvertakenSteps ==
    ASSUME ManagerInv, NEW p \in Procs,
           StopOnDisk(p) \/ DeleteRun(p) \/ Forget(p) \/ Restart(p)
    PROVE  ManagerInv'
<1> USE ManagerAssumption DEF ManagerInv
<1>1. CASE StopOnDisk(p)
  BY <1>1, FreeMeansIdle
     DEF StopOnDisk, ManagerTypeOK, ExecutionIsLeased, OneExecution, Apart, NoRecord,
         AbortedEnds, FreshKnows, Unused, genVars, holdVars, queueVars, Statuses, Terminal
<1>2. CASE DeleteRun(p)
  <2>1. ManagerTypeOK'
    BY <1>2 DEF DeleteRun, ManagerTypeOK, ClearTimer, HostedBy
  <2>2. (ExecutionIsLeased /\ OneExecution /\ NoRecord /\ FreshKnows)'
    BY <1>2 DEF DeleteRun, ManagerTypeOK, ExecutionIsLeased, OneExecution, NoRecord, FreshKnows
  <2>3. (Apart /\ AbortedEnds)'
    BY <1>2 DEF DeleteRun, Apart, AbortedEnds, Unused
  <2> QED
    BY <2>1, <2>2, <2>3
<1>3. CASE Forget(p)
  BY <1>3
     DEF Forget, ManagerTypeOK, ExecutionIsLeased, OneExecution, Apart, NoRecord,
         AbortedEnds, FreshKnows, Unused, genVars, queueVars
<1>4. CASE Restart(p)
  <2>1. ManagerTypeOK'
    BY <1>4 DEF Restart, ManagerTypeOK, Statuses, genVars, holdVars, queueVars, diskVars
  <2>2. /\ UNCHANGED <<host, status, journal, executing, aborting, dead, leased, lock>>
        /\ \/ UNCHANGED <<record, fresh>>
           \/ /\ record.status = "running" /\ LeaseFree
              /\ record' = [record EXCEPT !.status = "paused"] /\ fresh' = {}
    BY <1>4 DEF Restart, genVars, holdVars, diskVars
  <2>3. (ExecutionIsLeased /\ OneExecution /\ Apart /\ NoRecord /\ AbortedEnds /\ FreshKnows)'
    BY <2>2 DEF ManagerTypeOK, ExecutionIsLeased, OneExecution, Apart, NoRecord, AbortedEnds,
                FreshKnows, Unused
  <2> QED
    BY <2>1, <2>3
<1> QED
  BY <1>1, <1>2, <1>3, <1>4

LEMMA CrashStep ==
    ASSUME ManagerInv, NEW p \in Procs, Crash(p)
    PROVE  ManagerInv'
<1> USE ManagerAssumption DEF ManagerInv, Crash, HostedBy
<1>1. ManagerTypeOK'
  BY DEF ManagerTypeOK, ClearTimer
<1>2. (ExecutionIsLeased /\ OneExecution /\ NoRecord /\ AbortedEnds /\ FreshKnows)'
  BY DEF ExecutionIsLeased, OneExecution, NoRecord, AbortedEnds, FreshKnows
<1>3. Apart'
  BY DEF Apart, Unused
<1> QED
  BY <1>1, <1>2, <1>3

LEMMA ResumeSteps ==
    ASSUME ManagerInv,
           \/ \E c \in Calls : ResumeContinues(c)
           \/ \E p \in Procs : ResumeAtOnce(p)
    PROVE  ManagerInv'
<1>1. ASSUME NEW c \in Calls, ResumeContinues(c) PROVE ManagerInv'
  <2>1. waiting' \in [Calls -> Gens \union {NoGen}]
    BY <1>1 DEF ResumeContinues, ManagerInv, ManagerTypeOK
  <2>2. CASE IsCurrent(waiting[c]) /\ Reopen(host[waiting[c]])
    BY <2>1, <2>2, ReopenStep DEF IsCurrent
  <2>3. CASE UNCHANGED <<genVars, holdVars, queueVars, diskVars, up, runs, persistTimers, crashes>>
    BY <2>1, <2>3
       DEF ManagerInv, ManagerTypeOK, ExecutionIsLeased, OneExecution, Apart, NoRecord,
           AbortedEnds, FreshKnows, Unused, genVars, holdVars, queueVars, diskVars
  <2> QED
    BY <1>1, <2>2, <2>3 DEF ResumeContinues
<1>2. ASSUME NEW p \in Procs, ResumeAtOnce(p) PROVE ManagerInv'
  BY <1>2, ReopenStep DEF ResumeAtOnce, ManagerInv, ManagerTypeOK
<1> QED
  BY <1>1, <1>2

LEMMA NextManagerInv ==
    ASSUME ManagerInv, [ManagerNext]_managerVars
    PROVE  ManagerInv'
<1>1. CASE UNCHANGED managerVars
  BY <1>1
     DEF managerVars, genVars, holdVars, queueVars, diskVars, ManagerInv, ManagerTypeOK,
         ExecutionIsLeased, OneExecution, Apart, NoRecord, AbortedEnds, FreshKnows, Unused
<1>2. CASE GenNext
  BY <1>2, QuietSteps, RepublishStep, PauseStep, StopStep, SettleStep, SettleStaleStep
     DEF GenNext
<1>3. ASSUME NEW p \in Procs,
             \/ \E g \in Gens : Start(p, g)
             \/ \E c \in Calls : ResumeWaits(c, p)
             \/ TimerFires(p) \/ StopOnDisk(p)
             \/ DeleteRun(p) \/ Forget(p) \/ Crash(p) \/ Restart(p)
      PROVE  ManagerInv'
  BY <1>3, StartStep, WaitStep, TimerStep, OvertakenSteps, CrashStep
<1> QED
  BY <1>1, <1>2, <1>3, ResumeSteps DEF ManagerNext

\* The invariant of the managers.
THEOREM ManagersSafe == ManagerSpec => []ManagerInv
BY InitManagerInv, NextManagerInv, PTL DEF ManagerSpec

\* The state of the managers and of the disk is well formed.
THEOREM ManagerTypes == ManagerSpec => []ManagerTypeOK
BY ManagersSafe, PTL DEF ManagerInv

\* What executes holds the lease and the lock until it has settled, however
\* many processes stop, resume, delete, crash and recover the run.
THEOREM ExecutionsLeased == ManagerSpec => []ExecutionIsLeased
BY ManagersSafe, PTL DEF ManagerInv

\* No two generations of a run ever execute together.
THEOREM OneAtATime == ManagerSpec => []OneExecution
BY ManagersSafe, PTL DEF ManagerInv

----------------------------------------------------------------------------
(* The tables that are keyed by the run's ID.  *)

\* An entry of the map is of the process whose map it is.
EntriesAreHosted == \A p \in Procs : runs[p] # NoGen => host[runs[p]] = p

TablesInv ==
    /\ EntriesAreHosted
    /\ GenerationsKeepApart
    /\ SettledRecordAgrees

LEMMA InitTablesInv == ManagerInit => TablesInv
BY ManagerAssumption
   DEF ManagerInit, TablesInv, EntriesAreHosted, GenerationsKeepApart, SettledRecordAgrees

\* A new generation takes the place of the entry and of its timer while nothing executes.
LEMMA LaunchTables ==
    ASSUME ManagerInv, TablesInv, NEW p \in Procs, NEW g \in Unused, NEW n \in 0 .. MaxJournal,
           executing = {}, Launch(p, g, n)
    PROVE  TablesInv'
<1> USE ManagerAssumption DEF Launch, Unused, ManagerInv, ManagerTypeOK, TablesInv
<1>1. executing' = {g} /\ fresh' = {g} /\ host' = [host EXCEPT ![g] = p] /\ runs' = [runs EXCEPT ![p] = g]
  OBVIOUS
<1>2. EntriesAreHosted'
  BY <1>1 DEF EntriesAreHosted
<1>3. GenerationsKeepApart'
  BY <1>1 DEF GenerationsKeepApart, IsCurrent, ClearTimer
<1>4. SettledRecordAgrees'
  BY <1>1 DEF SettledRecordAgrees
<1> QED
  BY <1>2, <1>3, <1>4

LEMMA ReopenTables ==
    ASSUME ManagerInv, TablesInv, NEW p \in Procs, Reopen(p)
    PROVE  TablesInv'
<1>1. executing = {} /\ record.journal \in 0 .. MaxJournal
  BY FreeMeansIdle DEF Reopen, Resumable, ManagerInv, ManagerTypeOK
<1>2. ASSUME NEW g \in Unused, Launch(p, g, record.journal) PROVE TablesInv'
  BY <1>1, <1>2, LaunchTables
<1>3. CASE ~ \E g \in Unused : Launch(p, g, record.journal)
  <2> USE <1>3, ManagerAssumption
          DEF Reopen, ClearTimer, ManagerInv, ManagerTypeOK, TablesInv, genVars, queueVars
  <2>1. (EntriesAreHosted /\ GenerationsKeepApart)'
    BY <1>1 DEF EntriesAreHosted, GenerationsKeepApart
  <2>2. SettledRecordAgrees'
    BY DEF SettledRecordAgrees, IsCurrent, StateOf
  <2> QED
    BY <2>1, <2>2
<1> QED
  BY <1>2, <1>3

\* Steps that write at most the current entry g, and leave it in the map.
LEMMA WritingTables ==
    ASSUME ManagerInv, TablesInv, NEW g \in Gens,
           \/ Republish(g)
           \/ Pause(g)
           \/ \E p \in Procs : TimerFires(p) /\ g = persistTimers[p]
    PROVE  TablesInv'
<1> USE ManagerAssumption
        DEF ManagerInv, ManagerTypeOK, TablesInv, Written, NotWritten, holdVars, queueVars,
            diskVars, genVars, ClearTimer
<1>1. /\ UNCHANGED <<host, executing, runs, reserved, journal>>
      /\ record.status # "absent" => record'.status # "absent"
      /\ record.status = "absent" => record' = record
      /\ \A p \in Procs : persistTimers'[p] \in {NoGen, persistTimers[p]}
  BY DEF Republish, Pause, Persist, TimerFires, TryToWrite, CanSave, StateOf, NoRecord, Statuses,
         Terminal, IsCurrent
<1>2. /\ \A h \in Gens : status'[h] # status[h] => h = g /\ IsCurrent(g)
      /\ \/ record' = record /\ fresh' = fresh /\ blocked' = blocked /\ status' = status
         \/ record' = record /\ fresh' = fresh /\ blocked' = blocked \union {g}
         \/ record' = StateOf(g, status'[g]) /\ fresh' = {g} 
  BY DEF Republish, Pause, Persist, TimerFires, TryToWrite
<1>3. EntriesAreHosted'
  BY <1>1 DEF EntriesAreHosted
<1>4. GenerationsKeepApart'
  BY <1>1, <1>2 DEF GenerationsKeepApart, IsCurrent
<1>5. SettledRecordAgrees'
  BY <1>1, <1>2 DEF SettledRecordAgrees, IsCurrent, StateOf
<1> QED
  BY <1>3, <1>4, <1>5

\* Steps that write nothing: entries leave the map when they neither run nor are paused
\* and unwinding, and a timer is set by the current entry.
LEMMA QuietTables ==
    ASSUME ManagerInv, TablesInv, NEW g \in Gens,
           Progress(g) \/ AbortOnly(g) \/ EvictTerminal(g) \/ EvictPaused(g) \/ SettleStale(g)
    PROVE  TablesInv'
<1> USE ManagerAssumption
        DEF ManagerInv, ManagerTypeOK, TablesInv, genVars, holdVars, queueVars, diskVars
<1>1. CASE Progress(g)
  <2>1. persistTimers' = [persistTimers EXCEPT ![host[g]] = IF @ = NoGen THEN g ELSE @]
    BY <1>1 DEF Progress
  <2> QED
    BY <1>1, <2>1
       DEF Progress, EntriesAreHosted, GenerationsKeepApart, SettledRecordAgrees, IsCurrent, StateOf
<1>2. CASE AbortOnly(g)
  BY <1>2 DEF AbortOnly, EntriesAreHosted, GenerationsKeepApart, SettledRecordAgrees, IsCurrent, StateOf
<1>3. CASE EvictTerminal(g)
  <2>1. /\ \A p \in Procs : runs'[p] \in {NoGen, runs[p]}
        /\ \A p \in Procs : runs'[p] # runs[p] => status[runs[p]] \in Terminal
        /\ UNCHANGED <<genVars, holdVars, diskVars, persistTimers>>
    BY <1>3 DEF EvictTerminal
  <2> QED
    BY <2>1
       DEF EntriesAreHosted, GenerationsKeepApart, SettledRecordAgrees, IsCurrent, StateOf, Terminal
<1>4. CASE EvictPaused(g)
  <2>1. /\ \A p \in Procs : runs'[p] \in {NoGen, runs[p]}
        /\ \A p \in Procs : runs'[p] # runs[p] => runs[p] \notin leased
        /\ UNCHANGED <<genVars, holdVars, diskVars, persistTimers>>
    BY <1>4 DEF EvictPaused
  <2> QED
    BY <2>1
       DEF EntriesAreHosted, GenerationsKeepApart, SettledRecordAgrees, IsCurrent, StateOf,
           ExecutionIsLeased
<1>5. CASE SettleStale(g)
  BY <1>5
     DEF SettleStale, EntriesAreHosted, GenerationsKeepApart, SettledRecordAgrees, IsCurrent, StateOf,
         OneExecution
<1> QED
  BY <1>1, <1>2, <1>3, <1>4, <1>5

LEMMA StopTables ==
    ASSUME ManagerInv, TablesInv, NEW g \in Gens, Stop(g)
    PROVE  TablesInv'
<1> USE ManagerAssumption
        DEF ManagerInv, ManagerTypeOK, TablesInv, Stop, holdVars, queueVars, ClearTimer, IsCurrent
<1>1. /\ UNCHANGED <<host, executing, runs, journal>>
      /\ status' = [status EXCEPT ![g] = "aborted"]
      /\ \/ record' = record /\ fresh' = fresh /\ blocked' = blocked \union {g}
         \/ record' = StateOf(g, "aborted") /\ fresh' = {g} /\ g \in fresh
      /\ reserved' = IF g \in executing THEN reserved ELSE reserved \ {g}
  BY DEF Persist, Written, NotWritten, CleanupSettled, CanSave
<1>2. EntriesAreHosted'
  BY <1>1 DEF EntriesAreHosted
<1>3. record'.status = "absent" <=> record.status = "absent"
  BY <1>1 DEF StateOf, NoRecord
<1>4. GenerationsKeepApart'
  BY <1>1, <1>3 DEF GenerationsKeepApart
<1>5. SettledRecordAgrees'
  BY <1>1 DEF SettledRecordAgrees, StateOf
<1> QED
  BY <1>2, <1>4, <1>5

LEMMA SettleTables ==
    ASSUME ManagerInv, TablesInv, NEW g \in Gens, Settle(g)
    PROVE  TablesInv'
<1>1. executing = {g} /\ executing' = {}
  BY SettleStep DEF Settle
<1> USE ManagerAssumption DEF ManagerInv, ManagerTypeOK, TablesInv, ClearTimer, IsCurrent
<1>2. PICK s \in Outcomes(g) : /\ status' = [status EXCEPT ![g] = s]
                               /\ Persist(g, s)
                               /\ CleanupSettled(g, s)
  BY DEF Settle
<1>3. /\ UNCHANGED <<host, runs, journal>>
      /\ reserved' = reserved \ {g}
      /\ \/ record' = record /\ fresh' = fresh /\ blocked' = blocked \union {g}
         \/ record' = StateOf(g, s) /\ fresh' = {g} /\ g \in fresh
  BY <1>2 DEF Settle, Persist, Written, NotWritten, CleanupSettled, CanSave
<1>4. EntriesAreHosted'
  BY <1>3 DEF EntriesAreHosted
<1>5. GenerationsKeepApart'
  BY <1>1, <1>3 DEF GenerationsKeepApart, Settle
<1>6. SettledRecordAgrees'
  BY <1>1, <1>2, <1>3 DEF SettledRecordAgrees, StateOf
<1> QED
  BY <1>4, <1>5, <1>6

\* Steps of a process that leave nobody with the revision on disk, and a crash.
LEMMA ProcessTables ==
    ASSUME ManagerInv, TablesInv, NEW p \in Procs,
           \/ StopOnDisk(p) \/ DeleteRun(p) \/ Forget(p) \/ Restart(p) \/ Crash(p)
           \/ \E c \in Calls : ResumeWaits(c, p)
    PROVE  TablesInv'
<1> USE ManagerAssumption
        DEF ManagerInv, ManagerTypeOK, TablesInv, genVars, holdVars, queueVars, diskVars, IsCurrent
<1>1. CASE StopOnDisk(p)
  BY <1>1 DEF StopOnDisk, EntriesAreHosted, GenerationsKeepApart, SettledRecordAgrees
<1>2. CASE DeleteRun(p)
  BY <1>2 DEF DeleteRun, ClearTimer, EntriesAreHosted, GenerationsKeepApart, SettledRecordAgrees
<1>3. CASE Forget(p)
  BY <1>3 DEF Forget, EntriesAreHosted, GenerationsKeepApart, SettledRecordAgrees
<1>4. CASE Restart(p)
  BY <1>4 DEF Restart, EntriesAreHosted, GenerationsKeepApart, SettledRecordAgrees, StateOf
<1>5. CASE Crash(p)
  BY <1>5
     DEF Crash, HostedBy, ClearTimer, EntriesAreHosted, GenerationsKeepApart, SettledRecordAgrees, StateOf
<1>6. CASE \E c \in Calls : ResumeWaits(c, p)
  BY <1>6 DEF ResumeWaits, EntriesAreHosted, GenerationsKeepApart, SettledRecordAgrees, StateOf
<1> QED
  BY <1>1, <1>2, <1>3, <1>4, <1>5, <1>6

LEMMA NextTablesInv ==
    ASSUME ManagerInv, TablesInv, [ManagerNext]_managerVars
    PROVE  TablesInv'
<1>1. CASE UNCHANGED managerVars
  BY <1>1
     DEF managerVars, genVars, holdVars, queueVars, diskVars, TablesInv, EntriesAreHosted,
         GenerationsKeepApart, SettledRecordAgrees, IsCurrent, StateOf
<1>2. CASE GenNext
  BY <1>2, QuietTables, WritingTables, StopTables, SettleTables DEF GenNext
<1>3. ASSUME NEW p \in Procs, NEW g \in Gens, Start(p, g) PROVE TablesInv'
  BY <1>3, LaunchTables, ManagerAssumption DEF Start, ManagerInv, NoRecord, ManagerTypeOK
<1>4. ASSUME NEW p \in Procs, TimerFires(p) PROVE TablesInv'
  BY <1>4, WritingTables DEF TimerFires, ManagerInv, ManagerTypeOK
<1>5. ASSUME NEW p \in Procs, ResumeAtOnce(p) PROVE TablesInv'
  BY <1>5, ReopenTables DEF ResumeAtOnce
<1>6. ASSUME NEW c \in Calls, ResumeContinues(c) PROVE TablesInv'
  <2>1. CASE IsCurrent(waiting[c]) /\ Reopen(host[waiting[c]])
    BY <2>1, ReopenTables DEF IsCurrent
  <2>2. CASE UNCHANGED <<genVars, holdVars, queueVars, diskVars, up, runs, persistTimers, crashes>>
    BY <2>2
       DEF genVars, holdVars, queueVars, diskVars, TablesInv, EntriesAreHosted,
           GenerationsKeepApart, SettledRecordAgrees, IsCurrent, StateOf
  <2> QED
    BY <1>6, <2>1, <2>2 DEF ResumeContinues
<1> QED
  BY <1>1, <1>2, <1>3, <1>4, <1>5, <1>6, ProcessTables DEF ManagerNext

\* No queue entry, timer or reservation that a generation leaves behind meets another
\* generation of the run, and none is lost.
THEOREM GenerationsApart == ManagerSpec => []GenerationsKeepApart
<1>1. ManagerInv /\ TablesInv /\ [ManagerNext]_managerVars => TablesInv'
  BY NextTablesInv
<1> QED
  BY <1>1, InitTablesInv, ManagersSafe, PTL DEF ManagerSpec, TablesInv

\* What a manager shows of a run that has settled is what the disk has, unless it says
\* that it could not write.
THEOREM SettledRecordsAgree == ManagerSpec => []SettledRecordAgrees
<1>1. ManagerInv /\ TablesInv /\ [ManagerNext]_managerVars => TablesInv'
  BY NextTablesInv
<1> QED
  BY <1>1, InitTablesInv, ManagersSafe, PTL DEF ManagerSpec, TablesInv

----------------------------------------------------------------------------
\* What a step may do to the record, and beside which change of what executes.
Writes(g, s) == g \in fresh /\ record' = StateOf(g, s)

RecordStep ==
    \* nothing, and executions may end
    \/ record' = record /\ executing' = executing
    \/ record' = record /\ executing # {} /\ executing' = {}
    \* a generation starts or resumes the run
    \/ /\ executing = {}
       /\ record.status \in Resumable \union {"none"}
       /\ \E g \in Gens : executing' = {g}
       /\ record' = [record EXCEPT !.status = "running"]
    \* it publishes its progress, a pause or a stop while it executes
    \/ \E g \in executing : \E s \in {status[g], "paused", "aborted"} :
          /\ s # status[g] => status[g] \in {"running", "paused"}
          /\ Writes(g, s) /\ executing' = executing
    \* or its end
    \/ \E g \in executing, s \in {"completed", "failed", "paused", "aborted"} :
          /\ status[g] # "running" => s = status[g]
          /\ Writes(g, s) /\ executing' = {}
    \* a generation that has settled is written again or stopped
    \/ /\ executing = {} /\ executing' = executing
       /\ \E g \in Gens : \E s \in {status[g], "paused", "aborted"} :
             /\ s # status[g] => status[g] \in {"running", "paused"}
             /\ Writes(g, s)
    \* a run that nobody executes is stopped on disk or recovered
    \/ /\ executing = {} /\ executing' = executing
       /\ record.status \in {"running", "paused"}
       /\ \E s \in {"paused", "aborted"} : record' = [record EXCEPT !.status = s]
    \* the record is removed
    \/ /\ record.status # "none" /\ executing' = executing
       /\ record' = [record EXCEPT !.status = "absent"]

\* A write of a generation beside an unchanged set of executions.
LEMMA WriteIsRecordStep ==
    ASSUME ManagerInv, NEW g \in Gens, NEW s \in {status[g], "paused", "aborted"},
           s # status[g] => status[g] \in {"running", "paused"},
           Written(g, s) \/ NotWritten(g), executing' = executing
    PROVE  RecordStep
<1>1. CASE NotWritten(g)
  BY <1>1 DEF NotWritten, RecordStep
<1>2. CASE Written(g, s)
  <2>1. Writes(g, s)
    BY <1>2 DEF Written, Writes, CanSave
  <2>2. CASE executing = {}
    BY <2>1, <2>2 DEF RecordStep
  <2>3. CASE executing # {}
    <3>1. g \in executing
      BY <1>2, <2>3, WriterExecutes DEF Written
    <3> QED
      BY <2>1, <3>1 DEF RecordStep
  <2> QED
    BY <2>2, <2>3
<1> QED
  BY <1>1, <1>2

LEMMA ReopenIsRecordStep ==
    ASSUME ManagerInv, NEW p \in Procs, Reopen(p)
    PROVE  RecordStep
<1>1. executing = {} /\ record.status \in Resumable
  BY FreeMeansIdle DEF Reopen, Resumable
<1>2. ASSUME NEW g \in Unused, Launch(p, g, record.journal) PROVE RecordStep
  <2>1. executing' = {g} /\ g \in Gens
    BY <1>1, <1>2 DEF Launch, Unused
  <2>2. record' = [record EXCEPT !.status = "running"]
    BY <1>2 DEF Launch, ManagerInv, ManagerTypeOK
  <2> QED
    BY <1>1, <2>1, <2>2 DEF RecordStep
<1>3. CASE UNCHANGED <<genVars, record>>
  BY <1>3 DEF genVars, RecordStep
<1> QED
  BY <1>2, <1>3 DEF Reopen

LEMMA GenerationRecordSteps ==
    ASSUME ManagerInv, NEW g \in Gens,
           \/ Progress(g) \/ Republish(g) \/ AbortOnly(g) \/ Pause(g) \/ Stop(g)
           \/ Settle(g) \/ SettleStale(g) \/ EvictTerminal(g) \/ EvictPaused(g)
    PROVE  RecordStep
<1>1. CASE Progress(g) \/ AbortOnly(g) \/ EvictTerminal(g) \/ EvictPaused(g)
  BY <1>1 DEF Progress, AbortOnly, EvictTerminal, EvictPaused, genVars, diskVars, RecordStep
<1>2. CASE Republish(g)
  BY <1>2, WriteIsRecordStep DEF Republish, TryToWrite
<1>3. CASE Pause(g)
  BY <1>3, WriteIsRecordStep DEF Pause, Persist
<1>4. CASE Stop(g)
  BY <1>4, WriteIsRecordStep DEF Stop, Persist
<1>5. CASE Settle(g)
  <2>1. executing = {g} /\ executing' = {}
    BY <1>5, SettleStep DEF Settle
  <2>2. PICK s \in Outcomes(g) : Persist(g, s)
    BY <1>5 DEF Settle
  <2>3. /\ s \in {"completed", "failed", "paused", "aborted"}
        /\ status[g] # "running" => s = status[g]
    BY <2>1, OutcomeStatuses
  <2>4. record' = record \/ Writes(g, s)
    BY <2>2 DEF Persist, Written, NotWritten, Writes, CanSave
  <2> QED
    BY <2>1, <2>3, <2>4 DEF RecordStep
<1>6. CASE SettleStale(g)
  BY <1>6, SettleStaleStep DEF SettleStale, diskVars, RecordStep
<1> QED
  BY <1>1, <1>2, <1>3, <1>4, <1>5, <1>6

LEMMA ProcessRecordSteps ==
    ASSUME ManagerInv, NEW p \in Procs,
           \/ \E g \in Gens : Start(p, g)
           \/ \E c \in Calls : ResumeWaits(c, p)
           \/ TimerFires(p) \/ StopOnDisk(p)
           \/ DeleteRun(p) \/ Forget(p) \/ Crash(p) \/ Restart(p)
    PROVE  RecordStep
<1>1. ASSUME NEW g \in Gens, Start(p, g) PROVE RecordStep
  <2>1. executing = {} /\ executing' = {g}
    BY <1>1 DEF Start, Launch, ManagerInv, NoRecord
  <2>2. record' = [record EXCEPT !.status = "running"]
    BY <1>1 DEF Start, Launch, ManagerInv, ManagerTypeOK, NoRecord
  <2> QED
    BY <1>1, <2>1, <2>2 DEF RecordStep, Start
<1>2. ASSUME NEW c \in Calls, ResumeWaits(c, p) PROVE RecordStep
  BY <1>2 DEF ResumeWaits, genVars, diskVars, RecordStep
<1>3. CASE TimerFires(p)
  <2>1. persistTimers[p] \in Gens
    BY <1>3 DEF TimerFires, ManagerInv, ManagerTypeOK
  <2>2. CASE TryToWrite(persistTimers[p])
    BY <2>1, <2>2, WriteIsRecordStep DEF TryToWrite
  <2>3. CASE UNCHANGED <<genVars, diskVars>>
    BY <2>3 DEF genVars, diskVars, RecordStep
  <2> QED
    BY <1>3, <2>2, <2>3 DEF TimerFires
<1>4. CASE StopOnDisk(p)
  BY <1>4, FreeMeansIdle DEF StopOnDisk, genVars, RecordStep
<1>5. CASE DeleteRun(p)
  BY <1>5 DEF DeleteRun, RecordStep, Statuses, Terminal
<1>6. CASE Forget(p)
  BY <1>6 DEF Forget, RecordStep, Terminal, genVars
<1>7. CASE Crash(p)
  <2>1. executing' = executing \/ executing' = {}
    BY <1>7 DEF Crash, ManagerInv, OneExecution
  <2> QED
    BY <1>7, <2>1 DEF Crash, RecordStep
<1>8. CASE Restart(p)
  BY <1>8, FreeMeansIdle DEF Restart, genVars, diskVars, RecordStep
<1> QED
  BY <1>1, <1>2, <1>3, <1>4, <1>5, <1>6, <1>7, <1>8

LEMMA EveryRecordStep ==
    ASSUME ManagerInv, [ManagerNext]_managerVars
    PROVE  RecordStep
<1>1. CASE UNCHANGED managerVars
  BY <1>1 DEF managerVars, genVars, diskVars, RecordStep
<1>2. CASE GenNext
  BY <1>2, GenerationRecordSteps DEF GenNext
<1>3. ASSUME NEW p \in Procs, ResumeAtOnce(p) PROVE RecordStep
  BY <1>3, ReopenIsRecordStep DEF ResumeAtOnce
<1>4. ASSUME NEW c \in Calls, ResumeContinues(c) PROVE RecordStep
  BY <1>4, ReopenIsRecordStep DEF ResumeContinues, IsCurrent, genVars, diskVars, RecordStep
<1> QED
  BY <1>1, <1>2, <1>3, <1>4, ProcessRecordSteps DEF ManagerNext

----------------------------------------------------------------------------
LEMMA FinalStep ==
    ASSUME ManagerInv, RecordStep, record.status \in {"completed", "aborted", "absent"}
    PROVE  record'.status \in {record.status, "absent"}
BY DEF RecordStep, Writes, StateOf, ManagerInv, ManagerTypeOK, NoRecord, FreshKnows,
       Resumable

LEMMA JournalStep ==
    ASSUME ManagerInv, RecordStep,
           record.status \in Resumable, record'.status \in Resumable
    PROVE  record'.journal >= record.journal
BY ManagerAssumption
   DEF RecordStep, Writes, StateOf, ManagerInv, ManagerTypeOK, FreshKnows

LEMMA LifecycleStep ==
    ASSUME ManagerInv, RecordStep
    PROVE  [Lifecycle!LifecycleNext]_(Lifecycle!lifecycleVars)
<1> USE ManagerAssumption
        DEF Lifecycle!LifecycleNext, Lifecycle!lifecycleVars, Lifecycle!CanBeResumed,
            Lifecycle!Republished, Resumable
<1>1. CASE record' = record /\ executing' = executing
  BY <1>1
<1>2. CASE record' = record /\ executing # {} /\ executing' = {}
  BY <1>2 DEF Lifecycle!End
<1>3. CASE /\ executing = {}
           /\ record.status \in Resumable \union {"none"}
           /\ \E g \in Gens : executing' = {g}
           /\ record' = [record EXCEPT !.status = "running"]
  BY <1>3 DEF Lifecycle!Begin
<1>4. ASSUME NEW g \in Gens, NEW s \in Statuses, Writes(g, s)
      PROVE  /\ record.status \in Resumable \union {"completed", "aborted"}
             /\ record'.status = s
             /\ record.status \in Resumable => record'.journal >= record.journal
             /\ s \notin Resumable => record'.journal = record.journal
             /\ s = record.status /\ s \notin Resumable => record' = record
  <2>1. record.status \in Statuses /\ record.journal \in Nat /\ journal[g] \in Nat
    BY <1>4 DEF Writes, ManagerInv, ManagerTypeOK, NoRecord
  <2>2. record.status \in Resumable => journal[g] >= record.journal
    BY <1>4 DEF Writes, ManagerInv, FreshKnows
  <2> QED
    BY <1>4, <2>1, <2>2 DEF Writes, StateOf, Statuses, Terminal, ManagerInv, ManagerTypeOK
<1>5. ASSUME NEW g \in executing, NEW s \in {status[g], "paused", "aborted"},
             s # status[g] => status[g] \in {"running", "paused"},
             Writes(g, s), executing' = executing
      PROVE  Lifecycle!Checkpoint \/ record' = record
  <2>1. g \in Gens /\ g \in fresh /\ s \in Statuses
    BY <1>5 DEF Writes, ManagerInv, ManagerTypeOK, Statuses, Terminal
  <2>2. status[g] \in {"running", "paused", "aborted"}
    BY <1>5 DEF ManagerInv, AbortedEnds
  <2>3. CASE record.status \in Resumable
    BY <1>4, <1>5, <2>1, <2>2, <2>3 DEF Lifecycle!Checkpoint, ManagerInv, FreshKnows
  <2>4. CASE record.status \in {"completed", "aborted"}
    BY <1>4, <1>5, <2>1, <2>4 DEF ManagerInv, FreshKnows
  <2> QED
    BY <1>4, <1>5, <2>1, <2>3, <2>4
<1>6. ASSUME NEW g \in executing, NEW s \in {"completed", "failed", "paused", "aborted"},
             status[g] # "running" => s = status[g],
             Writes(g, s), executing' = {}
      PROVE  Lifecycle!End
  <2>1. g \in Gens /\ g \in fresh /\ s \in Statuses
    BY <1>6 DEF Writes, ManagerInv, ManagerTypeOK, Statuses, Terminal
  <2>2. CASE record.status \in Resumable
    BY <1>4, <1>6, <2>1, <2>2 DEF Lifecycle!End
  <2>3. CASE record.status \in {"completed", "aborted"}
    BY <1>4, <1>6, <2>1, <2>3 DEF Lifecycle!End, ManagerInv, FreshKnows
  <2> QED
    BY <1>4, <1>6, <2>1, <2>2, <2>3
<1>7. ASSUME NEW g \in Gens, NEW s \in {status[g], "paused", "aborted"},
             s # status[g] => status[g] \in {"running", "paused"},
             Writes(g, s), executing = {}, executing' = executing
      PROVE  Lifecycle!Amend \/ record' = record
  <2>1. g \in fresh /\ s \in Statuses
    BY <1>7 DEF Writes, ManagerInv, ManagerTypeOK, Statuses, Terminal
  <2>2. CASE record.status \in Resumable
    BY <1>4, <1>7, <2>1, <2>2
       DEF Lifecycle!Amend, ManagerInv, FreshKnows, Statuses, Terminal
  <2>3. CASE record.status \in {"completed", "aborted"}
    BY <1>4, <1>7, <2>1, <2>3 DEF ManagerInv, FreshKnows
  <2> QED
    BY <1>4, <1>7, <2>1, <2>2, <2>3
<1>8. CASE /\ executing = {} /\ executing' = executing
           /\ record.status \in {"running", "paused"}
           /\ \E s \in {"paused", "aborted"} : record' = [record EXCEPT !.status = s]
  BY <1>8 DEF Lifecycle!Amend, ManagerInv, ManagerTypeOK
<1>9. CASE /\ record.status # "none" /\ executing' = executing
           /\ record' = [record EXCEPT !.status = "absent"]
  BY <1>9 DEF Lifecycle!Remove
<1> QED
  BY <1>1, <1>2, <1>3, <1>5, <1>6, <1>7, <1>8, <1>9 DEF RecordStep

\* A durable stop, completion or deletion is never undone.
THEOREM FinalStaysFinal == ManagerSpec => TerminalIsFinal
<1>1. ManagerInv /\ [ManagerNext]_managerVars
         => [record.status \in {"completed", "aborted", "absent"}
                => record'.status \in {record.status, "absent"}]_managerVars
  BY EveryRecordStep, FinalStep
<1> QED
  BY <1>1, ManagersSafe, PTL DEF ManagerSpec, TerminalIsFinal

\* No write takes entries out of the journal of a run that can be resumed.
THEOREM JournalsSurvive == ManagerSpec => JournalSurvives
<1>1. ManagerInv /\ [ManagerNext]_managerVars
         => [record.status \in Resumable /\ record'.status \in Resumable
                => record'.journal >= record.journal]_managerVars
  BY EveryRecordStep, JournalStep
<1> QED
  BY <1>1, ManagersSafe, PTL DEF ManagerSpec, JournalSurvives

\* The managers implement the lifecycle that RunLifecycle specifies.
THEOREM ManagersImplementLifecycle == ManagerSpec => ImplementsLifecycle
<1>1. ManagerInit => Lifecycle!LifecycleInit
  BY DEF ManagerInit, Lifecycle!LifecycleInit
<1>2. ManagerInv /\ [ManagerNext]_managerVars
         => [Lifecycle!LifecycleNext]_(Lifecycle!lifecycleVars)
  BY EveryRecordStep, LifecycleStep
<1> QED
  BY <1>1, <1>2, ManagersSafe, PTL
     DEF ManagerSpec, ImplementsLifecycle, Lifecycle!LifecycleSpec

================================================================================
