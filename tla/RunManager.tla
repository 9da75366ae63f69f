------------------------------- MODULE RunManager -------------------------------
(***************************************************************************)
(* The life of one run under the workflow managers of several Pi processes *)
(* (src/src/workflow-manager.ts) and its durable record                    *)
(* (src/src/run-persistence.ts).  A generation is one ManagedRun: starting *)
(* the run makes the first, every resume() that is accepted another one.   *)
(*                                                                         *)
(* Everything a manager does between two awaits is one action.  The lock   *)
(* file is RunLease's: here taking the lease is one step, a lock whose     *)
(* owner is dead counts as none, and a lease taken and released within one *)
(* synchronous call leaves no trace.                                       *)
(*                                                                         *)
(* What settledCleanupStatus guards against, a second cleanup of the same  *)
(* status, cannot arise from the actions below: a generation is cleaned up *)
(* when it settles and once more if a paused one is stopped afterwards.    *)
(***************************************************************************)
EXTENDS FiniteSets, Naturals

CONSTANTS
    Procs,          \* Pi processes on one project
    Gens,           \* generations of the run
    Calls,          \* resume() calls that may be waiting at the same time
    NoProc, NoGen,
    MaxJournal,     \* bound: entries of the journal
    MaxFaults,      \* bound: writes of the record that fail
    MaxCrashes      \* bound: processes that die

ASSUME ManagerAssumption ==
    /\ IsFiniteSet(Gens)
    /\ NoProc \notin Procs
    /\ NoGen \notin Gens
    /\ MaxJournal \in Nat
    /\ MaxFaults \in Nat
    /\ MaxCrashes \in Nat

VARIABLES
    \* of each generation
    host,           \* the process that made it
    status,
    journal,        \* number of entries
    executing,      \* those whose executionSettled is false
    aborting,       \* those whose controller is aborted
    leased,         \* those with a lease
    reserved,       \* those that hold an execution reservation
    blocked,        \* those with persistenceBlocked
    fresh,          \* those whose revision is the revision on disk
    dead,           \* those whose process has died
    \* of each manager
    up,             \* processes that run
    runs,           \* the entry of the run in `runs'
    pausedRunQueue, \* generations in the managers' queues of paused entries
    terminalRunQueue,   \* generations that queued the run id as terminal
    persistTimers,  \* the generation a pending timer writes
    waiting,        \* the generation each resume() call waits for
    \* on disk
    record,         \* status and journal
    lock,           \* the generation whose lease the lock file carries
    \* bounds
    faults, crashes

genVars == <<host, status, journal, executing, aborting, blocked, dead>>
holdVars == <<leased, reserved, lock>>
queueVars == <<pausedRunQueue, terminalRunQueue>>
diskVars == <<record, fresh, faults>>
managerVars == <<genVars, holdVars, queueVars, diskVars, up, runs,
                 persistTimers, waiting, crashes>>

Terminal == {"completed", "failed", "aborted"}      \* IN_MEMORY_TERMINAL_STATUSES
Statuses == Terminal \union {"running", "paused"}
Resumable == {"running", "paused", "failed"}

ManagerTypeOK ==
    /\ host \in [Gens -> Procs \union {NoProc}]
    /\ status \in [Gens -> Statuses]
    /\ journal \in [Gens -> 0 .. MaxJournal]
    /\ runs \in [Procs -> Gens \union {NoGen}]
    /\ persistTimers \in [Procs -> Gens \union {NoGen}]
    /\ waiting \in [Calls -> Gens \union {NoGen}]
    /\ executing \in SUBSET Gens /\ aborting \in SUBSET Gens
    /\ leased \in SUBSET Gens /\ reserved \in SUBSET Gens
    /\ blocked \in SUBSET Gens /\ fresh \in SUBSET Gens /\ dead \in SUBSET Gens
    /\ pausedRunQueue \in SUBSET Gens /\ terminalRunQueue \in SUBSET Gens
    /\ up \in SUBSET Procs
    /\ record \in [status : Statuses \union {"none", "absent"}, journal : 0 .. MaxJournal]
    /\ lock \in Gens \union {NoGen}
    /\ faults \in 0 .. MaxFaults
    /\ crashes \in 0 .. MaxCrashes

ManagerInit ==
    /\ host = [g \in Gens |-> NoProc]
    /\ status = [g \in Gens |-> "running"]
    /\ journal = [g \in Gens |-> 0]
    /\ executing = {} /\ aborting = {} /\ leased = {} /\ reserved = {}
    /\ blocked = {} /\ fresh = {} /\ dead = {}
    /\ up = Procs
    /\ runs = [p \in Procs |-> NoGen]
    /\ pausedRunQueue = {} /\ terminalRunQueue = {}
    /\ persistTimers = [p \in Procs |-> NoGen]
    /\ waiting = [c \in Calls |-> NoGen]
    /\ record = [status |-> "none", journal |-> 0]
    /\ lock = NoGen
    /\ faults = 0 /\ crashes = 0

----------------------------------------------------------------------------
Unused == {g \in Gens : host[g] = NoProc}
HostedBy(p) == {g \in Gens : host[g] = p}
IsCurrent(g) == host[g] \in Procs /\ runs[host[g]] = g

\* acquireRunLease() would succeed: no lock, or one of a dead process.
LeaseFree == lock = NoGen \/ lock \in dead

\* Mutant: a write under a valid lease needs no revision.
CanSaveUnfenced(g) ==
    /\ record.status # "absent"
    /\ IF g \in leased THEN lock = g ELSE LeaseFree

\* save() goes through: the caller's own lease, or one taken for the write, and
\* the revision it last saw.
CanSave(g) ==
    /\ g \in fresh
    /\ IF g \in leased THEN lock = g ELSE LeaseFree

\* persistedStateFor(): a completed or aborted record has no journal, and none
\* is read from it again.
StateOf(g, s) ==
    [status |-> s, journal |-> IF s \in Resumable THEN journal[g] ELSE record.journal]

\* writeRunToDisk() with status s: a write that does not go through throws.
Written(g, s) ==
    /\ CanSave(g)
    /\ record' = StateOf(g, s)
    /\ fresh' = {g}
    /\ UNCHANGED faults

NotWritten(g) ==
    /\ \/ ~CanSave(g) /\ UNCHANGED faults
       \/ CanSave(g) /\ faults < MaxFaults /\ faults' = faults + 1
    /\ UNCHANGED <<record, fresh>>

\* persistRunStrict(), and markPersistenceBlocked() where its callers catch.
Persist(g, s) ==
    \/ Written(g, s) /\ blocked' = blocked \ {g}
    \/ NotWritten(g) /\ blocked' = blocked \union {g}

ClearTimer(p) == persistTimers' = [persistTimers EXCEPT ![p] = NoGen]

\* cleanupSettledGeneration() of the current generation g with status s.
CleanupSettled(g, s) ==
    /\ lock' = IF g \in leased /\ lock = g THEN NoGen ELSE lock
    /\ leased' = leased \ {g}
    /\ reserved' = reserved \ {g}
    /\ IF s \in Terminal
       THEN /\ pausedRunQueue' = pausedRunQueue \ HostedBy(host[g])
            /\ terminalRunQueue' = terminalRunQueue \union {g}
       ELSE /\ pausedRunQueue' = pausedRunQueue \union {g}
            /\ UNCHANGED terminalRunQueue

\* Mutant: the journal starts anew.
LaunchAfresh(p, g, n) ==
    /\ host' = [host EXCEPT ![g] = p]
    /\ executing' = executing \union {g}
    /\ leased' = leased \union {g}
    /\ reserved' = reserved \union {g}
    /\ lock' = g
    /\ runs' = [runs EXCEPT ![p] = g]
    /\ record' = [status |-> "running", journal |-> 0]
    /\ fresh' = {g}
    /\ ClearTimer(p)
    /\ UNCHANGED <<status, journal, aborting, blocked, dead, queueVars, up, faults, crashes>>

\* A new ManagedRun g of process p over a journal of n entries, published as
\* the entry of the run and written to disk, and its executeRun().
Launch(p, g, n) ==
    /\ host' = [host EXCEPT ![g] = p]
    /\ journal' = [journal EXCEPT ![g] = n]
    /\ executing' = executing \union {g}
    /\ leased' = leased \union {g}
    /\ reserved' = reserved \union {g}
    /\ lock' = g
    /\ runs' = [runs EXCEPT ![p] = g]
    /\ record' = [status |-> "running", journal |-> n]
    /\ fresh' = {g}
    /\ ClearTimer(p)
    /\ UNCHANGED <<status, aborting, blocked, dead, queueVars, up, faults, crashes>>

----------------------------------------------------------------------------
\* startInBackground() and runSync().  One that fails leaves nothing behind.
Start(p, g) ==
    /\ p \in up
    /\ record.status = "none"
    /\ g \in Unused
    /\ Launch(p, g, 0)
    /\ UNCHANGED waiting

\* onAgentJournal, which agentImpl() reaches only when it is not aborted, and
\* the other events that schedule a write.
Progress(g) ==
    /\ g \in executing
    /\ IsCurrent(g)
    /\ \/ g \notin aborting /\ journal[g] < MaxJournal
          /\ journal' = [journal EXCEPT ![g] = @ + 1]
       \/ UNCHANGED journal
    /\ persistTimers' = [persistTimers EXCEPT ![host[g]] = IF @ = NoGen THEN g ELSE @]
    /\ UNCHANGED <<host, status, executing, aborting, blocked, dead, holdVars, queueVars,
                   diskVars, up, runs, waiting, crashes>>

\* A best-effort write of the generation the map entry names.
TryToWrite(g) ==
    /\ \/ Written(g, status[g]) /\ blocked' = blocked \ {g}
       \/ NotWritten(g) /\ UNCHANGED blocked
    /\ UNCHANGED <<host, status, journal, executing, aborting, dead>>

\* schedulePersist()'s timer.
TimerFires(p) ==
    /\ persistTimers[p] # NoGen
    /\ ClearTimer(p)
    /\ IF IsCurrent(persistTimers[p]) THEN TryToWrite(persistTimers[p])
                                      ELSE UNCHANGED <<genVars, diskVars>>
    /\ UNCHANGED <<holdVars, queueVars, up, runs, waiting, crashes>>

\* adoptLiveRunsToSession(), and the changes of the delivery outbox, write the
\* entry that is in the map, whatever its status.
Republish(g) ==
    /\ IsCurrent(g)
    /\ ClearTimer(host[g])
    /\ TryToWrite(g)
    /\ UNCHANGED <<holdVars, queueVars, up, runs, waiting, crashes>>

\* Esc, or the abort deleteRun() starts with, when the record is then refused.
AbortOnly(g) ==
    /\ IsCurrent(g)
    /\ g \in executing
    /\ aborting' = aborting \union {g}
    /\ UNCHANGED <<host, status, journal, executing, blocked, dead, holdVars, queueVars,
                   diskVars, up, runs, persistTimers, waiting, crashes>>

\* pause().
Pause(g) ==
    /\ IsCurrent(g)
    /\ status[g] = "running"
    /\ aborting' = aborting \union {g}
    /\ status' = [status EXCEPT ![g] = "paused"]
    /\ ClearTimer(host[g])
    /\ Persist(g, "paused")
    /\ UNCHANGED <<host, journal, executing, dead, holdVars, queueVars, up, runs,
                   waiting, crashes>>

\* Mutant: stop() takes the status for the end of the execution.
StopCleaningUp(g) ==
    /\ IsCurrent(g)
    /\ status[g] \in {"running", "paused"}
    /\ aborting' = aborting \union {g}
    /\ status' = [status EXCEPT ![g] = "aborted"]
    /\ ClearTimer(host[g])
    /\ Persist(g, "aborted")
    /\ CleanupSettled(g, "aborted")
    /\ UNCHANGED <<host, journal, executing, dead, up, runs, waiting, crashes>>

\* stop() of the entry in the map.  An execution that is pending cleans up when
\* it settles, one that has settled is cleaned up here, written or not.
Stop(g) ==
    /\ IsCurrent(g)
    /\ status[g] \in {"running", "paused"}
    /\ aborting' = aborting \union {g}
    /\ status' = [status EXCEPT ![g] = "aborted"]
    /\ ClearTimer(host[g])
    /\ Persist(g, "aborted")
    /\ IF g \in executing THEN UNCHANGED <<holdVars, queueVars>>
                          ELSE CleanupSettled(g, "aborted")
    /\ UNCHANGED <<host, journal, executing, dead, up, runs, waiting, crashes>>

\* stop() of a run this manager does not have in memory.
StopOnDisk(p) ==
    /\ p \in up
    /\ runs[p] = NoGen
    /\ record.status \in {"running", "paused"}
    /\ LeaseFree
    /\ record' = [record EXCEPT !.status = "aborted"]
    /\ fresh' = {}
    /\ UNCHANGED <<genVars, holdVars, queueVars, faults, up, runs, persistTimers,
                   waiting, crashes>>

----------------------------------------------------------------------------
\* What resume() does once nothing executes: the record is read again under the
\* lease.  A first write that fails takes the new entry out of the map again.
Reopen(p) ==
    /\ record.status \in Resumable
    /\ LeaseFree
    /\ \/ \E g \in Unused : Launch(p, g, record.journal)
       \/ /\ faults < MaxFaults
          /\ faults' = faults + 1
          /\ runs' = [runs EXCEPT ![p] = NoGen]
          /\ lock' = NoGen
          /\ ClearTimer(p)
          /\ UNCHANGED <<genVars, leased, reserved, queueVars, record, fresh, up, crashes>>

\* resume() of a run that is paused in memory waits for its execution.
ResumeWaits(c, p) ==
    /\ p \in up
    /\ waiting[c] = NoGen
    /\ runs[p] # NoGen
    /\ status[runs[p]] = "paused"
    /\ waiting' = [waiting EXCEPT ![c] = runs[p]]
    /\ UNCHANGED <<genVars, holdVars, queueVars, diskVars, up, runs, persistTimers, crashes>>

\* Mutant: a call that finds another entry in the map does not return.
ContinueIfCurrent(c) ==
    LET g == waiting[c] IN
    /\ g # NoGen
    /\ g \notin executing
    /\ IsCurrent(g)
    /\ waiting' = [waiting EXCEPT ![c] = NoGen]
    /\ \/ Reopen(host[g])
       \/ UNCHANGED <<genVars, holdVars, queueVars, diskVars, up, runs, persistTimers, crashes>>

\* It goes on when the execution has settled, and only with the same entry.  A
\* refusal may also be for want of execution capacity.
ResumeContinues(c) ==
    LET g == waiting[c] IN
    /\ g # NoGen
    /\ g \notin executing
    /\ waiting' = [waiting EXCEPT ![c] = NoGen]
    /\ \/ IsCurrent(g) /\ Reopen(host[g])
       \/ UNCHANGED <<genVars, holdVars, queueVars, diskVars, up, runs, persistTimers, crashes>>

\* resume() of a run that is failed, completed or unknown in memory.
ResumeAtOnce(p) ==
    /\ p \in up
    /\ runs[p] # NoGen => status[runs[p]] \in {"failed", "completed"}
    /\ Reopen(p)
    /\ UNCHANGED waiting

\* Mutant: what is left of the record still answers to its revision.
DeleteRunLeavingBackup(p) ==
    LET g == runs[p] IN
    /\ p \in up
    /\ record.status \in Statuses
    /\ IF g = NoGen THEN LeaseFree ELSE CanSave(g)
    /\ record' = [record EXCEPT !.status = "absent"]
    /\ lock' = NoGen
    /\ leased' = leased \ {g}
    /\ reserved' = reserved \ {g}
    /\ aborting' = aborting \union ({g} \ {NoGen})
    /\ runs' = [runs EXCEPT ![p] = NoGen]
    /\ pausedRunQueue' = pausedRunQueue \ HostedBy(p)
    /\ terminalRunQueue' = terminalRunQueue \ HostedBy(p)
    /\ ClearTimer(p)
    /\ UNCHANGED <<host, status, journal, executing, blocked, dead, fresh, faults, up,
                   waiting, crashes>>

\* deleteRun(): the generation's lease, or one taken for the deletion, and the
\* revision it has seen, if it has seen one.
DeleteRun(p) ==
    LET g == runs[p] IN
    /\ p \in up
    /\ record.status \in Statuses
    /\ IF g = NoGen THEN LeaseFree ELSE CanSave(g)
    /\ record' = [record EXCEPT !.status = "absent"]
    /\ fresh' = {}
    /\ lock' = NoGen
    /\ leased' = leased \ {g}
    /\ reserved' = reserved \ {g}
    /\ aborting' = aborting \union ({g} \ {NoGen})
    /\ runs' = [runs EXCEPT ![p] = NoGen]
    /\ pausedRunQueue' = pausedRunQueue \ HostedBy(p)
    /\ terminalRunQueue' = terminalRunQueue \ HostedBy(p)
    /\ ClearTimer(p)
    /\ UNCHANGED <<host, status, journal, executing, blocked, dead, faults, up, waiting, crashes>>

\* enforceRetention() and prunePausedRuns() drop a record nobody leases.
Forget(p) ==
    /\ p \in up
    /\ LeaseFree
    /\ \/ record.status \in Terminal
       \/ /\ record.status = "paused"
          /\ runs[p] # NoGen => status[runs[p]] \in Terminal
    /\ record' = [record EXCEPT !.status = "absent"]
    /\ fresh' = {}
    /\ lock' = NoGen
    /\ UNCHANGED <<genVars, leased, reserved, queueVars, faults, up, runs,
                   persistTimers, waiting, crashes>>

----------------------------------------------------------------------------
\* The status executeRun() ends with, for the current generation.
Outcomes(g) ==
    CASE g \notin aborting -> {"completed", "failed", "paused"}
      [] g \in aborting /\ status[g] = "running" -> {"aborted"}
      [] OTHER -> {status[g]}

\* Mutant: the last state is left to the throttled write.
SettleUnwritten(g) ==
    /\ g \in executing
    /\ IsCurrent(g)
    /\ \E s \in Outcomes(g) :
          /\ status' = [status EXCEPT ![g] = s]
          /\ CleanupSettled(g, s)
    /\ executing' = executing \ {g}
    /\ UNCHANGED <<host, journal, aborting, blocked, dead, diskVars, up, runs,
                   persistTimers, waiting, crashes>>

\* executeRun() ends, and with it the promise resume() may be waiting for.  A
\* completion that cannot be written becomes a failure.
Settle(g) ==
    /\ g \in executing
    /\ IsCurrent(g)
    /\ \E s \in Outcomes(g) :
          /\ status' = [status EXCEPT ![g] = s]
          /\ Persist(g, s)
          /\ s = "completed" => g \notin blocked'
          /\ CleanupSettled(g, s)
    /\ executing' = executing \ {g}
    /\ ClearTimer(host[g])
    /\ UNCHANGED <<host, journal, aborting, dead, up, runs, waiting, crashes>>

\* A generation that is no longer in the map only returns its reservation.
SettleStale(g) ==
    /\ g \in executing
    /\ ~IsCurrent(g)
    /\ status' = [status EXCEPT ![g] = IF @ = "running" THEN "aborted" ELSE @]
    /\ executing' = executing \ {g}
    /\ reserved' = reserved \ {g}
    /\ UNCHANGED <<host, journal, aborting, blocked, dead, leased, lock, queueVars,
                   diskVars, up, runs, persistTimers, waiting, crashes>>

\* recordTerminalRun() and recordPausedRun() when the entries of other runs push
\* this run's entry out of the queue.
EvictTerminal(g) ==
    /\ g \in terminalRunQueue
    /\ terminalRunQueue' = terminalRunQueue \ {g}
    /\ LET current == runs[host[g]] IN
       runs' = [runs EXCEPT ![host[g]] =
                    IF current # NoGen /\ status[current] \in Terminal THEN NoGen ELSE @]
    /\ UNCHANGED <<genVars, holdVars, pausedRunQueue, diskVars, up, persistTimers,
                   waiting, crashes>>

\* Mutant: an entry of the queue stands for the run, not for its generation.
EvictPausedByRunId(g) ==
    /\ g \in pausedRunQueue
    /\ pausedRunQueue' = pausedRunQueue \ {g}
    /\ LET current == runs[host[g]] IN
       runs' = [runs EXCEPT ![host[g]] =
                    IF current # NoGen /\ status[current] = "paused" THEN NoGen ELSE @]
    /\ UNCHANGED <<genVars, holdVars, terminalRunQueue, diskVars, up, persistTimers,
                   waiting, crashes>>

EvictPaused(g) ==
    /\ g \in pausedRunQueue
    /\ pausedRunQueue' = pausedRunQueue \ {g}
    /\ runs' = [runs EXCEPT ![host[g]] =
                    IF @ = g /\ status[g] = "paused" /\ g \notin leased THEN NoGen ELSE @]
    /\ UNCHANGED <<genVars, holdVars, terminalRunQueue, diskVars, up, persistTimers,
                   waiting, crashes>>

----------------------------------------------------------------------------
\* A Pi process dies; its lock file stays.
Crash(p) ==
    LET lost == HostedBy(p) IN
    /\ p \in up
    /\ crashes < MaxCrashes
    /\ crashes' = crashes + 1
    /\ up' = up \ {p}
    /\ dead' = dead \union lost
    /\ executing' = executing \ lost
    /\ leased' = leased \ lost
    /\ reserved' = reserved \ lost
    /\ fresh' = fresh \ lost
    /\ runs' = [runs EXCEPT ![p] = NoGen]
    /\ pausedRunQueue' = pausedRunQueue \ lost
    /\ terminalRunQueue' = terminalRunQueue \ lost
    /\ ClearTimer(p)
    /\ waiting' = [c \in Calls |-> IF waiting[c] \in lost THEN NoGen ELSE waiting[c]]
    /\ UNCHANGED <<host, status, journal, aborting, blocked, record, lock, faults>>

\* A new manager: recoverStaleRuns() in its constructor.
Restart(p) ==
    /\ p \notin up
    /\ up' = up \union {p}
    /\ IF record.status = "running" /\ LeaseFree
       THEN \/ record' = [record EXCEPT !.status = "paused"] /\ fresh' = {} /\ UNCHANGED faults
            \/ faults < MaxFaults /\ faults' = faults + 1 /\ UNCHANGED <<record, fresh>>
       ELSE UNCHANGED diskVars
    /\ UNCHANGED <<genVars, holdVars, queueVars, runs, persistTimers, waiting, crashes>>

GenNext ==
    \E g \in Gens :
        \/ Progress(g) \/ Republish(g) \/ AbortOnly(g) \/ Pause(g) \/ Stop(g)
        \/ Settle(g) \/ SettleStale(g) \/ EvictTerminal(g) \/ EvictPaused(g)

ManagerNext ==
    \/ GenNext
    \/ \E p \in Procs : \/ \E g \in Gens : Start(p, g)
                        \/ \E c \in Calls : ResumeWaits(c, p)
                        \/ TimerFires(p) \/ StopOnDisk(p) \/ ResumeAtOnce(p)
                        \/ DeleteRun(p) \/ Forget(p) \/ Crash(p) \/ Restart(p)
    \/ \E c \in Calls : ResumeContinues(c)

\* The drain of workflow.ts ends an execution that is aborted (DrainEnds and
\* DrainExpires of ProviderAttempt); one that is not may run on for ever.  The
\* continuation of an await runs once its promise has settled.
ManagerFairness ==
    /\ \A g \in Gens : WF_managerVars(g \in aborting /\ (Settle(g) \/ SettleStale(g)))
    /\ \A c \in Calls : WF_managerVars(ResumeContinues(c))

ManagerSpec == ManagerInit /\ [][ManagerNext]_managerVars /\ ManagerFairness

----------------------------------------------------------------------------
\* An execution keeps the lease of the run until it has settled, through pause()
\* and stop(), unless deleteRun() has removed the run: no other process can
\* take the run over while provider calls may still be in flight.
ExecutionIsLeased ==
    \A g \in executing :
        record.status # "absent" => g \in leased /\ lock = g

\* Two generations of a run never execute at the same time, in one process or
\* in two, and not after deleteRun() either.
OneExecution ==
    \A g, h \in executing : g = h

\* What one generation leaves in the tables that are keyed by the run's ID does not
\* meet another one.  The map entry of an execution that is running, or paused and
\* still unwinding, is never evicted or replaced: only deleteRun() detaches it.  Its
\* unit of the execution capacity comes back when it settles, whatever became of
\* the entry, and no sooner (but for deleteRun()).  And no timer that an older
\* generation left behind swallows the throttled writes of the current one.
GenerationsKeepApart ==
    /\ \A g \in executing :
          status[g] \in {"running", "paused"} /\ record.status # "absent" => IsCurrent(g)
    /\ reserved \subseteq executing
    /\ record.status # "absent" => executing \subseteq reserved
    /\ \A p \in Procs :
          persistTimers[p] # NoGen /\ runs[p] # NoGen => persistTimers[p] = runs[p]

\* Once its execution has settled, an entry that is not marked as blocked and
\* that nobody has overtaken is on disk as it is in memory, its journal to the
\* last entry: a throttled write that was pending has not been lost.
SettledRecordAgrees ==
    \A g \in fresh \ (executing \union blocked) :
        IsCurrent(g) => record = StateOf(g, status[g])

\* A durable stop or completion is never undone: not by a late result, a stale
\* manager, a retry of the delivery or a resume() in another process.
TerminalIsFinal ==
    [][record.status \in {"completed", "aborted", "absent"}
            => record'.status \in {record.status, "absent"}]_managerVars

\* As long as a run can be resumed no write takes entries out of its journal.
JournalSurvives ==
    [][record.status \in Resumable /\ record'.status \in Resumable
            => record'.journal >= record.journal]_managerVars

\* The managers, their crashes and their lost writes implement the promise of
\* RunLifecycle: the record they publish, and what executes, seen from outside.
Lifecycle == INSTANCE RunLifecycle WITH Generations <- Gens
ImplementsLifecycle == Lifecycle!LifecycleSpec

\* A resume() that waits for the aborted generation to unwind is answered.
ResumeAnswered ==
    \A c \in Calls : waiting[c] # NoGen ~> waiting[c] = NoGen

\* "A stop remains terminal even when its durable publication failed": the
\* manager that stopped a run does not resume it.
StopIsTerminal ==
    [][\A p \in Procs :
            runs[p] # NoGen /\ runs'[p] # runs[p] /\ status[runs[p]] = "aborted"
                => runs'[p] = NoGen]_managerVars

\* "Stale queue entries cannot evict a resumed live generation": what executes
\* and owns the lease is in the map, so that its end releases the lease.
EvictionSparesExecutions ==
    \A g \in executing \intersect leased : IsCurrent(g)

==============================================================================
