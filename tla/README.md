# Verification of pi-dynamic-workflows

TLA+ specifications of the workflow engine in `src/src` and of its extension host
`src/extensions/workflow.ts`, the TLC configurations that check them on small
instances, and proofs, checked by TLAPS, of what holds on every instance.

The extension lets an agent write a script that fans out to subagents
(`agent()`, `parallel()`, `pipeline()`, `workflow()`), runs it in the background,
pauses, resumes, stops and recovers it, and delivers its results to the session
that started it. Several Pi processes may share one project directory.

## Inventory

| Component | State | Operations | What is hard | What makes it correct |
|---|---|---|---|---|
| **Run manager** `workflow-manager.ts` | `runs`, one `ManagedRun` (generation) per run id with status, journal, controller, lease, reservation, revision; queues of paused and terminal entries; persist timers | `startInBackground`, `runSync`, `executeRun`, `pause`, `resume`, `stop`, `deleteRun`, recovery, eviction | a provider result after pause or stop; `resume()` awaits the old execution; queues and timers of older generations; failed writes; crash and recovery beside another process | one execution at a time; final statuses are final; the journal is not lost |
| **Run lease and record** `run-persistence.ts`, `fs-persistence.ts` | lock file (pid, nonce, token), record with a revision, backup, legacy file | acquire, release, save, load, delete, retention, prune | every file operation is a system call of its own; a crash between any two; takeover of a dead process's lock; an unlink that fails | exclusive lease, no lost update, no old record that comes back |
| **Resource coordinator** `workflow-resource-coordinator.ts` | permits, FIFO of waiters, execution reservations, late-attempt records | acquire, release, pump, cancel, reserve, register, mark, retire | grant and cancellation of the same waiter; a release inside an abort listener | limits, no idle permit, order of arrival |
| **Agent attempts** `workflow.ts` (`agentImpl`, `withTimeout`, drain) | per call: the awaited call, the provider promise, the permit, the record; per run: admission and abort | wait, launch, time out, abort, settle; close admission, drain | the provider outlives the call; state checked before an await and used after it | a permit is held exactly while it is in use; nothing starts after closing |
| **Journal and replay** `workflow.ts` | call counter, journal, replay prefix | lookup, first miss, append | the order in which calls take their index under `pipeline()` | a replay returns what the first run returned, to the same calls |
| **Ordered store commits** `workflow.ts`, `shared-store.ts` | store, delta windows, version chains, pending deltas | open, commit, discard, `put` with quotas, rollback | a delta that settles late holds up later ones; windows committed and rolled back in any order over the same key | commits in the order of the calls; a rollback takes back its own writes and no other |
| **Limiter, budgets, fan-out** `workflow.ts` | slots, reserved calls, tokens, cache-warm gate | acquire slot, reserve batch, charge | a fan-out that is cancelled while its calls wait; an owner of the gate that fails; usage that arrives after a timeout | no deadlock, no idle slot, every attempt that its call has judged is charged once |
| **Delivery outbox and bridge** `workflow-manager.ts`, `extensions/workflow.ts` | outbox entries with generation and phase, one bridge per session | enqueue, submit, project, acknowledge, redeliver, wake | crash or session change between phases; Esc; compaction; entries of an older generation | a delivery is not lost, not shown twice, and read in the end |
| **Usage-limit scheduler** `usage-limit-scheduler.ts` | armed timers, attempts, durable pause reason | arm, fire, cancel, exhaust | a timer against a manual resume, stop or restart | at most the allowed attempts in one process, never a run that was stopped |
| **Agent team** `agent-team.ts` | members, tasks, inboxes, spawn quota | claim, complete, send, spawn, commit and roll back | late callbacks of older attempts, a batch refused half-way | a failed member holds no task, quotas are held by somebody |
| **Worktree isolation** `worktree.ts` | checkout, branch, marker, sidecar, claim, tombstone | create, remove, reap | a crash or a failing command between any two git commands | no live checkout is reaped, and a cleanup that failed stays known while its process lives |
| **Subagent session** `agent.ts` | resource loader, SDK session, prompts | run, retry for the schema, abort, clean up | timeouts and aborts while it waits at the gate | nobody waits at the gate for good |
| **Extension host** `extensions/workflow.ts`, `extension-reload.ts` | the manager of the session, the process-wide slot | load, `session_start`, `session_shutdown`, adoption | a session replaced by another version, another project, or after the slot's time limit | no run goes on that nobody can reach |
| **Control, steering and output tools** `workflow-control-tool.ts`, `workflow-agent-output-source.ts` | cursor, waits, steering queues | wait for outputs, steer, deliver explicitly | the tool and the bridge compete for the same record | each result is handed over once |
| **Navigator and panels** `workflow-ui.ts`, `task-panel.ts` | stack of views, cursor, redraw timer; cache of results | keys, redraws, delivery of results without a bridge | lists change under the cursor; a redraw that is pending while the view changes | what an agent does gets onto the screen; every generation gets every result |
| **Script parsing and sandbox, authoring support, builtin workflows and settings** | texts | | | not modelled, see below |

### How they interact

* A **manager** takes a **lease**, makes a generation with an execution
  reservation from the **coordinator**, publishes it in `runs`, writes the record
  and calls `executeRun()`, which runs the script in the **engine**.
* The engine's **attempts** wait for permits of the coordinator, which all runs of
  a process share. A provider promise that outlives its call keeps its permit
  and its record in the late-attempt registry. Inside the attempt a **session** waits at
  the cache-warm gate, sends prompts, and may work in a **worktree** and for a **team**.
* Events of the engine come back as callbacks (`onAgentJournal` ...). They change the
  `ManagedRun` and arm a timer that writes it.
* `pause()` and `stop()` abort the controller and return at once. The execution
  unwinds later: the drain of the engine bounds how long.
* What a run has to say goes into the **outbox** of its record. The **bridge** of the
  session, or the **tool** that waits for outputs, takes it from there.
* When Pi replaces the session in one process, the **host** hands the manager over
  through a process-wide slot, or stops its runs.
* Processes interact only through the lock file, the record and the git repository.

## Modules

| Module | What it models | Instance |
|---|---|---|
| `ProviderPermits` | the provider permits of `WorkflowResourceCoordinator` and their queue | `MCCoordination` |
| `ProviderAttempt` | `agentImpl()`'s attempts, composed with `ProviderPermits` (EXTENDS) and shown to use it as specified | `MCAgents` |
| `AgentSession` | `WorkflowAgent.run()` with its loader, gate, prompts, timeouts | `MCAgents` |
| `Navigator` | the stack of views, keys, delayed redraws | `MCAgents` |
| `RunLease` | lock file and record, system call by system call | `MCCoordination`, takeover by itself |
| `UsageLimitScheduler` | the scheduler with its manager as environment | `MCCoordination` |
| `RunManager` | one run under the managers of several processes | by itself |
| `RunLifecycle` | abstract: what a run promises whoever watches its record | refined by `RunManager` |
| `WorkflowRuntime` | one run of the engine and its executions: indexes, journal, replay, limiter, commits | `MCRuntime`, `MCRuntimeStale` |
| `StoreData`, `SharedStore` | contents, deltas and quotas; the store with windows and version chains | `MCRuntime` |
| `DeliveryBridge` | outbox and bridge of a session | `MCBridge` |
| `Counting` | sums over a set, as sizes of sets; used by `AgentTeam` and `TokenAccounts` | |
| `AgentTeam`, `Worktrees`, `RecordFiles`, `RunOutputs`, `TokenAccounts`, `SessionHandoff`, `ResultDelivery` | team, checkout, files of a record, outputs and steering, spending, hand-over, results without a bridge | `MCParts` |
| `...Proofs` | theorems and their proofs | |

Definitions commented "Mutant" are plausible slips of the definition that follows
them. They are not part of any specification: each is there to show that a property
notices it when it takes the place of the original.

`MCCoordination`, `MCAgents`, `MCRuntime` and `MCParts` put components side by side that do
not touch one another. A behaviour is one of a single part: the variable `part` is chosen
at the start and the variables of the other parts stay at one value. What such a run
shows is what a run of each part would show.

### ProviderPermits, ProviderAttempt

An element of `Attempts` is one call of `acquireProvider()`, its `Waiter` and its
token. The array `waiters` is kept as a set with the predecessors of each
element, so `splice()` and `shift()` are set differences. `RefuseAborted`, `GrantAtOnce`,
`RefuseFull`, `Enqueue` are the ways `acquireProvider()` returns; `Release` is the closure of
`grant()` with the whole loop of `pump()`; `AbortSignals` is an abort and its listeners,
which may run apart.

In `ProviderAttempt`, `logical` is the awaited call, `provider` the promise of
`agentRunner.run()`, `registry` and `marked` the late-attempt records. Each stretch of
`agentImpl()` between two awaits is one action: `Begin` (asks for the permit), `GiveUp`,
`TurnBack`, `LaunchThrows`, `Launch` (after the await of the permit), `ProviderSettles` (the
`finally`), `LogicalResult`, `LogicalTimesOut`, `LogicalAborts`. `CloseAdmission`, `AbortRun`,
`DrainEnds`, `DrainExpires` are the run's. A retry is one more attempt.

### AgentSession

A session is an attempt with a signal of its own. It loads the shared resources, opens
the SDK session, becomes the owner of the `CacheWarmGate` or waits there, prompts (again if
its schema is not met), and cleans up. An owner that fails hands the gate over.

### RunLease, RecordFiles

In `RunLease` a program counter per process stands between the system calls of
`acquireRunLease()` (`Link`, `LinkFails`, `Exists`, `ReadLock`, `Unlink`, two rounds), of
`releaseRunLease()` (`ReadOwn`, `UnlinkOwn`) and of `save()` (`CheckOwn`, `ReadRecord`,
`Rename`). `Crash` may happen at any of them and leaves the files as they are.

`RecordFiles` has the record, its backup and the legacy file, and the steps of saving,
deleting, sweeping and pruning over them. Taking the lock is one step here. A death amid
a deletion counts as a fault, damage is found when nobody is in the middle of a save or a
deletion, and which runs pruning selects is a choice (its second look at the status is
kept). The caches of `list()` are left out.

### RunManager, RunLifecycle

A generation is one `ManagedRun`. `executing` is `executionSettled = false`, `fresh` the
generations whose revision is the one on disk. A write (`Written`, `NotWritten`) goes
through only with the generation's own lease or one taken for the write, and the
right revision, and may fail besides. `Settle` is the whole tail of `executeRun()`:
outcome, last write, `cleanupSettledGeneration()`; `SettleStale` the same for an entry
that is no longer in the map. `ResumeWaits` and `ResumeContinues` are the two
sides of the await in `resume()`. Simplifications:

* taking the lease is one step (`RunLease` has the steps; the takeover it finds broken
  is excluded here), and so is a deletion;
* the lock of a dead process counts as none;
* the entries of other runs in the queues are only what may evict this one's at any time;
* reservations are a set without a limit: want of capacity is a refusal that may
  happen to `ResumeContinues`, and a start that is refused does nothing;
* a usage limit is one of the ways an execution ends paused;
* every process may act on the run: which session owns it is not modelled.

`RunLifecycle` has only `record` and `executing`. Pause, stop and throttled writes of what
executes are `Checkpoint`, the end of an execution and a crash are `End`, writes after the
end, stops on disk and recovery are `Amend`, deletion and retention are `Remove`.

### WorkflowRuntime, SharedStore

The script is a fan-out: a lane is an item of `pipeline()` or a thunk of `parallel()` and
makes its calls one after the other, each with the result of the one before in its prompt;
a lane may be a nested `workflow()`, a stage a `checkpoint()`. A call takes its index and its
place among the commits when it starts, is replayed or waits for the limiter, and leaves in
three microtasks. An execution may be interrupted at any point; the next one has its journal
and perhaps another script. A nested workflow takes its part of the journal once, when it starts
(`ChildJournal`), whatever becomes of its parent's prefix later; a call that goes over the limit of
agents takes an index (`Breach`), a checkpoint over it takes none.

In `SharedStore` a version chain is the sequence of its write nodes on the value of its
baseline. `written` is a history variable: the log of all writes that were ever made.

### DeliveryBridge, ResultDelivery

The bridge is a record and a handler a function on it; where a write or a send may fail, a
handler has a set of outcomes. One action is one event of the host, or one timer, with
the microtasks it leaves behind. Left out: the priority of a waiting output tool, the rotation
cursor, notices of review, the eviction of the ledger that drops duplicates, limits of queues,
formats, and the deletion of runs. `AdmitPage` cuts a request's share of bodies to a page and defers
the wake-up for what is over. A session that starts in the same process is one of the same session
file (a reload); `/new`, `/resume` and `fork`, which bring another file, are not modelled. Of the history
variables, `overlooked` has the deliveries that were shown on other branches only when a session
started, and `twice` those that a branch shows again. `MaxTries`, `Budgets` bound the trouble of a behaviour.

`ResultDelivery` is the same task without an extension: results are submitted, cached while
that fails, and rebuilt from the records. `TrySend` is one pass of the loop of `flushPending()`, `NextBatch`
and `PumpStops` are the loop of `resumeResultDelivery()` around it. The code runs them without a pause:
while `todo` or `pump` say that one is under way, only the death of the process comes between
(`Idle`). `pumped`, `given` and `turnedDown` are history variables. Left out: the texts, the
context bridge, which records a manager cannot list.

### RunOutputs

Everything between two awaits is one step, so an event reaches a waiting tool within the
step that emits it. The bridge is the one step `Show`, which needs a durable "submitted". Calls
start in order and a resume whose first write fails is left out. When the record of a completion
cannot be written, `ReplaceTerminal` puts a failure with a new id in its place; a deletion that
is refused after it has aborted the run (`DeletionRefused`) leaves an execution that ends by
itself (`Unwinds`). `handed` is a history variable. `silent` is
the state in which a pause, stop or end could not be written; `overtaken` are the results whose
record is dropped since the call has an older one (both are explained under *Observations*).

### SessionHandoff

Projects, versions of the extension, managers and sessions. `staged` is the process-wide slot;
its 30 s timer is a choice while something is staged. An unknown reason of a shutdown is the
same as quitting. Configuration, effort and the notice of paused runs are left out.

### AgentTeam, Worktrees

A member is used by several calls, each with several attempts; every attempt takes the next
generation of the member. `TeamMail` and `TeamBoard` parts of the run look at inboxes and
at tasks separately: the two share no state but the members. A member id that a script asks for
is never of the generated form.

A checkout's name is made of run, generation, call index and label, so only its maker and
the reapers meet over it. Every git command and every write is a step, and a process may die
between any two; ages of five minutes are a choice, made once the writer is dead. The two
consecutive checks of ownership are one step. A `worktree add` that fails, or is killed at its time
limit, may leave any of branch, registration and directory (`AddFails`); `GiveUp` then takes the
marker away, as the code does.

### TokenAccounts

`account` has the `AttemptAccounting` of every attempt. Attempts that were never launched are
charged an estimate, as in the code. The budget of a phase and calls that outlive the grace period
of the drain are left out. What an attempt owes, `Due`, is told from the state of its call and from what
its provider has reported, without a look at what was charged. An attempt that was aborted owes
what was reported before the abort: `accountWhenUsageArrives` has no effect, since an abort closes
admission first (see *Observations*).

### UsageLimitScheduler

The manager is the environment. A step that begins with a timer, a user or a provider is
a macrotask and waits until the microtasks of the one before have run; a restart may fall
anywhere. `managed` are the runs this process has in memory. Reads of the listing or of a record and
writes of the counter may fail at any time: with an unreadable listing the scheduler forgets the run, with
an unreadable record it does not arm (`leftOut`). `Rewritten` is any write of the record by the manager,
as for an acknowledged notice: `persistedStateFor()` does not copy the counter. Several processes
that schedule the same run are not modelled.

### Navigator

A stack of views over runs that come, go and change their place while it is open. A run has
one phase, a history entry is a block of the detail; rendering is what a view depends on. The
saved items are different, and what goes from a list is one item of it (`RemoveAt`). A run is running,
paused or failed, as far as keys tell statuses apart; "pending" stands with "failed". Stop accepts
running and paused runs, resume paused and failed ones, and the manager may refuse either.

## Runs

Every run finishes within about two minutes. The bounds are chosen so that the cases named
in the last column happen; where a larger instance was tried by hand, it is mentioned.

| Run | Bounds | Why they are enough |
|---|---|---|
| `coordination` | 5 attempts with 4 signals (two attempts share one), 2 permits, 2 places in the queue; 2 processes, 1 crash, 3 revisions; 2 limited runs, 2 limits each, 1 attempt, 1 timer at a time, 1 restart | a full queue, an abort of several waiters at once, a release amid an abort; every pair of system calls of two processes; a run exhausted and one that resumes. 3 runs, one opted out: by hand |
| `agents` | 3 attempts of 2 runs, 2 permits, 1 place, 1 record; 3 sessions, one with a schema, 1 retry, 1 timeout; navigator over 2 runs, 1 agent, 1 saved item | a queued attempt beside two overrunning ones, a full registry; an owner of the gate that fails with two waiting |
| `manager` | 2 processes, 2 generations, 1 waiting resume, 2 faults, 1 crash | an old and a new generation, a failed write in pause or stop and in the tail of the execution, recovery by the other process |
| `runtime` | 3 lanes with up to 2 stages, one nested; 2 scripts, 2 executions, 2 slots, 4 agents; store with 2 keys, 2 windows, 3 writes, 2 keys / 3 bytes of quota | lanes take turns and overtake each other; a resume in the middle of a fan-out; two windows commit and roll back in each order over one key |
| `session` | 2 deliveries (one the end of a run), 1 try each, budgets of trouble in `MCBudgets` | a failed send with a timeout and an Esc; compaction or change of the branch before and after a reload; reload and restart |
| `parts` | team: 2 members of the run and 1 of another, 2 calls with 1 retry, 1 task, 1 message; checkout: 2 reapers, 2 faults; record: 2 processes, 3 revisions, 1 fault, a legacy file; outputs: 2 calls, 2 results, 2 generations, 1 fault; accounts: 2 calls, 1 retry, 2 executions, budget 3; hand-over: 3 managers, 3 sessions, 2 projects, 2 versions, 1 run; results: 4, one a notice, 1 failure, 1 restart | each part has the two or three actors its hazards need; 4 revisions, 3 record processes, 2 and 3 faults of the outputs, 2 entries in the cache of results with 2 failures: by hand |
| `takeover` | 3 processes, 1 crash | two survivors of a dead owner |
| `stop_resume`, `eviction` | 1 process, 2 generations, 2 faults | an entry that is stopped, or resumed, behind an await |
| `stale_replay` | 2 lanes with 1 call each, 3 executions | edit, interruption, resume |
| `generation_loss` | 2 deliveries, a reload and a restart | the second process counts its bindings from the start |
| `shown_twice` | 2 deliveries, 1 fault, 2 changes of the branch, 1 reload | the user leaves the branch, the extension is reloaded, the user goes back |

`CHECK_DEADLOCK FALSE` is given where a behaviour ends when its bounded work is done; that
what has begun goes on to its end is what the liveness properties say. In
`parts`, `PlainAgent`, `BatchSettles` and `CloseTeamAdmission` happen only with the board; in
the outputs pause and stop by hand and refused deletions happen only in the first generation, and a behaviour
has two results, or one and a failed write; interchangeable members and calls come in one order.

What the passing runs check beyond types:

* **Waiting.** A call of the coordinator is granted in order of arrival and answered in the
  end; nobody waits at the gate for good; every `resume()` is answered; an aborted call ends
  whatever its host does; a lock of a dead process yields; a paused run that hit a limit is
  resumed or given up, unless a failed read or a full table of timers left it alone.
* **Runs.** Executions hold the lease; a final status and the journal survive crashes, late
  settlements, stale queue entries and two processes; the record of a settled generation
  agrees with memory; the managers implement `RunLifecycle`.
* **Engine.** The replayed calls are a prefix, commits come in order of the calls, the store
  is what the log of surviving writes says, a run ends.
* **Results.** Nothing is lost, nothing is pushed in after Esc, nothing is shown twice but for what
  a session overlooked when it started (see the run `shown_twice`); what is claimed stays
  reachable; waiting tools are released; each generation without a bridge gets every result.
* **Housekeeping.** Quotas are held by somebody, failed members hold no claim of their last
  attempt, no live checkout is taken, a failed cleanup is known while its process lives, no record is
  lost or comes back, judged attempts are charged once, with what was reported or an estimate, no run
  is left behind by a reload.

## Fairness

Fairness is assumed of what the JavaScript runtime does by itself, never of hosts,
providers, users or file systems:

* `ProviderPermits`: a permit that was granted is given back, and the listeners of an
  abort run. In `ProviderAttempt`, where the first of these is the host's business, only
  continuations after an await and timers are fair; nothing is assumed of `ProviderSettles`.
* `RunLease`: a living process makes its next system call.
* `RunManager`: an aborted execution ends (the drain of the engine bounds it), and the
  continuation after the await of `resume()` runs.
* `AgentSession`: loading, opening a session and each prompt end: with an answer, an
  error, or the abort that a timeout causes.
* `WorkflowRuntime`: while an agent can answer or a microtask can run, one does; which, is
  not said (an agent's call is bounded by its timeout).
* `UsageLimitScheduler`: a session is bound again and again, its timers fire (strong
  fairness, since a run may be paused and resumed by hand meanwhile), writes of attempts
  end, and a resume that is tried again and again goes through at some time.
* `DeliveryBridge`: the host goes on with what it does, the runs of the session end, a start
  ends, a retry timer fires, and the user has more to ask (`UserInput`).

## Findings

Six runs expect a violation. Each states what the repository says of itself.

| Run | Property | What happens |
|---|---|---|
| `takeover` | `LeaseExclusive` | Two survivors read the lock of the same dead process; the second unlinks the lock that the first has just taken (`run-persistence.ts` 759-763). With one survivor, or without a crash, the lease is exclusive (theorem `LeaseHolds`). |
| `stop_resume` | `StopIsTerminal` | A `resume()` that waits while `stop()` changes the status only compares the entry's identity afterwards (`workflow-manager.ts` 2353). If the write of `aborted` failed, the stopped run starts again. |
| `eviction` | `EvictionSparesExecutions` | An old queue entry evicts a resumed generation that is stopped and still unwinds (2059): its lease stays until the process ends. |
| `stale_replay` | `NoStaleReplay` | The journal keeps the entries behind a miss (2536). Edit, interruption and resume give a result from before the edit to a call behind the edited one. |
| `generation_loss` | `RecordsAreReplayable` | A bridge counts its generations from 0 in each process; records that were submitted in a later generation are refused by `acknowledgeDelivery()` and hold up those behind them. |
| `shown_twice` | `NoSecondCopy` | `session_start` makes `canonicalHistoryIds` from the active branch alone (`extensions/workflow.ts` 4057). A delivery is shown, the user leaves its branch, the extension is reloaded, the user goes back: the passive flush appends a second copy, against "Never append a second visible copy for a phase retry" (1410-1413). |

## Observations

What modelling, failed invariants and hand-made instances showed besides. No run states
these: either nothing in the repository promises otherwise, or the case needs more faults than
a run has room for.

* **Outputs.** When `pause()` or `stop()` cannot write, it emits nothing; the tail of `executeRun()`
  takes it that "pause()/stop() already emitted" and may then write the status without a word. A
  tool that waits for that run waits on. The same for a pause by a usage limit and for an end
  whose two writes failed. `WaitsAreReleased` excepts this as `silent`.
* **Outbox after a resume.** Call ids are `runId:index` in every generation. A result that is made
  anew after a resume is claimed, but the outbox has an unacknowledged record of the same id, and
  the new message is dropped. `ResultsStayReachable` excepts this as `overtaken`. In the same way
  the end of a resumed run is not announced while the failure of the generation before is
  unacknowledged (`workflow-manager.ts` 1178, in contrast to the comment at 1206-1209).
* **Steering.** A message aimed at an agent between the end of a timed-out attempt and the session of
  its retry goes to the session that is being given up; a message taken by a prompt that
  is refused as too long is gone. A tool may miss the wake-up of `notifyInbox()`.
* **Late ends.** A session that ends late turns a member whose last attempt timed out from
  "failed" into "done" (`workflow.ts` 1902, 2031-2033; `agent-team.ts` about 195).
* **Bridge.** A flush with nothing pending cancels the retry timer of a parked acknowledgement
  (`extensions/workflow.ts` 1194; comments at 1211-1216 and 1271-1274 say otherwise); the latch of a
  wake-up may stay set (2034-2040 against 2117-2125).
* **Scheduler.** A listing that cannot be read, or does not have the run, counts as "no longer paused"
  (`usage-limit-scheduler.ts` 459-463, 482-490): a run that a limit has paused is forgotten and waits
  for the next start of the process. So does one whose record cannot be loaded (289-290). The counter of attempts
  goes with the next write of the record by the manager (`persistedStateFor()`, `workflow-manager.ts` 2193-2258),
  in particular when the notice of the pause is acknowledged: after a restart the cap starts anew.
  `LimitPausesEnd` excepts both as `leftOut`; `AttemptsAreCapped` speaks of one process.
* **Accounts.** The usage of an aborted attempt that is reported after the abort is dropped (`workflow.ts`
  1852-1855): `accountWhenUsageArrives` (1869, 1994) is set when admission has closed already. 1989-1991 wants
  confirmed usage kept "so pause/resume cannot under-enforce the cumulative token budget", and 2986-2987
  includes what is "recorded during unwinding". `SpendingIsAccounted` therefore says of an
  aborted attempt only that what had been reported before is charged.
* **Store.** `applyDelta()` over the quota applies some of a delta, where the comment at
  about 1003-1013 says it is dropped.
* **Checkouts.** A crash between `branch -m` and `branch -D`, or with the directory set aside, leaves a
  tombstone branch or a `.pi-cleanup-` directory that no reaper looks for (against `worktree.ts` about
  196-199). A `worktree add` that fails or is killed at its time limit
  loses its marker although artefacts may remain (165-171). `FailedCleanupIsKnown` therefore speaks of checkouts
  that were made, or whose creation is rolled back, while their process lives; "A failed cleanup must remain
  discoverable" (190-194) is wider than that. `isRegisteredWorktree()` matches a substring, so
  the path set aside counts as home.
* **Team.** Two concurrent calls of one member share its claims: while the other one goes on, the failure of
  one releases nothing (`agent-team.ts` 234).
* **Records.** With a `legacy.bak` one failed unlink of it loses `NewestOrGone`: the owner of
  the deletion keeps its lease but load() now gives the old backup (against `run-persistence.ts` 980-981).
  A failed write of the backup followed by a failed unlink of it brings an older revision back. `list()`
  does not see a lone backup that `load()` reads.
* **Hand-over.** A `resume()` that was called before the hand-over and is still waiting starts its run in a
  manager that `pauseStrandedWorkflowRuntime()` has already gone through. `NoRunStranded` excepts it.
* **Navigator.** Keys go to a position: if the list changes between the last frame and the key,
  another run or saved item is hit. Nothing promises otherwise.
* **Results without a bridge.** A rejection that arrives late may send a record again that was
  already sent again in the new generation. A notice that fails once when a resume flushes, and fills
  the cache with others like it, goes out with the first batch; that batch submits no record, so the
  pump stops for want of progress and leaves the outbox alone until the next session. After a restart the
  holder counts its generations from 0, and `acknowledgeDelivery()` refuses the records of a
  later one. `EachGenerationHasAll` excepts both: in neither has the resume gone to its end.

## Proofs

TLC checks the instances above; the theorems hold for any number of attempts, runs,
processes, lanes, windows, members and so on, under the assumptions each module states on
its constants (`...Assumption`), which TLC evaluates in every run. What each theorem names beyond
them is said below. Invariants were first checked by TLC on
small instances.

**`CoordinationProofs`.**
* `PermitInv`: the queue is totally ordered by arrival (`QueueOrdered`), a permit idles only if
  nobody waits, and the answers agree with the sets. Order is needed because `pump()` serves a prefix of
  the queue. `PermitsInOrder` follows step by step.
* `AttemptInv`: where the permit of each attempt is at each of its stations; from it come the
  accounting (`PermitsInUse`), the marks of overruns, that nothing starts after closing, and that every
  step of the attempts is a step of `ProviderPermits` or none (`AttemptsUsePermits`, the refinement
  without fairness).
* `LeaseInv`: at every system call of a process, what the lock must be. It holds under
  `NoContendedTakeover`: nobody dies, or there are at most two processes. Without it the lease is not
  exclusive (run `takeover`). `UpdatesSurvive` rests on it: whoever stands between the check of its lock
  and the rename is the only one there.
* `SchedulerInv` ties the timers, the pending resumes and the microtasks of each run to its status, whatever
  reads and writes of records fail. The cap (`AttemptsCapped`) is that of one process: the resumes are
  counted from its start or from the last resume by hand.
* `GateInv`: who waits at the gate is there once and has no answer yet; while the gate is claimed and
  cold there is an owner, still before its first answer, and never two; nobody waits otherwise
  (`GateIsOwned`). The array of waiters must have no duplicates, so much of the work is what `push`, `shift`
  and `splice` do to such an array. Any number of sessions, timeouts and aborts.
* `NavigatorInv`: every frame of the stack is one that a view can have, with the lists at the
  bottom; a redraw leaves nothing behind, so the detail shows no more than the history has. `ScreenFollows`
  (`ActivityIsShown`) holds for any runs, agents, history and keys.

**`RunManagerProofs`.** `ManagerInv`: an execution has the lock, so whoever could take the lease finds
nothing executing; a generation knows its revision if it is in `fresh`; an aborted one is on
its way out. Every step then writes only through the generation that executes, or writes while none
does, which is what `TerminalIsFinal`, `JournalSurvives` and the steps of `RunLifecycle` need. `TablesInv`
has the queues, timers and counters.

**`WorkflowRuntimeProofs`.** `RuntimeInv` has five parts: types; the replayed calls of each
frame are a prefix, those of a nested one of the journal it took when it started, and no later call
hits it; a slot is in use or nobody waits; the
commits are those below `nextStoreOrder`, in order; and what is in flight has an order of its own that
is not settled. The last one shows that the throw on a duplicate order, and the early return for an order
that has passed, never happen.

**`SharedStoreProofs`.** The nodes of a version chain stand for positions of the log, in
increasing order, behind a base; a surviving write behind the base that has no node is
covered by a later one of its window; the value of the base is that of the last surviving write that
nothing can take back; what the map shows is the head; a delta has the last writes of its window. With
that, resolving the chain gives what the log without rolled-back writes gives, whatever the
windows, keys, commits and rollbacks. Positions are compared as numbers, so the proof uses least
elements of sets of numbers instead of induction over the chain.

**`TeamProofs`.** Sums are cardinalities of sets of units (`Counting`), so the lemmas at
the top, on what one more or one fewer element does to a sum, come from the library's theorems on
finite sets. `TeamInv`: an absent task is nobody's, a batch is that of a call that has begun, and a call
that has begun is of a registered member. `AccountInv`: what is charged to an attempt is what
`Due` says from its call and its reports (`JudgedAreCharged`), and it is told only when it is accounted and
over; while a call goes on, its current attempt is uncharged and the later ones are new. Assumed:
finitely many calls, and at least one try for each.

**`PartsProofs`.**
* `TreesInv`: until its removal is asked for, the maker alone works on a checkout unless it has
  died before it was finished; if the marker is left it says "creating", by a maker that is alive, and
  `Healthy` spares it. `KnownInv` goes on from there to the removal: while the maker lives, whoever works on
  the checkout leaves the marker until nothing is left or everything is whole (`CleanupIsKnown`). Any number
  of reapers, deaths and failing commands.
* `HandoffInv`: who refers to a manager refers to one that was made and listens; a manager is not staged and
  loaded at once; only the manager of the bound session hands results on; those that are
  pending belong to runs of the manager that has them. Any number of everything.
* `SweepInv`: whoever is past its listing has the lease, and a sweep about to unlink has seen, under
  it, the status it was after. `SweepsSpare` holds for any number of processes and faults.
* `FilesInv`: until something has failed there is a second copy (backup or legacy file) as new as
  the last save that returned, a deletion takes it last, and only the primary file is
  ever torn. So a single fault leaves something new enough, or nothing after a deletion. `NewestStays` assumes
  `OneFault`: one fault at most, and no `legacy.bak`; both are needed (see *Observations*).

**`RunOutputsProofs`.** `OutputInv`: what is remembered of a result is of one that was made;
ids of deliveries are not used again; the record of a result has one id, and if the result
was handed over that id is among the shown ones; every result of the journal is reachable, in
memory through the outbox and on disk through the outbox on disk; the disk lags behind only if a
write failed silently; the outbox keeps a place for the end.

`DeliveryInv`, of `ResultDelivery`: a result is once in the cache or among what is being submitted, never in
both; what waits, or was never submitted, has been turned down as often as it was given to the host;
once a resume has gone to its end every result is submitted, waiting or under way; and the loop of a resume
that has met no failure submits in every batch something new, so it stops only when the
outbox has nothing left. The last conjunct is what makes `GenerationsHaveAll` inductive: without it the
loop might stop for want of progress. Any number of results, any size of the cache, any share of a
generation.

**`BridgeProofs`.** A handler is a function on the bridge, so each has a lemma on which fields
it changes, and how (`Flushes`, `Recovers`, `Projects`, `Consumed` ...); the steps of the invariant
cite those and never the handlers. `BridgeInv` has four parts:
* `Recorded`: what the bridge knows of has a record or is delivered; a record goes only for what is read.
* `Awaited`: what a request projects or includes awaits its acknowledgement; parked acknowledgements are
  apart from those.
* `Placed`: records have a place in the order of arrival; those that were answered for are delivered or
  parked; those that had arrived at the last Esc are behind its cutoff.
* `Ties`: the bridge against the host's run, so that a late answer finds nothing to account for.

Every handler ends in a flush, and a flush keeps the invariant whatever it was given. `NothingLost`,
`RequestsAwait` and `WakesForNews` follow for any number of deliveries and budgets of trouble.
`NothingIsShownTwice` adds `Shown`: what has an entry on some branch is known as canonical, or was
`overlooked` by a session that started (`Overlooks`). It holds in any mixture of changes of the branch, reloads,
restarts and faults; what the exception costs is the finding `shown_twice`.

### Only model-checked

* **Liveness** is out of reach of the prover: `EveryWaiterAnswered`, `DeadLockYields`,
  `LimitPausesEnd`, `AbortEndsCalls`, `GateLetsGo`, `ResumeAnswered`, `RunEnds`, `AllAreRead`.
* `NoLostUpdate` and `NewestOrGone` are proved under the conditions named above, outside which they fail.

Some invariants are proved and not run as properties, since no plausible slip of one
definition breaks them or another property notices it first: type invariants, `AnswersAgree`,
`NoIdlePermit`, `WithinLimits`, `PermitsInUse`, `ProvidersWithinLimit`, `NoStartAfterClose`, `OneExecution`,
`AttemptsAreCapped`, `SlotsInUse`, `OutboxFits`, `NothingLingers`, `GateHasOwner`.

## Not modelled

* Parsing, the static gates and the sandbox of scripts, model resolution, the settings,
  the authoring support and builtin workflows: functions of a text or of a file, without
  state that anything else races with.
* Rendering, notices, wording, the tool wiring of subagents, web tools.
* The scheduler in several processes, the rotation of the bridge's cursor, the eviction of its
  duplicate ledger, the per-phase token budget, and what else the sections on the modules name.
