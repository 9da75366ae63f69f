------------------------------ MODULE SessionHandoff ------------------------------
(* The hand-over of a live run manager from one generation of the extension to the      *)
(* next when Pi replaces the session in the same process: /reload, /new, resume and      *)
(* fork.  extensions/workflow.ts (the factory, session_shutdown and session_start),      *)
(* src/extension-reload.ts (the process-wide slot with its time limit) and the cache of   *)
(* results in src/task-panel.ts.  The bridge behind that cache is DeliveryBridge.         *)
EXTENDS Integers, FiniteSets, Sequences

CONSTANTS
    Projects,      \* directories of projects
    LaunchDir,     \* process.cwd()
    Versions,      \* versions of the package a factory may be loaded from
    WorkRuns,      \* runs
    MaxManagers, MaxSessions,  \* bounds: managers made and sessions started by a process
    NoOne         \* no manager, no session

ASSUME HandoffAssumption == LaunchDir \in Projects /\ NoOne \notin Nat

VARIABLES
    managers,   \* the managers made so far: project, bound session, result cache
    work,       \* what the managers hold of each run
    slot,       \* the staged manager with its version; while taken, its timer runs
    extension,  \* the manager and the version of the loaded generation
    window,     \* of Pi: its phase, project of the next session, sessions so far
    sent        \* the session in which the bridge was given the result of a run
handoffVars == <<managers, work, slot, extension, window, sent>>

NewManager(p) ==
    [project |-> p, session |-> NoOne, suspended |-> FALSE, pending |-> {}, listening |-> TRUE]

HandoffInit ==
    /\ managers = <<>>
    /\ work = [r \in WorkRuns |-> [manager |-> NoOne, status |-> "none", session |-> NoOne,
                                  resuming |-> FALSE, overtaken |-> FALSE]]
    /\ slot = [manager |-> NoOne, version |-> NoOne]
    /\ extension = [manager |-> NoOne, version |-> NoOne]
    /\ window \in [phase : {"replacing"}, project : Projects, sessions : {0}]
    /\ sent = [r \in WorkRuns |-> NoOne]

EmptySlot == [manager |-> NoOne, version |-> NoOne]

\* pauseStrandedWorkflowRuntime(): every running run in memory, whatever its session.
PauseStranded(m, rs) ==
    [r \in WorkRuns |-> IF rs[r].manager = m /\ rs[r].status = "running"
                        THEN [rs[r] EXCEPT !.status = "unwinding"] ELSE rs[r]]

\* Mutant: what is loaded delivers at once.
InstalledLive(mg) == [mg EXCEPT !.suspended = FALSE]

\* The delivery of a loaded generation waits for session_start.
Installed(mg) == [mg EXCEPT !.suspended = TRUE]

Suspended(mg) == [mg EXCEPT !.suspended = TRUE]

\* disposeReplacedWorkflowManager(): its listeners go.
Disposed(mg) == [mg EXCEPT !.listening = FALSE]

\* The factory: what is staged is claimed; a manager of another version is paused and let
\* go, and without one that fits a new manager is made for the launch directory.
LoadExtension(v) ==
    LET kept == slot.manager # NoOne /\ slot.version = v
        fresh == Len(managers) + 1
        old == IF slot.manager = NoOne THEN managers
               ELSE [managers EXCEPT ![slot.manager] = Disposed(@)]
    IN /\ window.phase = "replacing"
       /\ kept \/ fresh <= MaxManagers
       /\ window' = [window EXCEPT !.phase = "loaded"]
       /\ slot' = EmptySlot
       /\ IF kept
          THEN /\ extension' = slot
               /\ managers' = [managers EXCEPT ![slot.manager] = Installed(@)]
               /\ UNCHANGED work
          ELSE /\ extension' = [manager |-> fresh, version |-> v]
               /\ managers' = Append(old, Installed(NewManager(LaunchDir)))
               /\ work' = PauseStranded(slot.manager, work)
       /\ UNCHANGED sent

\* adoptLiveRunsToSession(): running and paused runs move to the session, if it is known.
Adopted(m, s, rs) ==
    [r \in WorkRuns |->
        IF s # NoOne /\ rs[r].manager = m /\ rs[r].status \in {"running", "unwinding", "paused"}
        THEN [rs[r] EXCEPT !.session = s] ELSE rs[r]]

\* flushPending(): what the outbox takes as submitted goes to the bridge, the rest stays.
Flushed(mg, taken) == [mg EXCEPT !.suspended = FALSE, !.pending = @ \ taken]

\* session_start, with a session whose id may be unknown.  A manager of another project is
\* suspended, paused and disposed of, and one for the project of the session made.
SessionStart(known) ==
    LET old == extension.manager
        home == managers[old].project = window.project
        m == IF home THEN old ELSE Len(managers) + 1
        made == IF home THEN managers
                ELSE Append([managers EXCEPT ![old] = Disposed(Suspended(@))], NewManager(window.project))
        left == IF home THEN work ELSE PauseStranded(old, work)
        s == IF known THEN window.sessions + 1 ELSE NoOne
    IN /\ window.phase = "loaded" /\ window.sessions < MaxSessions /\ m <= MaxManagers
       /\ extension' = [extension EXCEPT !.manager = m]
       /\ work' = Adopted(m, s, left)
       /\ window' = [window EXCEPT !.phase = "bound", !.sessions = @ + 1]
       /\ \E taken \in SUBSET made[m].pending :
            /\ managers' = [made EXCEPT ![m] = Flushed([@ EXCEPT !.session = s], taken)]
            /\ sent' = [r \in WorkRuns |-> IF r \in taken THEN window.sessions + 1 ELSE sent[r]]
       /\ UNCHANGED slot

\* A replacement for a session of project p: reload and new stay in the project; resume
\* needs a header that says so, and fork one that does not say otherwise.
StaysHome(reason, p, readable, home) ==
    CASE reason \in {"reload", "new"} -> TRUE
      [] reason = "resume" -> readable /\ p = home
      [] reason = "fork" -> ~readable \/ p = home
      [] OTHER -> FALSE

\* handoffWorkflowRuntime(): whatever else was staged is paused first.
Stage(entry) ==
    /\ slot' = entry
    /\ work' = IF slot.manager \in {NoOne, entry.manager} THEN work ELSE PauseStranded(slot.manager, work)

\* session_shutdown.
SessionShutdown(reason, p, readable) ==
    LET m == extension.manager
        home == managers[m].project
    IN /\ window.phase = "bound"
       /\ reason \in {"reload", "new", "quit"} => p = home /\ readable
       /\ managers' = [managers EXCEPT ![m] = Suspended(@)]
       /\ window' = [window EXCEPT !.phase = IF reason = "quit" THEN "exited" ELSE "replacing",
                               !.project = p]
       /\ extension' = [manager |-> NoOne, version |-> NoOne]
       /\ IF StaysHome(reason, p, readable, home)
          THEN Stage(extension)
          ELSE /\ work' = PauseStranded(m, work)
               /\ slot' = IF slot.manager = m THEN EmptySlot ELSE slot
       /\ UNCHANGED sent

\* Mutant: the slot is cleared and the manager forgotten.
HandoffForgets ==
    /\ slot.manager # NoOne /\ slot' = EmptySlot
    /\ UNCHANGED <<managers, work, extension, window, sent>>

\* Nobody has claimed the staged manager in time.
HandoffExpires ==
    /\ slot.manager # NoOne
    /\ work' = PauseStranded(slot.manager, work)
    /\ slot' = EmptySlot
    /\ UNCHANGED <<managers, extension, window, sent>>

Bound == window.phase = "bound"

\* A tool or a command starts a run.
StartWork(r) ==
    /\ Bound /\ work[r].status = "none"
    /\ work' = [work EXCEPT ![r].manager = extension.manager, ![r].status = "running",
                          ![r].session = managers[extension.manager].session]
    /\ UNCHANGED <<managers, slot, extension, window, sent>>

\* A background run completes: its result is sent, or kept while delivery is suspended or
\* when its submission is not recorded.  The result itself is in the outbox of the record.
WorkEnds(r) ==
    LET m == work[r].manager
    IN /\ work[r].status = "running"
       /\ work' = [work EXCEPT ![r].status = "done"]
       /\ \/ /\ managers[m].listening /\ ~managers[m].suspended
             /\ sent' = [sent EXCEPT ![r] = window.sessions]
             /\ UNCHANGED managers
          \/ /\ managers[m].listening
             /\ managers' = [managers EXCEPT ![m].pending = @ \cup {r}]
             /\ UNCHANGED sent
          \/ ~managers[m].listening /\ UNCHANGED <<managers, sent>>
       /\ UNCHANGED <<slot, extension, window>>

PauseWork(r) ==
    /\ Bound /\ work[r].manager = extension.manager /\ work[r].status = "running"
    /\ work' = [work EXCEPT ![r].status = "unwinding"]
    /\ UNCHANGED <<managers, slot, extension, window, sent>>

WorkUnwinds(r) ==
    /\ work[r].status = "unwinding"
    /\ work' = [work EXCEPT ![r].status = "paused"]
    /\ UNCHANGED <<managers, slot, extension, window, sent>>

\* resume() of a paused run; it waits for the execution to unwind.
AskToResume(r) ==
    /\ Bound /\ work[r].manager = extension.manager
    /\ work[r].status \in {"unwinding", "paused"} /\ ~work[r].resuming
    /\ work' = [work EXCEPT ![r].resuming = TRUE]
    /\ UNCHANGED <<managers, slot, extension, window, sent>>

\* A manager that the loaded generation has, or that the next one may claim.
InReach(m) == m # NoOne /\ m \in {extension.manager, slot.manager}

\* The wait is over, wherever the manager is by then.  The record keeps its session, and
\* one of another session than the bound one is refused.
WorkResumes(r) ==
    LET bound == managers[work[r].manager].session
        mine == bound = NoOne \/ work[r].session = bound
    IN /\ work[r].resuming /\ work[r].status = "paused"
       /\ work' = [work EXCEPT ![r].resuming = FALSE,
                             ![r].status = IF mine THEN "running" ELSE @,
                             ![r].session = IF @ = NoOne THEN bound ELSE @,
                             ![r].overtaken = mine /\ ~InReach(work[r].manager)]
       /\ UNCHANGED <<managers, slot, extension, window, sent>>

HandoffNext ==
    \/ \E v \in Versions : LoadExtension(v)
    \/ \E known \in BOOLEAN : SessionStart(known)
    \/ \E reason \in {"reload", "new", "resume", "fork", "quit"}, p \in Projects, readable \in BOOLEAN :
            SessionShutdown(reason, p, readable)
    \/ HandoffExpires
    \/ \E r \in WorkRuns :
            \/ StartWork(r) \/ WorkEnds(r) \/ PauseWork(r)
            \/ WorkUnwinds(r) \/ AskToResume(r) \/ WorkResumes(r)

HandoffSpec == HandoffInit /\ [][HandoffNext]_handoffVars

-----------------------------------------------------------------------------
\* A run that goes on burns tokens for somebody who can reach it: its manager is the one of
\* the loaded generation or is staged for the next, and once a session with a known id is
\* bound the run is listed under it.  (Except a run that a resume(), called before the
\* hand-over, starts afterwards; and until the process exits.)
NoRunStranded ==
    \A r \in WorkRuns :
        work[r].status = "running" /\ ~work[r].overtaken =>
            /\ InReach(work[r].manager)
            /\ Bound /\ managers[work[r].manager].session # NoOne =>
                 work[r].session = managers[work[r].manager].session

\* A result is handed on only while a session is bound, and by the manager that this session
\* has; until then it is kept, so that a manager in reach forgets none.
ResultsFindASession ==
    /\ [][\A r \in WorkRuns : sent'[r] # sent[r] =>
            window'.phase = "bound" /\ work[r].manager = extension'.manager]_handoffVars
    /\ [](\A r \in WorkRuns : work[r].status = "done" /\ InReach(work[r].manager) =>
            sent[r] # NoOne \/ r \in managers[work[r].manager].pending)
================================================================================
