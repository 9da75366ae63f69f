---------------------------- MODULE ProviderAttempt ----------------------------
(***************************************************************************)
(* The life of the attempts of agent() (agentImpl in src/src/workflow.ts)  *)
(* from the wait for a provider permit to the end of the provider promise. *)
(* An attempt has two lives: the logical one, which the script awaits and  *)
(* which a timeout, an abort or the result ends, and the provider's own,   *)
(* which ends when the host is done, aborted or not.  The permit and the   *)
(* record in the late-attempt registry belong to the second.               *)
(*                                                                         *)
(* Several runs share one coordinator.  A retry is one more attempt.       *)
(***************************************************************************)
EXTENDS ProviderPermits

CONSTANTS
    Runs,
    RunOf,              \* the run of each attempt
    MaxLateAttempts     \* records the registry of provider attempts holds

ASSUME AttemptAssumption ==
    /\ RunOf \in [Attempts -> Runs]
    /\ MaxLateAttempts \in Nat \ {0}
    \* each attempt makes a providerWaitController of its own
    /\ \A a, b \in Attempts : SignalOf[a] = SignalOf[b] => a = b

VARIABLES
    logical,        \* how far the awaited call is
    provider,       \* the promise of agentRunner.run()
    registry,       \* attempts with a record in the coordinator's `late' map
    marked,         \* those whose record has been given a lateAt
    stopped,        \* attempts whose agentController is aborted
    admission,      \* SharedRuntime.admission of each run
    runAborted      \* isAborted(): the run's signal or runFatalController

callVars == <<logical, provider, registry, marked, stopped>>
runVars == <<admission, runAborted>>
attemptVars == <<permitVars, callVars, runVars>>

AttemptTypeOK ==
    /\ PermitTypeOK
    /\ logical \in [Attempts -> {"idle", "acquiring", "running", "over"}]
    /\ provider \in [Attempts -> {"none", "running", "settled"}]
    /\ registry \in SUBSET Attempts
    /\ marked \in SUBSET registry
    /\ stopped \in SUBSET Attempts
    /\ admission \in [Runs -> {"open", "closing", "closed"}]
    /\ runAborted \in [Runs -> BOOLEAN]

AttemptInit ==
    /\ PermitInit
    /\ logical = [a \in Attempts |-> "idle"]
    /\ provider = [a \in Attempts |-> "none"]
    /\ registry = {}
    /\ marked = {}
    /\ stopped = {}
    /\ admission = [r \in Runs |-> "open"]
    /\ runAborted = [r \in Runs |-> FALSE]

----------------------------------------------------------------------------
AttemptsOf(r) == {a \in Attempts : RunOf[a] = r}
SignalsOf(A) == {SignalOf[a] : a \in A}
Open(a) == admission[RunOf[a]] = "open"
Running == {a \in Attempts : provider[a] = "running"}

Ends(a) == logical' = [logical EXCEPT ![a] = "over"]

\* The attempt starts and asks for a permit.  The signal of an attempt that
\* starts after admission closed is born aborted: CloseAdmission has set it.
Begin(a) ==
    /\ logical[a] = "idle"
    /\ ~runAborted[RunOf[a]]
    /\ AcquireProvider(a)
    /\ logical' = [logical EXCEPT ![a] = "acquiring"]
    /\ UNCHANGED <<provider, registry, marked, stopped, runVars>>

BeginAborted(a) ==
    /\ logical[a] = "idle"
    /\ runAborted[RunOf[a]]
    /\ Ends(a)
    /\ UNCHANGED <<permitVars, provider, registry, marked, stopped, runVars>>

\* The timer of withTimeout fires while the attempt waits for its permit.
WaitTimesOut(a) ==
    /\ logical[a] = "acquiring"
    /\ a \in waiters
    /\ Ends(a)
    /\ stopped' = stopped \union {a}
    /\ AbortSignals({SignalOf[a]}, {a})
    /\ UNCHANGED <<provider, registry, marked, runVars>>

\* The await of the permit is over and there is none.
GiveUp(a) ==
    /\ logical[a] = "acquiring"
    /\ answer[a] = "null"
    /\ Ends(a)
    /\ UNCHANGED <<permitVars, provider, registry, marked, stopped, runVars>>

\* What is asked again after the await of the permit.
MayLaunch(a) == Open(a) /\ a \notin stopped

RoomForRecord == Cardinality(registry) < MaxLateAttempts

\* Mutant: the early return forgets the permit.
TurnBackWithPermit(a) ==
    /\ logical[a] = "acquiring"
    /\ answer[a] = "permit"
    /\ ~MayLaunch(a) \/ ~RoomForRecord
    /\ Ends(a)
    /\ UNCHANGED <<permitVars, provider, registry, marked, stopped, runVars>>

\* The await of the permit is over, and the attempt does not use it: the run
\* has moved on in between, the registry is full, or agentRunner.run() throws
\* (its record is retired again in that case).
TurnBack(a) ==
    /\ logical[a] = "acquiring"
    /\ answer[a] = "permit"
    /\ ~MayLaunch(a) \/ ~RoomForRecord
    /\ Release(a)
    /\ Ends(a)
    /\ UNCHANGED <<provider, registry, marked, stopped, runVars>>

LaunchThrows(a) ==
    /\ logical[a] = "acquiring"
    /\ answer[a] = "permit"
    /\ MayLaunch(a)
    /\ RoomForRecord
    /\ Release(a)
    /\ Ends(a)
    /\ UNCHANGED <<provider, registry, marked, stopped, runVars>>

Launch(a) ==
    /\ logical[a] = "acquiring"
    /\ answer[a] = "permit"
    /\ MayLaunch(a)
    /\ RoomForRecord
    /\ registry' = registry \union {a}
    /\ provider' = [provider EXCEPT ![a] = "running"]
    /\ logical' = [logical EXCEPT ![a] = "running"]
    /\ UNCHANGED <<permitVars, marked, stopped, runVars>>

\* Mutant: the finally gives the permit back without pump().
ProviderSettlesWithoutPump(a) ==
    /\ provider[a] = "running"
    /\ provider' = [provider EXCEPT ![a] = "settled"]
    /\ registry' = registry \ {a}
    /\ marked' = marked \ {a}
    /\ activeProviders' = activeProviders \ {a}
    /\ answer' = [answer EXCEPT ![a] = "released"]
    /\ UNCHANGED <<waiters, ahead, aborted, logical, stopped, runVars>>

\* The finally of the provider promise.
ProviderSettles(a) ==
    /\ provider[a] = "running"
    /\ provider' = [provider EXCEPT ![a] = "settled"]
    /\ registry' = registry \ {a}
    /\ marked' = marked \ {a}
    /\ Release(a)
    /\ UNCHANGED <<logical, stopped, runVars>>

\* The three ways the awaited call ends once the provider was started.
LogicalResult(a) ==
    /\ logical[a] = "running"
    /\ provider[a] = "settled"
    /\ Ends(a)
    /\ UNCHANGED <<permitVars, provider, registry, marked, stopped, runVars>>

LogicalTimesOut(a) ==
    /\ logical[a] = "running"
    /\ provider[a] = "running"
    /\ Ends(a)
    /\ stopped' = stopped \union {a}
    /\ marked' = marked \union ({a} \intersect registry)
    /\ AbortSignals({SignalOf[a]}, {})
    /\ UNCHANGED <<provider, registry, runVars>>

LogicalAborts(a) ==
    /\ logical[a] = "running"
    /\ a \in stopped
    /\ Ends(a)
    /\ marked' = IF provider[a] = "running"
                 THEN marked \union ({a} \intersect registry) ELSE marked
    /\ UNCHANGED <<permitVars, provider, registry, stopped, runVars>>

\* closeAdmission(): the run's waiters are cancelled, granted permits are not.
CloseAdmission(r) ==
    /\ admission[r] = "open"
    /\ admission' = [admission EXCEPT ![r] = "closing"]
    /\ AbortSignals(SignalsOf(AttemptsOf(r)), waiters \intersect AttemptsOf(r))
    /\ UNCHANGED <<callVars, runAborted>>

\* Mutant: the abort does not reach the controllers of the calls under way.
AbortRunOnly(r) ==
    /\ ~runAborted[r]
    /\ runAborted' = [runAborted EXCEPT ![r] = TRUE]
    /\ AbortSignals(SignalsOf(AttemptsOf(r)), waiters \intersect AttemptsOf(r))
    /\ UNCHANGED <<logical, provider, registry, marked, stopped, admission>>

\* Pause, stop or a fatal error: every attempt under way is aborted.
AbortRun(r) ==
    /\ ~runAborted[r]
    /\ runAborted' = [runAborted EXCEPT ![r] = TRUE]
    /\ stopped' = stopped \union
          {a \in AttemptsOf(r) : logical[a] \in {"acquiring", "running"}}
    /\ AbortSignals(SignalsOf(AttemptsOf(r)), waiters \intersect AttemptsOf(r))
    /\ UNCHANGED <<logical, provider, registry, marked, admission>>

\* The drain at the end of the top-level run: over when nothing is in flight,
\* or when its grace period has expired.
InFlight(r) ==
    {a \in AttemptsOf(r) : \/ logical[a] \in {"acquiring", "running"}
                           \/ provider[a] = "running"}

DrainEnds(r) ==
    /\ admission[r] = "closing"
    /\ InFlight(r) = {}
    /\ admission' = [admission EXCEPT ![r] = "closed"]
    /\ UNCHANGED <<permitVars, callVars, runAborted>>

\* Mutant: markLateScope() is not called.
DrainExpiresUnmarked(r) ==
    /\ admission[r] = "closing"
    /\ InFlight(r) # {}
    /\ admission' = [admission EXCEPT ![r] = "closed"]
    /\ UNCHANGED <<permitVars, callVars, runAborted>>

DrainExpires(r) ==
    /\ admission[r] = "closing"
    /\ InFlight(r) # {}
    /\ admission' = [admission EXCEPT ![r] = "closed"]
    /\ marked' = marked \union (registry \intersect AttemptsOf(r))
    /\ UNCHANGED <<permitVars, logical, provider, registry, stopped, runAborted>>

AttemptStep(a) ==
    \/ Begin(a) \/ BeginAborted(a) \/ WaitTimesOut(a) \/ GiveUp(a)
    \/ TurnBack(a) \/ LaunchThrows(a) \/ Launch(a)
    \/ LogicalResult(a) \/ LogicalTimesOut(a) \/ LogicalAborts(a)

RunStep(r) == CloseAdmission(r) \/ AbortRun(r) \/ DrainEnds(r) \/ DrainExpires(r)

AttemptNext ==
    \/ \E a \in Attempts : AttemptStep(a) \/ ProviderSettles(a)
    \/ \E r \in Runs : RunStep(r)

\* The engine's own continuations run and its timers fire.  Nothing is assumed
\* of the providers: a host may ignore the abort and never settle.
AttemptFairness ==
    /\ \A a \in Attempts :
          WF_attemptVars(GiveUp(a) \/ TurnBack(a) \/ LaunchThrows(a) \/ Launch(a)
                            \/ LogicalResult(a) \/ LogicalAborts(a))
    /\ \A r \in Runs : WF_attemptVars(DrainEnds(r) \/ DrainExpires(r))

AttemptSpec ==
    AttemptInit /\ [][AttemptNext]_attemptVars /\ AttemptFairness

----------------------------------------------------------------------------
\* A permit is in somebody's hands exactly while it is being put to use: its
\* attempt is about to be resumed with it, or its provider runs.  So a permit
\* survives the timeout and the abort of its call, and no path loses it.
PermitsInUse ==
    /\ \A a \in activeProviders : provider[a] = "running" \/ logical[a] = "acquiring"
    /\ \A a \in Attempts : provider[a] = "running" => a \in activeProviders

\* The hosts really at work, the abandoned ones
\* included, never exceed the limit, and each has a record in the registry.
ProvidersWithinLimit ==
    /\ Cardinality(Running) <= MaxProviderConcurrency
    /\ Running = registry

\* A provider that outlives its call, or its run, is shown as late: whoever
\* looks at the diagnostics can tell it from work in progress.
OverrunsAreMarked ==
    \A a \in Running :
        logical[a] = "over" \/ admission[RunOf[a]] = "closed" => a \in marked

\* No provider is started for a run that is draining or aborted, although the
\* permit was granted before and the attempt resumes later.
NoStartAfterClose ==
    [][\A a \in Attempts :
          provider[a] = "none" /\ provider'[a] = "running"
             => Open(a) /\ ~runAborted[RunOf[a]]]_attemptVars

\* Attempts use the coordinator as it is meant to be used.
UsesPermits == PermitInit /\ [][PermitNext]_permitVars

\* A pause and a stop wait for no provider: once a run is aborted, each of its
\* calls ends although no host may ever answer.
AbortEndsCalls ==
    \A a \in Attempts :
        (runAborted[RunOf[a]] /\ logical[a] # "idle") ~> logical[a] = "over"
=============================================================================
