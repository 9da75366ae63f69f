---------------------------- MODULE ProviderPermits ----------------------------
(***************************************************************************)
(* Provider admission of WorkflowResourceCoordinator                       *)
(* (src/src/workflow-resource-coordinator.ts): a bounded set of permits    *)
(* and a bounded FIFO of waiters.  An element of Attempts stands for one   *)
(* call of acquireProvider(): it is the identity of the Waiter object and  *)
(* of the fresh token grant() makes, so a token is never used twice.       *)
(*                                                                         *)
(* The array `waiters' is kept as the set of its elements and, for each of *)
(* them, the elements before it.  Nothing else of the array is observable, *)
(* and splice() and shift() become set differences.                        *)
(***************************************************************************)
EXTENDS FiniteSets, Integers

CONSTANTS
    Attempts,                   \* calls of acquireProvider()
    Signals,                    \* AbortSignals handed to those calls
    SignalOf,                   \* the signal of each call
    MaxProviderConcurrency,     \* permits
    MaxQueuedProviderAttempts   \* places in the queue

ASSUME PermitAssumption ==
    /\ IsFiniteSet(Attempts)
    /\ SignalOf \in [Attempts -> Signals]
    /\ MaxProviderConcurrency \in Nat \ {0}
    /\ MaxQueuedProviderAttempts \in Nat \ {0}

VARIABLES
    activeProviders,    \* tokens of the permits in use
    waiters,            \* elements of the queue
    ahead,              \* ahead[a]: the elements of the queue before a
    answer,             \* what the promise of each call holds
    aborted             \* signals whose `aborted' flag is set

permitVars == <<activeProviders, waiters, ahead, answer, aborted>>

Answers == {"none", "pending", "permit", "null", "released"}

PermitTypeOK ==
    /\ activeProviders \in SUBSET Attempts
    /\ waiters \in SUBSET Attempts
    /\ ahead \in [Attempts -> SUBSET Attempts]
    /\ answer \in [Attempts -> Answers]
    /\ aborted \in SUBSET Signals

PermitInit ==
    /\ activeProviders = {}
    /\ waiters = {}
    /\ ahead = [a \in Attempts |-> {}]
    /\ answer = [a \in Attempts |-> "none"]
    /\ aborted = {}

----------------------------------------------------------------------------
Aborted(a) == SignalOf[a] \in aborted

\* The queue once the elements of D have left it.
Without(D) == [a \in Attempts |-> IF a \in D THEN {} ELSE ahead[a] \ D]

\* acquireProvider(), one action per way it returns.
RefuseAborted(a) ==
    /\ answer[a] = "none"
    /\ Aborted(a)
    /\ answer' = [answer EXCEPT ![a] = "null"]
    /\ UNCHANGED <<activeProviders, waiters, ahead, aborted>>

GrantAtOnce(a) ==
    /\ answer[a] = "none"
    /\ ~Aborted(a)
    /\ Cardinality(activeProviders) < MaxProviderConcurrency
    /\ activeProviders' = activeProviders \union {a}
    /\ answer' = [answer EXCEPT ![a] = "permit"]
    /\ UNCHANGED <<waiters, ahead, aborted>>

RefuseFull(a) ==
    /\ answer[a] = "none"
    /\ ~Aborted(a)
    /\ Cardinality(activeProviders) >= MaxProviderConcurrency
    /\ Cardinality(waiters) >= MaxQueuedProviderAttempts
    /\ answer' = [answer EXCEPT ![a] = "null"]
    /\ UNCHANGED <<activeProviders, waiters, ahead, aborted>>

Enqueue(a) ==
    /\ answer[a] = "none"
    /\ ~Aborted(a)
    /\ Cardinality(activeProviders) >= MaxProviderConcurrency
    /\ Cardinality(waiters) < MaxQueuedProviderAttempts
    /\ waiters' = waiters \union {a}
    /\ ahead' = [ahead EXCEPT ![a] = waiters]
    /\ answer' = [answer EXCEPT ![a] = "pending"]
    /\ UNCHANGED <<activeProviders, aborted>>

AcquireProvider(a) ==
    RefuseAborted(a) \/ GrantAtOnce(a) \/ RefuseFull(a) \/ Enqueue(a)

\* pump(), run with the permits in `free' withdrawn: its loop shifts the
\* waiters in D off the queue, one per iteration, drops those whose signal is
\* already aborted and grants a permit to the others.
Served(D) == {d \in D : ~Aborted(d)}

\* Mutant: pump() takes any waiters, not the first ones.
PumpedInAnyOrder(held, D) ==
    /\ D \subseteq waiters
    /\ Cardinality(held \union Served(D)) <= MaxProviderConcurrency
    /\ D = waiters \/ Cardinality(held \union Served(D)) = MaxProviderConcurrency

IsPumped(held, D) ==
    /\ D \subseteq waiters
    /\ \A d \in D :
          /\ ahead[d] \subseteq D
          /\ Cardinality(held \union Served(ahead[d])) < MaxProviderConcurrency
    /\ \/ D = waiters
       \/ Cardinality(held \union Served(D)) >= MaxProviderConcurrency

\* Mutant: the closure gives the permit back and does not pump.
ReleaseWithoutPump(a) ==
    /\ answer[a] = "permit"
    /\ activeProviders' = activeProviders \ {a}
    /\ answer' = [answer EXCEPT ![a] = "released"]
    /\ UNCHANGED <<waiters, ahead, aborted>>

\* The closure grant() returned is called for the first time.
Release(a) ==
    /\ answer[a] = "permit"
    /\ \E D \in SUBSET waiters :
          /\ IsPumped(activeProviders \ {a}, D)
          /\ activeProviders' = (activeProviders \ {a}) \union Served(D)
          /\ waiters' = waiters \ D
          /\ ahead' = Without(D)
          /\ answer' = [b \in Attempts |->
                IF b = a THEN "released"
                ELSE IF b \in Served(D) THEN "permit"
                ELSE IF b \in D THEN "null" ELSE answer[b]]
    /\ UNCHANGED aborted

\* The signals in S are aborted and the abort listeners of the waiters in D
\* run.  Listeners run one after the other, and one that belongs to someone
\* else may release a permit between two of them, so D may be any part of the
\* waiters concerned: the others follow in a later step.
AbortSignals(S, D) ==
    /\ \A d \in D : SignalOf[d] \in aborted \union S
    /\ aborted' = aborted \union S
    /\ waiters' = waiters \ D
    /\ ahead' = Without(D)
    /\ answer' = [b \in Attempts |-> IF b \in D THEN "null" ELSE answer[b]]
    /\ UNCHANGED activeProviders

SomeAbort == \E S \in SUBSET Signals, D \in SUBSET waiters : AbortSignals(S, D)

PermitNext ==
    \/ \E a \in Attempts : AcquireProvider(a)
    \/ \E a \in Attempts : Release(a)
    \/ SomeAbort

\* Every permit is given back (the provider promise settles) and the listeners
\* of an aborted signal run to the end; nothing forces a call or an abort.
PermitFairness ==
    /\ \A a \in Attempts : WF_permitVars(Release(a))
    /\ WF_permitVars(\E a \in waiters : Aborted(a) /\ AbortSignals({}, {a}))

PermitSpec == PermitInit /\ [][PermitNext]_permitVars /\ PermitFairness

----------------------------------------------------------------------------
\* The queue is a queue: an element that is not waiting has no position, and
\* the waiting ones are totally ordered.  pump() depends on it.
QueueOrdered ==
    /\ \A a \in Attempts \ waiters : ahead[a] = {}
    /\ \A a \in waiters : ahead[a] \subseteq waiters \ {a}
    /\ \A a, b \in waiters : a # b => (a \in ahead[b] <=> b \notin ahead[a])
    /\ \A a, b \in waiters : a \in ahead[b] => ahead[a] \subseteq ahead[b]

\* acquireProvider() answers each call once and for all, and what the promise
\* holds is what the coordinator believes: a token is in use exactly while its
\* caller holds the release closure, and a caller waits exactly while it is in
\* the queue.  A waiter both granted and cancelled would lose a permit.
AnswersAgree ==
    \A a \in Attempts : /\ a \in activeProviders <=> answer[a] = "permit"
                        /\ a \in waiters <=> answer[a] = "pending"

\* The two limits hold through every pump(), grant and cancellation.
WithinLimits ==
    /\ Cardinality(activeProviders) <= MaxProviderConcurrency
    /\ Cardinality(waiters) <= MaxQueuedProviderAttempts

\* No permit is idle while somebody waits for one: acquireProvider() queues
\* only when all permits are in use, and whatever gives one back pumps.
NoIdlePermit ==
    waiters # {} => Cardinality(activeProviders) = MaxProviderConcurrency

\* pump() serves in arrival order: nobody is given a permit while an earlier
\* waiter whose signal is not aborted stays in the queue, and no newcomer
\* overtakes the queue.
FirstComeFirstServed ==
    [][\A a \in activeProviders' \ activeProviders :
          \A b \in (IF a \in waiters THEN ahead[a] ELSE waiters) :
             Aborted(b) \/ b \notin waiters']_permitVars

\* A waiter is answered, by a permit or by null, provided permits are given
\* back.
EveryWaiterAnswered ==
    \A a \in Attempts : a \in waiters ~> a \notin waiters
=============================================================================
