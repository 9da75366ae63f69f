--------------------------- MODULE CoordinationProofs ---------------------------
(* What the coordinators of processes, runs, attempts and agents promise.          *)
(* ProviderPermits: its safety properties, for any number of calls, signals,       *)
(* permits and places in the queue.  ProviderAttempt: that attempts use the        *)
(* coordinator as ProviderPermits describes it, and its safety properties, for any *)
(* number of runs and attempts.  RunLease: when the lease is exclusive, as long as *)
(* nobody dies for any number of processes, and through the takeover of a dead     *)
(* process's lock as long as there is one survivor; with two it is not, as the run *)
(* of MCRunLeaseTakeover.cfg shows.  UsageLimitScheduler: for any number of runs,  *)
(* any limit of attempts and any size of the map.  AgentSession: who owns the gate *)
(* before a cold cache, for any number of sessions.  Navigator: that the screen    *)
(* follows the agent it shows, for any runs, agents, lists and views.              *)
EXTENDS ProviderAttempt, RunLease, UsageLimitScheduler, AgentSession, Navigator,
        FiniteSetTheorems, SequenceTheorems, TLAPS

----------------------------------------------------------------------------
(* ProviderPermits *)

\* The inductive invariant.  WithinLimits alone is not inductive: that pump()
\* does not exceed the permits needs NoIdlePermit (a release that finds waiters
\* leaves exactly one permit free), and that its loop grants only one needs the
\* queue to be totally ordered.
PermitInv ==
    PermitTypeOK /\ AnswersAgree /\ QueueOrdered /\ NoIdlePermit /\ WithinLimits

\* Every set of calls is finite, so its cardinality is a number.
LEMMA CallsAreFinite ==
    ASSUME NEW S \in SUBSET Attempts
    PROVE  IsFiniteSet(S) /\ Cardinality(S) \in Nat
BY PermitAssumption, FS_Subset, FS_CardinalityType

\* A smaller set of calls has no more elements.
LEMMA FewerCalls ==
    ASSUME NEW T \in SUBSET Attempts, NEW S \in SUBSET T
    PROVE  Cardinality(S) <= Cardinality(T)
BY CallsAreFinite, FS_Subset

\* What pump() does after a release: it stays within the permits, and leaves
\* somebody in the queue only if it has used them all.
LEMMA PumpFills ==
    ASSUME PermitInv,
           NEW a \in Attempts, answer[a] = "permit",
           NEW D \in SUBSET waiters, IsPumped(activeProviders \ {a}, D)
    PROVE  LET used == (activeProviders \ {a}) \union Served(D)
           IN  /\ Cardinality(used) <= MaxProviderConcurrency
               /\ waiters \ D # {} => Cardinality(used) = MaxProviderConcurrency
<1> DEFINE held == activeProviders \ {a}
           used == held \union Served(D)
<1>1. /\ activeProviders \in SUBSET Attempts /\ waiters \in SUBSET Attempts
      /\ D \in SUBSET Attempts /\ Served(D) \in SUBSET D
      /\ held \in SUBSET Attempts /\ used \in SUBSET Attempts
      /\ a \in activeProviders
  BY DEF PermitInv, PermitTypeOK, AnswersAgree, Served
<1>2. MaxProviderConcurrency \in Nat
  BY PermitAssumption
<1>3. /\ Cardinality(activeProviders) \in Nat
      /\ Cardinality(held) = Cardinality(activeProviders) - 1
      /\ Cardinality(used) \in Nat
  BY <1>1, CallsAreFinite, FS_RemoveElement
<1>4. Cardinality(activeProviders) <= MaxProviderConcurrency
  BY DEF PermitInv, WithinLimits
<1>5. Cardinality(used) <= MaxProviderConcurrency
  <2>1. CASE Served(D) = {}
    <3>1. used = held
      BY <2>1
    <3> HIDE DEF used, held
    <3> QED
      BY <3>1, <1>2, <1>3, <1>4
  <2>2. CASE Served(D) # {}
    <3>1. PICK x \in Served(D) : TRUE
      BY <2>2
    <3>2. x \in waiters /\ x \notin activeProviders
      BY <1>1, <3>1 DEF PermitInv, AnswersAgree
    <3>3. Cardinality(held \union {x}) = Cardinality(held) + 1
      BY <1>1, <3>2, CallsAreFinite, FS_AddElement
    <3>4. Cardinality(activeProviders) = MaxProviderConcurrency
      BY <3>2 DEF PermitInv, NoIdlePermit
    <3>5. ASSUME NEW p \in Served(D), NEW q \in Served(D), p \in ahead[q]
          PROVE  FALSE
      <4>1. p \in waiters /\ p \notin activeProviders /\ q \in D /\ q \in waiters
        BY <1>1, <3>5 DEF PermitInv, AnswersAgree
      <4>2. Cardinality(held \union {p}) = Cardinality(held) + 1
        BY <1>1, <4>1, CallsAreFinite, FS_AddElement
      <4>3. p \in Served(ahead[q])
        BY <3>5 DEF Served
      <4>4. Cardinality(held \union Served(ahead[q])) < MaxProviderConcurrency
        BY <4>1 DEF IsPumped
      <4>5. held \union Served(ahead[q]) \in SUBSET Attempts
        BY <1>1, <4>1 DEF Served, PermitInv, PermitTypeOK
      <4>6. Cardinality(held \union {p}) <= Cardinality(held \union Served(ahead[q]))
        BY <4>3, <4>5, FewerCalls
      <4>7. Cardinality(held \union Served(ahead[q])) \in Nat
        BY <4>5, CallsAreFinite
      <4> QED
        BY <4>2, <4>4, <4>6, <4>7, <3>4, <1>2, <1>3
    <3>6. \A p \in Served(D) : p = x
      BY <3>1, <3>5, <1>1 DEF PermitInv, QueueOrdered
    <3>7. used = held \union {x}
      BY <3>1, <3>6
    <3> HIDE DEF used, held
    <3> QED
      BY <3>3, <3>4, <3>7, <1>3
  <2> QED
    BY <2>1, <2>2
<1>6. waiters \ D # {} => Cardinality(used) >= MaxProviderConcurrency
  BY DEF IsPumped
<1> QED
  BY <1>2, <1>3, <1>5, <1>6

\* Taking any elements out of the queue leaves a queue.
LEMMA StillOrdered ==
    ASSUME PermitInv, NEW D \in SUBSET waiters,
           waiters' = waiters \ D, ahead' = Without(D)
    PROVE  QueueOrdered'
<1>1. \A b \in Attempts : ahead'[b] = IF b \in D THEN {} ELSE ahead[b] \ D
  BY DEF Without
<1>2. waiters \subseteq Attempts
  BY DEF PermitInv, PermitTypeOK
<1>3. (\A b \in Attempts \ waiters : ahead[b] = {})'
  BY <1>1, <1>2 DEF PermitInv, QueueOrdered
<1>4. ASSUME NEW b \in waiters'
      PROVE  /\ b \in waiters /\ b \notin D /\ b \in Attempts
             /\ ahead'[b] = ahead[b] \ D
  BY <1>1, <1>2
<1>5. (\A b \in waiters : ahead[b] \subseteq waiters \ {b})'
  BY <1>4 DEF PermitInv, QueueOrdered
<1>6. ASSUME NEW b \in waiters', NEW c \in waiters', b # c
      PROVE  b \in ahead'[c] <=> c \notin ahead'[b]
  <2>1. b \in ahead[c] <=> c \notin ahead[b]
    BY <1>4, <1>6 DEF PermitInv, QueueOrdered
  <2> QED
    BY <2>1, <1>4
<1>7. ASSUME NEW b \in waiters', NEW c \in waiters', b \in ahead'[c]
      PROVE  ahead'[b] \subseteq ahead'[c]
  <2>1. ahead[b] \subseteq ahead[c]
    BY <1>4, <1>7 DEF PermitInv, QueueOrdered
  <2> QED
    BY <2>1, <1>4
<1> QED
  BY <1>3, <1>5, <1>6, <1>7 DEF QueueOrdered

----------------------------------------------------------------------------
LEMMA InitPermitInv == PermitInit => PermitInv
<1> SUFFICES ASSUME PermitInit PROVE PermitInv
  OBVIOUS
<1>1. Cardinality({}) = 0
  BY FS_EmptySet
<1> QED
  BY <1>1, PermitAssumption
     DEF PermitInit, PermitInv, PermitTypeOK, AnswersAgree, QueueOrdered,
         NoIdlePermit, WithinLimits, Answers

LEMMA AcquireKeepsInv ==
    ASSUME PermitInv, NEW a \in Attempts, AcquireProvider(a)
    PROVE  PermitInv'
<1> USE DEF PermitInv
<1>1. /\ MaxProviderConcurrency \in Nat /\ MaxQueuedProviderAttempts \in Nat
      /\ Cardinality(activeProviders) \in Nat /\ Cardinality(waiters) \in Nat
      /\ IsFiniteSet(activeProviders) /\ IsFiniteSet(waiters)
  BY PermitAssumption, CallsAreFinite DEF PermitTypeOK
<1>2. CASE RefuseAborted(a)
  BY <1>2 DEF RefuseAborted, PermitTypeOK, AnswersAgree, QueueOrdered,
              NoIdlePermit, WithinLimits, Answers
<1>3. CASE RefuseFull(a)
  BY <1>3 DEF RefuseFull, PermitTypeOK, AnswersAgree, QueueOrdered,
              NoIdlePermit, WithinLimits, Answers
<1>4. CASE GrantAtOnce(a)
  <2>1. waiters = {} /\ a \notin activeProviders
    BY <1>1, <1>4 DEF GrantAtOnce, NoIdlePermit, AnswersAgree
  <2>2. Cardinality(activeProviders') = Cardinality(activeProviders) + 1
    BY <1>1, <1>4, <2>1, FS_AddElement DEF GrantAtOnce
  <2>3. WithinLimits' /\ NoIdlePermit'
    BY <1>1, <1>4, <2>1, <2>2 DEF GrantAtOnce, NoIdlePermit, WithinLimits
  <2>4. PermitTypeOK' /\ AnswersAgree'
    BY <1>4, <2>1 DEF GrantAtOnce, PermitTypeOK, AnswersAgree, Answers
  <2>5. QueueOrdered'
    BY <1>4 DEF GrantAtOnce, QueueOrdered
  <2> QED
    BY <2>3, <2>4, <2>5
<1>5. CASE Enqueue(a)
  <2>1. a \notin activeProviders /\ a \notin waiters
    BY <1>5 DEF Enqueue, AnswersAgree
  <2>2. Cardinality(waiters') = Cardinality(waiters) + 1
    BY <1>1, <1>5, <2>1, FS_AddElement DEF Enqueue
  <2>3. WithinLimits' /\ NoIdlePermit'
    BY <1>1, <1>5, <2>2 DEF Enqueue, NoIdlePermit, WithinLimits
  <2>4. PermitTypeOK' /\ AnswersAgree'
    BY <1>5, <2>1 DEF Enqueue, PermitTypeOK, AnswersAgree, Answers
  <2>5. \A b \in Attempts : ahead'[b] = IF b = a THEN waiters ELSE ahead[b]
    BY <1>5 DEF Enqueue, PermitTypeOK
  <2>6. QueueOrdered'
    BY <1>5, <2>1, <2>5 DEF Enqueue, QueueOrdered, PermitTypeOK
  <2> QED
    BY <2>3, <2>4, <2>6
<1> QED
  BY <1>2, <1>3, <1>4, <1>5 DEF AcquireProvider

LEMMA ReleaseKeepsInv ==
    ASSUME PermitInv, NEW a \in Attempts, Release(a)
    PROVE  PermitInv'
<1> USE DEF PermitInv
<1>1. PICK D \in SUBSET waiters :
         /\ IsPumped(activeProviders \ {a}, D)
         /\ activeProviders' = (activeProviders \ {a}) \union Served(D)
         /\ waiters' = waiters \ D
         /\ ahead' = Without(D)
         /\ answer' = [b \in Attempts |->
                IF b = a THEN "released"
                ELSE IF b \in Served(D) THEN "permit"
                ELSE IF b \in D THEN "null" ELSE answer[b]]
  BY DEF Release
<1>2. answer[a] = "permit" /\ a \notin waiters /\ aborted' = aborted
  BY DEF Release, AnswersAgree
<1>3. Served(D) \subseteq D /\ D \subseteq Attempts /\ Without(D) \in [Attempts -> SUBSET Attempts]
  BY DEF Served, Without, PermitTypeOK
<1>4. PermitTypeOK'
  BY <1>1, <1>2, <1>3 DEF PermitTypeOK, Answers
<1>5. AnswersAgree'
  BY <1>1, <1>2, <1>3 DEF AnswersAgree
<1>6. QueueOrdered'
  BY <1>1, StillOrdered
<1>7. /\ Cardinality(activeProviders') <= MaxProviderConcurrency
      /\ waiters' # {} => Cardinality(activeProviders') = MaxProviderConcurrency
  BY <1>1, <1>2, PumpFills
<1>8. Cardinality(waiters') <= Cardinality(waiters) /\ Cardinality(waiters') \in Nat
      /\ Cardinality(waiters) \in Nat
  BY <1>1, FewerCalls, CallsAreFinite DEF PermitTypeOK
<1>9. NoIdlePermit' /\ WithinLimits'
  BY <1>7, <1>8, PermitAssumption DEF NoIdlePermit, WithinLimits
<1> QED
  BY <1>4, <1>5, <1>6, <1>9

LEMMA AbortKeepsInv ==
    ASSUME PermitInv, NEW S \in SUBSET Signals, NEW D \in SUBSET waiters,
           AbortSignals(S, D)
    PROVE  PermitInv'
<1> USE DEF PermitInv
<1>1. /\ waiters' = waiters \ D /\ ahead' = Without(D)
      /\ activeProviders' = activeProviders /\ aborted' = aborted \union S
      /\ answer' = [b \in Attempts |-> IF b \in D THEN "null" ELSE answer[b]]
  BY DEF AbortSignals
<1>2. D \subseteq Attempts /\ Without(D) \in [Attempts -> SUBSET Attempts]
  BY DEF Without, PermitTypeOK
<1>3. PermitTypeOK'
  BY <1>1, <1>2 DEF PermitTypeOK, Answers
<1>4. AnswersAgree'
  BY <1>1, <1>2 DEF AnswersAgree
<1>5. QueueOrdered'
  BY <1>1, StillOrdered
<1>6. Cardinality(waiters') <= Cardinality(waiters) /\ Cardinality(waiters') \in Nat
      /\ Cardinality(waiters) \in Nat
  BY <1>1, FewerCalls, CallsAreFinite DEF PermitTypeOK
<1>7. NoIdlePermit' /\ WithinLimits'
  BY <1>1, <1>6, PermitAssumption DEF NoIdlePermit, WithinLimits
<1> QED
  BY <1>3, <1>4, <1>5, <1>7

LEMMA PermitStepKeepsInv ==
    ASSUME PermitInv, [PermitNext]_permitVars
    PROVE  PermitInv'
<1>1. CASE PermitNext
  BY <1>1, AcquireKeepsInv, ReleaseKeepsInv, AbortKeepsInv
     DEF PermitNext, SomeAbort
<1>2. CASE UNCHANGED permitVars
  BY <1>2 DEF permitVars, PermitInv, PermitTypeOK, AnswersAgree, QueueOrdered,
              NoIdlePermit, WithinLimits
<1> QED
  BY <1>1, <1>2

\* The state of the coordinator is always a bounded queue behind bounded
\* permits, whatever its callers and their signals do.
THEOREM PermitsSafe == PermitSpec => []PermitInv
<1>1. PermitInit => PermitInv
  BY InitPermitInv
<1>2. PermitInv /\ [PermitNext]_permitVars => PermitInv'
  BY PermitStepKeepsInv
<1> QED
  BY <1>1, <1>2, PTL DEF PermitSpec

\* Type correctness.
THEOREM PermitTypes == PermitSpec => []PermitTypeOK
BY PermitsSafe, PTL DEF PermitInv

\* Each call is answered once, and the answer is what the coordinator records.
THEOREM PermitAnswers == PermitSpec => []AnswersAgree
BY PermitsSafe, PTL DEF PermitInv

\* acquireProvider() and pump() keep both limits.
THEOREM PermitLimits == PermitSpec => []WithinLimits
BY PermitsSafe, PTL DEF PermitInv

\* No permit is idle while a call waits for one.
THEOREM NoPermitIdles == PermitSpec => []NoIdlePermit
BY PermitsSafe, PTL DEF PermitInv

\* Permits are granted in the order of arrival.
THEOREM PermitsInOrder == PermitSpec => FirstComeFirstServed
<1> DEFINE Fair == \A a \in activeProviders' \ activeProviders :
              \A b \in (IF a \in waiters THEN ahead[a] ELSE waiters) :
                 Aborted(b) \/ b \notin waiters'
<1>1. ASSUME PermitInv, [PermitNext]_permitVars PROVE [Fair]_permitVars
  <2>1. CASE UNCHANGED permitVars
    BY <2>1
  <2>2. ASSUME NEW c \in Attempts, AcquireProvider(c) PROVE Fair
    <3>1. CASE GrantAtOnce(c)
      <4>1. waiters = {}
        BY <1>1, <3>1, PermitAssumption, CallsAreFinite
           DEF GrantAtOnce, PermitInv, PermitTypeOK, NoIdlePermit
      <4> QED
        BY <4>1, <3>1 DEF GrantAtOnce
    <3>2. CASE RefuseAborted(c) \/ RefuseFull(c) \/ Enqueue(c)
      BY <3>2 DEF RefuseAborted, RefuseFull, Enqueue
    <3> QED
      BY <2>2, <3>1, <3>2 DEF AcquireProvider
  <2>3. ASSUME NEW c \in Attempts, Release(c) PROVE Fair
    <3>1. PICK D \in SUBSET waiters :
             /\ IsPumped(activeProviders \ {c}, D)
             /\ activeProviders' = (activeProviders \ {c}) \union Served(D)
             /\ waiters' = waiters \ D
      BY <2>3 DEF Release
    <3>2. ASSUME NEW a \in activeProviders' \ activeProviders
          PROVE  a \in D /\ ahead[a] \subseteq D
      BY <3>1, <3>2 DEF Served, IsPumped
    <3> QED
      BY <3>1, <3>2
  <2>4. ASSUME NEW S \in SUBSET Signals, NEW D \in SUBSET waiters, AbortSignals(S, D)
        PROVE  Fair
    BY <2>4 DEF AbortSignals
  <2> QED
    BY <1>1, <2>1, <2>2, <2>3, <2>4 DEF PermitNext, SomeAbort
<1> QED
  BY <1>1, PermitsSafe, PTL DEF PermitSpec, FirstComeFirstServed

----------------------------------------------------------------------------
(* ProviderAttempt *)

\* What an attempt has, at each point of its logical life.
LifeAgrees ==
    \A a \in Attempts :
        /\ logical[a] = "idle" => answer[a] = "none" /\ provider[a] = "none"
        /\ logical[a] = "acquiring" => provider[a] = "none"
        /\ answer[a] = "pending" => logical[a] = "acquiring"

\* An aborted run has aborted the attempts that may still be resumed.
AbortReaches ==
    \A a \in Attempts :
        logical[a] = "acquiring" /\ runAborted[RunOf[a]] => a \in stopped

AttemptInv ==
    /\ AttemptTypeOK
    /\ PermitInv
    /\ LifeAgrees
    /\ AbortReaches
    /\ PermitsInUse
    /\ Running = registry
    /\ OverrunsAreMarked

----------------------------------------------------------------------------
\* Each step of an attempt or of a run is a step of the coordinator or leaves
\* it alone.
LEMMA StepUsesPermits ==
    ASSUME AttemptTypeOK, [AttemptNext]_attemptVars
    PROVE  [PermitNext]_permitVars
<1>1. ASSUME NEW a \in Attempts, AttemptStep(a) \/ ProviderSettles(a)
      PROVE  [PermitNext]_permitVars
  <2>1. CASE Begin(a)
    BY <2>1 DEF Begin, PermitNext
  <2>2. CASE BeginAborted(a) \/ GiveUp(a) \/ Launch(a) \/ LogicalResult(a)
             \/ LogicalAborts(a)
    BY <2>2 DEF BeginAborted, GiveUp, Launch, LogicalResult, LogicalAborts
  <2>3. CASE TurnBack(a) \/ LaunchThrows(a) \/ ProviderSettles(a)
    BY <2>3 DEF TurnBack, LaunchThrows, ProviderSettles, PermitNext
  <2>4. CASE WaitTimesOut(a)
    <3>1. {SignalOf[a]} \in SUBSET Signals /\ {a} \in SUBSET waiters
      BY <2>4, PermitAssumption DEF WaitTimesOut
    <3> QED
      BY <2>4, <3>1 DEF WaitTimesOut, PermitNext, SomeAbort
  <2>5. CASE LogicalTimesOut(a)
    <3>1. {SignalOf[a]} \in SUBSET Signals
      BY PermitAssumption
    <3> QED
      BY <2>5, <3>1 DEF LogicalTimesOut, PermitNext, SomeAbort
  <2> QED
    BY <1>1, <2>1, <2>2, <2>3, <2>4, <2>5 DEF AttemptStep
<1>2. ASSUME NEW r \in Runs, RunStep(r)
      PROVE  [PermitNext]_permitVars
  <2>1. /\ SignalsOf(AttemptsOf(r)) \in SUBSET Signals
        /\ (waiters \intersect AttemptsOf(r)) \in SUBSET waiters
    BY PermitAssumption DEF SignalsOf, AttemptsOf
  <2>2. CASE CloseAdmission(r) \/ AbortRun(r)
    BY <2>1, <2>2 DEF CloseAdmission, AbortRun, PermitNext, SomeAbort
  <2>3. CASE DrainEnds(r) \/ DrainExpires(r)
    BY <2>3 DEF DrainEnds, DrainExpires
  <2> QED
    BY <1>2, <2>2, <2>3 DEF RunStep
<1>3. CASE UNCHANGED attemptVars
  BY <1>3 DEF attemptVars
<1> QED
  BY <1>1, <1>2, <1>3 DEF AttemptNext

\* What a released permit, whoever releases it, does to the other calls: those
\* that get one were waiting, and nobody else loses anything.
LEMMA ReleaseEffect ==
    ASSUME PermitTypeOK, AnswersAgree, NEW a \in Attempts, Release(a)
    PROVE  /\ answer'[a] = "released" /\ a \notin activeProviders'
           /\ \A b \in activeProviders' : b \in activeProviders \/ b \in waiters
           /\ \A b \in activeProviders : b # a => b \in activeProviders'
           /\ \A b \in Attempts : answer'[b] = "none" <=> answer[b] = "none"
           /\ \A b \in Attempts : answer'[b] = "pending" => answer[b] = "pending"
<1>1. PICK D \in SUBSET waiters :
         /\ activeProviders' = (activeProviders \ {a}) \union Served(D)
         /\ answer' = [b \in Attempts |->
                IF b = a THEN "released"
                ELSE IF b \in Served(D) THEN "permit"
                ELSE IF b \in D THEN "null" ELSE answer[b]]
  BY DEF Release
<1>2. answer[a] = "permit" /\ a \notin waiters
  BY DEF Release, AnswersAgree
<1>3. Served(D) \subseteq D
  BY DEF Served
<1> QED
  BY <1>1, <1>2, <1>3 DEF AnswersAgree, PermitTypeOK

\* What an abort does.
LEMMA AbortEffect ==
    ASSUME PermitTypeOK, AnswersAgree, NEW S, NEW D \in SUBSET waiters,
           AbortSignals(S, D)
    PROVE  /\ activeProviders' = activeProviders
           /\ \A b \in Attempts : answer'[b] = "none" <=> answer[b] = "none"
           /\ \A b \in Attempts :
                 answer'[b] = "pending" => answer[b] = "pending" /\ b \notin D
BY DEF AbortSignals, AnswersAgree, PermitTypeOK

\* What a call of acquireProvider() does.
LEMMA AcquireEffect ==
    ASSUME PermitTypeOK, AnswersAgree, NEW a \in Attempts, AcquireProvider(a)
    PROVE  /\ \A b \in activeProviders' : b \in activeProviders \/ b = a
           /\ activeProviders \subseteq activeProviders'
           /\ \A b \in Attempts : b # a => answer'[b] = answer[b]
BY DEF AcquireProvider, RefuseAborted, RefuseFull, GrantAtOnce, Enqueue,
       PermitTypeOK

----------------------------------------------------------------------------
\* Steps that neither ask for a permit nor give one back, nor abort a signal.
LEMMA QuietSteps ==
    ASSUME AttemptInv, NEW a \in Attempts,
           BeginAborted(a) \/ GiveUp(a) \/ LogicalResult(a) \/ LogicalAborts(a)
    PROVE  AttemptInv'
<1> USE DEF AttemptInv, AttemptTypeOK
<1>1. /\ permitVars' = permitVars /\ provider' = provider /\ registry' = registry
      /\ stopped' = stopped /\ runVars' = runVars
      /\ logical' = [logical EXCEPT ![a] = "over"]
      /\ marked \subseteq marked' /\ marked' \subseteq registry
  BY DEF BeginAborted, GiveUp, LogicalResult, LogicalAborts, Ends, Running
<1>2. a \in Running => logical[a] = "running" /\ a \in marked'
  BY DEF BeginAborted, GiveUp, LogicalResult, LogicalAborts, Running, LifeAgrees
<1>3. a \in activeProviders => provider[a] = "running" \/ logical[a] = "running"
  BY DEF BeginAborted, GiveUp, LogicalResult, LogicalAborts, LifeAgrees,
         PermitsInUse, PermitInv, AnswersAgree
<1>4. PermitInv'
  BY <1>1, PermitStepKeepsInv DEF permitVars
<1>5. AttemptTypeOK'
  BY <1>1, <1>4 DEF PermitInv, runVars
<1>6. answer[a] # "pending"
  BY DEF BeginAborted, GiveUp, LogicalResult, LogicalAborts, LifeAgrees
<1>7. LifeAgrees' /\ AbortReaches'
  BY <1>1, <1>6 DEF LifeAgrees, AbortReaches, permitVars, runVars
<1>8. PermitsInUse'
  BY <1>1, <1>3 DEF PermitsInUse, permitVars, BeginAborted, GiveUp,
     LogicalResult, LogicalAborts, LifeAgrees, PermitInv, AnswersAgree
<1>9. Running' = Running
  BY <1>1 DEF Running
<1>10. OverrunsAreMarked'
  BY <1>1, <1>2, <1>9 DEF OverrunsAreMarked, runVars, Running
<1> QED
  BY <1>1, <1>4, <1>5, <1>7, <1>8, <1>9, <1>10

\* The attempt asks for its permit.
LEMMA BeginStep ==
    ASSUME AttemptInv, NEW a \in Attempts, Begin(a)
    PROVE  AttemptInv'
<1> USE DEF AttemptInv, AttemptTypeOK
<1>1. /\ AcquireProvider(a) /\ logical[a] = "idle" /\ ~runAborted[RunOf[a]]
      /\ logical' = [logical EXCEPT ![a] = "acquiring"]
      /\ UNCHANGED <<provider, registry, marked, stopped, admission, runAborted>>
  BY DEF Begin, runVars
<1>2. PermitInv'
  BY <1>1, AcquireKeepsInv
<1>3. /\ \A b \in activeProviders' : b \in activeProviders \/ b = a
      /\ activeProviders \subseteq activeProviders'
      /\ \A b \in Attempts : b # a => answer'[b] = answer[b]
  BY <1>1, AcquireEffect DEF PermitInv
<1>4. AttemptTypeOK'
  BY <1>1, <1>2 DEF PermitInv
<1>5. LifeAgrees' /\ AbortReaches'
  BY <1>1, <1>3 DEF LifeAgrees, AbortReaches
<1>6. PermitsInUse'
  BY <1>1, <1>3, <1>4 DEF PermitsInUse, PermitTypeOK
<1>7. Running' = Running /\ a \notin Running
  BY <1>1 DEF Running, LifeAgrees
<1>8. OverrunsAreMarked'
  BY <1>1, <1>7 DEF OverrunsAreMarked, Running
<1> QED
  BY <1>1, <1>2, <1>4, <1>5, <1>6, <1>7, <1>8

\* Steps that give a permit back.
LEMMA ReleaseSteps ==
    ASSUME AttemptInv, NEW a \in Attempts,
           TurnBack(a) \/ LaunchThrows(a) \/ ProviderSettles(a)
    PROVE  AttemptInv'
<1> USE DEF AttemptInv, AttemptTypeOK
<1>1. /\ Release(a) /\ stopped' = stopped /\ admission' = admission
      /\ runAborted' = runAborted /\ answer[a] = "permit"
  BY DEF TurnBack, LaunchThrows, ProviderSettles, runVars, Release
<1>2. PermitInv'
  BY <1>1, ReleaseKeepsInv
<1>3. /\ answer'[a] = "released" /\ a \notin activeProviders'
      /\ \A b \in activeProviders' : b \in activeProviders \/ b \in waiters
      /\ \A b \in activeProviders : b # a => b \in activeProviders'
      /\ \A b \in Attempts : answer'[b] = "none" <=> answer[b] = "none"
      /\ \A b \in Attempts : answer'[b] = "pending" => answer[b] = "pending"
  BY <1>1, ReleaseEffect DEF PermitInv
<1>4. \A b \in waiters : logical[b] = "acquiring" /\ b # a /\ b \in Attempts
  BY <1>1 DEF PermitInv, AnswersAgree, LifeAgrees, PermitTypeOK
<1>5. CASE TurnBack(a) \/ LaunchThrows(a)
  <2>1. /\ logical[a] = "acquiring"
        /\ logical' = [logical EXCEPT ![a] = "over"]
        /\ UNCHANGED <<provider, registry, marked>>
    BY <1>5 DEF TurnBack, LaunchThrows, Ends
  <2>2. AttemptTypeOK'
    BY <1>1, <1>2, <2>1 DEF PermitInv
  <2>3. LifeAgrees' /\ AbortReaches'
    BY <1>1, <1>3, <2>1 DEF LifeAgrees, AbortReaches
  <2>4. Running' = Running /\ a \notin Running
    BY <2>1 DEF Running, LifeAgrees
  <2>5. PermitsInUse'
    BY <1>2, <1>3, <1>4, <2>1 DEF PermitsInUse, PermitInv, PermitTypeOK, LifeAgrees
  <2>6. OverrunsAreMarked'
    BY <1>1, <2>1, <2>4 DEF OverrunsAreMarked, Running
  <2> QED
    BY <1>2, <2>1, <2>2, <2>3, <2>4, <2>5, <2>6
<1>6. CASE ProviderSettles(a)
  <2>1. /\ provider[a] = "running" /\ provider' = [provider EXCEPT ![a] = "settled"]
        /\ registry' = registry \ {a} /\ marked' = marked \ {a}
        /\ logical' = logical
    BY <1>6 DEF ProviderSettles
  <2>2. AttemptTypeOK'
    BY <1>1, <1>2, <2>1 DEF PermitInv
  <2>3. LifeAgrees' /\ AbortReaches'
    BY <1>1, <1>3, <2>1 DEF LifeAgrees, AbortReaches
  <2>4. Running' = Running \ {a}
    BY <2>1 DEF Running
  <2>5. PermitsInUse'
    BY <1>2, <1>3, <1>4, <2>1 DEF PermitsInUse, PermitInv, PermitTypeOK
  <2>6. OverrunsAreMarked'
    BY <1>1, <2>1, <2>4 DEF OverrunsAreMarked, Running
  <2> QED
    BY <1>2, <2>1, <2>2, <2>3, <2>4, <2>5, <2>6
<1> QED
  BY <1>5, <1>6

\* The provider is started.
LEMMA LaunchStep ==
    ASSUME AttemptInv, NEW a \in Attempts, Launch(a)
    PROVE  AttemptInv'
<1> USE DEF AttemptInv, AttemptTypeOK
<1>1. /\ logical[a] = "acquiring" /\ answer[a] = "permit" /\ MayLaunch(a)
      /\ registry' = registry \union {a}
      /\ provider' = [provider EXCEPT ![a] = "running"]
      /\ logical' = [logical EXCEPT ![a] = "running"]
      /\ UNCHANGED <<activeProviders, waiters, ahead, answer, aborted, marked,
                     stopped, admission, runAborted>>
  BY DEF Launch, permitVars, runVars
<1>2. PermitInv'
  BY <1>1, PermitStepKeepsInv DEF permitVars
<1>3. AttemptTypeOK'
  BY <1>1, <1>2 DEF PermitInv
<1>4. LifeAgrees' /\ AbortReaches'
  BY <1>1 DEF LifeAgrees, AbortReaches
<1>5. Running' = Running \union {a}
  BY <1>1 DEF Running
<1>6. PermitsInUse'
  BY <1>1 DEF PermitsInUse, PermitInv, AnswersAgree, PermitTypeOK
<1>7. OverrunsAreMarked'
  BY <1>1, <1>5 DEF OverrunsAreMarked, Running, MayLaunch, Open
<1> QED
  BY <1>1, <1>2, <1>3, <1>4, <1>5, <1>6, <1>7

\* Steps that abort signals: a timeout, the end of admission, an abort.
LEMMA TimeoutSteps ==
    ASSUME AttemptInv, NEW a \in Attempts, WaitTimesOut(a) \/ LogicalTimesOut(a)
    PROVE  AttemptInv'
<1> USE DEF AttemptInv, AttemptTypeOK
<1>1. /\ logical' = [logical EXCEPT ![a] = "over"] /\ stopped' = stopped \union {a}
      /\ UNCHANGED <<provider, registry, admission, runAborted>>
      /\ marked \subseteq marked' /\ marked' \subseteq registry
      /\ a \in Running => a \in marked'
  BY DEF WaitTimesOut, LogicalTimesOut, Ends, runVars, Running, LifeAgrees
<1>2. PermitInv'
  BY StepUsesPermits, PermitStepKeepsInv DEF AttemptNext, AttemptStep
<1>3. /\ activeProviders' = activeProviders
      /\ \A b \in Attempts : answer'[b] = "none" <=> answer[b] = "none"
      /\ \A b \in Attempts : answer'[b] = "pending" => answer[b] = "pending" /\ b # a
  <2>1. CASE WaitTimesOut(a)
    BY <2>1, AbortEffect DEF WaitTimesOut, PermitInv
  <2>2. CASE LogicalTimesOut(a)
    BY <2>2, AbortEffect DEF LogicalTimesOut, PermitInv, LifeAgrees
  <2> QED
    BY <2>1, <2>2
<1>4. AttemptTypeOK'
  BY <1>1, <1>2 DEF PermitInv
<1>5. LifeAgrees' /\ AbortReaches'
  BY <1>1, <1>3 DEF LifeAgrees, AbortReaches
<1>6. Running' = Running
  BY <1>1 DEF Running
<1>7. logical[a] = "acquiring" => a \notin activeProviders
  BY DEF WaitTimesOut, LogicalTimesOut, PermitInv, AnswersAgree
<1>8. PermitsInUse'
  BY <1>1, <1>3, <1>7 DEF PermitsInUse, PermitInv, PermitTypeOK
<1>9. OverrunsAreMarked'
  BY <1>1, <1>6 DEF OverrunsAreMarked, Running
<1> QED
  BY <1>1, <1>2, <1>4, <1>5, <1>6, <1>8, <1>9

LEMMA RunSteps ==
    ASSUME AttemptInv, NEW r \in Runs, RunStep(r)
    PROVE  AttemptInv'
<1> USE DEF AttemptInv, AttemptTypeOK
<1>1. /\ UNCHANGED <<logical, provider, registry>>
      /\ marked \subseteq marked' /\ marked' \subseteq registry
      /\ stopped \subseteq stopped' /\ stopped' \in SUBSET Attempts
  BY DEF RunStep, CloseAdmission, AbortRun, DrainEnds, DrainExpires, callVars,
         AttemptsOf
<1>2. PermitInv'
  BY StepUsesPermits, PermitStepKeepsInv DEF AttemptNext
<1>3. /\ activeProviders' = activeProviders
      /\ \A b \in Attempts : answer'[b] = "none" <=> answer[b] = "none"
      /\ \A b \in Attempts : answer'[b] = "pending" => answer[b] = "pending"
  BY AbortEffect DEF RunStep, CloseAdmission, AbortRun, DrainEnds,
     DrainExpires, PermitInv, permitVars
<1>4. AttemptTypeOK'
  BY <1>1, <1>2 DEF PermitInv, RunStep, CloseAdmission, AbortRun, DrainEnds,
     DrainExpires
<1>5. LifeAgrees' /\ PermitsInUse'
  BY <1>1, <1>3 DEF LifeAgrees, PermitsInUse
<1>6. AbortReaches'
  <2>1. CASE AbortRun(r)
    BY <1>1, <2>1 DEF AbortReaches, AbortRun, AttemptsOf
  <2>2. CASE CloseAdmission(r) \/ DrainEnds(r) \/ DrainExpires(r)
    BY <1>1, <2>2 DEF AbortReaches, CloseAdmission, DrainEnds, DrainExpires,
       callVars
  <2> QED
    BY <2>1, <2>2 DEF RunStep
<1>7. Running' = Running
  BY <1>1 DEF Running
<1>8. ASSUME NEW b \in Running, admission'[RunOf[b]] = "closed"
      PROVE  b \in marked'
  <2>1. b \in Attempts /\ b \in registry /\ RunOf[b] \in Runs
    BY AttemptAssumption DEF Running
  <2>2. CASE admission[RunOf[b]] = "closed"
    BY <1>1, <2>2, <1>8 DEF OverrunsAreMarked
  <2>3. CASE admission[RunOf[b]] # "closed"
    BY <1>8, <2>1, <2>3 DEF RunStep, CloseAdmission, AbortRun, DrainEnds,
       DrainExpires, InFlight, AttemptsOf, Running
  <2> QED
    BY <2>2, <2>3
<1>9. OverrunsAreMarked'
  BY <1>1, <1>7, <1>8 DEF OverrunsAreMarked
<1> QED
  BY <1>1, <1>2, <1>4, <1>5, <1>6, <1>7, <1>9

LEMMA InitAttemptInv == AttemptInit => AttemptInv
<1> SUFFICES ASSUME AttemptInit PROVE AttemptInv
  OBVIOUS
<1>1. PermitInv
  BY InitPermitInv DEF AttemptInit
<1> QED
  BY <1>1 DEF AttemptInit, PermitInit, AttemptInv, AttemptTypeOK, LifeAgrees,
     AbortReaches, PermitsInUse, OverrunsAreMarked, Running, PermitInv

LEMMA AttemptStepKeepsInv ==
    ASSUME AttemptInv, [AttemptNext]_attemptVars
    PROVE  AttemptInv'
<1>1. CASE AttemptNext
  BY <1>1, QuietSteps, BeginStep, ReleaseSteps, LaunchStep, TimeoutSteps, RunSteps
     DEF AttemptNext, AttemptStep
<1>2. CASE UNCHANGED attemptVars
  <2>1. PermitInv'
    BY <1>2, PermitStepKeepsInv DEF attemptVars, AttemptInv
  <2> QED
    BY <1>2, <2>1 DEF attemptVars, permitVars, callVars, runVars, AttemptInv,
       AttemptTypeOK, PermitInv, LifeAgrees, AbortReaches, PermitsInUse, Running,
       OverrunsAreMarked
<1> QED
  BY <1>1, <1>2

\* The inductive invariant holds.
THEOREM AttemptsSafe == AttemptSpec => []AttemptInv
<1>1. AttemptInit => AttemptInv
  BY InitAttemptInv
<1>2. AttemptInv /\ [AttemptNext]_attemptVars => AttemptInv'
  BY AttemptStepKeepsInv
<1> QED
  BY <1>1, <1>2, PTL DEF AttemptSpec

\* Type correctness.
THEOREM AttemptTypes == AttemptSpec => []AttemptTypeOK
BY AttemptsSafe, PTL DEF AttemptInv

\* No permit is lost and no provider runs without one.
THEOREM PermitsAccounted == AttemptSpec => []PermitsInUse
BY AttemptsSafe, PTL DEF AttemptInv

\* The providers really at work, abandoned ones included, stay within the limit.
THEOREM ProvidersBounded == AttemptSpec => []ProvidersWithinLimit
<1>1. AttemptInv => ProvidersWithinLimit
  <2> SUFFICES ASSUME AttemptInv PROVE ProvidersWithinLimit
    OBVIOUS
  <2>1. Running \subseteq activeProviders /\ activeProviders \in SUBSET Attempts
    BY DEF AttemptInv, PermitsInUse, Running, AttemptTypeOK, PermitTypeOK
  <2>2. Cardinality(Running) <= Cardinality(activeProviders)
    BY <2>1, FewerCalls
  <2>3. Cardinality(activeProviders) <= MaxProviderConcurrency
    BY DEF AttemptInv, PermitInv, WithinLimits
  <2>4. Cardinality(Running) \in Nat /\ Cardinality(activeProviders) \in Nat
    BY <2>1, CallsAreFinite DEF Running
  <2> QED
    BY <2>2, <2>3, <2>4, PermitAssumption DEF ProvidersWithinLimit, AttemptInv
<1> QED
  BY <1>1, AttemptsSafe, PTL

\* A provider that outlives its call or its run is marked late.
THEOREM OverrunsVisible == AttemptSpec => []OverrunsAreMarked
BY AttemptsSafe, PTL DEF AttemptInv

\* No provider starts for a run that is draining or aborted.
THEOREM NoLateStart == AttemptSpec => NoStartAfterClose
<1> DEFINE Early == \A a \in Attempts :
              provider[a] = "none" /\ provider'[a] = "running"
                 => Open(a) /\ ~runAborted[RunOf[a]]
<1>1. ASSUME AttemptInv, [AttemptNext]_attemptVars PROVE [Early]_attemptVars
  <2>1. CASE UNCHANGED attemptVars
    BY <2>1
  <2>2. ASSUME NEW b \in Attempts, Launch(b) PROVE Early
    BY <1>1, <2>2 DEF Launch, MayLaunch, AttemptInv, AbortReaches,
       AttemptTypeOK
  <2>3. ASSUME NEW b \in Attempts, ProviderSettles(b) PROVE Early
    BY <1>1, <2>3 DEF ProviderSettles, AttemptInv, AttemptTypeOK
  <2>4. ASSUME NEW b \in Attempts, AttemptStep(b), ~Launch(b) PROVE Early
    BY <2>4 DEF AttemptStep, Begin, BeginAborted, WaitTimesOut, GiveUp, TurnBack,
       LaunchThrows, LogicalResult, LogicalTimesOut, LogicalAborts
  <2>5. ASSUME NEW r \in Runs, RunStep(r) PROVE Early
    BY <2>5 DEF RunStep, CloseAdmission, AbortRun, DrainEnds, DrainExpires,
       callVars
  <2> QED
    BY <1>1, <2>1, <2>2, <2>3, <2>4, <2>5 DEF AttemptNext
<1> QED
  BY <1>1, AttemptsSafe, PTL DEF AttemptSpec, NoStartAfterClose

\* The attempts' use of permits refines the coordinator's specification.
THEOREM AttemptsUsePermits == AttemptSpec => UsesPermits
<1>1. AttemptInit => PermitInit
  BY DEF AttemptInit
<1>2. AttemptInv /\ [AttemptNext]_attemptVars => [PermitNext]_permitVars
  BY StepUsesPermits DEF AttemptInv
<1> QED
  BY <1>1, <1>2, AttemptsSafe, PTL DEF AttemptSpec, UsesPermits


----------------------------------------------------------------------------
(* RunLease *)

\* At most one process survives a crash.
LoneSurvivor == \A p, q, r \in Procs : p = q \/ q = r \/ p = r

NoContendedTakeover == MaxCrashes = 0 \/ LoneSurvivor

Inside == {"readOwn", "unlinkOwn", "checkOwn", "readRecord", "rename"}

\* Whoever is about to remove a stale lock has no living rival, and a holder's
\* fence is still the revision on disk when it renames.
LeaseInv ==
    /\ LeaseTypeOK
    /\ leased \intersect dead = {}
    /\ HolderKeepsLock
    /\ MaxCrashes = 0 => dead = {}
    /\ \A p \in Procs \ dead :
          /\ pc[p] \in {"link", "exists", "read", "unlink"} => p \notin leased
          /\ pc[p] \in Inside => p \in leased
          /\ pc[p] = "unlink" => \A q \in Procs : q # p => q \in dead
          /\ pc[p] = "rename" => revision = known[p]

LEMMA InitLeaseInv == LeaseInit => LeaseInv
BY LeaseAssumption
   DEF LeaseInit, LeaseInv, LeaseTypeOK, HolderKeepsLock, Inside, Points

\* The steps of acquireRunLease().
LEMMA AcquireSteps ==
    ASSUME NoContendedTakeover, LeaseInv, NEW p \in Procs,
           Acquire(p) \/ Link(p) \/ LinkFails(p) \/ Exists(p) \/ ReadLock(p)
              \/ Unlink(p)
    PROVE  LeaseInv'
<1> USE LeaseAssumption
        DEF LeaseInv, LeaseTypeOK, HolderKeepsLock, Inside, At, Goto
<1>1. CASE Acquire(p)
  BY <1>1 DEF Acquire, Points
<1>2. CASE Link(p)
  <2>1. PICK k \in {known[p], revision} : known' = [known EXCEPT ![p] = k]
    BY <1>2 DEF Link
  <2>2. leased = {}
    BY <1>2 DEF Link
  <2>3. LeaseTypeOK'
    BY <1>2, <2>1 DEF Link, Points
  <2>4. (HolderKeepsLock /\ leased \intersect dead = {})'
    BY <1>2, <2>2 DEF Link
  <2>5. \A q \in Procs \ dead : q # p => pc'[q] = pc[q] /\ pc[q] # "rename"
    BY <1>2, <2>2 DEF Link
  <2>6. \A q \in Procs \ dead : q # p => pc[q] # "unlink"
    BY <1>2 DEF Link
  <2> QED
    BY <1>2, <2>2, <2>3, <2>4, <2>5, <2>6 DEF Link
<1>3. CASE LinkFails(p)
  BY <1>3 DEF LinkFails, Points
<1>4. CASE Exists(p)
  BY <1>4 DEF Exists, TryAgain, Points
<1>5. CASE ReadLock(p)
  <2>1. lock \in dead => \A q \in Procs : q # p => q \in dead
    BY <1>5, NoContendedTakeover DEF ReadLock, NoContendedTakeover, LoneSurvivor
  <2> QED
    BY <1>5, <2>1 DEF ReadLock, Points
<1>6. CASE Unlink(p)
  <2>1. leased = {}
    BY <1>6 DEF Unlink
  <2> QED
    BY <1>6, <2>1 DEF Unlink, TryAgain, Points
<1> QED
  BY <1>1, <1>2, <1>3, <1>4, <1>5, <1>6

\* The steps of releaseRunLease() and save().
LEMMA HolderSteps ==
    ASSUME LeaseInv, NEW p \in Procs,
           ReleaseLease(p) \/ ReadOwn(p) \/ UnlinkOwn(p) \/ Save(p) \/ CheckOwn(p)
              \/ ReadRecord(p) \/ Rename(p)
    PROVE  LeaseInv'
<1> USE LeaseAssumption
        DEF LeaseInv, LeaseTypeOK, HolderKeepsLock, Inside, At, Goto
<1>1. CASE ReleaseLease(p) \/ Save(p)
  BY <1>1 DEF ReleaseLease, Save, Points
<1>2. CASE ReadOwn(p)
  BY <1>2 DEF ReadOwn, Points
<1>3. CASE UnlinkOwn(p)
  BY <1>3 DEF UnlinkOwn, Points
<1>4. CASE CheckOwn(p) \/ ReadRecord(p)
  BY <1>4 DEF CheckOwn, ReadRecord, Points
<1>5. CASE Rename(p)
  <2>1. \A q \in Procs \ dead : q # p => pc[q] # "rename"
    BY <1>5 DEF Rename
  <2> QED
    BY <1>5, <2>1 DEF Rename, Points
<1> QED
  BY <1>1, <1>2, <1>3, <1>4, <1>5

LEMMA CrashStep ==
    ASSUME LeaseInv, NEW p \in Procs, Crash(p)
    PROVE  LeaseInv'
<1>1. MaxCrashes # 0
  BY FS_EmptySet DEF Crash, LeaseInv
<1> QED
  BY <1>1 DEF Crash, LeaseInv, LeaseTypeOK, HolderKeepsLock, Inside

LEMMA LeaseStepKeepsInv ==
    ASSUME NoContendedTakeover, LeaseInv, [LeaseNext]_leaseVars
    PROVE  LeaseInv'
<1>1. CASE LeaseNext
  BY <1>1, NoContendedTakeover, AcquireSteps, HolderSteps, CrashStep
     DEF LeaseNext, SystemCall
<1>2. CASE UNCHANGED leaseVars
  BY <1>2 DEF leaseVars, locals, LeaseInv, LeaseTypeOK, HolderKeepsLock, Inside
<1> QED
  BY <1>1, <1>2

\* Without a contended takeover the lease is what its documentation says, and
\* nothing but its owner removes a lock file.
THEOREM LeaseHolds ==
    ASSUME NoContendedTakeover
    PROVE  LeaseSpec => [](HolderKeepsLock /\ LeaseExclusive)
<1>1. LeaseInit => LeaseInv
  BY InitLeaseInv
<1>2. LeaseInv /\ [LeaseNext]_leaseVars => LeaseInv'
  BY LeaseStepKeepsInv
<1>3. LeaseInv => HolderKeepsLock /\ LeaseExclusive
  BY DEF LeaseInv, HolderKeepsLock, LeaseExclusive
<1> QED
  BY <1>1, <1>2, <1>3, PTL DEF LeaseSpec

\* Nor is an update of the record lost.
THEOREM UpdatesSurvive ==
    ASSUME NoContendedTakeover
    PROVE  LeaseSpec => NoLostUpdate
<1>1. LeaseInit => LeaseInv
  BY InitLeaseInv
<1>2. LeaseInv /\ [LeaseNext]_leaseVars => LeaseInv'
  BY LeaseStepKeepsInv
<1>3. ASSUME LeaseInv, [LeaseNext]_leaseVars
      PROVE  [revision' # revision => revision' = revision + 1]_leaseVars
  BY <1>3 DEF LeaseNext, SystemCall, Acquire, Link, LinkFails, Exists, ReadLock,
     Unlink, ReleaseLease, ReadOwn, UnlinkOwn, Save, CheckOwn, ReadRecord, Rename,
     Crash, LeaseInv, At, leaseVars
<1> QED
  BY <1>1, <1>2, <1>3, PTL DEF LeaseSpec, NoLostUpdate

----------------------------------------------------------------------------
(* UsageLimitScheduler *)

Entry == [attempts : 0..(MaxAttempts + 1), timer : BOOLEAN, gaveUp : BOOLEAN, present : BOOLEAN]
Write == [run : LimitedRuns, attempts : 0..(MaxAttempts + 1)]

\* Timers and the runs they are for: only a run that a limit has paused, and that has
\* not opted out, has a timer or waits for resume(); nothing else changes its status then.
RunTies(r) ==
    /\ orphans[r] = 0
    /\ state[r].timer => status[r] = "limit" /\ r \notin OptedOut /\ state[r].present
                           /\ ~state[r].gaveUp
    /\ firing[r] \in {"waiting", "refused"} => status[r] = "limit" /\ r \notin OptedOut
                                                  /\ state[r].present /\ ~state[r].gaveUp
    /\ firing[r] # "no" => ~state[r].timer

\* The counting: the entry of a run is not behind the resumes there were in this process,
\* and it is ahead of them while a timer or a resume() is under way.
RunCount(r) ==
    /\ resumes[r] \in 0..MaxAttempts
    /\ state[r].present => sessionBound /\ r \notin OptedOut
    /\ state[r].gaveUp => status[r] = "limit"
    /\ ~state[r].gaveUp => state[r].attempts <= MaxAttempts
    /\ status[r] = "running" /\ state[r].present => resumes[r] <= state[r].attempts
    /\ status[r] = "running" /\ ~state[r].present => resumes[r] = 0
    /\ status[r] = "limit" /\ state[r].present => resumes[r] <= state[r].attempts
    /\ state[r].timer \/ firing[r] \in {"waiting", "refused"} => resumes[r] < state[r].attempts
    /\ ~sessionBound => resumes[r] = 0

SchedulerInv ==
    /\ SchedulerTypeOK
    /\ misfires = {}
    /\ \A r \in LimitedRuns : RunTies(r) /\ RunCount(r)

----------------------------------------------------------------------------
(* The sequence of a set's elements. *)

\* A finite set's elements, one after the other: each of them, and nothing else.
LEMMA Enumerated ==
    ASSUME NEW S, IsFiniteSet(S)
    PROVE  /\ SetToSeq(S) \in Seq(S)
           /\ SetToSeq(S) \in [1 .. Cardinality(S) -> S]
           /\ \A x \in S : \E i \in DOMAIN SetToSeq(S) : SetToSeq(S)[i] = x
<1> DEFINE D == 1..Cardinality(S)
           f == SetToSeq(S)
<1>1. Cardinality(S) \in Nat /\ ExistsBijection(D, S)
    BY FS_CardinalityType
<1>2. PICK g : g \in Bijection(D, S)
    BY <1>1 DEF ExistsBijection
<1>3. g \in [D -> S] /\ IsInjective(g)
    BY <1>2 DEF Bijection, Injection
<1>4. f \in [D -> S] /\ IsInjective(f)
    BY <1>3 DEF SetToSeq
<1>5. f \in Seq(S)
    BY <1>1, <1>4
<1>6. f \in Injection(D, S) /\ IsFiniteSet(D) /\ Cardinality(D) = Cardinality(S)
    BY <1>1, <1>4, FS_Interval DEF Injection
<1>7. f \in Surjection(D, S)
    BY <1>6, FS_Injection
<1>8. \A x \in S : \E i \in DOMAIN f : f[i] = x
    BY <1>4, <1>7 DEF Surjection
<1> QED BY <1>4, <1>5, <1>8

----------------------------------------------------------------------------
(* The steps. *)

LEMMA InitSchedulerInv == SchedulerInit => SchedulerInv
<1> SUFFICES ASSUME SchedulerInit PROVE SchedulerInv
    OBVIOUS
<1>1. SchedulerTypeOK
    <2>1. 0 \in 0..(MaxAttempts + 1)
        BY SchedulerAssumption
    <2>2. None \in Entry
        BY <2>1 DEF None, Entry
    <2> HIDE DEF None
    <2>3. state \in [LimitedRuns -> Entry]
        BY <2>2 DEF SchedulerInit
    <2>4. writes \in Seq(Write)
        BY DEF SchedulerInit
    <2> HIDE DEF Write, Entry
    <2>5. state \in [LimitedRuns -> Entry] /\ writes \in Seq(Write)
        BY <2>3, <2>4
    <2>6. /\ status \in [LimitedRuns -> {"running"}]
          /\ diskAttempts \in [LimitedRuns -> 0..(MaxAttempts + 1)]
          /\ orphans \in [LimitedRuns -> Nat]
          /\ firing \in [LimitedRuns -> {"no"}]
          /\ fired \in [LimitedRuns -> 0..(MaxAttempts + 1)]
          /\ resumes \in [LimitedRuns -> Nat]
        BY <2>1 DEF SchedulerInit
    <2> QED BY <2>5, <2>6 DEF SchedulerInit, SchedulerTypeOK, Entry, Write
<1>2. \A r \in LimitedRuns : RunTies(r) /\ RunCount(r)
    BY SchedulerAssumption DEF SchedulerInit, RunTies, RunCount, None
<1> QED BY <1>1, <1>2 DEF SchedulerInit, SchedulerInv

\* What arm() does for a pause: the entry is armed or given up, and written down, or the
\* run is left out and nothing else happens.
LEMMA ArmedOutcome ==
    ASSUME SchedulerTypeOK, NEW r \in LimitedRuns, NEW n \in 1..(MaxAttempts + 2), Apply(Armed(Now, r, n))
    PROVE  \/ /\ ~state[r].present
              /\ UNCHANGED <<state, writes>>
           \/ /\ n <= MaxAttempts
              /\ state' = [state EXCEPT ![r] = ArmedEntry(n)]
              /\ writes' = Append(writes, [run |-> r, attempts |-> n])
           \/ /\ n > MaxAttempts
              /\ state' = [state EXCEPT ![r] = GaveUpEntry]
              /\ writes' = Append(writes, [run |-> r, attempts |-> MaxAttempts + 1])
<1>1. CASE n > MaxAttempts
    BY <1>1 DEF Apply, Armed, Now
<1>2. CASE n <= MaxAttempts /\ ~state[r].present /\ Cardinality(Entries(state)) >= MaxArmedTimers
    BY <1>2, SchedulerAssumption DEF Apply, Armed, Now
<1>3. CASE n <= MaxAttempts /\ ~(~state[r].present /\ Cardinality(Entries(state)) >= MaxArmedTimers)
    BY <1>3, SchedulerAssumption DEF Apply, Armed, Now
<1> QED BY <1>1, <1>2, <1>3, SchedulerAssumption

LEMMA BindStep ==
    ASSUME SchedulerInv, BindSession
    PROVE  SchedulerInv'
<1> DEFINE todo == {r \in LimitedRuns \ OptedOut : status[r] = "limit" /\ ~state[r].present}
           over == {r \in todo : diskAttempts[r] >= MaxAttempts}
<1>0. CASE UNCHANGED <<state, writes>>
    <2>1. SchedulerTypeOK'
        BY <1>0 DEF SchedulerInv, SchedulerTypeOK, BindSession
    <2>2. ASSUME NEW r \in LimitedRuns PROVE RunTies(r)' /\ RunCount(r)'
        BY <1>0 DEF SchedulerInv, RunTies, RunCount, BindSession
    <2> QED BY <2>1, <2>2 DEF SchedulerInv, BindSession
<1> SUFFICES ASSUME Rearm(todo) PROVE SchedulerInv'
    BY <1>0 DEF BindSession
<1>1. PICK kept \in SUBSET (todo \ over) :
            /\ state' = [r \in LimitedRuns |->
                           IF r \in over THEN GaveUpEntry
                           ELSE IF r \in kept THEN ArmedEntry(diskAttempts[r] + 1)
                           ELSE state[r]]
            /\ writes' = writes \o SetToSeq({[run |-> r, attempts |-> state'[r].attempts] :
                                                r \in kept \union over})
    BY DEF Rearm
<1> DEFINE ws == {[run |-> r, attempts |-> state'[r].attempts] : r \in kept \union over}
<1> HIDE DEF ws
<1>2. state' \in [LimitedRuns -> Entry]
    <2>1. /\ state \in [LimitedRuns -> Entry]
          /\ \A r \in LimitedRuns : diskAttempts[r] \in 0..(MaxAttempts + 1)
        BY DEF SchedulerInv, SchedulerTypeOK, Entry
    <2>2. GaveUpEntry \in Entry
        BY SchedulerAssumption DEF Entry, GaveUpEntry
    <2>3. \A k \in 0..(MaxAttempts + 1) : ArmedEntry(k) \in Entry
        BY DEF Entry, ArmedEntry
    <2>4. \A r \in kept : diskAttempts[r] + 1 \in 0..(MaxAttempts + 1)
        BY <2>1, SchedulerAssumption
    <2>5. \A r \in kept : ArmedEntry(diskAttempts[r] + 1) \in Entry
        BY <2>3, <2>4
    <2> QED BY <1>1, <2>1, <2>2, <2>5
<1>3. IsFiniteSet(ws) /\ ws \subseteq Write
    <2>1. IsFiniteSet(kept \union over)
        BY FS_Subset, SchedulerAssumption
    <2>2. IsFiniteSet(ws)
        <3> DEFINE K == kept \union over
                   write == [r \in K |-> [run |-> r, attempts |-> state'[r].attempts]]
        <3>1. write \in Surjection(K, ws)
            BY DEF ws, Surjection
        <3> QED BY <2>1, <3>1, FS_Surjection
    <2>3. \A r \in kept \union over : [run |-> r, attempts |-> state'[r].attempts] \in Write
        BY <1>2 DEF Write, Entry
    <2> QED BY <2>2, <2>3 DEF ws
<1>4. SetToSeq(ws) \in Seq(Write)
    BY <1>3, Enumerated
<1>5. writes = <<>> /\ sessionBound' = TRUE /\ ~sessionBound
    BY DEF BindSession, Quiet
<1>6. writes' = SetToSeq(ws)
    BY <1>1, <1>4, <1>5 DEF ws
<1>7. SchedulerTypeOK'
    BY <1>2, <1>4, <1>6 DEF SchedulerInv, SchedulerTypeOK, BindSession, Entry, Write
<1>8. ASSUME NEW r \in LimitedRuns
      PROVE  RunTies(r)' /\ RunCount(r)'
    <2> HIDE DEF todo, over
    <2>1. r \notin kept \union over => state'[r] = state[r]
        BY <1>1
    <2>2. r \in kept \union over =>
              /\ r \in LimitedRuns \ OptedOut /\ status[r] = "limit" /\ ~state[r].present
              /\ resumes[r] = 0
        BY <1>5 DEF todo, over, SchedulerInv, RunCount
    <2>3. RunTies(r) /\ RunCount(r) /\ SchedulerTypeOK
        BY DEF SchedulerInv
    <2>4. firing[r] = "no" \/ r \notin kept \union over
        BY <2>2, <2>3 DEF BindSession, Quiet, SchedulerTypeOK
    <2>5. CASE r \notin kept \union over
        BY <2>1, <2>3, <2>5, <1>5 DEF RunTies, RunCount, BindSession
    <2>6. CASE r \in over
        <3>1. state'[r] = GaveUpEntry /\ diskAttempts[r] >= MaxAttempts
            BY <1>1, <2>6 DEF over
        <3> QED BY <2>2, <2>3, <2>4, <2>6, <3>1, <1>5, SchedulerAssumption
                DEF RunTies, RunCount, BindSession, GaveUpEntry
    <2>7. CASE r \in kept
        <3>1. state'[r] = ArmedEntry(diskAttempts[r] + 1) /\ diskAttempts[r] < MaxAttempts
            BY <1>1, <2>7, <2>3, SchedulerAssumption DEF over, SchedulerTypeOK
        <3> QED BY <2>2, <2>3, <2>4, <2>7, <3>1, <1>5, SchedulerAssumption
                DEF RunTies, RunCount, BindSession, ArmedEntry, SchedulerTypeOK
    <2> QED BY <2>5, <2>6, <2>7
<1> QED BY <1>7, <1>8 DEF SchedulerInv, BindSession

LEMMA HitStep ==
    ASSUME SchedulerInv, NEW q \in LimitedRuns, HitLimit(q)
    PROVE  SchedulerInv'
<1> DEFINE n == (IF state[q].present THEN state[q].attempts ELSE diskAttempts[q]) + 1
<1>1. SchedulerTypeOK /\ writes = <<>> /\ RunTies(q) /\ RunCount(q) /\ status[q] = "running"
    BY DEF SchedulerInv, HitLimit, Quiet
<1>2. n \in 1..(MaxAttempts + 2)
    BY <1>1, SchedulerAssumption DEF SchedulerTypeOK
<1>3. firing[q] \in {"no", "waiting"} /\ firing[q] # "waiting"
    BY <1>1 DEF HitLimit, Quiet, SchedulerTypeOK
<1>4. \/ UNCHANGED <<state, writes>>
      \/ /\ sessionBound /\ q \notin OptedOut /\ n <= MaxAttempts
         /\ state' = [state EXCEPT ![q] = ArmedEntry(n)]
         /\ writes' = Append(writes, [run |-> q, attempts |-> n])
      \/ /\ sessionBound /\ q \notin OptedOut
         /\ state' = [state EXCEPT ![q] = GaveUpEntry]
         /\ writes' = Append(writes, [run |-> q, attempts |-> MaxAttempts + 1])
    BY <1>1, <1>2, ArmedOutcome DEF HitLimit, HandlePaused, RunCount
<1>5. /\ status' = [status EXCEPT ![q] = "limit"] /\ diskAttempts' = [diskAttempts EXCEPT ![q] = 0]
      /\ UNCHANGED <<managed, sessionBound, orphans, firing, fired, resumes, misfires>>
    BY DEF HitLimit
<1>6. resumes[q] < n /\ resumes[q] <= MaxAttempts
    BY <1>1, SchedulerAssumption DEF SchedulerTypeOK, RunCount
<1> HIDE DEF n
<1>7. \A r \in LimitedRuns : RunTies(r) /\ RunCount(r)
    BY DEF SchedulerInv
<1>8. CASE UNCHANGED <<state, writes>>
    <2>1. SchedulerTypeOK'
        BY <1>1, <1>5, <1>8, SchedulerAssumption DEF SchedulerTypeOK
    <2>2. ~state[q].timer /\ ~state[q].gaveUp /\ (state[q].present => resumes[q] <= state[q].attempts)
        BY <1>1 DEF RunTies, RunCount
    <2>3. \A r \in LimitedRuns : RunTies(r)' /\ RunCount(r)'
        BY <1>1, <1>3, <1>5, <1>7, <1>8, <2>2, SchedulerAssumption DEF SchedulerTypeOK, RunTies, RunCount
    <2> QED BY <2>1, <2>3, <1>5 DEF SchedulerInv
<1>9. ASSUME NEW m \in 1..(MaxAttempts + 1), NEW e,
             e \in {ArmedEntry(m), GaveUpEntry}, resumes[q] < m,
             e = ArmedEntry(m) => m <= MaxAttempts, e = GaveUpEntry => m = MaxAttempts + 1,
             sessionBound, q \notin OptedOut, state' = [state EXCEPT ![q] = e],
             writes' = Append(writes, [run |-> q, attempts |-> m])
      PROVE  SchedulerInv'
    <2>1. /\ e \in Entry /\ e.attempts = m /\ e.present
          /\ e.timer => ~e.gaveUp
          /\ ~e.gaveUp => m <= MaxAttempts
        <3>1. CASE e = ArmedEntry(m)
            BY <1>9, <3>1 DEF ArmedEntry, Entry
        <3>2. CASE e = GaveUpEntry
            BY <1>9, <3>2, SchedulerAssumption DEF GaveUpEntry, Entry
        <3> QED BY <1>9, <3>1, <3>2
    <2>2. writes' = <<[run |-> q, attempts |-> m]>>
        BY <1>1, <1>9
    <2>3. state' \in [LimitedRuns -> Entry] /\ writes' \in Seq(Write)
        BY <1>1, <1>9, <2>1, <2>2 DEF SchedulerTypeOK, Entry, Write
    <2>4. SchedulerTypeOK'
        <3>1. 0 \in 0..(MaxAttempts + 1)
            BY SchedulerAssumption
        <3> HIDE DEF Entry, Write
        <3>2. /\ status' \in [LimitedRuns -> {"running", "unwinding", "limit", "paused", "failed",
                                               "done", "deleted"}]
              /\ diskAttempts' \in [LimitedRuns -> 0..(MaxAttempts + 1)]
            BY <1>1, <1>5, <3>1 DEF SchedulerTypeOK
        <3>3. /\ sessionBound' \in BOOLEAN /\ managed' \subseteq LimitedRuns
              /\ orphans' \in [LimitedRuns -> Nat]
              /\ firing' \in [LimitedRuns -> {"no", "waiting", "resumed", "refused"}]
              /\ fired' \in [LimitedRuns -> 0..(MaxAttempts + 1)]
              /\ resumes' \in [LimitedRuns -> Nat]
            BY <1>1, <1>5 DEF SchedulerTypeOK
        <3> QED BY <2>3, <3>2, <3>3 DEF SchedulerTypeOK, Entry, Write
    <2>5. \A i \in DOMAIN writes' : writes'[i].run = q /\ writes'[i].attempts = m
        BY <2>2
    <2>6. RunTies(q)' /\ RunCount(q)'
        BY <1>1, <1>3, <1>5, <1>6, <1>9, <2>1, <2>2, <2>5, SchedulerAssumption
           DEF SchedulerTypeOK, RunTies, RunCount
    <2>7. ASSUME NEW r \in LimitedRuns, r # q PROVE RunTies(r)' /\ RunCount(r)'
        BY <1>1, <1>5, <1>7, <1>9, <2>5, <2>7, SchedulerAssumption DEF SchedulerTypeOK, RunTies, RunCount
    <2> QED BY <2>4, <2>6, <2>7, <1>5 DEF SchedulerInv
<1>10. n \in 1..(MaxAttempts + 1) \/ n > MaxAttempts
    BY <1>2, SchedulerAssumption
<1>11. MaxAttempts + 1 \in 1..(MaxAttempts + 1) /\ resumes[q] < MaxAttempts + 1 /\ ArmedEntry(n) # GaveUpEntry
    BY <1>1, <1>6, SchedulerAssumption DEF SchedulerTypeOK, ArmedEntry, GaveUpEntry
<1>12. GaveUpEntry # ArmedEntry(MaxAttempts + 1)
    BY DEF ArmedEntry, GaveUpEntry
<1>13. CASE sessionBound /\ q \notin OptedOut /\ n <= MaxAttempts
               /\ state' = [state EXCEPT ![q] = ArmedEntry(n)]
               /\ writes' = Append(writes, [run |-> q, attempts |-> n])
    <2>1. n \in 1..(MaxAttempts + 1)
        BY <1>2, <1>13, SchedulerAssumption
    <2>2. ArmedEntry(n) \in {ArmedEntry(n), GaveUpEntry}
        OBVIOUS
    <2> QED BY <2>1, <2>2, <1>6, <1>9, <1>11, <1>13
<1>14. CASE sessionBound /\ q \notin OptedOut
               /\ state' = [state EXCEPT ![q] = GaveUpEntry]
               /\ writes' = Append(writes, [run |-> q, attempts |-> MaxAttempts + 1])
    BY <1>9, <1>11, <1>12, <1>14
<1> QED BY <1>4, <1>8, <1>13, <1>14

\* The steps that change neither an entry nor what is to be written.
LEMMA PauseStep ==
    ASSUME SchedulerInv, NEW q \in LimitedRuns, PauseByHand(q) \/ Unwound(q)
    PROVE  SchedulerInv'
<1>1. SchedulerTypeOK'
    BY DEF SchedulerInv, SchedulerTypeOK, PauseByHand, Unwound
<1>2. ASSUME NEW r \in LimitedRuns PROVE RunTies(r)' /\ RunCount(r)'
    BY DEF SchedulerInv, SchedulerTypeOK, RunTies, RunCount, PauseByHand, Unwound, Quiet
<1> QED BY <1>1, <1>2 DEF SchedulerInv, PauseByHand, Unwound

LEMMA RewrittenStep ==
    ASSUME SchedulerInv, NEW q \in LimitedRuns, Rewritten(q)
    PROVE  SchedulerInv'
<1>1. SchedulerTypeOK'
    BY SchedulerAssumption DEF SchedulerInv, SchedulerTypeOK, Rewritten
<1>2. ASSUME NEW r \in LimitedRuns PROVE RunTies(r)' /\ RunCount(r)'
    BY DEF SchedulerInv, RunTies, RunCount, Rewritten
<1> QED BY <1>1, <1>2 DEF SchedulerInv, Rewritten

LEMMA ResumeStep ==
    ASSUME SchedulerInv, NEW q \in LimitedRuns, ResumeByHand(q)
    PROVE  SchedulerInv'
<1>1. SchedulerTypeOK /\ writes = <<>> /\ RunTies(q)
    BY DEF SchedulerInv, ResumeByHand, Quiet
<1>2. firing[q] = "no"
    BY <1>1 DEF ResumeByHand, Quiet, SchedulerTypeOK, Paused
<1>3. /\ state' = [state EXCEPT ![q] = None]
      /\ writes' = <<[run |-> q, attempts |-> 0]>>
      /\ status' = [status EXCEPT ![q] = "running"]
      /\ diskAttempts' = [diskAttempts EXCEPT ![q] = 0]
      /\ resumes' = [resumes EXCEPT ![q] = 0]
      /\ managed' = managed \union {q}
      /\ UNCHANGED <<sessionBound, orphans, firing, fired, misfires>>
    BY <1>1, <1>2 DEF ResumeByHand, HandleResumed, Cleanup
<1>4. SchedulerTypeOK'
    BY <1>1, <1>3, SchedulerAssumption DEF SchedulerTypeOK, None
<1>5. ASSUME NEW r \in LimitedRuns PROVE RunTies(r)' /\ RunCount(r)'
    BY <1>1, <1>2, <1>3, SchedulerAssumption DEF SchedulerInv, SchedulerTypeOK, RunTies, RunCount, None
<1> QED BY <1>3, <1>4, <1>5 DEF SchedulerInv

LEMMA TerminalStep ==
    ASSUME SchedulerInv, NEW q \in LimitedRuns, Terminal(q)
    PROVE  SchedulerInv'
<1>1. SchedulerTypeOK /\ RunTies(q) /\ firing[q] # "waiting" /\ firing[q] # "refused"
    BY DEF SchedulerInv, Terminal, Quiet, RunTies
<1>2. PICK end \in {"done", "failed", "deleted"} : status' = [status EXCEPT ![q] = end]
    BY DEF Terminal
<1>3. /\ state' = [state EXCEPT ![q] = None]
      /\ UNCHANGED <<managed, diskAttempts, sessionBound, orphans, firing, fired, writes, resumes,
                     misfires>>
    BY DEF Terminal, Cleanup
<1>4. SchedulerTypeOK'
    BY <1>1, <1>2, <1>3, SchedulerAssumption DEF SchedulerTypeOK, None
<1>5. ASSUME NEW r \in LimitedRuns PROVE RunTies(r)' /\ RunCount(r)'
    BY <1>1, <1>2, <1>3, SchedulerAssumption DEF SchedulerInv, SchedulerTypeOK, RunTies, RunCount, None
<1> QED BY <1>3, <1>4, <1>5 DEF SchedulerInv

LEMMA FireStep ==
    ASSUME SchedulerInv, NEW q \in LimitedRuns, Fire(q)
    PROVE  SchedulerInv'
<1>1. SchedulerTypeOK /\ RunTies(q) /\ RunCount(q) /\ state[q].timer
    BY DEF SchedulerInv, Fire, RunTies, SchedulerTypeOK
<1>2. /\ state' = [state EXCEPT ![q].timer = FALSE]
      /\ firing' = [firing EXCEPT ![q] = "waiting"]
      /\ fired' = [fired EXCEPT ![q] = state[q].attempts]
      /\ UNCHANGED <<status, managed, diskAttempts, sessionBound, orphans, writes, resumes, misfires>>
    BY <1>1 DEF Fire, RunTies
<1>3. SchedulerTypeOK'
    <2>1. state \in [LimitedRuns -> Entry]
        BY <1>1 DEF SchedulerTypeOK, Entry
    <2>2. [state[q] EXCEPT !.timer = FALSE] \in Entry /\ state[q].attempts \in 0..(MaxAttempts + 1)
        BY <2>1 DEF Entry
    <2>3. state' \in [LimitedRuns -> Entry]
        BY <1>2, <2>1, <2>2
    <2> QED BY <1>1, <1>2, <2>2, <2>3 DEF SchedulerTypeOK, Entry
<1>4. ASSUME NEW r \in LimitedRuns PROVE RunTies(r)' /\ RunCount(r)'
    <2>1. RunTies(r) /\ RunCount(r)
        BY DEF SchedulerInv
    <2>2. /\ state'[r].attempts = state[r].attempts /\ state'[r].present = state[r].present
          /\ state'[r].gaveUp = state[r].gaveUp
          /\ state'[r].timer => r # q /\ state[r].timer
          /\ firing'[r] = IF r = q THEN "waiting" ELSE firing[r]
        BY <1>1, <1>2 DEF SchedulerTypeOK
    <2>3. RunTies(r)'
        BY <1>1, <1>2, <2>1, <2>2 DEF RunTies
    <2>4. RunCount(r)'
        BY <1>1, <1>2, <2>1, <2>2 DEF RunCount
    <2> QED BY <2>3, <2>4
<1> QED BY <1>2, <1>3, <1>4 DEF SchedulerInv

LEMMA AnswerStep ==
    ASSUME SchedulerInv, NEW q \in LimitedRuns, ResumeSucceeds(q) \/ ResumeRefuses(q)
    PROVE  SchedulerInv'
<1>1. SchedulerTypeOK /\ RunTies(q) /\ RunCount(q) /\ firing[q] = "waiting"
    BY DEF SchedulerInv, ResumeSucceeds, ResumeRefuses
<1>2. CASE ResumeSucceeds(q)
    <2>1. /\ status' = [status EXCEPT ![q] = "running"]
          /\ diskAttempts' = [diskAttempts EXCEPT ![q] = 0]
          /\ firing' = [firing EXCEPT ![q] = "resumed"]
          /\ resumes' = [resumes EXCEPT ![q] = @ + 1]
          /\ managed' = managed \union {q}
          /\ UNCHANGED <<sessionBound, state, orphans, fired, writes, misfires>>
        BY <1>1, <1>2 DEF ResumeSucceeds, HandleResumed, RunTies
    <2>2. SchedulerTypeOK'
        BY <1>1, <2>1, SchedulerAssumption DEF SchedulerTypeOK
    <2>4. RunTies(q)' /\ RunCount(q)'
        BY <1>1, <2>1, SchedulerAssumption DEF SchedulerTypeOK, RunTies, RunCount
    <2>3. ASSUME NEW r \in LimitedRuns PROVE RunTies(r)' /\ RunCount(r)'
        <3>1. CASE r # q
            BY <1>1, <2>1, <3>1 DEF SchedulerInv, SchedulerTypeOK, RunTies, RunCount
        <3> QED BY <2>4, <3>1
    <2> QED BY <2>1, <2>2, <2>3 DEF SchedulerInv
<1>3. CASE ResumeRefuses(q)
    <2>1. SchedulerTypeOK'
        BY <1>1, <1>3 DEF ResumeRefuses, SchedulerTypeOK
    <2>2. ASSUME NEW r \in LimitedRuns PROVE RunTies(r)' /\ RunCount(r)'
        BY <1>1, <1>3 DEF ResumeRefuses, SchedulerInv, SchedulerTypeOK, RunTies, RunCount
    <2> QED BY <1>3, <2>1, <2>2 DEF SchedulerInv, ResumeRefuses
<1> QED BY <1>2, <1>3

LEMMA ContinueStep ==
    ASSUME SchedulerInv, NEW q \in LimitedRuns, Continue(q)
    PROVE  SchedulerInv'
<1>1. SchedulerTypeOK /\ RunTies(q) /\ RunCount(q)
    BY DEF SchedulerInv
<1>2. /\ firing' = [firing EXCEPT ![q] = "no"] /\ fired' = [fired EXCEPT ![q] = 0]
      /\ UNCHANGED <<status, managed, diskAttempts, sessionBound, orphans, writes, resumes, misfires>>
    BY <1>1 DEF Continue, RetryLater, ForgetUnlisted, RunTies, SchedulerTypeOK
<1> DEFINE e == ArmedEntry(state[q].attempts)
<1>3. /\ e \in Entry /\ e.attempts = state[q].attempts /\ e.present /\ ~e.gaveUp
      /\ None \in Entry /\ ~None.present /\ ~None.timer /\ ~None.gaveUp /\ None.attempts = 0
    BY <1>1, SchedulerAssumption DEF ArmedEntry, None, Entry, SchedulerTypeOK
<1>4. \/ UNCHANGED state
      \/ firing[q] = "refused" /\ state' = [state EXCEPT ![q] = e]
      \/ firing[q] = "refused" /\ state' = [state EXCEPT ![q] = None]
    BY <1>1 DEF Continue, RetryLater, ForgetUnlisted, Cleanup, RunTies, SchedulerTypeOK
<1> HIDE DEF e
<1>5. state' \in [LimitedRuns -> Entry]
    <2> HIDE DEF None
    <2> QED BY <1>1, <1>3, <1>4 DEF SchedulerTypeOK, Entry
<1>6. SchedulerTypeOK'
    <2>1. fired' \in [LimitedRuns -> 0..(MaxAttempts + 1)]
        BY <1>1, <1>2, SchedulerAssumption DEF SchedulerTypeOK
    <2> QED BY <1>1, <1>2, <1>5, <2>1 DEF SchedulerTypeOK, Entry
<1>7. RunTies(q)' /\ RunCount(q)'
    <2>1. CASE UNCHANGED state
        BY <1>1, <1>2, <2>1 DEF SchedulerTypeOK, RunTies, RunCount
    <2>2. CASE firing[q] = "refused" /\ state' = [state EXCEPT ![q] = e]
        <3>1. state'[q] = e
            BY <1>1, <2>2 DEF SchedulerTypeOK
        <3> QED BY <1>1, <1>2, <1>3, <2>2, <3>1 DEF SchedulerTypeOK, RunTies, RunCount
    <2>3. CASE firing[q] = "refused" /\ state' = [state EXCEPT ![q] = None]
        <3> HIDE DEF None
        <3>1. state'[q] = None
            BY <1>1, <2>3 DEF SchedulerTypeOK
        <3> QED BY <1>1, <1>2, <1>3, <2>3, <3>1, SchedulerAssumption
                DEF SchedulerTypeOK, RunTies, RunCount
    <2> QED BY <1>4, <2>1, <2>2, <2>3
<1>8. ASSUME NEW r \in LimitedRuns, r # q PROVE RunTies(r)' /\ RunCount(r)'
    <2>1. state'[r] = state[r] /\ firing'[r] = firing[r]
        BY <1>1, <1>2, <1>4, <1>8 DEF SchedulerTypeOK
    <2> QED BY <1>2, <2>1 DEF SchedulerInv, RunTies, RunCount
<1> QED BY <1>2, <1>6, <1>7, <1>8 DEF SchedulerInv

LEMMA PersistStep ==
    ASSUME SchedulerInv, PersistAttempts
    PROVE  SchedulerInv'
<1> DEFINE w == Head(writes)
<1>1. SchedulerTypeOK /\ writes # <<>>
    BY DEF SchedulerInv, PersistAttempts
<1>2. w \in Write /\ writes' \in Seq(Write)
    <2>1. writes \in Seq(Write) /\ writes' = Tail(writes)
        BY <1>1 DEF SchedulerTypeOK, PersistAttempts, Write
    <2> HIDE DEF Write
    <2> QED BY <1>1, <2>1, HeadTailProperties
<1> HIDE DEF w
<1>3. /\ UNCHANGED diskAttempts \/ diskAttempts' = [diskAttempts EXCEPT ![w.run] = w.attempts]
      /\ UNCHANGED <<status, managed, sessionBound, state, orphans, firing, fired, resumes, misfires>>
    BY DEF PersistAttempts, w
<1>4. SchedulerTypeOK'
    BY <1>1, <1>2, <1>3 DEF SchedulerTypeOK, Write
<1>5. ASSUME NEW r \in LimitedRuns PROVE RunTies(r)' /\ RunCount(r)'
    BY <1>3 DEF SchedulerInv, RunTies, RunCount
<1> QED BY <1>3, <1>4, <1>5 DEF SchedulerInv

LEMMA RestartStep ==
    ASSUME SchedulerInv, Restart
    PROVE  SchedulerInv'
<1>1. SchedulerTypeOK /\ writes' = <<>>
    BY DEF SchedulerInv, Restart
<1>4. None \in Entry /\ 0 \in 0..(MaxAttempts + 1)
    BY SchedulerAssumption DEF None, Entry
<1>5. state' \in [LimitedRuns -> Entry]
    <2> HIDE DEF None, Entry
    <2> QED BY <1>4 DEF Restart
<1>6. /\ status' \in [LimitedRuns -> {"running", "unwinding", "limit", "paused", "failed", "done",
                                        "deleted"}]
      /\ resumes' \in [LimitedRuns -> Nat]
      /\ orphans' \in [LimitedRuns -> Nat]
      /\ firing' \in [LimitedRuns -> {"no", "waiting", "resumed", "refused"}]
    BY <1>1 DEF SchedulerTypeOK, Restart
<1>2. SchedulerTypeOK'
    <2>1. writes' \in Seq(Write)
        BY <1>1
    <2>2. /\ diskAttempts' \in [LimitedRuns -> 0..(MaxAttempts + 1)]
          /\ fired' \in [LimitedRuns -> 0..(MaxAttempts + 1)]
          /\ sessionBound' \in BOOLEAN /\ managed' \subseteq LimitedRuns
        BY <1>1, <1>4 DEF SchedulerTypeOK, Restart
    <2> QED BY <1>5, <1>6, <2>1, <2>2 DEF SchedulerTypeOK, Entry, Write
<1>3. ASSUME NEW r \in LimitedRuns PROVE RunTies(r)' /\ RunCount(r)'
    <2>1. RunTies(r) /\ RunCount(r)
        BY DEF SchedulerInv
    <2>2. /\ state'[r] = None /\ orphans'[r] = 0 /\ firing'[r] = "no" /\ resumes'[r] = 0
          /\ status'[r] # "running"
        BY <1>1 DEF SchedulerTypeOK, Restart
    <2> QED BY <2>1, <2>2, SchedulerAssumption DEF RunTies, RunCount, None
<1> QED BY <1>2, <1>3 DEF SchedulerInv, Restart

LEMMA NextSchedulerInv == SchedulerInv /\ [SchedulerNext]_schedulerVars => SchedulerInv'
<1> SUFFICES ASSUME SchedulerInv, [SchedulerNext]_schedulerVars PROVE SchedulerInv'
    OBVIOUS
<1>1. CASE UNCHANGED schedulerVars
    BY <1>1 DEF SchedulerInv, SchedulerTypeOK, RunTies, RunCount, schedulerVars
<1>2. CASE SchedulerNext
    BY <1>2, BindStep, HitStep, PauseStep, RewrittenStep, ResumeStep, TerminalStep, FireStep, AnswerStep,
       ContinueStep, PersistStep, RestartStep DEF SchedulerNext
<1> QED BY <1>1, <1>2

----------------------------------------------------------------------------
(* The theorems. *)

THEOREM SchedulerInvariant == SchedulerSpec => []SchedulerInv
BY InitSchedulerInv, NextSchedulerInv, PTL DEF SchedulerSpec

\* However events, timers, writes and restarts interleave, an automatic resume is one of
\* a run that the limit has paused and that has not opted out (handleResumed, onTerminal).
THEOREM OnlyLimitsResume == SchedulerSpec => []OnlyLimitPausesResume
<1>1. SchedulerInv => OnlyLimitPausesResume
    BY DEF SchedulerInv, OnlyLimitPausesResume
<1> QED BY <1>1, SchedulerInvariant, PTL

\* In one process there are at most maxAttempts automatic resumes between two by hand,
\* whatever reads and writes of the record fail, and whichever of them another write of the
\* record overtakes; and no timer is lost sight of (arm, onTimerFire, coldStartRearm).
THEOREM AttemptsCapped == SchedulerSpec => []AttemptsAreCapped
<1>1. SchedulerInv => AttemptsAreCapped
    BY SchedulerAssumption DEF SchedulerInv, RunTies, RunCount, AttemptsAreCapped
<1> QED BY <1>1, SchedulerInvariant, PTL

----------------------------------------------------------------------------
(* AgentSession: the gate before a cold cache *)

\* Who waits at the gate waits there for a first time, and nobody twice; an owner is one that
\* has come there, and there is one as long as the gate is claimed for a request.
GateInv ==
    /\ stage \in [Sessions -> Stages]
    /\ gate \in [claimed: BOOLEAN, warmed: BOOLEAN]
    /\ gateWaiters \in Seq(Sessions) /\ IsInjective(gateWaiters)
    /\ granted = [s \in Sessions |-> granted[s]]
    /\ \A s \in Sessions :
        /\ stage[s] \in {"idle", "loading", "creating"} => granted[s] = "no"
        /\ s \in ToSet(gateWaiters) => stage[s] = "gate" /\ granted[s] = "no"
    /\ \A s \in holder : s \in Sessions /\ stage[s] \in {"prompt", "repair"}
    /\ \A s, t \in GateOwners : s = t
    /\ GateOwners # {} <=> gate.claimed /\ ~gate.warmed
    /\ gateWaiters # <<>> => gate.claimed /\ ~gate.warmed

LEMMA TailWaits ==
    ASSUME NEW S, NEW w \in Seq(S), IsInjective(w), w # <<>>
    PROVE  /\ Head(w) \in S /\ Head(w) \in ToSet(w)
           /\ Tail(w) \in Seq(S) /\ IsInjective(Tail(w))
           /\ ToSet(Tail(w)) = ToSet(w) \ {Head(w)}
<1>1. Len(w) \in Nat /\ Len(w) > 0 /\ DOMAIN w = 1 .. Len(w)
    BY EmptySeq, LenProperties
<1>2. Head(w) = w[1] /\ w[1] \in S
    BY <1>1, HeadTailProperties, ElementOfSeq
<1>3. /\ Tail(w) \in Seq(S) /\ Len(Tail(w)) = Len(w) - 1
      /\ \A i \in 1 .. Len(w) - 1 : Tail(w)[i] = w[i + 1]
    BY <1>1, HeadTailProperties
<1>4. DOMAIN Tail(w) = 1 .. Len(w) - 1
    BY <1>3, LenProperties
<1>5. IsInjective(Tail(w))
  <2> SUFFICES ASSUME NEW a \in 1 .. Len(w) - 1, NEW b \in 1 .. Len(w) - 1, Tail(w)[a] = Tail(w)[b]
               PROVE  a = b
    BY <1>4 DEF IsInjective
  <2>1. a + 1 \in DOMAIN w /\ b + 1 \in DOMAIN w /\ w[a + 1] = w[b + 1]
    BY <1>1, <1>3
  <2> QED
    BY <1>1, <2>1 DEF IsInjective
<1>6. ASSUME NEW x PROVE x \in ToSet(Tail(w)) <=> x \in ToSet(w) \ {w[1]}
  <2>1. ASSUME x \in ToSet(Tail(w)) PROVE x \in ToSet(w) \ {w[1]}
    <3>1. PICK i \in 1 .. Len(w) - 1 : x = w[i + 1]
      BY <1>3, <1>4, <2>1 DEF ToSet
    <3>2. i + 1 \in DOMAIN w /\ 1 \in DOMAIN w /\ i + 1 # 1
      BY <1>1
    <3> QED
      BY <3>1, <3>2 DEF ToSet, IsInjective
  <2>2. ASSUME x \in ToSet(w), x # w[1] PROVE x \in ToSet(Tail(w))
    <3>1. PICK i \in 1 .. Len(w) : x = w[i]
      BY <1>1, <2>2 DEF ToSet
    <3>2. i - 1 \in 1 .. Len(w) - 1 /\ (i - 1) + 1 = i
      BY <1>1, <2>2, <3>1
    <3>3. Tail(w)[i - 1] = x
      BY <1>3, <3>1, <3>2
    <3> QED
      BY <1>4, <3>2, <3>3 DEF ToSet
  <2> QED
    BY <2>1, <2>2
<1> QED
  <2>1. w[1] \in ToSet(w)
    BY <1>1 DEF ToSet
  <2> QED
    BY <1>2, <1>3, <1>5, <1>6, <2>1

LEMMA AppendWaits ==
    ASSUME NEW S, NEW w \in Seq(S), IsInjective(w), NEW x \in S, x \notin ToSet(w)
    PROVE  /\ Append(w, x) \in Seq(S) /\ IsInjective(Append(w, x)) /\ Append(w, x) # <<>>
           /\ ToSet(Append(w, x)) = ToSet(w) \cup {x}
<1>1. Len(w) \in Nat /\ DOMAIN w = 1 .. Len(w)
    BY LenProperties
<1>2. /\ Append(w, x) \in Seq(S) /\ Len(Append(w, x)) = Len(w) + 1
      /\ \A i \in 1 .. Len(w) : Append(w, x)[i] = w[i]
      /\ Append(w, x)[Len(w) + 1] = x
    BY AppendProperties
<1>3. DOMAIN Append(w, x) = 1 .. Len(w) + 1
    BY <1>2, LenProperties
<1>4. IsInjective(Append(w, x))
    BY <1>1, <1>2, <1>3 DEF IsInjective, ToSet
<1>5. ToSet(Append(w, x)) = ToSet(w) \cup {x}
  <2>1. ASSUME NEW y PROVE y \in ToSet(Append(w, x)) <=> y \in ToSet(w) \cup {x}
    BY <1>1, <1>2, <1>3 DEF ToSet
  <2> QED
    BY <2>1
<1>6. Append(w, x) # <<>>
    BY <1>1, <1>2, EmptySeq
<1> QED
    BY <1>2, <1>4, <1>5, <1>6

\* A sequence without one of its elements.
LEMMA RemovedIs ==
    ASSUME NEW S, NEW w \in Seq(S), NEW k \in 1 .. Len(w)
    PROVE  /\ RemoveAt(w, k) \in Seq(S) /\ Len(RemoveAt(w, k)) = Len(w) - 1
           /\ \A i \in 1 .. Len(w) - 1 : RemoveAt(w, k)[i] = w[IF i < k THEN i ELSE i + 1]
<1> DEFINE u == SubSeq(w, 1, k - 1)
           v == SubSeq(w, k + 1, Len(w))
<1>0. Len(w) \in Nat /\ \A i \in 1 .. Len(w) : w[i] \in S
    BY LenProperties, ElementOfSeq
<1>1. u \in Seq(S) /\ Len(u) = k - 1 /\ \A i \in 1 .. k - 1 : u[i] = w[i]
    BY <1>0
<1>2. v \in Seq(S) /\ Len(v) = Len(w) - k /\ \A i \in 1 .. Len(w) - k : v[i] = w[k + i]
    BY <1>0
<1>3. RemoveAt(w, k) = u \o v
    BY DEF RemoveAt
<1> HIDE DEF u, v
<1>4. /\ u \o v \in Seq(S) /\ Len(u \o v) = Len(u) + Len(v)
      /\ \A i \in 1 .. Len(u) + Len(v) : (u \o v)[i] = IF i <= Len(u) THEN u[i] ELSE v[i - Len(u)]
    BY <1>1, <1>2, ConcatProperties
<1>5. ASSUME NEW i \in 1 .. Len(w) - 1 PROVE (u \o v)[i] = w[IF i < k THEN i ELSE i + 1]
  <2>1. CASE i < k
    BY <1>0, <1>1, <1>2, <1>4, <2>1
  <2>2. CASE ~(i < k)
    <3>1. i - (k - 1) \in 1 .. Len(w) - k /\ k + (i - (k - 1)) = i + 1
      BY <1>0, <2>2
    <3>2. (u \o v)[i] = v[i - (k - 1)]
      BY <1>0, <1>1, <1>2, <1>4, <2>2
    <3> QED
      BY <1>2, <2>2, <3>1, <3>2
  <2> QED
    BY <2>1, <2>2
<1>6. Len(u \o v) = Len(w) - 1
    BY <1>0, <1>1, <1>2, <1>4
<1> QED
    BY <1>3, <1>4, <1>5, <1>6

LEMMA RemovedAt ==
    ASSUME NEW S, NEW w \in Seq(S), NEW k \in 1 .. Len(w)
    PROVE  /\ RemoveAt(w, k) \in Seq(S)
           /\ \A x : Contains(RemoveAt(w, k), x) => Contains(w, x)
<1>1. Len(w) \in Nat
    BY LenProperties
<1>2. \A i \in 1 .. Len(w) - 1 : (IF i < k THEN i ELSE i + 1) \in 1 .. Len(w)
    BY <1>1
<1> QED
    BY <1>2, RemovedIs DEF Contains

LEMMA RemovedWaits ==
    ASSUME NEW S, NEW w \in Seq(S), IsInjective(w), NEW k \in 1 .. Len(w)
    PROVE  /\ RemoveAt(w, k) \in Seq(S) /\ IsInjective(RemoveAt(w, k))
           /\ ToSet(RemoveAt(w, k)) \subseteq ToSet(w) \ {w[k]}
           /\ w[k] \in ToSet(w) /\ w # <<>>
<1> DEFINE t == RemoveAt(w, k)
           from(i) == IF i < k THEN i ELSE i + 1
<1>1. Len(w) \in Nat /\ DOMAIN w = 1 .. Len(w)
    BY LenProperties
<1>2. t \in Seq(S) /\ Len(t) = Len(w) - 1 /\ \A i \in 1 .. Len(w) - 1 : t[i] = w[from(i)]
    BY RemovedIs
<1> HIDE DEF t
<1>3. DOMAIN t = 1 .. Len(w) - 1
    BY <1>2, LenProperties
<1>4. IsInjective(t)
  <2> SUFFICES ASSUME NEW a \in 1 .. Len(w) - 1, NEW b \in 1 .. Len(w) - 1, t[a] = t[b]
               PROVE  a = b
    BY <1>3 DEF IsInjective
  <2>1. from(a) \in DOMAIN w /\ from(b) \in DOMAIN w /\ w[from(a)] = w[from(b)]
    BY <1>1, <1>2
  <2>2. from(a) = from(b)
    BY <2>1 DEF IsInjective
  <2> QED
    BY <2>2
<1>5. ToSet(t) \subseteq ToSet(w) \ {w[k]}
  <2> SUFFICES ASSUME NEW i \in 1 .. Len(w) - 1 PROVE t[i] \in ToSet(w) /\ t[i] # w[k]
    BY <1>3 DEF ToSet
  <2>1. from(i) \in DOMAIN w /\ k \in DOMAIN w /\ from(i) # k /\ t[i] = w[from(i)]
    BY <1>1, <1>2
  <2> QED
    BY <2>1 DEF ToSet, IsInjective
<1>6. w[k] \in ToSet(w) /\ w # <<>>
    BY <1>1, EmptySeq DEF ToSet
<1> QED
    BY <1>2, <1>4, <1>5, <1>6 DEF t

LEMMA EmptyWaits ==
    ASSUME NEW S
    PROVE  /\ <<>> \in Seq(S) /\ IsInjective(<<>>) /\ ToSet(<<>>) = {}
           /\ \A w \in Seq(S) : ToSet(w) \subseteq S /\ (w = <<>> <=> ToSet(w) = {})
<1>1. <<>> \in Seq(S) /\ Len(<<>>) = 0 /\ DOMAIN <<>> = 1 .. 0
    BY EmptySeq, LenProperties
<1>2. IsInjective(<<>>) /\ ToSet(<<>>) = {}
    BY <1>1 DEF IsInjective, ToSet
<1>3. ASSUME NEW w \in Seq(S) PROVE ToSet(w) \subseteq S /\ (w = <<>> <=> ToSet(w) = {})
  <2>1. Len(w) \in Nat /\ DOMAIN w = 1 .. Len(w) /\ \A i \in 1 .. Len(w) : w[i] \in S
    BY LenProperties, ElementOfSeq
  <2>2. w # <<>> => 1 \in DOMAIN w
    BY <2>1, EmptySeq
  <2> QED
    BY <1>2, <2>1, <2>2 DEF ToSet
<1> QED
    BY <1>1, <1>2, <1>3

\* Nothing about the gate changes, and nobody comes to it or leaves it.
LEMMA GateStays ==
    ASSUME GateInv, UNCHANGED gateVars, stage' \in [Sessions -> Stages],
           \A s \in Sessions : stage'[s] = stage[s] \/
               /\ stage[s] # "gate" /\ stage'[s] # "gate"
               /\ stage'[s] \in {"idle", "loading", "creating"} =>
                    stage[s] \in {"idle", "loading", "creating"}
               /\ s \in holder => stage'[s] \in {"prompt", "repair"}
    PROVE  GateInv'
<1>1. UNCHANGED <<gate, gateWaiters, granted, holder>>
    BY DEF gateVars
<1>2. GateOwners' = GateOwners
    BY <1>1 DEF GateOwners
<1>3. ToSet(gateWaiters)' = ToSet(gateWaiters) /\ IsInjective(gateWaiters)'
    BY <1>1 DEF GateInv, ToSet, IsInjective
<1>4. \A s \in Sessions :
        /\ stage'[s] \in {"idle", "loading", "creating"} => granted'[s] = "no"
        /\ s \in ToSet(gateWaiters)' => stage'[s] = "gate" /\ granted'[s] = "no"
    BY <1>1, <1>3 DEF GateInv
<1>5. \A s \in holder : s \in Sessions /\ stage'[s] \in {"prompt", "repair"}
    BY DEF GateInv
<1> QED
    BY <1>1, <1>2, <1>3, <1>4, <1>5 DEF GateInv

\* Who holds the gate is the owner.
LEMMA HolderOwns ==
    ASSUME GateInv, NEW s \in GateOwners
    PROVE  /\ gate.claimed /\ ~gate.warmed /\ s \in Sessions
           /\ holder \ {s} = {}
           /\ \A t \in Sessions : stage[t] = "gate" /\ granted[t] = "owner" => t = s
BY DEF GateInv, GateOwners

\* The owner's first answer lets everybody in.
LEMMA WarmKeeps ==
    ASSUME GateInv, WarmGate, NEW s \in holder, holder' = holder \ {s},
           stage' \in [Sessions -> Stages],
           \A t \in Sessions : t # s => stage'[t] = stage[t],
           stage'[s] \notin {"idle", "loading", "creating", "gate"}
    PROVE  GateInv'
<1>1. s \in GateOwners
    BY DEF GateOwners
<1>2. holder' = {} /\ \A t \in Sessions : stage[t] = "gate" /\ granted[t] = "owner" => t = s
    BY <1>1, HolderOwns
<1>3. /\ gate' = [claimed |-> TRUE, warmed |-> TRUE] /\ gateWaiters' = <<>>
      /\ granted' = [t \in Sessions |-> IF t \in ToSet(gateWaiters) THEN "follower" ELSE granted[t]]
    BY DEF WarmGate, Granted
<1>4. GateOwners' = {}
    BY <1>2, <1>3 DEF GateOwners
<1>5. gateWaiters' \in Seq(Sessions) /\ IsInjective(gateWaiters') /\ ToSet(gateWaiters') = {}
    BY <1>3, EmptyWaits
<1>6. \A t \in Sessions :
        stage'[t] \in {"idle", "loading", "creating"} => granted'[t] = "no"
    BY <1>3 DEF GateInv
<1>7. IsInjective(gateWaiters)' /\ ToSet(gateWaiters)' = {}
    BY <1>5 DEF IsInjective, ToSet
<1> QED
    BY <1>2, <1>3, <1>4, <1>5, <1>6, <1>7 DEF GateInv

\* An owner that goes without an answer hands the gate to the first that waits.
LEMMA ReleaseKeeps ==
    ASSUME GateInv, ReleaseGate, NEW s \in GateOwners, holder' = holder \ {s},
           NEW how \in {"result", "error"}, Goes(s, how)
    PROVE  GateInv'
<1>1. s \in Sessions /\ gate.claimed /\ ~gate.warmed /\ holder' = {}
    BY HolderOwns
<1>2. stage' = [stage EXCEPT ![s] = how] /\ how \in Stages
    BY DEF Goes, Stages
<1>3. /\ stage' \in [Sessions -> Stages] /\ stage'[s] = how
      /\ \A t \in Sessions : t # s => stage'[t] = stage[t]
    BY <1>1, <1>2 DEF GateInv
<1>4. \A t \in Sessions : stage[t] = "gate" /\ granted[t] = "owner" => t = s
    BY HolderOwns
<1>5. s \notin ToSet(gateWaiters)
    BY <1>1 DEF GateInv, GateOwners
<1>6. gateWaiters \in Seq(Sessions) /\ IsInjective(gateWaiters)
    BY DEF GateInv
<1>7. CASE gateWaiters = <<>>
  <2>1. gate' = [gate EXCEPT !.claimed = FALSE] /\ granted' = granted /\ gateWaiters' = <<>>
    BY <1>1, <1>7 DEF ReleaseGate
  <2>2. GateOwners' = {}
    BY <1>1, <1>3, <1>4, <2>1 DEF GateOwners
  <2>3. IsInjective(gateWaiters)' /\ ToSet(gateWaiters)' = {} /\ gateWaiters' \in Seq(Sessions)
    BY <2>1, EmptyWaits DEF IsInjective, ToSet
  <2>4. gate' \in [claimed: BOOLEAN, warmed: BOOLEAN] /\ ~gate'.claimed
    BY <2>1 DEF GateInv
  <2>5. \A t \in Sessions :
          stage'[t] \in {"idle", "loading", "creating"} => granted'[t] = "no"
    BY <1>3, <2>1 DEF GateInv
  <2> QED
    BY <1>1, <1>3, <2>1, <2>2, <2>3, <2>4, <2>5 DEF GateInv
<1>8. CASE gateWaiters # <<>>
  <2> DEFINE h == Head(gateWaiters)
  <2>1. /\ h \in Sessions /\ h \in ToSet(gateWaiters)
        /\ Tail(gateWaiters) \in Seq(Sessions) /\ IsInjective(Tail(gateWaiters))
        /\ ToSet(Tail(gateWaiters)) = ToSet(gateWaiters) \ {h}
    BY <1>6, <1>8, TailWaits
  <2>2. /\ gate' = [gate EXCEPT !.claimed = TRUE] /\ gateWaiters' = Tail(gateWaiters)
        /\ granted' = [t \in Sessions |-> IF t = h THEN "owner" ELSE granted[t]]
    BY <1>1, <1>8 DEF ReleaseGate, Granted
  <2> HIDE DEF h
  <2>3. h # s /\ stage'[h] = "gate"
    BY <1>3, <1>5, <2>1 DEF GateInv
  <2>4. GateOwners' = {h}
    BY <1>1, <1>3, <1>4, <2>1, <2>2, <2>3 DEF GateOwners
  <2>5. IsInjective(gateWaiters)' /\ ToSet(gateWaiters)' = ToSet(gateWaiters) \ {h}
    BY <2>1, <2>2 DEF IsInjective, ToSet
  <2>6. gate' \in [claimed: BOOLEAN, warmed: BOOLEAN] /\ gate'.claimed /\ ~gate'.warmed
    BY <1>1, <2>2 DEF GateInv
  <2>7. \A t \in Sessions :
          /\ stage'[t] \in {"idle", "loading", "creating"} => granted'[t] = "no"
          /\ t \in ToSet(gateWaiters)' => stage'[t] = "gate" /\ granted'[t] = "no"
    BY <1>3, <1>5, <2>2, <2>3, <2>5 DEF GateInv
  <2> QED
    BY <1>1, <1>3, <2>1, <2>2, <2>4, <2>5, <2>6, <2>7 DEF GateInv
<1> QED
    BY <1>7, <1>8

\* A session that has come as far as prompts leaves what it holds.
LEMMA FinallyKeeps ==
    ASSUME GateInv, NEW s \in Sessions, stage[s] \in {"prompt", "repair"}, NEW completed,
           NEW how \in {"result", "error"}, Finally(s, completed, how)
    PROVE  GateInv'
<1>1. stage' = [stage EXCEPT ![s] = how] /\ how \in Stages
    BY DEF Finally, Goes, Stages
<1>2. /\ stage' \in [Sessions -> Stages] /\ stage'[s] = how
      /\ \A t \in Sessions : t # s => stage'[t] = stage[t]
    BY <1>1 DEF GateInv
<1>3. CASE s \in holder /\ WarmGate /\ holder' = holder \ {s}
    BY <1>2, <1>3, WarmKeeps
<1>4. CASE s \in holder /\ ReleaseGate /\ holder' = holder \ {s}
  <2>1. s \in GateOwners /\ Goes(s, how)
    BY <1>4 DEF GateOwners, Finally
  <2> QED
    BY <1>4, <2>1, ReleaseKeeps
<1>5. CASE s \notin holder /\ UNCHANGED gateVars
    BY <1>2, <1>5, GateStays
<1> QED
    BY <1>3, <1>4, <1>5 DEF Finally

\* wait(): an owner if there is none, a follower if the cache is warm, or else one more that waits.
LEMMA EnterKeeps ==
    ASSUME GateInv, NEW s \in Sessions, EnterGate(s)
    PROVE  GateInv'
<1>1. PICK g \in {gate, [claimed |-> FALSE, warmed |-> FALSE]} :
        /\ g # gate => gate.warmed
        /\ \/ g.warmed /\ granted' = Granted({s}, "follower") /\ gate' = g /\ UNCHANGED gateWaiters
           \/ /\ ~g.warmed /\ ~g.claimed
              /\ granted' = Granted({s}, "owner")
              /\ gate' = [g EXCEPT !.claimed = TRUE]
              /\ UNCHANGED gateWaiters
           \/ /\ ~g.warmed /\ g.claimed
              /\ gateWaiters' = Append(gateWaiters, s)
              /\ gate' = g
              /\ UNCHANGED granted
    BY DEF EnterGate
<1>2. stage[s] = "creating" /\ stage' = [stage EXCEPT ![s] = "gate"] /\ holder' = holder
    BY DEF EnterGate, Goes
<1>3. /\ stage' \in [Sessions -> Stages] /\ stage'[s] = "gate"
      /\ \A t \in Sessions : t # s => stage'[t] = stage[t]
    BY <1>2 DEF GateInv, Stages
<1>4. granted[s] = "no" /\ s \notin ToSet(gateWaiters) /\ s \notin holder
    BY <1>2 DEF GateInv
<1>5. /\ g \in [claimed: BOOLEAN, warmed: BOOLEAN]
      /\ GateOwners # {} <=> g.claimed /\ ~g.warmed
      /\ gateWaiters # <<>> => g.claimed /\ ~g.warmed
  <2>1. CASE g = gate
    BY <2>1 DEF GateInv
  <2>2. CASE g # gate
    <3>1. g = [claimed |-> FALSE, warmed |-> FALSE] /\ gate.warmed
      BY <1>1, <2>2
    <3>2. GateOwners = {} /\ gateWaiters = <<>>
      BY <3>1 DEF GateInv
    <3> QED
      BY <3>1, <3>2
  <2> QED
    BY <2>1, <2>2
<1>6. \A t \in holder : t \in Sessions /\ stage'[t] \in {"prompt", "repair"}
    BY <1>3, <1>4 DEF GateInv
<1>7. CASE g.warmed /\ granted' = Granted({s}, "follower") /\ gate' = g /\ UNCHANGED gateWaiters
  <2>1. granted' = [t \in Sessions |-> IF t = s THEN "follower" ELSE granted[t]]
    BY <1>7 DEF Granted
  <2>2. GateOwners = {} /\ GateOwners' = {}
    <3>1. GateOwners = {}
      BY <1>5, <1>7
    <3>2. holder' = {} /\ \A t \in Sessions : ~(stage[t] = "gate" /\ granted[t] = "owner")
      BY <1>2, <3>1 DEF GateOwners
    <3>3. \A t \in Sessions : ~(stage'[t] = "gate" /\ granted'[t] = "owner")
      BY <1>3, <2>1, <3>2
    <3> QED
      BY <3>1, <3>2, <3>3 DEF GateOwners
  <2>3. IsInjective(gateWaiters)' /\ ToSet(gateWaiters)' = ToSet(gateWaiters)
    BY <1>7 DEF IsInjective, ToSet, GateInv
  <2>4. \A t \in Sessions :
          /\ stage'[t] \in {"idle", "loading", "creating"} => granted'[t] = "no"
          /\ t \in ToSet(gateWaiters)' => stage'[t] = "gate" /\ granted'[t] = "no"
    BY <1>3, <1>4, <2>1, <2>3 DEF GateInv
  <2> QED
    BY <1>2, <1>3, <1>5, <1>6, <1>7, <2>1, <2>2, <2>3, <2>4 DEF GateInv
<1>8. CASE ~g.warmed /\ ~g.claimed /\ granted' = Granted({s}, "owner")
           /\ gate' = [g EXCEPT !.claimed = TRUE] /\ UNCHANGED gateWaiters
  <2>1. granted' = [t \in Sessions |-> IF t = s THEN "owner" ELSE granted[t]]
    BY <1>8 DEF Granted
  <2>2. GateOwners' = {s}
    BY <1>2, <1>3, <1>5, <1>8, <2>1 DEF GateOwners
  <2>3. IsInjective(gateWaiters)' /\ ToSet(gateWaiters)' = ToSet(gateWaiters)
    BY <1>8 DEF IsInjective, ToSet, GateInv
  <2>4. \A t \in Sessions :
          /\ stage'[t] \in {"idle", "loading", "creating"} => granted'[t] = "no"
          /\ t \in ToSet(gateWaiters)' => stage'[t] = "gate" /\ granted'[t] = "no"
    BY <1>3, <1>4, <2>1, <2>3 DEF GateInv
  <2>5. gate' \in [claimed: BOOLEAN, warmed: BOOLEAN] /\ gate'.claimed /\ ~gate'.warmed
    BY <1>5, <1>8
  <2> QED
    BY <1>2, <1>3, <1>6, <1>8, <2>1, <2>2, <2>3, <2>4, <2>5 DEF GateInv
<1>9. CASE ~g.warmed /\ g.claimed /\ gateWaiters' = Append(gateWaiters, s)
           /\ gate' = g /\ UNCHANGED granted
  <2>1. /\ gateWaiters' \in Seq(Sessions) /\ IsInjective(gateWaiters')
        /\ ToSet(gateWaiters') = ToSet(gateWaiters) \cup {s}
    BY <1>4, <1>9, AppendWaits DEF GateInv
  <2>2. GateOwners' = GateOwners
    BY <1>2, <1>3, <1>4, <1>9 DEF GateOwners
  <2>3. IsInjective(gateWaiters)' /\ ToSet(gateWaiters)' = ToSet(gateWaiters) \cup {s}
    BY <2>1 DEF IsInjective, ToSet
  <2>4. \A t \in Sessions :
          /\ stage'[t] \in {"idle", "loading", "creating"} => granted'[t] = "no"
          /\ t \in ToSet(gateWaiters)' => stage'[t] = "gate" /\ granted'[t] = "no"
    BY <1>3, <1>4, <1>9, <2>3 DEF GateInv
  <2> QED
    BY <1>2, <1>3, <1>5, <1>6, <1>9, <2>1, <2>2, <2>3, <2>4 DEF GateInv
<1> QED
    BY <1>1, <1>7, <1>8, <1>9

LEMMA LeaveKeeps ==
    ASSUME GateInv, NEW s \in Sessions, LeaveGate(s)
    PROVE  GateInv'
<1>1. stage[s] = "gate" /\ granted[s] # "no"
    BY DEF LeaveGate
<1>2. s \notin holder /\ (granted[s] = "owner" => s \in GateOwners)
    BY <1>1 DEF GateInv, GateOwners
<1>3. s \notin ToSet(gateWaiters)
    BY <1>1 DEF GateInv
<1>4. CASE Goes(s, "error") /\ granted[s] = "owner" /\ ReleaseGate /\ UNCHANGED holder
  <2>1. holder' = holder \ {s}
    BY <1>2, <1>4
  <2> QED
    BY <1>2, <1>4, <2>1, ReleaseKeeps
<1>5. CASE /\ UNCHANGED <<gate, gateWaiters, granted>>
           /\ \/ Goes(s, "error") /\ granted[s] # "owner" /\ UNCHANGED holder
              \/ Goes(s, "prompt") /\ holder' = IF granted[s] = "owner" THEN holder \cup {s} ELSE holder
  <2>1. PICK to \in {"error", "prompt"} :
          /\ stage' = [stage EXCEPT ![s] = to]
          /\ holder' = IF granted[s] = "owner" THEN holder \cup {s} ELSE holder
          /\ granted[s] = "owner" => to = "prompt"
    BY <1>5 DEF Goes
  <2>2. /\ stage' \in [Sessions -> Stages] /\ stage'[s] = to
        /\ \A t \in Sessions : t # s => stage'[t] = stage[t]
    BY <2>1 DEF GateInv, Stages
  <2>3. GateOwners' = GateOwners
    BY <1>1, <1>5, <2>1, <2>2 DEF GateOwners
  <2>4. IsInjective(gateWaiters)' /\ ToSet(gateWaiters)' = ToSet(gateWaiters)
    BY <1>5 DEF IsInjective, ToSet, GateInv
  <2>5. \A t \in Sessions :
          /\ stage'[t] \in {"idle", "loading", "creating"} => granted'[t] = "no"
          /\ t \in ToSet(gateWaiters)' => stage'[t] = "gate" /\ granted'[t] = "no"
    BY <1>3, <1>5, <2>2, <2>4 DEF GateInv
  <2>6. \A t \in holder' : t \in Sessions /\ stage'[t] \in {"prompt", "repair"}
    BY <1>2, <2>1, <2>2 DEF GateInv
  <2> QED
    BY <1>5, <2>2, <2>3, <2>4, <2>5, <2>6 DEF GateInv
<1> QED
    BY <1>4, <1>5 DEF LeaveGate

\* The signal of a session that waits at the gate.
LEMMA SignalKeeps ==
    ASSUME GateInv, NEW s \in Sessions, Signal(s)
    PROVE  GateInv'
<1>1. UNCHANGED <<stage, gate, holder>>
    BY DEF Signal
<1>2. CASE UNCHANGED <<gateWaiters, granted>>
  <2>1. UNCHANGED gateVars
    BY <1>1, <1>2 DEF gateVars
  <2>2. stage' \in [Sessions -> Stages]
    BY <1>1 DEF GateInv
  <2> QED
    BY <1>1, <2>1, <2>2, GateStays
<1>3. ASSUME NEW i \in 1 .. Len(gateWaiters), gateWaiters[i] = s,
             gateWaiters' = RemoveAt(gateWaiters, i), granted' = Granted({s}, "rejected")
      PROVE  GateInv'
  <2>1. /\ gateWaiters' \in Seq(Sessions) /\ IsInjective(gateWaiters')
        /\ ToSet(gateWaiters') \subseteq ToSet(gateWaiters) \ {s}
        /\ s \in ToSet(gateWaiters) /\ gateWaiters # <<>>
    BY <1>3, RemovedWaits DEF GateInv
  <2>2. granted' = [t \in Sessions |-> IF t = s THEN "rejected" ELSE granted[t]]
    BY <1>3 DEF Granted
  <2>3. granted[s] = "no" /\ stage[s] = "gate"
    BY <2>1 DEF GateInv
  <2>4. GateOwners' = GateOwners
    BY <1>1, <2>2, <2>3 DEF GateOwners
  <2>5. IsInjective(gateWaiters)' /\ ToSet(gateWaiters)' \subseteq ToSet(gateWaiters) \ {s}
    BY <2>1 DEF IsInjective, ToSet
  <2>6. \A t \in Sessions :
          /\ stage'[t] \in {"idle", "loading", "creating"} => granted'[t] = "no"
          /\ t \in ToSet(gateWaiters)' => stage'[t] = "gate" /\ granted'[t] = "no"
    BY <1>1, <2>2, <2>3, <2>5 DEF GateInv
  <2> QED
    BY <1>1, <2>1, <2>2, <2>4, <2>5, <2>6 DEF GateInv
<1> QED
    BY <1>2, <1>3 DEF Signal

LEMMA AnswerKeeps ==
    ASSUME GateInv, NEW s \in Sessions, FirstAnswer(s)
    PROVE  GateInv'
<1>1. UNCHANGED stage /\ stage[s] \in {"prompt", "repair"}
    BY DEF FirstAnswer
<1>2. stage' \in [Sessions -> Stages]
    BY <1>1 DEF GateInv
<1>3. CASE s \in holder /\ WarmGate /\ holder' = holder \ {s}
    BY <1>1, <1>2, <1>3, WarmKeeps
<1>4. CASE UNCHANGED gateVars
    BY <1>1, <1>2, <1>4, GateStays
<1> QED
    BY <1>3, <1>4 DEF FirstAnswer

LEMMA CompleteKeeps ==
    ASSUME GateInv, NEW s \in Sessions, PromptCompletes(s)
    PROVE  GateInv'
<1>1. stage[s] \in {"prompt", "repair"}
    BY DEF PromptCompletes
<1>2. CASE \E how \in {"result", "error"} : Finally(s, TRUE, how)
    BY <1>1, <1>2, FinallyKeeps
<1>3. CASE Goes(s, "repair") /\ UNCHANGED gateVars
  <2>1. stage' = [stage EXCEPT ![s] = "repair"]
    BY <1>3 DEF Goes
  <2>2. /\ stage' \in [Sessions -> Stages] /\ stage'[s] = "repair"
        /\ \A t \in Sessions : t # s => stage'[t] = stage[t]
    BY <2>1 DEF GateInv, Stages
  <2> QED
    BY <1>1, <1>3, <2>2, GateStays
<1>4. ASSUME NEW tries, Resolve(s, tries)
      PROVE  (\E how \in {"result", "error"} : Finally(s, TRUE, how))
                \/ (Goes(s, "repair") /\ UNCHANGED gateVars)
    BY <1>4 DEF Resolve
<1> QED
    BY <1>2, <1>3, <1>4 DEF PromptCompletes

LEMMA EarlyKeeps ==
    ASSUME GateInv,
           \/ LoaderSettles
           \/ \E s \in Sessions : Prepare(s) \/ CreateFails(s) \/ AbortedBeforeGate(s) \/ CallsStructuredOutput(s)
    PROVE  GateInv'
<1>1. CASE LoaderSettles
  <2>1. PICK built \in BOOLEAN :
          stage' = [s \in Sessions |-> IF stage[s] # "loading" THEN stage[s]
                                       ELSE IF built THEN "creating" ELSE "error"]
    BY <1>1 DEF LoaderSettles
  <2>2. UNCHANGED gateVars
    BY <1>1 DEF LoaderSettles
  <2>3. stage' \in [Sessions -> Stages]
    BY <2>1 DEF GateInv, Stages
  <2>4. \A s \in holder : stage[s] # "loading"
    BY DEF GateInv
  <2>5. \A s \in Sessions : stage'[s] = stage[s] \/
               /\ stage[s] = "loading" /\ s \notin holder
               /\ stage'[s] \in {"creating", "error"}
    BY <2>1, <2>4
  <2> QED
    BY <2>2, <2>3, <2>5, GateStays
<1>2. ASSUME NEW s \in Sessions, Prepare(s) \/ CreateFails(s) \/ AbortedBeforeGate(s)
      PROVE  GateInv'
  <2>1. PICK to \in {"loading", "creating", "error"} : stage' = [stage EXCEPT ![s] = to]
    BY <1>2 DEF Prepare, CreateFails, AbortedBeforeGate, Goes
  <2>2. stage[s] \in {"idle", "creating"} /\ UNCHANGED gateVars
    BY <1>2 DEF Prepare, CreateFails, AbortedBeforeGate
  <2>3. /\ stage' \in [Sessions -> Stages] /\ stage'[s] = to
        /\ \A t \in Sessions : t # s => stage'[t] = stage[t]
    BY <2>1 DEF GateInv, Stages
  <2>4. s \notin holder
    BY <2>2 DEF GateInv
  <2> QED
    BY <2>2, <2>3, <2>4, GateStays
<1>3. ASSUME NEW s \in Sessions, CallsStructuredOutput(s) PROVE GateInv'
  <2>1. UNCHANGED gateVars /\ UNCHANGED stage
    BY <1>3 DEF CallsStructuredOutput
  <2>2. stage' \in [Sessions -> Stages]
    BY <2>1 DEF GateInv
  <2> QED
    BY <2>1, <2>2, GateStays
<1> QED
    BY <1>1, <1>2, <1>3

LEMMA GateInvInit == SessionInit => GateInv
<1> SUFFICES ASSUME SessionInit PROVE GateInv
    OBVIOUS
<1>1. gateWaiters \in Seq(Sessions) /\ IsInjective(gateWaiters) /\ ToSet(gateWaiters) = {} /\ gateWaiters = <<>>
    BY EmptyWaits DEF SessionInit
<1>2. GateOwners = {}
    BY DEF GateOwners, SessionInit
<1> QED
    BY <1>1, <1>2 DEF GateInv, SessionInit, Stages

LEMMA GateInvStep == GateInv /\ [SessionNext]_sessionVars => GateInv'
<1> SUFFICES ASSUME GateInv, [SessionNext]_sessionVars PROVE GateInv'
    OBVIOUS
<1>1. ASSUME NEW s \in Sessions, PromptThrows(s) PROVE GateInv'
  <2>1. stage[s] \in {"prompt", "repair"} /\ Finally(s, stage[s] = "repair", "error")
    BY <1>1 DEF PromptThrows
  <2> QED
    BY <2>1, FinallyKeeps
<1>2. CASE UNCHANGED sessionVars
  <2>1. UNCHANGED gateVars /\ UNCHANGED stage
    BY <1>2 DEF sessionVars
  <2>2. stage' \in [Sessions -> Stages]
    BY <2>1 DEF GateInv
  <2> QED
    BY <2>1, <2>2, GateStays
<1> QED
    BY <1>1, <1>2, EarlyKeeps, EnterKeeps, LeaveKeeps, CompleteKeeps, AnswerKeeps, SignalKeeps
    DEF SessionNext, GoesOn

\* While agents wait at the gate there is exactly one on whose answer or failure they wait, and
\* that one is alive: any number of sessions, aborts and failures, and times the cache expires.
THEOREM GateIsOwned == SessionSpec => []GateHasOwner
<1>1. GateInv => GateHasOwner
  <2> SUFFICES ASSUME GateInv PROVE GateHasOwner
    OBVIOUS
  <2>1. Cardinality(GateOwners) =< 1
    <3>1. CASE GateOwners = {}
      BY <3>1, FS_EmptySet
    <3>2. ASSUME NEW s \in GateOwners PROVE Cardinality(GateOwners) =< 1
      <4>1. GateOwners = {s}
        BY <3>2 DEF GateInv
      <4> QED
        BY <4>1, FS_Singleton
    <3> QED
      BY <3>1, <3>2
  <2>2. \A s \in GateOwners : stage[s] \in {"gate", "prompt", "repair"}
    BY DEF GateInv, GateOwners
  <2> QED
    BY <2>1, <2>2 DEF GateInv, GateHasOwner
<1> QED
    BY <1>1, GateInvInit, GateInvStep, PTL DEF SessionSpec

----------------------------------------------------------------------------
(* Navigator *)

IsFrame(f) ==
    /\ f = [kind |-> f.kind, cursor |-> f.cursor, run |-> f.run, agent |-> f.agent]
    /\ f.cursor \in Nat
    /\ f.kind \in {"phases", "agents", "detail"} => f.run \in ShownRuns
    /\ f.kind = "detail" => f.agent \in Agents

\* The views, with the lists at the bottom.
IsStack(s) ==
    /\ \E S : s \in Seq(S)
    /\ Len(s) > 0 /\ s[1].kind = "runs"
    /\ \A i \in 1 .. Len(s) : IsFrame(s[i])

\* What a redraw leaves: the detail shows no more than there is.
Painted ==
    Top.kind = "detail" => drawn \in Nat /\ drawn =< history[Top.run][Top.agent]

NavigatorInv ==
    /\ listing \in Seq(ShownRuns)
    /\ history \in [ShownRuns -> [Agents -> Nat]]
    /\ saved \in Seq(ToSet(Saved))
    /\ IsStack(stack)
    /\ Painted
    /\ ActivityIsShown

LEMMA StackIs ==
    ASSUME NEW s, IsStack(s)
    PROVE  /\ Len(s) \in Nat /\ Len(s) > 0 /\ DOMAIN s = 1 .. Len(s)
           /\ Last(s) = s[Len(s)] /\ IsFrame(Last(s))
<1>1. PICK S : s \in Seq(S)
    BY DEF IsStack
<1>2. Len(s) \in Nat /\ Len(s) > 0 /\ DOMAIN s = 1 .. Len(s)
    BY <1>1, LenProperties DEF IsStack
<1>3. Last(s) = s[Len(s)]
    BY DEF Last
<1> QED
    BY <1>2, <1>3 DEF IsStack

LEMMA TopIs == NavigatorInv => IsFrame(Top)
BY StackIs DEF NavigatorInv, Top

\* A stack that differs in the cursor of its top.
LEMMA CursorPut ==
    ASSUME NEW s, IsStack(s), NEW c \in Nat
    PROVE  LET t == [s EXCEPT ![Len(s)].cursor = c]
           IN  /\ IsStack(t)
               /\ Last(t).kind = Last(s).kind /\ Last(t).cursor = c
               /\ Last(t).run = Last(s).run /\ Last(t).agent = Last(s).agent
<1> DEFINE t == [s EXCEPT ![Len(s)].cursor = c]
           top == [s[Len(s)] EXCEPT !.cursor = c]
<1>1. PICK S : s \in Seq(S)
    BY DEF IsStack
<1>2. Len(s) \in Nat /\ Len(s) > 0 /\ DOMAIN s = 1 .. Len(s) /\ Last(s) = s[Len(s)] /\ IsFrame(Last(s))
    BY StackIs
<1>3. t = [s EXCEPT ![Len(s)] = top]
    OBVIOUS
<1>4. top = [kind |-> Last(s).kind, cursor |-> c, run |-> Last(s).run, agent |-> Last(s).agent]
    BY <1>2 DEF IsFrame
<1>5. IsFrame(top)
    BY <1>2, <1>4 DEF IsFrame
<1>6. s \in Seq(S \cup {top})
    BY <1>1, SeqMonotonic
<1>7. t \in Seq(S \cup {top}) /\ Len(t) = Len(s)
    BY <1>2, <1>3, <1>6, ExceptSeq
<1>8. t[Len(s)] = top /\ \A i \in 1 .. Len(s) : i # Len(s) => t[i] = s[i]
    BY <1>2, <1>3
<1>9. t[1].kind = "runs"
    BY <1>2, <1>4, <1>8 DEF IsStack
<1>10. \A i \in 1 .. Len(s) : IsFrame(t[i])
    BY <1>2, <1>5, <1>8 DEF IsStack
<1>11. IsStack(t)
    BY <1>2, <1>7, <1>9, <1>10 DEF IsStack
<1>12. Last(t) = top
    BY <1>7, <1>8 DEF Last
<1> QED
    BY <1>4, <1>11, <1>12

\* A stack without its top, and with one more.
LEMMA FrontIs ==
    ASSUME NEW s, IsStack(s), Len(s) > 1
    PROVE  IsStack(Front(s))
<1>1. PICK S : s \in Seq(S)
    BY DEF IsStack
<1>2. Len(s) \in Nat /\ DOMAIN s = 1 .. Len(s)
    BY <1>1, LenProperties
<1>3. /\ Front(s) \in Seq(S) /\ Len(Front(s)) = Len(s) - 1
      /\ \A i \in 1 .. Len(s) - 1 : Front(s)[i] = s[i]
  <2>1. \A i \in 1 .. Len(s) - 1 : s[i] \in S
    BY <1>1, <1>2, ElementOfSeq
  <2> QED
    BY <1>1, <1>2, <2>1 DEF Front
<1> QED
    BY <1>2, <1>3 DEF IsStack

LEMMA AppendIs ==
    ASSUME NEW s, IsStack(s), NEW f, IsFrame(f)
    PROVE  IsStack(Append(s, f))
<1>1. PICK S : s \in Seq(S)
    BY DEF IsStack
<1>2. s \in Seq(S \cup {f}) /\ Len(s) \in Nat
    BY <1>1, SeqMonotonic, LenProperties
<1>3. /\ Append(s, f) \in Seq(S \cup {f}) /\ Len(Append(s, f)) = Len(s) + 1
      /\ \A i \in 1 .. Len(s) : Append(s, f)[i] = s[i]
      /\ Append(s, f)[Len(s) + 1] = f
    BY <1>2, AppendProperties
<1> QED
    BY <1>2, <1>3 DEF IsStack

\* How much there is to move the cursor over.
LEMMA CountIs ==
    ASSUME NavigatorInv, NEW f, IsFrame(f)
    PROVE  /\ CountOf(f) \in Nat /\ BlocksOf(f) \in Nat
           /\ f.kind = "detail" => CountOf(f) = BlocksOf(f)
<1>1. BlocksOf(f) \in Nat
    BY DEF BlocksOf, IsFrame, NavigatorInv
<1>2. Len(listing) \in Nat /\ Len(saved) \in Nat /\ Cardinality(Agents) \in Nat
    BY LenProperties, FS_CardinalityType, NavigatorAssumption DEF NavigatorInv
<1> QED
    BY <1>1, <1>2 DEF CountOf

LEMMA ClampedIs ==
    ASSUME NEW c \in Int, NEW n \in Nat
    PROVE  Clamped(c, n) \in Nat /\ (c = n - 1 => Clamped(c, n) + 1 >= n)
BY DEF Clamped

\* After a redraw nothing is behind, whatever has come into the list, if that is new.
LEMMA RenderShows ==
    ASSUME NavigatorInv, NEW s, NEW p, IsStack(s), Render(s, p), history' = history,
           listing' \in Seq(ShownRuns), saved' \in Seq(ToSet(Saved)),
           \A r \in ShownRuns : Contains(listing', r) =>
               Contains(listing, r) \/ \A a \in Agents : history[r][a] = 0
    PROVE  NavigatorInv'
<1> DEFINE f == Last(s)
           n == CountOf(f)
           wanted == IF f.kind = "detail" /\ p.tailing THEN n - 1 ELSE f.cursor
           c == IF f.kind = "savedDetail" THEN 0 ELSE Clamped(wanted, n)
<1>1. stack' = [s EXCEPT ![Len(s)].cursor = c] /\ pager' = p /\ drawn' = BlocksOf(f)
    BY DEF Render
<1>2. IsFrame(f)
    BY StackIs
<1>3. n \in Nat /\ BlocksOf(f) \in Nat /\ (f.kind = "detail" => n = BlocksOf(f))
    BY <1>2, CountIs
<1>4. wanted \in Int
    BY <1>2, <1>3 DEF IsFrame
<1>5. c \in Nat /\ (f.kind = "detail" /\ p.tailing => c + 1 >= n)
    BY <1>3, <1>4, ClampedIs
<1>6. ASSUME f.kind = "detail"
      PROVE  /\ f.run \in ShownRuns /\ f.agent \in Agents
             /\ BlocksOf(f) = IF Contains(listing, f.run) THEN history[f.run][f.agent] ELSE 0
    BY <1>2, <1>6 DEF IsFrame, BlocksOf
<1> HIDE DEF c, n, wanted
<1>7. /\ IsStack(stack')
      /\ Last(stack').kind = f.kind /\ Last(stack').cursor = c
      /\ Last(stack').run = f.run /\ Last(stack').agent = f.agent
    BY <1>1, <1>5, CursorPut
<1>8. Top'.kind = f.kind /\ Top'.cursor = c /\ Top'.run = f.run /\ Top'.agent = f.agent
    BY <1>7 DEF Top
<1>9. IsStack(stack)'
    BY <1>7 DEF IsStack, IsFrame
<1>10. Painted'
    BY <1>1, <1>3, <1>6, <1>8 DEF Painted, NavigatorInv
<1>11. ActivityIsShown'
  <2> SUFFICES ASSUME NEW r \in ShownRuns, NEW a \in Agents, Behind(r, a)' PROVE FALSE
    BY DEF ActivityIsShown
  <2>1. /\ f.kind = "detail" /\ f.run = r /\ f.agent = a
        /\ Contains(listing', r)
        /\ drawn' # history[r][a] \/ (p.tailing /\ c + 1 < history[r][a])
    BY <1>1, <1>8 DEF Behind, Shows
  <2>2. history[r][a] \in Nat
    BY DEF NavigatorInv
  <2>3. CASE Contains(listing, r)
    BY <1>1, <1>3, <1>5, <1>6, <2>1, <2>2, <2>3
  <2>4. CASE ~Contains(listing, r)
    BY <1>1, <1>5, <1>6, <2>1, <2>2, <2>4
  <2> QED
    BY <2>3, <2>4
<1> QED
    BY <1>9, <1>10, <1>11 DEF NavigatorInv

LEMMA MovedShows ==
    ASSUME NavigatorInv, NEW s, NEW p, IsStack(s), Moved(s, p)
    PROVE  NavigatorInv'
<1>1. Render(s, p) /\ history' = history /\ listing' = listing /\ saved' = saved
    BY DEF Moved
<1>2. listing' \in Seq(ShownRuns) /\ saved' \in Seq(ToSet(Saved))
    BY <1>1 DEF NavigatorInv
<1> QED
    BY <1>1, <1>2, RenderShows

\* A redraw of the view as it is.
LEMMA RedrawShows ==
    ASSUME NavigatorInv, Render(stack, pager), UNCHANGED <<listing, history, saved>>
    PROVE  NavigatorInv'
<1>1. IsStack(stack) /\ listing' \in Seq(ShownRuns) /\ saved' \in Seq(ToSet(Saved))
    BY DEF NavigatorInv
<1> QED
    BY <1>1, RenderShows

LEMMA CursorSet ==
    ASSUME NavigatorInv, NEW c \in Nat
    PROVE  IsStack(SetCursor(c))
BY CursorPut DEF SetCursor, NavigatorInv

\* Where a key may move the cursor to.
LEMMA Places ==
    ASSUME NavigatorInv, NEW delta \in Int
    PROVE  LET n == CountOf(Top)
           IN  /\ n \in Nat /\ Top.cursor \in Nat
               /\ Clamped(Top.cursor + delta, n) \in Nat
               /\ n > 0 => (Top.cursor + delta + n) % n \in Nat
<1> DEFINE n == CountOf(Top)
<1>1. n \in Nat /\ Top.cursor \in Nat
    BY TopIs, CountIs DEF IsFrame
<1> HIDE DEF n
<1>2. Top.cursor + delta \in Int
    BY <1>1
<1>3. Clamped(Top.cursor + delta, n) \in Nat
    BY <1>1, <1>2, ClampedIs
<1>4. n > 0 => (Top.cursor + delta + n) % n \in Nat
    BY <1>1
<1> QED
    BY <1>1, <1>3, <1>4 DEF n

LEMMA MoveShows ==
    ASSUME NavigatorInv, NEW delta \in Int, Move(delta)
    PROVE  NavigatorInv'
<1> DEFINE n == CountOf(Top)
           next == Clamped(Top.cursor + delta, n)
<1>1. /\ n \in Nat /\ Top.cursor \in Nat /\ next \in Nat
      /\ n > 0 => (Top.cursor + delta + n) % n \in Nat
    BY Places
<1>2. \E s, p : IsStack(s) /\ Moved(s, p)
  <2>1. CASE Top.kind = "detail"
    <3>1. \E p : Moved(SetCursor(IF n <= 0 THEN Top.cursor ELSE next), p)
      BY <2>1 DEF Move
    <3> HIDE DEF n, next
    <3> QED
      BY <1>1, <3>1, CursorSet
  <2>2. CASE Top.kind # "detail"
    <3>1. Moved(stack, pager) \/ (n > 0 /\ Moved(SetCursor((Top.cursor + delta + n) % n), pager))
      BY <1>1, <2>2 DEF Move
    <3>2. IsStack(stack)
      BY DEF NavigatorInv
    <3> HIDE DEF n, next
    <3> QED
      BY <1>1, <3>1, <3>2, CursorSet
  <2> QED
    BY <2>1, <2>2
<1> QED
    BY <1>2, MovedShows

LEMMA PageShows ==
    ASSUME NavigatorInv, NEW delta \in Int, Page(delta)
    PROVE  NavigatorInv'
<1> DEFINE c == Clamped(Top.cursor + delta, CountOf(Top))
<1>1. CASE Top.kind = "detail"
    BY <1>1, MoveShows DEF Page
<1>2. CASE Top.kind # "detail"
  <2>1. IsStack(SetCursor(c)) /\ IsStack(stack)
    BY Places, CursorSet DEF NavigatorInv
  <2>2. Moved(stack, pager) \/ Moved(SetCursor(c), pager)
    BY <1>2 DEF Page
  <2> HIDE DEF c
  <2> QED
    BY <2>1, <2>2, MovedShows
<1> QED
    BY <1>1, <1>2

LEMMA JumpShows ==
    ASSUME NavigatorInv, NEW edge, Jump(edge)
    PROVE  NavigatorInv'
<1> DEFINE n == CountOf(Top)
           c == IF edge = "start" \/ n <= 0 THEN 0 ELSE n - 1
<1>1. n \in Nat
    BY TopIs, CountIs
<1>2. IsStack(SetCursor(c))
  <2>1. c \in Nat
    BY <1>1
  <2> QED
    BY <2>1, CursorSet
<1>3. PICK p : Moved(SetCursor(c), p)
    BY DEF Jump
<1> HIDE DEF c
<1> QED
    BY <1>2, <1>3, MovedShows

LEMMA OpenShows ==
    ASSUME NavigatorInv, OpenPager \/ TogglePager \/ ToggleTail
    PROVE  NavigatorInv'
<1>1. IsStack(SetCursor(0)) /\ IsStack(stack)
    BY CursorSet DEF NavigatorInv
<1>2. PICK p : Moved(stack, p) \/ Moved(SetCursor(0), p)
    BY DEF OpenPager, TogglePager, ToggleTail
<1> QED
    BY <1>1, <1>2, MovedShows

\* What is below the cursor can be shown.
LEMMA BelowIs ==
    ASSUME NavigatorInv, NEW f \in Below
    PROVE  IsFrame(f)
<1> DEFINE c == Top.cursor + 1
<1>1. IsFrame(Top)
    BY TopIs
<1>2. c \in Nat /\ c > 0
    BY <1>1 DEF IsFrame
<1>3. CASE Top.kind = "runs"
  <2>1. c <= Len(listing) => listing[c] \in ShownRuns
    BY <1>2, LenProperties, ElementOfSeq DEF NavigatorInv
  <2>2. c <= Len(listing) /\ f = Frame("phases", listing[c], NoView) => IsFrame(f)
    BY <2>1 DEF IsFrame, Frame
  <2>3. f = Frame("savedDetail", NoView, saved[c - Len(listing)]) => IsFrame(f)
    BY DEF IsFrame, Frame
  <2> QED
    BY <1>3, <2>2, <2>3 DEF Below
<1>4. CASE Top.kind = "phases"
    BY <1>1, <1>4 DEF Below, IsFrame, Frame
<1>5. CASE Top.kind = "agents"
  <2>0. CountOf(Top) \in {0, Cardinality(Agents)}
    BY <1>5 DEF CountOf
  <2>1. c <= CountOf(Top) /\ f = Frame("detail", Top.run, SetToSeq(Agents)[c])
    BY <1>5 DEF Below
  <2>2. SetToSeq(Agents) \in [1 .. Cardinality(Agents) -> Agents] /\ Cardinality(Agents) \in Nat
    BY NavigatorAssumption, Enumerated, FS_CardinalityType
  <2>3. SetToSeq(Agents)[c] \in Agents
    BY <1>2, <2>0, <2>1, <2>2
  <2> QED
    BY <1>1, <1>5, <2>1, <2>3 DEF IsFrame, Frame
<1> QED
    BY <1>3, <1>4, <1>5 DEF Below

LEMMA DrillShows ==
    ASSUME NavigatorInv, Drill
    PROVE  NavigatorInv'
<1>1. PICK f \in Below : \E p : Moved(Append(stack, f), p)
    BY DEF Drill
<1>2. IsStack(Append(stack, f))
    BY BelowIs, AppendIs DEF NavigatorInv
<1> QED
    BY <1>1, <1>2, MovedShows

LEMMA ClosesShows ==
    ASSUME NavigatorInv, Closes
    PROVE  NavigatorInv'
<1>1. ~open' /\ UNCHANGED <<listing, history, saved, stack, drawn>>
    BY DEF Closes
<1>2. Top' = Top
    BY <1>1 DEF Top
<1>3. ActivityIsShown'
    BY <1>1 DEF ActivityIsShown, Behind
<1>4. Painted' /\ IsStack(stack)'
    BY <1>1, <1>2 DEF Painted, NavigatorInv, IsStack, IsFrame
<1> QED
    BY <1>1, <1>3, <1>4 DEF NavigatorInv

LEMMA BackShows ==
    ASSUME NavigatorInv, Back
    PROVE  NavigatorInv'
<1>1. IsStack(stack) /\ (Len(stack) > 1 => IsStack(Front(stack)))
    BY FrontIs DEF NavigatorInv
<1>2. Closes \/ Moved(stack, NoPager) \/ (Len(stack) > 1 /\ Moved(Front(stack), NoPager))
    BY DEF Back
<1> QED
    BY <1>1, <1>2, MovedShows, ClosesShows

LEMMA DeleteShows ==
    ASSUME NavigatorInv, DeleteSaved
    PROVE  NavigatorInv'
<1>1. /\ \E k \in 1 .. Len(saved) : saved' = RemoveAt(saved, k)
      /\ UNCHANGED <<listing, history>>
      /\ IF Top.kind = "savedDetail" THEN Render(Front(stack), NoPager) ELSE Render(stack, pager)
    BY DEF DeleteSaved
<1>2. saved' \in Seq(ToSet(Saved)) /\ listing' \in Seq(ShownRuns)
    BY <1>1, RemovedAt DEF NavigatorInv
<1>3. Top.kind = "savedDetail" => IsStack(Front(stack))
  <2>1. Len(stack) \in Nat /\ Len(stack) > 0 /\ Top = stack[Len(stack)] /\ stack[1].kind = "runs"
    BY StackIs DEF NavigatorInv, Top, IsStack
  <2>2. Top.kind = "savedDetail" => Len(stack) > 1
    BY <2>1
  <2> QED
    BY <2>2, FrontIs DEF NavigatorInv
<1>4. \E s, p : IsStack(s) /\ Render(s, p)
    BY <1>1, <1>3 DEF NavigatorInv
<1> QED
    BY <1>1, <1>2, <1>4, RenderShows

\* The list changes, and the screen does not, or only for what it showed.
LEMMA ListShows ==
    ASSUME NavigatorInv, listing' \in Seq(ShownRuns),
           \A r \in ShownRuns : Contains(listing', r) =>
               Contains(listing, r) \/ \A a \in Agents : history[r][a] = 0,
           UNCHANGED <<history, saved, stack, pager, open, drawn, redraw>>
    PROVE  NavigatorInv'
<1>1. Top' = Top
    BY DEF Top
<1>2. Painted' /\ IsStack(stack)'
    BY <1>1 DEF Painted, NavigatorInv, IsStack, IsFrame
<1>3. ActivityIsShown'
  <2> SUFFICES ASSUME NEW r \in ShownRuns, NEW a \in Agents, Behind(r, a)'
               PROVE  redraw = [set |-> TRUE, run |-> r, agent |-> a]
    BY DEF ActivityIsShown
  <2>1. /\ open /\ Shows(r, a) /\ Contains(listing', r)
        /\ drawn # history[r][a] \/ (pager.tailing /\ Top.cursor + 1 < history[r][a])
    BY <1>1 DEF Behind, Shows
  <2>2. Top.cursor \in Nat /\ history[r][a] \in Nat
    BY TopIs DEF IsFrame, NavigatorInv
  <2>3. CASE Contains(listing, r)
    BY <2>1, <2>3 DEF Behind, ActivityIsShown, NavigatorInv
  <2>4. CASE history[r][a] = 0
    <3>1. drawn \in Nat /\ drawn =< history[r][a]
      BY <2>1 DEF NavigatorInv, Painted, Shows
    <3> QED
      BY <2>1, <2>2, <2>4, <3>1
  <2> QED
    BY <2>1, <2>3, <2>4
<1> QED
    BY <1>2, <1>3 DEF NavigatorInv

\* A list with one more run in front.
LEMMA InFront ==
    ASSUME NavigatorInv, NEW r \in ShownRuns
    PROVE  /\ <<r>> \o listing \in Seq(ShownRuns)
           /\ \A x : Contains(<<r>> \o listing, x) => x = r \/ Contains(listing, x)
<1>1. listing \in Seq(ShownRuns) /\ <<r>> \in Seq(ShownRuns) /\ Len(<<r>>) = 1 /\ <<r>>[1] = r
    BY DEF NavigatorInv
<1>2. /\ <<r>> \o listing \in Seq(ShownRuns)
      /\ Len(<<r>> \o listing) = 1 + Len(listing) /\ Len(listing) \in Nat
      /\ \A i \in 1 .. 1 + Len(listing) :
              (<<r>> \o listing)[i] = IF i <= 1 THEN r ELSE listing[i - 1]
    BY <1>1, ConcatProperties, LenProperties
<1>3. \A i \in 1 .. 1 + Len(listing) : i <= 1 \/ i - 1 \in 1 .. Len(listing)
    BY <1>2
<1> QED
    BY <1>2, <1>3 DEF Contains

LEMMA ChangesShow ==
    ASSUME NavigatorInv, NEW r \in ShownRuns, RunAppears(r) \/ RunVanishes(r)
    PROVE  NavigatorInv'
<1>1. UNCHANGED <<history, saved, stack, pager, open, drawn, redraw>>
    BY DEF RunAppears, RunVanishes
<1>2. CASE RunAppears(r)
  <2>1. listing' = <<r>> \o listing /\ \A a \in Agents : history[r][a] = 0
    BY <1>2 DEF RunAppears
  <2> QED
    BY <1>1, <2>1, InFront, ListShows
<1>3. CASE RunVanishes(r)
  <2>1. listing' \in Seq(ShownRuns) /\ \A x : Contains(listing', x) => Contains(listing, x)
    BY <1>3, RemovedAt DEF RunVanishes, NavigatorInv
  <2> QED
    BY <1>1, <2>1, ListShows
<1> QED
    BY <1>2, <1>3

LEMMA RunAgainShows ==
    ASSUME NavigatorInv, NEW r \in ShownRuns, NEW fresh \in ShownRuns, RunAgain(r, fresh)
    PROVE  NavigatorInv'
<1>1. /\ listing' = <<fresh>> \o listing /\ \A a \in Agents : history[fresh][a] = 0
      /\ Render(stack, pager) /\ UNCHANGED <<history, saved>>
    BY DEF RunAgain
<1>2. IsStack(stack) /\ saved' \in Seq(ToSet(Saved))
    BY <1>1 DEF NavigatorInv
<1> QED
    BY <1>1, <1>2, InFront, RenderShows

\* Nothing on the screen changes but the timer.
LEMMA SameScreen ==
    ASSUME NavigatorInv, UNCHANGED <<listing, history, saved, stack, pager, open, drawn>>,
           \A r \in ShownRuns, a \in Agents :
               Behind(r, a) /\ redraw = [set |-> TRUE, run |-> r, agent |-> a] => redraw' = redraw
    PROVE  NavigatorInv'
<1>1. Top' = Top
    BY DEF Top
<1>2. Painted' /\ IsStack(stack)'
    BY <1>1 DEF Painted, NavigatorInv, IsStack, IsFrame
<1>3. \A r \in ShownRuns, a \in Agents : Behind(r, a)' => Behind(r, a)
    BY <1>1 DEF Behind, Shows
<1>4. ActivityIsShown'
    BY <1>3 DEF ActivityIsShown, NavigatorInv
<1> QED
    BY <1>2, <1>4 DEF NavigatorInv

LEMMA TimerShows ==
    ASSUME NavigatorInv, RedrawTimer
    PROVE  NavigatorInv'
<1>1. UNCHANGED <<listing, history, saved, open>>
    BY DEF RedrawTimer
<1>2. CASE Render(stack, pager)
    BY <1>1, <1>2, RedrawShows
<1>3. CASE ~Shows(redraw.run, redraw.agent) /\ UNCHANGED <<stack, pager, drawn>>
  <2>1. ASSUME NEW r \in ShownRuns, NEW a \in Agents, Behind(r, a),
               redraw = [set |-> TRUE, run |-> r, agent |-> a]
        PROVE  FALSE
    BY <1>3, <2>1 DEF Behind
  <2> QED
    BY <1>1, <1>3, <2>1, SameScreen
<1> QED
    BY <1>2, <1>3 DEF RedrawTimer

\* The newest event of the agent that is shown sets the timer for it.
LEMMA HistoryShows ==
    ASSUME NavigatorInv, NEW r \in ShownRuns, NEW a \in Agents, AgentHistory(r, a)
    PROVE  NavigatorInv'
<1>1. /\ history' = [history EXCEPT ![r][a] = @ + 1]
      /\ redraw' = IF open /\ Shows(r, a) THEN Target(r, a) ELSE redraw
      /\ UNCHANGED <<listing, saved, stack, pager, open, drawn>>
    BY DEF AgentHistory
<1>2. Top' = Top
    BY <1>1 DEF Top
<1>3. /\ history' \in [ShownRuns -> [Agents -> Nat]]
      /\ \A x \in ShownRuns, y \in Agents : history'[x][y] >= history[x][y]
      /\ \A x \in ShownRuns, y \in Agents : x # r \/ y # a => history'[x][y] = history[x][y]
    BY <1>1 DEF NavigatorInv
<1>4. Painted'
  <2>1. Top.kind = "detail" => Top.run \in ShownRuns /\ Top.agent \in Agents
    BY TopIs DEF IsFrame
  <2>2. Top.kind = "detail" => history[Top.run][Top.agent] \in Nat /\ history'[Top.run][Top.agent] \in Nat
    BY <1>3, <2>1 DEF NavigatorInv
  <2> QED
    BY <1>1, <1>2, <1>3, <2>1, <2>2 DEF Painted, NavigatorInv
<1>5. IsStack(stack)'
    BY <1>1 DEF NavigatorInv, IsStack, IsFrame
<1>6. ASSUME NEW x \in ShownRuns, NEW y \in Agents, Behind(x, y)'
      PROVE  redraw' = [set |-> TRUE, run |-> x, agent |-> y]
  <2>1. /\ open /\ Shows(x, y) /\ Contains(listing, x)
        /\ drawn # history'[x][y] \/ (pager.tailing /\ Top.cursor + 1 < history'[x][y])
    BY <1>1, <1>2, <1>6 DEF Behind, Shows
  <2>2. CASE x = r /\ y = a
    BY <1>1, <2>1, <2>2 DEF Target
  <2>3. CASE x # r \/ y # a
    <3>1. Behind(x, y)
      BY <1>3, <2>1, <2>3 DEF Behind
    <3>2. ~Shows(r, a)
      BY <2>1, <2>3 DEF Shows
    <3> QED
      BY <1>1, <3>1, <3>2 DEF ActivityIsShown, NavigatorInv
  <2> QED
    BY <2>2, <2>3
<1> QED
    BY <1>1, <1>3, <1>4, <1>5, <1>6 DEF NavigatorInv, ActivityIsShown

LEMMA NavigatorInvInit == NavigatorInit => NavigatorInv
<1> SUFFICES ASSUME NavigatorInit PROVE NavigatorInv
    OBVIOUS
<1>1. listing \in Seq(ShownRuns) /\ saved \in Seq(ToSet(Saved))
  <2>1. listing \in UNION {[1 .. m -> ShownRuns] : m \in 0 .. 2}
    BY DEF NavigatorInit, SeqOf
  <2>2. PICK m \in 0 .. 2 : listing \in [1 .. m -> ShownRuns]
    BY <2>1
  <2>3. listing \in Seq(ShownRuns)
    BY <2>2, SeqDef
  <2> QED
    BY <2>3, NavigatorAssumption DEF NavigatorInit
<1>2. history \in [ShownRuns -> [Agents -> Nat]]
    BY DEF NavigatorInit
<1>3. stack = <<Frame("runs", NoView, NoView)>> /\ IsFrame(Frame("runs", NoView, NoView))
    BY DEF NavigatorInit, IsFrame, Frame
<1>4. stack \in Seq({Frame("runs", NoView, NoView)}) /\ Len(stack) = 1
    BY <1>3
<1>5. stack[1] = Frame("runs", NoView, NoView) /\ stack[1].kind = "runs"
    BY <1>3 DEF Frame
<1>6. IsStack(stack)
  <2>1. \E S : stack \in Seq(S)
    BY <1>4
  <2>2. \A i \in 1 .. Len(stack) : IsFrame(stack[i])
    BY <1>3, <1>4, <1>5
  <2> QED
    BY <1>4, <1>5, <2>1, <2>2 DEF IsStack
<1>7. Top.kind = "runs"
    BY <1>4, <1>5 DEF Top, Last
<1> QED
    BY <1>1, <1>2, <1>6, <1>7 DEF NavigatorInv, Painted, ActivityIsShown, Behind, Shows

LEMMA NavigatorInvStep == NavigatorInv /\ [NavigatorNext]_navigatorVars => NavigatorInv'
<1> SUFFICES ASSUME NavigatorInv, [NavigatorNext]_navigatorVars PROVE NavigatorInv'
    OBVIOUS
<1>1. ASSUME NEW d \in {-1, 1}, Move(d) PROVE NavigatorInv'
    BY <1>1, MoveShows
<1>2. ASSUME NEW d \in {-2, 2}, Page(d) PROVE NavigatorInv'
    BY <1>2, PageShows
<1>3. ASSUME NEW e \in {"start", "end"}, Jump(e) PROVE NavigatorInv'
    BY <1>3, JumpShows
<1>4. ASSUME Drill \/ Back \/ Closes \/ DeleteSaved \/ RedrawTimer PROVE NavigatorInv'
    BY <1>4, DrillShows, BackShows, ClosesShows, DeleteShows, TimerShows
<1>5. CASE LifecycleEvent
  <2>1. Render(stack, pager) /\ UNCHANGED <<listing, history, saved>>
    BY <1>5 DEF LifecycleEvent
  <2> QED
    BY <2>1, RedrawShows
<1>6. ASSUME NEW r \in ShownRuns, NEW to, Command(r, to) PROVE NavigatorInv'
  <2>1. Render(stack, pager) /\ UNCHANGED <<listing, history, saved>>
    BY <1>6 DEF Command
  <2> QED
    BY <2>1, RedrawShows
<1>7. ASSUME NEW r \in ShownRuns, NEW s \in ShownRuns, RunAgain(r, s) PROVE NavigatorInv'
    BY <1>7, RunAgainShows
<1>8. ASSUME NEW r \in ShownRuns, AskResume(r) PROVE NavigatorInv'
  <2>1. Render(stack, pager) /\ UNCHANGED <<listing, history, saved>>
    BY <1>8 DEF AskResume
  <2> QED
    BY <2>1, RedrawShows
<1>9. ASSUME NEW r \in ShownRuns, ResumeReturns(r) PROVE NavigatorInv'
  <2>1. UNCHANGED <<listing, history, saved, open, redraw>>
    BY <1>9 DEF ResumeReturns
  <2>2. CASE Render(stack, pager)
    BY <2>1, <2>2, RedrawShows
  <2>3. CASE UNCHANGED <<stack, pager, drawn>>
    BY <2>1, <2>3, SameScreen
  <2> QED
    BY <1>9, <2>2, <2>3 DEF ResumeReturns
<1>10. ASSUME NEW r \in ShownRuns, RunAppears(r) \/ RunVanishes(r) PROVE NavigatorInv'
    BY <1>10, ChangesShow
<1>11. ASSUME NEW r \in ShownRuns, NEW a \in Agents, AgentHistory(r, a) PROVE NavigatorInv'
    BY <1>11, HistoryShows
<1>12. CASE UNCHANGED navigatorVars
  <2>1. UNCHANGED <<listing, history, saved, stack, pager, open, drawn, redraw>>
    BY <1>12 DEF navigatorVars
  <2> QED
    BY <2>1, SameScreen
<1>13. CASE OpenPager \/ TogglePager \/ ToggleTail
    BY <1>13, OpenShows
<1> QED
    BY <1>1, <1>2, <1>3, <1>4, <1>5, <1>6, <1>7, <1>8, <1>9, <1>10, <1>11, <1>12, <1>13
    DEF NavigatorNext

\* What the navigator shows of an agent is what there is, or a redraw for it is set, whatever
\* keys are pressed and whatever runs come and go.
THEOREM ScreenFollows == NavigatorSpec => []ActivityIsShown
<1>1. NavigatorInv => ActivityIsShown
    BY DEF NavigatorInv
<1> QED
    BY <1>1, NavigatorInvInit, NavigatorInvStep, PTL DEF NavigatorSpec
================================================================================
