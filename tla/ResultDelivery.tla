------------------------------ MODULE ResultDelivery ------------------------------
(* installResultDelivery() of src/task-panel.ts without an extension behind it: the       *)
(* results of background runs are submitted to the host, kept in a bounded cache while     *)
(* that fails or is suspended, and rebuilt from the outbox of the run records when a       *)
(* session starts.  Nothing acknowledges a result here: each generation submits it anew.   *)
(* The code runs from the first to the last submission of a step without a pause; here     *)
(* every submission is a step of its own, and nothing but the death of the process comes   *)
(* between them (Idle).                                                                    *)
EXTENDS Integers, FiniteSets, Sequences, SequencesExt, Bags

CONSTANTS
    Results,         \* sequence numbers of terminal records
    Notices,         \* those of Results that have no record behind them
    MaxProjections,  \* entries of the cache
    MaxSubmissions,  \* records submitted by a generation
    MaxGeneration, MaxFailures, MaxHostRestarts  \* bounds of the model

ASSUME DeliveryAssumption ==
    /\ Results \subseteq Nat /\ IsFiniteSet(Results) /\ Notices \subseteq Results
    /\ MaxProjections \in Nat \ {0}

VARIABLES
    dock,      \* the DeliveryHolder; pumped: a resume of this generation left nothing behind,
               \* and the cache has not overflowed since
    todo,      \* entries taken from the cache, or one result, that are being submitted
    pump,      \* where the loop of a resume is; clean: none of its submissions has failed
    settled,   \* results that exist
    recorded,  \* generation in the record of a result
    onTheWay,  \* submissions whose promise may still be rejected
    given, turnedDown,  \* per generation: submissions of a result, and failed ones
    failures, hostRestarts
deliveryVars ==
    <<dock, todo, pump, settled, recorded, onTheWay, given, turnedDown, failures, hostRestarts>>

NoneOf == [i \in Results |-> 0]
FreshHolder ==
    [installed |-> FALSE, suspended |-> FALSE, pumped |-> FALSE,
     pending |-> <<>>, submitted |-> {}, generation |-> 0]
NoPump == [at |-> "no", before |-> 0, clean |-> FALSE]

DeliveryInit ==
    /\ dock = FreshHolder /\ todo = <<>> /\ pump = NoPump
    /\ settled = {} /\ recorded = [i \in Results |-> -1] /\ onTheWay = EmptyBag
    /\ given = NoneOf /\ turnedDown = NoneOf
    /\ failures = 0 /\ hostRestarts = 0

Durable(i) == i \notin Notices
Idle == todo = <<>> /\ pump.at = "no"
OneFails == failures < MaxFailures /\ failures' = failures + 1

\* enqueuePending(): a result is there once; a full cache loses its oldest entry.
EnqueuePending(d, i) ==
    IF Durable(i) /\ i \in ToSet(d.pending) THEN d
    ELSE IF Len(d.pending) < MaxProjections THEN [d EXCEPT !.pending = Append(@, i)]
    ELSE [d EXCEPT !.pending = Append(Tail(@), i), !.pumped = FALSE]

\* trySend() turns a result away: the generation has submitted its share, or the record is
\* of a later generation.
OutOfTurn(i) ==
    /\ Durable(i)
    /\ \/ i \notin dock.submitted /\ Cardinality(dock.submitted) >= MaxSubmissions
       \/ dock.generation < recorded[i]
Stamped(i) == IF Durable(i) THEN [recorded EXCEPT ![i] = dock.generation] ELSE recorded

\* It is out of turn, or its record cannot be written: back to the cache.
KeptBack(i) ==
    /\ Durable(i)
    /\ \/ OutOfTurn(i) /\ UNCHANGED failures
       \/ OneFails
    /\ dock' = EnqueuePending(dock, i)
    /\ pump' = [pump EXCEPT !.clean = FALSE]
    /\ UNCHANGED <<recorded, onTheWay, given, turnedDown>>

\* The submission is recorded, and the host throws: back to the cache.
SendThrows(i) ==
    /\ ~OutOfTurn(i) /\ OneFails
    /\ recorded' = Stamped(i)
    /\ dock' = EnqueuePending([dock EXCEPT !.submitted = @ \ {i}], i)
    /\ given' = [given EXCEPT ![i] = @ + 1]
    /\ turnedDown' = [turnedDown EXCEPT ![i] = @ + 1]
    /\ pump' = [pump EXCEPT !.clean = FALSE]
    /\ UNCHANGED onTheWay

\* The submission is recorded, and the host takes it.
Submitted(i) ==
    /\ ~OutOfTurn(i)
    /\ recorded' = Stamped(i)
    /\ dock' = [dock EXCEPT !.submitted = IF Durable(i) THEN @ \cup {i} ELSE @]
    /\ onTheWay' = onTheWay (+) SetToBag({<<i, dock.generation>>})
    /\ given' = [given EXCEPT ![i] = @ + 1]
    /\ UNCHANGED <<turnedDown, pump, failures>>

\* The loop of flushPending(), or the one trySend() of a listener.
TrySend ==
    /\ todo # <<>> /\ todo' = Tail(todo)
    /\ KeptBack(Head(todo)) \/ SendThrows(Head(todo)) \/ Submitted(Head(todo))
    /\ UNCHANGED <<settled, hostRestarts>>

\* replayStandaloneOutbox(): records that are neither submitted by this generation nor in
\* the cache, by generation and sequence, as many as fit.
Unsent ==
    {i \in settled : Durable(i) /\ i \notin dock.submitted /\ i \notin ToSet(dock.pending)}
Earlier(i, j) == recorded[i] < recorded[j] \/ (recorded[i] = recorded[j] /\ i < j)
Room ==
    LET free == MaxProjections - Len(dock.pending)
    IN IF free < Cardinality(Unsent) THEN free ELSE Cardinality(Unsent)
IsReplay(q) ==
    /\ \A k, l \in DOMAIN q : k < l => Earlier(q[k], q[l])
    /\ \A k \in DOMAIN q : \A i \in Unsent \ ToSet(q) : Earlier(q[k], i)

\* Mutant: one batch is thought to be enough.
OneBatch == FALSE

\* Whether resumeResultDelivery() goes on after a batch.
MadeProgress == dock.pending = <<>> /\ Cardinality(dock.submitted) # pump.before

\* The loop of resumeResultDelivery(): batches, until there is none or one makes no progress.
NextBatch ==
    /\ todo = <<>>
    /\ pump.at = "cache" \/ (pump.at = "batch" /\ MadeProgress)
    /\ \E q \in [1 .. Room -> Unsent] :
        LET batch == dock.pending \o q
        IN /\ IsReplay(q)
           /\ todo' = batch
           /\ dock' = [dock EXCEPT !.pending = <<>>, !.pumped = @ \/ batch = <<>>]
           /\ pump' = IF batch = <<>> THEN NoPump
                      ELSE [pump EXCEPT !.at = "batch", !.before = Cardinality(dock.submitted)]
    /\ UNCHANGED <<settled, recorded, onTheWay, given, turnedDown, failures, hostRestarts>>
PumpStops ==
    /\ todo = <<>> /\ pump.at = "batch" /\ ~MadeProgress
    /\ dock' = [dock EXCEPT !.pumped = @ \/ (dock.pending = <<>> /\ pump.clean)]
    /\ pump' = NoPump
    /\ UNCHANGED <<todo, settled, recorded, onTheWay, given, turnedDown, failures, hostRestarts>>

\* installResultDelivery(): a first install, or a refresh for the next generation.
Install ==
    /\ Idle /\ dock.generation < MaxGeneration
    /\ IF dock.installed
       THEN /\ dock' = [dock EXCEPT !.generation = @ + 1, !.submitted = {}, !.pumped = FALSE]
            /\ given' = NoneOf /\ turnedDown' = NoneOf
       ELSE dock' = [dock EXCEPT !.installed = TRUE] /\ UNCHANGED <<given, turnedDown>>
    /\ UNCHANGED <<todo, pump, settled, recorded, onTheWay, failures, hostRestarts>>

\* The disposer: the listeners go, and with the holder what its promises would come back to.
Dispose ==
    /\ Idle /\ dock.installed
    /\ dock' = FreshHolder /\ onTheWay' = EmptyBag /\ given' = NoneOf /\ turnedDown' = NoneOf
    /\ UNCHANGED <<todo, pump, settled, recorded, failures, hostRestarts>>

SuspendDelivery ==
    /\ Idle /\ dock.installed /\ ~dock.suspended
    /\ dock' = [dock EXCEPT !.suspended = TRUE, !.pumped = FALSE]
    /\ UNCHANGED <<todo, pump, settled, recorded, onTheWay, given, turnedDown, failures, hostRestarts>>

\* flushPending() comes first, the batches follow.
ResumeDelivery ==
    /\ Idle /\ dock.installed
    /\ dock' = [dock EXCEPT !.suspended = FALSE, !.pending = <<>>]
    /\ todo' = dock.pending
    /\ pump' = [at |-> "cache", before |-> 0, clean |-> TRUE]
    /\ UNCHANGED <<settled, recorded, onTheWay, given, turnedDown, failures, hostRestarts>>

\* A background run ends and its manager tells the listener.
Deliver(i) ==
    /\ Idle /\ i \notin settled
    /\ settled' = settled \cup {i}
    /\ IF dock.installed /\ dock.suspended
       THEN dock' = EnqueuePending(dock, i) /\ UNCHANGED todo
       ELSE todo' = (IF dock.installed THEN <<i>> ELSE <<>>) /\ UNCHANGED dock
    /\ UNCHANGED <<pump, recorded, onTheWay, given, turnedDown, failures, hostRestarts>>

\* The host rejects a submission after all; in a later generation what waits goes at once.
RejectLate(i, g) ==
    LET mine == Durable(i) /\ dock.generation = g
        back == EnqueuePending([dock EXCEPT !.submitted = IF mine THEN @ \ {i} ELSE @], i)
        flushes == dock.generation # g /\ ~dock.suspended
    IN /\ Idle /\ BagIn(<<i, g>>, onTheWay) /\ OneFails
       /\ onTheWay' = onTheWay (-) SetToBag({<<i, g>>})
       /\ turnedDown' = [turnedDown EXCEPT ![i] = @ + 1]
       /\ dock' = IF flushes THEN [back EXCEPT !.pending = <<>>] ELSE back
       /\ todo' = IF flushes THEN back.pending ELSE <<>>
       /\ UNCHANGED <<pump, settled, recorded, given, hostRestarts>>

\* The process ends, between two submissions too; the records stay.
HostRestarts ==
    /\ hostRestarts < MaxHostRestarts /\ hostRestarts' = hostRestarts + 1
    /\ dock' = FreshHolder /\ todo' = <<>> /\ pump' = NoPump /\ onTheWay' = EmptyBag
    /\ given' = NoneOf /\ turnedDown' = NoneOf
    /\ settled' = settled \ Notices
    /\ UNCHANGED <<recorded, failures>>

DeliveryNext ==
    \/ TrySend \/ NextBatch \/ PumpStops
    \/ Install \/ Dispose \/ SuspendDelivery \/ ResumeDelivery \/ HostRestarts
    \/ \E i \in Results : Deliver(i)
    \/ \E i \in Results, g \in 0 .. MaxGeneration : RejectLate(i, g)
DeliverySpec == DeliveryInit /\ [][DeliveryNext]_deliveryVars

------------------------------------------------------------------------------
\* A generation submits a result a second time only after a submission has failed.  And once
\* a session has started delivery and nothing was turned down in it, every result that exists
\* is in the cache or has been submitted by this very generation, however many the bounded
\* cache had lost before; until it loses one again.
EachGenerationHasAll ==
    /\ \A i \in Results : Durable(i) => given[i] <= 1 + turnedDown[i]
    /\ Idle /\ dock.pumped /\ ~dock.suspended =>
        \A i \in settled : Durable(i) => i \in dock.submitted \cup ToSet(dock.pending)
================================================================================
