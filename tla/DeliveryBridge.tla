----------------------------- MODULE DeliveryBridge -----------------------------
(***************************************************************************)
(* src/extensions/workflow.ts with the outbox of workflow-manager.ts: what *)
(* background runs have to say reaches the main session.  A delivery is    *)
(* written to the outbox of its run, shown once as a history entry, put    *)
(* into the context of the next provider request, and struck off when the  *)
(* provider has answered.  An idle host is woken by an empty marker, at a  *)
(* safe point and never for what the user has interrupted with Esc.        *)
(*                                                                         *)
(* The bridge is a record and a handler a function on it; where a write or *)
(* a send may fail a handler has a set of outcomes.  One action is one     *)
(* event of the host, or one timer, with the microtasks it leaves behind.  *)
(* The session that starts after a reload or a restart is the one that was *)
(* there before, on the branch it was on.                                  *)
(***************************************************************************)
EXTENDS Integers, FiniteSets

CONSTANTS
    Deliveries,     \* delivery ids
    Terminal,       \* those that report the end of a run
    InFlightLimit,  \* WORKFLOW_BRIDGE_IN_FLIGHT_LIMIT: entries that await an answer, and a page
    UncertainLimit, \* WORKFLOW_BRIDGE_UNCERTAIN_LIMIT
    MaxTries,       \* WORKFLOW_DELIVERY_RETRY_MAX_ATTEMPTS
    Budgets         \* bounds: what goes wrong in a behaviour, one record per kind of behaviour

ASSUME BridgeAssumption ==
    /\ Terminal \subseteq Deliveries
    /\ InFlightLimit \in Nat \ {0} /\ UncertainLimit \in Nat /\ MaxTries \in Nat
    /\ Budgets \subseteq [faults : Nat, escapes : Nat, mutations : Nat, reloads : Nat,
                          restarts : Nat]

VARIABLES
    outbox,     \* stored: the records on disk; stamp: the generation of each
    bridge,
    host,       \* the Pi session, see HostType
    branch,     \* deliveries with an entry on the active branch
    aside,      \* those with one on other branches
    left,       \* what is left of the budget
    arrived,    \* history: deliveries so far
    accepted,   \* history: deliveries read: a provider has answered for the body, or the
                \* output of the run was there in its stead
    taken,      \* history: those of this generation whose answer has reached the bridge
    held,       \* history: deliveries that had arrived when the user last pressed Esc
    overlooked, \* history: deliveries that had an entry on other branches only when a session
                \* started, which looks at the active branch alone
    twice       \* history: deliveries shown again on a branch that shows them

bridgeVars == <<outbox, bridge, host, branch, aside, left, arrived, accepted, taken, held,
                overlooked, twice>>

BridgeType ==
    [generation : Nat, suspended : BOOLEAN,
     pending : SUBSET Deliveries, delivered : SUBSET Deliveries, canonical : SUBSET Deliveries,
     awaiting : SUBSET Deliveries,
     timedOut : SUBSET Deliveries,  \* uncertainAck
     parked : SUBSET Deliveries,    \* uncertainAck with providerConsumed
     reconcile : SUBSET Deliveries,
     watched : SUBSET Deliveries, paused : SUBSET Deliveries,   \* ackWatchdogs
     projected : SUBSET Deliveries, included : SUBSET Deliveries,
     ackFence : BOOLEAN,
     ordinals : SUBSET Deliveries,  \* arrivalOrdinalById
     esc : {"none", "active", "stale"},   \* abortEpoch, by its run token
     old : SUBSET Deliveries,       \* ordinals up to its cutoff
     fenced : SUBSET Deliveries,
     activeRun : BOOLEAN,
     wake : SUBSET Deliveries, attempted : SUBSET Deliveries, request : SUBSET Deliveries,
     loop : SUBSET Deliveries,      \* the sets of wakeState
     inFlight : BOOLEAN,
     owner : {"none", "active", "stale"},               \* inFlightRunToken
     marked : SUBSET {"active", "stale", "other"},      \* settledMarkerRunTokens
     latch : BOOLEAN,               \* safeWakeReady
     defer : BOOLEAN,               \* deferBacklogWake
     starting : BOOLEAN, auto : BOOLEAN,                \* promptStarting, with its timer
     compacting : BOOLEAN, tree : {"none", "active", "passive"}, mutation : BOOLEAN,
     timer : BOOLEAN, tries : 0..MaxTries]

HostType ==
    [run : {"none", "user", "marker"},
     step : {"idle", "open", "context", "sent", "answered", "failed", "ended"},
     aborted : BOOLEAN,
     input : BOOLEAN,       \* a prompt that is submitted and has not started
     marker : BOOLEAN,      \* a marker that is sent and has not started
     body : SUBSET Deliveries,      \* bodies of the provider request
     mutating : {"none", "compact", "tree"},
     reported : BOOLEAN]    \* the branch has the output of a completed run

BridgeTypeOK ==
    /\ outbox \in [stored : SUBSET Deliveries, stamp : [Deliveries -> Nat]]
    /\ bridge \in BridgeType
    /\ host \in HostType
    /\ branch \subseteq Deliveries /\ aside \subseteq Deliveries
    /\ left \in [faults : Nat, escapes : Nat, mutations : Nat, reloads : Nat, restarts : Nat]
    /\ arrived \subseteq Deliveries /\ accepted \subseteq Deliveries
    /\ taken \subseteq Deliveries /\ held \subseteq Deliveries
    /\ overlooked \subseteq Deliveries /\ twice \subseteq Deliveries

\* The bridge that bindDeliverBridge() makes in a new process, before its first session.
FreshBridge ==
    [generation |-> 0, suspended |-> TRUE, pending |-> {}, delivered |-> {}, canonical |-> {},
     awaiting |-> {}, timedOut |-> {}, parked |-> {}, reconcile |-> {}, watched |-> {},
     paused |-> {}, projected |-> {}, included |-> {}, ackFence |-> FALSE, ordinals |-> {},
     esc |-> "none", old |-> {}, fenced |-> {}, activeRun |-> FALSE, wake |-> {},
     attempted |-> {}, request |-> {}, loop |-> {}, inFlight |-> FALSE, owner |-> "none",
     marked |-> {}, latch |-> FALSE, defer |-> FALSE, starting |-> FALSE, auto |-> FALSE,
     compacting |-> FALSE, tree |-> "none", mutation |-> FALSE, timer |-> FALSE, tries |-> 0]

IdleHost(reported) ==
    [run |-> "none", step |-> "idle", aborted |-> FALSE, input |-> FALSE, marker |-> FALSE,
     body |-> {}, mutating |-> "none", reported |-> reported]

BridgeInit ==
    /\ outbox = [stored |-> {}, stamp |-> [d \in Deliveries |-> 0]]
    /\ bridge = FreshBridge
    /\ host = IdleHost(FALSE)
    /\ branch = {} /\ aside = {}
    /\ left \in Budgets
    /\ arrived = {} /\ accepted = {} /\ taken = {} /\ held = {}
    /\ overlooked = {} /\ twice = {}

----------------------------------------------------------------------------
(* The retry lane and the wake state. *)

Uncertain(b) == b.timedOut \union b.parked

\* hasWorkflowWakeBody()
HasBody(b) == (b.canonical \union b.request \union b.projected \union b.included) \ b.delivered

ResetRetry(b) == [b EXCEPT !.timer = FALSE, !.tries = 0]

\* Mutant: what a provider has consumed may be waked for again.
AdmitParked(b, ids) ==
    [b EXCEPT !.ordinals = @ \union ids, !.wake = @ \union ids,
              !.defer = @ /\ ids \subseteq b.ordinals]

\* admitWorkflowWake() of each: a new arrival ends the deferral of the backlog.
AdmitWake(b, ids) ==
    LET admitted == ids \ b.parked
    IN  [b EXCEPT !.ordinals = @ \union admitted, !.wake = @ \union admitted,
                  !.defer = @ /\ admitted \subseteq b.ordinals]

\* deferWorkflowWake() of each
DeferWake(b, ids) ==
    IF ids = {} THEN b
    ELSE [b EXCEPT !.wake = @ \ ids, !.attempted = @ \ ids, !.request = @ \ ids, !.defer = TRUE]

\* scheduleWorkflowDeliveryRetry(): the failures of one flush share a timer.
ScheduleRetry(b, ids) ==
    CASE ids = {} \/ b.suspended \/ b.compacting \/ b.timer -> b
      [] b.tries >= MaxTries -> DeferWake(b, ids \ HasBody(b))
      [] OTHER -> [b EXCEPT !.timer = TRUE, !.tries = @ + 1]

----------------------------------------------------------------------------
(* The safe point. *)

\* workflowSafeWakeReady() but for the latch and the host's own idea of being idle.
Blocked(b) ==
    b.suspended \/ b.compacting \/ b.tree # "none" \/ b.mutation \/ b.starting \/ b.defer \/ b.inFlight

WakeCandidates(b) ==
    ((b.wake \intersect b.ordinals) \intersect HasBody(b))
        \ (b.old \union b.fenced \union b.included \union b.attempted)

\* tryWorkflowWakeAtSafePoint(): a marker is sent if something is to be woken for.
\* What only defers the wake keeps the latch.
TryWake(b, idle) ==
    CASE Blocked(b) \/ ~b.latch \/ ~idle ->
            IF b.defer /\ (Blocked(b) \/ ~b.latch) THEN b ELSE [b EXCEPT !.latch = FALSE]
      [] ~Blocked(b) /\ b.latch /\ idle /\ WakeCandidates(b) = {} -> b
      [] OTHER ->
            [b EXCEPT !.inFlight = TRUE,
                      !.owner = IF b.activeRun THEN "active" ELSE "none",
                      !.loop = WakeCandidates(b),
                      !.latch = FALSE, !.starting = TRUE, !.auto = TRUE]

ReleaseOwner(b) ==
    [b EXCEPT !.marked = @ \ {b.owner}, !.owner = "none"]

ResumeWatchdogs(b) ==
    IF b.compacting THEN b
    ELSE [b EXCEPT !.watched = @ \union (b.paused \intersect b.awaiting), !.paused = {}]

PauseWatchdogs(b) == [b EXCEPT !.paused = @ \union b.watched, !.watched = {}]

----------------------------------------------------------------------------
(* Passive admission to the history. *)

CanFlush(b) == ~b.suspended /\ ~b.compacting /\ b.tree # "active"

\* acknowledgeDelivery(..., "submitted") refuses a record of a later generation.
Submittable(b, out) == {d \in out.stored : out.stamp[d] <= b.generation}

\* queueWorkflowDelivery(): what is not known yet waits and may wake the session.
Queued(b, ids) ==
    LET fresh == ids \ (b.delivered \union b.awaiting \union Uncertain(b) \union b.pending)
    IN  [AdmitWake(b, fresh) EXCEPT !.pending = @ \union fresh]

\* replayDurableOutbox()
Replayed(b, out) == Queued(b, out.stored)

\* Mutant: the entries that are there are not looked at.
ToShowAll(b) == b.pending \ (b.delivered \union b.awaiting \union Uncertain(b))

ToShow(b) == b.pending \ (b.delivered \union b.awaiting \union Uncertain(b) \union b.canonical)

\* flushWorkflowBridge(): `shown' are the entries appended, `failed' what a write, a
\* send or the generation turned away; the rest of what is to be shown is over the limit.
\* The wake checks that were queued run last.
Flushed(b, out, faults, idle, inProgress) ==
    LET fresh == IF ~b.timer /\ ~inProgress THEN ResetRetry(b) ELSE b
        replayed == Replayed(fresh, out)
        live == replayed.pending \ (b.delivered \union b.awaiting \union Uncertain(b))
        toShow == ToShow(replayed)
        again == live \ toShow
        admitted == AdmitWake(replayed, live)
        Ended(c) == IF c.pending = {} /\ ~inProgress THEN ResetRetry(c) ELSE c
    IN  IF ~CanFlush(b)
          THEN {[bridge |-> b, outbox |-> out, shown |-> {}, failed |-> {}, cost |-> 0]}
          ELSE
          {LET kept == toShow \ s.shown
               c == [admitted EXCEPT !.pending = kept, !.awaiting = @ \union s.shown,
                                     !.canonical = @ \union s.shown]
               waiting == Ended(DeferWake(c, kept))
               deferred == [waiting EXCEPT !.defer = @ /\ ~s.released]
               retried == IF inProgress THEN deferred ELSE ScheduleRetry(deferred, s.unsaved \union s.unsent)
           IN  [bridge |-> IF s.shown \union again # {} THEN TryWake(retried, idle) ELSE retried,
                outbox |-> [out EXCEPT !.stamp =
                              [d \in Deliveries |-> IF d \in s.shown \union s.unsent
                                                      THEN b.generation ELSE @[d]]],
                shown |-> s.shown,
                failed |-> s.unsaved \union s.unsent,
                cost |-> Cardinality((s.unsaved \intersect Submittable(b, out)) \union s.unsent)] :
           s \in {t \in [shown : SUBSET toShow, unsaved : SUBSET toShow, unsent : SUBSET toShow,
                         released : BOOLEAN] :
                    LET over == toShow \ (t.shown \union t.unsaved \union t.unsent)
                        room == InFlightLimit - Cardinality(b.awaiting \union t.shown)
                    IN  /\ t.shown \intersect (t.unsaved \union t.unsent) = {}
                        /\ t.unsaved \intersect t.unsent = {}
                        /\ t.shown \union t.unsent \subseteq Submittable(b, out)
                        /\ Cardinality((t.unsaved \intersect Submittable(b, out)) \union t.unsent)
                             <= faults
                        /\ t.shown # {} => room >= 0
                        /\ over # {} => room <= 0
                        \* An entry with a new ordinal, after the last that failed,
                        \* ends the deferral again.
                        /\ t.released => /\ t.shown # toShow
                                         /\ ~(t.shown \union again \subseteq replayed.ordinals)}}

----------------------------------------------------------------------------
(* The provider's context, request and answer. *)

\* A page of at most InFlightLimit of `ids', what is to be woken for first.
PagesOf(ids, wake) ==
    {page \in SUBSET ids :
        /\ Cardinality(page) <= InFlightLimit
        /\ page = ids \/ Cardinality(page) = InFlightLimit
        /\ page \ wake # {} => ids \intersect wake \subseteq page}

\* The output of a completed run stands for its terminal deliveries.
Suppressed(b, out, h) ==
    IF h.reported THEN Terminal \intersect (out.stored \union b.pending \union branch) ELSE {}

Forget(b, ids) ==
    [b EXCEPT !.pending = @ \ ids, !.included = @ \ ids, !.watched = @ \ ids, !.paused = @ \ ids,
              !.awaiting = @ \ ids, !.timedOut = @ \ ids, !.parked = @ \ ids, !.wake = @ \ ids,
              !.attempted = @ \ ids, !.request = @ \ ids, !.loop = @ \ ids, !.ordinals = @ \ ids,
              !.old = @ \ ids, !.fenced = @ \ ids, !.delivered = @ \union ids]

\* The context handler up to its messages: they are the entries of the branch, and what
\* the outbox recovers; a record that cannot be submitted holds up those after it.
Recovered(b, out, h, faults) ==
    LET suppressed == Suppressed(b, out, h)
        present == branch \ suppressed
        cleared == Forget(b, suppressed)
        seen == [cleared EXCEPT !.canonical = @ \union present, !.pending = @ \ present]
    IN  IF ~CanFlush(b) \/ h.aborted
          THEN {[bridge |-> b, outbox |-> out, messages |-> branch, cost |-> 0]}
          ELSE UNION
          {LET stored == out.stored \ (suppressed \ kept)
               c == AdmitWake(seen, seen.pending \union (out.stored \ suppressed))
               wanted == (c.pending \union (out.stored \ suppressed))
                             \ (present \union c.delivered \union Uncertain(c))
               \* What awaits an answer already is not submitted again.
               submittable == wanted \intersect (Submittable(b, out) \ c.awaiting)
               room == InFlightLimit - Cardinality(c.awaiting)
               \* What stops after `page': a record in its way, with the room or the
               \* generation at fault, or a write.
               InTheWay(page, x) == x \notin page \union c.awaiting
                                      /\ (x \in c.wake \/ wanted \intersect c.wake \subseteq page)
               Stopped(page) == \/ page = wanted \/ Cardinality(page) = InFlightLimit
                                \/ \E x \in wanted : InTheWay(page, x) /\
                                     (x \notin submittable \/ Cardinality(page \ c.awaiting) >= room)
               Failed(page) == ~Stopped(page) /\ \E x \in wanted : InTheWay(page, x)
           IN  {LET now == [c EXCEPT !.pending = @ \ page, !.awaiting = @ \union page]
                    open == (now.pending \union (stored \ (suppressed \union present)))
                                \ (now.delivered \union now.awaiting \union Uncertain(now))
                IN  [bridge |-> [AdmitWake(now, page) EXCEPT !.defer = open # {}],
                     outbox |-> [stored |-> stored,
                                 stamp |-> [d \in Deliveries |-> IF d \in page \ c.awaiting
                                                THEN b.generation ELSE out.stamp[d]]],
                     messages |-> present \union page,
                     cost |-> Cardinality(kept) + (IF Stopped(page) THEN 0 ELSE 1)] :
                page \in {p \in SUBSET (submittable \union (wanted \intersect c.awaiting)) :
                            /\ Cardinality(p) <= InFlightLimit
                            /\ p \ c.awaiting # {} => Cardinality(p \ c.awaiting) <= room
                            /\ p \ c.wake # {} => wanted \intersect c.wake \subseteq p
                            /\ Stopped(p) \/ (Failed(p) /\ Cardinality(kept) < faults)}} :
           kept \in {k \in SUBSET (suppressed \intersect out.stored) : Cardinality(k) <= faults}}

\* admitWorkflowWake() of what is on a page.  A body that finds the page full defers the
\* backlog, unless a new arrival comes behind it.
AdmitPage(b, ids, full, behind) ==
    [AdmitWake(b, ids) EXCEPT !.defer = IF full THEN ~behind \/ ids \subseteq b.ordinals ELSE @]

\* The rest of it: of a page of the messages, what may still be acknowledged is
\* projected into the request.  A body that a provider has consumed is only shown.
Projected(b, out, h, messages, faults, behind) ==
    UNION
    {LET ready == [b EXCEPT !.projected = {}]
         candidates == {d \in page : d \notin b.delivered \/ d \in out.stored \/ d \in b.awaiting
                                       \/ d \in Uncertain(b) \/ d \in b.included} \ b.parked
         resumed == candidates \intersect b.timedOut
         submittable == (candidates \ (b.awaiting \union resumed)) \intersect Submittable(b, out)
         known == page \intersect (b.awaiting \union b.timedOut)
         full == page # messages
     IN  IF h.aborted
           THEN {[bridge |-> AdmitPage(ready, known, full, behind), outbox |-> out, body |-> page,
                  cost |-> 0]}
           ELSE
           {LET submitted == submittable \ unsaved
                tracked == (candidates \intersect b.awaiting) \union resumed \union submitted
                c == [ready EXCEPT !.timedOut = @ \ resumed,
                                   !.awaiting = (@ \ (page \intersect b.parked)) \union tracked,
                                   !.pending = @ \ submitted]
            IN  [bridge |-> [AdmitPage(c, tracked, full, behind) EXCEPT
                                !.projected = tracked,
                                !.watched = @ \union (tracked \ b.paused)],
                 outbox |-> [out EXCEPT !.stamp = [d \in Deliveries |->
                                IF d \in submitted THEN b.generation ELSE @[d]]],
                 body |-> page,
                 cost |-> Cardinality(unsaved)] :
            unsaved \in {u \in SUBSET submittable : Cardinality(u) <= faults}} :
     page \in PagesOf(messages, b.wake)}

\* Mutant: what is in the history is taken to be in the request.
RequestedAll(b, aborted) ==
    LET batch == IF aborted THEN {} ELSE b.awaiting
    IN  [b EXCEPT !.projected = {}, !.included = batch, !.request = batch \intersect b.wake,
                  !.pending = @ \ batch]

\* before_provider_request: what is projected is in the request, and only that.  A
\* request of the hidden marker spends the wake of what it carries, and its token.
Requested(b, aborted) ==
    LET batch == IF aborted THEN {} ELSE b.projected
        waking == batch \intersect b.wake
        owns == b.inFlight /\ b.owner \in {"none", "active"}
        c == [b EXCEPT !.projected = {},
                       !.included = batch,
                       !.request = waking,
                       !.attempted = @ \union (IF owns THEN waking \ (b.old \union b.fenced) ELSE {}),
                       !.pending = @ \ batch]
    IN  IF owns /\ waking # {} /\ b.owner = "active" THEN ReleaseOwner(c) ELSE c

\* commitWorkflowProviderAssociation(): the records go, and are remembered.  What a
\* provider has consumed and could not be struck off is parked.
Committed(b, out, faults, idle) ==
    UNION
    {LET done == b.included \ failed
         c == [b EXCEPT !.included = {},
                        !.awaiting = @ \ b.included,
                        !.watched = @ \ b.included,
                        !.paused = @ \ b.included,
                        !.delivered = @ \union done,
                        !.wake = @ \ ((done \intersect b.request) \union failed),
                        !.attempted = @ \ failed,
                        !.loop = @ \ failed,
                        !.projected = @ \ failed,
                        !.request = {},
                        !.parked = @ \union failed,
                        !.reconcile = @ \union failed,
                        !.defer = @ \/ failed # {}]
         kept == [out EXCEPT !.stored = @ \ done]
         cost == Cardinality({d \in failed \intersect out.stored : out.stamp[d] = b.generation})
     IN  IF failed # {}
           THEN {[bridge |-> ScheduleRetry(c, failed), outbox |-> kept, shown |-> {},
                  failed |-> failed, cost |-> cost]}
           ELSE Flushed(c, kept, faults, idle, FALSE) :
     failed \in {f \in SUBSET b.included :
                   /\ \A d \in b.included \ f : d \in out.stored /\ out.stamp[d] = b.generation
                   /\ Cardinality({d \in f \intersect out.stored : out.stamp[d] = b.generation})
                        <= faults}}

\* Mutant: the cutoff stays where the first Esc has put it.
FenceWithoutCutoff(b) ==
    IF b.esc = "active" THEN b
    ELSE LET c == ResetRetry(PauseWatchdogs(b))
         IN  [c EXCEPT !.esc = "active", !.latch = FALSE, !.starting = FALSE, !.auto = FALSE,
                       !.projected = {}, !.included = {}, !.request = {}]

\* fenceWorkflowBridgeAfterAbort(): the signal and agent_end tell of the same Esc.
Fence(b) ==
    IF b.esc = "active" THEN b
    ELSE LET c == ResetRetry(PauseWatchdogs(b))
         IN  [c EXCEPT !.esc = "active",
                       !.old = b.ordinals,
                       !.fenced = @ \union b.request \union b.projected \union b.included
                                    \union b.awaiting
                                    \union (IF b.inFlight THEN b.loop \union b.attempted ELSE {}),
                       !.ackFence = @ \/ b.included # {},
                       !.latch = FALSE, !.starting = FALSE, !.auto = FALSE,
                       !.projected = {}, !.included = {}, !.request = {}]

----------------------------------------------------------------------------
(* Runs of the host, and its changes of the branch. *)

\* Mutant: what a change of the branch has fenced stays so until the host tells its end.
BeforeAgentStartFenced(b, empty) ==
    LET c == ReleaseOwner(b)
    IN  CASE empty /\ b.auto -> [c EXCEPT !.auto = FALSE, !.latch = FALSE]
          [] empty /\ ~b.auto -> [b EXCEPT !.latch = FALSE]
          [] OTHER ->
               ResumeWatchdogs(
                 [c EXCEPT !.auto = FALSE, !.latch = FALSE, !.starting = TRUE, !.attempted = {},
                           !.request = {}, !.defer = FALSE])

\* before_agent_start: a prompt of the user lifts the fences of the host's changes.
BeforeAgentStart(b, empty) ==
    LET c == ReleaseOwner(b)
    IN  CASE empty /\ b.auto -> [c EXCEPT !.auto = FALSE, !.latch = FALSE]
          [] empty /\ ~b.auto -> [b EXCEPT !.latch = FALSE]
          [] OTHER ->
               ResumeWatchdogs(
                 [c EXCEPT !.auto = FALSE, !.latch = FALSE, !.tree = "none", !.compacting = FALSE,
                           !.mutation = FALSE, !.starting = TRUE, !.attempted = {},
                           !.request = {}, !.defer = FALSE])

\* agent_start: the token of the run before is stale from here on.
AgentStart(b) ==
    LET Aged(t) == IF t # "active" THEN t ELSE IF b.owner = "active" THEN "stale" ELSE "other"
        aged == [b EXCEPT !.activeRun = TRUE, !.latch = FALSE, !.starting = FALSE, !.auto = FALSE,
                          !.owner = IF @ = "active" THEN "stale" ELSE @,
                          !.marked = {Aged(t) : t \in @},
                          !.esc = IF @ = "active" THEN "stale" ELSE @]
        freed == ReleaseOwner(aged)
    IN  IF b.auto
          THEN [aged EXCEPT !.inFlight = TRUE, !.owner = "active",
                            !.marked = {IF t = "stale" THEN "other" ELSE t : t \in @} \union {"active"}]
          ELSE [freed EXCEPT !.marked = @ \union (IF b.inFlight THEN {"active"} ELSE {})]

\* agent_settled, first the handler of the compaction fence: the latch of a marker's
\* own run is released, what an Esc has fenced is free, and the safe point is looked at.
AgentSettled(b, idle) ==
    LET outside == IF b.mutation /\ b.tree = "none"
                     THEN ResumeWatchdogs([b EXCEPT !.compacting = FALSE, !.mutation = FALSE])
                     ELSE [b EXCEPT !.compacting = FALSE]
        markerRun == \/ b.owner = "none" /\ b.marked = {}
                     \/ b.owner # "none" /\ (~b.activeRun \/ "active" \in b.marked)
        released == IF b.inFlight /\ markerRun
                      THEN [outside EXCEPT !.inFlight = FALSE, !.owner = "none", !.loop = {},
                                           !.marked = {IF t = "stale" THEN "other" ELSE t :
                                                         t \in @ \ {"active"}}]
                      ELSE outside
        unfenced == IF b.esc = "none" THEN released
                    ELSE ResumeWatchdogs([released EXCEPT !.ackFence = FALSE, !.fenced = {},
                                             !.projected = {}, !.included = {}, !.request = {}])
    IN  [unfenced EXCEPT !.latch = ~Blocked(unfenced) /\ idle]

\* pruneWorkflowWakeStateAfterMutation(): only what is on the new branch or in the
\* outbox keeps its place; queued bodies keep theirs.
Pruned(b, out, entries) ==
    LET keep == entries \union out.stored
    IN  [b EXCEPT !.awaiting = @ \intersect keep, !.watched = @ \intersect keep,
                  !.paused = @ \intersect keep, !.timedOut = @ \intersect keep,
                  !.parked = @ \intersect keep, !.projected = @ \intersect keep,
                  !.included = @ \intersect keep, !.wake = @ \intersect keep,
                  !.attempted = @ \intersect keep, !.request = @ \intersect keep,
                  !.loop = @ \intersect keep, !.ordinals = @ \intersect keep,
                  !.old = @ \intersect keep, !.fenced = @ \intersect keep,
                  !.canonical = @ \intersect keep]

\* requeueUnacknowledgedForNextGeneration()
Requeued(b) ==
    LET unacknowledged == (b.awaiting \union Uncertain(b)) \ b.delivered
        c == [b EXCEPT !.watched = {}, !.paused = {}, !.awaiting = {}, !.timedOut = {},
                       !.parked = {}, !.included = {}, !.projected = {}]
    IN  [AdmitWake(c, unacknowledged \ b.pending) EXCEPT !.pending = @ \union unacknowledged]

\* suspendWorkflowBridge()
Suspended(b) ==
    Requeued([ResetRetry(b) EXCEPT !.suspended = TRUE, !.tree = "none", !.mutation = FALSE,
                 !.auto = FALSE, !.starting = FALSE, !.latch = FALSE, !.inFlight = FALSE,
                 !.owner = "none", !.marked = {}, !.loop = {}])

\* bindDeliverBridge() and session_start: a new generation.  Entries whose record is
\* gone have been delivered.
Bound(b, out) ==
    LET requeued == Requeued(b)
    IN  [FreshBridge EXCEPT !.generation = b.generation + 1,
                            !.pending = requeued.pending,
                            !.canonical = branch,
                            !.reconcile = b.reconcile,
                            !.delivered = b.delivered
                                \union (branch \ (requeued.pending \union out.stored))]

----------------------------------------------------------------------------
(* Events. *)

IsIdle(h) == h.run = "none" /\ ~h.input

\* A handler ends with outcome o, and the host in h; a marker that the bridge has
\* sent waits to be started.
Take(o, h) ==
    /\ bridge' = o.bridge
    /\ outbox' = o.outbox
    /\ branch' = branch \union o.shown
    /\ twice' = twice \union (o.shown \intersect branch)
    /\ left' = [left EXCEPT !.faults = @ - o.cost]
    /\ host' = [h EXCEPT !.marker = @ \/ (o.bridge.auto /\ ~bridge.auto)]

Outcome(b) == [bridge |-> b, outbox |-> outbox, shown |-> {}, failed |-> {}, cost |-> 0]

\* A run has something to say: its record is written, then the bridge is told
\* (admitExplicitDelivery, ensureTerminalDelivery, sendWorkflowDelivery).
Arrive(d) ==
    /\ d \notin arrived
    /\ arrived' = arrived \union {d}
    /\ LET out == [outbox EXCEPT !.stored = @ \union {d}]
       IN  \E o \in Flushed(Queued(bridge, {d}), out, left.faults, IsIdle(host), FALSE) : Take(o, host)
    /\ UNCHANGED <<aside, accepted, taken, held, overlooked>>

\* The input hook: any input ends the safe point, a prompt also the deferral.
UserInput ==
    /\ ~bridge.suspended /\ host.run = "none" /\ ~host.input
    /\ LET b == IF bridge.compacting \/ bridge.tree # "none" THEN [bridge EXCEPT !.latch = FALSE]
                ELSE ResumeWatchdogs([bridge EXCEPT !.auto = FALSE, !.attempted = {},
                                         !.request = {}, !.latch = FALSE, !.defer = FALSE,
                                         !.starting = TRUE])
       IN  bridge' = b
    /\ host' = [host EXCEPT !.input = TRUE]
    /\ UNCHANGED <<outbox, branch, aside, left, arrived, accepted, taken, held, overlooked, twice>>

\* A command or another extension consumes the input.
InputConsumed ==
    /\ host.input /\ host.run = "none" /\ left.faults > 0
    /\ host' = [host EXCEPT !.input = FALSE]
    /\ left' = [left EXCEPT !.faults = @ - 1]
    /\ UNCHANGED <<outbox, bridge, branch, aside, arrived, accepted, taken, held, overlooked,
                   twice>>

RunStarts(b, run, marker) ==
    /\ host.run = "none" /\ host.mutating = "none"
    /\ bridge' = AgentStart(b)
    /\ host' = [host EXCEPT !.run = run, !.step = "open", !.marker = marker,
                            !.input = @ /\ run = "marker"]
    /\ UNCHANGED <<outbox, branch, aside, left, arrived, accepted, taken, held, overlooked, twice>>

\* The run takes a marker that waits with it, or leaves it to be rejected.
UserRunStarts ==
    /\ host.input
    /\ \E marker \in {FALSE, host.marker} : RunStarts(BeforeAgentStart(bridge, FALSE), "user", marker)

\* Hosts differ in whether they announce the run of a message.
MarkerStarts ==
    /\ host.marker
    /\ \E b \in {bridge, BeforeAgentStart(bridge, TRUE)} : RunStarts(b, "marker", FALSE)

\* The promise of sendMessage() is rejected: rollback().
MarkerRejected ==
    /\ host.marker
    /\ host' = [host EXCEPT !.marker = FALSE]
    /\ bridge' = IF ~bridge.inFlight THEN bridge
                 ELSE [bridge EXCEPT !.inFlight = FALSE, !.owner = "none", !.loop = {},
                                     !.starting = FALSE, !.auto = FALSE, !.latch = FALSE,
                                     !.marked = IF bridge.owner = "none" THEN @
                                                ELSE {IF t = "stale" THEN "other" ELSE t :
                                                        t \in @ \union {bridge.owner}}]
    /\ UNCHANGED <<outbox, branch, aside, left, arrived, accepted, taken, held, overlooked, twice>>

\* The timer of a prompt that has not started.
PromptTimer ==
    /\ bridge.starting
    /\ \E o \in Flushed([bridge EXCEPT !.starting = FALSE, !.auto = FALSE], outbox, left.faults,
                        IsIdle(host), FALSE) : Take(o, host)
    /\ UNCHANGED <<aside, arrived, accepted, taken, held, overlooked>>

Context ==
    /\ host.step = "open" \/ (host.step = "answered" /\ ~host.aborted)
    /\ \E r \in Recovered(bridge, outbox, host, left.faults), behind \in BOOLEAN :
       \E p \in Projected(r.bridge, r.outbox, host, r.messages, left.faults - r.cost, behind) :
          Take([bridge |-> p.bridge, outbox |-> p.outbox, shown |-> {}, cost |-> p.cost + r.cost],
               [host EXCEPT !.step = "context", !.body = p.body])
    /\ accepted' = accepted \union (IF CanFlush(bridge) /\ ~host.aborted
                                     THEN Suppressed(bridge, outbox, host) ELSE {})
    /\ UNCHANGED <<aside, arrived, taken, held, overlooked>>

Request ==
    /\ host.step = "context"
    /\ LET b == Requested(bridge, host.aborted)
           h == [host EXCEPT !.step = "sent"]
       IN  IF host.aborted \/ (bridge.projected = {} /\ host.body = {}) THEN Take(Outcome(b), h)
           ELSE \E o \in Flushed(b, outbox, left.faults, FALSE, FALSE) : Take(o, h)
    /\ UNCHANGED <<aside, arrived, accepted, taken, held, overlooked>>

\* The answer of a request that Esc has cut off may come until its run has settled.
LateAnswer(b) == b.esc # "none" /\ b.ackFence

Accept ==
    /\ accepted' = accepted \union (IF host.aborted THEN {} ELSE host.body)
    /\ taken' = taken \union (IF LateAnswer(bridge) THEN {} ELSE bridge.included)

\* A page of the history is associated with the request, even one without a record.
Associated(b) == b.included # {} \/ (host.body # {} /\ ~host.aborted)

\* after_provider_response
Answer ==
    /\ host.step = "sent"
    /\ LET h == [host EXCEPT !.step = "answered"]
       IN  IF LateAnswer(bridge) \/ ~Associated(bridge) THEN Take(Outcome(bridge), h)
           ELSE \E o \in Committed(bridge, outbox, left.faults, FALSE) : Take(o, h)
    /\ Accept
    /\ UNCHANGED <<aside, arrived, held, overlooked>>

\* The association stays for a retry of the provider.
AnswerFails ==
    /\ host.step = "sent" /\ left.faults > 0
    /\ host' = [host EXCEPT !.step = "failed"]
    /\ left' = [left EXCEPT !.faults = @ - 1]
    /\ bridge' = IF LateAnswer(bridge) \/ ~Associated(bridge) THEN bridge
                 ELSE [bridge EXCEPT !.defer = TRUE]
    /\ UNCHANGED <<outbox, branch, aside, arrived, accepted, taken, held, overlooked, twice>>

\* agent_end: after an abort it is one more word of the Esc; a run that has ended well has
\* consumed its request, though the provider has no hook; a run that fails tells nothing.
RunEnds ==
    LET h == [host EXCEPT !.step = "ended"]
    IN  /\ \/ /\ host.aborted
              /\ host.step \in {"open", "context", "sent", "answered", "failed"}
              /\ Take(Outcome(Fence(bridge)), h)
              /\ UNCHANGED <<accepted, taken>>
           \/ /\ ~host.aborted /\ host.step \in {"sent", "answered"}
              /\ IF LateAnswer(bridge) \/ ~Associated(bridge) THEN Take(Outcome(bridge), h)
                 ELSE \E o \in Committed(bridge, outbox, left.faults, FALSE) : Take(o, h)
              /\ IF host.step = "sent" THEN Accept ELSE UNCHANGED <<accepted, taken>>
           \/ /\ host.step = "failed" \/ (host.step \in {"open", "context"} /\ left.faults > 0)
              /\ Take([Outcome(bridge) EXCEPT !.cost = IF host.step = "failed" THEN 0 ELSE 1], h)
              /\ UNCHANGED <<accepted, taken>>
        /\ UNCHANGED <<aside, arrived, held, overlooked>>

\* agent_settled: the host is idle, and the safe point is used at once.
Settled ==
    /\ host.step = "ended" /\ host.mutating # "compact"
    /\ LET h == [host EXCEPT !.run = "none", !.step = "idle", !.aborted = FALSE, !.body = {}]
           b == AgentSettled(bridge, IsIdle(h))
       IN  \E o \in Flushed(b, outbox, left.faults, IsIdle(h), FALSE) :
              Take([o EXCEPT !.bridge = TryWake(@, IsIdle(h))], h)
    /\ UNCHANGED <<aside, arrived, accepted, taken, held, overlooked>>

\* Esc aborts the run.
Escape ==
    /\ host.run # "none" /\ host.step # "ended" /\ ~host.aborted /\ left.escapes > 0
    /\ bridge' = Fence(bridge)
    /\ host' = [host EXCEPT !.aborted = TRUE]
    /\ left' = [left EXCEPT !.escapes = @ - 1]
    /\ held' = arrived
    /\ UNCHANGED <<outbox, branch, aside, arrived, accepted, taken, overlooked, twice>>

\* get_workflow_output returns what a completed run has to say.
OutputTool ==
    /\ host.step = "answered" /\ ~host.reported /\ Terminal \subseteq arrived
    /\ host' = [host EXCEPT !.reported = TRUE]
    /\ UNCHANGED <<outbox, bridge, branch, aside, left, arrived, accepted, taken, held, overlooked,
                   twice>>

Mutating(b) ==
    [PauseWatchdogs(b) EXCEPT !.mutation = TRUE, !.latch = FALSE]

\* session_before_compact and session_before_tree
BeforeMutation(kind) ==
    /\ ~bridge.suspended /\ host.mutating = "none" /\ left.mutations > 0
    /\ host.step \in IF kind = "compact" THEN {"idle", "ended"} ELSE {"idle"}
    /\ host' = [host EXCEPT !.mutating = kind]
    /\ left' = [left EXCEPT !.mutations = @ - 1]
    /\ bridge' = IF kind = "compact" THEN [Mutating(bridge) EXCEPT !.compacting = TRUE]
                 ELSE [Mutating(bridge) EXCEPT !.tree = "active"]
    /\ UNCHANGED <<outbox, branch, aside, arrived, accepted, taken, held, overlooked, twice>>

\* The branch has changed: entries are compacted away, or the leaf is on another
\* branch; then session_compact or session_tree admits to the new one.
MutationDone(kind, entries) ==
    /\ host.mutating = kind
    /\ entries \subseteq IF kind = "compact" THEN branch ELSE branch \union aside
    /\ aside' = IF kind = "compact" THEN aside ELSE (branch \union aside) \ entries
    /\ LET pruned == [Pruned(bridge, outbox, entries) EXCEPT !.latch = FALSE]
           b == CASE kind = "compact" /\ bridge.compacting ->
                        ResumeWatchdogs([pruned EXCEPT !.compacting = FALSE, !.mutation = TRUE])
                  [] kind = "tree" /\ bridge.tree # "none" ->
                        ResumeWatchdogs([pruned EXCEPT !.tree = "passive"])
                  [] OTHER -> bridge
       IN  \E o \in IF b = bridge THEN {Outcome(b)}
                    ELSE Flushed(b, outbox, left.faults, IsIdle(host), FALSE) :
             /\ bridge' = o.bridge /\ outbox' = o.outbox
             /\ branch' = entries \union o.shown
             /\ twice' = twice \union (o.shown \intersect entries)
             /\ left' = [left EXCEPT !.faults = @ - o.cost]
    /\ \E reported \in {FALSE, host.reported} :
          host' = [host EXCEPT !.mutating = "none", !.reported = reported]
    /\ UNCHANGED <<arrived, accepted, taken, held, overlooked>>

\* It is cancelled or fails; no event tells the bridge.
MutationCancelled ==
    /\ host.mutating # "none"
    /\ host' = [host EXCEPT !.mutating = "none"]
    /\ UNCHANGED <<outbox, bridge, branch, aside, left, arrived, accepted, taken, held, overlooked,
                   twice>>

\* The watchdog of an entry that awaits its answer.
AckTimeout(d) ==
    /\ d \in bridge.watched
    /\ LET b == [bridge EXCEPT !.watched = @ \ {d}]
           c == [b EXCEPT !.awaiting = @ \ {d}, !.projected = @ \ {d}, !.included = @ \ {d},
                          !.timedOut = @ \union {d}, !.defer = TRUE]
       IN  IF d \notin b.awaiting \/ Cardinality(Uncertain(b)) >= UncertainLimit
             THEN Take(Outcome(b), host)
             ELSE \E o \in Flushed(c, outbox, left.faults, IsIdle(host), FALSE) : Take(o, host)
    /\ UNCHANGED <<aside, arrived, accepted, taken, held, overlooked>>

\* The timer of the retry lane: first the records of what was consumed, then the rest.
RetryFires ==
    /\ bridge.timer
    /\ LET known == bridge.reconcile \intersect Uncertain(bridge)
           mine == {d \in known \intersect outbox.stored : outbox.stamp[d] = bridge.generation}
       IN  \E done \in SUBSET mine :
           LET cost == Cardinality(mine \ done)
               b == [bridge EXCEPT !.timedOut = @ \ done, !.parked = @ \ done,
                                   !.delivered = @ \union done, !.reconcile = known \ done,
                                   !.defer = @ /\ (bridge.reconcile = {}
                                                     \/ (done = {} /\ known # {}))]
               out == [outbox EXCEPT !.stored = @ \ done]
           IN  /\ cost <= left.faults
               /\ \E o \in Flushed(b, out, left.faults - cost, IsIdle(host), TRUE) :
                    LET rest == [o.bridge EXCEPT !.timer = FALSE]
                    IN  Take([o EXCEPT !.cost = @ + cost,
                                       !.bridge = ScheduleRetry(rest, (known \ done) \union o.failed)],
                             host)
    /\ UNCHANGED <<aside, arrived, accepted, taken, held, overlooked>>

----------------------------------------------------------------------------
(* Sessions and processes. *)

\* session_shutdown: the host has aborted its run.
Shutdown ==
    /\ ~bridge.suspended /\ left.reloads > 0
    /\ bridge' = Suspended(bridge)
    /\ host' = IdleHost(host.reported)
    /\ left' = [left EXCEPT !.reloads = @ - 1]
    /\ UNCHANGED <<outbox, branch, aside, arrived, accepted, taken, held, overlooked, twice>>

\* The extension is loaded and its session starts: resumeWorkflowBridge() comes last.
SessionStart ==
    /\ bridge.suspended
    /\ LET b == [Replayed(Bound(bridge, outbox), outbox) EXCEPT !.suspended = FALSE]
       IN  \E o \in Flushed(b, outbox, left.faults, IsIdle(host), FALSE) : Take(o, host)
    /\ overlooked' = overlooked \union (aside \ branch)
    /\ taken' = {} /\ held' = {}
    /\ UNCHANGED <<aside, arrived, accepted>>

\* The process dies, and another one is started: the bridge counts its generations anew.
Restart ==
    /\ left.restarts > 0
    /\ bridge' = FreshBridge
    /\ host' = IdleHost(host.reported)
    /\ left' = [left EXCEPT !.restarts = @ - 1]
    /\ UNCHANGED <<outbox, branch, aside, arrived, accepted, taken, held, overlooked, twice>>

BridgeNext ==
    \/ \E d \in Deliveries : Arrive(d)
    \/ UserInput
    \/ InputConsumed
    \/ UserRunStarts
    \/ MarkerStarts
    \/ MarkerRejected
    \/ PromptTimer
    \/ Context
    \/ Request
    \/ Answer
    \/ AnswerFails
    \/ RunEnds
    \/ Settled
    \/ Escape
    \/ OutputTool
    \/ \E kind \in {"compact", "tree"} : BeforeMutation(kind)
    \/ \E kind \in {"compact", "tree"}, entries \in SUBSET (branch \union aside) :
          MutationDone(kind, entries)
    \/ MutationCancelled
    \/ \E d \in Deliveries : AckTimeout(d)
    \/ RetryFires
    \/ Shutdown
    \/ SessionStart
    \/ Restart

\* A session is started, its host goes on with what it does, and its user keeps asking: one of
\* SessionStart, UserInput, UserRunStarts, MarkerStarts, Context, Request, Answer, RunEnds,
\* Settled and MutationCancelled, told by what it changes.  The other steps that change the
\* same use up the budget, so they do not go on for ever.
SessionProgress ==
    \/ bridge'.suspended # bridge.suspended
    \/ host'.input # host.input
    \/ host'.step # host.step
    \/ host'.mutating # host.mutating

\* One of those steps is always enabled, so the first conjunct is their weak fairness.  A
\* run ends, since the model and its tools do; a prompt starts or its timer fires; the
\* timer of the retry lane fires; the user has more to ask.
BridgeFairness ==
    /\ []<><<SessionProgress>>_bridgeVars
    /\ []<>(host.run = "none")
    /\ []<>~bridge.starting
    /\ []<>~bridge.timer
    /\ WF_bridgeVars(UserInput)

BridgeSpec == BridgeInit /\ [][BridgeNext]_bridgeVars /\ BridgeFairness

----------------------------------------------------------------------------
(* Properties. *)

\* A record goes only when a provider has answered for its body, or when the output of its
\* run has stood for it: late answers, Esc, timeouts, compaction, reloads and crashes lose
\* nothing (commitWorkflowProviderAssociation, acknowledgeDelivery, discardDelivery).
NothingLost ==
    arrived \ outbox.stored \subseteq accepted

\* A delivery is shown once on a branch, whatever is retried or replayed, whichever branches
\* are compacted or left (sendWorkflowDeliveryToHistory, canonicalHistoryIds); but for one
\* whose entry was on another branch when a session began, if its user goes back there.
ShownOnce == twice \subseteq overlooked

\* "Never append a second visible copy for a phase retry" (sendWorkflowDeliveryToHistory).
NoSecondCopy == twice = {}

\* What is in a request awaits its answer, and nothing that a provider has consumed does so
\* again: only the record is left to reconcile (requeueWorkflowDeliveryAfterPersistenceFailure).
RequestsAwait ==
    /\ bridge.projected \union bridge.included \subseteq bridge.awaiting
    /\ bridge.parked \intersect (bridge.awaiting \union bridge.wake \union bridge.projected) = {}

MarkerSent == bridge'.auto /\ ~bridge.auto

\* A marker is for deliveries that no provider has read in this session, none of which
\* had arrived when the user last pressed Esc (tryWorkflowWakeAtSafePoint, isFencedFromWake).
WakesForNews ==
    [][MarkerSent => bridge'.loop \intersect (taken \union held) = {}]_bridgeVars

\* Every delivery is read in the end, if the user goes on asking; only one whose answer was
\* not seen in time may have to wait for the next session (startWorkflowAckWatchdog).
AllAreRead ==
    \A d \in Deliveries : d \in arrived ~> d \in accepted \union bridge.timedOut

\* "Uncertain sends remain replayable from the persisted run": what a session finds in the
\* outbox it can submit (acknowledgeDelivery).  A process counts its generations from
\* zero, below those that an earlier process has written.
RecordsAreReplayable ==
    ~bridge.suspended => outbox.stored \subseteq Submittable(bridge, outbox)

================================================================================
