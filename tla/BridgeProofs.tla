------------------------------ MODULE BridgeProofs ------------------------------
(***************************************************************************)
(* What DeliveryBridge promises for all its parameters.  Each handler is   *)
(* described by a lemma: which fields of the bridge it may change, and how *)
(* the sets it changes are bounded.  The invariant is stated for a bridge, *)
(* an outbox and a host, so that it can be carried through the stages of a *)
(* handler: every one ends with a flush, and a flush keeps it.             *)
(***************************************************************************)
EXTENDS DeliveryBridge, TLAPS

\* The fields that the properties depend on.
Fields == {"suspended", "compacting", "tree", "pending", "delivered", "canonical", "awaiting",
           "timedOut", "parked", "reconcile", "projected", "included", "ackFence", "ordinals",
           "esc", "old", "wake", "loop", "auto", "latch"}

IsBridge(b) == Fields \subseteq DOMAIN b
IsOutbox(out) == {"stored", "stamp"} \subseteq DOMAIN out
IsHost(h) == {"run", "step", "aborted", "input", "marker", "body", "mutating", "reported"}
                 \subseteq DOMAIN h

\* Bridge c is b but for some fields.
Same(b, c, changed) == \A f \in Fields \ changed : c[f] = b[f]

----------------------------------------------------------------------------
(* The retry lane, the wake state and the flush. *)

LEMMA AdmitWakeIs ==
    ASSUME NEW b, IsBridge(b), NEW ids
    PROVE  /\ IsBridge(AdmitWake(b, ids)) /\ Same(b, AdmitWake(b, ids), {"ordinals", "wake"})
           /\ AdmitWake(b, ids).ordinals = b.ordinals \union (ids \ b.parked)
           /\ AdmitWake(b, ids).wake = b.wake \union (ids \ b.parked)
BY DEF AdmitWake, IsBridge, Same, Fields

LEMMA ResetRetryIs ==
    ASSUME NEW b, IsBridge(b)
    PROVE  IsBridge(ResetRetry(b)) /\ Same(b, ResetRetry(b), {})
BY DEF ResetRetry, IsBridge, Same, Fields

LEMMA DeferWakeIs ==
    ASSUME NEW b, IsBridge(b), NEW ids
    PROVE  /\ IsBridge(DeferWake(b, ids)) /\ Same(b, DeferWake(b, ids), {"wake"})
           /\ DeferWake(b, ids).wake \subseteq b.wake
BY DEF DeferWake, IsBridge, Same, Fields

LEMMA ScheduleRetryIs ==
    ASSUME NEW b, IsBridge(b), NEW ids
    PROVE  /\ IsBridge(ScheduleRetry(b, ids)) /\ Same(b, ScheduleRetry(b, ids), {"wake"})
           /\ ScheduleRetry(b, ids).wake \subseteq b.wake
<1>1. ScheduleRetry(b, ids) \in {b, DeferWake(b, ids \ HasBody(b)),
                                 [b EXCEPT !.timer = TRUE, !.tries = @ + 1]}
    BY DEF ScheduleRetry
<1>2. LET c == [b EXCEPT !.timer = TRUE, !.tries = @ + 1]
      IN  IsBridge(c) /\ Same(b, c, {"wake"}) /\ c.wake = b.wake
    BY DEF IsBridge, Same, Fields
<1>3. CASE ScheduleRetry(b, ids) = b
    BY <1>3 DEF Same
<1>4. CASE ScheduleRetry(b, ids) = DeferWake(b, ids \ HasBody(b))
    BY <1>4, DeferWakeIs
<1>5. CASE ScheduleRetry(b, ids) = [b EXCEPT !.timer = TRUE, !.tries = @ + 1]
    BY <1>2, <1>5
<1> QED BY <1>1, <1>3, <1>4, <1>5

LEMMA WatchdogsAre ==
    ASSUME NEW b, IsBridge(b)
    PROVE  /\ IsBridge(ResumeWatchdogs(b)) /\ Same(b, ResumeWatchdogs(b), {})
           /\ IsBridge(PauseWatchdogs(b)) /\ Same(b, PauseWatchdogs(b), {})
           /\ IsBridge(ReleaseOwner(b)) /\ Same(b, ReleaseOwner(b), {})
BY DEF ResumeWatchdogs, PauseWatchdogs, ReleaseOwner, IsBridge, Same, Fields

\* A marker is sent only at a safe point, and for nothing that is delivered or that an
\* Esc has left behind.
LEMMA TryWakeIs ==
    ASSUME NEW b, IsBridge(b), NEW idle
    PROVE  /\ IsBridge(TryWake(b, idle)) /\ Same(b, TryWake(b, idle), {"loop", "latch", "auto"})
           /\ TryWake(b, idle).latch => b.latch
           /\ \/ TryWake(b, idle).auto = b.auto /\ TryWake(b, idle).loop = b.loop
              \/ /\ ~b.suspended /\ b.latch
                 /\ TryWake(b, idle).loop \subseteq b.wake \ (b.old \union b.delivered)
<1>1. IsBridge(TryWake(b, idle)) /\ Same(b, TryWake(b, idle), {"loop", "latch", "auto"})
    BY DEF TryWake, IsBridge, Same, Fields
<1>2. \/ TryWake(b, idle).auto = b.auto /\ TryWake(b, idle).loop = b.loop
      \/ ~b.suspended /\ b.latch /\ TryWake(b, idle).loop = WakeCandidates(b)
    BY DEF TryWake, Blocked, IsBridge, Fields
<1>3. WakeCandidates(b) \subseteq b.wake \ (b.old \union b.delivered)
    BY DEF WakeCandidates, HasBody
<1>4. TryWake(b, idle).latch => b.latch
    BY DEF TryWake, IsBridge, Fields
<1> QED BY <1>1, <1>2, <1>3, <1>4

LEMMA QueuedIs ==
    ASSUME NEW b, IsBridge(b), NEW ids
    PROVE  LET c == Queued(b, ids)
               fresh == ids \ (b.delivered \union b.awaiting \union Uncertain(b) \union b.pending)
           IN  /\ IsBridge(c) /\ Same(b, c, {"ordinals", "wake", "pending"})
               /\ c.pending = b.pending \union fresh
               /\ c.ordinals = b.ordinals \union fresh
               /\ c.wake = b.wake \union fresh
<1> DEFINE fresh == ids \ (b.delivered \union b.awaiting \union Uncertain(b) \union b.pending)
           a == AdmitWake(b, fresh)
<1>1. fresh \ b.parked = fresh
    BY DEF Uncertain
<1>2. Queued(b, ids) = [a EXCEPT !.pending = @ \union fresh]
    BY DEF Queued
<1>3. /\ IsBridge(a) /\ Same(b, a, {"ordinals", "wake"})
      /\ a.ordinals = b.ordinals \union fresh /\ a.wake = b.wake \union fresh
    BY <1>1, AdmitWakeIs
<1> HIDE DEF a, fresh
<1>4. /\ IsBridge(Queued(b, ids)) /\ Same(b, Queued(b, ids), {"ordinals", "wake", "pending"})
      /\ Queued(b, ids).pending = b.pending \union fresh
      /\ Queued(b, ids).ordinals = a.ordinals /\ Queued(b, ids).wake = a.wake
    BY <1>2, <1>3 DEF IsBridge, Same, Fields
<1> QED BY <1>3, <1>4 DEF fresh

\* What a flush does to bridge b: bodies are shown that are not shown, on their way or
\* delivered already, and what is known may wake the session.
Flushes(b, out, o) ==
    /\ IsBridge(o.bridge) /\ IsOutbox(o.outbox) /\ o.outbox.stored = out.stored
    /\ Same(b, o.bridge, {"pending", "awaiting", "canonical", "ordinals", "wake", "loop", "latch",
                          "auto"})
    /\ o.shown \subseteq (b.pending \union out.stored)
                            \ (b.delivered \union b.awaiting \union Uncertain(b) \union b.canonical)
    /\ b.suspended => o.shown = {}
    /\ o.bridge.awaiting = b.awaiting \union o.shown
    /\ o.bridge.canonical = b.canonical \union o.shown
    /\ o.bridge.pending \subseteq b.pending \union out.stored
    /\ o.bridge.wake \subseteq b.wake \union ((b.pending \union out.stored) \ Uncertain(b))
    /\ b.ordinals \subseteq o.bridge.ordinals
    /\ o.bridge.latch => b.latch
    /\ \/ o.bridge.auto = b.auto /\ o.bridge.loop = b.loop
       \/ /\ ~b.suspended /\ b.latch
          /\ o.bridge.loop \subseteq (b.wake \union ((b.pending \union out.stored) \ Uncertain(b)))
                                         \ (b.old \union b.delivered)

IsOutcome(o) == {"bridge", "outbox", "shown", "failed", "cost"} \subseteq DOMAIN o

LEMMA FlushedIs ==
    ASSUME NEW b, IsBridge(b), NEW out, IsOutbox(out), NEW faults, NEW idle, NEW inProgress,
           NEW o \in Flushed(b, out, faults, idle, inProgress)
    PROVE  /\ Flushes(b, out, o)
           /\ CanFlush(b) => (b.pending \union out.stored)
                               \ (b.delivered \union b.awaiting \union Uncertain(b))
                                 \subseteq o.bridge.ordinals
           /\ IsOutcome(o)
<1> DEFINE fresh == IF ~b.timer /\ ~inProgress THEN ResetRetry(b) ELSE b
           replayed == Replayed(fresh, out)
           live == replayed.pending \ (b.delivered \union b.awaiting \union Uncertain(b))
           toShow == ToShow(replayed)
           again == live \ toShow
           admitted == AdmitWake(replayed, live)
           Ended(c) == IF c.pending = {} /\ ~inProgress THEN ResetRetry(c) ELSE c
<1>1. CASE ~CanFlush(b)
    <2>1. o = [bridge |-> b, outbox |-> out, shown |-> {}, failed |-> {}, cost |-> 0]
        BY <1>1 DEF Flushed
    <2>2. o.bridge = b /\ o.outbox = out /\ o.shown = {}
        BY <2>1
    <2>3. IsOutcome(o)
        BY <2>1 DEF IsOutcome
    <2> QED BY <1>1, <2>2, <2>3 DEF Flushes, Same
<1>2. CASE CanFlush(b)
    <2>1. PICK s \in [shown : SUBSET toShow, unsaved : SUBSET toShow, unsent : SUBSET toShow,
                      released : BOOLEAN] :
              o = LET kept == toShow \ s.shown
                      c == [admitted EXCEPT !.pending = kept, !.awaiting = @ \union s.shown,
                                            !.canonical = @ \union s.shown]
                      waiting == Ended(DeferWake(c, kept))
                      deferred == [waiting EXCEPT !.defer = @ /\ ~s.released]
                      retried == IF inProgress THEN deferred
                                 ELSE ScheduleRetry(deferred, s.unsaved \union s.unsent)
                  IN  [bridge |-> IF s.shown \union again # {} THEN TryWake(retried, idle) ELSE retried,
                       outbox |-> [out EXCEPT !.stamp =
                                     [d \in Deliveries |-> IF d \in s.shown \union s.unsent
                                                             THEN b.generation ELSE @[d]]],
                       shown |-> s.shown,
                       failed |-> s.unsaved \union s.unsent,
                       cost |-> Cardinality((s.unsaved \intersect Submittable(b, out)) \union s.unsent)]
        BY <1>2, ZenonT(30) DEF Flushed
    <2> DEFINE kept == toShow \ s.shown
               c == [admitted EXCEPT !.pending = kept, !.awaiting = @ \union s.shown,
                                     !.canonical = @ \union s.shown]
               waiting == Ended(DeferWake(c, kept))
               deferred == [waiting EXCEPT !.defer = @ /\ ~s.released]
               retried == IF inProgress THEN deferred
                          ELSE ScheduleRetry(deferred, s.unsaved \union s.unsent)
    <2>2. /\ o.bridge \in {TryWake(retried, idle), retried}
          /\ o.outbox = [out EXCEPT !.stamp =
                            [d \in Deliveries |-> IF d \in s.shown \union s.unsent
                                                    THEN b.generation ELSE @[d]]]
          /\ o.shown = s.shown
          /\ IsOutcome(o)
        BY <2>1 DEF IsOutcome
    <2>3. IsOutbox(o.outbox) /\ o.outbox.stored = out.stored
        BY <2>2 DEF IsOutbox
    <2>4. IsBridge(fresh) /\ Same(b, fresh, {})
        BY ResetRetryIs DEF Same
    <2> HIDE DEF fresh
    <2>5. /\ IsBridge(replayed) /\ Same(b, replayed, {"ordinals", "wake", "pending"})
          /\ replayed.pending \subseteq b.pending \union out.stored
          /\ b.ordinals \subseteq replayed.ordinals
          /\ replayed.wake \subseteq b.wake \union (out.stored \ Uncertain(b))
          /\ (b.pending \union out.stored)
                  \ (b.delivered \union b.awaiting \union Uncertain(b)) \subseteq replayed.pending
        BY <2>4, QueuedIs DEF Replayed, Same, Fields, Uncertain
    <2> HIDE DEF replayed
    <2>6. toShow \subseteq live /\ toShow \intersect b.canonical = {} /\ s.shown \subseteq toShow
        BY <2>1, <2>5 DEF ToShow, Same, Fields, Uncertain
    <2>7. /\ IsBridge(admitted) /\ Same(b, admitted, {"ordinals", "wake", "pending"})
          /\ admitted.ordinals = replayed.ordinals \union (live \ replayed.parked)
          /\ admitted.wake = replayed.wake \union (live \ replayed.parked)
        BY <2>5, AdmitWakeIs DEF Same, Fields
    <2>8. live \ replayed.parked = live
        BY <2>5 DEF Same, Fields, Uncertain
    <2> HIDE DEF admitted, live, toShow
    <2>9. /\ IsBridge(c) /\ Same(b, c, {"ordinals", "wake", "pending", "awaiting", "canonical"})
          /\ c.pending = kept /\ c.ordinals = admitted.ordinals /\ c.wake = admitted.wake
          /\ c.awaiting = b.awaiting \union s.shown /\ c.canonical = b.canonical \union s.shown
        BY <2>7 DEF IsBridge, Same, Fields
    <2> HIDE DEF c, kept
    <2>10. /\ IsBridge(retried) /\ Same(c, retried, {"wake"}) /\ retried.wake \subseteq c.wake
        <3>1. /\ IsBridge(DeferWake(c, kept)) /\ Same(c, DeferWake(c, kept), {"wake"})
              /\ DeferWake(c, kept).wake \subseteq c.wake
            BY <2>9, DeferWakeIs
        <3>2. IsBridge(waiting) /\ Same(c, waiting, {"wake"}) /\ waiting.wake \subseteq c.wake
            BY <3>1, ResetRetryIs DEF Same, Fields
        <3> HIDE DEF waiting
        <3>3. IsBridge(deferred) /\ Same(c, deferred, {"wake"}) /\ deferred.wake \subseteq c.wake
            BY <3>2 DEF IsBridge, Same, Fields
        <3> HIDE DEF deferred
        <3> QED BY <3>3, ScheduleRetryIs DEF Same, Fields
    <2> HIDE DEF retried
    <2>11. /\ o.bridge.latch => retried.latch
           /\ IsBridge(o.bridge) /\ Same(retried, o.bridge, {"loop", "latch", "auto"})
           /\ \/ o.bridge.auto = retried.auto /\ o.bridge.loop = retried.loop
              \/ /\ retried.latch
                 /\ o.bridge.loop \subseteq retried.wake \ (retried.old \union retried.delivered)
        BY <2>2, <2>10, TryWakeIs DEF Same
    <2>12. /\ Same(b, o.bridge, {"pending", "awaiting", "canonical", "ordinals", "wake", "loop",
                                 "latch", "auto"})
           /\ o.bridge.pending = kept /\ o.bridge.ordinals = admitted.ordinals
           /\ o.bridge.awaiting = b.awaiting \union s.shown
           /\ o.bridge.canonical = b.canonical \union s.shown
           /\ o.bridge.wake = retried.wake /\ retried.wake \subseteq admitted.wake
           /\ retried.auto = b.auto /\ retried.latch = b.latch /\ retried.loop = b.loop
           /\ retried.old = b.old /\ retried.delivered = b.delivered
        BY <2>9, <2>10, <2>11 DEF Same, Fields
    <2>13. live \subseteq (b.pending \union out.stored)
                              \ (b.delivered \union b.awaiting \union Uncertain(b))
        BY <2>5 DEF live
    <2>14. /\ o.bridge.pending \subseteq b.pending \union out.stored
           /\ o.bridge.wake \subseteq b.wake \union ((b.pending \union out.stored) \ Uncertain(b))
           /\ b.ordinals \subseteq o.bridge.ordinals
        BY <2>5, <2>6, <2>7, <2>8, <2>12, <2>13 DEF kept
    <2>15. o.shown \subseteq (b.pending \union out.stored)
                            \ (b.delivered \union b.awaiting \union Uncertain(b) \union b.canonical)
        BY <2>2, <2>6, <2>13
    <2>16. (b.pending \union out.stored) \ (b.delivered \union b.awaiting \union Uncertain(b))
              \subseteq o.bridge.ordinals
        BY <2>5, <2>7, <2>8, <2>12 DEF live
    <2>17. ~b.suspended
        BY <1>2 DEF CanFlush
    <2> QED BY <2>2, <2>3, <2>11, <2>12, <2>14, <2>15, <2>16, <2>17 DEF Flushes
<1> QED BY <1>1, <1>2

\* The safe point that is looked at once more after a flush.
LEMMA TryWakeAfter ==
    ASSUME NEW b, NEW out, NEW o, Flushes(b, out, o), NEW idle, NEW p,
           p.bridge = TryWake(o.bridge, idle), p.outbox = o.outbox, p.shown = o.shown
    PROVE  Flushes(b, out, p)
<1>1. /\ IsBridge(p.bridge) /\ Same(o.bridge, p.bridge, {"loop", "latch", "auto"})
      /\ p.bridge.latch => o.bridge.latch
      /\ \/ p.bridge.auto = o.bridge.auto /\ p.bridge.loop = o.bridge.loop
         \/ /\ ~o.bridge.suspended /\ o.bridge.latch
            /\ p.bridge.loop \subseteq o.bridge.wake \ (o.bridge.old \union o.bridge.delivered)
    BY TryWakeIs DEF Flushes
<1>2. /\ p.bridge.awaiting = o.bridge.awaiting /\ p.bridge.canonical = o.bridge.canonical
      /\ p.bridge.pending = o.bridge.pending /\ p.bridge.wake = o.bridge.wake
      /\ p.bridge.ordinals = o.bridge.ordinals
      /\ o.bridge.suspended = b.suspended /\ o.bridge.old = b.old /\ o.bridge.delivered = b.delivered
      /\ Same(b, p.bridge, {"pending", "awaiting", "canonical", "ordinals", "wake", "loop", "latch",
                            "auto"})
    BY <1>1 DEF Flushes, Same, Fields
<1> QED BY <1>1, <1>2 DEF Flushes

----------------------------------------------------------------------------
(* The other handlers. *)

\* Bridge c is b without the deliveries `ids', which are delivered.
Forgets(b, ids, c) ==
    /\ IsBridge(c)
    /\ Same(b, c, {"pending", "included", "awaiting", "timedOut", "parked", "wake", "loop",
                   "ordinals", "old", "delivered"})
    /\ c.pending = b.pending \ ids /\ c.included = b.included \ ids
    /\ c.awaiting = b.awaiting \ ids /\ c.timedOut = b.timedOut \ ids
    /\ c.parked = b.parked \ ids /\ c.wake = b.wake \ ids
    /\ c.ordinals = b.ordinals \ ids /\ c.old = b.old \ ids
    /\ c.delivered = b.delivered \union ids

LEMMA ForgetIs ==
    ASSUME NEW b, IsBridge(b), NEW ids
    PROVE  Forgets(b, ids, Forget(b, ids))
BY DEF Forgets, Forget, IsBridge, Same, Fields

LEMMA RequestedIs ==
    ASSUME NEW b, IsBridge(b), NEW aborted
    PROVE  LET c == Requested(b, aborted)
           IN  /\ IsBridge(c) /\ Same(b, c, {"projected", "included", "pending"})
               /\ c.projected = {} /\ c.included = IF aborted THEN {} ELSE b.projected
               /\ c.pending \subseteq b.pending
<1> DEFINE batch == IF aborted THEN {} ELSE b.projected
           waking == batch \intersect b.wake
           owns == b.inFlight /\ b.owner \in {"none", "active"}
           c == [b EXCEPT !.projected = {},
                       !.included = batch,
                       !.request = waking,
                       !.attempted = @ \union (IF owns THEN waking \ (b.old \union b.fenced) ELSE {}),
                       !.pending = @ \ batch]
<1>1. Requested(b, aborted) \in {c, ReleaseOwner(c)}
    BY DEF Requested
<1>2. /\ IsBridge(c) /\ Same(b, c, {"projected", "included", "pending"})
      /\ c.projected = {} /\ c.included = batch /\ c.pending \subseteq b.pending
    BY DEF IsBridge, Same, Fields
<1> HIDE DEF c
<1>3. IsBridge(ReleaseOwner(c)) /\ Same(c, ReleaseOwner(c), {})
    BY <1>2, WatchdogsAre
<1>4. Same(c, Requested(b, aborted), {}) /\ IsBridge(Requested(b, aborted))
    BY <1>1, <1>2, <1>3 DEF Same
<1> HIDE DEF batch
<1>5. LET d == Requested(b, aborted)
      IN  /\ Same(b, d, {"projected", "included", "pending"})
          /\ d.projected = {} /\ d.included = batch /\ d.pending \subseteq b.pending
    BY <1>2, <1>4 DEF Same, Fields
<1> QED BY <1>4, <1>5 DEF batch

\* What a provider has answered for: the records that could be struck off are delivered, the
\* others parked.
Consumed(b, out, done, c, kept) ==
    /\ done \subseteq b.included
    /\ IsBridge(c)
    /\ Same(b, c, {"included", "awaiting", "delivered", "wake", "loop", "projected", "parked",
                   "reconcile"})
    /\ c.included = {} /\ c.awaiting = b.awaiting \ b.included
    /\ c.delivered = b.delivered \union done
    /\ c.parked = b.parked \union (b.included \ done)
    /\ c.reconcile = b.reconcile \union (b.included \ done)
    /\ c.wake \subseteq b.wake \ (b.included \ done)
    /\ c.projected \subseteq b.projected
    /\ IsOutbox(kept) /\ kept.stored = out.stored \ done

\* Nothing is shown, and what is to be woken for may have become less.
LEMMA UnflushedIs ==
    ASSUME NEW b, IsBridge(b), NEW out, IsOutbox(out), NEW o, IsBridge(o.bridge), o.outbox = out,
           o.shown = {}, Same(b, o.bridge, {"wake"}), o.bridge.wake \subseteq b.wake
    PROVE  Flushes(b, out, o)
BY DEF Flushes, Same, Fields

LEMMA OutcomeIs ==
    ASSUME NEW b, IsBridge(b), IsOutbox(outbox)
    PROVE  Flushes(b, outbox, Outcome(b))
BY UnflushedIs DEF Outcome, Same

LEMMA CommittedIs ==
    ASSUME NEW b, IsBridge(b), NEW out, IsOutbox(out), NEW faults, NEW idle,
           NEW o \in Committed(b, out, faults, idle)
    PROVE  \E done, c, kept : Consumed(b, out, done, c, kept) /\ Flushes(c, kept, o)
<1> DEFINE Rest(f) == b.included \ f
           C(f) == [b EXCEPT !.included = {},
                        !.awaiting = @ \ b.included,
                        !.watched = @ \ b.included,
                        !.paused = @ \ b.included,
                        !.delivered = @ \union Rest(f),
                        !.wake = @ \ ((Rest(f) \intersect b.request) \union f),
                        !.attempted = @ \ f,
                        !.loop = @ \ f,
                        !.projected = @ \ f,
                        !.request = {},
                        !.parked = @ \union f,
                        !.reconcile = @ \union f,
                        !.defer = @ \/ f # {}]
           Kept(f) == [out EXCEPT !.stored = @ \ Rest(f)]
           Cost(f) == Cardinality({d \in f \intersect out.stored : out.stamp[d] = b.generation})
           Outcomes(f) == IF f # {} THEN {[bridge |-> ScheduleRetry(C(f), f), outbox |-> Kept(f),
                                           shown |-> {}, failed |-> f, cost |-> Cost(f)]}
                          ELSE Flushed(C(f), Kept(f), faults, idle, FALSE)
           F == {f \in SUBSET b.included :
                   /\ \A d \in b.included \ f : d \in out.stored /\ out.stamp[d] = b.generation
                   /\ Cardinality({d \in f \intersect out.stored : out.stamp[d] = b.generation})
                        <= faults}
<1>1. PICK f \in SUBSET b.included : o \in Outcomes(f)
    <2>1. Committed(b, out, faults, idle) = UNION {Outcomes(f) : f \in F}
        BY DEF Committed
    <2> HIDE DEF Outcomes
    <2> QED BY <2>1
<1>2. b.included \ Rest(f) = f
    OBVIOUS
<1>3. Consumed(b, out, Rest(f), C(f), Kept(f))
    <2>1. /\ IsBridge(C(f))
          /\ Same(b, C(f), {"included", "awaiting", "delivered", "wake", "loop", "projected", "parked",
                            "reconcile"})
          /\ C(f).included = {} /\ C(f).awaiting = b.awaiting \ b.included
          /\ C(f).delivered = b.delivered \union Rest(f)
          /\ C(f).parked = b.parked \union f /\ C(f).reconcile = b.reconcile \union f
          /\ C(f).wake \subseteq b.wake \ f /\ C(f).projected \subseteq b.projected
        BY DEF IsBridge, Same, Fields
    <2>2. IsOutbox(Kept(f)) /\ Kept(f).stored = out.stored \ Rest(f)
        BY DEF IsOutbox
    <2> HIDE DEF C, Kept
    <2> QED BY <1>2, <2>1, <2>2 DEF Consumed
<1> HIDE DEF C, Kept, Rest, Cost
<1>4. CASE f # {}
    <2>1. /\ o.bridge = ScheduleRetry(C(f), f) /\ o.outbox = Kept(f) /\ o.shown = {}
        BY <1>1, <1>4
    <2>2. IsBridge(C(f)) /\ IsOutbox(Kept(f))
        BY <1>3 DEF Consumed
    <2>3. /\ IsBridge(o.bridge) /\ Same(C(f), o.bridge, {"wake"})
          /\ o.bridge.wake \subseteq C(f).wake
        BY <2>1, <2>2, ScheduleRetryIs
    <2>4. Flushes(C(f), Kept(f), o)
        BY <2>1, <2>2, <2>3, UnflushedIs
    <2> QED BY <1>3, <2>4
<1>5. CASE f = {}
    <2>1. o \in Flushed(C(f), Kept(f), faults, idle, FALSE)
        BY <1>1, <1>5
    <2> QED BY <1>3, <2>1, FlushedIs DEF Consumed
<1> QED BY <1>4, <1>5

LEMMA FenceIs ==
    ASSUME NEW b, IsBridge(b)
    PROVE  LET c == Fence(b)
           IN  /\ IsBridge(c)
               /\ b.esc = "active" => c = b
               /\ b.esc # "active" =>
                    /\ Same(b, c, {"esc", "old", "ackFence", "latch", "auto", "projected", "included"})
                    /\ c.esc = "active" /\ c.old = b.ordinals /\ ~c.auto
                    /\ c.projected = {} /\ c.included = {}
<1> DEFINE r == ResetRetry(PauseWatchdogs(b))
           c == [r EXCEPT !.esc = "active",
                       !.old = b.ordinals,
                       !.fenced = @ \union b.request \union b.projected \union b.included
                                    \union b.awaiting
                                    \union (IF b.inFlight THEN b.loop \union b.attempted ELSE {}),
                       !.ackFence = @ \/ b.included # {},
                       !.latch = FALSE, !.starting = FALSE, !.auto = FALSE,
                       !.projected = {}, !.included = {}, !.request = {}]
<1>1. IsBridge(r) /\ Same(b, r, {})
    BY ResetRetryIs, WatchdogsAre DEF Same
<1>2. Fence(b) = IF b.esc = "active" THEN b ELSE c
    BY DEF Fence
<1> HIDE DEF r
<1>3. /\ IsBridge(c) /\ Same(r, c, {"esc", "old", "ackFence", "latch", "auto", "projected", "included"})
      /\ c.esc = "active" /\ c.old = b.ordinals /\ ~c.auto /\ c.projected = {} /\ c.included = {}
    BY <1>1 DEF IsBridge, Same, Fields
<1> HIDE DEF c
<1>4. Same(b, c, {"esc", "old", "ackFence", "latch", "auto", "projected", "included"})
    BY <1>1, <1>3 DEF Same
<1> QED BY <1>2, <1>3, <1>4

LEMMA BeforeAgentStartIs ==
    ASSUME NEW b, IsBridge(b), NEW empty
    PROVE  LET c == BeforeAgentStart(b, empty)
           IN  /\ IsBridge(c) /\ Same(b, c, {"auto", "latch", "tree", "compacting"})
               /\ c.auto => b.auto
<1> DEFINE r == ReleaseOwner(b)
           x == [r EXCEPT !.auto = FALSE, !.latch = FALSE]
           y == [b EXCEPT !.latch = FALSE]
           z == [r EXCEPT !.auto = FALSE, !.latch = FALSE, !.tree = "none", !.compacting = FALSE,
                          !.mutation = FALSE, !.starting = TRUE, !.attempted = {},
                          !.request = {}, !.defer = FALSE]
<1>1. IsBridge(r) /\ Same(b, r, {})
    BY WatchdogsAre
<1>2. BeforeAgentStart(b, empty) \in {x, y, ResumeWatchdogs(z)}
    BY DEF BeforeAgentStart
<1> HIDE DEF r
<1> DEFINE Fit(c) == /\ IsBridge(c) /\ Same(b, c, {"auto", "latch", "tree", "compacting"})
                     /\ c.auto => b.auto
<1>31. Fit(x)
    BY <1>1 DEF IsBridge, Same, Fields
<1>32. Fit(y)
    BY DEF IsBridge, Same, Fields
<1>33. Fit(z)
    BY <1>1 DEF IsBridge, Same, Fields
<1> HIDE DEF x, y, z
<1>3. \A c \in {x, y, z} : /\ IsBridge(c) /\ Same(b, c, {"auto", "latch", "tree", "compacting"})
                           /\ c.auto => b.auto
    BY <1>31, <1>32, <1>33
<1>4. IsBridge(ResumeWatchdogs(z)) /\ Same(z, ResumeWatchdogs(z), {})
    BY <1>3, WatchdogsAre
<1>5. /\ Same(b, ResumeWatchdogs(z), {"auto", "latch", "tree", "compacting"})
      /\ ResumeWatchdogs(z).auto => b.auto
    BY <1>3, <1>4 DEF Same, Fields
<1> QED BY <1>2, <1>3, <1>4, <1>5

LEMMA AgentStartIs ==
    ASSUME NEW b, IsBridge(b)
    PROVE  LET c == AgentStart(b)
           IN  /\ IsBridge(c) /\ Same(b, c, {"auto", "latch", "esc"})
               /\ ~c.auto /\ c.esc = IF b.esc = "active" THEN "stale" ELSE b.esc
<1> DEFINE Aged(t) == IF t # "active" THEN t ELSE IF b.owner = "active" THEN "stale" ELSE "other"
           aged == [b EXCEPT !.activeRun = TRUE, !.latch = FALSE, !.starting = FALSE, !.auto = FALSE,
                          !.owner = IF @ = "active" THEN "stale" ELSE @,
                          !.marked = {Aged(t) : t \in @},
                          !.esc = IF @ = "active" THEN "stale" ELSE @]
           freed == ReleaseOwner(aged)
           x == [aged EXCEPT !.inFlight = TRUE, !.owner = "active",
                            !.marked = {IF t = "stale" THEN "other" ELSE t : t \in @} \union {"active"}]
           y == [freed EXCEPT !.marked = @ \union (IF b.inFlight THEN {"active"} ELSE {})]
<1>1. AgentStart(b) = IF b.auto THEN x ELSE y
    BY DEF AgentStart
<1>2. /\ IsBridge(aged) /\ Same(b, aged, {"auto", "latch", "esc"})
      /\ ~aged.auto /\ aged.esc = IF b.esc = "active" THEN "stale" ELSE b.esc
    BY DEF IsBridge, Same, Fields
<1> HIDE DEF aged
<1>3. IsBridge(freed) /\ Same(aged, freed, {})
    BY <1>2, WatchdogsAre
<1> HIDE DEF freed
<1>4. IsBridge(x) /\ Same(aged, x, {}) /\ IsBridge(y) /\ Same(freed, y, {})
    BY <1>2, <1>3 DEF IsBridge, Same, Fields
<1> HIDE DEF x, y
<1>5. Same(aged, y, {})
    BY <1>3, <1>4 DEF Same
<1>6. \A c : Same(aged, c, {}) => /\ Same(b, c, {"auto", "latch", "esc"}) /\ ~c.auto
                                  /\ c.esc = IF b.esc = "active" THEN "stale" ELSE b.esc
    BY <1>2 DEF Same, Fields
<1> QED BY <1>1, <1>4, <1>5, <1>6

LEMMA AgentSettledIs ==
    ASSUME NEW b, IsBridge(b), NEW idle
    PROVE  LET c == AgentSettled(b, idle)
           IN  /\ IsBridge(c)
               /\ Same(b, c, {"compacting", "ackFence", "projected", "included", "latch", "loop"})
               /\ IF b.esc = "none"
                    THEN c.ackFence = b.ackFence /\ c.projected = b.projected /\ c.included = b.included
                    ELSE ~c.ackFence /\ c.projected = {} /\ c.included = {}
<1> DEFINE outside == IF b.mutation /\ b.tree = "none"
                        THEN ResumeWatchdogs([b EXCEPT !.compacting = FALSE, !.mutation = FALSE])
                        ELSE [b EXCEPT !.compacting = FALSE]
           markerRun == \/ b.owner = "none" /\ b.marked = {}
                        \/ b.owner # "none" /\ (~b.activeRun \/ "active" \in b.marked)
           released == IF b.inFlight /\ markerRun
                         THEN [outside EXCEPT !.inFlight = FALSE, !.owner = "none", !.loop = {},
                                              !.marked = {IF t = "stale" THEN "other" ELSE t :
                                                            t \in @ \ {"active"}}]
                         ELSE outside
           freed == [released EXCEPT !.ackFence = FALSE, !.fenced = {},
                                     !.projected = {}, !.included = {}, !.request = {}]
           unfenced == IF b.esc = "none" THEN released ELSE ResumeWatchdogs(freed)
<1>1. AgentSettled(b, idle) = [unfenced EXCEPT !.latch = ~Blocked(unfenced) /\ idle]
    BY DEF AgentSettled
<1>2. IsBridge(outside) /\ Same(b, outside, {"compacting"})
    <2> DEFINE x == [b EXCEPT !.compacting = FALSE, !.mutation = FALSE]
    <2>1. IsBridge(x) /\ Same(b, x, {"compacting"})
        BY DEF IsBridge, Same, Fields
    <2>2. LET y == [b EXCEPT !.compacting = FALSE] IN IsBridge(y) /\ Same(b, y, {"compacting"})
        BY DEF IsBridge, Same, Fields
    <2> HIDE DEF x
    <2>3. IsBridge(ResumeWatchdogs(x)) /\ Same(b, ResumeWatchdogs(x), {"compacting"})
        BY <2>1, WatchdogsAre DEF Same
    <2> QED BY <2>2, <2>3 DEF x
<1> HIDE DEF outside
<1>3. IsBridge(released) /\ Same(b, released, {"compacting", "loop"})
    BY <1>2 DEF IsBridge, Same, Fields
<1> HIDE DEF released
<1>4. /\ IsBridge(freed)
      /\ Same(b, freed, {"compacting", "loop", "ackFence", "projected", "included"})
      /\ ~freed.ackFence /\ freed.projected = {} /\ freed.included = {}
    BY <1>3 DEF IsBridge, Same, Fields
<1> HIDE DEF freed
<1>5. IsBridge(ResumeWatchdogs(freed)) /\ Same(freed, ResumeWatchdogs(freed), {})
    BY <1>4, WatchdogsAre
<1>6. /\ IsBridge(unfenced)
      /\ Same(b, unfenced, {"compacting", "loop", "ackFence", "projected", "included"})
      /\ IF b.esc = "none"
           THEN /\ unfenced.ackFence = b.ackFence /\ unfenced.projected = b.projected
                /\ unfenced.included = b.included
           ELSE ~unfenced.ackFence /\ unfenced.projected = {} /\ unfenced.included = {}
    BY <1>3, <1>4, <1>5 DEF Same, Fields
<1> HIDE DEF unfenced
<1> QED BY <1>1, <1>6 DEF IsBridge, Same, Fields

\* Bridge c is b with what is in `keep' and with the queue.
Prunes(b, keep, c) ==
    /\ IsBridge(c)
    /\ Same(b, c, {"awaiting", "timedOut", "parked", "projected", "included", "wake", "loop",
                   "ordinals", "old", "canonical"})
    /\ c.awaiting = b.awaiting \intersect keep /\ c.timedOut = b.timedOut \intersect keep
    /\ c.parked = b.parked \intersect keep /\ c.projected = b.projected \intersect keep
    /\ c.included = b.included \intersect keep /\ c.wake = b.wake \intersect keep
    /\ c.ordinals = b.ordinals \intersect keep /\ c.old = b.old \intersect keep
    /\ c.canonical = b.canonical \intersect keep

LEMMA PrunedIs ==
    ASSUME NEW b, IsBridge(b), NEW out, NEW entries
    PROVE  Prunes(b, entries \union out.stored, Pruned(b, out, entries))
<1> DEFINE c == Pruned(b, out, entries)
           keep == entries \union out.stored
<1>1. IsBridge(c)
    BY DEF Pruned, IsBridge, Fields
<1>2. Same(b, c, {"awaiting", "timedOut", "parked", "projected", "included", "wake", "loop",
                  "ordinals", "old", "canonical"})
    BY DEF Pruned, IsBridge, Same, Fields
<1>3. /\ c.awaiting = b.awaiting \intersect keep /\ c.timedOut = b.timedOut \intersect keep
      /\ c.parked = b.parked \intersect keep /\ c.projected = b.projected \intersect keep
      /\ c.included = b.included \intersect keep /\ c.wake = b.wake \intersect keep
    BY DEF Pruned, IsBridge, Fields
<1>4. /\ c.ordinals = b.ordinals \intersect keep /\ c.old = b.old \intersect keep
      /\ c.canonical = b.canonical \intersect keep
    BY DEF Pruned, IsBridge, Fields
<1> QED BY <1>1, <1>2, <1>3, <1>4 DEF Prunes

LEMMA RequeuedIs ==
    ASSUME NEW b, IsBridge(b)
    PROVE  LET c == Requeued(b)
           IN  /\ IsBridge(c)
               /\ Same(b, c, {"awaiting", "timedOut", "parked", "included", "projected", "pending",
                              "ordinals", "wake"})
               /\ c.awaiting = {} /\ c.timedOut = {} /\ c.parked = {} /\ c.included = {}
               /\ c.projected = {}
               /\ c.pending = b.pending \union ((b.awaiting \union Uncertain(b)) \ b.delivered)
               /\ c.wake \subseteq b.wake \union b.awaiting \union Uncertain(b)
<1> DEFINE unack == (b.awaiting \union Uncertain(b)) \ b.delivered
           e == [b EXCEPT !.watched = {}, !.paused = {}, !.awaiting = {}, !.timedOut = {},
                          !.parked = {}, !.included = {}, !.projected = {}]
           a == AdmitWake(e, unack \ b.pending)
<1>1. Requeued(b) = [a EXCEPT !.pending = @ \union unack]
    BY DEF Requeued
<1>2. /\ IsBridge(e)
      /\ Same(b, e, {"awaiting", "timedOut", "parked", "included", "projected"})
      /\ e.awaiting = {} /\ e.timedOut = {} /\ e.parked = {} /\ e.included = {} /\ e.projected = {}
    BY DEF IsBridge, Same, Fields
<1> HIDE DEF e
<1>3. /\ IsBridge(a) /\ Same(e, a, {"ordinals", "wake"}) /\ a.wake = e.wake \union (unack \ b.pending)
    BY <1>2, AdmitWakeIs
<1> HIDE DEF a
<1>4. /\ IsBridge(Requeued(b)) /\ Same(a, Requeued(b), {"pending"})
      /\ Requeued(b).pending = a.pending \union unack
    BY <1>1, <1>3 DEF IsBridge, Same, Fields
<1>5. /\ Same(b, Requeued(b), {"awaiting", "timedOut", "parked", "included", "projected", "pending",
                               "ordinals", "wake"})
      /\ Requeued(b).pending = b.pending \union unack
      /\ Requeued(b).wake = b.wake \union (unack \ b.pending)
      /\ Requeued(b).awaiting = {} /\ Requeued(b).timedOut = {} /\ Requeued(b).parked = {}
      /\ Requeued(b).included = {} /\ Requeued(b).projected = {}
    BY <1>2, <1>3, <1>4 DEF Same, Fields
<1> QED BY <1>4, <1>5

LEMMA SuspendedIs ==
    ASSUME NEW b, IsBridge(b)
    PROVE  LET c == Suspended(b)
           IN  /\ IsBridge(c) /\ c.suspended /\ ~c.auto
               /\ c.delivered = b.delivered /\ c.reconcile = b.reconcile
               /\ c.esc = b.esc /\ c.ackFence = b.ackFence
               /\ c.awaiting = {} /\ c.timedOut = {} /\ c.parked = {} /\ c.included = {}
               /\ c.projected = {}
               /\ c.pending = b.pending \union ((b.awaiting \union Uncertain(b)) \ b.delivered)
               /\ c.wake \subseteq b.wake \union b.awaiting \union Uncertain(b)
<1> DEFINE r == ResetRetry(b)
           e == [r EXCEPT !.suspended = TRUE, !.tree = "none", !.mutation = FALSE,
                          !.auto = FALSE, !.starting = FALSE, !.latch = FALSE, !.inFlight = FALSE,
                          !.owner = "none", !.marked = {}, !.loop = {}]
<1>1. Suspended(b) = Requeued(e)
    BY DEF Suspended
<1>2. IsBridge(r) /\ Same(b, r, {})
    BY ResetRetryIs
<1> HIDE DEF r
<1>3. /\ IsBridge(e) /\ Same(b, e, {"suspended", "tree", "auto", "latch", "loop"})
      /\ e.suspended /\ ~e.auto
    BY <1>2 DEF IsBridge, Same, Fields
<1> HIDE DEF e
<1>4. Uncertain(e) = Uncertain(b) /\ e.awaiting = b.awaiting /\ e.delivered = b.delivered
    BY <1>3 DEF Same, Fields, Uncertain
<1> QED BY <1>1, <1>3, <1>4, RequeuedIs DEF Same, Fields

\* A new generation: what the old one has shown and not struck off is queued again.
Binds(b, out, c) ==
    LET queue == b.pending \union ((b.awaiting \union Uncertain(b)) \ b.delivered)
    IN  /\ IsBridge(c)
        /\ c.pending = queue /\ c.canonical = branch /\ c.reconcile = b.reconcile
        /\ c.delivered = b.delivered \union (branch \ (queue \union out.stored))
        /\ c.awaiting = {} /\ c.timedOut = {} /\ c.parked = {} /\ c.included = {}
        /\ c.projected = {} /\ c.wake = {} /\ c.ordinals = {} /\ c.old = {} /\ c.loop = {}
        /\ ~c.ackFence /\ c.esc = "none" /\ ~c.auto /\ ~c.latch
        /\ c.suspended /\ ~c.compacting /\ c.tree = "none"

LEMMA BoundIs ==
    ASSUME NEW b, IsBridge(b), NEW out
    PROVE  Binds(b, out, Bound(b, out))
<1>1. IsBridge(FreshBridge)
    BY DEF IsBridge, Fields, FreshBridge
<1>2. Requeued(b).pending = b.pending \union ((b.awaiting \union Uncertain(b)) \ b.delivered)
    BY RequeuedIs
<1> QED BY <1>1, <1>2 DEF Binds, Bound, FreshBridge, IsBridge, Fields

\* The records that the output of their run stands for.
Stands(b, out, h) == IF CanFlush(b) /\ ~h.aborted THEN Suppressed(b, out, h) ELSE {}

\* The context handler up to its messages.
Recovers(b, out, h, r) ==
    /\ IsBridge(r.bridge) /\ IsOutbox(r.outbox)
    /\ out.stored \ Stands(b, out, h) \subseteq r.outbox.stored /\ r.outbox.stored \subseteq out.stored
    /\ Same(b, r.bridge, {"pending", "delivered", "canonical", "awaiting", "timedOut", "parked",
                          "included", "ordinals", "old", "wake", "loop"})
    /\ r.bridge.delivered = b.delivered \union Stands(b, out, h)
    /\ r.bridge.timedOut = b.timedOut \ Stands(b, out, h)
    /\ r.bridge.parked = b.parked \ Stands(b, out, h)
    /\ r.bridge.included = b.included \ Stands(b, out, h)
    /\ r.bridge.old = b.old \ Stands(b, out, h)
    /\ b.ordinals \ Stands(b, out, h) \subseteq r.bridge.ordinals
    /\ r.bridge.pending \subseteq b.pending
    /\ b.awaiting \ Stands(b, out, h) \subseteq r.bridge.awaiting
    /\ r.bridge.awaiting \subseteq b.awaiting \union ((b.pending \union out.stored) \ r.bridge.parked)
    /\ r.bridge.wake \subseteq b.wake \union ((b.pending \union out.stored) \ r.bridge.parked)
    /\ r.bridge.wake \intersect r.bridge.parked \subseteq b.wake
    /\ b.canonical \subseteq r.bridge.canonical

LEMMA RecoveredIs ==
    ASSUME NEW b, IsBridge(b), NEW out, IsOutbox(out), NEW h, NEW faults,
           NEW r \in Recovered(b, out, h, faults)
    PROVE  Recovers(b, out, h, r)
<1> DEFINE suppressed == Suppressed(b, out, h)
           present == branch \ suppressed
           cleared == Forget(b, suppressed)
           seen == [cleared EXCEPT !.canonical = @ \union present, !.pending = @ \ present]
           c == AdmitWake(seen, seen.pending \union (out.stored \ suppressed))
           wanted == (c.pending \union (out.stored \ suppressed))
                             \ (present \union c.delivered \union Uncertain(c))
           submittable == wanted \intersect (Submittable(b, out) \ c.awaiting)
           Now(page) == [c EXCEPT !.pending = @ \ page, !.awaiting = @ \union page]
           Open(page, stored) ==
               (Now(page).pending \union (stored \ (suppressed \union present)))
                  \ (Now(page).delivered \union Now(page).awaiting \union Uncertain(Now(page)))
<1>1. CASE ~CanFlush(b) \/ h.aborted
    <2>1. r = [bridge |-> b, outbox |-> out, messages |-> branch, cost |-> 0]
        BY <1>1 DEF Recovered
    <2>2. r.bridge = b /\ r.outbox = out /\ Stands(b, out, h) = {}
        BY <1>1, <2>1 DEF Stands
    <2> QED BY <2>2 DEF Recovers, Same
<1>2. CASE CanFlush(b) /\ ~h.aborted
    <2> DEFINE
          room == InFlightLimit - Cardinality(c.awaiting)
          InTheWay(page, x) == x \notin page \union c.awaiting
                                 /\ (x \in c.wake \/ wanted \intersect c.wake \subseteq page)
          Stopped(page) == \/ page = wanted \/ Cardinality(page) = InFlightLimit
                           \/ \E x \in wanted : InTheWay(page, x) /\
                                (x \notin submittable \/ Cardinality(page \ c.awaiting) >= room)
          Failed(page) == ~Stopped(page) /\ \E x \in wanted : InTheWay(page, x)
          Pages(kept) == {p \in SUBSET (submittable \union (wanted \intersect c.awaiting)) :
                            /\ Cardinality(p) <= InFlightLimit
                            /\ p \ c.awaiting # {} => Cardinality(p \ c.awaiting) <= room
                            /\ p \ c.wake # {} => wanted \intersect c.wake \subseteq p
                            /\ Stopped(p) \/ (Failed(p) /\ Cardinality(kept) < faults)}
          Outcomes(kept) ==
              {[bridge |-> [AdmitWake(Now(page), page) EXCEPT
                               !.defer = Open(page, out.stored \ (suppressed \ kept)) # {}],
                outbox |-> [stored |-> out.stored \ (suppressed \ kept),
                            stamp |-> [d \in Deliveries |-> IF d \in page \ c.awaiting
                                           THEN b.generation ELSE out.stamp[d]]],
                messages |-> present \union page,
                cost |-> Cardinality(kept) + (IF Stopped(page) THEN 0 ELSE 1)] :
               page \in Pages(kept)}
    <2>0. PICK kept \in SUBSET (suppressed \intersect out.stored) : r \in Outcomes(kept)
        <3>1. Recovered(b, out, h, faults) = UNION {Outcomes(kept) :
                  kept \in {k \in SUBSET (suppressed \intersect out.stored) : Cardinality(k) <= faults}}
            BY <1>2 DEF Recovered
        <3> HIDE DEF Outcomes
        <3> QED BY <3>1
    <2>1. PICK page \in SUBSET (submittable \union (wanted \intersect c.awaiting)) :
              r = [bridge |-> [AdmitWake(Now(page), page) EXCEPT
                                  !.defer = Open(page, out.stored \ (suppressed \ kept)) # {}],
                   outbox |-> [stored |-> out.stored \ (suppressed \ kept),
                               stamp |-> [d \in Deliveries |-> IF d \in page \ c.awaiting
                                              THEN b.generation ELSE out.stamp[d]]],
                   messages |-> present \union page,
                   cost |-> Cardinality(kept) + (IF Stopped(page) THEN 0 ELSE 1)]
        <3> HIDE DEF c, Now, Open, wanted, submittable, Stopped, Failed, present, suppressed, room
        <3> QED BY <2>0
    <2> HIDE DEF Stopped, Failed, Pages, Outcomes, InTheWay, room
    <2> DEFINE n == Now(page)
               a == AdmitWake(n, page)
    <2>2. Stands(b, out, h) = suppressed
        BY <1>2 DEF Stands
    <2> HIDE DEF suppressed
    <2>3. /\ r.outbox.stored = out.stored \ (suppressed \ kept) /\ IsOutbox(r.outbox)
          /\ r.bridge = [a EXCEPT !.defer = Open(page, out.stored \ (suppressed \ kept)) # {}]
        BY <2>1 DEF IsOutbox
    <2>4. /\ IsBridge(cleared)
          /\ Same(b, cleared, {"pending", "included", "awaiting", "timedOut", "parked", "wake", "loop",
                               "ordinals", "old", "delivered"})
          /\ cleared.pending = b.pending \ suppressed /\ cleared.included = b.included \ suppressed
          /\ cleared.awaiting = b.awaiting \ suppressed /\ cleared.timedOut = b.timedOut \ suppressed
          /\ cleared.parked = b.parked \ suppressed /\ cleared.wake = b.wake \ suppressed
          /\ cleared.ordinals = b.ordinals \ suppressed /\ cleared.old = b.old \ suppressed
          /\ cleared.delivered = b.delivered \union suppressed
        <3>1. Forgets(b, suppressed, cleared)
            BY ForgetIs
        <3> HIDE DEF cleared
        <3> QED BY <3>1 DEF Forgets
    <2> HIDE DEF cleared
    <2>5. /\ IsBridge(seen) /\ Same(cleared, seen, {"canonical", "pending"})
          /\ seen.canonical = cleared.canonical \union present
          /\ seen.pending = cleared.pending \ present
        BY <2>4 DEF IsBridge, Same, Fields
    <2> HIDE DEF seen
    <2>6. /\ IsBridge(c) /\ Same(seen, c, {"ordinals", "wake"})
          /\ c.ordinals = seen.ordinals
                            \union ((seen.pending \union (out.stored \ suppressed)) \ seen.parked)
          /\ c.wake = seen.wake \union ((seen.pending \union (out.stored \ suppressed)) \ seen.parked)
        BY <2>5, AdmitWakeIs
    <2> HIDE DEF c
    <2>7. /\ IsBridge(n) /\ Same(c, n, {"pending", "awaiting"})
          /\ n.pending = c.pending \ page /\ n.awaiting = c.awaiting \union page
        BY <2>6 DEF IsBridge, Same, Fields
    <2>8. page \subseteq (c.pending \union out.stored) \ Uncertain(c)
        BY <2>1
    <2> HIDE DEF Now, Open, wanted, submittable
    <2>9. /\ IsBridge(a) /\ Same(n, a, {"ordinals", "wake"})
          /\ a.ordinals = n.ordinals \union (page \ n.parked)
          /\ a.wake = n.wake \union (page \ n.parked)
        BY <2>7, AdmitWakeIs DEF n
    <2> HIDE DEF n, a
    <2>10. IsBridge(r.bridge) /\ Same(a, r.bridge, {})
        BY <2>3, <2>9 DEF IsBridge, Same, Fields
    <2>11. /\ seen.timedOut = cleared.timedOut /\ seen.parked = cleared.parked
           /\ seen.awaiting = cleared.awaiting /\ seen.wake = cleared.wake
           /\ seen.ordinals = cleared.ordinals /\ seen.old = cleared.old
           /\ seen.included = cleared.included /\ seen.delivered = cleared.delivered
           /\ cleared.canonical = b.canonical
        BY <2>4, <2>5 DEF Same, Fields
    <2>12. /\ n.timedOut = seen.timedOut /\ n.parked = seen.parked /\ c.parked = seen.parked
           /\ c.timedOut = seen.timedOut
           /\ c.awaiting = seen.awaiting /\ n.wake = c.wake /\ n.ordinals = c.ordinals
           /\ n.old = seen.old /\ n.included = seen.included /\ n.delivered = seen.delivered
           /\ n.canonical = seen.canonical /\ c.pending = seen.pending
        BY <2>6, <2>7 DEF Same, Fields
    <2>13. /\ r.bridge.timedOut = n.timedOut /\ r.bridge.parked = n.parked
           /\ r.bridge.awaiting = n.awaiting /\ r.bridge.wake = a.wake
           /\ r.bridge.ordinals = a.ordinals /\ r.bridge.old = n.old
           /\ r.bridge.included = n.included /\ r.bridge.delivered = n.delivered
           /\ r.bridge.canonical = n.canonical /\ r.bridge.pending = n.pending
        BY <2>9, <2>10 DEF Same, Fields
    <2>14. Same(b, r.bridge, {"pending", "delivered", "canonical", "awaiting", "timedOut", "parked",
                              "included", "ordinals", "old", "wake", "loop"})
        BY <2>4, <2>5, <2>6, <2>7, <2>9, <2>10 DEF Same
    <2>15. /\ r.bridge.delivered = b.delivered \union suppressed
           /\ r.bridge.timedOut = b.timedOut \ suppressed
           /\ r.bridge.parked = b.parked \ suppressed
           /\ r.bridge.included = b.included \ suppressed
           /\ r.bridge.old = b.old \ suppressed
           /\ b.canonical \subseteq r.bridge.canonical
        BY <2>4, <2>5, <2>11, <2>12, <2>13
    <2>16. /\ b.ordinals \ suppressed \subseteq r.bridge.ordinals
           /\ r.bridge.pending \subseteq b.pending
           /\ b.awaiting \ suppressed \subseteq r.bridge.awaiting
        BY <2>4, <2>5, <2>6, <2>7, <2>9, <2>11, <2>12, <2>13
    <2>17. r.bridge.awaiting \subseteq b.awaiting \union ((b.pending \union out.stored) \ r.bridge.parked)
        BY <2>4, <2>5, <2>7, <2>8, <2>11, <2>12, <2>13 DEF Uncertain
    <2>18. /\ r.bridge.wake \subseteq b.wake \union ((b.pending \union out.stored) \ r.bridge.parked)
           /\ r.bridge.wake \intersect r.bridge.parked \subseteq b.wake
        BY <2>4, <2>5, <2>6, <2>8, <2>9, <2>11, <2>12, <2>13 DEF Uncertain
    <2>19. /\ out.stored \ suppressed \subseteq r.outbox.stored
           /\ r.outbox.stored \subseteq out.stored
        BY <2>3
    <2> QED BY <2>2, <2>3, <2>10, <2>14, <2>15, <2>16, <2>17, <2>18, <2>19 DEF Recovers
<1> QED BY <1>1, <1>2

\* The rest of the context handler: the request has a body, and only what is in it is
\* projected.
Projects(b, out, h, p) ==
    /\ IsBridge(p.bridge) /\ IsOutbox(p.outbox) /\ p.outbox.stored = out.stored
    /\ Same(b, p.bridge, {"projected", "timedOut", "awaiting", "pending", "ordinals", "wake"})
    /\ p.bridge.projected \subseteq p.bridge.awaiting /\ p.bridge.projected \subseteq p.body
    /\ b.awaiting \ b.parked \subseteq p.bridge.awaiting
    /\ p.bridge.awaiting \subseteq b.awaiting \union ((out.stored \union b.timedOut) \ b.parked)
    /\ p.bridge.projected \intersect b.parked = {}
    /\ p.bridge.timedOut \subseteq b.timedOut /\ p.bridge.pending \subseteq b.pending
    /\ b.ordinals \subseteq p.bridge.ordinals
    /\ p.bridge.wake \subseteq b.wake \union ((p.bridge.awaiting \union b.timedOut) \ b.parked)

LEMMA ProjectedIs ==
    ASSUME NEW b, IsBridge(b), NEW out, IsOutbox(out), NEW h, NEW messages, NEW faults,
           NEW behind, NEW p \in Projected(b, out, h, messages, faults, behind)
    PROVE  Projects(b, out, h, p)
<1> DEFINE ready == [b EXCEPT !.projected = {}]
           Candidates(page) == {d \in page : d \notin b.delivered \/ d \in out.stored \/ d \in b.awaiting
                                       \/ d \in Uncertain(b) \/ d \in b.included} \ b.parked
           Resumed(page) == Candidates(page) \intersect b.timedOut
           Sendable(page) == (Candidates(page) \ (b.awaiting \union Resumed(page)))
                                 \intersect Submittable(b, out)
           Tracked(page, unsaved) == (Candidates(page) \intersect b.awaiting) \union Resumed(page)
                                         \union (Sendable(page) \ unsaved)
           C(page, unsaved) ==
               [ready EXCEPT !.timedOut = @ \ Resumed(page),
                             !.awaiting = (@ \ (page \intersect b.parked)) \union Tracked(page, unsaved),
                             !.pending = @ \ (Sendable(page) \ unsaved)]
           Full(page) == page # messages
           Outcomes(page) ==
               IF h.aborted
                 THEN {[bridge |-> AdmitPage(ready, page \intersect (b.awaiting \union b.timedOut),
                                             Full(page), behind),
                        outbox |-> out, body |-> page, cost |-> 0]}
                 ELSE {[bridge |-> [AdmitPage(C(page, unsaved), Tracked(page, unsaved), Full(page),
                                              behind) EXCEPT
                                       !.projected = Tracked(page, unsaved),
                                       !.watched = @ \union (Tracked(page, unsaved) \ b.paused)],
                        outbox |-> [out EXCEPT !.stamp = [d \in Deliveries |->
                                       IF d \in Sendable(page) \ unsaved THEN b.generation ELSE @[d]]],
                        body |-> page,
                        cost |-> Cardinality(unsaved)] :
                       unsaved \in {u \in SUBSET Sendable(page) : Cardinality(u) <= faults}}
<1>1. PICK page \in PagesOf(messages, b.wake) : p \in Outcomes(page)
    <2>1. Projected(b, out, h, messages, faults, behind)
              = UNION {Outcomes(page) : page \in PagesOf(messages, b.wake)}
        BY DEF Projected
    <2> HIDE DEF Outcomes
    <2> QED BY <2>1
<1>2. /\ IsBridge(ready) /\ Same(b, ready, {"projected"}) /\ ready.projected = {}
    BY DEF IsBridge, Same, Fields
<1>3. CASE h.aborted
    <2> DEFINE known == page \intersect (b.awaiting \union b.timedOut)
               a == AdmitWake(ready, known)
    <2>1. p.bridge = AdmitPage(ready, known, Full(page), behind) /\ p.outbox = out
        BY <1>1, <1>3
    <2> HIDE DEF ready
    <2>2. /\ IsBridge(a) /\ Same(ready, a, {"ordinals", "wake"})
          /\ a.ordinals = ready.ordinals \union (known \ ready.parked)
          /\ a.wake = ready.wake \union (known \ ready.parked)
        BY <1>2, AdmitWakeIs
    <2> HIDE DEF a
    <2>3. IsBridge(p.bridge) /\ Same(a, p.bridge, {})
        BY <2>1, <2>2 DEF IsBridge, Same, Fields, a, AdmitPage
    <2> QED BY <1>2, <2>1, <2>2, <2>3 DEF Projects, Same, Fields
<1>4. CASE ~h.aborted
    <2>1. PICK unsaved \in SUBSET Sendable(page) :
              p = [bridge |-> [AdmitPage(C(page, unsaved), Tracked(page, unsaved), Full(page),
                                         behind) EXCEPT
                                       !.projected = Tracked(page, unsaved),
                                       !.watched = @ \union (Tracked(page, unsaved) \ b.paused)],
                   outbox |-> [out EXCEPT !.stamp = [d \in Deliveries |->
                                       IF d \in Sendable(page) \ unsaved THEN b.generation ELSE @[d]]],
                   body |-> page,
                   cost |-> Cardinality(unsaved)]
        BY <1>1, <1>4
    <2> DEFINE t == Tracked(page, unsaved)
               c == C(page, unsaved)
               a == AdmitPage(c, t, Full(page), behind)
    <2>2. /\ p.bridge = [a EXCEPT !.projected = t, !.watched = @ \union (t \ b.paused)]
          /\ p.outbox = [out EXCEPT !.stamp = [d \in Deliveries |->
                                       IF d \in Sendable(page) \ unsaved THEN b.generation ELSE @[d]]]
          /\ p.body = page
        BY <2>1
    <2>3. IsOutbox(p.outbox) /\ p.outbox.stored = out.stored
        BY <2>2 DEF IsOutbox
    <2>4. t \subseteq page /\ t \intersect b.parked = {}
          /\ t \subseteq b.awaiting \union b.timedOut \union out.stored
        BY DEF Submittable
    <2> HIDE DEF ready
    <2>5. /\ IsBridge(c) /\ Same(b, c, {"projected", "timedOut", "awaiting", "pending"})
          /\ c.timedOut \subseteq b.timedOut /\ c.pending \subseteq b.pending
          /\ c.awaiting = (b.awaiting \ (page \intersect b.parked)) \union t
        <3> HIDE DEF Tracked, Resumed, Sendable
        <3>1. /\ IsBridge(c) /\ Same(ready, c, {"timedOut", "awaiting", "pending"})
              /\ c.timedOut \subseteq ready.timedOut /\ c.pending \subseteq ready.pending
              /\ c.awaiting = (ready.awaiting \ (page \intersect b.parked)) \union t
            BY <1>2 DEF IsBridge, Same, Fields
        <3> HIDE DEF C, t
        <3> QED BY <1>2, <3>1 DEF Same, Fields
    <2> HIDE DEF C, t, Tracked, Sendable
    <2>6. /\ IsBridge(a) /\ Same(c, a, {"ordinals", "wake"})
          /\ a.ordinals = c.ordinals \union (t \ c.parked) /\ a.wake = c.wake \union (t \ c.parked)
        <3> DEFINE w == AdmitWake(c, t)
        <3>1. /\ IsBridge(w) /\ Same(c, w, {"ordinals", "wake"})
              /\ w.ordinals = c.ordinals \union (t \ c.parked) /\ w.wake = c.wake \union (t \ c.parked)
            BY <2>5, AdmitWakeIs
        <3> HIDE DEF w
        <3>2. IsBridge(a) /\ Same(w, a, {})
            BY <3>1 DEF IsBridge, Same, Fields, w, AdmitPage
        <3> QED BY <3>1, <3>2 DEF Same, Fields
    <2> HIDE DEF a
    <2>7. IsBridge(p.bridge) /\ Same(a, p.bridge, {"projected"}) /\ p.bridge.projected = t
        <3>1. p.bridge.projected = t /\ DOMAIN p.bridge = DOMAIN a
            BY <2>2, <2>6 DEF IsBridge, Fields
        <3>2. Same(a, p.bridge, {"projected"})
            <4>1. ASSUME NEW f \in Fields \ {"projected"} PROVE p.bridge[f] = a[f]
                <5>1. f # "watched" /\ f \in DOMAIN a
                    BY <2>6 DEF IsBridge, Fields
                <5> QED BY <2>2, <5>1
            <4> QED BY <4>1 DEF Same
        <3> QED BY <2>6, <3>1, <3>2 DEF IsBridge
    <2>8. Same(b, p.bridge, {"projected", "timedOut", "awaiting", "pending", "ordinals", "wake"})
        BY <2>5, <2>6, <2>7 DEF Same
    <2>9. /\ p.bridge.awaiting = c.awaiting /\ p.bridge.timedOut = c.timedOut
          /\ p.bridge.pending = c.pending /\ p.bridge.ordinals = a.ordinals /\ p.bridge.wake = a.wake
          /\ c.ordinals = b.ordinals /\ c.wake = b.wake /\ c.parked = b.parked
        BY <2>5, <2>6, <2>7 DEF Same, Fields
    <2>10. /\ p.bridge.projected \subseteq p.bridge.awaiting /\ p.bridge.projected \subseteq p.body
           /\ b.awaiting \ b.parked \subseteq p.bridge.awaiting
           /\ p.bridge.projected \intersect b.parked = {}
           /\ b.ordinals \subseteq p.bridge.ordinals
        BY <2>2, <2>4, <2>5, <2>6, <2>7, <2>9
    <2>11. /\ p.bridge.awaiting \subseteq b.awaiting \union ((out.stored \union b.timedOut) \ b.parked)
           /\ p.bridge.wake \subseteq b.wake \union (p.bridge.awaiting \ b.parked)
        BY <2>4, <2>5, <2>6, <2>9
    <2> QED BY <2>3, <2>5, <2>7, <2>8, <2>9, <2>10, <2>11 DEF Projects
<1> QED BY <1>3, <1>4

----------------------------------------------------------------------------
(* The inductive invariant. *)

\* The bridge and the run of the host.  Included is what is in the body of the request, and
\* nothing is once it is answered or cut off: a late answer has nothing to account for.
Ties(b, h) ==
    /\ h.run = "none" <=> h.step = "idle"
    /\ h.run = "none" => ~h.aborted
    /\ b.suspended => h.run = "none" /\ ~h.input /\ ~h.marker
    /\ b.esc = "active" => h.run = "none" \/ h.aborted
    /\ b.ackFence => b.suspended \/ (h.aborted /\ b.esc = "active")
    /\ h.aborted => b.included = {}
    /\ h.step = "context" /\ ~h.aborted => b.projected \subseteq h.body
    /\ h.step = "sent" => b.included \subseteq h.body /\ b.projected = {}
    /\ h.step = "answered" => b.included = {}

\* What the bridge knows has a record or is delivered; a record goes for what is read, and
\* only what is read has a record to reconcile.
Recorded(b, out, arr, acc) ==
    /\ b.pending \union b.awaiting \union Uncertain(b) \union b.wake \subseteq out.stored \union b.delivered
    /\ out.stored \union b.delivered \subseteq arr
    /\ arr \ out.stored \subseteq acc
    /\ b.reconcile \subseteq acc

Awaited(b) ==
    /\ b.projected \union b.included \subseteq b.awaiting
    /\ b.parked \intersect (b.awaiting \union b.wake \union b.projected) = {}

\* Every record has its place in the order of arrival.  One that is answered for is
\* delivered or parked, and one that had arrived at the last Esc is behind its cutoff.
Placed(b, out, tak, hel) ==
    ~b.suspended =>
        /\ out.stored \subseteq b.ordinals \union b.delivered
        /\ tak \intersect out.stored \subseteq b.delivered \union b.parked
        /\ hel \intersect out.stored \subseteq b.old \union b.delivered

Sound ==
    /\ IsBridge(bridge) /\ IsOutbox(outbox)
    /\ Recorded(bridge, outbox, arrived, accepted)
    /\ Awaited(bridge)
    /\ Placed(bridge, outbox, taken, held)
    /\ branch \union aside \union taken \union held \subseteq arrived

BridgeInv == Sound /\ IsHost(host) /\ Ties(bridge, host)

\* The entries of a session whose records are there are known, but for those that were
\* overlooked when it began, and no other has been shown twice.
Shown ==
    /\ twice \subseteq overlooked
    /\ ~bridge.suspended =>
          (branch \union aside) \intersect outbox.stored
              \subseteq bridge.canonical \union bridge.delivered \union overlooked

News == MarkerSent => bridge'.loop \intersect (taken \union held) = {}

\* What is shown is not shown again, as long as what has been overlooked is remembered.
Shows == overlooked \subseteq overlooked' => (Shown => Shown')

Goes == News /\ Shows

\* What bridge b and outbox `out' know of the entries is no less than what is known.
Widens(b, out) ==
    /\ b.suspended = bridge.suspended
    /\ bridge.canonical \intersect out.stored \subseteq b.canonical
    /\ bridge.delivered \subseteq b.delivered
    /\ out.stored \subseteq outbox.stored \union (arrived' \ arrived)

\* The end of a handler: bridge b is flushed, with the entries B on the branch.
LEMMA FlushKeeps ==
    ASSUME BridgeInv, NEW b, IsBridge(b), NEW out, NEW o, Flushes(b, out, o), NEW B,
           bridge' = o.bridge, outbox' = o.outbox, branch' = B \union o.shown,
           twice' = twice \union (o.shown \intersect B), Widens(b, out),
           B \union aside' \subseteq branch \union aside,
           b.auto => bridge.auto,
           Recorded(b, out, arrived', accepted'), Awaited(b), Placed(b, out, taken', held'),
           B \union aside' \union taken' \union held' \subseteq arrived',
           ~b.latch \/ (taken \subseteq taken' /\ held \subseteq held')
    PROVE  Sound' /\ Goes
<1>1. /\ IsBridge(o.bridge) /\ IsOutbox(o.outbox) /\ o.outbox.stored = out.stored
      /\ o.bridge.delivered = b.delivered /\ o.bridge.timedOut = b.timedOut
      /\ o.bridge.parked = b.parked /\ o.bridge.reconcile = b.reconcile
      /\ o.bridge.projected = b.projected /\ o.bridge.included = b.included
      /\ o.bridge.suspended = b.suspended /\ o.bridge.old = b.old
      /\ Uncertain(o.bridge) = Uncertain(b)
    BY DEF Flushes, Same, Fields, Uncertain
<1>2. /\ o.shown \subseteq (b.pending \union out.stored)
                            \ (b.delivered \union b.awaiting \union Uncertain(b) \union b.canonical)
      /\ o.bridge.awaiting = b.awaiting \union o.shown
      /\ o.bridge.pending \subseteq b.pending \union out.stored
      /\ o.bridge.wake \subseteq b.wake \union ((b.pending \union out.stored) \ Uncertain(b))
      /\ b.ordinals \subseteq o.bridge.ordinals
    BY DEF Flushes
<1>3. Recorded(o.bridge, o.outbox, arrived', accepted')
    BY <1>1, <1>2 DEF Recorded
<1>4. Awaited(o.bridge)
    BY <1>1, <1>2 DEF Awaited, Uncertain
<1>5. Placed(o.bridge, o.outbox, taken', held')
    BY <1>1, <1>2 DEF Placed
<1>6. o.shown \subseteq arrived'
    BY <1>2 DEF Recorded
<1>7. Sound'
    BY <1>1, <1>3, <1>4, <1>5, <1>6 DEF Sound
<1>8. News
    <2> SUFFICES ASSUME MarkerSent PROVE o.bridge.loop \intersect (taken \union held) = {}
        BY DEF News
    <2>1. /\ ~b.suspended /\ b.latch
          /\ o.bridge.loop \subseteq (b.wake \union ((b.pending \union out.stored) \ Uncertain(b)))
                                         \ (b.old \union b.delivered)
        BY DEF MarkerSent, Flushes
    <2>2. o.bridge.loop \subseteq out.stored /\ o.bridge.loop \intersect b.parked = {}
        BY <2>1 DEF Recorded, Awaited, Uncertain
    <2>3. taken \subseteq taken' /\ held \subseteq held'
        BY <2>1
    <2>4. o.bridge.loop \intersect taken' = {}
        BY <2>1, <2>2 DEF Placed
    <2>5. o.bridge.loop \intersect held' = {}
        BY <2>1, <2>2 DEF Placed
    <2> QED BY <2>3, <2>4, <2>5
<1>9. Shows
    <2>1. o.bridge.canonical = b.canonical \union o.shown /\ (b.suspended => o.shown = {})
        BY DEF Flushes
    <2>2. CASE bridge.suspended
        BY <1>1, <2>1, <2>2 DEF Shows, Shown, Widens
    <2>3. CASE ~bridge.suspended
        <3>1. SUFFICES ASSUME overlooked \subseteq overlooked', Shown PROVE Shown'
            BY DEF Shows
        <3>2. (B \union aside') \intersect out.stored
                  \subseteq b.canonical \union b.delivered \union overlooked
            BY <2>3, <3>1 DEF Shown, Widens, BridgeInv, Sound
        <3>3. o.shown \subseteq out.stored
            BY <1>2 DEF Recorded
        <3>4. o.shown \intersect B \subseteq overlooked
            BY <1>2, <3>2, <3>3
        <3> QED BY <1>1, <2>1, <3>1, <3>2, <3>4 DEF Shown
    <2> QED BY <2>2, <2>3
<1> QED BY <1>7, <1>8, <1>9 DEF Goes

LEMMA TiesKept ==
    ASSUME NEW b, NEW out, NEW o, Flushes(b, out, o), NEW h, IsHost(h), Ties(b, h),
           bridge' = o.bridge, NEW sent, sent => ~b.suspended,
           host' = [h EXCEPT !.marker = @ \/ sent]
    PROVE  IsHost(host') /\ Ties(bridge', host')
<1>1. /\ o.bridge.suspended = b.suspended /\ o.bridge.esc = b.esc /\ o.bridge.ackFence = b.ackFence
      /\ o.bridge.included = b.included /\ o.bridge.projected = b.projected
    BY DEF Flushes, Same, Fields
<1>2. /\ IsHost(host') /\ host'.run = h.run /\ host'.step = h.step /\ host'.aborted = h.aborted
      /\ host'.input = h.input /\ host'.body = h.body /\ host'.marker = (h.marker \/ sent)
    BY DEF IsHost
<1> QED BY <1>1, <1>2 DEF Ties

\* A retry that is put off after a flush.
LEMMA FlushesLess ==
    ASSUME NEW b, NEW out, NEW o, Flushes(b, out, o), NEW p, IsBridge(p.bridge),
           Same(o.bridge, p.bridge, {"wake"}), p.bridge.wake \subseteq o.bridge.wake,
           p.outbox = o.outbox, p.shown = o.shown
    PROVE  Flushes(b, out, p)
<1>1. /\ p.bridge.awaiting = o.bridge.awaiting /\ p.bridge.canonical = o.bridge.canonical
      /\ p.bridge.pending = o.bridge.pending /\ p.bridge.ordinals = o.bridge.ordinals
      /\ p.bridge.latch = o.bridge.latch /\ p.bridge.auto = o.bridge.auto
      /\ p.bridge.loop = o.bridge.loop
      /\ Same(b, p.bridge, {"pending", "awaiting", "canonical", "ordinals", "wake", "loop", "latch",
                            "auto"})
    BY DEF Flushes, Same, Fields
<1> QED BY <1>1 DEF Flushes

\* A handler that ends with Take().
LEMMA TakeKeeps ==
    ASSUME BridgeInv, NEW b, IsBridge(b), NEW out, NEW o, Flushes(b, out, o),
           NEW h, IsHost(h), Ties(b, h),
           Take(o, h), b.auto => bridge.auto, Widens(b, out), aside' = aside,
           Recorded(b, out, arrived', accepted'), Awaited(b), Placed(b, out, taken', held'),
           branch \union aside' \union taken' \union held' \subseteq arrived',
           ~b.latch \/ (taken \subseteq taken' /\ held \subseteq held')
    PROVE  BridgeInv' /\ Goes
<1>1. Sound' /\ Goes
    BY FlushKeeps DEF Take
<1>2. o.bridge.auto /\ ~bridge.auto => ~b.suspended
    BY DEF Flushes
<1>3. IsHost(host') /\ Ties(bridge', host')
    BY <1>2, TiesKept DEF Take
<1> QED BY <1>1, <1>3 DEF BridgeInv

\* Fields that no promise is about.
LEMMA InertKeeps ==
    ASSUME Sound, NEW b, Same(bridge, b, {"auto", "latch", "loop", "tree", "compacting"})
    PROVE  /\ Recorded(b, outbox, arrived, accepted) /\ Awaited(b)
           /\ Placed(b, outbox, taken, held)
           /\ \A h : Ties(bridge, h) => Ties(b, h)
           /\ Widens(b, outbox)
<1>1. /\ b.pending = bridge.pending /\ b.awaiting = bridge.awaiting /\ b.timedOut = bridge.timedOut
      /\ b.parked = bridge.parked /\ b.wake = bridge.wake /\ b.delivered = bridge.delivered
      /\ b.reconcile = bridge.reconcile /\ b.projected = bridge.projected
      /\ b.included = bridge.included /\ b.suspended = bridge.suspended
      /\ b.ordinals = bridge.ordinals /\ b.old = bridge.old /\ b.esc = bridge.esc
      /\ b.ackFence = bridge.ackFence
    BY DEF Same, Fields
<1>2. Uncertain(b) = Uncertain(bridge)
    BY <1>1 DEF Uncertain
<1>3. Recorded(b, outbox, arrived, accepted)
    BY <1>1, <1>2 DEF Sound, Recorded
<1>4. Awaited(b) /\ Placed(b, outbox, taken, held)
    BY <1>1 DEF Sound, Awaited, Placed
<1>5. ASSUME NEW h, Ties(bridge, h) PROVE Ties(b, h)
    BY <1>1, <1>5 DEF Ties
<1>6. Widens(b, outbox)
    BY DEF Widens, Same, Fields
<1> QED BY <1>3, <1>4, <1>5, <1>6

\* A handler that does no more than that.
LEMMA InertStep ==
    ASSUME BridgeInv, NEW b, IsBridge(b), b.auto => bridge.auto,
           Same(bridge, b, {"auto", "latch", "loop", "tree", "compacting"}),
           bridge' = b, UNCHANGED <<outbox, branch, aside, arrived, accepted, taken>>,
           held' = held, twice' = twice, IsHost(host'), Ties(bridge, host')
    PROVE  BridgeInv' /\ Goes
<1>1. /\ Recorded(b, outbox, arrived, accepted) /\ Awaited(b)
      /\ Placed(b, outbox, taken, held) /\ Ties(b, host')
    BY InertKeeps DEF BridgeInv
<1>2. Sound'
    BY <1>1 DEF BridgeInv, Sound
<1>3. News
    BY DEF News, MarkerSent
<1>4. Shows
    <2>1. b.suspended = bridge.suspended /\ b.canonical = bridge.canonical /\ b.delivered = bridge.delivered
        BY DEF Same, Fields
    <2> QED BY <2>1 DEF Shows, Shown
<1> QED BY <1>1, <1>2, <1>3, <1>4 DEF BridgeInv, Goes

----------------------------------------------------------------------------
(* The steps. *)

LEMMA ArriveKeeps ==
    ASSUME BridgeInv, NEW d \in Deliveries, Arrive(d)
    PROVE  BridgeInv' /\ Goes
<1> DEFINE b == Queued(bridge, {d})
           out == [outbox EXCEPT !.stored = @ \union {d}]
<1>1. PICK o \in Flushed(b, out, left.faults, IsIdle(host), FALSE) : Take(o, host)
    BY DEF Arrive
<1>2. /\ d \notin arrived /\ arrived' = arrived \union {d}
      /\ UNCHANGED <<aside, accepted, taken, held>>
    BY DEF Arrive
<1>3. IsOutbox(out) /\ out.stored = outbox.stored \union {d}
    BY DEF BridgeInv, Sound, IsOutbox
<1>4. d \notin bridge.delivered \union bridge.awaiting \union Uncertain(bridge) \union bridge.pending
    BY <1>2 DEF BridgeInv, Sound, Recorded
<1>5. /\ IsBridge(b) /\ Same(bridge, b, {"ordinals", "wake", "pending"})
      /\ b.pending = bridge.pending \union {d} /\ b.ordinals = bridge.ordinals \union {d}
      /\ b.wake = bridge.wake \union {d}
    BY <1>4, QueuedIs DEF BridgeInv, Sound
<1> HIDE DEF b, out
<1>6. /\ b.awaiting = bridge.awaiting /\ b.timedOut = bridge.timedOut
      /\ b.parked = bridge.parked /\ b.delivered = bridge.delivered
      /\ b.reconcile = bridge.reconcile /\ b.projected = bridge.projected
      /\ b.included = bridge.included /\ b.suspended = bridge.suspended
      /\ b.old = bridge.old /\ b.esc = bridge.esc
      /\ b.ackFence = bridge.ackFence /\ b.auto = bridge.auto
      /\ Uncertain(b) = Uncertain(bridge)
    BY <1>5 DEF Same, Fields, Uncertain
<1>7. Recorded(b, out, arrived', accepted')
    BY <1>2, <1>3, <1>5, <1>6 DEF BridgeInv, Sound, Recorded
<1>8. Awaited(b)
    BY <1>4, <1>5, <1>6 DEF BridgeInv, Sound, Awaited, Uncertain
<1>9. Placed(b, out, taken', held')
    BY <1>2, <1>3, <1>5, <1>6 DEF BridgeInv, Sound, Placed
<1>10. Ties(b, host) /\ IsHost(host)
    BY <1>6 DEF BridgeInv, Ties
<1>11. Flushes(b, out, o)
    BY <1>1, <1>3, <1>5, FlushedIs
<1>12. branch \union aside' \union taken' \union held' \subseteq arrived'
    BY <1>2 DEF BridgeInv, Sound
<1>13. Widens(b, out)
    BY <1>2, <1>3, <1>5 DEF Widens, Same, Fields
<1> QED BY <1>1, <1>2, <1>5, <1>6, <1>7, <1>8, <1>9, <1>10, <1>11, <1>12, <1>13, TakeKeeps

\* The prompts and markers of the host, and what starts its runs.
LEMMA PromptKeeps ==
    ASSUME BridgeInv, UserInput \/ InputConsumed \/ MarkerRejected \/ UserRunStarts \/ MarkerStarts
    PROVE  BridgeInv' /\ Goes
<1>1. IsBridge(bridge) /\ IsHost(host) /\ Ties(bridge, host)
    BY DEF BridgeInv, Sound
<1>2. CASE UserInput
    <2> DEFINE x == [bridge EXCEPT !.latch = FALSE]
               y == [bridge EXCEPT !.auto = FALSE, !.attempted = {}, !.request = {}, !.latch = FALSE,
                                   !.defer = FALSE, !.starting = TRUE]
    <2>1. bridge' \in {x, ResumeWatchdogs(y)}
        BY <1>2 DEF UserInput
    <2>2. \A b \in {x, y} : /\ IsBridge(b) /\ Same(bridge, b, {"auto", "latch"})
                            /\ b.auto => bridge.auto
        BY <1>1 DEF IsBridge, Same, Fields
    <2> HIDE DEF x, y
    <2>3. IsBridge(ResumeWatchdogs(y)) /\ Same(y, ResumeWatchdogs(y), {})
        BY <2>2, WatchdogsAre
    <2>4. /\ IsBridge(bridge') /\ (bridge'.auto => bridge.auto)
          /\ Same(bridge, bridge', {"auto", "latch", "loop", "tree", "compacting"})
        BY <2>1, <2>2, <2>3 DEF Same, Fields
    <2>5. IsHost(host') /\ Ties(bridge, host')
        <3>1. /\ host' = [host EXCEPT !.input = TRUE] /\ ~bridge.suspended
            BY <1>2 DEF UserInput
        <3> QED BY <1>1, <3>1 DEF IsHost, Ties
    <2>6. UNCHANGED <<outbox, branch, aside, arrived, accepted, taken>> /\ held' = held /\ twice' = twice
        BY <1>2 DEF UserInput
    <2> QED BY <2>4, <2>5, <2>6, InertStep
<1>3. CASE InputConsumed
    <2>1. IsHost(host') /\ Ties(bridge, host') /\ bridge' = bridge
        BY <1>1, <1>3 DEF InputConsumed, IsHost, Ties
    <2> QED BY <1>1, <1>3, <2>1, InertStep DEF InputConsumed, Same
<1>4. CASE MarkerRejected
    <2> DEFINE x == [bridge EXCEPT !.inFlight = FALSE, !.owner = "none", !.loop = {},
                                     !.starting = FALSE, !.auto = FALSE, !.latch = FALSE,
                                     !.marked = IF bridge.owner = "none" THEN @
                                                ELSE {IF t = "stale" THEN "other" ELSE t :
                                                        t \in @ \union {bridge.owner}}]
    <2>1. bridge' \in {bridge, x}
        BY <1>4 DEF MarkerRejected
    <2>2. IsBridge(x) /\ Same(bridge, x, {"auto", "latch", "loop"}) /\ ~x.auto
        BY <1>1 DEF IsBridge, Same, Fields
    <2> HIDE DEF x
    <2>3. /\ IsBridge(bridge') /\ (bridge'.auto => bridge.auto)
          /\ Same(bridge, bridge', {"auto", "latch", "loop", "tree", "compacting"})
        BY <1>1, <2>1, <2>2 DEF Same
    <2>4. IsHost(host') /\ Ties(bridge, host')
        <3>1. host' = [host EXCEPT !.marker = FALSE]
            BY <1>4 DEF MarkerRejected
        <3>2. /\ IsHost(host') /\ ~host'.marker /\ host'.run = host.run /\ host'.step = host.step
              /\ host'.aborted = host.aborted /\ host'.input = host.input /\ host'.body = host.body
            BY <1>1, <3>1 DEF IsHost
        <3> QED BY <1>1, <3>2 DEF Ties
    <2>5. UNCHANGED <<outbox, branch, aside, arrived, accepted, taken>> /\ held' = held /\ twice' = twice
        BY <1>4 DEF MarkerRejected
    <2> QED BY <2>3, <2>4, <2>5, InertStep
<1>5. ASSUME NEW b, IsBridge(b), Same(bridge, b, {"auto", "latch", "tree", "compacting"}),
             b.auto => bridge.auto, NEW run \in {"user", "marker"}, NEW marker, RunStarts(b, run, marker),
             ~bridge.suspended
      PROVE  BridgeInv' /\ Goes
    <2>1. /\ bridge' = AgentStart(b) /\ host.run = "none"
          /\ host' = [host EXCEPT !.run = run, !.step = "open", !.marker = marker,
                                  !.input = @ /\ run = "marker"]
          /\ UNCHANGED <<outbox, branch, aside, arrived, accepted, taken>> /\ held' = held /\ twice' = twice
        BY <1>5 DEF RunStarts
    <2>2. /\ IsBridge(bridge') /\ Same(b, bridge', {"auto", "latch", "esc"})
          /\ ~bridge'.auto /\ bridge'.esc = IF b.esc = "active" THEN "stale" ELSE b.esc
        BY <1>5, <2>1, AgentStartIs
    <2> DEFINE c == [bridge' EXCEPT !.esc = bridge.esc]
    <2>3. /\ Same(bridge, bridge', {"auto", "latch", "tree", "compacting", "esc"})
          /\ bridge'.esc = IF bridge.esc = "active" THEN "stale" ELSE bridge.esc
        BY <1>5, <2>2 DEF Same, Fields
    <2>4. Same(bridge, c, {"auto", "latch", "tree", "compacting"})
        BY <2>2, <2>3 DEF Same, IsBridge, Fields
    <2>5. Same(bridge, c, {"auto", "latch", "loop", "tree", "compacting"})
        BY <2>4 DEF Same
    <2>6. /\ Recorded(c, outbox, arrived, accepted) /\ Awaited(c) /\ Placed(c, outbox, taken, held)
        BY <2>5, InertKeeps DEF BridgeInv
    <2>7. Same(bridge', c, {"esc"})
        BY <2>2 DEF Same, IsBridge, Fields
    <2> HIDE DEF c
    <2>8. /\ Recorded(bridge', outbox, arrived, accepted) /\ Awaited(bridge')
          /\ Placed(bridge', outbox, taken, held)
        <3>1. /\ c.pending = bridge'.pending /\ c.awaiting = bridge'.awaiting
              /\ c.timedOut = bridge'.timedOut
              /\ c.parked = bridge'.parked /\ c.wake = bridge'.wake /\ c.delivered = bridge'.delivered
              /\ c.reconcile = bridge'.reconcile /\ c.projected = bridge'.projected
              /\ c.included = bridge'.included /\ c.suspended = bridge'.suspended
              /\ c.ordinals = bridge'.ordinals /\ c.old = bridge'.old
              /\ Uncertain(c) = Uncertain(bridge')
            BY <2>7 DEF Same, Fields, Uncertain
        <3> QED BY <2>6, <3>1 DEF Recorded, Awaited, Placed
    <2>9. Sound'
        BY <2>1, <2>2, <2>8 DEF BridgeInv, Sound
    <2>10. /\ IsHost(host') /\ host'.run = run /\ host'.step = "open" /\ host'.aborted = host.aborted
        BY <1>1, <2>1 DEF IsHost
    <2>11. /\ bridge'.suspended = bridge.suspended /\ bridge'.ackFence = bridge.ackFence
        BY <2>3 DEF Same, Fields
    <2>12. Ties(bridge', host')
        <3>1. ~host.aborted /\ ~bridge.ackFence
            BY <1>1, <1>5, <2>1 DEF Ties
        <3>2. bridge'.esc # "active"
            BY <2>3
        <3> QED BY <1>5, <2>10, <2>11, <3>1, <3>2 DEF Ties
    <2>13. News
        BY <2>2 DEF News, MarkerSent
    <2>14. Shows
        <3>1. bridge'.canonical = bridge.canonical /\ bridge'.delivered = bridge.delivered
            BY <2>3 DEF Same, Fields
        <3> QED BY <2>1, <2>11, <3>1 DEF Shows, Shown
    <2> QED BY <2>9, <2>10, <2>12, <2>13, <2>14 DEF BridgeInv, Goes
<1>6. \A empty : LET b == BeforeAgentStart(bridge, empty)
                 IN  /\ IsBridge(b) /\ Same(bridge, b, {"auto", "latch", "tree", "compacting"})
                     /\ b.auto => bridge.auto
    BY <1>1, BeforeAgentStartIs
<1>7. CASE UserRunStarts
    <2>1. ~bridge.suspended
        BY <1>1, <1>7 DEF UserRunStarts, Ties
    <2> QED BY <1>5, <1>6, <1>7, <2>1 DEF UserRunStarts
<1>8. CASE MarkerStarts
    <2>1. ~bridge.suspended
        BY <1>1, <1>8 DEF MarkerStarts, Ties
    <2>2. Same(bridge, bridge, {"auto", "latch", "tree", "compacting"})
        BY DEF Same
    <2>3. PICK b \in {bridge, BeforeAgentStart(bridge, TRUE)} : RunStarts(b, "marker", FALSE)
        BY <1>8 DEF MarkerStarts
    <2> QED BY <1>1, <1>5, <1>6, <2>1, <2>2, <2>3
<1> QED BY <1>2, <1>3, <1>4, <1>7, <1>8

\* The timer of a prompt that has not started.
LEMMA PromptTimerKeeps ==
    ASSUME BridgeInv, PromptTimer
    PROVE  BridgeInv' /\ Goes
<1> DEFINE b == [bridge EXCEPT !.starting = FALSE, !.auto = FALSE]
<1>1. PICK o \in Flushed(b, outbox, left.faults, IsIdle(host), FALSE) : Take(o, host)
    BY DEF PromptTimer
<1>2. /\ UNCHANGED <<aside, arrived, accepted, taken>> /\ held' = held
    BY DEF PromptTimer
<1>3. IsBridge(b) /\ Same(bridge, b, {"auto"}) /\ ~b.auto
    BY DEF BridgeInv, Sound, IsBridge, Same, Fields
<1> HIDE DEF b
<1>4. Same(bridge, b, {"auto", "latch", "loop", "tree", "compacting"})
    BY <1>3 DEF Same
<1>5. /\ Recorded(b, outbox, arrived, accepted) /\ Awaited(b) /\ Placed(b, outbox, taken, held)
      /\ Ties(b, host) /\ IsHost(host) /\ Widens(b, outbox)
    BY <1>4, InertKeeps DEF BridgeInv
<1>6. Flushes(b, outbox, o)
    BY <1>1, <1>3, FlushedIs DEF BridgeInv, Sound
<1>7. branch \union aside' \union taken' \union held' \subseteq arrived'
    BY <1>2 DEF BridgeInv, Sound
<1> QED BY <1>1, <1>2, <1>3, <1>5, <1>6, <1>7, TakeKeeps


\* The context of a request: what the output of a run stands for is read.
LEMMA ContextKeeps ==
    ASSUME BridgeInv, Context
    PROVE  BridgeInv' /\ Goes
<1> DEFINE gone == Stands(bridge, outbox, host)
<1>1. PICK r \in Recovered(bridge, outbox, host, left.faults), behind \in BOOLEAN :
        \E p \in Projected(r.bridge, r.outbox, host, r.messages, left.faults - r.cost, behind) :
          Take([bridge |-> p.bridge, outbox |-> p.outbox, shown |-> {}, cost |-> p.cost + r.cost],
               [host EXCEPT !.step = "context", !.body = p.body])
    BY DEF Context
<1>2. PICK p \in Projected(r.bridge, r.outbox, host, r.messages, left.faults - r.cost, behind) :
          Take([bridge |-> p.bridge, outbox |-> p.outbox, shown |-> {}, cost |-> p.cost + r.cost],
               [host EXCEPT !.step = "context", !.body = p.body])
    BY <1>1
<1>3. /\ UNCHANGED <<aside, arrived, taken, held>> /\ accepted' = accepted \union gone
      /\ host.step \in {"open", "answered"}
    BY DEF Context, Stands
<1>4. Recovers(bridge, outbox, host, r)
    BY <1>1, RecoveredIs DEF BridgeInv, Sound
<1>5. Projects(r.bridge, r.outbox, host, p)
    BY <1>2, <1>4, ProjectedIs DEF Recovers
<1> DEFINE o == [bridge |-> p.bridge, outbox |-> p.outbox, shown |-> {}, cost |-> p.cost + r.cost]
           h == [host EXCEPT !.step = "context", !.body = p.body]
<1>6. o.bridge = p.bridge /\ o.outbox = p.outbox /\ o.shown = {} /\ Take(o, h)
    BY <1>2
<1> HIDE DEF o, h
<1>7. /\ r.bridge.delivered = bridge.delivered \union gone
      /\ r.bridge.timedOut = bridge.timedOut \ gone /\ r.bridge.parked = bridge.parked \ gone
      /\ r.bridge.included = bridge.included \ gone /\ r.bridge.old = bridge.old \ gone
      /\ bridge.ordinals \ gone \subseteq r.bridge.ordinals
      /\ r.bridge.pending \subseteq bridge.pending
      /\ bridge.awaiting \ gone \subseteq r.bridge.awaiting
      /\ r.bridge.awaiting \subseteq bridge.awaiting
                                        \union ((bridge.pending \union outbox.stored) \ r.bridge.parked)
      /\ r.bridge.wake \subseteq bridge.wake
                                        \union ((bridge.pending \union outbox.stored) \ r.bridge.parked)
      /\ r.bridge.wake \intersect r.bridge.parked \subseteq bridge.wake
      /\ outbox.stored \ gone \subseteq r.outbox.stored /\ r.outbox.stored \subseteq outbox.stored
    BY <1>4 DEF Recovers
<1>8. /\ r.bridge.reconcile = bridge.reconcile /\ r.bridge.suspended = bridge.suspended
      /\ r.bridge.esc = bridge.esc /\ r.bridge.ackFence = bridge.ackFence
      /\ r.bridge.auto = bridge.auto /\ r.bridge.latch = bridge.latch
    BY <1>4 DEF Recovers, Same, Fields
<1>9. /\ p.bridge.delivered = r.bridge.delivered /\ p.bridge.parked = r.bridge.parked
      /\ p.bridge.included = r.bridge.included /\ p.bridge.old = r.bridge.old
      /\ p.bridge.reconcile = r.bridge.reconcile /\ p.bridge.suspended = r.bridge.suspended
      /\ p.bridge.esc = r.bridge.esc /\ p.bridge.ackFence = r.bridge.ackFence
      /\ p.bridge.auto = r.bridge.auto /\ p.bridge.latch = r.bridge.latch
      /\ IsBridge(p.bridge) /\ IsOutbox(p.outbox)
    BY <1>5 DEF Projects, Same, Fields
<1>10. /\ p.outbox.stored = r.outbox.stored
       /\ p.bridge.projected \subseteq p.bridge.awaiting /\ p.bridge.projected \subseteq p.body
       /\ r.bridge.awaiting \ r.bridge.parked \subseteq p.bridge.awaiting
       /\ p.bridge.awaiting \subseteq r.bridge.awaiting
             \union ((r.outbox.stored \union r.bridge.timedOut) \ r.bridge.parked)
       /\ p.bridge.projected \intersect r.bridge.parked = {}
       /\ p.bridge.timedOut \subseteq r.bridge.timedOut /\ p.bridge.pending \subseteq r.bridge.pending
       /\ r.bridge.ordinals \subseteq p.bridge.ordinals
       /\ p.bridge.wake \subseteq r.bridge.wake
             \union ((p.bridge.awaiting \union r.bridge.timedOut) \ r.bridge.parked)
    BY <1>5 DEF Projects
<1>11. gone \subseteq arrived
    BY DEF Stands, Suppressed, BridgeInv, Sound, Recorded
<1> HIDE DEF gone
<1>12. Recorded(p.bridge, p.outbox, arrived', accepted')
    <2>1. /\ p.bridge.pending \union p.bridge.timedOut \union p.bridge.parked
                 \subseteq p.outbox.stored \union p.bridge.delivered
          /\ r.bridge.awaiting \union r.bridge.wake \subseteq p.outbox.stored \union p.bridge.delivered
        BY <1>7, <1>9, <1>10 DEF BridgeInv, Sound, Recorded, Uncertain
    <2>2. p.bridge.awaiting \union p.bridge.wake \subseteq p.outbox.stored \union p.bridge.delivered
        BY <1>7, <1>9, <1>10, <2>1 DEF BridgeInv, Sound, Recorded, Uncertain
    <2>3. /\ p.outbox.stored \union p.bridge.delivered \subseteq arrived'
          /\ arrived' \ p.outbox.stored \subseteq accepted'
          /\ p.bridge.reconcile \subseteq accepted'
        BY <1>3, <1>7, <1>8, <1>9, <1>10, <1>11 DEF BridgeInv, Sound, Recorded
    <2> QED BY <2>1, <2>2, <2>3 DEF Recorded, Uncertain
<1>13. Awaited(p.bridge)
    <2>1. p.bridge.included \subseteq p.bridge.awaiting
        BY <1>7, <1>9, <1>10 DEF BridgeInv, Sound, Awaited
    <2>2. p.bridge.parked \intersect p.bridge.awaiting = {}
        BY <1>7, <1>9, <1>10 DEF BridgeInv, Sound, Awaited
    <2>3. p.bridge.parked \intersect p.bridge.wake = {}
        BY <1>7, <1>9, <1>10 DEF BridgeInv, Sound, Awaited
    <2> QED BY <1>9, <1>10, <2>1, <2>2, <2>3 DEF Awaited
<1>14. Placed(p.bridge, p.outbox, taken', held')
    BY <1>3, <1>7, <1>8, <1>9, <1>10 DEF BridgeInv, Sound, Placed
<1>15. /\ IsHost(h) /\ h.run = host.run /\ h.step = "context" /\ h.aborted = host.aborted
       /\ h.input = host.input /\ h.marker = host.marker /\ h.body = p.body
    BY DEF h, BridgeInv, IsHost
<1>16. Ties(p.bridge, h)
    BY <1>3, <1>7, <1>8, <1>9, <1>10, <1>15 DEF BridgeInv, Ties
<1>17. Flushes(p.bridge, p.outbox, o)
    BY <1>6, <1>9, UnflushedIs DEF Same
<1>18. branch \union aside' \union taken' \union held' \subseteq arrived'
    BY <1>3 DEF BridgeInv, Sound
<1>19. Widens(p.bridge, p.outbox)
    <2>1. bridge.canonical \subseteq r.bridge.canonical /\ p.bridge.canonical = r.bridge.canonical
        BY <1>4, <1>5 DEF Recovers, Projects, Same, Fields
    <2> QED BY <1>7, <1>8, <1>9, <1>10, <2>1 DEF Widens
<1> QED BY <1>3, <1>6, <1>8, <1>9, <1>12, <1>13, <1>14, <1>15, <1>16, <1>17, <1>18, <1>19, TakeKeeps

\* The request takes what is projected, and it alone.
LEMMA RequestKeeps ==
    ASSUME BridgeInv, Request
    PROVE  BridgeInv' /\ Goes
<1> DEFINE b == Requested(bridge, host.aborted)
           h == [host EXCEPT !.step = "sent"]
<1>1. /\ host.step = "context" /\ UNCHANGED <<aside, arrived, accepted, taken>> /\ held' = held
    BY DEF Request
<1>2. /\ IsBridge(b) /\ Same(bridge, b, {"projected", "included", "pending"})
      /\ b.projected = {} /\ b.included = IF host.aborted THEN {} ELSE bridge.projected
      /\ b.pending \subseteq bridge.pending
    BY RequestedIs DEF BridgeInv, Sound
<1>3. PICK o : Take(o, h) /\ Flushes(b, outbox, o)
    <2>1. CASE Take(Outcome(b), h)
        BY <1>2, <2>1, OutcomeIs DEF BridgeInv, Sound
    <2>2. CASE \E o \in Flushed(b, outbox, left.faults, FALSE, FALSE) : Take(o, h)
        BY <1>2, <2>2, FlushedIs DEF BridgeInv, Sound
    <2> QED BY <2>1, <2>2 DEF Request
<1> HIDE DEF b
<1>4. /\ b.awaiting = bridge.awaiting /\ b.timedOut = bridge.timedOut
      /\ b.parked = bridge.parked /\ b.wake = bridge.wake /\ b.delivered = bridge.delivered
      /\ b.reconcile = bridge.reconcile /\ b.suspended = bridge.suspended
      /\ b.ordinals = bridge.ordinals /\ b.old = bridge.old /\ b.esc = bridge.esc
      /\ b.ackFence = bridge.ackFence /\ b.auto = bridge.auto /\ b.latch = bridge.latch
      /\ Uncertain(b) = Uncertain(bridge)
    BY <1>2 DEF Same, Fields, Uncertain
<1>5. Recorded(b, outbox, arrived', accepted')
    BY <1>1, <1>2, <1>4 DEF BridgeInv, Sound, Recorded
<1>6. Awaited(b)
    BY <1>2, <1>4 DEF BridgeInv, Sound, Awaited
<1>7. Placed(b, outbox, taken', held')
    BY <1>1, <1>4 DEF BridgeInv, Sound, Placed
<1>8. /\ IsHost(h) /\ h.run = host.run /\ h.step = "sent" /\ h.aborted = host.aborted
      /\ h.input = host.input /\ h.marker = host.marker /\ h.body = host.body
    BY DEF BridgeInv, IsHost
<1> HIDE DEF h
<1>9. Ties(b, h)
    BY <1>1, <1>2, <1>4, <1>8 DEF BridgeInv, Ties
<1>10. branch \union aside' \union taken' \union held' \subseteq arrived'
    BY <1>1 DEF BridgeInv, Sound
<1>11. Widens(b, outbox)
    BY <1>2 DEF Widens, Same, Fields
<1> QED BY <1>1, <1>2, <1>3, <1>4, <1>5, <1>6, <1>7, <1>8, <1>9, <1>10, <1>11, TakeKeeps

\* The host goes on and the bridge is as it was.
LEMMA QuietKeeps ==
    ASSUME BridgeInv, NEW h, IsHost(h), Ties(bridge, h), NEW o, o.bridge = bridge,
           o.outbox = outbox, o.shown = {}, Take(o, h),
           UNCHANGED <<aside, arrived, accepted, taken>>, held' = held
    PROVE  BridgeInv' /\ Goes
<1>1. Flushes(bridge, outbox, o)
    BY UnflushedIs DEF Same, BridgeInv, Sound
<1>2. /\ Recorded(bridge, outbox, arrived', accepted') /\ Awaited(bridge) /\ IsBridge(bridge)
      /\ Placed(bridge, outbox, taken', held')
      /\ branch \union aside' \union taken' \union held' \subseteq arrived'
    BY DEF BridgeInv, Sound
<1>3. Widens(bridge, outbox)
    BY DEF Widens
<1> QED BY <1>1, <1>2, <1>3, TakeKeeps

\* An answer strikes off what is in the body of the request, or parks it.
LEMMA AnswerTakes ==
    ASSUME BridgeInv, NEW h, h \in {[host EXCEPT !.step = "answered"], [host EXCEPT !.step = "ended"]},
           host.step = "sent" \/ (host.step = "answered" /\ ~host.aborted), host.step = "sent" => Accept,
           host.step = "answered" => UNCHANGED <<accepted, taken>>,
           UNCHANGED <<aside, arrived>>, held' = held,
           IF LateAnswer(bridge) \/ ~Associated(bridge) THEN Take(Outcome(bridge), h)
           ELSE \E o \in Committed(bridge, outbox, left.faults, FALSE) : Take(o, h)
    PROVE  BridgeInv' /\ Goes
<1>1. /\ IsHost(h) /\ h.run = host.run /\ h.step \in {"answered", "ended"}
      /\ h.aborted = host.aborted
      /\ h.input = host.input /\ h.marker = host.marker /\ h.body = host.body
    BY DEF BridgeInv, IsHost
<1>2. ~bridge.suspended /\ host.run # "none"
    BY DEF BridgeInv, Ties
<1>3. CASE bridge.included = {} /\ (LateAnswer(bridge) \/ ~Associated(bridge))
    <2>1. Take(Outcome(bridge), h)
        BY <1>3
    <2>2. Outcome(bridge).bridge = bridge /\ Outcome(bridge).outbox = outbox /\ Outcome(bridge).shown = {}
        BY DEF Outcome
    <2>3. Flushes(bridge, outbox, Outcome(bridge))
        BY OutcomeIs DEF BridgeInv, Sound
    <2>4. taken' = taken /\ accepted \subseteq accepted'
        BY <1>3 DEF Accept
    <2>5. /\ Recorded(bridge, outbox, arrived', accepted') /\ Awaited(bridge) /\ IsBridge(bridge)
          /\ Placed(bridge, outbox, taken', held')
          /\ branch \union aside' \union taken' \union held' \subseteq arrived'
        BY <2>4 DEF BridgeInv, Sound, Recorded
    <2>6. Ties(bridge, h)
        BY <1>1, <1>2, <1>3 DEF BridgeInv, Ties
    <2>7. Widens(bridge, outbox)
        BY DEF Widens
    <2> QED BY <1>1, <2>1, <2>3, <2>4, <2>5, <2>6, <2>7, TakeKeeps
<1>4. CASE ~(LateAnswer(bridge) \/ ~Associated(bridge))
    <2>1. PICK o \in Committed(bridge, outbox, left.faults, FALSE) : Take(o, h)
        BY <1>4
    <2>2. PICK done, c, kept : Consumed(bridge, outbox, done, c, kept) /\ Flushes(c, kept, o)
        BY <2>1, CommittedIs DEF BridgeInv, Sound
    <2>3. ~host.aborted
        BY <1>4 DEF Associated, BridgeInv, Ties
    <2>4. /\ host.step = "sent" => bridge.included \subseteq host.body /\ bridge.projected = {}
          /\ host.step # "sent" => bridge.included = {}
        BY DEF BridgeInv, Ties
    <2>5. /\ accepted \union bridge.included \subseteq accepted'
          /\ taken' = taken \union bridge.included
        BY <1>4, <2>3, <2>4 DEF Accept
    <2>6. /\ done \subseteq bridge.included /\ IsBridge(c) /\ IsOutbox(kept)
          /\ c.included = {} /\ c.awaiting = bridge.awaiting \ bridge.included
          /\ c.delivered = bridge.delivered \union done
          /\ c.parked = bridge.parked \union (bridge.included \ done)
          /\ c.reconcile = bridge.reconcile \union (bridge.included \ done)
          /\ c.wake \subseteq bridge.wake \ (bridge.included \ done)
          /\ c.projected \subseteq bridge.projected
          /\ kept.stored = outbox.stored \ done
        BY <2>2 DEF Consumed
    <2>7. /\ c.pending = bridge.pending /\ c.timedOut = bridge.timedOut
          /\ c.suspended = bridge.suspended /\ c.ordinals = bridge.ordinals /\ c.old = bridge.old
          /\ c.esc = bridge.esc /\ c.ackFence = bridge.ackFence
          /\ c.auto = bridge.auto /\ c.latch = bridge.latch
        BY <2>2 DEF Consumed, Same, Fields
    <2>8. bridge.included \subseteq bridge.awaiting
        BY DEF BridgeInv, Sound, Awaited
    <2>9. Recorded(c, kept, arrived', accepted')
        <3>1. c.pending \union c.awaiting \union Uncertain(c) \union c.wake
                  \subseteq kept.stored \union c.delivered
            BY <2>6, <2>7, <2>8 DEF BridgeInv, Sound, Recorded, Uncertain
        <3>2. /\ kept.stored \union c.delivered \subseteq arrived'
              /\ arrived' \ kept.stored \subseteq accepted'
              /\ c.reconcile \subseteq accepted'
            BY <2>5, <2>6, <2>8 DEF BridgeInv, Sound, Recorded
        <3> QED BY <3>1, <3>2 DEF Recorded
    <2>10. Awaited(c)
        <3>1. c.projected \subseteq c.awaiting
            BY <2>4, <2>6 DEF BridgeInv, Sound, Awaited
        <3>2. c.parked \intersect (c.awaiting \union c.wake) = {}
            BY <2>6 DEF BridgeInv, Sound, Awaited
        <3> QED BY <2>6, <3>1, <3>2 DEF Awaited
    <2>11. Placed(c, kept, taken', held')
        BY <2>5, <2>6, <2>7 DEF BridgeInv, Sound, Placed
    <2>12. Ties(c, h)
        BY <1>1, <1>2, <2>3, <2>6, <2>7 DEF BridgeInv, Ties
    <2>13. branch \union aside' \union taken' \union held' \subseteq arrived'
        BY <2>5, <2>8 DEF BridgeInv, Sound, Recorded
    <2>14. Widens(c, kept)
        <3>1. c.canonical = bridge.canonical
            BY <2>2 DEF Consumed, Same, Fields
        <3> QED BY <2>6, <2>7, <3>1 DEF Widens
    <2> QED BY <1>1, <2>1, <2>2, <2>5, <2>6, <2>7, <2>9, <2>10, <2>11, <2>12, <2>13, <2>14, TakeKeeps
<1>5. LateAnswer(bridge) \/ ~Associated(bridge) => bridge.included = {}
    BY <1>2 DEF LateAnswer, Associated, BridgeInv, Ties
<1> QED BY <1>3, <1>4, <1>5

LEMMA AnswerKeeps ==
    ASSUME BridgeInv, Answer
    PROVE  BridgeInv' /\ Goes
BY AnswerTakes DEF Answer

LEMMA AnswerFailsKeeps ==
    ASSUME BridgeInv, AnswerFails
    PROVE  BridgeInv' /\ Goes
<1>1. /\ host' = [host EXCEPT !.step = "failed"] /\ host.step = "sent"
      /\ bridge' \in {bridge, [bridge EXCEPT !.defer = TRUE]}
    BY DEF AnswerFails
<1>2. UNCHANGED <<outbox, branch, aside, arrived, accepted, taken>> /\ held' = held /\ twice' = twice
    BY DEF AnswerFails
<1>3. /\ IsBridge(bridge') /\ bridge'.auto = bridge.auto
      /\ Same(bridge, bridge', {"auto", "latch", "loop", "tree", "compacting"})
    BY <1>1 DEF BridgeInv, Sound, IsBridge, Same, Fields
<1>4. /\ IsHost(host') /\ host'.run = host.run /\ host'.step = "failed"
      /\ host'.aborted = host.aborted
      /\ host'.input = host.input /\ host'.marker = host.marker /\ host'.body = host.body
    BY <1>1 DEF BridgeInv, IsHost
<1>5. Ties(bridge, host')
    BY <1>1, <1>4 DEF BridgeInv, Ties
<1> QED BY <1>2, <1>3, <1>4, <1>5, InertStep

\* What is fenced is behind the cutoff of the Esc, with all that has arrived.
LEMMA FenceKeeps ==
    ASSUME BridgeInv, host.run # "none", NEW h, IsHost(h), h.run = host.run, h.step # "idle",
           h.aborted, h.input = host.input, h.marker = host.marker,
           host.aborted => h.step = "ended", NEW hel, hel \subseteq arrived
    PROVE  LET c == Fence(bridge)
           IN  /\ IsBridge(c) /\ Recorded(c, outbox, arrived, accepted) /\ Awaited(c)
               /\ host.aborted => Placed(c, outbox, taken, held)
               /\ ~host.aborted => Placed(c, outbox, taken, hel)
               /\ Ties(c, h) /\ (c.auto => bridge.auto) /\ Widens(c, outbox)
<1> DEFINE c == Fence(bridge)
<1>1. /\ IsBridge(c) /\ bridge.esc = "active" => c = bridge
      /\ bridge.esc # "active" =>
            /\ Same(bridge, c, {"esc", "old", "ackFence", "latch", "auto", "projected", "included"})
            /\ c.esc = "active" /\ c.old = bridge.ordinals /\ ~c.auto
            /\ c.projected = {} /\ c.included = {}
    BY FenceIs DEF BridgeInv, Sound
<1>2. IsBridge(c)
    BY FenceIs DEF BridgeInv, Sound
<1> HIDE DEF c
<1>3. ~bridge.suspended
    BY DEF BridgeInv, Ties
<1>4. CASE bridge.esc = "active"
    <2>1. c = bridge
        BY <1>1, <1>2, <1>4
    <2>2. host.aborted
        BY <1>4 DEF BridgeInv, Ties
    <2>3. Ties(bridge, h)
        BY <1>3, <1>4, <2>2 DEF BridgeInv, Ties
    <2>4. Widens(bridge, outbox)
        BY DEF Widens
    <2> QED BY <1>2, <2>1, <2>2, <2>3, <2>4 DEF BridgeInv, Sound, c
<1>5. CASE bridge.esc # "active"
    <2>1. /\ c.esc = "active" /\ c.old = bridge.ordinals /\ ~c.auto
          /\ c.projected = {} /\ c.included = {}
          /\ c.pending = bridge.pending /\ c.awaiting = bridge.awaiting
          /\ c.timedOut = bridge.timedOut /\ c.parked = bridge.parked /\ c.wake = bridge.wake
          /\ c.delivered = bridge.delivered /\ c.reconcile = bridge.reconcile
          /\ c.suspended = bridge.suspended /\ c.ordinals = bridge.ordinals
          /\ Uncertain(c) = Uncertain(bridge)
        BY <1>1, <1>2, <1>5 DEF Same, Fields, Uncertain
    <2>2. Recorded(c, outbox, arrived, accepted)
        BY <2>1 DEF BridgeInv, Sound, Recorded
    <2>3. Awaited(c)
        BY <2>1 DEF BridgeInv, Sound, Awaited
    <2>4. Placed(c, outbox, taken, held) /\ Placed(c, outbox, taken, hel)
        BY <2>1 DEF BridgeInv, Sound, Placed
    <2>5. Ties(c, h)
        BY <1>3, <2>1 DEF BridgeInv, Ties
    <2>6. Widens(c, outbox)
        BY <1>1, <1>2, <1>5 DEF Widens, Same, Fields
    <2> QED BY <1>2, <2>1, <2>2, <2>3, <2>4, <2>5, <2>6 DEF c
<1> QED BY <1>4, <1>5

\* The end of a run.
LEMMA RunEndsKeeps ==
    ASSUME BridgeInv, RunEnds
    PROVE  BridgeInv' /\ Goes
<1> DEFINE h == [host EXCEPT !.step = "ended"]
<1>1. UNCHANGED <<aside, arrived>> /\ held' = held
    BY DEF RunEnds
<1>2. /\ IsHost(h) /\ h.run = host.run /\ h.step = "ended" /\ h.aborted = host.aborted
      /\ h.input = host.input /\ h.marker = host.marker /\ h.body = host.body
    BY DEF BridgeInv, IsHost
<1>3. CASE /\ host.aborted
           /\ host.step \in {"open", "context", "sent", "answered", "failed"}
           /\ Take(Outcome(Fence(bridge)), h)
           /\ UNCHANGED <<accepted, taken>>
    <2> DEFINE c == Fence(bridge)
    <2>1. host.run # "none"
        BY <1>3 DEF BridgeInv, Ties
    <2>2. held \subseteq arrived
        BY DEF BridgeInv, Sound
    <2>3. /\ IsBridge(c) /\ Recorded(c, outbox, arrived, accepted) /\ Awaited(c)
          /\ Placed(c, outbox, taken, held) /\ Ties(c, h) /\ (c.auto => bridge.auto)
          /\ Widens(c, outbox)
        BY <1>2, <1>3, <2>1, <2>2, FenceKeeps
    <2>4. Flushes(c, outbox, Outcome(c))
        BY <2>3, OutcomeIs DEF BridgeInv, Sound
    <2>5. branch \union aside' \union taken' \union held' \subseteq arrived'
        BY <1>1, <1>3 DEF BridgeInv, Sound
    <2> QED BY <1>1, <1>2, <1>3, <2>3, <2>4, <2>5, TakeKeeps
<1>4. CASE /\ ~host.aborted /\ host.step \in {"sent", "answered"}
           /\ IF LateAnswer(bridge) \/ ~Associated(bridge) THEN Take(Outcome(bridge), h)
              ELSE \E o \in Committed(bridge, outbox, left.faults, FALSE) : Take(o, h)
           /\ IF host.step = "sent" THEN Accept ELSE UNCHANGED <<accepted, taken>>
    BY <1>1, <1>4, AnswerTakes
<1>5. CASE /\ host.step \in {"failed", "open", "context"}
           /\ Take([Outcome(bridge) EXCEPT !.cost = IF host.step = "failed" THEN 0 ELSE 1], h)
           /\ UNCHANGED <<accepted, taken>>
    <2> DEFINE o == [Outcome(bridge) EXCEPT !.cost = IF host.step = "failed" THEN 0 ELSE 1]
    <2>1. o.bridge = bridge /\ o.outbox = outbox /\ o.shown = {}
        BY DEF Outcome
    <2>2. Ties(bridge, h)
        BY <1>2, <1>5 DEF BridgeInv, Ties
    <2> HIDE DEF o, h
    <2>3. Take(o, h)
        BY <1>5 DEF o
    <2> QED BY <1>1, <1>2, <1>5, <2>1, <2>2, <2>3, QuietKeeps
<1> QED BY <1>3, <1>4, <1>5 DEF RunEnds

\* The host is idle; the safe point is looked at twice.
LEMMA SettledKeeps ==
    ASSUME BridgeInv, Settled
    PROVE  BridgeInv' /\ Goes
<1> DEFINE h == [host EXCEPT !.run = "none", !.step = "idle", !.aborted = FALSE, !.body = {}]
           b == AgentSettled(bridge, IsIdle(h))
<1>1. PICK o \in Flushed(b, outbox, left.faults, IsIdle(h), FALSE) :
          Take([o EXCEPT !.bridge = TryWake(@, IsIdle(h))], h)
    BY DEF Settled
<1>2. /\ UNCHANGED <<aside, arrived, accepted, taken>> /\ held' = held /\ host.step = "ended"
    BY DEF Settled
<1>3. /\ IsBridge(b)
      /\ Same(bridge, b, {"compacting", "ackFence", "projected", "included", "latch", "loop"})
      /\ IF bridge.esc = "none"
           THEN /\ b.ackFence = bridge.ackFence /\ b.projected = bridge.projected
                /\ b.included = bridge.included
           ELSE ~b.ackFence /\ b.projected = {} /\ b.included = {}
    BY AgentSettledIs DEF BridgeInv, Sound
<1>4. Flushes(b, outbox, o)
    BY <1>1, <1>3, FlushedIs DEF BridgeInv, Sound
<1>5. IsOutcome(o)
    BY <1>1, <1>3, FlushedIs DEF BridgeInv, Sound
<1> HIDE DEF b
<1> DEFINE p == [o EXCEPT !.bridge = TryWake(@, IsIdle(h))]
<1>6. p.bridge = TryWake(o.bridge, IsIdle(h)) /\ p.outbox = o.outbox /\ p.shown = o.shown
    BY <1>5 DEF IsOutcome
<1>7. Take(p, h)
    BY <1>1
<1>8. /\ IsHost(h) /\ h.run = "none" /\ h.step = "idle" /\ ~h.aborted
      /\ h.input = host.input /\ h.marker = host.marker
    BY DEF BridgeInv, IsHost
<1> HIDE DEF p, h
<1>9. Flushes(b, outbox, p)
    BY <1>4, <1>6, TryWakeAfter
<1>10. /\ b.pending = bridge.pending /\ b.awaiting = bridge.awaiting /\ b.timedOut = bridge.timedOut
       /\ b.parked = bridge.parked /\ b.wake = bridge.wake /\ b.delivered = bridge.delivered
       /\ b.reconcile = bridge.reconcile /\ b.suspended = bridge.suspended
       /\ b.ordinals = bridge.ordinals /\ b.old = bridge.old /\ b.esc = bridge.esc
       /\ b.auto = bridge.auto /\ Uncertain(b) = Uncertain(bridge)
    BY <1>3 DEF Same, Fields, Uncertain
<1>11. Recorded(b, outbox, arrived', accepted')
    BY <1>2, <1>10 DEF BridgeInv, Sound, Recorded
<1>12. Awaited(b)
    BY <1>3, <1>10 DEF BridgeInv, Sound, Awaited
<1>13. Placed(b, outbox, taken', held')
    BY <1>2, <1>10 DEF BridgeInv, Sound, Placed
<1>14. Ties(b, h)
    BY <1>2, <1>3, <1>8, <1>10 DEF BridgeInv, Ties
<1>15. branch \union aside' \union taken' \union held' \subseteq arrived'
    BY <1>2 DEF BridgeInv, Sound
<1>16. Widens(b, outbox)
    BY <1>3 DEF Widens, Same, Fields
<1> QED BY <1>2, <1>3, <1>7, <1>8, <1>9, <1>10, <1>11, <1>12, <1>13, <1>14, <1>15, <1>16, TakeKeeps

LEMMA EscapeKeeps ==
    ASSUME BridgeInv, Escape
    PROVE  BridgeInv' /\ Goes
<1>1. /\ host.run # "none" /\ ~host.aborted /\ bridge' = Fence(bridge)
      /\ host' = [host EXCEPT !.aborted = TRUE] /\ held' = arrived
      /\ UNCHANGED <<outbox, branch, aside, arrived, accepted, taken, twice>>
    BY DEF Escape
<1>2. /\ IsHost(host') /\ host'.run = host.run /\ host'.step = host.step /\ host'.aborted
      /\ host'.input = host.input /\ host'.marker = host.marker
    BY <1>1 DEF BridgeInv, IsHost
<1>3. host'.step # "idle"
    BY <1>1, <1>2 DEF BridgeInv, Ties
<1>4. /\ IsBridge(bridge') /\ Recorded(bridge', outbox, arrived, accepted) /\ Awaited(bridge')
      /\ Placed(bridge', outbox, taken, arrived) /\ Ties(bridge', host')
      /\ (bridge'.auto => bridge.auto) /\ Widens(bridge', outbox)
    BY <1>1, <1>2, <1>3, FenceKeeps
<1>5. Sound'
    BY <1>1, <1>4 DEF BridgeInv, Sound
<1>6. Shows
    <2>1. /\ bridge'.suspended = bridge.suspended /\ bridge.delivered \subseteq bridge'.delivered
          /\ bridge.canonical \intersect outbox.stored \subseteq bridge'.canonical
        BY <1>4 DEF Widens
    <2> QED BY <1>1, <2>1 DEF Shows, Shown
<1> QED BY <1>2, <1>4, <1>5, <1>6 DEF BridgeInv, News, MarkerSent, Goes

\* What the host does without the bridge.
LEMMA HostKeeps ==
    ASSUME BridgeInv, OutputTool \/ MutationCancelled
    PROVE  BridgeInv' /\ Goes
<1>1. /\ UNCHANGED <<outbox, branch, aside, arrived, accepted, taken>> /\ held' = held /\ twice' = twice
      /\ bridge' = bridge
      /\ host' \in {[host EXCEPT !.reported = TRUE], [host EXCEPT !.mutating = "none"]}
    BY DEF OutputTool, MutationCancelled
<1>2. /\ IsHost(host') /\ host'.run = host.run /\ host'.step = host.step
      /\ host'.aborted = host.aborted
      /\ host'.input = host.input /\ host'.marker = host.marker /\ host'.body = host.body
    BY <1>1 DEF BridgeInv, IsHost
<1>3. Ties(bridge, host')
    BY <1>2 DEF BridgeInv, Ties
<1>4. Same(bridge, bridge, {"auto", "latch", "loop", "tree", "compacting"})
    BY DEF Same
<1>5. IsBridge(bridge)
    BY DEF BridgeInv, Sound
<1> QED BY <1>1, <1>2, <1>3, <1>4, <1>5, InertStep

LEMMA BeforeMutationKeeps ==
    ASSUME BridgeInv, NEW kind, BeforeMutation(kind)
    PROVE  BridgeInv' /\ Goes
<1> DEFINE a == Mutating(bridge)
           c == IF kind = "compact" THEN [a EXCEPT !.compacting = TRUE] ELSE [a EXCEPT !.tree = "active"]
<1>1. UNCHANGED <<outbox, branch, aside, arrived, accepted, taken>> /\ held' = held /\ twice' = twice /\ bridge' = c
    BY DEF BeforeMutation
<1>2. IsBridge(PauseWatchdogs(bridge)) /\ Same(bridge, PauseWatchdogs(bridge), {})
    BY WatchdogsAre DEF BridgeInv, Sound
<1>3. IsBridge(a) /\ Same(bridge, a, {"latch"})
    BY <1>2 DEF Mutating, IsBridge, Same, Fields
<1> HIDE DEF a
<1>4. IsBridge(c) /\ Same(bridge, c, {"latch", "compacting", "tree"})
    BY <1>3 DEF IsBridge, Same, Fields
<1> HIDE DEF c
<1>5. /\ Same(bridge, c, {"auto", "latch", "loop", "tree", "compacting"})
      /\ c.auto = bridge.auto
    BY <1>4 DEF Same, Fields
<1>6. host' = [host EXCEPT !.mutating = kind]
    BY DEF BeforeMutation
<1>7. /\ IsHost(host') /\ host'.run = host.run /\ host'.step = host.step
      /\ host'.aborted = host.aborted
      /\ host'.input = host.input /\ host'.marker = host.marker /\ host'.body = host.body
    BY <1>6 DEF BridgeInv, IsHost
<1>8. Ties(bridge, host')
    BY <1>7 DEF BridgeInv, Ties
<1> QED BY <1>1, <1>4, <1>5, <1>7, <1>8, InertStep

\* The entries that are left are on the branch; what has a record keeps its place.
LEMMA PrunedKeeps ==
    ASSUME BridgeInv, NEW entries, NEW b,
           IsBridge(b), Same(Pruned(bridge, outbox, entries), b, {"latch", "tree", "compacting"})
    PROVE  /\ Recorded(b, outbox, arrived, accepted) /\ Awaited(b) /\ Placed(b, outbox, taken, held)
           /\ b.auto = bridge.auto
           /\ \A h : Ties(bridge, h) => Ties(b, h)
           /\ Widens(b, outbox)
<1> DEFINE c == Pruned(bridge, outbox, entries)
           keep == entries \union outbox.stored
<1>1. /\ IsBridge(c)
      /\ Same(bridge, c, {"awaiting", "timedOut", "parked", "projected", "included", "wake", "loop",
                          "ordinals", "old", "canonical"})
      /\ c.awaiting = bridge.awaiting \intersect keep /\ c.timedOut = bridge.timedOut \intersect keep
      /\ c.parked = bridge.parked \intersect keep /\ c.projected = bridge.projected \intersect keep
      /\ c.included = bridge.included \intersect keep /\ c.wake = bridge.wake \intersect keep
      /\ c.ordinals = bridge.ordinals \intersect keep /\ c.old = bridge.old \intersect keep
      /\ c.canonical = bridge.canonical \intersect keep
    <2>1. Prunes(bridge, keep, c)
        BY PrunedIs DEF BridgeInv, Sound
    <2> HIDE DEF c, keep
    <2> QED BY <2>1 DEF Prunes
<1> HIDE DEF c, keep
<1>2. /\ c.pending = bridge.pending /\ c.delivered = bridge.delivered
      /\ c.reconcile = bridge.reconcile /\ c.suspended = bridge.suspended /\ c.esc = bridge.esc
      /\ c.ackFence = bridge.ackFence /\ c.auto = bridge.auto
    BY <1>1 DEF Same, Fields
<1>3. Same(c, b, {"latch", "tree", "compacting"})
    BY DEF c
<1>4. /\ b.pending = c.pending /\ b.awaiting = c.awaiting /\ b.timedOut = c.timedOut
      /\ b.parked = c.parked /\ b.wake = c.wake /\ b.delivered = c.delivered
      /\ b.reconcile = c.reconcile /\ b.projected = c.projected
      /\ b.included = c.included /\ b.suspended = c.suspended
      /\ b.ordinals = c.ordinals /\ b.old = c.old /\ b.esc = c.esc
      /\ b.ackFence = c.ackFence /\ b.auto = c.auto
    BY <1>3 DEF Same, Fields
<1>5. outbox.stored \subseteq keep
    BY DEF keep
<1>6. Recorded(b, outbox, arrived, accepted)
    BY <1>1, <1>2, <1>4 DEF BridgeInv, Sound, Recorded, Uncertain
<1>7. Awaited(b)
    BY <1>1, <1>4 DEF BridgeInv, Sound, Awaited
<1>8. Placed(b, outbox, taken, held)
    BY <1>1, <1>2, <1>4, <1>5 DEF BridgeInv, Sound, Placed
<1>9. ASSUME NEW h, Ties(bridge, h) PROVE Ties(b, h)
    BY <1>1, <1>2, <1>4, <1>9 DEF Ties
<1>10. Widens(b, outbox)
    <2>1. b.canonical = c.canonical
        BY <1>3 DEF Same, Fields
    <2> QED BY <1>1, <1>2, <1>4, <1>5, <2>1 DEF Widens
<1> QED BY <1>2, <1>4, <1>6, <1>7, <1>8, <1>9, <1>10

LEMMA MutationDoneKeeps ==
    ASSUME BridgeInv, NEW kind, NEW entries, MutationDone(kind, entries)
    PROVE  BridgeInv' /\ Goes
<1> DEFINE pruned == [Pruned(bridge, outbox, entries) EXCEPT !.latch = FALSE]
           compacted == ResumeWatchdogs([pruned EXCEPT !.compacting = FALSE, !.mutation = TRUE])
           navigated == ResumeWatchdogs([pruned EXCEPT !.tree = "passive"])
           b == CASE kind = "compact" /\ bridge.compacting -> compacted
                  [] kind = "tree" /\ bridge.tree # "none" -> navigated
                  [] OTHER -> bridge
<1>1. PICK o \in IF b = bridge THEN {Outcome(b)}
                 ELSE Flushed(b, outbox, left.faults, IsIdle(host), FALSE) :
             /\ bridge' = o.bridge /\ outbox' = o.outbox
             /\ branch' = entries \union o.shown
             /\ twice' = twice \union (o.shown \intersect entries)
    BY DEF MutationDone
<1>2. /\ UNCHANGED <<arrived, accepted, taken>> /\ held' = held
      /\ entries \subseteq branch \union aside /\ aside' \subseteq branch \union aside
    BY DEF MutationDone
<1>3. PICK reported : host' = [host EXCEPT !.mutating = "none", !.reported = reported]
    BY DEF MutationDone
<1>4. /\ IsBridge(pruned) /\ Same(Pruned(bridge, outbox, entries), pruned, {"latch"})
      /\ ~pruned.latch
    <2> DEFINE c == Pruned(bridge, outbox, entries)
    <2>1. IsBridge(c)
        BY PrunedIs DEF Prunes, BridgeInv, Sound
    <2> HIDE DEF c
    <2>2. /\ IsBridge([c EXCEPT !.latch = FALSE]) /\ Same(c, [c EXCEPT !.latch = FALSE], {"latch"})
          /\ ~[c EXCEPT !.latch = FALSE].latch
        BY <2>1 DEF IsBridge, Same, Fields
    <2> QED BY <2>2 DEF c
<1> HIDE DEF pruned
<1>5. \A c \in {compacted, navigated} :
         /\ IsBridge(c) /\ Same(pruned, c, {"compacting", "tree"}) /\ ~c.latch
    <2> DEFINE x == [pruned EXCEPT !.compacting = FALSE, !.mutation = TRUE]
               y == [pruned EXCEPT !.tree = "passive"]
    <2> DEFINE Fit(c) == IsBridge(c) /\ Same(pruned, c, {"compacting", "tree"}) /\ ~c.latch
    <2>x. Fit(x)
        BY <1>4 DEF IsBridge, Same, Fields
    <2>y. Fit(y)
        BY <1>4 DEF IsBridge, Same, Fields
    <2> HIDE DEF x, y
    <2>1. \A c \in {x, y} : Fit(c)
        BY <2>x, <2>y
    <2>2. ASSUME NEW c \in {x, y}
          PROVE  /\ IsBridge(ResumeWatchdogs(c)) /\ ~ResumeWatchdogs(c).latch
                 /\ Same(pruned, ResumeWatchdogs(c), {"compacting", "tree"})
        BY <2>1, WatchdogsAre DEF Same, Fields
    <2>3. compacted = ResumeWatchdogs(x) /\ navigated = ResumeWatchdogs(y)
        BY DEF x, y
    <2> HIDE DEF compacted, navigated
    <2> QED BY <2>2, <2>3
<1>6. b \in {compacted, navigated, bridge}
    OBVIOUS
<1> HIDE DEF compacted, navigated, b
<1>7. /\ IsBridge(b)
      /\ \/ b = bridge
         \/ Same(Pruned(bridge, outbox, entries), b, {"latch", "tree", "compacting"}) /\ ~b.latch
    BY <1>4, <1>5, <1>6 DEF Same, BridgeInv, Sound
<1>8. /\ Recorded(b, outbox, arrived, accepted) /\ Awaited(b) /\ Placed(b, outbox, taken, held)
      /\ b.auto = bridge.auto
      /\ \A h : Ties(bridge, h) => Ties(b, h)
      /\ Widens(b, outbox)
    BY <1>7, PrunedKeeps DEF BridgeInv, Sound, Widens
<1>9. Flushes(b, outbox, o)
    <2>1. CASE b = bridge
        BY <1>1, <1>7, <2>1, OutcomeIs DEF BridgeInv, Sound
    <2>2. CASE b # bridge
        BY <1>1, <1>7, <2>2, FlushedIs DEF BridgeInv, Sound
    <2> QED BY <2>1, <2>2
<1>10. entries \union aside' \union taken' \union held' \subseteq arrived'
    BY <1>2 DEF BridgeInv, Sound
<1>11. Sound' /\ Goes
    BY <1>1, <1>2, <1>7, <1>8, <1>9, <1>10, FlushKeeps
<1>12. /\ IsHost(host') /\ host'.run = host.run /\ host'.step = host.step
       /\ host'.aborted = host.aborted
       /\ host'.input = host.input /\ host'.marker = host.marker /\ host'.body = host.body
    BY <1>3 DEF BridgeInv, IsHost
<1>13. Ties(b, host')
    BY <1>8, <1>12 DEF BridgeInv, Ties
<1>14. /\ bridge'.suspended = b.suspended /\ bridge'.esc = b.esc /\ bridge'.ackFence = b.ackFence
       /\ bridge'.included = b.included /\ bridge'.projected = b.projected
    BY <1>1, <1>9 DEF Flushes, Same, Fields
<1>15. Ties(bridge', host')
    BY <1>13, <1>14 DEF Ties
<1> QED BY <1>11, <1>12, <1>15 DEF BridgeInv

\* What is not acknowledged in time is uncertain.
LEMMA AckTimeoutKeeps ==
    ASSUME BridgeInv, NEW d, AckTimeout(d)
    PROVE  BridgeInv' /\ Goes
<1> DEFINE b == [bridge EXCEPT !.watched = @ \ {d}]
           c == [b EXCEPT !.awaiting = @ \ {d}, !.projected = @ \ {d}, !.included = @ \ {d},
                          !.timedOut = @ \union {d}, !.defer = TRUE]
<1>1. /\ UNCHANGED <<aside, arrived, accepted, taken>> /\ held' = held
      /\ IF d \notin b.awaiting \/ Cardinality(Uncertain(b)) >= UncertainLimit
           THEN Take(Outcome(b), host)
           ELSE \E o \in Flushed(c, outbox, left.faults, IsIdle(host), FALSE) : Take(o, host)
    BY DEF AckTimeout
<1>2. IsBridge(b) /\ Same(bridge, b, {})
    BY DEF BridgeInv, Sound, IsBridge, Same, Fields
<1>3. /\ b.pending = bridge.pending /\ b.awaiting = bridge.awaiting /\ b.timedOut = bridge.timedOut
      /\ b.parked = bridge.parked /\ b.wake = bridge.wake /\ b.delivered = bridge.delivered
      /\ b.reconcile = bridge.reconcile /\ b.projected = bridge.projected
      /\ b.included = bridge.included /\ b.suspended = bridge.suspended
      /\ b.ordinals = bridge.ordinals /\ b.old = bridge.old /\ b.esc = bridge.esc
      /\ b.ackFence = bridge.ackFence /\ b.auto = bridge.auto /\ b.latch = bridge.latch
    BY <1>2 DEF Same, Fields
<1> HIDE DEF b
<1>4. /\ IsBridge(c) /\ Same(b, c, {"awaiting", "projected", "included", "timedOut"})
      /\ c.awaiting = b.awaiting \ {d} /\ c.projected = b.projected \ {d}
      /\ c.included = b.included \ {d} /\ c.timedOut = b.timedOut \union {d}
    BY <1>2 DEF IsBridge, Same, Fields
<1> HIDE DEF c
<1>5. /\ c.pending = b.pending /\ c.parked = b.parked /\ c.wake = b.wake
      /\ c.delivered = b.delivered /\ c.reconcile = b.reconcile /\ c.suspended = b.suspended
      /\ c.ordinals = b.ordinals /\ c.old = b.old /\ c.esc = b.esc
      /\ c.ackFence = b.ackFence /\ c.auto = b.auto /\ c.latch = b.latch
    BY <1>4 DEF Same, Fields
<1>6. branch \union aside' \union taken' \union held' \subseteq arrived'
    BY <1>1 DEF BridgeInv, Sound
<1>7. CASE Take(Outcome(b), host)
    <2>1. Recorded(b, outbox, arrived', accepted') /\ Awaited(b) /\ Placed(b, outbox, taken', held')
        BY <1>1, <1>3 DEF BridgeInv, Sound, Recorded, Uncertain, Awaited, Placed
    <2>2. IsHost(host) /\ Ties(b, host)
        BY <1>3 DEF BridgeInv, Ties
    <2>3. Flushes(b, outbox, Outcome(b))
        BY <1>2, OutcomeIs DEF BridgeInv, Sound
    <2>4. Widens(b, outbox)
        BY <1>2 DEF Widens, Same, Fields
    <2> QED BY <1>1, <1>2, <1>3, <1>6, <1>7, <2>1, <2>2, <2>3, <2>4, TakeKeeps
<1>8. ASSUME d \in b.awaiting, NEW o \in Flushed(c, outbox, left.faults, IsIdle(host), FALSE),
             Take(o, host)
      PROVE  BridgeInv' /\ Goes
    <2>1. Recorded(c, outbox, arrived', accepted')
        BY <1>1, <1>3, <1>4, <1>5, <1>8 DEF BridgeInv, Sound, Recorded, Uncertain
    <2>2. Awaited(c)
        BY <1>3, <1>4, <1>5 DEF BridgeInv, Sound, Awaited
    <2>3. Placed(c, outbox, taken', held')
        BY <1>1, <1>3, <1>5 DEF BridgeInv, Sound, Placed
    <2>4. IsHost(host) /\ Ties(c, host)
        BY <1>3, <1>4, <1>5 DEF BridgeInv, Ties
    <2>5. Flushes(c, outbox, o)
        BY <1>4, <1>8, FlushedIs DEF BridgeInv, Sound
    <2>6. Widens(c, outbox)
        <3>1. c.canonical = b.canonical /\ b.canonical = bridge.canonical
            BY <1>2, <1>4 DEF Same, Fields
        <3> QED BY <1>3, <1>5, <3>1 DEF Widens
    <2> QED BY <1>1, <1>3, <1>4, <1>5, <1>6, <1>8, <2>1, <2>2, <2>3, <2>4, <2>5, <2>6, TakeKeeps
<1> QED BY <1>1, <1>7, <1>8

\* What is reconciled has been read.
LEMMA RetryKeeps ==
    ASSUME BridgeInv, RetryFires
    PROVE  BridgeInv' /\ Goes
<1> DEFINE known == bridge.reconcile \intersect Uncertain(bridge)
           mine == {d \in known \intersect outbox.stored : outbox.stamp[d] = bridge.generation}
           B(x) == [bridge EXCEPT !.timedOut = @ \ x, !.parked = @ \ x,
                                  !.delivered = @ \union x, !.reconcile = known \ x,
                                  !.defer = @ /\ (bridge.reconcile = {} \/ (x = {} /\ known # {}))]
           Out(x) == [outbox EXCEPT !.stored = @ \ x]
           cost(x) == Cardinality(mine \ x)
           rest(s) == [s.bridge EXCEPT !.timer = FALSE]
           P(s, x) == [s EXCEPT !.cost = @ + cost(x),
                                !.bridge = ScheduleRetry(rest(s), (known \ x) \union s.failed)]
<1>1. /\ UNCHANGED <<aside, arrived, accepted, taken>> /\ held' = held
      /\ \E done \in SUBSET mine :
         \E o \in Flushed(B(done), Out(done), left.faults - cost(done), IsIdle(host), TRUE) :
            Take(P(o, done), host)
    BY DEF RetryFires
<1>2. PICK done \in SUBSET mine :
         \E o \in Flushed(B(done), Out(done), left.faults - cost(done), IsIdle(host), TRUE) :
            Take(P(o, done), host)
    BY <1>1
<1>3. done \subseteq bridge.reconcile /\ done \subseteq Uncertain(bridge) /\ done \subseteq outbox.stored
    BY <1>2
<1> DEFINE b == B(done)
           out == Out(done)
<1>4. /\ IsBridge(b) /\ Same(bridge, b, {"timedOut", "parked", "delivered", "reconcile"})
      /\ b.timedOut = bridge.timedOut \ done /\ b.parked = bridge.parked \ done
      /\ b.delivered = bridge.delivered \union done /\ b.reconcile \subseteq bridge.reconcile
    BY DEF BridgeInv, Sound, IsBridge, Same, Fields
<1>5. IsOutbox(out) /\ out.stored = outbox.stored \ done
    BY DEF BridgeInv, Sound, IsOutbox
<1> HIDE DEF B, Out, cost, b, out, known, mine
<1>6. PICK o \in Flushed(b, out, left.faults - cost(done), IsIdle(host), TRUE) :
          Take(P(o, done), host)
    BY <1>2 DEF b, out
<1>7. /\ Flushes(b, out, o)
      /\ IsOutcome(o)
    BY <1>4, <1>5, <1>6, FlushedIs
<1> DEFINE p == P(o, done)
<1>8. /\ p.bridge = ScheduleRetry(rest(o), (known \ done) \union o.failed)
      /\ p.outbox = o.outbox /\ p.shown = o.shown /\ Take(p, host)
    BY <1>6, <1>7 DEF IsOutcome
<1> HIDE DEF P, p
<1>9. IsBridge(rest(o)) /\ Same(o.bridge, rest(o), {}) /\ rest(o).wake = o.bridge.wake
    BY <1>7 DEF Flushes, IsBridge, Same, Fields
<1> HIDE DEF rest
<1>10. /\ IsBridge(p.bridge) /\ Same(o.bridge, p.bridge, {"wake"})
       /\ p.bridge.wake \subseteq o.bridge.wake
    <2>1. /\ IsBridge(p.bridge) /\ Same(rest(o), p.bridge, {"wake"})
          /\ p.bridge.wake \subseteq rest(o).wake
        BY <1>8, <1>9, ScheduleRetryIs
    <2> QED BY <1>9, <2>1 DEF Same
<1>11. Flushes(b, out, p)
    BY <1>7, <1>8, <1>10, FlushesLess
<1>12. /\ b.pending = bridge.pending /\ b.awaiting = bridge.awaiting /\ b.wake = bridge.wake
       /\ b.projected = bridge.projected
       /\ b.included = bridge.included /\ b.suspended = bridge.suspended
       /\ b.ordinals = bridge.ordinals /\ b.old = bridge.old /\ b.esc = bridge.esc
       /\ b.ackFence = bridge.ackFence /\ b.auto = bridge.auto /\ b.latch = bridge.latch
    BY <1>4 DEF Same, Fields
<1>13. Recorded(b, out, arrived', accepted')
    <2>1. b.pending \union b.awaiting \union Uncertain(b) \union b.wake \subseteq out.stored \union b.delivered
        BY <1>4, <1>5, <1>12 DEF BridgeInv, Sound, Recorded, Uncertain
    <2>2. /\ out.stored \union b.delivered \subseteq arrived'
          /\ arrived' \ out.stored \subseteq accepted' /\ b.reconcile \subseteq accepted'
        BY <1>1, <1>3, <1>4, <1>5 DEF BridgeInv, Sound, Recorded
    <2> QED BY <2>1, <2>2 DEF Recorded
<1>14. Awaited(b)
    BY <1>4, <1>12 DEF BridgeInv, Sound, Awaited
<1>15. Placed(b, out, taken', held')
    BY <1>1, <1>4, <1>5, <1>12 DEF BridgeInv, Sound, Placed
<1>16. IsHost(host) /\ Ties(b, host)
    BY <1>12 DEF BridgeInv, Ties
<1>17. branch \union aside' \union taken' \union held' \subseteq arrived'
    BY <1>1 DEF BridgeInv, Sound
<1>18. Widens(b, out)
    <2>1. b.canonical = bridge.canonical
        BY <1>4 DEF Same, Fields
    <2> QED BY <1>4, <1>5, <1>12, <2>1 DEF Widens
<1> QED BY <1>1, <1>4, <1>8, <1>11, <1>12, <1>13, <1>14, <1>15, <1>16, <1>17, <1>18, TakeKeeps

\* The host of a session that ends, and of a process that starts.
LEMMA IdleTies ==
    ASSUME NEW b, b.included = {}, b.projected = {}, b.suspended, NEW reported
    PROVE  IsHost(IdleHost(reported)) /\ Ties(b, IdleHost(reported))
BY DEF IdleHost, IsHost, Ties

LEMMA ShutdownKeeps ==
    ASSUME BridgeInv, Shutdown
    PROVE  BridgeInv' /\ Goes
<1>1. /\ bridge' = Suspended(bridge) /\ host' = IdleHost(host.reported)
      /\ UNCHANGED <<outbox, branch, aside, arrived, accepted, taken>> /\ held' = held /\ twice' = twice
    BY DEF Shutdown
<1>2. /\ IsBridge(bridge') /\ bridge'.suspended /\ ~bridge'.auto
      /\ bridge'.delivered = bridge.delivered /\ bridge'.reconcile = bridge.reconcile
      /\ bridge'.awaiting = {} /\ bridge'.timedOut = {} /\ bridge'.parked = {}
      /\ bridge'.included = {} /\ bridge'.projected = {}
      /\ bridge'.pending = bridge.pending
            \union ((bridge.awaiting \union Uncertain(bridge)) \ bridge.delivered)
      /\ bridge'.wake \subseteq bridge.wake \union bridge.awaiting \union Uncertain(bridge)
    BY <1>1, SuspendedIs DEF BridgeInv, Sound
<1>3. Recorded(bridge', outbox, arrived, accepted)
    BY <1>2 DEF BridgeInv, Sound, Recorded, Uncertain
<1>4. Awaited(bridge') /\ Placed(bridge', outbox, taken, held)
    BY <1>2 DEF Awaited, Placed
<1>5. Sound'
    BY <1>1, <1>2, <1>3, <1>4 DEF BridgeInv, Sound
<1>6. left.reloads > 0
    BY DEF Shutdown
<1>7. Shows
    BY <1>1, <1>2, <1>6 DEF Shows, Shown
<1> QED BY <1>1, <1>2, <1>5, <1>7, IdleTies DEF BridgeInv, News, MarkerSent, Goes

\* A flush of a bridge whose deliveries are not all in order yet.
LEMMA FlushedSets ==
    ASSUME NEW b, NEW out, NEW o, Flushes(b, out, o), NEW arr, NEW acc,
           Recorded(b, out, arr, acc), Awaited(b)
    PROVE  Recorded(o.bridge, o.outbox, arr, acc) /\ Awaited(o.bridge) /\ o.shown \subseteq arr
<1>1. /\ o.outbox.stored = out.stored
      /\ o.bridge.delivered = b.delivered /\ o.bridge.timedOut = b.timedOut
      /\ o.bridge.parked = b.parked /\ o.bridge.reconcile = b.reconcile
      /\ o.bridge.projected = b.projected /\ o.bridge.included = b.included
      /\ Uncertain(o.bridge) = Uncertain(b)
    BY DEF Flushes, Same, Fields, Uncertain
<1>2. /\ o.shown \subseteq (b.pending \union out.stored)
                            \ (b.delivered \union b.awaiting \union Uncertain(b) \union b.canonical)
      /\ o.bridge.awaiting = b.awaiting \union o.shown
      /\ o.bridge.pending \subseteq b.pending \union out.stored
      /\ o.bridge.wake \subseteq b.wake \union ((b.pending \union out.stored) \ Uncertain(b))
    BY DEF Flushes
<1>3. Recorded(o.bridge, o.outbox, arr, acc)
    BY <1>1, <1>2 DEF Recorded
<1>4. Awaited(o.bridge)
    BY <1>1, <1>2 DEF Awaited, Uncertain
<1> QED BY <1>2, <1>3, <1>4 DEF Recorded

\* A session starts from what the one before has left, and ranks what it has not seen.
LEMMA SessionStartKeeps ==
    ASSUME BridgeInv, SessionStart
    PROVE  BridgeInv' /\ Goes
<1> DEFINE a == Bound(bridge, outbox)
           q == Replayed(a, outbox)
           b == [q EXCEPT !.suspended = FALSE]
           queue == bridge.pending
                      \union ((bridge.awaiting \union Uncertain(bridge)) \ bridge.delivered)
<1>1. PICK o \in Flushed(b, outbox, left.faults, IsIdle(host), FALSE) : Take(o, host)
    BY DEF SessionStart
<1>2. /\ bridge.suspended /\ UNCHANGED <<aside, arrived, accepted>> /\ taken' = {} /\ held' = {}
    BY DEF SessionStart
<1>3. /\ IsBridge(a)
      /\ a.pending = queue /\ a.reconcile = bridge.reconcile
      /\ a.delivered = bridge.delivered \union (branch \ (queue \union outbox.stored))
      /\ a.awaiting = {} /\ a.timedOut = {} /\ a.parked = {} /\ a.included = {}
      /\ a.projected = {} /\ a.wake = {}
      /\ ~a.ackFence /\ a.esc = "none" /\ ~a.auto /\ ~a.latch
      /\ ~a.compacting /\ a.tree = "none" /\ a.canonical = branch
    <2>1. IsBridge(bridge)
        BY DEF BridgeInv, Sound
    <2>2. Binds(bridge, outbox, a)
        BY <2>1, BoundIs
    <2> HIDE DEF a
    <2> QED BY <2>2 DEF Binds
<1> HIDE DEF a
<1>4. /\ IsBridge(q) /\ Same(a, q, {"ordinals", "wake", "pending"})
      /\ q.pending \subseteq a.pending \union outbox.stored /\ q.wake \subseteq a.wake \union outbox.stored
    BY <1>3, QueuedIs DEF Replayed
<1> HIDE DEF q
<1>5. /\ IsBridge(b) /\ Same(q, b, {"suspended"}) /\ ~b.suspended
      /\ b.pending = q.pending /\ b.wake = q.wake
    BY <1>4 DEF IsBridge, Same, Fields
<1> HIDE DEF b
<1>6. /\ b.awaiting = {} /\ b.timedOut = {} /\ b.parked = {} /\ b.included = {} /\ b.projected = {}
      /\ b.reconcile = bridge.reconcile /\ b.delivered = a.delivered
      /\ ~b.ackFence /\ b.esc = "none" /\ ~b.auto /\ ~b.latch
      /\ ~b.compacting /\ b.tree = "none" /\ b.canonical = branch
    BY <1>3, <1>4, <1>5 DEF Same, Fields
<1>7. queue \subseteq outbox.stored \union bridge.delivered
    BY DEF BridgeInv, Sound, Recorded
<1> HIDE DEF queue
<1>8. Recorded(b, outbox, arrived, accepted)
    BY <1>3, <1>4, <1>5, <1>6, <1>7 DEF BridgeInv, Sound, Recorded, Uncertain
<1>9. Awaited(b)
    BY <1>6 DEF Awaited
<1>10. /\ Flushes(b, outbox, o)
       /\ (b.pending \union outbox.stored)
             \ (b.delivered \union b.awaiting \union Uncertain(b)) \subseteq o.bridge.ordinals
    BY <1>1, <1>5, <1>6, FlushedIs DEF BridgeInv, Sound, CanFlush
<1>11. /\ Recorded(bridge', outbox', arrived', accepted') /\ Awaited(bridge')
       /\ branch' \subseteq arrived'
    BY <1>1, <1>2, <1>8, <1>9, <1>10, FlushedSets DEF Take, BridgeInv, Sound
<1>12. /\ bridge' = o.bridge /\ outbox'.stored = outbox.stored /\ IsOutbox(outbox')
       /\ IsBridge(bridge') /\ bridge'.delivered = b.delivered /\ bridge'.auto = b.auto
    BY <1>1, <1>6, <1>10 DEF Take, Flushes, Same, Fields
<1>13. Placed(bridge', outbox', taken', held')
    BY <1>2, <1>6, <1>10, <1>12 DEF Placed, Uncertain
<1>14. Sound'
    BY <1>2, <1>11, <1>12, <1>13 DEF BridgeInv, Sound
<1>15. IsHost(host) /\ Ties(b, host)
    BY <1>2, <1>5, <1>6 DEF BridgeInv, Ties
<1>16. IsHost(host') /\ Ties(bridge', host')
    <2> DEFINE sent == o.bridge.auto /\ ~bridge.auto
    <2>1. sent => ~b.suspended
        BY <1>5
    <2>2. host' = [host EXCEPT !.marker = @ \/ sent]
        BY <1>1 DEF Take
    <2> HIDE DEF sent
    <2> QED BY <1>10, <1>12, <1>15, <2>1, <2>2, TiesKept
<1>17. Shows
    <2>1. ~bridge'.suspended /\ bridge'.canonical = branch \union o.shown
        BY <1>1, <1>5, <1>6, <1>10 DEF Take, Flushes, Same, Fields
    <2>2. SUFFICES ASSUME Shown PROVE Shown'
        BY DEF Shows
    <2>3. o.shown \intersect branch = {} /\ branch' = branch \union o.shown
        BY <1>1, <1>6, <1>10 DEF Take, Flushes
    <2>4. twice' = twice /\ overlooked' = overlooked \union (aside \ branch)
        BY <1>1, <2>3 DEF Take, SessionStart
    <2> QED BY <1>2, <2>1, <2>2, <2>3, <2>4 DEF Shown
<1> QED BY <1>6, <1>12, <1>14, <1>16, <1>17 DEF BridgeInv, News, MarkerSent, Goes

LEMMA RestartKeeps ==
    ASSUME BridgeInv, Restart
    PROVE  BridgeInv' /\ Goes
<1>1. /\ bridge' = FreshBridge /\ host' = IdleHost(host.reported)
      /\ UNCHANGED <<outbox, branch, aside, arrived, accepted, taken>> /\ held' = held /\ twice' = twice
    BY DEF Restart
<1>2. /\ IsBridge(FreshBridge) /\ FreshBridge.suspended /\ ~FreshBridge.auto
      /\ FreshBridge.delivered = {} /\ FreshBridge.reconcile = {} /\ FreshBridge.pending = {}
      /\ FreshBridge.awaiting = {} /\ FreshBridge.timedOut = {} /\ FreshBridge.parked = {}
      /\ FreshBridge.included = {} /\ FreshBridge.projected = {} /\ FreshBridge.wake = {}
    BY DEF FreshBridge, IsBridge, Fields
<1>3. Sound'
    BY <1>1, <1>2 DEF BridgeInv, Sound, Recorded, Awaited, Placed, Uncertain
<1>4. Shows
    BY <1>1, <1>2 DEF Shows, Shown
<1> QED BY <1>1, <1>2, <1>3, <1>4, IdleTies DEF BridgeInv, News, MarkerSent, Goes

----------------------------------------------------------------------------
(* The theorems. *)

LEMMA InitKeeps ==
    ASSUME BridgeInit
    PROVE  BridgeInv
<1>1. bridge = FreshBridge /\ host = IdleHost(FALSE)
    BY DEF BridgeInit
<1>2. /\ IsBridge(FreshBridge) /\ FreshBridge.suspended
      /\ FreshBridge.delivered = {} /\ FreshBridge.reconcile = {} /\ FreshBridge.pending = {}
      /\ FreshBridge.awaiting = {} /\ FreshBridge.timedOut = {} /\ FreshBridge.parked = {}
      /\ FreshBridge.included = {} /\ FreshBridge.projected = {} /\ FreshBridge.wake = {}
    BY DEF FreshBridge, IsBridge, Fields
<1>3. IsOutbox(outbox) /\ outbox.stored = {}
    BY DEF BridgeInit, IsOutbox
<1>4. Sound
    BY <1>1, <1>2, <1>3 DEF BridgeInit, Sound, Recorded, Awaited, Placed, Uncertain
<1> QED BY <1>1, <1>2, <1>4, IdleTies DEF BridgeInv

LEMMA StepKeeps ==
    ASSUME BridgeInv, [BridgeNext]_bridgeVars
    PROVE  BridgeInv' /\ Goes
<1>1. CASE BridgeNext
    <2>1. ASSUME NEW d \in Deliveries, Arrive(d) PROVE BridgeInv' /\ Goes
        BY <2>1, ArriveKeeps
    <2>2. CASE UserInput \/ InputConsumed \/ MarkerRejected \/ UserRunStarts \/ MarkerStarts
        BY <2>2, PromptKeeps
    <2>3. CASE PromptTimer
        BY <2>3, PromptTimerKeeps
    <2>4. CASE Context
        BY <2>4, ContextKeeps
    <2>5. CASE Request
        BY <2>5, RequestKeeps
    <2>6. CASE Answer
        BY <2>6, AnswerKeeps
    <2>7. CASE AnswerFails
        BY <2>7, AnswerFailsKeeps
    <2>8. CASE RunEnds
        BY <2>8, RunEndsKeeps
    <2>9. CASE Settled
        BY <2>9, SettledKeeps
    <2>10. CASE Escape
        BY <2>10, EscapeKeeps
    <2>11. CASE OutputTool \/ MutationCancelled
        BY <2>11, HostKeeps
    <2>12. ASSUME NEW kind, BeforeMutation(kind) PROVE BridgeInv' /\ Goes
        BY <2>12, BeforeMutationKeeps
    <2>13. ASSUME NEW kind, NEW entries, MutationDone(kind, entries) PROVE BridgeInv' /\ Goes
        BY <2>13, MutationDoneKeeps
    <2>14. ASSUME NEW d, AckTimeout(d) PROVE BridgeInv' /\ Goes
        BY <2>14, AckTimeoutKeeps
    <2>15. CASE RetryFires
        BY <2>15, RetryKeeps
    <2>16. CASE Shutdown
        BY <2>16, ShutdownKeeps
    <2>17. CASE SessionStart
        BY <2>17, SessionStartKeeps
    <2>18. CASE Restart
        BY <2>18, RestartKeeps
    <2> QED BY <1>1, <2>1, <2>2, <2>3, <2>4, <2>5, <2>6, <2>7, <2>8, <2>9, <2>10, <2>11, <2>12,
               <2>13, <2>14, <2>15, <2>16, <2>17, <2>18 DEF BridgeNext
<1>2. CASE UNCHANGED bridgeVars
    <2>1. Sound' /\ host' = host /\ bridge' = bridge
        BY <1>2 DEF bridgeVars, BridgeInv, Sound
    <2>2. Shows
        BY <1>2 DEF bridgeVars, Shows, Shown
    <2> QED BY <2>1, <2>2 DEF BridgeInv, News, MarkerSent, Goes
<1> QED BY <1>1, <1>2

\* The bridge, the outbox and the host agree, whatever goes wrong.
THEOREM BridgeInvariant == BridgeSpec => []BridgeInv
<1>1. BridgeInit => BridgeInv
    BY InitKeeps
<1>2. BridgeInv /\ [BridgeNext]_bridgeVars => BridgeInv'
    BY StepKeeps
<1> QED BY <1>1, <1>2, PTL DEF BridgeSpec

\* A record goes only for what a provider has answered for, or for what the output of its run
\* has stood for (commitWorkflowProviderAssociation, acknowledgeDelivery, discardDelivery).
THEOREM NothingGetsLost == BridgeSpec => []NothingLost
<1>1. BridgeInv => NothingLost
    BY DEF BridgeInv, Sound, Recorded, NothingLost
<1> QED BY <1>1, BridgeInvariant, PTL

\* What is in a request awaits its answer, and what a provider has consumed is neither sent
\* nor woken for again (requeueWorkflowDeliveryAfterPersistenceFailure).
THEOREM RequestsWait == BridgeSpec => []RequestsAwait
<1>1. BridgeInv => RequestsAwait
    BY DEF BridgeInv, Sound, Awaited, RequestsAwait
<1> QED BY <1>1, BridgeInvariant, PTL

\* A marker is for nothing that is read or that the user has interrupted: neither a late
\* answer nor a rejected marker nor a change of the branch brings it back
\* (tryWorkflowWakeAtSafePoint, isFencedFromWake).
THEOREM MarkersAreForNews == BridgeSpec => WakesForNews
<1>1. BridgeInv /\ [BridgeNext]_bridgeVars
        => [MarkerSent => bridge'.loop \intersect (taken \union held) = {}]_bridgeVars
    BY StepKeeps DEF Goes, News
<1> QED BY <1>1, BridgeInvariant, PTL DEF BridgeSpec, WakesForNews

----------------------------------------------------------------------------
(* Nothing is shown twice. *)

\* What a session has overlooked is remembered.
LEMMA Overlooks ==
    ASSUME [BridgeNext]_bridgeVars
    PROVE  overlooked \subseteq overlooked'
<1>1. CASE UNCHANGED bridgeVars
    BY <1>1 DEF bridgeVars
<1>2. CASE SessionStart
    BY <1>2 DEF SessionStart
<1>3. CASE BridgeNext /\ ~SessionStart
    BY <1>3 DEF BridgeNext, Arrive, UserInput, InputConsumed, UserRunStarts, MarkerStarts, RunStarts,
                MarkerRejected, PromptTimer, Context, Request, Answer, AnswerFails, RunEnds, Settled,
                Escape, OutputTool, BeforeMutation, MutationDone, MutationCancelled, AckTimeout,
                RetryFires, Shutdown, Restart
<1> QED BY <1>1, <1>2, <1>3

\* An entry on the branch whose record is there is one that the bridge knows, so no retry,
\* replay, reload or change of the branch shows it again: but for an entry that was on another
\* branch when a session began (sendWorkflowDeliveryToHistory, canonicalHistoryIds).
THEOREM NothingIsShownTwice == BridgeSpec => []ShownOnce
<1> DEFINE Inv == BridgeInv /\ Shown
<1>1. BridgeInit => Inv
    BY InitKeeps DEF BridgeInit, Shown, FreshBridge
<1>2. Inv /\ [BridgeNext]_bridgeVars => Inv'
    BY StepKeeps, Overlooks DEF Goes, Shows
<1>3. Inv => ShownOnce
    BY DEF Shown, ShownOnce
<1> QED BY <1>1, <1>2, <1>3, PTL DEF BridgeSpec
================================================================================
