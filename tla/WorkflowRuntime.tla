---------------------------- MODULE WorkflowRuntime ----------------------------
(***************************************************************************)
(* One run of src/src/workflow.ts and the executions that resume it.  The  *)
(* script is a fan-out: every lane is one item of pipeline() (or one thunk *)
(* of parallel(), if it has one stage) and makes its calls one after the   *)
(* other, each with the result of the one before in its prompt.  A lane    *)
(* may be a nested workflow(), which numbers its calls by itself, and a    *)
(* stage may be a checkpoint() instead of an agent().                      *)
(*                                                                         *)
(* A call takes its index and its place among the store commits when it    *)
(* starts, is replayed or waits for the limiter, runs its attempts on a    *)
(* private copy of the store, and leaves in three microtasks: it returns   *)
(* (and is journaled), gives its slot to the next waiter, and settles its  *)
(* store delta.  Permits and time limits of an attempt: ProviderAttempt.   *)
(***************************************************************************)
EXTENDS StoreData

CONSTANTS
    NumLanes,         \* items of the fan-out
    Stages,           \* calls each lane makes
    Scripts,          \* versions of the script: what it asks in each lane
    Nested,           \* lanes that run in a nested workflow()
    Asks,             \* <<lane, stage>> that are a checkpoint()
    Results,          \* what a provider or a human may answer
    Writes,           \* what the attempts of each lane write into their store
    MaxAgents,        \* maxAgents
    Concurrency,      \* slots of the limiter
    MaxExecutions     \* bound: executions of the run

Lanes == 1..NumLanes
Root == 0

ASSUME RuntimeAssumption ==
    /\ NumLanes \in Nat
    /\ Stages \in [Lanes -> Nat \ {0}]
    /\ Nested \subseteq Lanes
    /\ Concurrency \in Nat \ {0}
    /\ MaxAgents \in Nat
    /\ MaxExecutions \in Nat \ {0}

Frames == {Root} \union Nested
Infinity == MaxAgents + NumLanes + 2

VARIABLES
    execution,      \* number of this execution
    script,         \* the script it runs
    admission,      \* shared.admission
    aborted,        \* isAborted()
    cancelled,      \* batch.cancelled of the fan-out
    escaped,        \* an error is on its way out of the script
    launched,       \* lanes whose first call has been made
    callSeq,        \* state.callSeq of each frame
    firstMiss,      \* state.firstMiss of each frame
    nestedIndex,    \* index of the workflow() call of a nested lane
    agentCount,     \* shared.agentCount
    stage,          \* stage each lane is at
    at,             \* where its call is
    call,           \* the call itself
    queue,          \* queue of the limiter
    orders,         \* shared.storeOrderSequence
    nextOrder,      \* shared.nextStoreOrder
    pending,        \* shared.pendingStoreDeltas
    store,          \* content of the run's SharedStore
    journal,        \* entries the manager keeps
    resumeJournal,  \* options.resumeJournal of each frame
    settled,        \* history: delta of every place that has settled
    served          \* history: <<frame, index, replayed>> of this execution

runtimeVars == <<execution, script, admission, aborted, cancelled, escaped, launched, callSeq,
    firstMiss, nestedIndex, agentCount, stage, at, call, queue, orders, nextOrder,
    pending, store, journal, resumeJournal, settled, served>>

frameVars == <<callSeq, firstMiss, nestedIndex, agentCount, orders, resumeJournal, served>>
commitVars == <<nextOrder, pending, store, settled>>
fateVars == <<execution, script, admission, aborted, cancelled, escaped>>

FrameOf(l) == IF l \in Nested THEN l ELSE Root
NoCall == [index |-> 0, order |-> 0, hash |-> <<>>, result |-> "none",
           delta |-> <<>>]

\* The limiter's `active': calls that hold a slot.
Active == {l \in Lanes : at[l] \in {"running", "returned"}}
InFlight == {l \in Lanes : at[l] \in {"queued", "running", "returned", "left"}}
FanOutDone == launched = NumLanes

RuntimeTypeOK ==
    /\ execution \in 1..MaxExecutions
    /\ script \in Scripts
    /\ admission \in {"open", "closing", "closed"}
    /\ {aborted, cancelled, escaped} \subseteq BOOLEAN
    /\ launched \in 0..NumLanes
    /\ callSeq \in [Frames -> Nat]
    /\ firstMiss \in [Frames -> 0..Infinity]
    /\ stage \in [Lanes -> Nat]
    /\ at \in [Lanes -> {"ready", "asking", "queued", "running", "returned", "left",
                         "settled", "failed"}]
    /\ agentCount \in 0..MaxAgents
    /\ nextOrder \in 0..orders
    /\ DOMAIN pending \subseteq (nextOrder + 1)..(orders - 1)
    /\ store \in Contents

RuntimeInit ==
    /\ execution = 1
    /\ script \in Scripts
    /\ admission = "open"
    /\ aborted = FALSE /\ cancelled = FALSE /\ escaped = FALSE
    /\ launched = 0
    /\ callSeq = [f \in Frames |-> 0]
    /\ firstMiss = [f \in Frames |-> Infinity]
    /\ nestedIndex = [l \in Nested |-> -1]
    /\ agentCount = 0
    /\ stage = [l \in Lanes |-> 1]
    /\ at = [l \in Lanes |-> "ready"]
    /\ call = [l \in Lanes |-> NoCall]
    /\ queue = <<>>
    /\ orders = 0
    /\ nextOrder = 0
    /\ pending = <<>>
    /\ store = EmptyContent
    /\ settled = <<>>
    /\ served = {}
    /\ journal = [f \in Frames |-> <<>>]
    /\ resumeJournal = journal

----------------------------------------------------------------------------
(* Store commits in the order of the calls. *)

With(f, x, y) == [z \in DOMAIN f \union {x} |-> IF z = x THEN y ELSE f[z]]

\* Mutant: deltas go in as they come.
CommitsAsTheyCome(order, delta) ==
    /\ store' = Applied(store, delta).map
    /\ nextOrder' = nextOrder + 1
    /\ pending' = pending
    /\ settled' = With(settled, order, delta)

Ready(waiting, from) ==
    CHOOSE n \in from..(orders + 1) :
        /\ \A m \in from..(n - 1) : m \in DOMAIN waiting
        /\ n \notin DOMAIN waiting

\* A store once the deltas of the places from..to-1 have gone in, one after the other.
AppliedFrom(content, deltas, from, to) ==
    LET after[n \in from..to] ==
            IF n = from THEN content ELSE Applied(after[n - 1], deltas[n - 1]).map
    IN  after[to]

\* settleStoreDelta(): the delta waits for those of all earlier calls.  One that
\* is refused half way is dropped from there and does not hold up the rest.
SettleStoreDelta(order, delta) ==
    LET waiting == With(pending, order, delta)
        next == Ready(waiting, nextOrder)
    IN  /\ store' = AppliedFrom(store, waiting, nextOrder, next)
        /\ nextOrder' = next
        /\ pending' = [n \in DOMAIN waiting \ (nextOrder..(next - 1)) |-> waiting[n]]
        /\ settled' = With(settled, order, delta)

----------------------------------------------------------------------------
(* Starting a call. *)

Input(l) == IF stage[l] = 1 THEN "none" ELSE call[l].result
HashOf(l) == <<script[l], stage[l], Input(l)>>
IsAsk(l) == <<l, stage[l]>> \in Asks

\* First calls are made in one go, lane after lane; later ones when the call
\* before has settled.
MayStart(l) ==
    /\ at[l] = "ready"
    /\ stage[l] <= Stages[l]
    /\ admission = "open"
    /\ ~aborted
    /\ IF stage[l] = 1 THEN launched = l - 1 ELSE FanOutDone

\* Mutant: a nested workflow is always given the journal.
JournalForAll(l) == resumeJournal[l]

\* A nested workflow is given the journal if its parent has not missed before it.
ChildJournal(l) == IF callSeq[Root] < firstMiss[Root] THEN resumeJournal[l] ELSE <<>>

\* workflowImpl(): the nested call takes an index of its parent.
StartNested(l) ==
    /\ MayStart(l)
    /\ l \in Nested
    /\ nestedIndex[l] = -1
    /\ nestedIndex' = [nestedIndex EXCEPT ![l] = callSeq[Root]]
    /\ callSeq' = [callSeq EXCEPT ![Root] = @ + 1]
    /\ resumeJournal' = [resumeJournal EXCEPT ![l] = ChildJournal(l)]
    /\ UNCHANGED <<fateVars, launched, firstMiss, agentCount, stage, at, call, queue, orders,
                   commitVars, journal, served>>

Cached(l) == resumeJournal[FrameOf(l)]

Matches(l, index) == index \in DOMAIN Cached(l) /\ Cached(l)[index].hash = HashOf(l)

\* markResumeMiss(); onResumeMiss() of a nested frame marks the nested call.
Missed(l, index) ==
    [f \in Frames |->
        IF f = FrameOf(l) THEN Min({firstMiss[f], index})
        ELSE IF f = Root /\ index < firstMiss[l] THEN Min({firstMiss[Root], nestedIndex[l]})
        ELSE firstMiss[f]]

Launched(l) == launched' = IF stage[l] = 1 THEN launched + 1 ELSE launched

\* Over the limit of agents the call is turned away: an agent() has taken its index by
\* then, a checkpoint() takes none.
Breach(l) ==
    /\ MayStart(l)
    /\ l \in Nested => nestedIndex[l] # -1
    /\ agentCount >= MaxAgents
    /\ Launched(l)
    /\ callSeq' = IF IsAsk(l) THEN callSeq ELSE [callSeq EXCEPT ![FrameOf(l)] = @ + 1]
    /\ at' = [at EXCEPT ![l] = "failed"]
    /\ cancelled' = TRUE
    /\ escaped' = TRUE
    /\ UNCHANGED <<execution, script, admission, aborted, firstMiss, nestedIndex, agentCount, stage, call,
                   queue, orders, commitVars, journal, resumeJournal, served>>

Started(l, record, replayed) ==
    /\ MayStart(l)
    /\ l \in Nested => nestedIndex[l] # -1
    /\ agentCount < MaxAgents
    /\ agentCount' = agentCount + 1
    /\ Launched(l)
    /\ callSeq' = [callSeq EXCEPT ![FrameOf(l)] = @ + 1]
    /\ call' = [call EXCEPT ![l] = record]
    /\ served' = served \union {[frame |-> FrameOf(l), index |-> record.index, replayed |-> replayed]}
    /\ UNCHANGED <<fateVars, nestedIndex, stage, journal, resumeJournal>>

Serving(l, index) == Matches(l, index) /\ index < firstMiss[FrameOf(l)]

\* A hit: the recorded result, at once; its delta goes through the same queue.
Replay(l) ==
    LET index == callSeq[FrameOf(l)]
        entry == Cached(l)[index]
    IN  /\ Serving(l, index)
        /\ Started(l, [index |-> index, order |-> IF IsAsk(l) THEN 0 ELSE orders, hash |-> HashOf(l),
                       result |-> entry.result, delta |-> entry.delta], TRUE)
        /\ at' = [at EXCEPT ![l] = "settled"]
        /\ IF IsAsk(l)
             THEN UNCHANGED <<orders, commitVars>>
             ELSE orders' = orders + 1 /\ SettleStoreDelta(orders, entry.delta)
        /\ UNCHANGED <<firstMiss, queue>>

\* checkpoint() without an entry: the human, or the declared default, answers.
Ask(l) ==
    LET index == callSeq[FrameOf(l)]
    IN  /\ IsAsk(l)
        /\ ~Serving(l, index)
        /\ Started(l, [NoCall EXCEPT !.index = index, !.hash = HashOf(l)], FALSE)
        /\ at' = [at EXCEPT ![l] = "asking"]
        /\ firstMiss' = IF Matches(l, index) THEN firstMiss ELSE Missed(l, index)
        /\ UNCHANGED <<queue, orders, commitVars>>

\* A live agent(): it has a slot at once or waits for one.
Go(l) ==
    LET index == callSeq[FrameOf(l)]
        free == Cardinality(Active) < Concurrency
    IN  /\ ~IsAsk(l)
        /\ ~Serving(l, index)
        /\ Started(l, [NoCall EXCEPT !.index = index, !.order = orders, !.hash = HashOf(l)], FALSE)
        /\ orders' = orders + 1
        /\ at' = [at EXCEPT ![l] = IF free THEN "running" ELSE "queued"]
        /\ queue' = IF free THEN queue ELSE Append(queue, l)
        /\ firstMiss' = IF Matches(l, index) THEN firstMiss ELSE Missed(l, index)
        /\ UNCHANGED commitVars

----------------------------------------------------------------------------
(* A call that runs. *)

RunsOn(l) == at[l] = "running" /\ FanOutDone /\ admission # "closed"

\* The call returns to the limiter with a result, or throws.
Returns(l, result, delta) ==
    /\ at' = [at EXCEPT ![l] = "returned"]
    /\ call' = [call EXCEPT ![l].result = result, ![l].delta = delta]
    /\ UNCHANGED <<fateVars, launched, frameVars, stage, queue, commitVars>>

Entered(l, result, delta) ==
    LET entry == [hash |-> call[l].hash, result |-> result, delta |-> delta, by |-> execution]
    IN  journal' = [journal EXCEPT ![FrameOf(l)] = With(@, call[l].index, entry)]

\* The result is journaled with the delta of the private store, whose quotas
\* every write has passed.
Finish(l, result) ==
    /\ RunsOn(l)
    /\ ~aborted
    /\ Entered(l, result, Writes[l])
    /\ Returns(l, result, Writes[l])

\* Its attempts are used up on recoverable failures: null.
Exhaust(l) ==
    /\ RunsOn(l)
    /\ ~aborted
    /\ Returns(l, "null", <<>>)
    /\ UNCHANGED journal

\* A failure that is not recoverable, or the abort of the run.
Throw(l) ==
    /\ RunsOn(l)
    /\ Returns(l, "throw", <<>>)
    /\ UNCHANGED journal

\* confirm() answers; the reply is journaled without a delta.
Answer(l, result) ==
    /\ at[l] = "asking"
    /\ FanOutDone
    /\ admission = "open"
    /\ ~aborted
    /\ Entered(l, result, <<>>)
    /\ call' = [call EXCEPT ![l].result = result]
    /\ at' = [at EXCEPT ![l] = "settled"]
    /\ UNCHANGED <<fateVars, launched, frameVars, stage, queue, commitVars>>

\* Mutant: the slot is given back, but nobody is called.
LeaveWithoutHandover(l) ==
    /\ at[l] = "returned"
    /\ FanOutDone
    /\ at' = [at EXCEPT ![l] = "left"]
    /\ UNCHANGED <<fateVars, launched, frameVars, stage, call, queue, commitVars, journal>>

\* The `finally' of the limiter: the slot goes to the next waiter, whose first
\* attempt turns back if its fan-out was cancelled.
Leave(l) ==
    /\ at[l] = "returned"
    /\ FanOutDone
    /\ IF admission = "open" /\ queue # <<>> /\ Cardinality(Active) <= Concurrency
         THEN LET next == Head(queue)
              IN  /\ queue' = Tail(queue)
                  /\ at' = [at EXCEPT ![l] = "left",
                                      ![next] = IF aborted \/ cancelled THEN "returned" ELSE "running"]
                  /\ call' = [call EXCEPT ![next].result = IF aborted \/ cancelled THEN "throw" ELSE @]
         ELSE /\ at' = [at EXCEPT ![l] = "left"]
              /\ UNCHANGED <<queue, call>>
    /\ UNCHANGED <<fateVars, launched, frameVars, stage, commitVars, journal>>

\* The `then' behind the limiter, and the lane that fails with its call.
Settle(l) ==
    /\ at[l] = "left"
    /\ FanOutDone
    /\ SettleStoreDelta(call[l].order, call[l].delta)
    /\ at' = [at EXCEPT ![l] = IF call[l].result = "throw" THEN "failed" ELSE "settled"]
    /\ escaped' = (escaped \/ call[l].result = "throw")
    /\ UNCHANGED <<execution, script, admission, aborted, cancelled, launched, frameVars, stage, call,
                   queue, journal>>

LaneDone(l) == at[l] = "settled" /\ (stage[l] = Stages[l] \/ call[l].result = "null")

\* The lane goes on: its next call will have this result in its prompt.  The script
\* makes no call on null.
Advance(l) ==
    /\ at[l] = "settled"
    /\ FanOutDone
    /\ ~LaneDone(l)
    /\ stage' = [stage EXCEPT ![l] = @ + 1]
    /\ at' = [at EXCEPT ![l] = "ready"]
    /\ UNCHANGED <<fateVars, launched, frameVars, call, queue, commitVars, journal>>

----------------------------------------------------------------------------
(* The end of an execution. *)

\* closeAdmission() and the abort that goes with it: waiters of the limiter are
\* rejected, what runs will throw.
Abort ==
    /\ admission' = "closing"
    /\ aborted' = TRUE
    /\ queue' = <<>>
    /\ at' = [l \in Lanes |-> IF at[l] = "queued" THEN "left" ELSE at[l]]
    /\ call' = [l \in Lanes |-> IF at[l] = "queued" THEN [call[l] EXCEPT !.result = "throw"] ELSE call[l]]
    /\ UNCHANGED <<execution, script, cancelled, escaped, launched, frameVars, stage, commitVars, journal>>

\* pause() and stop() of the manager.
Interrupt ==
    /\ FanOutDone
    /\ admission = "open"
    /\ Abort

\* An error nothing caught has left the script.
Escape ==
    /\ FanOutDone
    /\ admission = "open"
    /\ escaped
    /\ Abort

\* The script returns, when every lane has.
Complete ==
    /\ admission = "open"
    /\ ~escaped
    /\ \A l \in Lanes : LaneDone(l)
    /\ admission' = "closing"
    /\ UNCHANGED <<execution, script, aborted, cancelled, escaped, launched, frameVars, stage, at, call,
                   queue, commitVars, journal>>

\* The drain: nothing is in flight any more.
Drained ==
    /\ admission = "closing"
    /\ InFlight = {}
    /\ admission' = "closed"
    /\ UNCHANGED <<execution, script, aborted, cancelled, escaped, launched, frameVars, stage, at, call,
                   queue, commitVars, journal>>

\* resume() of a run that was interrupted or failed: everything anew but the journal,
\* and perhaps with an edited script.
Resume ==
    /\ admission = "closed"
    /\ aborted
    /\ execution < MaxExecutions
    /\ execution' = execution + 1
    /\ script' \in Scripts
    /\ admission' = "open"
    /\ aborted' = FALSE /\ cancelled' = FALSE /\ escaped' = FALSE
    /\ launched' = 0
    /\ callSeq' = [f \in Frames |-> 0]
    /\ firstMiss' = [f \in Frames |-> Infinity]
    /\ nestedIndex' = [l \in Nested |-> -1]
    /\ agentCount' = 0
    /\ stage' = [l \in Lanes |-> 1]
    /\ at' = [l \in Lanes |-> "ready"]
    /\ call' = [l \in Lanes |-> NoCall]
    /\ queue' = <<>>
    /\ orders' = 0
    /\ nextOrder' = 0
    /\ pending' = <<>>
    /\ store' = EmptyContent
    /\ settled' = <<>>
    /\ served' = {}
    /\ resumeJournal' = journal
    /\ UNCHANGED journal

LaneStep(l) ==
    \/ StartNested(l)
    \/ Replay(l)
    \/ Ask(l)
    \/ Go(l)
    \/ Breach(l)
    \/ \E r \in Results : Finish(l, r)
    \/ Exhaust(l)
    \/ Throw(l)
    \/ \E r \in Results : Answer(l, r)
    \/ Leave(l)
    \/ Settle(l)
    \/ Advance(l)

RuntimeNext ==
    \/ \E l \in Lanes : LaneStep(l)
    \/ Interrupt
    \/ Escape
    \/ Complete
    \/ Drained
    \/ Resume

\* While a promise can settle or a microtask can run, one does; nothing is said of
\* which, and a provider or a human may be the last to answer.
RuntimeProgress == (\E l \in Lanes : LaneStep(l)) \/ Escape \/ Complete \/ Drained
RuntimeFairness == WF_runtimeVars(RuntimeProgress)

RuntimeSpec == RuntimeInit /\ [][RuntimeNext]_runtimeVars /\ RuntimeFairness

----------------------------------------------------------------------------
(* Properties. *)

\* The store is what the deltas make of it one after the other, in the order in which
\* the calls were made and not in that of their answers, live and replayed ones alike;
\* a call that failed leaves nothing (settleStoreDelta).  When an execution is over,
\* nothing that has settled still waits for its turn.
StoreFollowsCallOrder ==
    /\ admission = "closed" => DOMAIN pending = {}
    /\ DOMAIN settled = 0..(nextOrder - 1) \union DOMAIN pending
    /\ store = AppliedFrom(EmptyContent, settled, 0, nextOrder)

\* No slot of the limiter is idle while a call waits, and none is given twice
\* (createLimiter): also when waiters turn back at once.
SlotsInUse ==
    /\ Cardinality(Active) <= Concurrency
    /\ queue # <<>> => Cardinality(Active) = Concurrency
    /\ ToSet(queue) = {l \in Lanes : at[l] = "queued"}
    /\ Len(queue) = Cardinality(ToSet(queue))

\* A replayed call is one of an unbroken prefix: every call before it in its frame
\* was replayed, and so was every call of the parent before its nested workflow
\* (`once any call misses, it AND everything after it run live').
ReplaysPrefix ==
    \A c \in served : c.replayed =>
        \A d \in served :
            (\/ d.frame = c.frame /\ d.index < c.index
             \/ d.frame = Root /\ c.frame \in Nested /\ d.index < nestedIndex[c.frame])
              => d.replayed

\* A replayed result is no older than those of the calls before it: `an edited upstream
\* call never leaves stale downstream results served from the journal'.
NoStaleReplay ==
    \A c \in served : c.replayed =>
        \A i \in DOMAIN resumeJournal[c.frame] : i < c.index =>
            resumeJournal[c.frame][i].by <= resumeJournal[c.frame][c.index].by

\* Every execution comes to its end, however calls wait for slots.
ExecutionsEnd == (admission = "open" /\ ~aborted) ~> (admission = "closed")
=============================================================================
