------------------------------- MODULE RunOutputs -------------------------------
(* What a background run tells the session it belongs to, and the session tells   *)
(* it: the results of its agents, which reach the session by a notification       *)
(* (admitAgentDelivery() and the outbox, workflow-manager.ts) or by the tool      *)
(* get_workflow_output (workflow-control-tool.ts, workflow-agent-output-source.ts) *)
(* - the tool may wait for them -, the room in the outbox, and the steering        *)
(* messages that wait for the next agent.                                         *)
(*                                                                                *)
(* Everything between two awaits is one step, so an event reaches a waiting tool  *)
(* within the step that emits it.  The bridge is one step that shows a record;    *)
(* DeliveryBridge looks inside.  The process does not die: the cursor and the     *)
(* managed run are its memory.  A result is a number; 0 is none.                  *)
EXTENDS Naturals, FiniteSets

CONSTANTS
    OutCalls,      \* calls of agent(), in every generation the same
    MaxOutbox,     \* MAX_PENDING_DELIVERIES_PER_RUN
    MaxPerWait,    \* MAX_AGENT_OUTPUTS_PER_WAIT
    MaxSteering,   \* messages that wait for one run
    MaxResults, MaxOutGens, MaxDelivered, MaxOutFaults  \* bounds

ASSUME OutputAssumption ==
    /\ IsFiniteSet(OutCalls)
    /\ MaxOutbox \in Nat /\ MaxOutbox > 2
    /\ MaxPerWait \in Nat \ {0}
    /\ MaxResults \in Nat

VARIABLES
    run,        \* the ManagedRun: status, generation, executeRun() is over, aborted
    agents,     \* the agents of its snapshot
    journal,    \* its journal: the result of each call
    replay,     \* the journal resume() began with
    outbox,     \* deliveryOutbox: ID, what it reports, for which call
    nextId,     \* nextDeliverySequence
    disk,       \* the record that was written last
    silent,     \* the record does not have the end, the pause or the stop that came
    cursor,     \* results claimed by the notification or the tool
    shown,      \* delivery IDs the bridge has shown
    handed,     \* how often each result has reached the session
    overtaken,  \* results whose call still had the record of an earlier result
    tool,       \* get_workflow_output
    steering,   \* pendingMessages of the run
    senders,    \* activeAgentSenders: the calls that can be steered at once
    made, explicits, outFaults

runVars == <<run, agents, journal, replay>>
boxVars == <<outbox, nextId>>
toldVars == <<cursor, shown, handed, overtaken>>
steerVars == <<steering, senders>>
boundVars == <<made, explicits>>
outputVars == <<runVars, boxVars, disk, silent, toldVars, tool, steerVars, boundVars, outFaults>>

OutResults == 1 .. MaxResults
NoAgents == [c \in OutCalls |-> [at |-> "none", out |-> 0]]
NoResults == [c \in OutCalls |-> 0]
Idling == [at |-> "idle", why |-> "none"]

OutputInit ==
    /\ run = [status |-> "running", gen |-> 1, over |-> FALSE, aborting |-> FALSE]
    /\ agents = NoAgents
    /\ journal = NoResults /\ replay = NoResults
    /\ outbox = {} /\ nextId = 0
    /\ disk = [status |-> "running", journal |-> NoResults, outbox |-> {}, nextId |-> 0]
    /\ silent = FALSE
    /\ cursor = {} /\ shown = {} /\ overtaken = {}
    /\ handed = [r \in OutResults |-> 0]
    /\ tool = Idling
    /\ steering = 0 /\ senders = {}
    /\ made = 0 /\ explicits = 0 /\ outFaults = 0

--------------------------------------------------------------------------------
Finals == {"completed", "failed", "aborted"}
OutFault(n) == outFaults + n =< MaxOutFaults /\ outFaults' = outFaults + n
NoOutFault == UNCHANGED outFaults

\* persistRunStrict(): the whole of the managed run, after this step.
WritesRun ==
    disk' = [status |-> run'.status, journal |-> journal', outbox |-> outbox', nextId |-> nextId']
Strict == WritesRun /\ NoOutFault
StrictFails == UNCHANGED disk /\ OutFault(1)

WokenTool(why) == IF tool.at = "waiting" THEN [at |-> "woken", why |-> why] ELSE tool
Emit(why) == tool' = WokenTool(why)

Entry(kind, call, out) == [id |-> nextId, kind |-> kind, call |-> call, out |-> out]
Pushes(kind, call, out) == outbox' = outbox \cup {Entry(kind, call, out)} /\ nextId' = nextId + 1

--------------------------------------------------------------------------------
(* Agents.                                                                        *)

\* A call takes the messages that wait.  It replays, unless there are any, or runs.
AgentStarts(c) ==
    /\ run.status = "running" /\ ~run.aborting /\ agents[c].at = "none"
    /\ steering' = 0
    /\ \/ /\ replay[c] # 0 /\ steering = 0
          /\ agents' = [agents EXCEPT ![c] = [at |-> "done", out |-> replay[c]]]
          /\ Emit("agent")
       \/ agents' = [agents EXCEPT ![c].at = "running"] /\ UNCHANGED tool
    /\ UNCHANGED <<run, journal, replay, boxVars, disk, silent, toldVars, senders, boundVars, outFaults>>

SessionOpens(c) ==
    /\ run.status = "running" /\ agents[c].at = "running"
    /\ senders' = senders \cup {c}
    /\ UNCHANGED <<runVars, boxVars, disk, silent, toldVars, tool, steering, boundVars, outFaults>>

SessionCloses(c) ==
    /\ senders' = senders \ {c}
    /\ senders' # senders
    /\ UNCHANGED <<runVars, boxVars, disk, silent, toldVars, tool, steering, boundVars, outFaults>>

Reports(c) == {d \in outbox : d.kind = "agent" /\ d.call = c}

\* Mutant: the notification goes out, and the tool may have the result too.
NotifiesUnclaimed(c, r) ==
    /\ Reports(c) = {} /\ Cardinality(outbox) < MaxOutbox - 2
    /\ Pushes("agent", c, r)
    /\ Emit("delivery")
    /\ UNCHANGED <<cursor, overtaken>>

\* Mutant: the reserve for the end of the run is given away.
AdmitsToTheLast(c, r) ==
    /\ cursor' = cursor \cup {r}
    /\ IF Reports(c) # {}
       THEN overtaken' = overtaken \cup {r} /\ Emit("agent") /\ UNCHANGED boxVars
       ELSE /\ Cardinality(outbox) < MaxOutbox
            /\ Pushes("agent", c, r)
            /\ Emit("delivery")
            /\ UNCHANGED overtaken

\* deliverAgentReport(): the record is durable, then the result is claimed.  A record of
\* the call that is still there is taken for this result's.
Notifies(c, r) ==
    /\ cursor' = cursor \cup {r}
    /\ IF Reports(c) # {}
       THEN overtaken' = overtaken \cup {r} /\ Emit("agent") /\ UNCHANGED boxVars
       ELSE /\ Cardinality(outbox) < MaxOutbox - 2
            /\ Pushes("agent", c, r)
            /\ Emit("delivery")
            /\ UNCHANGED overtaken

\* Mutant: a result is claimed for a notification that could not be admitted.
ClaimsAnyway(r) ==
    cursor' = cursor \cup {r} /\ Emit("agent") /\ UNCHANGED <<boxVars, overtaken>>

\* No notification: the setting is off, the outbox full or the write failed.
StaysClaimable(r) ==
    Emit("agent") /\ UNCHANGED <<boxVars, cursor, overtaken>>

\* The journal, the report, then the event `agentEnd'.  An error is not journaled.
AgentEnds(c) ==
    /\ agents[c].at = "running" /\ ~run.aborting /\ ~run.over
    /\ UNCHANGED <<run, replay, silent, shown, handed, steering, explicits>>
    /\ made < MaxResults /\ made' = made + 1
    /\ agents' = [agents EXCEPT ![c] = [at |-> "done", out |-> made']]
    /\ journal' \in {journal, [journal EXCEPT ![c] = made']}
    /\ senders' = senders \ {c}
    /\ \/ /\ Notifies(c, made')
          /\ IF boxVars' = boxVars THEN UNCHANGED disk /\ NoOutFault ELSE Strict
       \/ /\ StaysClaimable(made')
          /\ UNCHANGED disk
          /\ \/ NoOutFault
             \/ Reports(c) = {} /\ OutFault(1)

\* deliver() of the script.
Delivers ==
    /\ run.status = "running" /\ explicits < MaxDelivered
    /\ UNCHANGED <<runVars, silent, toldVars, steerVars, made>>
    /\ explicits' = explicits + 1
    /\ Cardinality(outbox) < MaxOutbox - 2
    /\ \/ Pushes("explicit", "none", 0) /\ Strict /\ Emit("delivery")
       \/ UNCHANGED <<boxVars, tool>> /\ StrictFails

\* The throttled write of progress.
ProgressWritten ==
    /\ ~run.over
    /\ UNCHANGED <<runVars, boxVars, silent, toldVars, tool, steerVars, boundVars>>
    /\ Strict \/ StrictFails

--------------------------------------------------------------------------------
(* The bridge: a record is marked as submitted and shown, and goes once it is read. *)

Hand(R) == handed' = [r \in OutResults |-> IF r \in R THEN handed[r] + 1 ELSE handed[r]]

Show(d) ==
    /\ d \in disk.outbox \/ d.kind = "terminal"    \* what an event named or a replay finds
    /\ d.id \notin shown
    /\ shown' = shown \cup {d.id}
    /\ Hand({d.out} \ {0})
    /\ UNCHANGED <<runVars, boxVars, silent, cursor, overtaken, tool, steerVars, boundVars>>
    /\ Strict

AcknowledgeDelivery(d) ==
    /\ d.id \in shown
    /\ UNCHANGED <<runVars, nextId, silent, toldVars, tool, steerVars, boundVars>>
    /\ \/ outbox' = outbox \ {d} /\ Strict
       \/ UNCHANGED outbox /\ StrictFails

--------------------------------------------------------------------------------
(* The tool.                                                                      *)

Unclaimed == {agents[c].out : c \in {c \in OutCalls : agents[c].at = "done"}} \ cursor
Batch(T) ==
    /\ T \subseteq Unclaimed
    /\ Cardinality(T) = IF Cardinality(Unclaimed) < MaxPerWait THEN Cardinality(Unclaimed) ELSE MaxPerWait
ClaimAgentOutputs ==
    \E T \in SUBSET Unclaimed : Batch(T) /\ cursor' = cursor \cup T /\ Hand(T)

\* What is there is returned at once; records that wait for the session end the wait
\* before it begins.
CallTool ==
    /\ tool.at = "idle" /\ disk.status = "running"
    /\ IF Unclaimed # {}
       THEN ClaimAgentOutputs /\ UNCHANGED tool
       ELSE /\ ~\E d \in disk.outbox : d.kind \in {"agent", "explicit"}
            /\ tool' = [at |-> "waiting", why |-> "none"]
            /\ UNCHANGED <<cursor, handed>>
    /\ UNCHANGED <<runVars, boxVars, disk, silent, shown, overtaken, steerVars, boundVars, outFaults>>

\* Esc, or input of the user.
LeaveTool ==
    /\ tool.at # "idle"
    /\ tool' = Idling
    /\ UNCHANGED <<runVars, boxVars, disk, silent, toldVars, steerVars, boundVars, outFaults>>

\* The tool reads the record again.  A run that has just ended is given one more turn.
ToolGoesOn ==
    /\ tool.at = "woken"
    /\ tool' = IF disk.status = "running" /\ tool.why = "agent" THEN [tool EXCEPT !.at = "turn"]
                                                              ELSE Idling
    /\ UNCHANGED <<runVars, boxVars, disk, silent, toldVars, steerVars, boundVars, outFaults>>

ToolClaims ==
    /\ tool.at = "turn"
    /\ tool' = Idling
    /\ IF disk.status = "running" THEN ClaimAgentOutputs ELSE UNCHANGED <<cursor, handed>>
    /\ UNCHANGED <<runVars, boxVars, disk, silent, shown, overtaken, steerVars, boundVars, outFaults>>

--------------------------------------------------------------------------------
(* Steering, and the life of the run.                                              *)

EnqueueUserMessage ==
    /\ run.status = "running" /\ steering < MaxSteering
    /\ steering' = steering + 1
    /\ UNCHANGED <<runVars, boxVars, disk, silent, toldVars, tool, senders, boundVars, outFaults>>

\* cleanupSettledGeneration().
CleanupGeneration(status) == steering' = 0 /\ senders' = {}

Turns(status) ==
    /\ run' = [run EXCEPT !.status = status, !.over = TRUE]
    /\ agents' = [c \in OutCalls |-> IF agents[c].at = "running" THEN [at |-> "gone", out |-> 0]
                                                                ELSE agents[c]]
    /\ CleanupGeneration(status)
    /\ UNCHANGED <<journal, replay>>

\* ensureTerminalDelivery() keeps the record it finds.
Terminals == {d \in outbox : d.kind = "terminal"}
EnsureTerminal == IF Terminals # {} THEN UNCHANGED boxVars ELSE Pushes("terminal", "none", 0)

\* The record of a completion that could not be written gives way to one of the failure.
ReplaceTerminal ==
    LET id == IF Terminals = {} THEN nextId + 1 ELSE nextId
    IN  /\ outbox' = (outbox \ Terminals) \cup {[Entry("terminal", "none", 0) EXCEPT !.id = id]}
        /\ nextId' = id + 1

Executes == ~run.over /\ run.status = "running" /\ ~run.aborting

CallsReturned == \A c \in OutCalls : agents[c].at # "running"

Completes ==
    /\ Executes /\ CallsReturned
    /\ Turns("completed") /\ EnsureTerminal
    /\ Strict
    /\ Emit("ready")
    /\ UNCHANGED <<silent, toldVars, boundVars>>

\* Mutant: the end is announced only when its first write went through.
AnnouncesDurably(failing) == tool' = IF failing = 0 THEN WokenTool("ready") ELSE tool

AnnouncesFailure(failing) == Emit("ready")

\* The script fails, or it has returned and its completion could not be written: the
\* failure is written twice.
Fails ==
    /\ Executes
    /\ \E unwritten \in BOOLEAN, failing \in 0 .. 2 :
          /\ Turns("failed")
          /\ IF unwritten THEN CallsReturned /\ ReplaceTerminal ELSE EnsureTerminal
          /\ IF failing < 2 THEN WritesRun ELSE UNCHANGED disk
          /\ OutFault(IF unwritten THEN failing + 1 ELSE failing)
          /\ AnnouncesFailure(failing)
          /\ silent' = (silent \/ failing > 1)
    /\ UNCHANGED <<toldVars, boundVars>>

\* A usage limit: the pause is announced once it is written.
PausesForLimit ==
    /\ Executes
    /\ Turns("paused")
    /\ IF Cardinality(outbox) < MaxOutbox - 1 THEN Pushes("paused", "none", 0) ELSE UNCHANGED boxVars
    /\ \/ Strict /\ Emit("ready") /\ UNCHANGED silent
       \/ StrictFails /\ silent' = TRUE /\ UNCHANGED tool
    /\ UNCHANGED <<toldVars, boundVars>>

\* pause() and stop(), of which the second may follow the first.
Halts(status) ==
    /\ run' = [run EXCEPT !.status = status, !.aborting = TRUE]
    /\ UNCHANGED <<agents, journal, replay, boxVars, toldVars, boundVars>>
    /\ \/ Strict /\ Emit("ready") /\ UNCHANGED silent
       \/ StrictFails /\ silent' = TRUE /\ UNCHANGED tool

PauseRun == run.status = "running" /\ Halts("paused") /\ UNCHANGED steerVars

StopRun ==
    /\ run.status \in {"running", "paused"}
    /\ Halts("aborted")
    /\ IF run.over THEN CleanupGeneration("aborted") ELSE UNCHANGED steerVars

\* The tail of executeRun() after pause() or stop(), which are taken to have told; or
\* after an abort that nobody has told of.
Unwinds ==
    /\ run.aborting /\ ~run.over
    /\ UNCHANGED <<boxVars, toldVars, boundVars>>
    /\ \/ /\ run.status # "running"
          /\ Turns(run.status)
          /\ UNCHANGED <<silent, tool>>
          /\ Strict \/ StrictFails
       \/ /\ run.status = "running"
          /\ Turns("aborted")
          /\ Emit("ready")
          /\ \/ Strict /\ UNCHANGED silent
             \/ StrictFails /\ silent' = TRUE

DeletesRun ==
    /\ run.status # "deleted"
    /\ run' = [run EXCEPT !.status = "deleted", !.over = TRUE, !.aborting = TRUE]
    /\ disk' = [disk EXCEPT !.status = "deleted", !.outbox = {}]
    /\ outbox' = {}
    /\ steering' = 0 /\ senders' = {}
    /\ Emit("ready")
    /\ UNCHANGED <<agents, journal, replay, nextId, silent, toldVars, boundVars, outFaults>>

\* deleteRun() aborts before it knows whether the record may go: a deletion that is refused
\* leaves a run that ends by itself.
DeletionRefused ==
    /\ Executes
    /\ run' = [run EXCEPT !.aborting = TRUE]
    /\ UNCHANGED <<agents, journal, replay, boxVars, disk, silent, toldVars, tool, steerVars, boundVars, outFaults>>

\* resume() from the record.
Resumes ==
    /\ run.over /\ run.status \in {"paused", "failed"} /\ disk.status \in {"running", "paused", "failed"}
    /\ run.gen < MaxOutGens
    /\ run' = [status |-> "running", gen |-> run.gen + 1, over |-> FALSE, aborting |-> FALSE]
    /\ agents' = NoAgents
    /\ journal' = disk.journal /\ replay' \in {disk.journal, NoResults}
    /\ outbox' = disk.outbox /\ nextId' = disk.nextId
    /\ silent' = FALSE
    /\ Strict
    /\ UNCHANGED <<toldVars, tool, steerVars, boundVars>>

OutputNext ==
    \/ \E c \in OutCalls : AgentStarts(c) \/ AgentEnds(c) \/ SessionOpens(c) \/ SessionCloses(c)
    \/ \E d \in outbox : Show(d) \/ AcknowledgeDelivery(d)
    \/ Delivers \/ EnqueueUserMessage \/ ProgressWritten
    \/ CallTool \/ LeaveTool \/ ToolGoesOn \/ ToolClaims
    \/ Completes \/ Fails \/ PausesForLimit \/ PauseRun \/ StopRun \/ Unwinds
    \/ DeletesRun \/ DeletionRefused \/ Resumes

OutputSpec == OutputInit /\ [][OutputNext]_outputVars

--------------------------------------------------------------------------------
(* The session never gets one result twice: not by the notification and by the    *)
(* tool, whatever comes first, nor again when a resumed run replays it.           *)
EachResultOnce == \A r \in OutResults : handed[r] =< 1

(* While its run goes on, a result that is claimed has reached the session or is  *)
(* in the outbox to be shown: none is claimed for a notification that the outbox, *)
(* the disk or the settings kept from being sent.  (What a call made that still   *)
(* has the record of an earlier result is excepted.)                              *)
ResultsStayReachable ==
    Executes =>
        \A c \in OutCalls : agents[c].at = "done" =>
            LET r == agents[c].out
            IN  \/ handed[r] > 0 \/ r \notin cursor \/ r \in overtaken
                \/ \E d \in outbox : d.out = r /\ d.id \notin shown

(* The outbox never grows past what a record may hold: explicit deliveries and    *)
(* reports of agents, pauses of several generations and the end find room.        *)
OutboxFits == Cardinality(outbox) =< MaxOutbox

(* No tool waits for a run that the record says has ended or is paused, unless    *)
(* the end, the pause or the stop could not be written when it came.              *)
WaitsAreReleased == tool.at = "waiting" /\ disk.status # "running" => silent

(* A generation that is over leaves neither messages for a next agent nor a       *)
(* sender of a session behind.                                                    *)
NothingLingers == run.over => steering = 0 /\ senders = {}
================================================================================
