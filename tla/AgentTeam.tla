------------------------------- MODULE AgentTeam -------------------------------
(***************************************************************************)
(* One Agent Team of a run: WorkflowAgentTeam (src/src/agent-team.ts), the *)
(* run-wide quotas and agent slots around it, and what agentImpl does to   *)
(* it during the attempts of a member's calls (src/src/workflow.ts).       *)
(*                                                                         *)
(* A member is a logical identity that several calls of agent() may use,   *)
(* one after the other or at once (spawn() with a memberId again), and     *)
(* each call makes several attempts.  Every attempt takes the next         *)
(* generation of its member, and the team listens to the last one only.    *)
(* A timed-out attempt leaves a session behind that ends in its own time.  *)
(*                                                                         *)
(* Message texts, labels and roles are left out: an inbox is the number of *)
(* messages in it.  A generated member ID is an element of Members nobody  *)
(* asked for.                                                              *)
(***************************************************************************)
EXTENDS Integers, Counting, Sequences, Functions

CONSTANTS
    Members,            \* member IDs of the run
    Foreign,            \* those registered with another team of the run
    Tasks,              \* task IDs of this team
    TeamCalls,          \* calls of agent() that spawn() makes
    Tries,              \* retries + 1 of each call
    MaxMembers,         \* members of one team
    MaxMembersPerRun,
    MaxTasksPerRun,
    MaxMessages,        \* messages waiting in one team
    MaxMessagesPerRun,
    InboxLimit,         \* messages waiting for one member
    MaxAgents,          \* agents of the run
    Nobody

ASSUME TeamAssumption ==
    /\ IsFiniteSet(Members) /\ IsFiniteSet(Tasks) /\ IsFiniteSet(TeamCalls)
    /\ Foreign \subseteq Members
    /\ Nobody \notin Members \cup TeamCalls
    /\ Tries \in [TeamCalls -> Nat \ {0}]
    /\ {MaxMembers, MaxMembersPerRun, MaxTasksPerRun, MaxMessages,
        MaxMessagesPerRun, InboxLimit, MaxAgents} \subseteq Nat \ {0}
    /\ Cardinality(Foreign) =< MaxMembersPerRun

VARIABLES
    status,         \* of each member, "absent" before it is registered
    gen,            \* attemptGen of each member
    inbox,          \* messages waiting for each member
    inboxWaiters,   \* waitForInbox() calls of each member, in order
    messageCount,
    board,          \* the tasks: status, assignee and the call that claimed it
    quota,          \* what SharedRuntime has reserved, run-wide
    agentCount,
    batches,        \* unsettled spawn() batches and their slot reservations
    calls,          \* the calls of agent() for members
    sessions,       \* provider sessions of attempts, live or left behind
    admitting,      \* SharedRuntime.admission = "open"
    abortedRun      \* isAborted()

rosterVars == <<status, gen>>
mailVars == <<inbox, inboxWaiters, messageCount>>
slotVars == <<agentCount, batches>>
lifeVars == <<admitting, abortedRun>>
teamVars == <<rosterVars, mailVars, board, quota, slotVars, calls, sessions, lifeVars>>

Quotas == {"members", "tasks", "messages", "slots"}
SessionRecord == [call: TeamCalls, try: Nat, gen: Nat, ready: BOOLEAN, stopped: BOOLEAN]

TeamTypeOK ==
    /\ status \in [Members -> {"absent", "registered", "running", "done", "failed", "aborted"}]
    /\ gen \in [Members -> Nat]
    /\ inbox \in [Members -> Nat]
    /\ inboxWaiters \in [Members -> Seq([call: TeamCalls, gen: Nat])]
    /\ messageCount \in Nat
    /\ board \in [Tasks -> [status: {"absent", "pending", "claimed", "completed"},
                            assignee: Members \cup {Nobody}, by: TeamCalls \cup {Nobody}]]
    /\ quota \in [Quotas -> Nat]
    /\ agentCount \in Nat
    /\ \A b \in batches : b \in [calls: SUBSET TeamCalls, left: Nat]
    /\ calls \in [TeamCalls -> [at: {"idle", "queued", "begun", "live", "returned",
                                     "done", "failed", "rejected", "aborted"},
                                member: Members \cup {Nobody}, try: Nat, gen: Nat]]
    /\ sessions \in SUBSET SessionRecord
    /\ admitting \in BOOLEAN /\ abortedRun \in BOOLEAN

TeamInit ==
    /\ status = [m \in Members |-> "absent"]
    /\ gen = [m \in Members |-> 0]
    /\ inbox = [m \in Members |-> 0]
    /\ inboxWaiters = [m \in Members |-> <<>>]
    /\ messageCount = 0
    /\ board = [t \in Tasks |-> [status |-> "absent", assignee |-> Nobody, by |-> Nobody]]
    /\ quota = [q \in Quotas |-> IF q = "members" THEN Cardinality(Foreign) ELSE 0]
    /\ agentCount = 0
    /\ batches = {}
    /\ calls = [c \in TeamCalls |-> [at |-> "idle", member |-> Nobody, try |-> 0, gen |-> 0]]
    /\ sessions = {}
    /\ admitting = TRUE
    /\ abortedRun = FALSE

----------------------------------------------------------------------------
Registered == {m \in Members : status[m] # "absent"}
Settled == {"done", "failed", "rejected", "aborted"}
Less(n, k) == IF k >= n THEN 0 ELSE n - k      \* Math.max(0, n - k)

(* team.spawn() and agent slots *)

\* planSpawn() and reserveAgentSlots(): room for the members the batch adds, and for all
\* of its agents at once.
NewMembers(ids) == Range(ids) \ Registered
PlanFits(ids) ==
    /\ Cardinality(Registered) + Cardinality(NewMembers(ids)) =< MaxMembers
    /\ quota["members"] + Cardinality(NewMembers(ids)) =< MaxMembersPerRun
SlotsFit(n) == agentCount + quota["slots"] + n =< MaxAgents

Reserved(news, slots) ==
    [quota EXCEPT !["members"] = @ + news, !["slots"] = @ + slots]
Returned(q, news, slots) ==
    [q EXCEPT !["members"] = Less(@, news), !["slots"] = Less(@, slots)]

\* Mutant: only the slots come back.
SpawnKeepsMembers(ids) ==
    LET news == Cardinality(NewMembers(ids))
        slots == Cardinality(DOMAIN ids)
    IN  /\ PlanFits(ids)
        /\ \/ /\ ~SlotsFit(slots)
              /\ quota' = Reserved(news, 0)
           \/ /\ SlotsFit(slots)
              /\ NewMembers(ids) \cap Foreign # {} \/ abortedRun
              /\ quota' = Returned(Reserved(news, slots), 0, slots)
        /\ UNCHANGED <<rosterVars, slotVars, calls>>

\* A batch that is turned down gives back what it had reserved by then: its members when
\* there are no slots for it, and both when an ID belongs to another team or parallel()
\* throws, as it does for a run that is aborted but still admits.
SpawnTurnedDown(ids) ==
    LET news == Cardinality(NewMembers(ids))
        slots == Cardinality(DOMAIN ids)
    IN  /\ PlanFits(ids)
        /\ \/ /\ ~SlotsFit(slots)
              /\ quota' = Returned(Reserved(news, 0), news, 0)
           \/ /\ SlotsFit(slots)
              /\ NewMembers(ids) \cap Foreign # {} \/ abortedRun
              /\ quota' = Returned(Reserved(news, slots), news, slots)
        /\ UNCHANGED <<rosterVars, slotVars, calls>>

\* An accepted batch starts its calls at once.  Each uses up a slot of the reservation,
\* unless a check before that throws (`refused': a token or phase budget is spent); a
\* prompt that is too large (`oversized') throws after it.
SpawnAccepted(ids, refused, oversized) ==
    /\ PlanFits(ids) /\ SlotsFit(Cardinality(DOMAIN ids))
    /\ NewMembers(ids) \cap Foreign = {} /\ ~abortedRun
    /\ status' = [m \in Members |-> IF m \in NewMembers(ids) THEN "registered" ELSE status[m]]
    /\ quota' = Reserved(Cardinality(NewMembers(ids)), Cardinality(refused))
    /\ agentCount' = agentCount + Cardinality(DOMAIN ids \ refused)
    /\ batches' = batches \cup {[calls |-> DOMAIN ids, left |-> Cardinality(refused)]}
    /\ calls' = [c \in TeamCalls |->
                    IF c \notin DOMAIN ids THEN calls[c]
                    ELSE [calls[c] EXCEPT !.member = ids[c],
                              !.at = IF c \in refused \cup oversized THEN "rejected" ELSE "queued"]]
    /\ UNCHANGED gen

Spawn(ids) ==
    /\ admitting
    /\ \A c \in DOMAIN ids : calls[c].at = "idle"
    /\ \A c, d \in DOMAIN ids : ids[c] = ids[d] => c = d
    /\ \/ SpawnTurnedDown(ids)
       \/ \E refused \in SUBSET DOMAIN ids : \E oversized \in SUBSET (DOMAIN ids \ refused) :
            SpawnAccepted(ids, refused, oversized)
    /\ UNCHANGED <<mailVars, board, sessions, lifeVars>>

\* execution.finally() of spawn(): parallel() is over when every call is, or as soon as
\* one rejects.  What is left of the batch's reservation is returned.
BatchSettles(b) ==
    /\ \/ \A c \in b.calls : calls[c].at \in Settled
       \/ \E c \in b.calls : calls[c].at \in {"rejected", "aborted"}
    /\ batches' = batches \ {b}
    /\ quota' = [quota EXCEPT !["slots"] = Less(@, b.left)]
    /\ UNCHANGED <<rosterVars, mailVars, board, agentCount, calls, sessions, lifeVars>>

\* A call of agent() outside the team.
PlainAgent ==
    /\ admitting /\ ~abortedRun
    /\ SlotsFit(1)
    /\ agentCount' = agentCount + 1
    /\ UNCHANGED <<rosterVars, mailVars, board, quota, batches, calls, sessions, lifeVars>>

----------------------------------------------------------------------------
(* Attempts *)

Current(m, g) == gen[m] = g

\* Mutant: a failed attempt keeps its claims.
KeepClaims(m, g) == UNCHANGED board

\* Claims that attempt g of m has to give back: all of m's, once g is current.
ReleaseClaims(m, g) ==
    board' = [t \in Tasks |->
                 IF Current(m, g) /\ board[t].assignee = m /\ board[t].status # "completed"
                 THEN [status |-> "pending", assignee |-> Nobody, by |-> Nobody]
                 ELSE board[t]]

Mark(m, g, s) == status' = IF Current(m, g) THEN [status EXCEPT ![m] = s] ELSE status

\* beginAttempt(): the next generation of the member is this attempt's.
TakeGeneration(c) ==
    LET m == calls[c].member
    IN  /\ gen' = [gen EXCEPT ![m] = @ + 1]
        /\ status' = [status EXCEPT ![m] = "running"]
        /\ calls' = [calls EXCEPT ![c].at = "begun", ![c].try = @ + 1, ![c].gen = gen[m] + 1]

BeginAttempt(c) ==
    /\ calls[c].at = "queued"
    /\ TakeGeneration(c)
    /\ UNCHANGED <<mailVars, board, quota, slotVars, sessions, lifeVars>>

\* The catch clause of an attempt.  There is no await between giving a failed attempt's
\* claims back and the start of the next one.
Catch(c, recoverable) ==
    LET m == calls[c].member
        g == calls[c].gen
        Over(how) == calls' = [calls EXCEPT ![c].at = how] /\ UNCHANGED gen
    IN  /\ ReleaseClaims(m, g)
        /\ \/ abortedRun /\ Mark(m, g, "aborted") /\ Over("aborted")
           \/ ~abortedRun /\ recoverable /\ calls[c].try < Tries[c] /\ TakeGeneration(c)
           \/ /\ ~abortedRun
              /\ ~(recoverable /\ calls[c].try < Tries[c])
              /\ Mark(m, g, "failed")
              /\ Over(IF recoverable THEN "failed" ELSE "rejected")

\* No permit, no late record, an admission that has closed, or createTools() for an
\* attempt that another call of the member has overtaken meanwhile.
FailsToStart(c) ==
    /\ calls[c].at = "begun"
    /\ \E recoverable \in BOOLEAN : Catch(c, recoverable)
    /\ UNCHANGED <<mailVars, quota, slotVars, sessions, lifeVars>>

StartSession(c) ==
    LET m == calls[c].member
    IN  /\ calls[c].at = "begun"
        /\ admitting /\ ~abortedRun
        /\ Current(m, calls[c].gen) /\ status[m] = "running"
        /\ sessions' = sessions \cup {[call |-> c, try |-> calls[c].try, gen |-> calls[c].gen,
                                       ready |-> FALSE, stopped |-> FALSE]}
        /\ calls' = [calls EXCEPT ![c].at = "live"]
        /\ UNCHANGED <<rosterVars, mailVars, board, quota, slotVars, lifeVars>>

MemberOf(s) == calls[s.call].member
LastTry(s) == s.try = calls[s.call].try

\* onSessionReady: agent.ts makes no such call for a session whose signal is aborted.
SessionReady(s) ==
    /\ ~s.ready /\ ~s.stopped /\ admitting
    /\ sessions' = (sessions \ {s}) \cup {[s EXCEPT !.ready = TRUE]}
    /\ IF LastTry(s) THEN Mark(MemberOf(s), s.gen, "running") ELSE UNCHANGED status
    /\ UNCHANGED <<gen, mailVars, board, quota, slotVars, calls, lifeVars>>

\* The session is disposed, onSessionEnd is called and the provider promise settles: the
\* awaited one, or one left behind.
SessionEnds(s) ==
    /\ sessions' = sessions \ {s}
    /\ IF LastTry(s) /\ admitting /\ s.ready THEN Mark(MemberOf(s), s.gen, "done")
                                             ELSE UNCHANGED status
    /\ calls' = IF LastTry(s) /\ calls[s.call].at = "live"
                THEN [calls EXCEPT ![s.call].at = "returned"] ELSE calls
    /\ UNCHANGED <<gen, mailVars, board, quota, slotVars, lifeVars>>

CallSucceeds(c) ==
    /\ calls[c].at = "returned" /\ ~abortedRun
    /\ calls' = [calls EXCEPT ![c].at = "done"]
    /\ UNCHANGED <<rosterVars, mailVars, board, quota, slotVars, sessions, lifeVars>>

CallFails(c) ==
    /\ calls[c].at = "returned"
    /\ \E recoverable \in BOOLEAN : Catch(c, recoverable)
    /\ UNCHANGED <<mailVars, quota, slotVars, sessions, lifeVars>>

Stopped(S) == (sessions \ S) \cup {[s EXCEPT !.stopped = TRUE] : s \in S}

\* withTimeout() of the running attempt; its session stays behind.
CallTimesOut(c) ==
    /\ calls[c].at = "live"
    /\ sessions' = Stopped({s \in sessions : s.call = c /\ LastTry(s)})
    /\ Catch(c, TRUE)
    /\ UNCHANGED <<mailVars, quota, slotVars, lifeVars>>

\* The run's signal or runFatalController: it stops every session.
AbortTeamRun ==
    /\ ~abortedRun
    /\ abortedRun' = TRUE
    /\ sessions' = Stopped(sessions)
    /\ UNCHANGED <<rosterVars, mailVars, board, quota, slotVars, calls, admitting>>

CallAborts(c) ==
    /\ abortedRun /\ calls[c].at = "live"
    /\ Catch(c, TRUE)
    /\ UNCHANGED <<mailVars, quota, slotVars, sessions, lifeVars>>

CloseTeamAdmission ==
    /\ admitting
    /\ admitting' = FALSE
    /\ UNCHANGED <<rosterVars, mailVars, board, quota, slotVars, calls, sessions, abortedRun>>

----------------------------------------------------------------------------
(* Messages *)

\* isAdmitted() of the tools of an attempt, and assertMemberAttempt().
Admitted(s) == s.ready /\ ~s.stopped /\ LastTry(s) /\ admitting
IsMemberAttempt(s) == Current(MemberOf(s), s.gen) /\ status[MemberOf(s)] = "running"

\* notifyInbox() wakes the first waiter of a member, which takes what is there if its
\* attempt may still read, and is rejected otherwise.
Woken(m) == inboxWaiters[m] # <<>>
Takes(m) == Woken(m) /\ IsMemberAttempt(Head(inboxWaiters[m]))

MayPost(to) ==
    /\ to # {}
    /\ \A m \in to : inbox[m] < InboxLimit
    /\ messageCount + Cardinality(to) =< MaxMessages
    /\ quota["messages"] + Cardinality(to) =< MaxMessagesPerRun

\* send() and broadcast(): one message for each member of `to', each of which wakes a
\* waiter of its own.
Post(to) ==
    LET taken == {m \in to : Takes(m)}
        gone == Total([m \in taken |-> inbox[m] + 1], taken)
    IN  /\ MayPost(to)
        /\ inbox' = [m \in Members |-> IF m \in taken THEN 0
                                       ELSE IF m \in to THEN inbox[m] + 1 ELSE inbox[m]]
        /\ inboxWaiters' = [m \in Members |-> IF m \in to /\ Woken(m) THEN Tail(inboxWaiters[m])
                                                                      ELSE inboxWaiters[m]]
        /\ messageCount' = Less(messageCount + Cardinality(to), gone)
        /\ quota' = [quota EXCEPT !["messages"] = Less(@ + Cardinality(to), gone)]
        /\ UNCHANGED <<rosterVars, board, slotVars, calls, sessions, lifeVars>>

MemberSends(s, to) == Admitted(s) /\ IsMemberAttempt(s) /\ Post({to})
MemberBroadcasts(s) == Admitted(s) /\ IsMemberAttempt(s) /\ Post(Registered \ {MemberOf(s)})
WorkflowSends(to) == admitting /\ Post({to})
WorkflowBroadcasts == admitting /\ Post(Registered)

AsWaiter(s) == [call |-> s.call, gen |-> s.gen]

\* readInbox(), which waitForInbox() begins with too; it waits when there is nothing.
ReadInbox(s) ==
    LET m == MemberOf(s)
    IN  /\ Admitted(s) /\ IsMemberAttempt(s)
        /\ inbox[m] > 0
        /\ inbox' = [inbox EXCEPT ![m] = 0]
        /\ messageCount' = Less(messageCount, inbox[m])
        /\ quota' = [quota EXCEPT !["messages"] = Less(@, inbox[m])]
        /\ UNCHANGED <<rosterVars, inboxWaiters, board, slotVars, calls, sessions, lifeVars>>

WaitForInbox(s) ==
    LET m == MemberOf(s)
    IN  /\ Admitted(s) /\ IsMemberAttempt(s)
        /\ inbox[m] = 0
        /\ AsWaiter(s) \notin Range(inboxWaiters[m])    \* a session waits once at a time
        /\ inboxWaiters' = [inboxWaiters EXCEPT ![m] = Append(@, AsWaiter(s))]
        /\ UNCHANGED <<rosterVars, inbox, messageCount, board, quota, slotVars, calls, sessions, lifeVars>>

\* The timer or the abort signal of a wait.
WaitGivesUp(m, i) ==
    /\ i \in DOMAIN inboxWaiters[m]
    /\ inboxWaiters' = [inboxWaiters EXCEPT ![m] = SubSeq(@, 1, i - 1) \o SubSeq(@, i + 1, Len(@))]
    /\ UNCHANGED <<rosterVars, inbox, messageCount, board, quota, slotVars, calls, sessions, lifeVars>>

----------------------------------------------------------------------------
(* The task board *)

Posted(T, assignee) ==
    board' = [t \in Tasks |->
                 IF t \notin T THEN board[t]
                 ELSE [status |-> IF assignee = Nobody THEN "pending" ELSE "claimed",
                       assignee |-> assignee, by |-> Nobody]]

\* addTask() and addTasks(); a batch of which one task is invalid returns its quota.
AddTasks(T, assignee) ==
    /\ admitting
    /\ T # {} /\ \A t \in T : board[t].status = "absent"
    /\ assignee \in Registered \cup {Nobody}
    /\ quota["tasks"] + Cardinality(T) =< MaxTasksPerRun
    /\ Posted(T, assignee)
    /\ quota' = [quota EXCEPT !["tasks"] = @ + Cardinality(T)]
    /\ UNCHANGED <<rosterVars, mailVars, slotVars, calls, sessions, lifeVars>>

MemberAddsTask(s, t) == Admitted(s) /\ IsMemberAttempt(s) /\ AddTasks({t}, Nobody)

FreeFor(t, m) ==
    /\ board[t].status \in {"pending", "claimed"}
    /\ board[t].assignee \in {Nobody, m}

ClaimTask(s, t) ==
    /\ Admitted(s) /\ IsMemberAttempt(s)
    /\ FreeFor(t, MemberOf(s))
    /\ board' = [board EXCEPT ![t] = [status |-> "claimed", assignee |-> MemberOf(s), by |-> s.call]]
    /\ UNCHANGED <<rosterVars, mailVars, quota, slotVars, calls, sessions, lifeVars>>

CompleteTask(s, t) ==
    /\ Admitted(s) /\ IsMemberAttempt(s)
    /\ FreeFor(t, MemberOf(s))
    /\ board' = [board EXCEPT ![t] = [status |-> "completed", assignee |-> MemberOf(s), by |-> s.call]]
    /\ UNCHANGED <<rosterVars, mailVars, quota, slotVars, calls, sessions, lifeVars>>

----------------------------------------------------------------------------
CallStep(c) ==
    \/ BeginAttempt(c) \/ FailsToStart(c) \/ StartSession(c)
    \/ CallSucceeds(c) \/ CallFails(c) \/ CallTimesOut(c) \/ CallAborts(c)

SessionStep(s) ==
    \/ SessionReady(s) \/ SessionEnds(s)
    \/ \E m \in Registered : MemberSends(s, m)
    \/ MemberBroadcasts(s) \/ ReadInbox(s) \/ WaitForInbox(s)
    \/ \E t \in Tasks : MemberAddsTask(s, t) \/ ClaimTask(s, t) \/ CompleteTask(s, t)

RunStepOfTeam ==
    \/ PlainAgent \/ AbortTeamRun \/ CloseTeamAdmission \/ WorkflowBroadcasts
    \/ \E m \in Registered : WorkflowSends(m)
    \/ \E b \in batches : BatchSettles(b)
    \/ \E m \in Members : \E i \in DOMAIN inboxWaiters[m] : WaitGivesUp(m, i)
    \/ \E T \in SUBSET Tasks, a \in Members \cup {Nobody} : AddTasks(T, a)
    \/ \E S \in (SUBSET TeamCalls) \ {{}} : \E ids \in [S -> Members] : Spawn(ids)

TeamNext ==
    \/ \E c \in TeamCalls : CallStep(c)
    \/ \E s \in sessions : SessionStep(s)
    \/ RunStepOfTeam

TeamSpec == TeamInit /\ [][TeamNext]_teamVars

----------------------------------------------------------------------------
\* What the run has reserved is what its teams hold: no batch that was turned down, no
\* member that read its mail and no batch that is over keeps a share of the quotas, and
\* agents and reserved slots together stay within maxAgents.
ReservedIsHeld ==
    /\ quota["members"] = Cardinality(Registered) + Cardinality(Foreign)
    /\ quota["tasks"] = Cardinality({t \in Tasks : board[t].status # "absent"})
    /\ quota["messages"] = Total(inbox, Members)
    /\ messageCount = quota["messages"]
    /\ quota["slots"] = Total([b \in batches |-> b.left], batches)
    /\ agentCount + quota["slots"] =< MaxAgents

\* A member listed as failed or aborted holds no task that one of its attempts claimed:
\* not after a retry, after a late session end, or after a call that overtook another.
FailedMembersHoldNothing ==
    \A t \in Tasks :
        board[t].status = "claimed" /\ board[t].by # Nobody
            => status[board[t].assignee] \notin {"failed", "aborted"}
==============================================================================
