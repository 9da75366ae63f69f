-------------------------------- MODULE MCParts --------------------------------
(* Model checking of parts that do not touch one another, each by itself: the team  *)
(* (with its mail, or with its board), the checkout of one call, the files of one     *)
(* record, the outputs of a run (with the tool and the bridge, or with steering and   *)
(* explicit deliveries), the accounts of what calls spend, runs over reloads and      *)
(* changes of session, and the delivery of results without a bridge.                  *)
EXTENDS AgentTeam, Worktrees, RecordFiles, RunOutputs, TokenAccounts, SessionHandoff,
        ResultDelivery, TLC

CONSTANTS m1, m2, m3, c1, c2, o1, o2, k1, k2

SmallMembers == {m1, m2, m3}
SmallTries == (c1 :> 2) @@ (c2 :> 1)
TwoCalls == {k1, k2}
OneRetry == (k1 :> 2) @@ (k2 :> 1)

\* The IDs m1 and m2 are alike: m2 does not come first.
MemberChoices(S) ==
    {ids \in [S -> Members] :
        m2 \in Range(ids) \ Registered => m1 \in Range(ids) \cup Registered}

\* So are the two calls of RunOutputs: o1 comes first.
InOrder(c) == c = o2 => agents[o1].at # "none"

VARIABLE part

\* Where the tool takes part, a pause, a stop by hand and a refused deletion are
\* looked at in the first generation only.
PausesEarly == (part = "outputs" => run.gen = 1) /\ PauseRun
StopsEarly == (part = "outputs" => run.gen = 1) /\ StopRun
RefusedEarly == (part = "outputs" => run.gen = 1) /\ DeletionRefused

partVars == <<teamVars, workVars, recordVars, outputVars>>
hostVars == <<accountVars, handoffVars, deliveryVars>>

In(parts, step) == part \in parts /\ step /\ UNCHANGED part
\* What a part chooses from; nothing while another part is looked at.
Of(parts, S) == IF part \in parts THEN S ELSE {}
TeamsCalls == Of({"mail", "board"}, TeamCalls)
TreeProcs == Of({"trees"}, WorkProcs)
FileProcs == Of({"records"}, RecordProcs)
ChargedCalls == Of({"accounts"}, Calls)
HostRuns == Of({"handoff"}, WorkRuns)
Reasons == Of({"handoff"}, {"reload", "new", "resume", "fork", "quit"})
SentResults == Of({"delivery"}, Results)
\* A board has one member of this team beside the other team's, a mail has two.
InTeam(step) ==
    /\ In({"mail", "board"}, step)
    /\ UNCHANGED <<workVars, recordVars, outputVars, hostVars>>
    /\ part = "board" => Cardinality(Registered') =< 1
InMail(step) == part = "mail" /\ InTeam(step)
InBoard(step) == part = "board" /\ InTeam(step)
InTrees(step) == In({"trees"}, step) /\ UNCHANGED <<teamVars, recordVars, outputVars, hostVars>>
InRecords(step) == In({"records"}, step) /\ UNCHANGED <<teamVars, workVars, outputVars, hostVars>>
\* Where the tool takes part, there are two results, or one and a failed write.
InRun(step) ==
    /\ In({"outputs", "steering"}, step)
    /\ UNCHANGED <<teamVars, workVars, recordVars, hostVars>>
    /\ part = "outputs" => made' + outFaults' =< MaxResults
InOutputs(step) == part = "outputs" /\ InRun(step)
InSteering(step) == part = "steering" /\ InRun(step)
InAccounts(step) == In({"accounts"}, step) /\ UNCHANGED <<partVars, handoffVars, deliveryVars>>
InHandoff(step) == In({"handoff"}, step) /\ UNCHANGED <<partVars, accountVars, deliveryVars>>
InDelivery(step) == In({"delivery"}, step) /\ UNCHANGED <<partVars, accountVars, handoffVars>>

Init ==
    /\ TeamInit /\ WorktreeInit /\ RecordInit /\ OutputInit
    /\ AccountInit /\ HandoffInit /\ DeliveryInit
    /\ part \in {"mail", "board", "trees", "records", "outputs", "steering",
                  "accounts", "handoff", "delivery"}
    /\ part # "records" => \A file \in Files : files[file] = Missing
    /\ part # "handoff" => window.project = LaunchDir

Next ==
    \/ \E S \in (SUBSET TeamsCalls) \ {{}} : \E ids \in MemberChoices(S) : InTeam(Spawn(ids))
    \/ \E b \in batches : InBoard(BatchSettles(b))
    \/ InBoard(PlainAgent)
    \/ \E c \in TeamsCalls : InTeam(BeginAttempt(c))
    \/ \E c \in TeamsCalls : InTeam(FailsToStart(c))
    \/ \E c \in TeamsCalls : InTeam(StartSession(c))
    \/ \E c \in TeamsCalls : InTeam(CallSucceeds(c))
    \/ \E c \in TeamsCalls : InTeam(CallFails(c))
    \/ \E c \in TeamsCalls : InTeam(CallTimesOut(c))
    \/ \E c \in TeamsCalls : InTeam(CallAborts(c))
    \/ \E s \in sessions : InTeam(SessionReady(s))
    \/ \E s \in sessions : InTeam(SessionEnds(s))
    \/ InTeam(AbortTeamRun)
    \/ InBoard(CloseTeamAdmission)
    \/ \E s \in sessions, m \in Registered : InMail(MemberSends(s, m))
    \/ \E s \in sessions : InMail(MemberBroadcasts(s))
    \/ \E m \in Registered : InMail(WorkflowSends(m))
    \/ InMail(WorkflowBroadcasts)
    \/ \E s \in sessions : InMail(ReadInbox(s))
    \/ \E s \in sessions : InMail(WaitForInbox(s))
    \/ \E m \in Of({"mail"}, Members) : \E i \in DOMAIN inboxWaiters[m] : InMail(WaitGivesUp(m, i))
    \/ \E T \in Of({"board"}, SUBSET Tasks), m \in Members \cup {Nobody} : InBoard(AddTasks(T, m))
    \/ \E s \in sessions, t \in Tasks : InBoard(MemberAddsTask(s, t))
    \/ \E s \in sessions, t \in Tasks : InBoard(ClaimTask(s, t))
    \/ \E s \in sessions, t \in Tasks : InBoard(CompleteTask(s, t))
    \/ InTrees(WriteMarker)
    \/ InTrees(AddWorktree)
    \/ InTrees(AddFails)
    \/ InTrees(GiveUp)
    \/ InTrees(MarkBranch)
    \/ InTrees(WriteSidecar)
    \/ InTrees(CallIsOver)
    \/ \E p \in TreeProcs : InTrees(TakeClaim(p))
    \/ \E p \in TreeProcs : InTrees(StealClaim(p))
    \/ \E p \in TreeProcs : InTrees(CheckAndMark(p))
    \/ \E p \in TreeProcs : InTrees(MoveAside(p))
    \/ \E p \in TreeProcs : InTrees(Prune(p))
    \/ \E p \in TreeProcs : InTrees(Repair(p))
    \/ \E p \in TreeProcs : InTrees(RemoveCheckout(p))
    \/ \E p \in TreeProcs : InTrees(PutBack(p))
    \/ \E p \in TreeProcs : InTrees(RenameBranch(p))
    \/ \E p \in TreeProcs : InTrees(DeleteBranch(p))
    \/ \E p \in TreeProcs : InTrees(Unmark(p))
    \/ \E p \in TreeProcs : InTrees(ReleaseClaim(p))
    \/ \E p \in TreeProcs : InTrees(FindOrphan(p))
    \/ \E p \in TreeProcs : InTrees(PruneOrphan(p))
    \/ \E p \in TreeProcs : InTrees(ScanMarkers(p))
    \/ \E p \in TreeProcs : InTrees(SpareHealthy(p))
    \/ \E p \in TreeProcs : InTrees(ReapMarker(p))
    \/ \E p \in TreeProcs : InTrees(ReapBranch(p))
    \/ \E p \in TreeProcs : InTrees(ReapTomb(p))
    \/ \E p \in TreeProcs : InTrees(NothingStale(p))
    \/ \E p \in TreeProcs : InTrees(Dies(p))
    \/ \E p \in FileProcs : InRecords(Open(p))
    \/ \E p \in FileProcs : InRecords(SaveRecord(p))
    \/ \E p \in FileProcs : InRecords(SaveBackup(p))
    \/ \E p \in FileProcs : InRecords(Close(p))
    \/ \E p \in FileProcs : InRecords(DeleteRun(p))
    \/ \E p \in FileProcs : InRecords(SweepLists(p))
    \/ \E p \in FileProcs : InRecords(SweepTakes(p))
    \/ \E p \in FileProcs : InRecords(SweepLooks(p))
    \/ \E p \in FileProcs : InRecords(Unlink(p))
    \/ \E p \in FileProcs : InRecords(DeletionDone(p))
    \/ \E p \in FileProcs : InRecords(ProcessDies(p))
    \/ InRecords(Damage)
    \/ \E c \in OutCalls : InOrder(c) /\ InRun(AgentStarts(c))
    \/ \E c \in OutCalls : InRun(AgentEnds(c))
    \/ \E c \in OutCalls : InSteering(SessionOpens(c))
    \/ \E c \in OutCalls : InSteering(SessionCloses(c))
    \/ InSteering(Delivers)
    \/ InSteering(EnqueueUserMessage)
    \/ InOutputs(ProgressWritten)
    \/ \E d \in outbox : InOutputs(Show(d))
    \/ \E d \in outbox : InOutputs(AcknowledgeDelivery(d))
    \/ InOutputs(CallTool)
    \/ InOutputs(LeaveTool)
    \/ InOutputs(ToolGoesOn)
    \/ InOutputs(ToolClaims)
    \/ InRun(Completes)
    \/ InRun(Fails)
    \/ InRun(PausesForLimit)
    \/ InRun(PausesEarly)
    \/ InRun(StopsEarly)
    \/ InRun(Unwinds)
    \/ InRun(DeletesRun)
    \/ InRun(RefusedEarly)
    \/ InRun(Resumes)
    \/ \E c \in ChargedCalls : InAccounts(StartCall(c))
    \/ \E c \in ChargedCalls : InAccounts(LaunchTry(c))
    \/ \E c \in ChargedCalls, k \in TryNumbers, n \in Amounts : InAccounts(ReportUsage(c, k, n))
    \/ \E c \in ChargedCalls : InAccounts(ChargeResult(c))
    \/ \E c \in ChargedCalls, late, recoverable \in BOOLEAN : InAccounts(ChargeFailure(c, late, recoverable))
    \/ \E c \in ChargedCalls : InAccounts(ChargeAbort(c))
    \/ \E c \in ChargedCalls, k \in TryNumbers : InAccounts(LateProviderEnds(c, k))
    \/ InAccounts(AbortSpending)
    \/ InAccounts(ScriptEnds)
    \/ InAccounts(TotalReported)
    \/ InAccounts(ResumeSpending)
    \/ \E v \in Versions : InHandoff(LoadExtension(v))
    \/ \E same \in BOOLEAN : InHandoff(SessionStart(same))
    \/ \E reason \in Reasons, p \in Projects, readable \in BOOLEAN :
            InHandoff(SessionShutdown(reason, p, readable))
    \/ InHandoff(HandoffExpires)
    \/ \E r \in HostRuns : InHandoff(StartWork(r))
    \/ \E r \in HostRuns : InHandoff(WorkEnds(r))
    \/ \E r \in HostRuns : InHandoff(PauseWork(r))
    \/ \E r \in HostRuns : InHandoff(WorkUnwinds(r))
    \/ \E r \in HostRuns : InHandoff(AskToResume(r))
    \/ \E r \in HostRuns : InHandoff(WorkResumes(r))
    \/ InDelivery(TrySend)
    \/ InDelivery(NextBatch)
    \/ InDelivery(PumpStops)
    \/ InDelivery(Install)
    \/ InDelivery(Dispose)
    \/ InDelivery(SuspendDelivery)
    \/ InDelivery(ResumeDelivery)
    \/ InDelivery(HostRestarts)
    \/ \E i \in SentResults : InDelivery(Deliver(i))
    \/ \E i \in SentResults, g \in 0..MaxGeneration : InDelivery(RejectLate(i, g))

partsVars == <<partVars, hostVars, part>>

Spec == Init /\ [][Next]_partsVars
================================================================================
