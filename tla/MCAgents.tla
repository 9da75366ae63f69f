-------------------------------- MODULE MCAgents --------------------------------
(* Model checking of the calls of agent(), each part by itself: the attempts of    *)
(* two runs at the coordinator, the sessions of agents at a cache gate, and the     *)
(* navigator that shows what agents do.                                             *)
EXTENDS ProviderAttempt, AgentSession, Navigator

CONSTANTS a1, a2, a3, r1, r2

SmallAttempts == {a1, a2, a3}
SmallRuns == {r1, r2}
SmallRunOf == [a \in SmallAttempts |-> IF a = a3 THEN r2 ELSE r1]
OwnSignal == [a \in SmallAttempts |-> a]
SavedOne == <<"saved">>

VARIABLE part

allVars == <<attemptVars, sessionVars, navigatorVars, part>>

InAttempts(step) == part = "attempts" /\ step /\ UNCHANGED <<sessionVars, navigatorVars, part>>
InSessions(step) == part = "sessions" /\ step /\ UNCHANGED <<attemptVars, navigatorVars, part>>
InNavigator(step) == part = "navigator" /\ step /\ UNCHANGED <<attemptVars, sessionVars, part>>

Init ==
    /\ part \in {"attempts", "sessions", "navigator"}
    /\ AttemptInit /\ SessionInit /\ NavigatorInit
    /\ part # "navigator" => /\ listing = <<CHOOSE r \in ShownRuns : TRUE>>
                            /\ \A r \in ShownRuns : runStatus[r] = "running"

Next ==
    \/ \E a \in Attempts : InAttempts(Begin(a))
    \/ \E a \in Attempts : InAttempts(BeginAborted(a))
    \/ \E a \in Attempts : InAttempts(WaitTimesOut(a))
    \/ \E a \in Attempts : InAttempts(GiveUp(a))
    \/ \E a \in Attempts : InAttempts(TurnBack(a))
    \/ \E a \in Attempts : InAttempts(LaunchThrows(a))
    \/ \E a \in Attempts : InAttempts(Launch(a))
    \/ \E a \in Attempts : InAttempts(LogicalResult(a))
    \/ \E a \in Attempts : InAttempts(LogicalTimesOut(a))
    \/ \E a \in Attempts : InAttempts(LogicalAborts(a))
    \/ \E a \in Attempts : InAttempts(ProviderSettles(a))
    \/ \E r \in Runs : InAttempts(CloseAdmission(r))
    \/ \E r \in Runs : InAttempts(AbortRun(r))
    \/ \E r \in Runs : InAttempts(DrainEnds(r))
    \/ \E r \in Runs : InAttempts(DrainExpires(r))
    \/ InSessions(LoaderSettles)
    \/ \E s \in Sessions : InSessions(Prepare(s))
    \/ \E s \in Sessions : InSessions(CreateFails(s))
    \/ \E s \in Sessions : InSessions(EnterGate(s))
    \/ \E s \in Sessions : InSessions(LeaveGate(s))
    \/ \E s \in Sessions : InSessions(AbortedBeforeGate(s))
    \/ \E s \in Sessions : InSessions(FirstAnswer(s))
    \/ \E s \in Sessions : InSessions(CallsStructuredOutput(s))
    \/ \E s \in Sessions : InSessions(PromptThrows(s))
    \/ \E s \in Sessions : InSessions(PromptCompletes(s))
    \/ \E s \in Sessions : InSessions(Signal(s))
    \/ \E d \in {-1, 1} : InNavigator(Move(d))
    \/ \E e \in {"start", "end"} : InNavigator(Jump(e))
    \/ \E d \in {-2, 2} : InNavigator(Page(d))
    \/ InNavigator(ToggleTail)
    \/ InNavigator(OpenPager)
    \/ InNavigator(TogglePager)
    \/ InNavigator(Drill)
    \/ InNavigator(Back)
    \/ InNavigator(Closes)
    \/ \E r \in ShownRuns, to \in {"paused", "aborted"} : InNavigator(Command(r, to))
    \/ \E r, s \in ShownRuns : InNavigator(RunAgain(r, s))
    \/ \E r \in ShownRuns : InNavigator(AskResume(r))
    \/ \E r \in ShownRuns : InNavigator(ResumeReturns(r))
    \/ InNavigator(DeleteSaved)
    \/ InNavigator(LifecycleEvent)
    \/ InNavigator(RedrawTimer)
    \/ \E r \in ShownRuns : InNavigator(RunAppears(r))
    \/ \E r \in ShownRuns : InNavigator(RunVanishes(r))
    \/ \E r \in ShownRuns, a \in Agents : InNavigator(AgentHistory(r, a))

\* AttemptFairness and SessionFairness, each in its part.
Fairness ==
    /\ \A a \in Attempts :
        WF_allVars(InAttempts(GiveUp(a) \/ TurnBack(a) \/ LaunchThrows(a) \/ Launch(a)
                                \/ LogicalResult(a) \/ LogicalAborts(a)))
    /\ \A r \in Runs : WF_allVars(InAttempts(DrainEnds(r) \/ DrainExpires(r)))
    /\ WF_allVars(InSessions(LoaderSettles))
    /\ \A s \in Sessions : WF_allVars(InSessions(GoesOn(s)))

Spec == Init /\ [][Next]_allVars /\ Fairness
=================================================================================
