---------------------------- MODULE MCCoordination ----------------------------
(* Model checking of components that have a process, or a project directory, for      *)
(* themselves: a behaviour is one of provider permits, of the lease of a run, or of    *)
(* the scheduler, chosen at the start.  They share a run and nothing else.             *)
EXTENDS ProviderPermits, RunLease, UsageLimitScheduler

CONSTANTS a1, a2, a3, a4, a5, s1, s2, s3, s4

\* Five calls, two of which share a signal.
SmallAttempts == {a1, a2, a3, a4, a5}
SmallSignals == {s1, s2, s3, s4}
SmallSignalOf ==
    [a \in SmallAttempts |->
        CASE a = a1 -> s1 [] a \in {a2, a3} -> s2 [] a = a4 -> s3 [] OTHER -> s4]

VARIABLE part

allVars == <<permitVars, leaseVars, schedulerVars, part>>

InPermits(step) == part = "permits" /\ step /\ UNCHANGED <<leaseVars, schedulerVars, part>>
InLease(step) == part = "lease" /\ step /\ UNCHANGED <<permitVars, schedulerVars, part>>
InScheduler(step) == part = "scheduler" /\ step /\ UNCHANGED <<permitVars, leaseVars, part>>

Init ==
    /\ part \in {"permits", "lease", "scheduler"}
    /\ PermitInit /\ LeaseInit /\ SchedulerInit

Next ==
    \/ \E a \in Attempts : InPermits(AcquireProvider(a))
    \/ \E a \in Attempts : InPermits(Release(a))
    \/ InPermits(SomeAbort)
    \/ \E p \in Procs : InLease(Link(p))
    \/ \E p \in Procs : InLease(LinkFails(p))
    \/ \E p \in Procs : InLease(Exists(p))
    \/ \E p \in Procs : InLease(ReadLock(p))
    \/ \E p \in Procs : InLease(Unlink(p))
    \/ \E p \in Procs : InLease(ReadOwn(p))
    \/ \E p \in Procs : InLease(UnlinkOwn(p))
    \/ \E p \in Procs : InLease(CheckOwn(p))
    \/ \E p \in Procs : InLease(ReadRecord(p))
    \/ \E p \in Procs : InLease(Rename(p))
    \/ \E p \in Procs : InLease(Acquire(p))
    \/ \E p \in Procs : InLease(ReleaseLease(p))
    \/ \E p \in Procs : InLease(Save(p))
    \/ \E p \in Procs : InLease(Crash(p))
    \/ InScheduler(BindSession)
    \/ \E r \in LimitedRuns : InScheduler(HitLimit(r))
    \/ \E r \in LimitedRuns : InScheduler(PauseByHand(r))
    \/ \E r \in LimitedRuns : InScheduler(Unwound(r))
    \/ \E r \in LimitedRuns : InScheduler(ResumeByHand(r))
    \/ \E r \in LimitedRuns : InScheduler(Rewritten(r))
    \/ \E r \in LimitedRuns : InScheduler(Terminal(r))
    \/ \E r \in LimitedRuns : InScheduler(Fire(r))
    \/ \E r \in LimitedRuns : InScheduler(ResumeSucceeds(r))
    \/ \E r \in LimitedRuns : InScheduler(ResumeRefuses(r))
    \/ \E r \in LimitedRuns : InScheduler(Continue(r))
    \/ InScheduler(PersistAttempts)
    \/ InScheduler(Restart)

\* The fairness of each module, in its part.  Release(a) is
\* enabled while a has a permit, and ends it, so its weak fairness is the first conjunct.
Fairness ==
    /\ \A a \in Attempts : []<>(a \notin activeProviders)
    /\ []<>(\A a \in waiters : ~Aborted(a))
    /\ \A p \in Procs : WF_allVars(InLease(SystemCall(p)))
    /\ SF_allVars(InScheduler(BindSession))
    /\ WF_allVars(InScheduler(PersistAttempts))
    /\ \A r \in LimitedRuns :
        /\ SF_allVars(InScheduler(Fire(r)))
        /\ WF_allVars(InScheduler(Continue(r)))
        /\ WF_allVars(InScheduler(ResumeSucceeds(r) \/ ResumeRefuses(r)))
        /\ SF_allVars(InScheduler(ResumeSucceeds(r)))

Spec == Init /\ [][Next]_allVars /\ Fairness
================================================================================
