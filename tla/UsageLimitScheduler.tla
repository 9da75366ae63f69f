-------------------------- MODULE UsageLimitScheduler --------------------------
(***************************************************************************)
(* src/src/usage-limit-scheduler.ts: runs that a provider's usage limit    *)
(* has paused are resumed by a timer, with a limited number of attempts.   *)
(*                                                                         *)
(* The manager is the environment: it changes the status of runs, emits    *)
(* its events, and answers resume().  A step that begins with a timer, a   *)
(* user or a provider is a macrotask, and waits until the microtasks of    *)
(* the one before have run; a restart may fall anywhere.  A read of the    *)
(* records may fail: the scheduler then does as if there were nothing.     *)
(***************************************************************************)
EXTENDS Integers, FiniteSets, Sequences, SequencesExt

CONSTANTS
    LimitedRuns,      \* runs that may hit the limit
    OptedOut,         \* those with autoResume = false
    MaxAttempts,      \* maxAttempts
    MaxArmedTimers,   \* maxArmedTimers
    MaxHits,          \* bound: usage-limit pauses of a behaviour
    MaxRestarts       \* bound: restarts of the process

ASSUME SchedulerAssumption ==
    /\ IsFiniteSet(LimitedRuns)
    /\ OptedOut \subseteq LimitedRuns
    /\ MaxAttempts \in Nat \ {0}
    /\ MaxArmedTimers \in Nat \ {0}
    /\ MaxHits \in Nat
    /\ MaxRestarts \in Nat

VARIABLES
    status,         \* status and pauseReason of each run, as the manager keeps them
    managed,        \* runs that the manager of this process has in memory
    diskAttempts,   \* autoResumeAttempts of its record, 0 if there is none
    sessionBound,
    state,          \* entries of the map `state': attempts, timer, gaveUp
    orphans,        \* armed timers that no entry knows any more
    firing,         \* onTimerFire() of each run: where it awaits resume()
    fired,          \* the entry it has taken
    writes,         \* microtasks of persistAttempts()
    hits,           \* usage-limit pauses so far
    restarts,
    resumes,        \* history: automatic resumes since this process began, or a human resumed
    misfires,       \* history: automatic resumes of runs that no limit had paused
    leftOut         \* history: paused runs it left alone: the map was full, or a read failed

schedulerVars == <<status, managed, diskAttempts, sessionBound, state, orphans, firing, fired,
                   writes, hits, restarts, resumes, misfires, leftOut>>

Paused == {"limit", "paused"}
None == [attempts |-> 0, timer |-> FALSE, gaveUp |-> FALSE, present |-> FALSE]
ArmedEntry(n) == [attempts |-> n, timer |-> TRUE, gaveUp |-> FALSE, present |-> TRUE]
GaveUpEntry == [attempts |-> MaxAttempts + 1, timer |-> FALSE, gaveUp |-> TRUE, present |-> TRUE]

SchedulerTypeOK ==
    /\ status \in [LimitedRuns -> {"running", "unwinding", "limit", "paused", "failed", "done",
                                   "deleted"}]
    /\ managed \subseteq LimitedRuns
    /\ diskAttempts \in [LimitedRuns -> 0..(MaxAttempts + 1)]
    /\ sessionBound \in BOOLEAN
    /\ state \in [LimitedRuns -> [attempts : 0..(MaxAttempts + 1), timer : BOOLEAN,
                                  gaveUp : BOOLEAN, present : BOOLEAN]]
    /\ orphans \in [LimitedRuns -> Nat]
    /\ firing \in [LimitedRuns -> {"no", "waiting", "resumed", "refused"}]
    /\ fired \in [LimitedRuns -> 0..(MaxAttempts + 1)]
    /\ writes \in Seq([run : LimitedRuns, attempts : 0..(MaxAttempts + 1)])
    /\ resumes \in [LimitedRuns -> Nat]

SchedulerInit ==
    /\ status = [r \in LimitedRuns |-> "running"]
    /\ managed = LimitedRuns
    /\ diskAttempts = [r \in LimitedRuns |-> 0]
    /\ sessionBound = FALSE
    /\ state = [r \in LimitedRuns |-> None]
    /\ orphans = [r \in LimitedRuns |-> 0]
    /\ firing = [r \in LimitedRuns |-> "no"]
    /\ fired = [r \in LimitedRuns |-> 0]
    /\ writes = <<>>
    /\ hits = 0
    /\ restarts = 0
    /\ resumes = [r \in LimitedRuns |-> 0]
    /\ misfires = {}
    /\ leftOut = {}

\* The microtasks have run: nothing is written, and no resume() that could answer waits.
Quiet ==
    /\ writes = <<>>
    /\ \A r \in LimitedRuns : firing[r] = "waiting" => status[r] = "unwinding"
    /\ \A r \in LimitedRuns : firing[r] \notin {"resumed", "refused"}

----------------------------------------------------------------------------
(* Arming. *)

Entries(entries) == {r \in LimitedRuns : entries[r].present}

\* arm(): over the limit of attempts it gives up, at capacity it leaves the run paused;
\* the timer that is there is cleared in any case.  s is the map with the writes queued.
Armed(s, r, attempts) ==
    IF attempts > MaxAttempts
      THEN [state |-> [s.state EXCEPT ![r] = GaveUpEntry],
            writes |-> Append(s.writes, [run |-> r, attempts |-> MaxAttempts + 1]),
            out |-> s.out]
    ELSE IF ~s.state[r].present /\ Cardinality(Entries(s.state)) >= MaxArmedTimers
      THEN [s EXCEPT !.out = @ \union {r}]
    ELSE [state |-> [s.state EXCEPT ![r] = ArmedEntry(attempts)],
          writes |-> Append(s.writes, [run |-> r, attempts |-> attempts]),
          out |-> s.out \ {r}]

Now == [state |-> state, writes |-> writes, out |-> leftOut]
Apply(s) == state' = s.state /\ writes' = s.writes /\ leftOut' = s.out

\* handlePaused(): the counter in memory counts more than that of the record.  A record
\* that cannot be read looks like one of another session.
HandlePaused(r, readable) ==
    \/ /\ sessionBound /\ readable /\ r \notin OptedOut
       /\ Apply(Armed(Now, r,
                      (IF state[r].present THEN state[r].attempts ELSE diskAttempts[r]) + 1))
    \/ /\ ~(sessionBound /\ readable /\ r \notin OptedOut)
       /\ leftOut' = IF sessionBound THEN leftOut \union {r} ELSE leftOut
       /\ UNCHANGED <<state, writes>>

Cleanup(r) == state' = [state EXCEPT ![r] = None]

\* Mutant: the timer of a run that was resumed by hand stays armed.
ResumedKeepsTimer(r) == UNCHANGED <<state, writes>>

\* handleResumed(): a manual resume starts the counting anew.  The write finds the
\* run running under its lease and is given up, like the record's old counter.
HandleResumed(r) ==
    IF firing[r] # "no"
      THEN UNCHANGED <<state, writes>>
      ELSE Cleanup(r) /\ writes' = Append(writes, [run |-> r, attempts |-> 0])

\* coldStartRearm() goes through the runs in some order: those over the limit are given
\* up, `kept' are armed, and a run is left out only once the map is full.
Rearm(todo) ==
    LET over == {r \in todo : diskAttempts[r] >= MaxAttempts}
    IN  \E kept \in SUBSET (todo \ over) :
            /\ kept # {} => Cardinality(Entries(state)) + Cardinality(kept) <= MaxArmedTimers
            /\ kept # todo \ over
                 => Cardinality(Entries(state) \union kept \union over) >= MaxArmedTimers
            /\ state' = [r \in LimitedRuns |->
                           IF r \in over THEN GaveUpEntry
                           ELSE IF r \in kept THEN ArmedEntry(diskAttempts[r] + 1)
                           ELSE state[r]]
            /\ writes' = writes \o SetToSeq({[run |-> r, attempts |-> state'[r].attempts] :
                                                r \in kept \union over})
            /\ leftOut' = (leftOut \ kept) \union (todo \ (kept \union over))

----------------------------------------------------------------------------
(* Macrotasks. *)

\* bindSession(), once: there is no second rearming if the listing of the runs throws.
BindSession ==
    /\ Quiet
    /\ ~sessionBound
    /\ sessionBound' = TRUE
    /\ LET todo == {r \in LimitedRuns \ OptedOut : status[r] = "limit" /\ ~state[r].present}
       IN  \/ Rearm(todo)
           \/ leftOut' = leftOut \union todo /\ UNCHANGED <<state, writes>>
    /\ UNCHANGED <<status, managed, diskAttempts, orphans, firing, fired, hits, restarts, resumes,
                   misfires>>

\* A running run hits the limit; the manager writes its record, which knows no
\* counter, and emits `paused'.
HitLimit(r) ==
    /\ Quiet
    /\ status[r] = "running"
    /\ hits < MaxHits
    /\ hits' = hits + 1
    /\ status' = [status EXCEPT ![r] = "limit"]
    /\ \E readable \in BOOLEAN : HandlePaused(r, readable)
    /\ diskAttempts' = [diskAttempts EXCEPT ![r] = 0]
    /\ UNCHANGED <<managed, sessionBound, orphans, firing, fired, restarts, resumes, misfires>>

\* pause() by hand, which is none of the scheduler's business, and its unwinding.
PauseByHand(r) ==
    /\ Quiet
    /\ status[r] = "running"
    /\ status' = [status EXCEPT ![r] = "unwinding"]
    /\ UNCHANGED <<managed, diskAttempts, sessionBound, state, orphans, firing, fired, writes, hits,
                   restarts, resumes, misfires, leftOut>>

Unwound(r) ==
    /\ Quiet
    /\ status[r] = "unwinding"
    /\ status' = [status EXCEPT ![r] = "paused"]
    /\ UNCHANGED <<managed, diskAttempts, sessionBound, state, orphans, firing, fired, writes, hits,
                   restarts, resumes, misfires, leftOut>>

ResumeByHand(r) ==
    /\ Quiet
    /\ status[r] \in Paused \union {"failed"}
    /\ status' = [status EXCEPT ![r] = "running"]
    /\ managed' = managed \union {r}
    /\ diskAttempts' = [diskAttempts EXCEPT ![r] = 0]
    /\ HandleResumed(r)
    /\ resumes' = [resumes EXCEPT ![r] = 0]
    /\ leftOut' = leftOut \ {r}
    /\ UNCHANGED <<sessionBound, orphans, firing, fired, hits, restarts, misfires>>

\* The outbox of a paused run changes: its pause notice is acknowledged or discarded.  The
\* manager writes a record of its own making (persistedStateFor), which knows no counter.
Rewritten(r) ==
    /\ Quiet
    /\ r \in managed
    /\ status[r] \in Paused
    /\ diskAttempts' = [diskAttempts EXCEPT ![r] = 0]
    /\ UNCHANGED <<status, managed, sessionBound, state, orphans, firing, fired, writes, hits,
                   restarts, resumes, misfires, leftOut>>

\* complete, error, stopped and deleted: onTerminal().
Terminal(r) ==
    /\ Quiet
    /\ \/ /\ status[r] = "running"
          /\ \E end \in {"done", "failed"} : status' = [status EXCEPT ![r] = end]
       \/ status[r] \in {"limit", "paused", "running"} /\ status' = [status EXCEPT ![r] = "done"]
       \/ status[r] # "deleted" /\ status' = [status EXCEPT ![r] = "deleted"]
    /\ Cleanup(r)
    /\ leftOut' = leftOut \ {r}
    /\ UNCHANGED <<managed, diskAttempts, sessionBound, orphans, firing, fired, writes, hits,
                   restarts, resumes, misfires>>

\* onTimerFire() up to its await: the spent handle is cleared, the entry stays.
Fire(r) ==
    /\ Quiet
    /\ firing[r] = "no"
    /\ state[r].timer \/ orphans[r] > 0
    /\ orphans' = IF state[r].timer THEN orphans ELSE [orphans EXCEPT ![r] = @ - 1]
    /\ IF state[r].present /\ ~state[r].gaveUp
         THEN /\ state' = [state EXCEPT ![r].timer = FALSE]
              /\ firing' = [firing EXCEPT ![r] = "waiting"]
              /\ fired' = [fired EXCEPT ![r] = state[r].attempts]
         ELSE UNCHANGED <<state, firing, fired>>
    /\ UNCHANGED <<status, managed, diskAttempts, sessionBound, writes, hits, restarts, resumes,
                   misfires, leftOut>>

----------------------------------------------------------------------------
(* Microtasks. *)

\* resume() starts a new execution; its `resumed' event is known to be our own.
ResumeSucceeds(r) ==
    /\ firing[r] = "waiting"
    /\ status[r] \in Paused \union {"failed"}
    /\ status' = [status EXCEPT ![r] = "running"]
    /\ managed' = managed \union {r}
    /\ diskAttempts' = [diskAttempts EXCEPT ![r] = 0]
    /\ HandleResumed(r)
    /\ firing' = [firing EXCEPT ![r] = "resumed"]
    /\ resumes' = [resumes EXCEPT ![r] = @ + 1]
    /\ misfires' = IF status[r] = "limit" /\ r \notin OptedOut THEN misfires
                   ELSE misfires \union {r}
    /\ UNCHANGED <<sessionBound, orphans, fired, hits, restarts, leftOut>>

\* It refuses: the run is not paused, or a lease or the capacity is not to be had.
ResumeRefuses(r) ==
    /\ firing[r] = "waiting"
    /\ status[r] # "unwinding"
    /\ firing' = [firing EXCEPT ![r] = "refused"]
    /\ UNCHANGED <<status, managed, diskAttempts, sessionBound, state, orphans, fired, writes, hits,
                   restarts, resumes, misfires, leftOut>>

\* Mutant: nothing more is done when resume() refuses.
ContinueWithoutRetry(r) ==
    /\ firing[r] \in {"resumed", "refused"}
    /\ firing' = [firing EXCEPT ![r] = "no"]
    /\ UNCHANGED <<status, managed, diskAttempts, sessionBound, state, orphans, fired, writes, hits,
                   restarts, resumes, misfires, leftOut>>

\* The rest of onTimerFire(): a refusal that is not final is tried again, without
\* an attempt being counted.  setTimer() does not look for a timer that is there.
RetryLater(r) ==
    /\ state' = [state EXCEPT ![r] = ArmedEntry(IF @.present THEN @.attempts ELSE fired[r])]
    /\ orphans' = [orphans EXCEPT ![r] = @ + IF state[r].timer THEN 1 ELSE 0]
    /\ UNCHANGED leftOut

\* A run that the listing does not show, or a listing that throws, counts as gone for good.
ForgetUnlisted(r) == Cleanup(r) /\ leftOut' = leftOut \union {r} /\ UNCHANGED orphans

Continue(r) ==
    /\ firing[r] \in {"resumed", "refused"}
    /\ firing' = [firing EXCEPT ![r] = "no"]
    /\ fired' = [fired EXCEPT ![r] = 0]
    /\ \/ firing[r] = "resumed" /\ UNCHANGED <<state, orphans, leftOut>>
       \/ firing[r] = "refused" /\ ForgetUnlisted(r)
       \/ /\ firing[r] = "refused" /\ status[r] \in {"done", "deleted"}
          /\ Cleanup(r) /\ UNCHANGED <<orphans, leftOut>>
       \/ firing[r] = "refused" /\ status[r] \notin {"done", "deleted"} /\ RetryLater(r)
    /\ UNCHANGED <<status, managed, diskAttempts, sessionBound, writes, hits, restarts, resumes,
                   misfires>>

\* The microtask of persistAttempts(): only a paused record is written, and only
\* with its lease, which a running generation holds.  A write that fails is not repeated.
PersistAttempts ==
    /\ writes # <<>>
    /\ writes' = Tail(writes)
    /\ LET w == Head(writes)
       IN  \/ /\ status[w.run] \in Paused
             /\ diskAttempts' = [diskAttempts EXCEPT ![w.run] = w.attempts]
          \/ UNCHANGED diskAttempts
    /\ UNCHANGED <<status, managed, sessionBound, state, orphans, firing, fired, hits, restarts,
                   resumes, misfires, leftOut>>

\* The process ends, with dispose() or without, and another one starts.  What
\* was running is found stale and recovered as paused, for no reason of a limit.
Restart ==
    /\ restarts < MaxRestarts
    /\ restarts' = restarts + 1
    /\ sessionBound' = FALSE
    /\ state' = [r \in LimitedRuns |-> None]
    /\ orphans' = [r \in LimitedRuns |-> 0]
    /\ firing' = [r \in LimitedRuns |-> "no"]
    /\ fired' = [r \in LimitedRuns |-> 0]
    /\ writes' = <<>>
    /\ managed' = {}
    /\ resumes' = [r \in LimitedRuns |-> 0]
    /\ status' = [r \in LimitedRuns |->
                    IF status[r] \in {"running", "unwinding"} THEN "paused" ELSE status[r]]
    /\ UNCHANGED <<diskAttempts, hits, misfires, leftOut>>

SchedulerNext ==
    \/ BindSession
    \/ \E r \in LimitedRuns : HitLimit(r)
    \/ \E r \in LimitedRuns : PauseByHand(r)
    \/ \E r \in LimitedRuns : Unwound(r)
    \/ \E r \in LimitedRuns : ResumeByHand(r)
    \/ \E r \in LimitedRuns : Rewritten(r)
    \/ \E r \in LimitedRuns : Terminal(r)
    \/ \E r \in LimitedRuns : Fire(r)
    \/ \E r \in LimitedRuns : ResumeSucceeds(r)
    \/ \E r \in LimitedRuns : ResumeRefuses(r)
    \/ \E r \in LimitedRuns : Continue(r)
    \/ PersistAttempts
    \/ Restart

\* Microtasks run; the session is bound and timers fire, though other macrotasks come
\* in between; a resume() that is tried again and again is not refused for ever.
SchedulerFairness ==
    /\ SF_schedulerVars(BindSession)
    /\ WF_schedulerVars(PersistAttempts)
    /\ \A r \in LimitedRuns :
        /\ SF_schedulerVars(Fire(r))
        /\ WF_schedulerVars(Continue(r))
        /\ WF_schedulerVars(ResumeSucceeds(r) \/ ResumeRefuses(r))
        /\ SF_schedulerVars(ResumeSucceeds(r))

SchedulerSpec == SchedulerInit /\ [][SchedulerNext]_schedulerVars /\ SchedulerFairness

----------------------------------------------------------------------------
(* Properties. *)

\* In one process, between two resumes by hand, a run is resumed by timers at most
\* maxAttempts times; and a run has one timer, not two (arm, onTimerFire).  A restart may
\* begin the counting anew: the record of an acknowledged pause has lost its counter.
AttemptsAreCapped ==
    /\ \A r \in LimitedRuns : resumes[r] <= MaxAttempts
    /\ \A r \in LimitedRuns : orphans[r] = 0

\* A timer resumes a run that a limit has paused, never one that a human has paused or
\* that has failed, nor one that has opted out (handleResumed, onTerminal).
OnlyLimitPausesResume == misfires = {}

\* A run that a limit has paused does not stay so, unless it has opted out, the scheduler has
\* given it up, or has left it alone: at a full map, or when its record or the listing of
\* the runs could not be read.  Then it is left to the next start or to a human.  A busy
\* lease, an older generation that unwinds, a throwing resume() do not end the retries.
LimitPausesEnd ==
    \A r \in LimitedRuns :
        status[r] = "limit" ~>
            status[r] # "limit" \/ state[r].gaveUp \/ r \in leftOut \union OptedOut
================================================================================
