------------------------------ MODULE TokenAccounts ------------------------------
(* What a run has spent: the counter that the engine enforces budgets with (agentImpl() of   *)
(* src/workflow.ts) and the aggregate of the manager, which is what a resume starts from.     *)
(* An attempt is charged when its call judges it, with an estimate if the usage is not known   *)
(* yet; the provider may report it later, while a retry is under way or, in vain, after the     *)
(* run has begun to close, which an abort does at once.                                         *)
EXTENDS Integers, Counting

CONSTANTS
    Calls,          \* calls of agent()
    MaxTries,       \* attempts of each call
    Estimate,       \* tokens estimated from prompt and result
    Amounts,        \* usage a provider may report, 0 for an unusable one
    TokenBudget,
    MaxExecutions,  \* bound: executions of the run
    Unknown

ASSUME AccountAssumption ==
    /\ IsFiniteSet(Calls)
    /\ MaxTries \in [Calls -> Nat \ {0}] /\ Amounts \subseteq Nat
    /\ Estimate \in Nat /\ Unknown \notin Nat

VARIABLES
    account,    \* AttemptAccounting of the attempts of a call
    call,       \* state of a call, and its attempt
    spent,      \* shared.spent
    reported,   \* snapshot.tokenUsage.total of the manager
    seed,       \* what the execution started from
    gateState,  \* shared.admission
    callsAborted, executions
accountVars == <<account, call, spent, reported, seed, gateState, callsAborted, executions>>

TryNumbers == UNION {1 .. MaxTries[c] : c \in Calls}
NewAttempt ==
    [tracked |-> FALSE, live |-> FALSE, usage |-> Unknown, accounted |-> FALSE, tokens |-> 0,
     usedFallback |-> FALSE, retryPending |-> FALSE, told |-> Unknown]

AccountInit ==
    /\ account = [c \in Calls |-> [k \in TryNumbers |-> NewAttempt]]
    /\ call = [c \in Calls |-> [state |-> "idle", try |-> 0]]
    /\ spent = 0 /\ reported = 0 /\ seed = 0
    /\ gateState = "open" /\ callsAborted = FALSE /\ executions = 1

\* recordTokens(): an attempt is charged once.
Recorded(x) ==
    IF x.accounted THEN x
    ELSE [x EXCEPT !.accounted = TRUE,
                   !.tokens = IF x.usage = Unknown \/ x.usage = 0 THEN Estimate ELSE x.usage,
                   !.usedFallback = x.usage \in {Unknown, 0}]

\* onUsage(): the real usage takes the place of an estimate.  A second report is ignored, and so
\* is one once the run closes: an attempt that is aborted before its usage is known is marked
\* accountWhenUsageArrives, but by then admission is no longer open, and nothing is charged.
Reported(x, n) ==
    LET y == [x EXCEPT !.usage = n]
    IN IF x.accounted /\ x.usedFallback
       THEN [y EXCEPT !.tokens = IF n > 0 THEN n ELSE @, !.usedFallback = FALSE]
       ELSE y

\* notifyRetrySpend(): the spend of an attempt that was retried, once its provider is done.
Notified(x) ==
    IF x.retryPending /\ x.told = Unknown /\ ~x.live /\ x.accounted /\ gateState = "open"
    THEN [x EXCEPT !.told = x.tokens] ELSE x

Amount(v) == IF v = Unknown THEN 0 ELSE v

\* An attempt becomes y: the counter and the aggregate follow.
Becomes(c, k, y) ==
    LET x == account[c][k]
    IN /\ account' = [account EXCEPT ![c][k] = y]
       /\ spent' = spent - x.tokens + y.tokens
       /\ reported' = reported - Amount(x.told) + Amount(y.told)

\* The gates of agent(): admission and the budget of the run.  That of a phase, which refuses
\* some more of the calls, is left out.
StartCall(c) ==
    /\ call[c].state = "idle" /\ gateState = "open" /\ ~callsAborted
    /\ spent < TokenBudget
    /\ call' = [call EXCEPT ![c] = [state |-> "on", try |-> 1]]
    /\ UNCHANGED <<account, spent, reported, seed, gateState, callsAborted, executions>>

LaunchTry(c) ==
    LET k == call[c].try
    IN /\ call[c].state = "on" /\ ~account[c][k].tracked /\ gateState = "open" /\ ~callsAborted
       /\ account' = [account EXCEPT ![c][k].tracked = TRUE, ![c][k].live = TRUE]
       /\ UNCHANGED <<call, spent, reported, seed, gateState, callsAborted, executions>>

ReportUsage(c, k, n) ==
    /\ account[c][k].live /\ gateState = "open" /\ account[c][k].usage = Unknown
    /\ Becomes(c, k, Reported(account[c][k], n))
    /\ UNCHANGED <<call, seed, gateState, callsAborted, executions>>

SpentUp(c) == call' = [call EXCEPT ![c].state = "ended"]

\* A result: it is charged and told with the end of the call.
ChargeResult(c) ==
    LET k == call[c].try
        y == Recorded([account[c][k] EXCEPT !.live = FALSE])
    IN /\ call[c].state = "on" /\ account[c][k].live /\ ~callsAborted /\ gateState # "closed"
       /\ Becomes(c, k, [y EXCEPT !.told = y.tokens])
       /\ call' = [call EXCEPT ![c].state = "done"]
       /\ UNCHANGED <<seed, gateState, callsAborted, executions>>

\* An attempt fails: by its answer, before it was launched, or by a timeout with the provider
\* still at work.  A retry starts, or the call ends and the attempt is told.
ChargeFailure(c, late, recoverable) ==
    LET k == call[c].try
        x == account[c][k]
        y == Recorded([x EXCEPT !.live = x.live /\ late])
        retry == recoverable /\ k < MaxTries[c]
    IN /\ call[c].state = "on" /\ ~callsAborted /\ gateState # "closed"
       /\ late => x.live /\ recoverable
       /\ Becomes(c, k, IF retry THEN Notified([y EXCEPT !.retryPending = TRUE])
                        ELSE [y EXCEPT !.told = y.tokens])
       /\ IF retry THEN call' = [call EXCEPT ![c].try = k + 1] ELSE SpentUp(c)
       /\ UNCHANGED <<seed, gateState, callsAborted, executions>>

\* Mutant: an abort ends the call without charging the usage that is known.
AbortUncharged(c) ==
    /\ call[c].state = "on" /\ callsAborted
    /\ call' = [call EXCEPT ![c].state = "aborted"]
    /\ UNCHANGED <<account, spent, reported, seed, gateState, callsAborted, executions>>
\* An abort ends the call.  Usage that is known by then is charged.
ChargeAbort(c) ==
    LET k == call[c].try
        x == account[c][k]
    IN /\ call[c].state = "on" /\ callsAborted
       /\ Becomes(c, k, IF x.usage # Unknown THEN Recorded(x) ELSE x)
       /\ call' = [call EXCEPT ![c].state = "aborted"]
       /\ UNCHANGED <<seed, gateState, callsAborted, executions>>

\* The provider of an attempt that its call no longer waits for is done.
LateProviderEnds(c, k) ==
    /\ account[c][k].live /\ (call[c].state # "on" \/ call[c].try # k)
    /\ Becomes(c, k, Notified([account[c][k] EXCEPT !.live = FALSE]))
    /\ UNCHANGED <<call, seed, gateState, callsAborted, executions>>

\* Pause, stop or the deadline.
AbortSpending ==
    /\ ~callsAborted /\ gateState # "closed"
    /\ callsAborted' = TRUE /\ gateState' = "closing"
    /\ UNCHANGED <<account, call, spent, reported, seed, executions>>

\* The script returns, or throws, which aborts the calls it does not wait for.
ScriptEnds ==
    /\ gateState = "open" /\ gateState' = "closing"
    /\ callsAborted' \in BOOLEAN
    /\ UNCHANGED <<account, call, spent, reported, seed, executions>>

\* Once the calls are done (those that outlive the grace period of the drain are left out)
\* onTokenUsage() replaces the aggregate by the counter.
TotalReported ==
    /\ gateState = "closing" /\ gateState' = "closed"
    /\ \A c \in Calls : call[c].state # "on"
    /\ reported' = spent
    /\ UNCHANGED <<account, call, spent, seed, callsAborted, executions>>

\* resume(): the aggregate is the seed, and calls with a journal entry are not charged again.
ResumeSpending ==
    /\ gateState = "closed" /\ executions < MaxExecutions
    /\ executions' = executions + 1
    /\ account' = [c \in Calls |-> [k \in TryNumbers |-> NewAttempt]]
    /\ call' = [c \in Calls |->
                   [state |-> IF call[c].state \in {"done", "replayed"} THEN "replayed" ELSE "idle",
                    try |-> 0]]
    /\ seed' = reported /\ spent' = reported
    /\ gateState' = "open" /\ callsAborted' = FALSE
    /\ UNCHANGED reported

AccountNext ==
    \/ \E c \in Calls : StartCall(c) \/ LaunchTry(c) \/ ChargeResult(c) \/ ChargeAbort(c)
    \/ \E c \in Calls, k \in TryNumbers, n \in Amounts : ReportUsage(c, k, n)
    \/ \E c \in Calls, late, recoverable \in BOOLEAN : ChargeFailure(c, late, recoverable)
    \/ \E c \in Calls, k \in TryNumbers : LateProviderEnds(c, k)
    \/ AbortSpending \/ ScriptEnds \/ TotalReported \/ ResumeSpending

AccountSpec == AccountInit /\ [][AccountNext]_accountVars

-----------------------------------------------------------------------------
Attempted == Calls \X TryNumbers
\* How the attempts of this execution went, told from their calls and not from the accounts:
\* an attempt failed when its call went on to the next one, and the last one ended the call.
WasJudged(c, k) ==
    \/ k < call[c].try
    \/ k = call[c].try /\ call[c].state \in {"done", "ended"}
WasAborted(c, k) == k = call[c].try /\ call[c].state = "aborted"
\* What an attempt has to cost: the usage reported while the run was open; without a usable one
\* the estimate; nothing if it was aborted before its usage was reported.
Due(c, k) ==
    LET usage == account[c][k].usage
    IN IF WasJudged(c, k) \/ (WasAborted(c, k) /\ usage # Unknown)
       THEN IF usage \in Amounts \ {0} THEN usage ELSE Estimate
       ELSE 0
Dues == [a \in Attempted |-> Due(a[1], a[2])]
ToldSpends == [a \in Attempted |-> Amount(account[a[1]][a[2]].told)]

\* Every attempt that its call judged (a result, a retry, a failure) is charged once, with the
\* usage reported while the run was open or else the estimate, whatever order timeout, retry,
\* late usage, abort and closing come in.  An aborted attempt is charged only what was reported
\* before the abort: later usage is dropped (a comment of the code expects it to be charged).
\* The aggregate a resume starts from has every attempt at most once and the counter in the
\* end; and a retried attempt is told with its final amount.
SpendingIsAccounted ==
    /\ spent = seed + Total(Dues, Attempted)
    /\ reported = IF gateState = "closed" THEN spent ELSE seed + Total(ToldSpends, Attempted)
    /\ \A c \in Calls, k \in TryNumbers :
        LET x == account[c][k]
        IN x.retryPending /\ ~x.live /\ x.told # Unknown => x.told = Due(c, k)
===============================================================================
