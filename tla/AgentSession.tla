------------------------------ MODULE AgentSession ------------------------------
(***************************************************************************)
(* WorkflowAgent.run() (src/src/agent.ts) for the agents of one run whose  *)
(* requests begin with the same prefix, and the CacheWarmGate              *)
(* (src/src/workflow.ts) they meet at: one of them, the owner, sends its   *)
(* first request while the provider's cache is cold, and the others wait   *)
(* for the first answer.  An owner that fails before it hands the gate     *)
(* over.  A session is an attempt: it has an AbortSignal of its own.       *)
(*                                                                         *)
(* What a session answers is left out, but for the way it ends: with a     *)
(* result, or with an error.                                               *)
(***************************************************************************)
EXTENDS Integers, Sequences, FiniteSets, SequencesExt

CONSTANTS
    Sessions,
    WithSchema,         \* those that must call structured_output
    MaxSchemaRetries,
    MaxExpiries         \* times the time to live of the cache runs out

ASSUME SessionAssumption ==
    /\ IsFiniteSet(Sessions)
    /\ WithSchema \subseteq Sessions
    /\ MaxSchemaRetries \in Nat
    /\ MaxExpiries \in Nat

VARIABLES
    loader,         \* sharedResourceLoaderPromise
    stage,          \* where run() of each session is
    signalled,      \* sessions whose AbortSignal is aborted
    gate,           \* ownerClaimed and warmed
    gateWaiters,
    granted,        \* what wait() has resolved to, before run() goes on
    holder,         \* cacheWarmOwner /\ ~cacheWarmSettled
    seen,           \* firstAssistantMessageSeen
    captured,       \* sessions that have called structured_output
    repairs,        \* prompts of resolveStructuredOutput()
    expiries

gateVars == <<gate, gateWaiters, granted, holder>>
promptVars == <<seen, captured, repairs>>
sessionVars == <<loader, stage, signalled, gateVars, promptVars, expiries>>

Stages == {"idle", "loading", "creating", "gate", "prompt", "repair", "result", "error"}

SessionTypeOK ==
    /\ loader \in {"none", "building", "built"}
    /\ stage \in [Sessions -> Stages]
    /\ gate \in [claimed: BOOLEAN, warmed: BOOLEAN]
    /\ gateWaiters \in Seq(Sessions)
    /\ granted \in [Sessions -> {"no", "owner", "follower", "rejected"}]
    /\ {signalled, holder, seen, captured} \subseteq SUBSET Sessions
    /\ repairs \in [Sessions -> 0..MaxSchemaRetries]
    /\ expiries \in 0..MaxExpiries

SessionInit ==
    /\ loader = "none"
    /\ stage = [s \in Sessions |-> "idle"]
    /\ signalled = {}
    /\ gate = [claimed |-> FALSE, warmed |-> FALSE]
    /\ gateWaiters = <<>>
    /\ granted = [s \in Sessions |-> "no"]
    /\ holder = {} /\ seen = {} /\ captured = {}
    /\ repairs = [s \in Sessions |-> 0]
    /\ expiries = 0

Goes(s, where) == stage' = [stage EXCEPT ![s] = where]

----------------------------------------------------------------------------
(* Before the session *)

\* Tools, schema and model are settled first; a schema that is not an object, or a model
\* asked for by name that does not resolve, ends the call.  Then the loader all sessions
\* of the run share, which the first of them builds.
Prepare(s) ==
    /\ stage[s] = "idle"
    /\ \/ /\ Goes(s, "error")
          /\ UNCHANGED loader
       \/ /\ Goes(s, IF loader = "built" THEN "creating" ELSE "loading")
          /\ loader' = IF loader = "none" THEN "building" ELSE loader
    /\ UNCHANGED <<signalled, gateVars, promptVars, expiries>>

\* The shared promise settles for all who await it; a failure clears the memo.
LoaderSettles ==
    /\ loader = "building"
    /\ \E built \in BOOLEAN :
        /\ loader' = IF built THEN "built" ELSE "none"
        /\ stage' = [s \in Sessions |->
                        IF stage[s] # "loading" THEN stage[s]
                        ELSE IF built THEN "creating" ELSE "error"]
    /\ UNCHANGED <<signalled, gateVars, promptVars, expiries>>

CreateFails(s) ==
    /\ stage[s] = "creating"
    /\ Goes(s, "error")
    /\ UNCHANGED <<loader, signalled, gateVars, promptVars, expiries>>

----------------------------------------------------------------------------
(* The gate *)

Granted(S, what) == [s \in Sessions |-> IF s \in S THEN what ELSE granted[s]]

\* wait(), once the session exists.  A cache that has outlived its time is cold again.
EnterGate(s) ==
    LET Enter(g) ==
            \/ g.warmed /\ granted' = Granted({s}, "follower") /\ gate' = g /\ UNCHANGED gateWaiters
            \/ /\ ~g.warmed /\ ~g.claimed
               /\ granted' = Granted({s}, "owner")
               /\ gate' = [g EXCEPT !.claimed = TRUE]
               /\ UNCHANGED gateWaiters
            \/ /\ ~g.warmed /\ g.claimed
               /\ gateWaiters' = Append(gateWaiters, s)
               /\ gate' = g
               /\ UNCHANGED granted
    IN  /\ stage[s] = "creating" /\ s \notin signalled
        /\ Goes(s, "gate")
        /\ \/ Enter(gate) /\ UNCHANGED expiries
           \/ /\ gate.warmed /\ expiries < MaxExpiries
              /\ expiries' = expiries + 1
              /\ Enter([claimed |-> FALSE, warmed |-> FALSE])
        /\ UNCHANGED <<loader, signalled, holder, promptVars>>

\* Mutant: nobody is promoted.
ReleaseGateUnclaimed ==
    IF gate.warmed THEN UNCHANGED <<gate, gateWaiters, granted>>
    ELSE gate' = [gate EXCEPT !.claimed = FALSE] /\ UNCHANGED <<gateWaiters, granted>>

\* warm() and release(), on the gate as the handlers of one session leave it.  release()
\* passes over waiters whose signal is aborted: they have left by their listener.
WarmGate ==
    /\ gate' = [claimed |-> TRUE, warmed |-> TRUE]
    /\ granted' = Granted(ToSet(gateWaiters), "follower")
    /\ gateWaiters' = <<>>

ReleaseGate ==
    IF gate.warmed THEN UNCHANGED <<gate, gateWaiters, granted>>
    ELSE /\ gate' = [gate EXCEPT !.claimed = gateWaiters # <<>>]
         /\ granted' = IF gateWaiters = <<>> THEN granted ELSE Granted({Head(gateWaiters)}, "owner")
         /\ gateWaiters' = IF gateWaiters = <<>> THEN <<>> ELSE Tail(gateWaiters)

\* The finally clause of run(): whoever still holds the gate warms it, if an answer had
\* begun or its prompt was completed, and hands it over otherwise.
Finally(s, completed, how) ==
    /\ Goes(s, how)
    /\ IF s \in holder
       THEN /\ IF completed \/ s \in seen THEN WarmGate ELSE ReleaseGate
            /\ holder' = holder \ {s}
       ELSE UNCHANGED gateVars

\* What follows the gate.  An owner learns of an abort only here.
LeaveGate(s) ==
    /\ stage[s] = "gate" /\ granted[s] # "no"
    /\ LET owns == granted[s] = "owner"
       IN  IF granted[s] = "rejected" \/ s \in signalled
           THEN /\ Goes(s, "error")
                /\ IF owns THEN ReleaseGate ELSE UNCHANGED <<gate, gateWaiters, granted>>
                /\ UNCHANGED holder
           ELSE /\ Goes(s, "prompt")
                /\ holder' = IF owns THEN holder \cup {s} ELSE holder
                /\ UNCHANGED <<gate, gateWaiters, granted>>
    /\ UNCHANGED <<loader, signalled, promptVars, expiries>>

\* A session whose signal is aborted before it reaches the gate.
AbortedBeforeGate(s) ==
    /\ stage[s] = "creating" /\ s \in signalled
    /\ Goes(s, "error")
    /\ UNCHANGED <<loader, signalled, gateVars, promptVars, expiries>>

----------------------------------------------------------------------------
(* Prompts *)

\* message_start of the first answer.
FirstAnswer(s) ==
    /\ stage[s] \in {"prompt", "repair"} /\ s \notin seen
    /\ seen' = seen \cup {s}
    /\ IF s \in holder THEN WarmGate /\ holder' = holder \ {s} ELSE UNCHANGED gateVars
    /\ UNCHANGED <<loader, stage, signalled, captured, repairs, expiries>>

CallsStructuredOutput(s) ==
    /\ s \in WithSchema \ captured
    /\ stage[s] \in {"prompt", "repair"}
    /\ captured' = captured \cup {s}
    /\ UNCHANGED <<loader, stage, signalled, gateVars, seen, repairs, expiries>>

\* session.prompt() throws.
PromptThrows(s) ==
    /\ stage[s] \in {"prompt", "repair"}
    /\ Finally(s, stage[s] = "repair", "error")
    /\ UNCHANGED <<loader, signalled, promptVars, expiries>>

\* resolveStructuredOutput() as far as the next prompt: there is one while the tool has not
\* been called, retries are left and the signal is not aborted.  Without a call, text that
\* fits the schema is taken for the result, but not on an aborted signal.
Resolve(s, tries) ==
    \/ s \in captured /\ Finally(s, TRUE, "result") /\ UNCHANGED repairs
    \/ /\ s \notin captured /\ s \notin signalled
       /\ tries < MaxSchemaRetries
       /\ Goes(s, "repair")
       /\ repairs' = [repairs EXCEPT ![s] = tries + 1]
       /\ UNCHANGED gateVars
    \/ /\ s \notin captured
       /\ s \in signalled \/ tries = MaxSchemaRetries
       /\ \E how \in IF s \in signalled THEN {"error"} ELSE {"result", "error"} :
            Finally(s, TRUE, how)
       /\ UNCHANGED repairs

\* A prompt is completed.  After the first, an aborted signal, a provider's limit or error
\* buried in the answer, and an answer without text end the call.
PromptCompletes(s) ==
    /\ \/ stage[s] = "prompt" /\ Finally(s, TRUE, "error") /\ UNCHANGED repairs
       \/ /\ stage[s] = "prompt" /\ s \notin signalled
          /\ IF s \in WithSchema THEN Resolve(s, 0)
                                 ELSE Finally(s, TRUE, "result") /\ UNCHANGED repairs
       \/ stage[s] = "repair" /\ Resolve(s, repairs[s])
    /\ UNCHANGED <<loader, signalled, seen, captured, expiries>>

\* The signal: a waiter at the gate leaves the queue and its wait is rejected.
Signal(s) ==
    /\ stage[s] \notin {"result", "error"} /\ s \notin signalled
    /\ signalled' = signalled \cup {s}
    /\ \/ \E i \in 1 .. Len(gateWaiters) :
            /\ gateWaiters[i] = s
            /\ gateWaiters' = RemoveAt(gateWaiters, i)
            /\ granted' = Granted({s}, "rejected")
       \/ s \notin ToSet(gateWaiters) /\ UNCHANGED <<gateWaiters, granted>>
    /\ UNCHANGED <<loader, stage, gate, holder, promptVars, expiries>>

----------------------------------------------------------------------------
GoesOn(s) ==
    \/ Prepare(s) \/ CreateFails(s) \/ EnterGate(s) \/ LeaveGate(s) \/ AbortedBeforeGate(s)
    \/ PromptThrows(s) \/ PromptCompletes(s)

SessionNext ==
    \/ LoaderSettles
    \/ \E s \in Sessions :
        GoesOn(s) \/ FirstAnswer(s) \/ CallsStructuredOutput(s) \/ Signal(s)

\* The host builds or fails to build the loader and the sessions, and every prompt ends:
\* by an answer, an error, or the abort a timeout brings.
SessionFairness ==
    /\ WF_sessionVars(LoaderSettles)
    /\ \A s \in Sessions : WF_sessionVars(GoesOn(s))

SessionSpec == SessionInit /\ [][SessionNext]_sessionVars /\ SessionFairness

----------------------------------------------------------------------------
\* The session on whose first answer the others wait, or will.
GateOwners == holder \cup {s \in Sessions : stage[s] = "gate" /\ granted[s] = "owner"}

\* While agents wait at the gate there is one, and only one, on whose answer or failure
\* they wait: an owner that is still alive.  While the cache is cold there is at most one
\* owner (`promotes exactly one follower', CacheWarmGate).
GateHasOwner ==
    /\ Cardinality(GateOwners) =< 1
    /\ gateWaiters # <<>> => GateOwners # {}
    /\ gate.claimed /\ ~gate.warmed <=> GateOwners # {}
    /\ \A s \in GateOwners : stage[s] \in {"gate", "prompt", "repair"}

\* Nobody waits at the gate for ever: owners that fail, time out or abort, in any order,
\* hand it on.
GateLetsGo ==
    \A s \in Sessions : s \in ToSet(gateWaiters) ~> s \notin ToSet(gateWaiters)
================================================================================
