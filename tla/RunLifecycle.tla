------------------------------ MODULE RunLifecycle ------------------------------
(***************************************************************************)
(* What a run promises whoever watches its record, however many processes, *)
(* crashes and failed writes it goes through: at most one generation       *)
(* executes; only resume() makes a record `running' again, and only when   *)
(* nothing executes; `completed' and `failed' are published at the end of  *)
(* an execution or after it, never beside it; `completed', `aborted' and   *)
(* deleted are final; the journal of a run that can be resumed never       *)
(* shrinks.                                                                *)
(***************************************************************************)
EXTENDS Naturals

CONSTANT Generations

VARIABLES
    record,     \* the status and the length of the journal
    executing   \* the generations that execute

lifecycleVars == <<record, executing>>

CanBeResumed == {"running", "paused", "failed"}

LifecycleInit ==
    /\ record = [status |-> "none", journal |-> 0]
    /\ executing = {}

\* A record that can still be resumed is replaced by one with one of statuses S.
Republished(S) ==
    /\ record.status \in CanBeResumed
    /\ record'.status \in S
    /\ record'.journal >= record.journal

\* A generation starts the run or resumes it.
Begin(g) ==
    /\ executing = {}
    /\ record.status \in CanBeResumed \union {"none"}
    /\ executing' = {g}
    /\ record' = [record EXCEPT !.status = "running"]

\* Progress, a pause or a stop of the generation that executes.
Checkpoint ==
    /\ executing # {}
    /\ Republished({record.status, "paused", "aborted"})
    /\ UNCHANGED executing

\* It ends, and its last write may be lost.
End ==
    /\ executing # {}
    /\ executing' = {}
    /\ \/ Republished({"completed", "failed", "paused", "aborted"})
       \/ UNCHANGED record

\* A write after the end: a stop, a recovery, or one that was lost before.
Amend ==
    /\ executing = {}
    /\ Republished({record.status, "failed", "paused", "aborted"})
    /\ UNCHANGED executing

\* The run is deleted, even while it executes.
Remove ==
    /\ record.status # "none"
    /\ record' = [record EXCEPT !.status = "absent"]
    /\ UNCHANGED executing

LifecycleNext ==
    \/ \E g \in Generations : Begin(g)
    \/ Checkpoint \/ End \/ Amend \/ Remove

LifecycleSpec == LifecycleInit /\ [][LifecycleNext]_lifecycleVars

==============================================================================
