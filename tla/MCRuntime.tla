------------------------------- MODULE MCRuntime -------------------------------
(* A run with its executions, and a store with its delta windows, each by itself. *)
EXTENDS WorkflowRuntime, SharedStore

CONSTANTS k1, k2, v1, v2

VARIABLE part

ValueSizes == v1 :> 1 @@ v2 :> 2
StagesOfLanes == <<2, 1, 2>>
ScriptVersions == {<<"p", "q", "q">>, <<"p", "edited", "q">>}
WritesOfLanes == << <<Entry(k1, v1)>>, <<Entry(k2, v2), Entry(k1, v2)>>, <<Entry(k1, v2)>> >>
SavedContents == {<<>>, <<Entry(k1, v2), Entry(k2, v1)>>}
LastStageAsks == {<<3, 2>>}

Init ==
    /\ RuntimeInit
    /\ StoreInit
    /\ part \in {"run", "store"}
    /\ script = <<"p", "q", "q">>

InRun(step) == part = "run" /\ step /\ UNCHANGED <<storeVars, part>>
InStore(step) == part = "store" /\ step /\ UNCHANGED <<runtimeVars, part>>

Next ==
    \/ \E l \in Lanes : InRun(StartNested(l))
    \/ \E l \in Lanes : InRun(Replay(l))
    \/ \E l \in Lanes : InRun(Ask(l))
    \/ \E l \in Lanes : InRun(Go(l))
    \/ \E l \in Lanes : InRun(Breach(l))
    \/ \E l \in Lanes, r \in Results : InRun(Finish(l, r))
    \/ \E l \in Lanes : InRun(Exhaust(l))
    \/ \E l \in Lanes : InRun(Throw(l))
    \/ \E l \in Lanes, r \in Results : InRun(Answer(l, r))
    \/ \E l \in Lanes : InRun(Leave(l))
    \/ \E l \in Lanes : InRun(Settle(l))
    \/ \E l \in Lanes : InRun(Advance(l))
    \/ InRun(Interrupt)
    \/ InRun(Escape)
    \/ InRun(Complete)
    \/ InRun(Drained)
    \/ InRun(Resume)
    \/ \E k \in Keys, v \in Values : InStore(Put(k, v))
    \/ \E w \in Windows, k \in Keys, v \in Values : InStore(TrackPut(w, k, v))
    \/ \E w \in Windows : InStore(CommitDelta(w))
    \/ \E w \in Windows : InStore(DiscardDelta(w))
    \/ \E delta \in Deltas : InStore(ApplyDelta(delta))
    \/ \E snapshot \in Snapshots : InStore(Restore(snapshot))
    \/ InStore(Dispose)

Spec ==
    /\ Init
    /\ [][Next]_<<runtimeVars, storeVars, part>>
    /\ WF_<<runtimeVars, storeVars, part>>(
            part = "run" /\ RuntimeProgress /\ UNCHANGED <<storeVars, part>>)

\* Every execution of the run ends, if it is the run that is looked at.
RunEnds == part = "run" => ExecutionsEnd

================================================================================
