----------------------------- MODULE MCRuntimeStale -----------------------------
(* A run of two calls whose script is edited between its executions. *)
EXTENDS WorkflowRuntime

CONSTANTS k1, v1

ValueSizes == v1 :> 1
OneCallEach == <<1, 1>>
FirstCallEdited == {<<"p", "q">>, <<"edited", "q">>}
WritesOfFirst == << <<Entry(k1, v1)>>, <<>> >>
NoAsks == {}
================================================================================
