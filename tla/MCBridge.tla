------------------------------- MODULE MCBridge -------------------------------
(* Model checking of DeliveryBridge: two deliveries, of which one reports the end *)
(* of a run, and a few kinds of trouble that a behaviour may meet.                *)
EXTENDS DeliveryBridge

CONSTANTS d1, d2

Budget(faults, escapes, mutations, reloads, restarts) ==
    [faults |-> faults, escapes |-> escapes, mutations |-> mutations,
     reloads |-> reloads, restarts |-> restarts]

\* A failure and an Esc; a compaction or a change of the branch, before or after a reload of
\* the extension; a reload and a restart of the process.
MCBudgets == {Budget(1, 1, 0, 0, 0), Budget(0, 0, 1, 1, 0), Budget(0, 0, 0, 1, 1)}

\* One failure, two changes of the branch and a reload.
MCBranchesAndReload == {Budget(1, 0, 2, 1, 0)}

\* One reload, one restart and nothing else.
MCReloadAndRestart == {Budget(0, 0, 0, 1, 1)}
================================================================================
