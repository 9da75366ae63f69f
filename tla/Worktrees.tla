------------------------------- MODULE Worktrees -------------------------------
(* worktree.ts: the checkout that one agent() call works in, and those who may    *)
(* take it away.  Its name is made of the run, the generation, the call index and *)
(* the label, so that no other call ever has a checkout of that name; what comes  *)
(* together over it is the process that made it and the processes that reap at    *)
(* their own createWorktree().  Every git command and every write is a step; a    *)
(* process may die between any two.  Ages of markers and claims are not counted:  *)
(* whether five minutes have gone by is a choice, made once the writer is dead.   *)
EXTENDS Naturals, FiniteSets

CONSTANTS
    Maker,        \* the process whose agent works in the checkout
    Reapers,      \* the processes that reap meanwhile
    NoProc,
    MaxFaults     \* bound on git commands, writes and unlinks that fail (a death is none)

ASSUME WorktreeAssumption == Maker \notin Reapers /\ NoProc \notin Reapers \cup {Maker}

WorkProcs == Reapers \cup {Maker}

VARIABLES
    checkout,   \* the directory: where it is and whether it holds the owner file
    branch,     \* where the branch is and whether its config names the owner
    entry,      \* the path git has registered for the branch's worktree
    marker,     \* the reclaim marker
    claim,      \* for each path of a checkout, the process that wrote the claim file
    prey,       \* the path each process removes or prunes
    at,         \* where each process stands; "dead" once it has died
    lenient,    \* processes whose removal goes without the missing proofs
    asked,      \* somebody who may was told to remove the checkout
    finished,   \* createWorktree() has handed the checkout to its agent
    workFaults

workVars ==
    <<checkout, branch, entry, marker, claim, prey, at, lenient, asked, finished, workFaults>>

NoMarker == [state |-> "none", by |-> NoProc]

WorktreeInit ==
    /\ checkout = [at |-> "none", sidecar |-> FALSE]
    /\ branch = [at |-> "none", owned |-> FALSE]
    /\ entry = "none"
    /\ marker = NoMarker
    /\ claim = [path \in {"home", "aside"} |-> NoProc]
    /\ prey = [p \in WorkProcs |-> "home"]
    /\ at = [p \in WorkProcs |-> IF p = Maker THEN "mark" ELSE "scan"]
    /\ lenient = Reapers
    /\ asked = FALSE
    /\ finished = FALSE
    /\ workFaults = 0

Dead(p) == p # NoProc /\ at[p] = "dead"
Fault == workFaults < MaxFaults /\ workFaults' = workFaults + 1
NoFault == UNCHANGED workFaults
Goes(p, step) == at' = [at EXCEPT ![p] = step]
Tree == <<checkout, branch, entry>>
Claims == <<claim, prey>>
Intent == <<lenient, asked, finished>>
SetClaim(p, who) == claim' = [claim EXCEPT ![prey[p]] = who]

------------------------------------------------------------------------------
(* createWorktree(). *)

WriteMarker ==
    /\ at[Maker] = "mark"
    /\ \/ marker' = [state |-> "creating", by |-> Maker] /\ Goes(Maker, "add") /\ NoFault
       \/ Goes(Maker, "over") /\ UNCHANGED marker /\ Fault
    /\ UNCHANGED <<Tree, Claims, Intent>>

AddWorktree ==
    /\ at[Maker] = "add"
    /\ checkout' = [at |-> "home", sidecar |-> FALSE]
    /\ branch' = [at |-> "home", owned |-> FALSE]
    /\ entry' = "home"
    /\ Goes(Maker, "config")
    /\ UNCHANGED <<marker, Claims, Intent, workFaults>>

\* A `worktree add' that fails, or is killed by its timeout, may leave what it made so far.
\* Its marker goes all the same: "preserve any ambiguous Git artifacts for a later
\* owner-verified cleanup pass", which nothing leads to any more.
AddFails ==
    /\ at[Maker] = "add"
    /\ \/ UNCHANGED Tree
       \/ /\ branch' = [at |-> "home", owned |-> FALSE]
          /\ \/ UNCHANGED <<checkout, entry>>
             \/ entry' = "home" /\ checkout' \in {checkout, [at |-> "home", sidecar |-> FALSE]}
    /\ Goes(Maker, "give-up")
    /\ Fault
    /\ UNCHANGED <<marker, Claims, Intent>>

GiveUp ==
    /\ at[Maker] = "give-up"
    /\ \/ marker' = NoMarker /\ NoFault
       \/ UNCHANGED marker /\ Fault
    /\ Goes(Maker, "over")
    /\ UNCHANGED <<Tree, Claims, Intent>>

MetadataFails(byFault) ==
    /\ IF byFault THEN Fault ELSE NoFault
    /\ marker' = [marker EXCEPT !.state = IF @ = "none" THEN @ ELSE "metadata-failed"]
    /\ lenient' = lenient \cup {Maker}
    /\ asked' = TRUE
    /\ Goes(Maker, "claim")
    /\ UNCHANGED finished

MarkBranch ==
    /\ at[Maker] = "config"
    /\ \/ /\ branch' = [branch EXCEPT !.owned = TRUE]
          /\ Goes(Maker, "sidecar")
          /\ UNCHANGED <<marker, Intent, workFaults>>
       \/ MetadataFails(TRUE) /\ UNCHANGED branch
    /\ UNCHANGED <<checkout, entry, Claims>>

WriteSidecar ==
    /\ at[Maker] = "sidecar"
    /\ \/ /\ checkout.at = "home"
          /\ checkout' = [checkout EXCEPT !.sidecar = TRUE]
          /\ finished' = TRUE
          /\ Goes(Maker, "work")
          /\ \/ marker' = NoMarker /\ NoFault
             \/ UNCHANGED marker /\ Fault
          /\ UNCHANGED <<lenient, asked>>
       \/ MetadataFails(checkout.at = "home") /\ UNCHANGED checkout
    /\ UNCHANGED <<branch, entry, Claims>>

\* workflow.ts: the providers of the call have settled, at once or late.
CallIsOver ==
    /\ at[Maker] = "work"
    /\ asked' = TRUE
    /\ Goes(Maker, "claim")
    /\ UNCHANGED <<Tree, marker, Claims, lenient, finished, workFaults>>

------------------------------------------------------------------------------
(* removeWorktreeInternal(), by the maker or by a reaper. *)

OwnerOf == IF branch.at = "home" /\ branch.owned THEN "token" ELSE "null"
BranchProves(p) == OwnerOf = "token" \/ p \in lenient

\* isRegisteredWorktree() looks for a substring: the path aside begins with home's.
IsRegistered(where) ==
    /\ branch.at = "home"
    /\ entry = where \/ (where = "home" /\ entry = "aside")

\* ownedByInvocation() for the directory `where'.
Owned(p, where) ==
    /\ checkout.at = where => (checkout.sidecar \/ p \in lenient)
    /\ BranchProves(p)
    /\ IsRegistered(where)

Rests(p) == IF p = Maker THEN "over" ELSE "scan"

\* The claim file is opened exclusively; the stale one of a dead process is read,
\* and unlinked in a second step whatever it has become.
ClaimRemoval(p, path, held, stop) ==
    /\ prey' = [prey EXCEPT ![p] = path]
    /\ \/ /\ claim[path] = NoProc
          /\ claim' = [claim EXCEPT ![path] = p]
          /\ Goes(p, held) /\ NoFault
       \/ /\ claim[path] # NoProc /\ ~Dead(claim[path])
          /\ UNCHANGED claim /\ Goes(p, stop) /\ NoFault
       \/ /\ Dead(claim[path])
          /\ UNCHANGED claim /\ NoFault
          /\ Goes(p, IF held = "check" THEN "steal" ELSE "steal-orphan")
       \/ UNCHANGED claim /\ Goes(p, stop) /\ Fault

TakeClaim(p) ==
    /\ at[p] = "claim"
    /\ ClaimRemoval(p, "home", "check", Rests(p))
    /\ UNCHANGED <<Tree, marker, Intent>>

StealClaim(p) ==
    /\ at[p] \in {"steal", "steal-orphan"}
    /\ IF claim[prey[p]] = NoProc
       THEN UNCHANGED claim /\ Goes(p, IF at[p] = "steal" THEN Rests(p) ELSE "markers")
       ELSE SetClaim(p, p) /\ Goes(p, IF at[p] = "steal" THEN "check" ELSE "orphan")
    /\ UNCHANGED <<Tree, marker, prey, Intent, workFaults>>

\* Mutant: the checkout goes before the intent to clean up is written down.
NoCleanupMarker(p) == marker

\* ensureCleanupReclaimMarker().
CleanupMarker(p) ==
    [state |-> "cleanup", by |-> IF marker.state = "none" THEN p ELSE marker.by]

\* The proofs, and the intent to clean up, made durable before anything goes.
CheckAndMark(p) ==
    /\ at[p] = "check"
    /\ \/ /\ Owned(p, "home")
          /\ marker' = CleanupMarker(p)
          /\ Goes(p, "move")
          /\ UNCHANGED <<claim, workFaults>>
       \/ /\ \/ ~Owned(p, "home") /\ NoFault
             \/ Fault
          /\ SetClaim(p, NoProc)
          /\ Goes(p, Rests(p))
          /\ UNCHANGED marker
    /\ UNCHANGED <<Tree, prey, Intent>>

\* The directory goes aside in one rename; or it is gone and its entry is pruned.
MoveAside(p) ==
    /\ at[p] = "move"
    /\ checkout.at = "home"
    /\ \/ /\ checkout' = [checkout EXCEPT !.at = "aside"]
          /\ Goes(p, IF checkout.sidecar \/ p \in lenient THEN "repair" ELSE "restore")
          /\ NoFault
       \/ UNCHANGED checkout /\ Goes(p, "release") /\ Fault
    /\ UNCHANGED <<branch, entry, marker, Claims, Intent>>

Pruned == IF entry # checkout.at THEN "none" ELSE entry

Prune(p) ==
    /\ at[p] = "move"
    /\ checkout.at # "home"
    /\ UNCHANGED <<checkout, branch, marker, Claims, Intent>>
    /\ \/ /\ entry' = Pruned
          /\ Goes(p, IF IsRegistered("home")' /\ BranchProves(p) THEN "release" ELSE "rename")
          /\ NoFault
       \/ UNCHANGED entry /\ Goes(p, "release") /\ Fault

Repair(p) ==
    /\ at[p] = "repair"
    /\ \/ /\ entry # "none" /\ checkout.at = "aside"
          /\ entry' = "aside"
          /\ Goes(p, IF BranchProves(p) /\ branch.at = "home" THEN "remove" ELSE "restore")
          /\ NoFault
       \/ UNCHANGED entry /\ Goes(p, "restore") /\ NoFault /\ (entry = "none" \/ checkout.at # "aside")
       \/ UNCHANGED entry /\ Goes(p, "restore") /\ Fault
    /\ UNCHANGED <<checkout, branch, marker, Claims, Intent>>

\* A removal that fails, or is killed, may have taken the owner file or the whole directory
\* with it, and leaves the entry.
RemoveCheckout(p) ==
    /\ at[p] = "remove"
    /\ \/ /\ entry = "aside" /\ checkout.at = "aside"
          /\ checkout' = [at |-> "none", sidecar |-> FALSE]
          /\ entry' = "none"
          /\ Goes(p, "rename")
          /\ NoFault
       \/ /\ entry # "aside" \/ checkout.at # "aside"
          /\ Goes(p, "restore")
          /\ UNCHANGED <<checkout, entry>> /\ NoFault
       \/ /\ \/ UNCHANGED checkout
             \/ /\ entry = "aside" /\ checkout.at = "aside"
                /\ checkout' \in {[at |-> "aside", sidecar |-> FALSE], [at |-> "none", sidecar |-> FALSE]}
          /\ Goes(p, "restore")
          /\ UNCHANGED entry /\ Fault
    /\ UNCHANGED <<branch, marker, Claims, Intent>>

PutBack(p) ==
    /\ at[p] = "restore"
    /\ \/ /\ checkout.at = "aside"
          /\ checkout' = [checkout EXCEPT !.at = "home"]
          /\ \/ entry' = (IF entry = "none" THEN entry ELSE "home") /\ NoFault
             \/ UNCHANGED entry /\ Fault
       \/ /\ UNCHANGED <<checkout, entry>>
          /\ IF checkout.at = "aside" THEN Fault ELSE NoFault
    /\ Goes(p, "release")
    /\ UNCHANGED <<branch, marker, Claims, Intent>>

------------------------------------------------------------------------------
(* deleteOwnedBranch(): the branch is renamed, looked at again, and deleted. *)

Proves(p) == OwnerOf = "token" \/ (p \in lenient /\ at[p] = "rename")

RenameBranch(p) ==
    /\ at[p] \in {"rename", "orphan-rename"}
    /\ \/ /\ branch.at = "home" /\ Proves(p)
          /\ branch' = [branch EXCEPT !.at = "tomb"]
          /\ Goes(p, IF at[p] = "rename" THEN "delete" ELSE "orphan-delete")
          /\ NoFault
       \/ /\ branch.at # "home" /\ Proves(p)
          /\ Goes(p, IF at[p] = "rename" THEN "unmark" ELSE "release")
          /\ UNCHANGED branch /\ NoFault
       \/ /\ IF Proves(p) THEN Fault ELSE NoFault
          /\ Goes(p, "release")
          /\ UNCHANGED branch
    /\ UNCHANGED <<checkout, entry, marker, Claims, Intent>>

\* git does not delete a branch that a registered checkout is on.
DeleteBranch(p) ==
    /\ at[p] \in {"delete", "orphan-delete"}
    /\ \/ /\ entry = "none" /\ branch.at = "tomb"
          /\ branch' = [at |-> "none", owned |-> FALSE]
          /\ Goes(p, IF at[p] = "delete" THEN "unmark" ELSE "release")
          /\ NoFault
       \/ /\ \/ entry # "none" /\ NoFault
             \/ Fault
          /\ branch' = [branch EXCEPT !.at = IF @ = "tomb" THEN "home" ELSE @]
          /\ Goes(p, "release")
       \/ branch.at # "tomb" /\ UNCHANGED branch /\ NoFault /\ Goes(p, "release")
    /\ UNCHANGED <<checkout, entry, marker, Claims, Intent>>

Unmark(p) ==
    /\ at[p] = "unmark"
    /\ \/ marker' = NoMarker /\ NoFault
       \/ UNCHANGED marker /\ Fault
    /\ Goes(p, "release")
    /\ UNCHANGED <<Tree, Claims, Intent>>

\* releaseClaim() unlinks by path.
ReleaseClaim(p) ==
    /\ at[p] = "release"
    /\ SetClaim(p, NoProc)
    /\ Goes(p, Rests(p))
    /\ UNCHANGED <<Tree, marker, prey, Intent, workFaults>>

------------------------------------------------------------------------------
(* reapOrphanedWorktrees() and reapReclaimMarkers(). *)

\* A registered checkout whose directory is missing and whose branch is marked.
FindOrphan(p) ==
    /\ p # Maker
    /\ at[p] = "scan"
    /\ entry # "none" /\ checkout.at # entry
    /\ OwnerOf = "token"
    /\ ClaimRemoval(p, entry, "orphan", "markers")
    /\ UNCHANGED <<Tree, marker, Intent>>

PruneOrphan(p) ==
    /\ at[p] = "orphan"
    /\ \/ /\ (checkout.at = prey[p] => checkout.sidecar)
          /\ OwnerOf = "token" /\ IsRegistered(prey[p])
          /\ entry' = Pruned
          /\ Goes(p, "orphan-rename")
          /\ NoFault
       \/ /\ \/ Fault
             \/ /\ NoFault
                /\ ~(OwnerOf = "token" /\ IsRegistered(prey[p])
                        /\ (checkout.at = prey[p] => checkout.sidecar))
          /\ UNCHANGED entry
          /\ Goes(p, "release")
    /\ UNCHANGED <<checkout, branch, marker, Claims, Intent>>

ScanMarkers(p) ==
    /\ p # Maker
    /\ at[p] = "scan"
    /\ Goes(p, "markers")
    /\ UNCHANGED <<Tree, marker, Claims, Intent, workFaults>>

MarkerIsStale == marker.state # "none" /\ Dead(marker.by)

\* Mutant: creation is taken for unfinished as long as its marker is there.
HealthyOnceUnmarked == marker.state = "none" /\ OwnerOf = "token" /\ checkout.sidecar

Healthy == /\ marker.state # "cleanup"
           /\ OwnerOf = "token"
           /\ checkout.at = "home" /\ checkout.sidecar

SpareHealthy(p) ==
    /\ at[p] = "markers"
    /\ MarkerIsStale /\ Healthy
    /\ \/ marker' = NoMarker /\ NoFault
       \/ UNCHANGED marker /\ Fault
    /\ Goes(p, "scan")
    /\ UNCHANGED <<Tree, Claims, Intent>>

ReapMarker(p) ==
    /\ at[p] = "markers"
    /\ MarkerIsStale /\ ~Healthy
    /\ Goes(p, IF IsRegistered("home") THEN "claim" ELSE "branch-only")
    /\ UNCHANGED <<Tree, marker, Claims, Intent, workFaults>>

\* No checkout is registered: the branch goes, then the marker.  No claim is held.
ReapBranch(p) ==
    /\ at[p] = "branch-only"
    /\ IF branch.at = "home"
       THEN /\ \/ /\ branch' = [branch EXCEPT !.at = "tomb"]
                  /\ Goes(p, "branch-delete") /\ NoFault
               \/ UNCHANGED branch /\ Goes(p, "scan") /\ Fault
            /\ UNCHANGED marker
       ELSE /\ marker' = NoMarker /\ Goes(p, "scan")
            /\ UNCHANGED <<branch, workFaults>>
    /\ UNCHANGED <<checkout, entry, Claims, Intent>>

ReapTomb(p) ==
    /\ at[p] = "branch-delete"
    /\ \/ /\ entry = "none"
          /\ branch' = [at |-> "none", owned |-> FALSE]
          /\ marker' = NoMarker
          /\ NoFault
       \/ /\ branch' = [branch EXCEPT !.at = IF @ = "tomb" THEN "home" ELSE @]
          /\ IF entry = "none" THEN Fault ELSE NoFault
          /\ UNCHANGED marker
    /\ Goes(p, "scan")
    /\ UNCHANGED <<checkout, entry, Claims, Intent>>

NothingStale(p) ==
    /\ at[p] = "markers"
    /\ ~MarkerIsStale
    /\ Goes(p, "scan")
    /\ UNCHANGED <<Tree, marker, Claims, Intent, workFaults>>

Dies(p) ==
    /\ at[p] # "dead"
    /\ Goes(p, "dead")
    /\ UNCHANGED <<Tree, marker, Claims, Intent, workFaults>>

RemovalStep(p) ==
    \/ TakeClaim(p) \/ StealClaim(p) \/ CheckAndMark(p) \/ MoveAside(p) \/ Prune(p)
    \/ Repair(p) \/ RemoveCheckout(p) \/ PutBack(p)
    \/ RenameBranch(p) \/ DeleteBranch(p) \/ Unmark(p) \/ ReleaseClaim(p)

ReapStep(p) ==
    \/ FindOrphan(p) \/ PruneOrphan(p) \/ ScanMarkers(p)
    \/ SpareHealthy(p) \/ ReapMarker(p) \/ ReapBranch(p) \/ ReapTomb(p) \/ NothingStale(p)

WorktreeNext ==
    \/ WriteMarker \/ AddWorktree \/ AddFails \/ GiveUp \/ MarkBranch \/ WriteSidecar \/ CallIsOver
    \/ \E p \in WorkProcs : RemovalStep(p) \/ ReapStep(p) \/ Dies(p)

WorktreeSpec == WorktreeInit /\ [][WorktreeNext]_workVars

------------------------------------------------------------------------------
Gone == checkout.at = "none" /\ branch.at = "none" /\ entry = "none"
Intact ==
    /\ checkout = [at |-> "home", sidecar |-> TRUE]
    /\ branch = [at |-> "home", owned |-> TRUE]
    /\ entry = "home"

(* A checkout that was handed to an agent stays where it is, with its branch and  *)
(* its registration, until its own call asks for its removal: neither the marker  *)
(* that creation could not unlink nor the death of its process lets a reaper take *)
(* the work in it.                                                                *)
HealthySurvives == finished /\ ~asked => Intact

(* ensureCleanupReclaimMarker(): "A failed cleanup must remain discoverable on    *)
(* the next startup."  As long as the process that made a checkout lives, and     *)
(* when it ends, nothing of the checkout is missing without a marker that says so *)
(* - whichever commands of its removal failed or were killed half-way, at a call's *)
(* end or rolling back a creation whose metadata failed, and whatever other        *)
(* processes reap meanwhile.  A `worktree add' that failed is not meant: its       *)
(* marker goes.  Nor does it hold for what reapers make of a dead process's        *)
(* checkout: they forget a branch or a directory set aside.                        *)
FailedCleanupIsKnown ==
    (finished \/ asked) /\ ~Dead(Maker) /\ marker.state = "none" => Gone \/ Intact
================================================================================
