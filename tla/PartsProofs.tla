------------------------------ MODULE PartsProofs ------------------------------
(* Theorems about the checkout of a call (Worktrees), the hand-over between sessions  *)
(* (SessionHandoff) and the files of a run's record (RecordFiles), for any number of  *)
(* processes, managers, sessions and runs.                                           *)
EXTENDS Worktrees, SessionHandoff, RecordFiles, SequenceTheorems, TLAPS

----------------------------------------------------------------------------
(* Worktrees *)

\* Nobody reaps, and the tree is as far as its maker has come.
Untouched ==
    /\ \A p \in Reapers : at[p] \in {"scan", "markers", "dead"}
    /\ marker.state \in {"none", "creating"}
    /\ marker.state = "creating" => marker.by = Maker
    /\ at[Maker] \in {"mark", "add", "give-up", "over"} => branch.owned = FALSE
    /\ at[Maker] \in {"config", "sidecar"} =>
            /\ checkout = [at |-> "home", sidecar |-> FALSE] /\ entry = "home"
            /\ marker.state = "creating"
    /\ at[Maker] = "add" => marker.state = "creating"
    /\ at[Maker] = "config" => branch = [at |-> "home", owned |-> FALSE]
    /\ at[Maker] = "sidecar" => branch = [at |-> "home", owned |-> TRUE]

\* Before anybody asks for the removal, the maker alone works on the checkout, unless it
\* died before it was finished.
TreesInv ==
    /\ at = [p \in WorkProcs |-> at[p]]
    /\ ~asked => /\ at[Maker] \in {"mark", "add", "give-up", "config", "sidecar", "work", "over", "dead"}
                 /\ finished => at[Maker] \in {"work", "dead"}
                 /\ at[Maker] = "work" => finished
                 /\ at[Maker] # "dead" \/ finished => Untouched
    /\ HealthySurvives

LEMMA WorkerIs == \A p \in WorkProcs : p # Maker => p \in Reapers
BY DEF WorkProcs

LEMMA GoesTo ==
    ASSUME at = [p \in WorkProcs |-> at[p]], NEW p \in WorkProcs, NEW step, Goes(p, step)
    PROVE  /\ at' = [q \in WorkProcs |-> at'[q]]
           /\ at'[p] = step
           /\ \A q \in WorkProcs : q # p => at'[q] = at[q]
BY DEF Goes

\* The steps of the maker while it makes the checkout.
LEMMA MakingKeeps ==
    ASSUME TreesInv,
           \/ WriteMarker \/ AddWorktree \/ AddFails \/ GiveUp \/ MarkBranch \/ WriteSidecar \/ CallIsOver
    PROVE  TreesInv'
<1>0. /\ Maker \in WorkProcs /\ Maker \notin Reapers /\ \A p \in Reapers : p \in WorkProcs /\ p # Maker
      /\ at = [p \in WorkProcs |-> at[p]]
    BY WorktreeAssumption DEF WorkProcs, TreesInv
<1> USE DEF TreesInv, HealthySurvives, Intact
<1>1. CASE WriteMarker
    <2>1. \E step \in {"add", "over"} : Goes(Maker, step)
        BY <1>1 DEF WriteMarker
    <2>2. PICK step \in {"add", "over"} : Goes(Maker, step)
        BY <2>1
    <2>3. /\ at' = [q \in WorkProcs |-> at'[q]] /\ at'[Maker] = step
          /\ \A q \in Reapers : at'[q] = at[q]
        BY <1>0, <2>2, GoesTo
    <2>4. at[Maker] = "mark" /\ UNCHANGED <<branch, asked, finished>>
        BY <1>1 DEF WriteMarker, Tree, Intent
    <2>5. (marker' = marker /\ step = "over") \/ marker' = [state |-> "creating", by |-> Maker]
        <3>1. (marker' = marker /\ Goes(Maker, "over")) \/ marker' = [state |-> "creating", by |-> Maker]
            BY <1>1 DEF WriteMarker
        <3> QED BY <1>0, <2>3, <3>1, GoesTo
    <2> QED BY <2>3, <2>4, <2>5 DEF Untouched
<1>2. CASE AddWorktree
    <2>1. /\ at' = [q \in WorkProcs |-> at'[q]] /\ at'[Maker] = "config"
          /\ \A q \in Reapers : at'[q] = at[q]
        BY <1>0, <1>2, GoesTo DEF AddWorktree
    <2> QED BY <1>2, <2>1 DEF AddWorktree, Untouched, Intent
<1>3. CASE AddFails
    <2>1. /\ at' = [q \in WorkProcs |-> at'[q]] /\ at'[Maker] = "give-up"
          /\ \A q \in Reapers : at'[q] = at[q]
        BY <1>0, <1>3, GoesTo DEF AddFails
    <2>2. /\ at[Maker] = "add" /\ UNCHANGED <<marker, asked, finished>>
          /\ branch' = branch \/ branch' = [at |-> "home", owned |-> FALSE]
        BY <1>3 DEF AddFails, Tree, Intent
    <2> QED BY <2>1, <2>2 DEF Untouched
<1>4. CASE MarkBranch
    <2>1. CASE MetadataFails(TRUE)
        <3>1. at' = [q \in WorkProcs |-> at'[q]]
            BY <1>0, <2>1, GoesTo DEF MetadataFails
        <3> QED BY <2>1, <3>1 DEF MetadataFails
    <2>2. CASE ~MetadataFails(TRUE)
        <3>1. /\ at' = [q \in WorkProcs |-> at'[q]] /\ at'[Maker] = "sidecar"
              /\ \A q \in Reapers : at'[q] = at[q]
            BY <1>0, <1>4, <2>2, GoesTo DEF MarkBranch
        <3>2. /\ at[Maker] = "config" /\ branch' = [branch EXCEPT !.owned = TRUE]
              /\ UNCHANGED <<marker, asked, finished, checkout, entry>>
            BY <1>4, <2>2 DEF MarkBranch, Intent
        <3>3. ASSUME ~asked PROVE Untouched' /\ ~finished'
            <4>1. Untouched /\ ~finished
                BY <3>2, <3>3
            <4>2. branch' = [at |-> "home", owned |-> TRUE]
                <5>1. \A f, t : branch = [at |-> "home", owned |-> f]
                            => [branch EXCEPT !.owned = t] = [at |-> "home", owned |-> t]
                    OBVIOUS
                <5>2. branch = [at |-> "home", owned |-> FALSE]
                    BY <3>2, <4>1 DEF Untouched
                <5> QED BY <3>2, <5>1, <5>2
            <4> QED BY <3>1, <3>2, <4>1, <4>2 DEF Untouched
        <3> QED BY <3>1, <3>2, <3>3
    <2> QED BY <2>1, <2>2
<1>5. CASE WriteSidecar
    <2>1. CASE MetadataFails(checkout.at = "home")
        <3>1. at' = [q \in WorkProcs |-> at'[q]]
            BY <1>0, <2>1, GoesTo DEF MetadataFails
        <3> QED BY <2>1, <3>1 DEF MetadataFails
    <2>2. CASE ~MetadataFails(checkout.at = "home")
        <3>1. /\ at' = [q \in WorkProcs |-> at'[q]] /\ at'[Maker] = "work"
              /\ \A q \in Reapers : at'[q] = at[q]
            BY <1>0, <1>5, <2>2, GoesTo DEF WriteSidecar
        <3>2. /\ at[Maker] = "sidecar" /\ checkout' = [checkout EXCEPT !.sidecar = TRUE]
              /\ marker' = marker \/ marker' = NoMarker
              /\ UNCHANGED <<asked, branch, entry>> /\ finished'
            BY <1>5, <2>2 DEF WriteSidecar
        <3>3. ASSUME ~asked
              PROVE  /\ Untouched' /\ branch' = [at |-> "home", owned |-> TRUE] /\ entry' = "home"
                     /\ checkout' = [at |-> "home", sidecar |-> TRUE]
            <4>1. Untouched
                BY <3>2, <3>3
            <4>2. checkout' = [at |-> "home", sidecar |-> TRUE]
                <5>1. \A f, t : checkout = [at |-> "home", sidecar |-> f]
                            => [checkout EXCEPT !.sidecar = t] = [at |-> "home", sidecar |-> t]
                    OBVIOUS
                <5>2. checkout = [at |-> "home", sidecar |-> FALSE]
                    BY <3>2, <4>1 DEF Untouched
                <5> QED BY <3>2, <5>1, <5>2
            <4>3. branch = [at |-> "home", owned |-> TRUE] /\ entry = "home"
                BY <3>2, <4>1 DEF Untouched
            <4>4. marker'.state \in {"none", "creating"} /\ (marker'.state = "creating" => marker'.by = Maker)
                BY <3>2, <4>1 DEF Untouched, NoMarker
            <4>5. Untouched'
                BY <3>1, <4>1, <4>4 DEF Untouched
            <4> QED BY <3>2, <4>2, <4>3, <4>5
        <3> QED BY <3>1, <3>2, <3>3
    <2> QED BY <2>1, <2>2
<1>6. CASE CallIsOver
    <2>1. at' = [q \in WorkProcs |-> at'[q]]
        BY <1>0, <1>6, GoesTo DEF CallIsOver
    <2> QED BY <1>6, <2>1 DEF CallIsOver
<1>7. CASE GiveUp
    <2>1. /\ at' = [q \in WorkProcs |-> at'[q]] /\ at'[Maker] = "over"
          /\ \A q \in Reapers : at'[q] = at[q]
        BY <1>0, <1>7, GoesTo DEF GiveUp
    <2>2. /\ at[Maker] = "give-up" /\ UNCHANGED <<branch, asked, finished>>
          /\ marker' = marker \/ marker' = NoMarker
        BY <1>7 DEF GiveUp, Tree, Intent
    <2> QED BY <2>1, <2>2 DEF Untouched, NoMarker
<1> QED BY <1>1, <1>2, <1>3, <1>4, <1>5, <1>6, <1>7

\* Every other step is one of a process that has its place in `at', and asks for nothing.
LEMMA OthersGo ==
    ASSUME at = [q \in WorkProcs |-> at[q]], NEW p \in WorkProcs,
           RemovalStep(p) \/ ReapStep(p) \/ Dies(p)
    PROVE  /\ at' = [q \in WorkProcs |-> at'[q]]
           /\ \A q \in WorkProcs : q # p => at'[q] = at[q]
           /\ UNCHANGED <<asked, finished>>
<1>1. \E step : Goes(p, step)
    BY DEF RemovalStep, ReapStep, TakeClaim, ClaimRemoval, StealClaim, CheckAndMark, MoveAside, Prune, Repair,
           RemoveCheckout, PutBack, RenameBranch, DeleteBranch, Unmark, ReleaseClaim, FindOrphan,
           PruneOrphan, ScanMarkers, SpareHealthy, ReapMarker, ReapBranch, ReapTomb, NothingStale, Dies
<1>2. UNCHANGED <<asked, finished>>
    BY DEF RemovalStep, ReapStep, TakeClaim, ClaimRemoval, StealClaim, CheckAndMark, MoveAside, Prune, Repair,
           RemoveCheckout, PutBack, RenameBranch, DeleteBranch, Unmark, ReleaseClaim, FindOrphan,
           PruneOrphan, ScanMarkers, SpareHealthy, ReapMarker, ReapBranch, ReapTomb, NothingStale, Dies, Intent
<1> QED BY <1>1, <1>2, GoesTo

LEMMA OthersKeep ==
    ASSUME TreesInv, NEW p \in WorkProcs, RemovalStep(p) \/ ReapStep(p) \/ Dies(p)
    PROVE  TreesInv'
<1>0. /\ Maker \in WorkProcs /\ Maker \notin Reapers /\ \A q \in Reapers : q \in WorkProcs /\ q # Maker
      /\ at = [q \in WorkProcs |-> at[q]]
      /\ p = Maker \/ p \in Reapers
    BY WorktreeAssumption DEF WorkProcs, TreesInv
<1>1. /\ at' = [q \in WorkProcs |-> at'[q]]
      /\ \A q \in WorkProcs : q # p => at'[q] = at[q]
      /\ UNCHANGED <<asked, finished>>
    BY <1>0, OthersGo
<1>2. CASE asked
    BY <1>1, <1>2 DEF TreesInv, HealthySurvives, Intact
<1>3. CASE ~asked /\ Dies(p)
    <2>1. UNCHANGED <<checkout, branch, entry, marker>> /\ at'[p] = "dead"
        BY <1>0, <1>3, GoesTo DEF Dies, Tree
    <2> QED BY <1>0, <1>1, <1>3, <2>1 DEF TreesInv, HealthySurvives, Intact, Untouched
<1>4. CASE ~asked /\ (RemovalStep(p) \/ ReapStep(p))
    <2> USE DEF RemovalStep, ReapStep
    <2>1. at[Maker] \in {"mark", "add", "give-up", "config", "sidecar", "work", "over", "dead"}
        BY <1>4 DEF TreesInv
    <2>2. p # Maker
        BY <1>4, <2>1
           DEF TakeClaim, StealClaim, CheckAndMark, MoveAside, Prune, Repair,
               RemoveCheckout, PutBack, RenameBranch, DeleteBranch, Unmark, ReleaseClaim, FindOrphan,
               PruneOrphan, ScanMarkers, SpareHealthy, ReapMarker, ReapBranch, ReapTomb, NothingStale
    <2>3. p \in Reapers /\ at'[Maker] = at[Maker]
        BY <1>0, <1>1, <2>2
    <2>4. CASE at[Maker] = "dead" /\ ~finished
        BY <1>1, <1>4, <2>3, <2>4 DEF TreesInv, HealthySurvives, Intact
    <2>5. CASE at[Maker] # "dead" \/ finished
        <3>1. Untouched /\ at[p] \in {"scan", "markers", "dead"}
            BY <1>4, <2>3, <2>5 DEF TreesInv, Untouched
        <3>2. SpareHealthy(p) \/ FindOrphan(p) \/ ScanMarkers(p) \/ ReapMarker(p) \/ NothingStale(p)
            BY <1>4, <3>1
               DEF TakeClaim, StealClaim, CheckAndMark, MoveAside, Prune, Repair,
                   RemoveCheckout, PutBack, RenameBranch, DeleteBranch, Unmark, ReleaseClaim,
                   PruneOrphan, ReapBranch, ReapTomb
        <3>3. ~FindOrphan(p)
            BY <1>4, <2>1, <2>5, <3>1 DEF FindOrphan, Untouched, TreesInv, HealthySurvives, Intact, OwnerOf
        <3>4. ~ReapMarker(p)
            BY <1>4, <2>1, <2>5, <3>1
               DEF ReapMarker, MarkerIsStale, Dead, Healthy, OwnerOf, Untouched, TreesInv, HealthySurvives, Intact
        <3>5. /\ UNCHANGED <<checkout, branch, entry>>
              /\ marker' = marker \/ (marker' = NoMarker /\ at[Maker] = "dead")
              /\ at'[p] \in {"scan", "markers"}
            <4>1. MarkerIsStale => at[Maker] = "dead"
                BY <3>1 DEF MarkerIsStale, Dead, Untouched
            <4> QED BY <1>0, <3>2, <3>3, <3>4, <4>1, GoesTo DEF SpareHealthy, ScanMarkers, NothingStale, Tree
        <3>6. Untouched'
            BY <1>0, <1>1, <2>3, <3>1, <3>5 DEF Untouched, NoMarker
        <3> QED BY <1>1, <1>4, <2>3, <3>5, <3>6 DEF TreesInv, HealthySurvives, Intact
    <2> QED BY <2>4, <2>5
<1> QED BY <1>2, <1>3, <1>4

LEMMA TreesInitially == WorktreeInit => TreesInv
<1> SUFFICES ASSUME WorktreeInit PROVE TreesInv
    OBVIOUS
<1>1. /\ at = [p \in WorkProcs |-> IF p = Maker THEN "mark" ELSE "scan"]
      /\ Maker \in WorkProcs /\ Maker \notin Reapers /\ Reapers \subseteq WorkProcs
    BY WorktreeAssumption DEF WorktreeInit, WorkProcs
<1>2. at = [p \in WorkProcs |-> at[p]] /\ at[Maker] = "mark" /\ \A p \in Reapers : at[p] = "scan"
    BY <1>1
<1>3. branch.owned = FALSE /\ marker.state = "none" /\ ~finished
    BY DEF WorktreeInit, NoMarker
<1> QED BY <1>2, <1>3 DEF TreesInv, Untouched, HealthySurvives, Intact

LEMMA TreesGoOn == TreesInv /\ [WorktreeNext]_workVars => TreesInv'
<1> SUFFICES ASSUME TreesInv, [WorktreeNext]_workVars PROVE TreesInv'
    OBVIOUS
<1>1. CASE UNCHANGED workVars
    BY <1>1 DEF workVars, TreesInv, Untouched, HealthySurvives, Intact
<1>2. CASE WorktreeNext
    BY <1>2, MakingKeeps, OthersKeep DEF WorktreeNext
<1> QED BY <1>1, <1>2

\* worktree.ts reapReclaimMarkers(), reapOrphanedWorktrees(): with any number of reaping
\* processes, deaths and failing commands, a finished checkout is nobody's prey.
THEOREM CheckoutSurvives == WorktreeSpec => []HealthySurvives
<1>1. TreesInv => HealthySurvives
    BY DEF TreesInv
<1> QED BY <1>1, TreesInitially, TreesGoOn, PTL DEF WorktreeSpec


(* The removal by a process that lives. *)

Dirs == [at : {"none", "home", "aside"}, sidecar : BOOLEAN]
Refs == [at : {"none", "home", "tomb"}, owned : BOOLEAN]
WorkTypes ==
    /\ checkout \in Dirs
    /\ branch \in Refs
    /\ entry \in {"none", "home", "aside"}
    /\ marker \in [state : {"none", "creating", "metadata-failed", "cleanup"}, by : WorkProcs \cup {NoProc}]
    /\ claim \in [{"home", "aside"} -> WorkProcs \cup {NoProc}]
    /\ prey \in [WorkProcs -> {"home", "aside"}]
    /\ prey[Maker] = "home"

NotReaping(p) == at[p] \in {"scan", "markers", "dead"}
\* The maker is past the point where it still counts on its claim.
Passed == at[Maker] \in {"release", "over"} \/ (at[Maker] = "restore" /\ checkout.at = "none")
Placed(where, registered, ref) == checkout.at = where /\ entry = registered /\ branch.at = ref

\* How far the maker has come, and what is left of the checkout.
Stages ==
    /\ at[Maker] \in {"claim", "steal", "check", "move", "repair", "remove", "restore",
                      "rename", "delete", "unmark", "release", "over"}
    /\ at[Maker] \in {"claim", "steal", "check", "move"} => Placed("home", "home", "home")
    /\ at[Maker] = "repair" => Placed("aside", "home", "home")
    /\ at[Maker] = "remove" => Placed("aside", "aside", "home")
    /\ at[Maker] = "restore" =>
            checkout.at = "none" \/ Placed("aside", "home", "home") \/ Placed("aside", "aside", "home")
    /\ at[Maker] = "rename" => Placed("none", "none", "home")
    /\ at[Maker] = "delete" => Placed("none", "none", "tomb")
    /\ at[Maker] = "unmark" => Gone
    /\ at[Maker] \in {"move", "repair", "remove", "restore", "rename", "delete", "unmark"} =>
            marker.state # "none"
    /\ marker.state = "none" => Intact \/ Gone
    /\ marker.state # "none" => marker.by = Maker
    /\ at[Maker] \notin {"claim", "steal"} /\ ~Passed => claim["home"] = Maker

\* Reapers touch nothing until the maker is past, and then only what is marked.
ReapersWait ==
    \A p \in Reapers :
        \/ NotReaping(p)
        \/ /\ at[p] \in {"steal-orphan", "orphan", "orphan-rename", "orphan-delete", "release"}
           /\ Passed
           /\ marker.state # "none" \/ Gone

KnownInv == TreesInv /\ WorkTypes /\ (asked /\ at[Maker] # "dead" => Stages /\ ReapersWait)

\* What becomes of a directory and of a branch.
LEMMA DirForms ==
    ASSUME NEW d \in Dirs, NEW e,
           \/ e = d
           \/ \E to \in {"none", "home", "aside"} : e = [d EXCEPT !.at = to]
           \/ e = [d EXCEPT !.sidecar = TRUE]
           \/ \E to \in {"none", "home", "aside"} : e = [at |-> to, sidecar |-> FALSE]
    PROVE  e \in Dirs
<1>1. \A to \in {"none", "home", "aside"} : [d EXCEPT !.at = to] \in Dirs
    BY DEF Dirs
<1>2. [d EXCEPT !.sidecar = TRUE] \in Dirs
    BY DEF Dirs
<1>3. \A to \in {"none", "home", "aside"} : [at |-> to, sidecar |-> FALSE] \in Dirs
    BY DEF Dirs
<1> QED BY <1>1, <1>2, <1>3

LEMMA RefForms ==
    ASSUME NEW r \in Refs, NEW e,
           \/ e = r
           \/ \E to \in {"none", "home", "tomb"} : e = [r EXCEPT !.at = to]
           \/ e = [r EXCEPT !.owned = TRUE]
           \/ \E to \in {"none", "home"} : e = [at |-> to, owned |-> FALSE]
    PROVE  e \in Refs
<1>1. \A to \in {"none", "home", "tomb"} : [r EXCEPT !.at = to] \in Refs
    BY DEF Refs
<1>2. [r EXCEPT !.owned = TRUE] \in Refs
    BY DEF Refs
<1>3. \A to \in {"none", "home"} : [at |-> to, owned |-> FALSE] \in Refs
    BY DEF Refs
<1> QED BY <1>1, <1>2, <1>3

LEMMA TombForms ==
    ASSUME NEW r \in Refs
    PROVE  /\ [r EXCEPT !.at = IF @ = "tomb" THEN "home" ELSE @] \in {r, [r EXCEPT !.at = "home"]}
           /\ r.at # "tomb" => [r EXCEPT !.at = IF @ = "tomb" THEN "home" ELSE @] = r
BY DEF Refs

LEMMA PlacesSet ==
    /\ \A d \in Dirs, to \in {"none", "home", "aside"} : [d EXCEPT !.at = to].at = to
    /\ \A r \in Refs, to \in {"none", "home", "tomb"} : [r EXCEPT !.at = to].at = to
BY DEF Dirs, Refs

LEMMA TypesKept ==
    ASSUME WorkTypes, WorktreeNext
    PROVE  WorkTypes'
<1>0. /\ Maker \in WorkProcs /\ NoProc \notin WorkProcs /\ Maker \notin Reapers
      /\ "home" \in {"home", "aside"} /\ \A p \in WorkProcs : prey[p] \in {"home", "aside"}
    BY WorktreeAssumption DEF WorkProcs, WorkTypes
<1>1. CASE \/ WriteMarker \/ AddWorktree \/ AddFails \/ GiveUp \/ MarkBranch \/ WriteSidecar \/ CallIsOver
    <2>1. UNCHANGED <<claim, prey>>
        BY <1>1 DEF WriteMarker, AddWorktree, AddFails, GiveUp, MarkBranch, WriteSidecar, CallIsOver, Claims
    <2>2. checkout' \in Dirs
        <3>1. \/ checkout' = checkout \/ checkout' = [at |-> "home", sidecar |-> FALSE]
              \/ checkout' = [checkout EXCEPT !.sidecar = TRUE]
            BY <1>1 DEF WriteMarker, AddWorktree, AddFails, GiveUp, MarkBranch, WriteSidecar, CallIsOver, Tree
        <3>2. checkout \in Dirs
            BY DEF WorkTypes
        <3> QED BY <3>1, <3>2, DirForms
    <2>3. branch' \in Refs
        <3>1. \/ branch' = branch \/ branch' = [at |-> "home", owned |-> FALSE]
              \/ branch' = [branch EXCEPT !.owned = TRUE]
            BY <1>1 DEF WriteMarker, AddWorktree, AddFails, GiveUp, MarkBranch, WriteSidecar, CallIsOver, Tree
        <3>2. branch \in Refs
            BY DEF WorkTypes
        <3> QED BY <3>1, <3>2, RefForms
    <2>5. entry' \in {"none", "home", "aside"}
        <3>1. entry' = entry \/ entry' = "home"
            BY <1>1 DEF WriteMarker, AddWorktree, AddFails, GiveUp, MarkBranch, WriteSidecar, CallIsOver, Tree
        <3> QED BY <3>1 DEF WorkTypes
    <2>4. marker' \in [state : {"none", "creating", "metadata-failed", "cleanup"}, by : WorkProcs \cup {NoProc}]
        BY <1>0, <1>1 DEF WriteMarker, AddWorktree, AddFails, GiveUp, MarkBranch, WriteSidecar, CallIsOver,
                          MetadataFails, NoMarker, WorkTypes
    <2> QED BY <2>1, <2>2, <2>3, <2>4, <2>5 DEF WorkTypes
<1>2. ASSUME NEW p \in WorkProcs, NEW path \in {"home", "aside"}, NEW held, NEW stop,
             ClaimRemoval(p, path, held, stop), UNCHANGED <<checkout, branch, entry, marker>>,
             p = Maker => path = "home"
      PROVE  WorkTypes'
    BY <1>0, <1>2 DEF ClaimRemoval, WorkTypes
<1>3. ASSUME NEW p \in WorkProcs, RemovalStep(p) \/ ReapStep(p) \/ Dies(p)
      PROVE  WorkTypes'
    <2>1. CASE TakeClaim(p)
        BY <1>2, <2>1 DEF TakeClaim, Tree
    <2>2. CASE FindOrphan(p)
        <3>1. entry \in {"home", "aside"} /\ p # Maker
            BY <2>2 DEF FindOrphan, WorkTypes
        <3> QED BY <1>2, <2>2, <3>1 DEF FindOrphan, Tree
    <2>3. CASE StealClaim(p) \/ ReleaseClaim(p)
        BY <1>0, <1>3, <2>3 DEF StealClaim, ReleaseClaim, SetClaim, Tree, WorkTypes
    <2>4. CASE CheckAndMark(p)
        BY <1>0, <1>3, <2>4 DEF CheckAndMark, SetClaim, CleanupMarker, Tree, WorkTypes
    <2>5. CASE \/ MoveAside(p) \/ Prune(p) \/ Repair(p) \/ RemoveCheckout(p) \/ PutBack(p) \/ PruneOrphan(p)
        <3>1. UNCHANGED <<branch, marker, claim, prey>>
            BY <2>5 DEF MoveAside, Prune, Repair, RemoveCheckout, PutBack, PruneOrphan, Claims
        <3>2. checkout' \in Dirs
            <4>1. \/ checkout' = checkout
                  \/ \E to \in {"home", "aside"} : checkout' = [checkout EXCEPT !.at = to]
                  \/ \E to \in {"none", "aside"} : checkout' = [at |-> to, sidecar |-> FALSE]
                BY <2>5 DEF MoveAside, Prune, Repair, RemoveCheckout, PutBack, PruneOrphan
            <4>2. checkout \in Dirs
                BY DEF WorkTypes
            <4> QED BY <4>1, <4>2, DirForms
        <3>3. entry' \in {"none", "home", "aside"}
            BY <2>5 DEF MoveAside, Prune, Repair, RemoveCheckout, PutBack, PruneOrphan, Pruned, WorkTypes
        <3> QED BY <3>1, <3>2, <3>3 DEF WorkTypes
    <2>6. CASE RenameBranch(p) \/ DeleteBranch(p) \/ ReapBranch(p) \/ ReapTomb(p)
        <3>1. \/ branch' = branch \/ branch' = [at |-> "none", owned |-> FALSE]
              \/ \E to \in {"home", "tomb"} : branch' = [branch EXCEPT !.at = to]
            <4>1. \/ branch' = branch \/ branch' = [at |-> "none", owned |-> FALSE]
                  \/ branch' = [branch EXCEPT !.at = "tomb"]
                  \/ branch' = [branch EXCEPT !.at = IF @ = "tomb" THEN "home" ELSE @]
                BY <2>6 DEF RenameBranch, DeleteBranch, ReapBranch, ReapTomb
            <4>2. [branch EXCEPT !.at = IF @ = "tomb" THEN "home" ELSE @]
                        \in {branch, [branch EXCEPT !.at = "home"]}
                BY TombForms DEF WorkTypes
            <4> QED BY <4>1, <4>2
        <3>2. branch' \in Refs
            <4>1. branch \in Refs
                BY DEF WorkTypes
            <4> QED BY <3>1, <4>1, RefForms
        <3>3. /\ UNCHANGED <<checkout, entry, claim, prey>>
              /\ marker' = marker \/ marker' = NoMarker
            BY <2>6 DEF RenameBranch, DeleteBranch, ReapBranch, ReapTomb, Claims
        <3> QED BY <3>2, <3>3 DEF WorkTypes, NoMarker
    <2>7. CASE \/ Unmark(p) \/ ScanMarkers(p) \/ SpareHealthy(p) \/ ReapMarker(p) \/ NothingStale(p) \/ Dies(p)
        BY <2>7 DEF Unmark, ScanMarkers, SpareHealthy, ReapMarker, NothingStale, Dies, Tree, Claims, NoMarker, WorkTypes
    <2> QED BY <1>3, <2>1, <2>2, <2>3, <2>4, <2>5, <2>6, <2>7 DEF RemovalStep, ReapStep
<1> QED BY <1>1, <1>3 DEF WorktreeNext

\* The call's end, and a creation whose metadata failed: the removal begins.
LEMMA RemovalBegins ==
    ASSUME TreesInv, WorkTypes, ~asked, asked', WorktreeNext
    PROVE  (Stages /\ ReapersWait)'
<1>0. /\ Maker \in WorkProcs /\ Maker \notin Reapers /\ \A p \in Reapers : p \in WorkProcs /\ p # Maker
      /\ at = [p \in WorkProcs |-> at[p]]
    BY WorktreeAssumption DEF WorkProcs, TreesInv
<1>1. CallIsOver \/ MarkBranch \/ WriteSidecar
    BY OthersGo, <1>0 DEF WorktreeNext, WriteMarker, AddWorktree, AddFails, GiveUp, Intent
<1>2. /\ Goes(Maker, "claim") /\ at[Maker] \in {"config", "sidecar", "work"}
      /\ UNCHANGED <<checkout, branch, entry, claim, prey>>
      /\ \/ marker' = marker /\ at[Maker] = "work"
         \/ marker' = [marker EXCEPT !.state = "metadata-failed"] /\ marker.state = "creating"
    <2>1. Untouched /\ at[Maker] # "dead"
        BY <1>1 DEF TreesInv, CallIsOver, MarkBranch, WriteSidecar
    <2>2. CASE CallIsOver
        BY <2>2 DEF CallIsOver, Tree, Claims
    <2>3. CASE MarkBranch
        <3>1. MetadataFails(TRUE) /\ at[Maker] = "config" /\ UNCHANGED <<checkout, branch, entry, claim, prey>>
            BY <2>3 DEF MarkBranch, Intent, Claims
        <3> QED BY <2>1, <3>1 DEF MetadataFails, Untouched
    <2>4. CASE WriteSidecar
        <3>1. /\ MetadataFails(checkout.at = "home") /\ at[Maker] = "sidecar"
              /\ UNCHANGED <<checkout, branch, entry, claim, prey>>
            BY <2>4 DEF WriteSidecar, Claims
        <3> QED BY <2>1, <3>1 DEF MetadataFails, Untouched
    <2> QED BY <1>1, <2>2, <2>3, <2>4
<1>3. at'[Maker] = "claim" /\ \A p \in Reapers : at'[p] = at[p]
    BY <1>0, <1>2, GoesTo
<1>4. Untouched /\ (at[Maker] = "work" => Intact)
    BY <1>2 DEF TreesInv, HealthySurvives
<1>5. checkout.at = "home" /\ entry = "home" /\ branch.at = "home"
    BY <1>2, <1>4 DEF Untouched, Intact
<1>6. (marker'.state = "none" => Intact') /\ (marker'.state # "none" => marker'.by = Maker)
    <2>1. marker.state \in {"none", "creating"} /\ (marker.state = "creating" => marker.by = Maker)
        BY <1>4 DEF Untouched
    <2>2. \A t \in {"metadata-failed"} :
            [marker EXCEPT !.state = t].state = t /\ [marker EXCEPT !.state = t].by = marker.by
        BY DEF WorkTypes
    <2> QED BY <1>2, <1>4, <2>1, <2>2 DEF Intact
<1>7. Stages'
    BY <1>2, <1>3, <1>5, <1>6 DEF Stages, Placed
<1>8. ReapersWait'
    BY <1>3, <1>4 DEF ReapersWait, NotReaping, Untouched
<1> QED BY <1>7, <1>8

\* What is left for the reapers stays so while they and the maker's other steps go on.
LEMMA ReapersStay ==
    ASSUME ReapersWait, \A p \in Reapers : at'[p] = at[p],
           Passed => Passed' /\ UNCHANGED <<checkout, branch, entry, marker>>
    PROVE  ReapersWait'
BY DEF ReapersWait, NotReaping, Gone

LEMMA MakerCleans ==
    ASSUME TreesInv, WorkTypes, Stages, ReapersWait, RemovalStep(Maker)
    PROVE  (Stages /\ ReapersWait)'
<1>0. /\ Maker \in WorkProcs /\ Maker \notin Reapers /\ \A p \in Reapers : p \in WorkProcs /\ p # Maker
      /\ at = [p \in WorkProcs |-> at[p]] /\ Rests(Maker) = "over" /\ Maker # NoProc
      /\ checkout \in Dirs /\ branch \in Refs /\ prey[Maker] = "home"
      /\ DOMAIN claim = {"home", "aside"} /\ DOMAIN prey = WorkProcs
    BY WorktreeAssumption DEF WorkProcs, TreesInv, Rests, WorkTypes
<1>1. ASSUME NEW step, Goes(Maker, step)
      PROVE  at'[Maker] = step /\ \A p \in Reapers : at'[p] = at[p]
    BY <1>0, <1>1, GoesTo
<1> DEFINE Rest == UNCHANGED <<checkout, branch, entry>>
<1>2. CASE TakeClaim(Maker)
    <2>1. /\ at[Maker] = "claim" /\ UNCHANGED <<checkout, branch, entry, marker>>
          /\ \/ claim' = [claim EXCEPT !["home"] = Maker] /\ Goes(Maker, "check")
             \/ Goes(Maker, "over") \/ Goes(Maker, "steal")
        BY <1>0, <1>2 DEF TakeClaim, ClaimRemoval, Tree
    <2>2. /\ at'[Maker] = "check" => claim'["home"] = Maker
          /\ at'[Maker] \in {"check", "over", "steal"} /\ \A p \in Reapers : at'[p] = at[p]
        BY <1>0, <1>1, <2>1
    <2>3. Stages'
        BY <2>1, <2>2 DEF Stages, Placed, Intact, Gone, Passed
    <2> QED BY <2>1, <2>2, <2>3, ReapersStay DEF Passed
<1>3. CASE StealClaim(Maker)
    <2>1. /\ at[Maker] = "steal" /\ UNCHANGED <<checkout, branch, entry, marker>>
          /\ \/ claim' = [claim EXCEPT !["home"] = Maker] /\ Goes(Maker, "check")
             \/ Goes(Maker, "over")
        BY <1>0, <1>3 DEF StealClaim, SetClaim, Tree, Stages
    <2>2. /\ at'[Maker] = "check" => claim'["home"] = Maker
          /\ at'[Maker] \in {"check", "over"} /\ \A p \in Reapers : at'[p] = at[p]
        BY <1>0, <1>1, <2>1
    <2>3. Stages'
        BY <2>1, <2>2 DEF Stages, Placed, Intact, Gone, Passed
    <2> QED BY <2>1, <2>2, <2>3, ReapersStay DEF Passed
<1>4. CASE CheckAndMark(Maker)
    <2>1. /\ at[Maker] = "check" /\ UNCHANGED <<checkout, branch, entry, prey>>
          /\ \/ marker' = CleanupMarker(Maker) /\ Goes(Maker, "move") /\ claim' = claim
             \/ marker' = marker /\ Goes(Maker, "over")
        BY <1>0, <1>4 DEF CheckAndMark, Tree
    <2>2. CleanupMarker(Maker).state = "cleanup" /\ CleanupMarker(Maker).by = Maker
        BY DEF CleanupMarker, Stages
    <2>3. /\ \A p \in Reapers : at'[p] = at[p]
          /\ \/ at'[Maker] = "over" /\ marker' = marker
             \/ at'[Maker] = "move" /\ marker'.state = "cleanup" /\ marker'.by = Maker /\ claim' = claim
        BY <1>1, <2>1, <2>2
    <2>4. Stages'
        BY <2>1, <2>3 DEF Stages, Placed, Intact, Gone, Passed
    <2> QED BY <2>1, <2>3, <2>4, ReapersStay DEF Passed
<1>5. CASE MoveAside(Maker) \/ Prune(Maker)
    <2>1. /\ at[Maker] = "move" /\ Placed("home", "home", "home")
          /\ UNCHANGED <<branch, entry, marker, claim, prey>>
          /\ \/ checkout' = [checkout EXCEPT !.at = "aside"] /\ (Goes(Maker, "repair") \/ Goes(Maker, "restore"))
             \/ checkout' = checkout /\ Goes(Maker, "release")
        BY <1>5 DEF MoveAside, Prune, Claims, Stages, Placed
    <2>2. /\ \A p \in Reapers : at'[p] = at[p]
          /\ \/ at'[Maker] \in {"repair", "restore"} /\ checkout'.at = "aside"
             \/ at'[Maker] = "release" /\ checkout' = checkout
        BY <1>0, <1>1, <2>1, PlacesSet
    <2>3. Stages'
        BY <2>1, <2>2 DEF Stages, Placed, Intact, Gone, Passed
    <2> QED BY <2>1, <2>2, <2>3, ReapersStay DEF Passed
<1>6. CASE Repair(Maker)
    <2>1. /\ at[Maker] = "repair" /\ Placed("aside", "home", "home")
          /\ UNCHANGED <<checkout, branch, marker, claim, prey>>
          /\ \/ entry' = "aside" /\ (Goes(Maker, "remove") \/ Goes(Maker, "restore"))
             \/ entry' = entry /\ Goes(Maker, "restore")
        BY <1>6 DEF Repair, Claims, Stages, Placed
    <2>2. /\ \A p \in Reapers : at'[p] = at[p]
          /\ \/ at'[Maker] \in {"remove", "restore"} /\ entry' = "aside"
             \/ at'[Maker] = "restore" /\ entry' = entry
        BY <1>1, <2>1
    <2>3. Stages'
        BY <2>1, <2>2 DEF Stages, Placed, Intact, Gone, Passed
    <2> QED BY <2>1, <2>2, <2>3, ReapersStay DEF Passed
<1>7. CASE RemoveCheckout(Maker)
    <2>1. /\ at[Maker] = "remove" /\ Placed("aside", "aside", "home")
          /\ UNCHANGED <<branch, marker, claim, prey>>
          /\ \/ checkout'.at = "none" /\ entry' = "none" /\ Goes(Maker, "rename")
             \/ checkout'.at \in {"aside", "none"} /\ entry' = entry /\ Goes(Maker, "restore")
        BY <1>7 DEF RemoveCheckout, Claims, Stages, Placed
    <2>2. /\ \A p \in Reapers : at'[p] = at[p]
          /\ \/ at'[Maker] = "rename" /\ checkout'.at = "none" /\ entry' = "none"
             \/ at'[Maker] = "restore" /\ checkout'.at \in {"aside", "none"} /\ entry' = entry
        BY <1>1, <2>1
    <2>3. Stages'
        BY <2>1, <2>2 DEF Stages, Placed, Intact, Gone, Passed
    <2> QED BY <2>1, <2>2, <2>3, ReapersStay DEF Passed
<1>8. CASE PutBack(Maker)
    <2>1. /\ at[Maker] = "restore" /\ UNCHANGED <<branch, marker, claim, prey>>
          /\ checkout.at = "none" => UNCHANGED <<checkout, entry>>
        BY <1>8 DEF PutBack, Claims
    <2>2. at'[Maker] = "release" /\ \A p \in Reapers : at'[p] = at[p]
        BY <1>1, <1>8 DEF PutBack
    <2>3. Stages'
        BY <2>1, <2>2 DEF Stages, Passed
    <2> QED BY <2>1, <2>2, <2>3, ReapersStay DEF Passed
<1>9. CASE RenameBranch(Maker)
    <2>1. /\ at[Maker] = "rename" /\ Placed("none", "none", "home")
          /\ UNCHANGED <<checkout, entry, marker, claim, prey>>
          /\ \/ branch' = [branch EXCEPT !.at = "tomb"] /\ Goes(Maker, "delete")
             \/ branch' = branch /\ Goes(Maker, "release")
        BY <1>9 DEF RenameBranch, Claims, Stages, Placed
    <2>2. /\ \A p \in Reapers : at'[p] = at[p]
          /\ \/ at'[Maker] = "delete" /\ branch'.at = "tomb"
             \/ at'[Maker] = "release"
        BY <1>0, <1>1, <2>1, PlacesSet
    <2>3. Stages'
        BY <2>1, <2>2 DEF Stages, Placed, Passed
    <2> QED BY <2>1, <2>2, <2>3, ReapersStay DEF Passed
<1>10. CASE DeleteBranch(Maker)
    <2>1. /\ at[Maker] = "delete" /\ Placed("none", "none", "tomb")
          /\ UNCHANGED <<checkout, entry, marker, claim, prey>>
          /\ \/ branch'.at = "none" /\ Goes(Maker, "unmark")
             \/ Goes(Maker, "release")
        BY <1>10 DEF DeleteBranch, Claims, Stages, Placed
    <2>2. /\ \A p \in Reapers : at'[p] = at[p]
          /\ \/ at'[Maker] = "unmark" /\ branch'.at = "none"
             \/ at'[Maker] = "release"
        BY <1>1, <2>1
    <2>3. Stages'
        BY <2>1, <2>2 DEF Stages, Placed, Gone, Passed
    <2> QED BY <2>1, <2>2, <2>3, ReapersStay DEF Passed
<1>11. CASE Unmark(Maker)
    <2>1. /\ at[Maker] = "unmark" /\ UNCHANGED <<checkout, branch, entry, claim, prey>>
          /\ marker' = marker \/ marker' = NoMarker
        BY <1>11 DEF Unmark, Tree, Claims
    <2>2. at'[Maker] = "release" /\ \A p \in Reapers : at'[p] = at[p]
        BY <1>1, <1>11 DEF Unmark
    <2>3. Stages'
        BY <2>1, <2>2 DEF Stages, Gone, Passed, NoMarker
    <2> QED BY <2>1, <2>2, <2>3, ReapersStay DEF Passed
<1>12. CASE ReleaseClaim(Maker)
    <2>1. at[Maker] = "release" /\ UNCHANGED <<checkout, branch, entry, marker>>
        BY <1>12 DEF ReleaseClaim, Stages, Tree
    <2>2. at'[Maker] = "over" /\ \A p \in Reapers : at'[p] = at[p]
        BY <1>0, <1>1, <1>12 DEF ReleaseClaim
    <2>3. Stages'
        BY <2>1, <2>2 DEF Stages, Gone, Intact, Passed
    <2> QED BY <2>1, <2>2, <2>3, ReapersStay DEF Passed
<1> QED BY <1>2, <1>3, <1>4, <1>5, <1>6, <1>7, <1>8, <1>9, <1>10, <1>11, <1>12 DEF RemovalStep

LEMMA ReapersKeep ==
    ASSUME TreesInv, WorkTypes, Stages, ReapersWait, at[Maker] # "dead",
           NEW p \in Reapers, RemovalStep(p) \/ ReapStep(p) \/ Dies(p)
    PROVE  (Stages /\ ReapersWait)'
<1>0. /\ Maker \in WorkProcs /\ p \in WorkProcs /\ p # Maker /\ Maker # NoProc /\ Maker \notin Reapers
      /\ at = [q \in WorkProcs |-> at[q]] /\ Rests(p) = "scan"
      /\ branch \in Refs /\ \A q \in Reapers : q \in WorkProcs
    BY WorktreeAssumption DEF WorkProcs, TreesInv, Rests, WorkTypes
<1> DEFINE Resting == {"scan", "markers", "dead"}
           Hunting == {"steal-orphan", "orphan", "orphan-rename", "orphan-delete", "release"}
<1>1. ASSUME NEW step, Goes(p, step)
      PROVE  at'[p] = step /\ \A q \in WorkProcs : q # p => at'[q] = at[q]
    BY <1>0, <1>1, GoesTo
<1>2. ASSUME NEW step \in Resting \cup Hunting, Goes(p, step), UNCHANGED <<checkout, marker>>,
             Gone => UNCHANGED <<branch, entry>>,
             \/ Passed /\ (marker.state # "none" \/ Gone)
             \/ step \in Resting /\ UNCHANGED <<branch, entry, claim>>
      PROVE  (Stages /\ ReapersWait)'
    <2>1. at'[p] = step /\ at'[Maker] = at[Maker] /\ \A q \in Reapers : q # p => at'[q] = at[q]
        BY <1>0, <1>1, <1>2
    <2>2. Passed' = Passed
        BY <1>2, <2>1 DEF Passed
    <2>3. Gone => Gone'
        BY <1>2 DEF Gone
    <2>4. Stages'
        <3>1. CASE Passed /\ (marker.state # "none" \/ Gone)
            BY <1>2, <2>1, <2>2, <2>3, <3>1 DEF Stages, Passed, Placed, Gone
        <3>2. CASE UNCHANGED <<branch, entry, claim>>
            BY <1>2, <2>1, <2>2, <3>2 DEF Stages, Placed, Intact, Gone
        <3> QED BY <1>2, <3>1, <3>2
    <2>5. ReapersWait'
        <3>1. ASSUME NEW q \in Reapers, q # p
              PROVE  \/ NotReaping(q)'
                     \/ at'[q] \in Hunting /\ Passed' /\ (marker'.state # "none" \/ Gone')
            BY <1>2, <2>1, <2>2, <2>3, <3>1 DEF ReapersWait, NotReaping
        <3>2. \/ NotReaping(p)'
              \/ at'[p] \in Hunting /\ Passed' /\ (marker'.state # "none" \/ Gone')
            BY <1>2, <2>1, <2>2, <2>3 DEF NotReaping
        <3> QED BY <3>1, <3>2 DEF ReapersWait
    <2> QED BY <2>4, <2>5
<1>3. CASE NotReaping(p)
    <2>1. ~MarkerIsStale
        BY DEF MarkerIsStale, Dead, Stages
    <2>2. CASE FindOrphan(p)
        <3>1. /\ entry # "none" /\ checkout.at # entry /\ ~Gone /\ ~Intact
              /\ UNCHANGED <<checkout, branch, entry, marker>>
            BY <2>2 DEF FindOrphan, Tree, Gone, Intact
        <3>2. marker.state # "none"
            BY <3>1 DEF Stages
        <3>3. \/ Goes(p, "orphan") \/ Goes(p, "steal-orphan")
              \/ Goes(p, "markers") /\ claim' = claim
            BY <2>2 DEF FindOrphan, ClaimRemoval
        <3>4. CASE Passed
            BY <1>2, <3>1, <3>2, <3>3, <3>4
        <3>5. CASE ~Passed
            <4>1. entry = "home" /\ claim["home"] = Maker
                BY <3>1, <3>5 DEF Stages, Placed, Passed
            <4>2. Goes(p, "markers") /\ claim' = claim
                BY <1>0, <2>2, <4>1 DEF FindOrphan, ClaimRemoval, Dead
            <4> QED BY <1>2, <3>1, <4>2
        <3> QED BY <3>4, <3>5
    <2>3. CASE ScanMarkers(p) \/ NothingStale(p) \/ Dies(p)
        <3>1. /\ UNCHANGED <<checkout, branch, entry, marker, claim>>
              /\ Goes(p, "scan") \/ Goes(p, "markers") \/ Goes(p, "dead")
            BY <2>3 DEF ScanMarkers, NothingStale, Dies, Tree, Claims
        <3> QED BY <1>2, <3>1
    <2>4. FindOrphan(p) \/ ScanMarkers(p) \/ NothingStale(p) \/ Dies(p)
        <3>1. ~SpareHealthy(p) /\ ~ReapMarker(p)
            BY <2>1 DEF SpareHealthy, ReapMarker
        <3>2. /\ ~RemovalStep(p)
              /\ ~PruneOrphan(p) /\ ~ReapBranch(p) /\ ~ReapTomb(p)
            BY <1>3 DEF NotReaping, RemovalStep, TakeClaim, StealClaim, CheckAndMark, MoveAside, Prune, Repair,
                        RemoveCheckout, PutBack, RenameBranch, DeleteBranch, Unmark, ReleaseClaim,
                        PruneOrphan, ReapBranch, ReapTomb
        <3> QED BY <3>1, <3>2 DEF ReapStep
    <2> QED BY <2>2, <2>3, <2>4
<1>4. CASE ~NotReaping(p)
    <2>1. at[p] \in Hunting /\ Passed /\ (marker.state # "none" \/ Gone)
        BY <1>4 DEF ReapersWait
    <2>2. CASE StealClaim(p) \/ ReleaseClaim(p) \/ Dies(p)
        <3>1. /\ UNCHANGED <<checkout, branch, entry, marker>>
              /\ \/ Goes(p, "markers") \/ Goes(p, "orphan") \/ Goes(p, "scan") \/ Goes(p, "dead")
            BY <1>0, <2>1, <2>2 DEF StealClaim, ReleaseClaim, Dies, Tree
        <3> QED BY <1>2, <2>1, <3>1
    <2>3. CASE PruneOrphan(p)
        <3>1. /\ UNCHANGED <<checkout, branch, marker>>
              /\ Gone => entry' = entry
              /\ Goes(p, "orphan-rename") \/ Goes(p, "release")
            BY <2>3 DEF PruneOrphan, Pruned, Gone
        <3> QED BY <1>2, <2>1, <3>1
    <2>4. CASE RenameBranch(p)
        <3>1. /\ UNCHANGED <<checkout, entry, marker>>
              /\ Gone => branch' = branch
              /\ Goes(p, "orphan-delete") \/ Goes(p, "release")
            BY <2>1, <2>4 DEF RenameBranch, Gone
        <3> QED BY <1>2, <2>1, <3>1
    <2>5. CASE DeleteBranch(p)
        <3>1. branch.at # "tomb" => [branch EXCEPT !.at = IF @ = "tomb" THEN "home" ELSE @] = branch
            BY <1>0, TombForms
        <3>2. /\ UNCHANGED <<checkout, entry, marker>>
              /\ Gone => branch' = branch
              /\ Goes(p, "release")
            BY <2>1, <2>5, <3>1 DEF DeleteBranch, Gone
        <3> QED BY <1>2, <2>1, <3>2
    <2>6. \/ StealClaim(p) \/ ReleaseClaim(p) \/ Dies(p) \/ PruneOrphan(p)
          \/ RenameBranch(p) \/ DeleteBranch(p)
        <3>1. /\ ~TakeClaim(p) /\ ~CheckAndMark(p) /\ ~MoveAside(p) /\ ~Prune(p) /\ ~Repair(p)
              /\ ~RemoveCheckout(p) /\ ~PutBack(p) /\ ~Unmark(p)
            BY <2>1 DEF TakeClaim, CheckAndMark, MoveAside, Prune, Repair, RemoveCheckout, PutBack, Unmark
        <3>2. /\ ~FindOrphan(p) /\ ~ScanMarkers(p) /\ ~SpareHealthy(p) /\ ~ReapMarker(p)
              /\ ~ReapBranch(p) /\ ~ReapTomb(p) /\ ~NothingStale(p)
            BY <2>1 DEF FindOrphan, ScanMarkers, SpareHealthy, ReapMarker, ReapBranch, ReapTomb, NothingStale
        <3> QED BY <3>1, <3>2 DEF RemovalStep, ReapStep
    <2> QED BY <2>2, <2>3, <2>4, <2>5, <2>6
<1> QED BY <1>3, <1>4

\* A dead process takes no step.
LEMMA DeathLasts ==
    ASSUME TreesInv, WorktreeNext, at[Maker] = "dead"
    PROVE  at'[Maker] = "dead"
<1>1. Maker \in WorkProcs /\ at = [p \in WorkProcs |-> at[p]]
    BY DEF WorkProcs, TreesInv
<1>2. PICK p \in WorkProcs : RemovalStep(p) \/ ReapStep(p) \/ Dies(p)
    BY DEF WorktreeNext, WriteMarker, AddWorktree, AddFails, GiveUp, MarkBranch, WriteSidecar, CallIsOver
<1>3. p # Maker
    BY <1>2 DEF RemovalStep, TakeClaim, StealClaim, CheckAndMark, MoveAside, Prune, Repair, RemoveCheckout, PutBack,
                RenameBranch, DeleteBranch, Unmark, ReleaseClaim, ReapStep, FindOrphan, PruneOrphan, ScanMarkers,
                SpareHealthy, ReapMarker, ReapBranch, ReapTomb, NothingStale, Dies
<1> QED BY <1>1, <1>2, <1>3, OthersGo

\* As long as the process that made a checkout lives, and when it ends, nothing of the
\* checkout is missing without a marker that says so, for every number of processes that
\* reap meanwhile and of commands that fail: until the removal begins the checkout is
\* whole, from then on its stages say what is gone, and the reapers, whom the maker's
\* claim and its fresh marker keep away, come in only after it.
THEOREM CleanupIsKnown == WorktreeSpec => []FailedCleanupIsKnown
<1>1. WorktreeInit => KnownInv
    <2> SUFFICES ASSUME WorktreeInit PROVE KnownInv
        OBVIOUS
    <2>1. TreesInv
        BY TreesInitially
    <2>2. WorkTypes
        BY WorktreeAssumption DEF WorktreeInit, WorkTypes, Dirs, Refs, NoMarker, WorkProcs
    <2>3. ~asked
        BY DEF WorktreeInit
    <2> QED BY <2>1, <2>2, <2>3 DEF KnownInv
<1>2. KnownInv /\ [WorktreeNext]_workVars => KnownInv'
    <2> SUFFICES ASSUME KnownInv, [WorktreeNext]_workVars PROVE KnownInv'
        OBVIOUS
    <2>1. CASE UNCHANGED workVars
        BY <2>1 DEF workVars, KnownInv, TreesInv, Untouched, HealthySurvives, Intact, WorkTypes, Stages, ReapersWait,
                    NotReaping, Passed, Placed, Gone
    <2>2. CASE WorktreeNext
        <3>0. TreesInv /\ WorkTypes
            BY DEF KnownInv
        <3>1. TreesInv' /\ WorkTypes'
            BY <2>2, <3>0, TreesGoOn, TypesKept
        <3>2. ASSUME asked', at'[Maker] # "dead"
              PROVE  (Stages /\ ReapersWait)'
            <4>1. CASE ~asked
                BY <2>2, <3>0, <3>2, <4>1, RemovalBegins
            <4>2. CASE asked
                <5>0. /\ Maker \in WorkProcs /\ at = [q \in WorkProcs |-> at[q]]
                      /\ \A q \in WorkProcs : q # Maker => q \in Reapers
                    BY <3>0, WorkerIs DEF WorkProcs, TreesInv
                <5>1. at[Maker] # "dead"
                    BY <2>2, <3>0, <3>2, <5>0, DeathLasts
                <5>2. Stages /\ ReapersWait
                    BY <4>2, <5>1 DEF KnownInv
                <5>3. \E q \in WorkProcs : RemovalStep(q) \/ ReapStep(q) \/ Dies(q)
                    BY <2>2, <5>2 DEF WorktreeNext, Stages, WriteMarker, AddWorktree, AddFails, GiveUp, MarkBranch,
                                      WriteSidecar, CallIsOver
                <5>4. PICK q \in WorkProcs : RemovalStep(q) \/ ReapStep(q) \/ Dies(q)
                    BY <5>3
                <5>5. CASE q = Maker
                    <6>1. ~Dies(Maker)
                        BY <3>2, <5>0, GoesTo DEF Dies
                    <6>2. ~ReapStep(Maker)
                        BY <5>2 DEF Stages, ReapStep, FindOrphan, PruneOrphan, ScanMarkers, SpareHealthy, ReapMarker,
                                    ReapBranch, ReapTomb, NothingStale
                    <6> QED BY <3>0, <5>2, <5>4, <5>5, <6>1, <6>2, MakerCleans
                <5>6. CASE q # Maker
                    BY <3>0, <5>0, <5>1, <5>2, <5>4, <5>6, ReapersKeep
                <5> QED BY <5>5, <5>6
            <4> QED BY <4>1, <4>2
        <3> QED BY <3>1, <3>2 DEF KnownInv
    <2> QED BY <2>1, <2>2
<1>3. KnownInv => FailedCleanupIsKnown
    <2> SUFFICES ASSUME KnownInv, finished \/ asked, ~Dead(Maker), marker.state = "none"
                 PROVE  Gone \/ Intact
        BY DEF FailedCleanupIsKnown
    <2>1. at[Maker] # "dead"
        BY WorktreeAssumption DEF Dead, WorkProcs
    <2>2. CASE asked
        BY <2>1, <2>2 DEF KnownInv, Stages
    <2>3. CASE ~asked
        BY <2>3 DEF KnownInv, TreesInv, HealthySurvives
    <2> QED BY <2>2, <2>3
<1> QED BY <1>1, <1>2, <1>3, PTL DEF WorktreeSpec

----------------------------------------------------------------------------
(* SessionHandoff *)

Managers ==
    [project : Projects, session : Nat \cup {NoOne}, suspended : BOOLEAN,
     pending : SUBSET WorkRuns, listening : BOOLEAN]

Entries == [manager : Nat \cup {NoOne}, version : Versions \cup {NoOne}]

WorkRecords ==
    [manager : Nat \cup {NoOne}, status : {"none", "running", "unwinding", "paused", "done"},
     session : Nat \cup {NoOne}, resuming : BOOLEAN, overtaken : BOOLEAN]

HandoffTypeOK ==
    /\ managers \in Seq(Managers)
    /\ work \in [WorkRuns -> WorkRecords]
    /\ slot \in Entries /\ extension \in Entries
    /\ window \in [phase : {"replacing", "loaded", "bound", "exited"}, project : Projects,
                   sessions : Nat]
    /\ sent \in [WorkRuns -> Nat \cup {NoOne}]

\* Who refers to a manager refers to one that has been made; at most one of them is in reach.
Referred ==
    /\ \A held \in {slot, extension} :
            held.manager # NoOne => /\ held.manager \in DOMAIN managers
                                     /\ managers[held.manager].listening
    /\ \A r \in WorkRuns :
            /\ work[r].manager # NoOne => work[r].manager \in DOMAIN managers
            /\ work[r].manager = NoOne <=> work[r].status = "none"
    /\ window.phase \in {"loaded", "bound"} <=> extension.manager # NoOne
    /\ slot.manager # NoOne => extension.manager = NoOne

\* Only the manager of a bound session hands results on, and each keeps its own runs' results.
OnePublishes ==
    \A m \in DOMAIN managers :
        /\ managers[m].listening /\ ~managers[m].suspended => m = extension.manager /\ Bound
        /\ \A r \in managers[m].pending : work[r].manager = m

NoneForgotten ==
    \A r \in WorkRuns : work[r].status = "done" /\ InReach(work[r].manager) =>
        sent[r] # NoOne \/ r \in managers[work[r].manager].pending

HandoffInv == HandoffTypeOK /\ Referred /\ OnePublishes /\ NoRunStranded /\ NoneForgotten

LEMMA NewIs ==
    ASSUME NEW p \in Projects
    PROVE  /\ NewManager(p) \in Managers /\ NewManager(p).pending = {}
           /\ NewManager(p).listening /\ NewManager(p).session = NoOne
BY DEF Managers, NewManager

LEMMA ManagerViews ==
    ASSUME NEW mg \in Managers
    PROVE  /\ Installed(mg) \in Managers /\ Installed(mg).suspended
           /\ Installed(mg).pending = mg.pending /\ Installed(mg).listening = mg.listening
           /\ Installed(mg).session = mg.session
           /\ Suspended(mg) = Installed(mg)
           /\ Disposed(mg) \in Managers /\ ~Disposed(mg).listening
           /\ Disposed(mg).pending = mg.pending /\ Disposed(mg).suspended = mg.suspended
BY DEF Managers, Installed, Suspended, Disposed

LEMMA PendingPut ==
    ASSUME NEW mg \in Managers, NEW r \in WorkRuns
    PROVE  /\ [mg EXCEPT !.pending = @ \cup {r}] \in Managers
           /\ [mg EXCEPT !.pending = @ \cup {r}].pending = mg.pending \cup {r}
           /\ [mg EXCEPT !.pending = @ \cup {r}].listening = mg.listening
           /\ [mg EXCEPT !.pending = @ \cup {r}].suspended = mg.suspended
           /\ [mg EXCEPT !.pending = @ \cup {r}].session = mg.session
BY DEF Managers

LEMMA FlushedIs ==
    ASSUME NEW mg \in Managers, NEW s \in Nat \cup {NoOne}, NEW taken \in SUBSET mg.pending
    PROVE  /\ Flushed([mg EXCEPT !.session = s], taken) \in Managers
           /\ Flushed([mg EXCEPT !.session = s], taken).session = s
           /\ Flushed([mg EXCEPT !.session = s], taken).listening = mg.listening
           /\ Flushed([mg EXCEPT !.session = s], taken).pending = mg.pending \ taken
BY DEF Managers, Flushed

LEMMA ManagerPut ==
    ASSUME NEW ms \in Seq(Managers), NEW m \in DOMAIN ms, NEW mg \in Managers
    PROVE  /\ [ms EXCEPT ![m] = mg] \in Seq(Managers)
           /\ DOMAIN [ms EXCEPT ![m] = mg] = DOMAIN ms
           /\ [ms EXCEPT ![m] = mg][m] = mg
           /\ \A n \in DOMAIN ms : n # m => [ms EXCEPT ![m] = mg][n] = ms[n]
BY ExceptSeq

LEMMA ManagerMade ==
    ASSUME NEW ms \in Seq(Managers), NEW mg \in Managers
    PROVE  /\ Append(ms, mg) \in Seq(Managers)
           /\ Len(ms) + 1 \in Nat /\ Len(ms) + 1 \notin DOMAIN ms
           /\ DOMAIN Append(ms, mg) = DOMAIN ms \cup {Len(ms) + 1}
           /\ Append(ms, mg)[Len(ms) + 1] = mg
           /\ \A n \in DOMAIN ms : Append(ms, mg)[n] = ms[n]
<1>1. /\ Append(ms, mg) \in Seq(Managers) /\ Len(Append(ms, mg)) = Len(ms) + 1
      /\ \A i \in 1 .. Len(ms) : Append(ms, mg)[i] = ms[i]
      /\ Append(ms, mg)[Len(ms) + 1] = mg
    BY AppendProperties
<1>2. Len(ms) \in Nat /\ DOMAIN ms = 1 .. Len(ms) /\ DOMAIN Append(ms, mg) = 1 .. Len(Append(ms, mg))
    BY <1>1, LenProperties
<1> QED BY <1>1, <1>2

LEMMA PausedIs ==
    ASSUME HandoffTypeOK, NEW m
    PROVE  /\ PauseStranded(m, work) \in [WorkRuns -> WorkRecords]
           /\ \A r \in WorkRuns :
                /\ PauseStranded(m, work)[r].manager = work[r].manager
                /\ PauseStranded(m, work)[r].session = work[r].session
                /\ PauseStranded(m, work)[r].overtaken = work[r].overtaken
                /\ PauseStranded(m, work)[r].status =
                     IF work[r].manager = m /\ work[r].status = "running" THEN "unwinding"
                     ELSE work[r].status
BY DEF HandoffTypeOK, PauseStranded, WorkRecords

LEMMA AdoptedIs ==
    ASSUME NEW m, NEW s \in Nat \cup {NoOne},
           NEW rs \in [WorkRuns -> WorkRecords]
    PROVE  /\ Adopted(m, s, rs) \in [WorkRuns -> WorkRecords]
           /\ \A r \in WorkRuns :
                /\ Adopted(m, s, rs)[r].manager = rs[r].manager
                /\ Adopted(m, s, rs)[r].overtaken = rs[r].overtaken
                /\ Adopted(m, s, rs)[r].status = rs[r].status
                /\ s # NoOne /\ rs[r].manager = m /\ rs[r].status = "running" =>
                        Adopted(m, s, rs)[r].session = s
BY DEF Adopted, WorkRecords

LEMMA LoadKeeps ==
    ASSUME HandoffInv, NEW v \in Versions, LoadExtension(v)
    PROVE  HandoffInv'
<1> DEFINE kept == slot.manager # NoOne /\ slot.version = v
           fresh == Len(managers) + 1
           old == IF slot.manager = NoOne THEN managers
                  ELSE [managers EXCEPT ![slot.manager] = Disposed(managers[slot.manager])]
<1>1. /\ HandoffTypeOK /\ Referred /\ OnePublishes /\ NoRunStranded /\ NoneForgotten
      /\ NoOne \notin Nat /\ LaunchDir \in Projects
    BY HandoffAssumption DEF HandoffInv
<1>2. /\ window.phase = "replacing" /\ extension.manager = NoOne
      /\ window' = [window EXCEPT !.phase = "loaded"]
      /\ slot' = EmptySlot /\ slot'.manager = NoOne /\ sent' = sent
      /\ window'.phase = "loaded" /\ ~Bound'
    BY <1>1 DEF LoadExtension, EmptySlot, Referred, HandoffTypeOK, Bound
<1>3. slot' \in Entries /\ window' \in [phase : {"replacing", "loaded", "bound", "exited"},
                                        project : Projects, sessions : Nat]
    BY <1>1, <1>2 DEF EmptySlot, Entries, HandoffTypeOK
<1>4. managers \in Seq(Managers) /\ \A m \in DOMAIN managers : managers[m] \in Managers /\ m \in Nat
    BY <1>1, ElementOfSeq, LenProperties DEF HandoffTypeOK
<1>5. CASE kept
    <2>1. /\ extension' = slot /\ work' = work /\ slot.manager \in DOMAIN managers
          /\ managers' = [managers EXCEPT ![slot.manager] = Installed(managers[slot.manager])]
          /\ managers[slot.manager].listening
        BY <1>1, <1>5 DEF LoadExtension, Referred
    <2> DEFINE mg == Installed(managers[slot.manager])
    <2>2. /\ mg \in Managers /\ mg.suspended /\ mg.listening
          /\ mg.pending = managers[slot.manager].pending
        BY <1>1, <1>4, <2>1, ManagerViews
    <2> HIDE DEF mg
    <2>3. /\ managers' \in Seq(Managers) /\ DOMAIN managers' = DOMAIN managers
          /\ managers'[slot.manager] = mg
          /\ \A n \in DOMAIN managers : n # slot.manager => managers'[n] = managers[n]
        <3>1. managers' = [managers EXCEPT ![slot.manager] = mg]
            BY <2>1 DEF mg
        <3> QED BY <1>4, <2>1, <2>2, <3>1, ManagerPut
    <2>4. HandoffTypeOK'
        BY <1>1, <1>2, <1>3, <2>1, <2>3 DEF HandoffTypeOK
    <2>5. Referred'
        BY <1>1, <1>2, <1>5, <2>1, <2>2, <2>3 DEF Referred
    <2>6. OnePublishes'
        BY <1>1, <1>2, <2>1, <2>2, <2>3 DEF OnePublishes, Bound
    <2>7. NoRunStranded'
        BY <1>1, <1>2, <2>1 DEF NoRunStranded, InReach
    <2>8. NoneForgotten'
        BY <1>1, <1>2, <2>1, <2>2, <2>3 DEF NoneForgotten, InReach
    <2> QED BY <2>4, <2>5, <2>6, <2>7, <2>8 DEF HandoffInv
<1>6. CASE ~kept
    <2>1. /\ extension' = [manager |-> fresh, version |-> v]
          /\ managers' = Append(old, Installed(NewManager(LaunchDir)))
          /\ work' = PauseStranded(slot.manager, work)
        BY <1>6 DEF LoadExtension
    <2>2. /\ old \in Seq(Managers) /\ DOMAIN old = DOMAIN managers
          /\ \A n \in DOMAIN managers :
                /\ n # slot.manager => old[n] = managers[n]
                /\ old[n].pending = managers[n].pending
                /\ n = slot.manager => ~old[n].listening
        <3>1. CASE slot.manager = NoOne
            BY <1>1, <1>4, <3>1
        <3>2. CASE slot.manager # NoOne
            <4> DEFINE mg == Disposed(managers[slot.manager])
            <4>1. slot.manager \in DOMAIN managers
                BY <1>1, <3>2 DEF Referred
            <4>2. mg \in Managers /\ ~mg.listening /\ mg.pending = managers[slot.manager].pending
                BY <1>1, <1>4, <4>1, ManagerViews
            <4>3. old = [managers EXCEPT ![slot.manager] = mg]
                BY <3>2
            <4> HIDE DEF mg, old
            <4> QED BY <1>4, <4>1, <4>2, <4>3, ManagerPut
        <3> QED BY <3>1, <3>2
    <2> HIDE DEF old
    <2> DEFINE mg == Installed(NewManager(LaunchDir))
    <2>3. mg \in Managers /\ mg.suspended /\ mg.listening /\ mg.pending = {}
        <3>1. NewManager(LaunchDir) \in Managers /\ NewManager(LaunchDir).pending = {}
              /\ NewManager(LaunchDir).listening
            BY <1>1, NewIs
        <3> HIDE DEF mg
        <3> QED BY <1>1, <3>1, ManagerViews DEF mg
    <2>4. managers' = Append(old, mg) /\ Len(old) = Len(managers) /\ fresh \in Nat
        BY <1>4, <2>1, <2>2, LenProperties
    <2> HIDE DEF mg
    <2>5. /\ managers' \in Seq(Managers) /\ fresh \notin DOMAIN managers
          /\ DOMAIN managers' = DOMAIN managers \cup {fresh}
          /\ managers'[fresh] = mg
          /\ \A n \in DOMAIN managers : managers'[n] = old[n]
        BY <2>2, <2>3, <2>4, ManagerMade
    <2> HIDE DEF fresh
    <2>6. /\ extension'.manager = fresh /\ fresh # NoOne /\ extension' \in Entries
        BY <1>1, <2>1, <2>4 DEF Entries
    <2>7. /\ work' \in [WorkRuns -> WorkRecords]
          /\ \A r \in WorkRuns :
                /\ work'[r].manager = work[r].manager
                /\ work'[r].overtaken = work[r].overtaken
                /\ work'[r].status =
                     IF work[r].manager = slot.manager /\ work[r].status = "running" THEN "unwinding"
                     ELSE work[r].status
        BY <1>1, <2>1, PausedIs
    <2>8. HandoffTypeOK'
        BY <1>1, <1>2, <1>3, <2>5, <2>6, <2>7 DEF HandoffTypeOK
    <2>9. Referred'
        BY <1>1, <1>2, <2>3, <2>5, <2>6, <2>7 DEF Referred
    <2>10. OnePublishes'
        <3>1. ASSUME NEW m \in DOMAIN managers
              PROVE  /\ ~(managers'[m].listening /\ ~managers'[m].suspended)
                     /\ \A r \in managers'[m].pending : work'[r].manager = m
            <4>1. /\ managers'[m] = old[m] /\ old[m].pending = managers[m].pending
                  /\ m # slot.manager => old[m] = managers[m]
                  /\ m = slot.manager => ~old[m].listening
                BY <2>2, <2>5, <3>1
            <4>2. /\ ~(managers[m].listening /\ ~managers[m].suspended)
                  /\ \A r \in managers[m].pending : r \in WorkRuns /\ work[r].manager = m
                BY <1>1, <1>2, <1>4, <3>1 DEF OnePublishes, Bound, Managers
            <4> QED BY <2>7, <4>1, <4>2
        <3> QED BY <2>3, <2>5, <3>1 DEF OnePublishes
    <2>11. NoRunStranded'
        <3>1. \A r \in WorkRuns : work'[r].status = "running" => work'[r].overtaken
            BY <1>1, <1>2, <2>7 DEF NoRunStranded, InReach
        <3> QED BY <3>1 DEF NoRunStranded
    <2>12. NoneForgotten'
        <3>1. \A r \in WorkRuns : ~InReach(work[r].manager)'
            <4> SUFFICES ASSUME NEW r \in WorkRuns, work[r].manager # NoOne PROVE work[r].manager # fresh
                BY <1>2, <2>6, <2>7 DEF InReach
            <4> QED BY <1>1, <2>5 DEF Referred
        <3> QED BY <3>1 DEF NoneForgotten
    <2> QED BY <2>8, <2>9, <2>10, <2>11, <2>12 DEF HandoffInv
<1> QED BY <1>5, <1>6

LEMMA StartKeeps ==
    ASSUME HandoffInv, NEW seen \in BOOLEAN, SessionStart(seen)
    PROVE  HandoffInv'
<1> DEFINE old == extension.manager
           home == managers[old].project = window.project
           m == IF home THEN old ELSE Len(managers) + 1
           aside == Disposed(Suspended(managers[old]))
           made == IF home THEN managers
                   ELSE Append([managers EXCEPT ![old] = aside], NewManager(window.project))
           left == IF home THEN work ELSE PauseStranded(old, work)
           s == IF seen THEN window.sessions + 1 ELSE NoOne
<1>1. /\ HandoffTypeOK /\ Referred /\ OnePublishes /\ NoRunStranded /\ NoneForgotten
      /\ NoOne \notin Nat
    BY HandoffAssumption DEF HandoffInv
<1>2. /\ window.phase = "loaded" /\ old # NoOne /\ old \in DOMAIN managers /\ managers[old].listening
      /\ slot.manager = NoOne /\ slot' = slot /\ window.project \in Projects /\ ~Bound
      /\ window.sessions + 1 \in Nat /\ s \in Nat \cup {NoOne}
    BY <1>1 DEF SessionStart, Referred, HandoffTypeOK, Bound
<1>3. /\ extension' = [extension EXCEPT !.manager = m]
      /\ work' = Adopted(m, s, left)
      /\ window' = [window EXCEPT !.phase = "bound", !.sessions = window.sessions + 1]
      /\ \E taken \in SUBSET made[m].pending :
            /\ managers' = [made EXCEPT ![m] = Flushed([made[m] EXCEPT !.session = s], taken)]
            /\ sent' = [r \in WorkRuns |-> IF r \in taken THEN window.sessions + 1 ELSE sent[r]]
    BY DEF SessionStart
<1>4. PICK taken \in SUBSET made[m].pending :
            /\ managers' = [made EXCEPT ![m] = Flushed([made[m] EXCEPT !.session = s], taken)]
            /\ sent' = [r \in WorkRuns |-> IF r \in taken THEN window.sessions + 1 ELSE sent[r]]
    BY <1>3
<1>5. managers \in Seq(Managers) /\ \A n \in DOMAIN managers : managers[n] \in Managers /\ n \in Nat
    BY <1>1, ElementOfSeq, LenProperties DEF HandoffTypeOK
<1>6. /\ made \in Seq(Managers) /\ m \in DOMAIN made /\ m \in Nat
      /\ made[m] \in Managers /\ made[m].listening
      /\ home \/ made[m].pending = {}
      /\ home \/ m \notin DOMAIN managers
      /\ DOMAIN managers \subseteq DOMAIN made
      /\ \A n \in DOMAIN made : n # m => n \in DOMAIN managers
      /\ \A n \in DOMAIN managers :
            /\ n # old => made[n] = managers[n]
            /\ made[n].pending = managers[n].pending
            /\ ~home /\ n = old => ~made[n].listening
    <2>1. CASE home
        BY <1>2, <1>5, <2>1
    <2>2. CASE ~home
        <3>1. /\ Suspended(managers[old]) \in Managers
              /\ Suspended(managers[old]).pending = managers[old].pending
            BY <1>2, <1>5, ManagerViews
        <3>2. aside \in Managers /\ ~aside.listening /\ aside.pending = managers[old].pending
            BY <3>1, ManagerViews
        <3> DEFINE fresh == NewManager(window.project)
                   ms == [managers EXCEPT ![old] = aside]
        <3>3. fresh \in Managers /\ fresh.pending = {} /\ fresh.listening
            BY <1>2, NewIs
        <3>4. made = Append(ms, fresh) /\ m = Len(managers) + 1
            BY <2>2
        <3> HIDE DEF aside, fresh
        <3>5. /\ ms \in Seq(Managers) /\ DOMAIN ms = DOMAIN managers /\ ms[old] = aside
              /\ \A n \in DOMAIN managers : n # old => ms[n] = managers[n]
            BY <1>2, <1>5, <3>2, ManagerPut
        <3> HIDE DEF ms, made, m
        <3>6. Len(ms) = Len(managers)
            BY <1>5, <3>5, LenProperties
        <3>7. /\ made \in Seq(Managers) /\ m \in Nat /\ m \notin DOMAIN managers
              /\ DOMAIN made = DOMAIN managers \cup {m} /\ made[m] = fresh
              /\ \A n \in DOMAIN managers : made[n] = ms[n]
            BY <3>3, <3>4, <3>5, <3>6, ManagerMade
        <3> QED BY <2>2, <3>2, <3>3, <3>5, <3>7
    <2> QED BY <2>1, <2>2
<1>7. home => m = old
    OBVIOUS
<1>8. /\ left \in [WorkRuns -> WorkRecords]
      /\ \A r \in WorkRuns :
            /\ left[r].manager = work[r].manager
            /\ left[r].overtaken = work[r].overtaken
            /\ left[r].status = IF ~home /\ work[r].manager = old /\ work[r].status = "running"
                               THEN "unwinding" ELSE work[r].status
            /\ home => left[r] = work[r]
    <2>1. CASE home
        BY <1>1, <2>1 DEF HandoffTypeOK, WorkRecords
    <2>2. CASE ~home
        BY <1>1, <2>2, PausedIs
    <2> QED BY <2>1, <2>2
<1> DEFINE mg == Flushed([made[m] EXCEPT !.session = s], taken)
<1> HIDE DEF made, m, left, s
<1>9. mg \in Managers /\ mg.session = s /\ mg.listening /\ mg.pending = made[m].pending \ taken
    <2>1. made[m] \in Managers /\ s \in Nat \cup {NoOne} /\ taken \in SUBSET made[m].pending
          /\ made[m].listening
        BY <1>2, <1>4, <1>6
    <2>2. mg = Flushed([made[m] EXCEPT !.session = s], taken)
        OBVIOUS
    <2> HIDE DEF mg
    <2> QED BY <2>1, <2>2, FlushedIs
<1>10. managers' = [made EXCEPT ![m] = mg]
    BY <1>4
<1> HIDE DEF mg
<1>11. /\ managers' \in Seq(Managers) /\ DOMAIN managers' = DOMAIN made /\ managers'[m] = mg
       /\ \A n \in DOMAIN made : n # m => managers'[n] = made[n]
    BY <1>6, <1>9, <1>10, ManagerPut
<1>12. /\ work' \in [WorkRuns -> WorkRecords]
       /\ \A r \in WorkRuns :
            /\ work'[r].manager = left[r].manager
            /\ work'[r].overtaken = left[r].overtaken
            /\ work'[r].status = left[r].status
            /\ s # NoOne /\ left[r].manager = m /\ left[r].status = "running" => work'[r].session = s
    <2>1. s \in Nat \cup {NoOne} /\ left \in [WorkRuns -> WorkRecords] /\ work' = Adopted(m, s, left)
        <3>1. s \in Nat \cup {NoOne}
            BY <1>2
        <3>2. left \in [WorkRuns -> WorkRecords]
            BY <1>8
        <3>3. work' = Adopted(m, s, left)
            BY <1>3
        <3> QED BY <3>1, <3>2, <3>3
    <2>2. /\ Adopted(m, s, left) \in [WorkRuns -> WorkRecords]
          /\ \A r \in WorkRuns :
                /\ Adopted(m, s, left)[r].manager = left[r].manager
                /\ Adopted(m, s, left)[r].overtaken = left[r].overtaken
                /\ Adopted(m, s, left)[r].status = left[r].status
                /\ s # NoOne /\ left[r].manager = m /\ left[r].status = "running"
                      => Adopted(m, s, left)[r].session = s
        BY <2>1, AdoptedIs
    <2> QED BY <2>1, <2>2
<1>13. /\ extension' \in Entries /\ extension'.manager = m /\ m # NoOne
       /\ window'.phase = "bound" /\ Bound'
       /\ window' \in [phase : {"replacing", "loaded", "bound", "exited"}, project : Projects, sessions : Nat]
    BY <1>1, <1>2, <1>3, <1>6 DEF HandoffTypeOK, Entries, Bound
<1>14. /\ sent' \in [WorkRuns -> Nat \cup {NoOne}]
       /\ \A r \in WorkRuns : sent'[r] = IF r \in taken THEN window.sessions + 1 ELSE sent[r]
    BY <1>1, <1>2, <1>4 DEF HandoffTypeOK
<1>15. \A r \in WorkRuns : /\ work[r].manager # NoOne => work[r].manager \in DOMAIN managers
                           /\ ~home => work[r].manager # m
    BY <1>1, <1>6, <1>13 DEF Referred
<1>16. HandoffTypeOK'
    BY <1>1, <1>2, <1>11, <1>12, <1>13, <1>14 DEF HandoffTypeOK
<1>17. Referred'
    <2>1. \A held \in {slot', extension'} : held.manager # NoOne => held.manager = m
        BY <1>2, <1>13
    <2>2. \A r \in WorkRuns :
            /\ work'[r].manager # NoOne => work'[r].manager \in DOMAIN managers'
            /\ work'[r].manager = NoOne <=> work'[r].status = "none"
        BY <1>1, <1>6, <1>8, <1>11, <1>12 DEF Referred
    <2> QED BY <1>2, <1>6, <1>9, <1>11, <1>13, <2>1, <2>2 DEF Referred
<1>18. OnePublishes'
    <2>1. ASSUME NEW n \in DOMAIN made, n # m
          PROVE  /\ ~(managers'[n].listening /\ ~managers'[n].suspended)
                 /\ \A r \in managers'[n].pending : work'[r].manager = n
        <3>1. /\ n \in DOMAIN managers /\ managers'[n] = made[n] /\ made[n].pending = managers[n].pending
              /\ n # old => made[n] = managers[n]
              /\ n = old => ~made[n].listening
            BY <1>6, <1>7, <1>11, <2>1
        <3>2. /\ ~(managers[n].listening /\ ~managers[n].suspended)
              /\ \A r \in managers[n].pending : r \in WorkRuns /\ work[r].manager = n
            BY <1>1, <1>2, <1>5, <3>1 DEF OnePublishes, Managers
        <3> QED BY <1>8, <1>12, <3>1, <3>2
    <2>2. \A r \in managers'[m].pending : work'[r].manager = m
        <3>1. CASE home
            <4>1. managers'[m].pending \subseteq managers[m].pending /\ m \in DOMAIN managers
                BY <1>2, <1>6, <1>7, <1>9, <1>11, <3>1
            <4>2. \A r \in managers[m].pending : r \in WorkRuns /\ work[r].manager = m
                BY <1>1, <1>5, <4>1 DEF OnePublishes, Managers
            <4> QED BY <1>8, <1>12, <4>1, <4>2
        <3>2. CASE ~home
            BY <1>6, <1>9, <1>11, <3>2
        <3> QED BY <3>1, <3>2
    <2> QED BY <1>11, <1>13, <2>1, <2>2 DEF OnePublishes
<1>19. NoRunStranded'
    <2> SUFFICES ASSUME NEW r \in WorkRuns, work'[r].status = "running", ~work'[r].overtaken
                 PROVE  /\ work'[r].manager = m
                        /\ managers'[m].session # NoOne => work'[r].session = managers'[m].session
        BY <1>13 DEF NoRunStranded, InReach
    <2>1. work[r].status = "running" /\ ~work[r].overtaken /\ (work[r].manager = old => home)
        BY <1>8, <1>12
    <2>2. work[r].manager = old
        BY <1>1, <1>2, <2>1 DEF NoRunStranded, InReach
    <2>3. work'[r].manager = m /\ left[r].manager = m /\ left[r].status = "running"
        BY <1>7, <1>8, <1>12, <2>1, <2>2
    <2> QED BY <1>9, <1>11, <1>12, <2>3
<1>20. NoneForgotten'
    <2> SUFFICES ASSUME NEW r \in WorkRuns, work'[r].status = "done", InReach(work[r].manager)'
                 PROVE  sent'[r] # NoOne \/ r \in managers'[work'[r].manager].pending
        BY <1>8, <1>12 DEF NoneForgotten, InReach
    <2>1. work[r].status = "done" /\ work[r].manager = m /\ work'[r].manager = m
        BY <1>2, <1>8, <1>12, <1>13 DEF InReach
    <2>2. home /\ m = old /\ m \in DOMAIN managers
        BY <1>2, <1>7, <1>15, <2>1
    <2>3. sent[r] # NoOne \/ r \in managers[m].pending
        BY <1>1, <1>13, <2>1, <2>2 DEF NoneForgotten, InReach
    <2> QED BY <1>1, <1>2, <1>6, <1>9, <1>11, <1>14, <2>1, <2>2, <2>3
<1> QED BY <1>16, <1>17, <1>18, <1>19, <1>20 DEF HandoffInv

\* Runs of a manager that goes out of reach are paused.
LEMMA LeftPaused ==
    ASSUME HandoffInv, NEW m, work' = PauseStranded(m, work),
           UNCHANGED sent, ~Bound',
           Referred', DOMAIN managers' = DOMAIN managers,
           \A n \in DOMAIN managers : managers'[n].pending = managers[n].pending,
           \A n \in DOMAIN managers : managers'[n].listening /\ ~managers'[n].suspended
                => n = extension'.manager /\ Bound',
           \A n \in Nat : InReach(n) => InReach(n)' \/ n = m,
           \A n \in Nat : InReach(n)' => InReach(n)
    PROVE  OnePublishes' /\ NoRunStranded' /\ NoneForgotten'
<1>1. /\ HandoffTypeOK /\ Referred /\ OnePublishes /\ NoRunStranded /\ NoneForgotten
      /\ NoOne \notin Nat
    BY HandoffAssumption DEF HandoffInv
<1>2. /\ work' \in [WorkRuns -> WorkRecords]
      /\ \A r \in WorkRuns :
            /\ work'[r].manager = work[r].manager
            /\ work'[r].overtaken = work[r].overtaken
            /\ work'[r].status =
                 IF work[r].manager = m /\ work[r].status = "running" THEN "unwinding"
                 ELSE work[r].status
    BY <1>1, PausedIs
<1>3. \A n \in DOMAIN managers : managers[n].pending \subseteq WorkRuns /\ n \in Nat
    <2>1. \A n \in DOMAIN managers : managers[n] \in Managers /\ n \in Nat
        BY <1>1, ElementOfSeq, LenProperties DEF HandoffTypeOK
    <2> QED BY <2>1 DEF Managers
<1>4. OnePublishes'
    BY <1>1, <1>2, <1>3 DEF OnePublishes
<1>5. NoRunStranded'
    <2>1. \A r \in WorkRuns : work'[r].status = "running" /\ ~work'[r].overtaken => InReach(work[r].manager)'
        <3>1. \A r \in WorkRuns : work[r].status = "running" /\ ~work[r].overtaken =>
                    InReach(work[r].manager) /\ work[r].manager \in Nat
            BY <1>1, <1>3 DEF NoRunStranded, Referred
        <3>2. \A r \in WorkRuns : work'[r].status = "running" =>
                    work[r].status = "running" /\ work[r].manager # m
            BY <1>2
        <3> QED BY <1>2, <3>1, <3>2 DEF InReach
    <2> QED BY <1>2, <2>1 DEF NoRunStranded, InReach
<1>6. NoneForgotten'
    <2>1. \A r \in WorkRuns : work'[r].status = "done" /\ InReach(work[r].manager)' =>
              /\ work[r].status = "done" /\ InReach(work[r].manager)
              /\ work[r].manager \in DOMAIN managers
        BY <1>1, <1>2, <1>3 DEF Referred, InReach
    <2> QED BY <1>1, <1>2, <2>1 DEF NoneForgotten, InReach
<1> QED BY <1>4, <1>5, <1>6

LEMMA ShutdownKeeps ==
    ASSUME HandoffInv, NEW reason \in {"reload", "new", "resume", "fork", "quit"}, NEW p \in Projects,
           NEW readable \in BOOLEAN, SessionShutdown(reason, p, readable)
    PROVE  HandoffInv'
<1> DEFINE m == extension.manager
           stays == StaysHome(reason, p, readable, managers[m].project)
<1>1. /\ HandoffTypeOK /\ Referred /\ OnePublishes /\ NoRunStranded /\ NoneForgotten
      /\ NoOne \notin Nat
    BY HandoffAssumption DEF HandoffInv
<1>2. /\ window.phase = "bound" /\ m # NoOne /\ m \in DOMAIN managers /\ managers[m].listening
      /\ slot.manager = NoOne
    BY <1>1 DEF SessionShutdown, Referred
<1>3. /\ managers' = [managers EXCEPT ![m] = Suspended(managers[m])]
      /\ window' = [window EXCEPT !.phase = IF reason = "quit" THEN "exited" ELSE "replacing",
                               !.project = p]
      /\ extension' = [manager |-> NoOne, version |-> NoOne]
      /\ UNCHANGED sent
      /\ \/ stays /\ slot' = extension /\ work' = work
         \/ ~stays /\ slot' = slot /\ work' = PauseStranded(m, work)
    <2>1. IF stays THEN Stage(extension)
          ELSE /\ work' = PauseStranded(m, work)
               /\ slot' = IF slot.manager = m THEN EmptySlot ELSE slot
        BY DEF SessionShutdown
    <2>2. Stage(extension) => slot' = extension /\ work' = work
        BY <1>2 DEF Stage
    <2> QED BY <1>2, <2>1, <2>2 DEF SessionShutdown
<1>4. managers \in Seq(Managers) /\ \A n \in DOMAIN managers : managers[n] \in Managers /\ n \in Nat
    BY <1>1, ElementOfSeq, LenProperties DEF HandoffTypeOK
<1> DEFINE mg == Suspended(managers[m])
<1>5. /\ mg \in Managers /\ mg.suspended /\ mg.listening /\ mg.pending = managers[m].pending
    BY <1>2, <1>4, ManagerViews
<1> HIDE DEF mg
<1>6. /\ managers' \in Seq(Managers) /\ DOMAIN managers' = DOMAIN managers /\ managers'[m] = mg
      /\ \A n \in DOMAIN managers : n # m => managers'[n] = managers[n]
    <2>1. managers' = [managers EXCEPT ![m] = mg]
        BY <1>3 DEF mg
    <2> QED BY <1>2, <1>4, <1>5, <2>1, ManagerPut
<1>7. /\ extension' \in Entries /\ extension'.manager = NoOne /\ slot' \in Entries
      /\ window'.phase \in {"exited", "replacing"} /\ ~Bound'
      /\ window' \in [phase : {"replacing", "loaded", "bound", "exited"}, project : Projects, sessions : Nat]
    BY <1>1, <1>3 DEF HandoffTypeOK, Entries, Bound
<1>8. \A n \in DOMAIN managers : /\ managers'[n].pending = managers[n].pending
                                 /\ managers[n].listening => managers'[n].listening
                                 /\ ~(managers'[n].listening /\ ~managers'[n].suspended)
    <2>1. ASSUME NEW n \in DOMAIN managers, n # m
          PROVE  managers'[n] = managers[n] /\ ~(managers[n].listening /\ ~managers[n].suspended)
        <3>1. ~(managers[n].listening /\ ~managers[n].suspended)
            BY <1>1, <2>1 DEF OnePublishes
        <3> QED BY <1>6, <2>1, <3>1
    <2> QED BY <1>2, <1>5, <1>6, <2>1
<1>9. CASE stays /\ slot' = extension /\ work' = work
    <2>1. HandoffTypeOK'
        BY <1>1, <1>3, <1>6, <1>7, <1>9 DEF HandoffTypeOK
    <2>2. Referred'
        BY <1>1, <1>2, <1>6, <1>7, <1>8, <1>9 DEF Referred
    <2>3. OnePublishes'
        BY <1>1, <1>6, <1>8, <1>9 DEF OnePublishes
    <2>4. NoRunStranded'
        BY <1>1, <1>2, <1>7, <1>9 DEF NoRunStranded, InReach
    <2>5. NoneForgotten'
        <3>1. \A r \in WorkRuns : InReach(work[r].manager)' => work[r].manager = m /\ InReach(m)
            BY <1>2, <1>7, <1>9 DEF InReach
        <3> QED BY <1>1, <1>2, <1>3, <1>8, <1>9, <3>1 DEF NoneForgotten, InReach
    <2> QED BY <2>1, <2>2, <2>3, <2>4, <2>5 DEF HandoffInv
<1>10. CASE ~stays /\ slot' = slot /\ work' = PauseStranded(m, work)
    <2>1. /\ work' \in [WorkRuns -> WorkRecords]
          /\ \A r \in WorkRuns : /\ work'[r].manager = work[r].manager
                                 /\ work'[r].status = "none" => work[r].status = "none"
                                 /\ work[r].status = "none" => work'[r].status = "none"
        BY <1>1, <1>10, PausedIs
    <2>2. HandoffTypeOK'
        BY <1>1, <1>3, <1>6, <1>7, <2>1 DEF HandoffTypeOK
    <2>3. Referred'
        <3>1. \A r \in WorkRuns :
                /\ work'[r].manager # NoOne => work'[r].manager \in DOMAIN managers'
                /\ work'[r].manager = NoOne <=> work'[r].status = "none"
            BY <1>1, <1>6, <2>1 DEF Referred
        <3> QED BY <1>2, <1>7, <1>10, <3>1 DEF Referred
    <2>4. \A n \in Nat : (InReach(n) => InReach(n)' \/ n = m) /\ (InReach(n)' => InReach(n))
        BY <1>2, <1>7, <1>10 DEF InReach
    <2>5. OnePublishes' /\ NoRunStranded' /\ NoneForgotten'
        BY <1>3, <1>6, <1>7, <1>8, <1>10, <2>3, <2>4, LeftPaused
    <2> QED BY <2>2, <2>3, <2>5 DEF HandoffInv
<1> QED BY <1>3, <1>9, <1>10

LEMMA ExpiryKeeps ==
    ASSUME HandoffInv, HandoffExpires
    PROVE  HandoffInv'
<1>1. /\ HandoffTypeOK /\ Referred /\ OnePublishes /\ NoRunStranded /\ NoneForgotten
      /\ NoOne \notin Nat
    BY HandoffAssumption DEF HandoffInv
<1>2. /\ slot.manager # NoOne /\ extension.manager = NoOne /\ slot' = EmptySlot
      /\ work' = PauseStranded(slot.manager, work)
      /\ UNCHANGED <<managers, extension, window, sent>>
    BY <1>1 DEF HandoffExpires, Referred
<1>3. ~Bound /\ ~Bound' /\ slot' \in Entries /\ slot'.manager = NoOne
    BY <1>1, <1>2 DEF Referred, Bound, EmptySlot, Entries
<1>4. /\ work' \in [WorkRuns -> WorkRecords]
      /\ \A r \in WorkRuns : /\ work'[r].manager = work[r].manager
                             /\ work'[r].status = "none" => work[r].status = "none"
                             /\ work[r].status = "none" => work'[r].status = "none"
    BY <1>1, <1>2, PausedIs
<1>5. HandoffTypeOK'
    BY <1>1, <1>2, <1>3, <1>4 DEF HandoffTypeOK
<1>6. Referred'
    <2>1. \A r \in WorkRuns :
            /\ work'[r].manager # NoOne => work'[r].manager \in DOMAIN managers'
            /\ work'[r].manager = NoOne <=> work'[r].status = "none"
        BY <1>1, <1>2, <1>4 DEF Referred
    <2>2. window'.phase \in {"loaded", "bound"} <=> extension'.manager # NoOne
        BY <1>1, <1>2 DEF Referred
    <2> QED BY <1>2, <1>3, <2>1, <2>2 DEF Referred
<1>7. \A n \in Nat : (InReach(n) => InReach(n)' \/ n = slot.manager) /\ (InReach(n)' => InReach(n))
    BY <1>2, <1>3 DEF InReach
<1>8. \A n \in DOMAIN managers : managers'[n].listening /\ ~managers'[n].suspended
                => n = extension'.manager /\ Bound'
    BY <1>1, <1>2, <1>3 DEF OnePublishes
<1>9. OnePublishes' /\ NoRunStranded' /\ NoneForgotten'
    BY <1>2, <1>3, <1>6, <1>7, <1>8, LeftPaused
<1> QED BY <1>5, <1>6, <1>9 DEF HandoffInv

\* The steps of one run that leave the managers and the results alone.
LEMMA OneRunKeeps ==
    ASSUME HandoffInv, NEW r \in WorkRuns,
           \/ StartWork(r) \/ PauseWork(r) \/ WorkUnwinds(r) \/ AskToResume(r) \/ WorkResumes(r)
    PROVE  HandoffInv'
<1>1. /\ HandoffTypeOK /\ Referred /\ OnePublishes /\ NoRunStranded /\ NoneForgotten
      /\ NoOne \notin Nat
    BY HandoffAssumption DEF HandoffInv
<1>2. UNCHANGED <<managers, slot, extension, window, sent>>
    BY DEF StartWork, PauseWork, WorkUnwinds, AskToResume, WorkResumes
<1>3. work \in [WorkRuns -> WorkRecords] /\ work[r] \in WorkRecords
    BY <1>1 DEF HandoffTypeOK
<1>4. \A m \in DOMAIN managers : managers[m] \in Managers /\ m \in Nat /\ m # NoOne
    BY <1>1, ElementOfSeq, LenProperties DEF HandoffTypeOK
<1>5. \A m \in DOMAIN managers : managers[m].session \in Nat \cup {NoOne} /\ managers[m].pending \subseteq WorkRuns
    BY <1>4 DEF Managers
<1>6. /\ work[r].manager # NoOne => work[r].manager \in DOMAIN managers
      /\ work[r].manager = NoOne <=> work[r].status = "none"
    BY <1>1 DEF Referred
<1> DEFINE to == work'[r]
<1>7. /\ work' = [work EXCEPT ![r] = to] /\ to \in WorkRecords /\ to.status # "none"
      /\ to.manager \in DOMAIN managers
      /\ work[r].manager # NoOne => to.manager = work[r].manager
      /\ to.status # "done"
      /\ to.status = "running" /\ ~to.overtaken =>
            /\ InReach(to.manager)
            /\ Bound /\ managers[to.manager].session # NoOne => to.session = managers[to.manager].session
    <2>1. CASE StartWork(r)
        <3>1. /\ extension.manager \in DOMAIN managers /\ Bound /\ work[r].status = "none"
              /\ managers[extension.manager].session \in Nat \cup {NoOne}
            BY <1>1, <1>4, <1>5, <2>1 DEF StartWork, Bound, Referred
        <3> DEFINE x == extension.manager
                   y == managers[extension.manager].session
        <3>2. /\ work' = [work EXCEPT ![r] = [[[work[r] EXCEPT !.manager = x] EXCEPT !.status = "running"]
                                                        EXCEPT !.session = y]]
            BY <1>3, <2>1 DEF StartWork
        <3>3. x \in Nat /\ y \in Nat \cup {NoOne}
            BY <1>4, <3>1
        <3> HIDE DEF x, y
        <3>4. /\ to \in WorkRecords /\ to.status = "running" /\ to.manager = x /\ to.session = y
              /\ work' = [work EXCEPT ![r] = to]
            BY <1>3, <3>2, <3>3 DEF WorkRecords
        <3> HIDE DEF to
        <3> QED BY <1>4, <1>6, <3>1, <3>4 DEF InReach, x, y
    <2>2. CASE ~StartWork(r)
        <3>1. work[r].status # "none"
            BY <2>2 DEF PauseWork, WorkUnwinds, AskToResume, WorkResumes
        <3>2. ASSUME NEW st \in {"unwinding", "paused"}, work' = [work EXCEPT ![r].status = st]
              PROVE  /\ to.status = st /\ to \in WorkRecords /\ to.manager = work[r].manager
                     /\ work' = [work EXCEPT ![r] = to]
            BY <1>3, <3>2 DEF WorkRecords
        <3>3. CASE PauseWork(r) \/ WorkUnwinds(r) \/ AskToResume(r)
            <4>1. /\ to.status \in {"unwinding", "paused"} /\ to \in WorkRecords
                  /\ to.manager = work[r].manager /\ work' = [work EXCEPT ![r] = to]
                <5>1. CASE PauseWork(r) \/ WorkUnwinds(r)
                    BY <3>2, <5>1 DEF PauseWork, WorkUnwinds
                <5>2. CASE AskToResume(r)
                    BY <1>3, <5>2 DEF AskToResume, WorkRecords
                <5> QED BY <3>3, <5>1, <5>2
            <4> HIDE DEF to
            <4> QED BY <1>6, <3>1, <4>1
        <3>4. CASE WorkResumes(r)
            <4> DEFINE bound == managers[work[r].manager].session
                       mine == bound = NoOne \/ work[r].session = bound
            <4>0. work[r].manager \in DOMAIN managers /\ bound \in Nat \cup {NoOne}
                BY <1>5, <1>6, <3>1
            <4>1. /\ work' = [work EXCEPT ![r] =
                        [[[[work[r] EXCEPT !.resuming = FALSE]
                            EXCEPT !.status = IF mine THEN "running" ELSE work[r].status]
                            EXCEPT !.session = IF work[r].session = NoOne THEN bound ELSE work[r].session]
                            EXCEPT !.overtaken = (mine /\ ~InReach(work[r].manager))]]
                  /\ work[r].status = "paused"
                BY <1>3, <3>4 DEF WorkResumes
            <4> DEFINE o == mine /\ ~InReach(work[r].manager)
            <4>2. o \in BOOLEAN
                OBVIOUS
            <4>3. CASE mine
                <5>1. work' = [work EXCEPT ![r] =
                        [[[[work[r] EXCEPT !.resuming = FALSE] EXCEPT !.status = "running"]
                            EXCEPT !.session = IF work[r].session = NoOne THEN bound ELSE work[r].session]
                            EXCEPT !.overtaken = o]]
                    BY <4>1, <4>3
                <5>2. o => ~InReach(work[r].manager)
                    OBVIOUS
                <5>3. ~o => InReach(work[r].manager)
                    BY <4>3
                <5> HIDE DEF o, bound
                <5>4. /\ to \in WorkRecords /\ to.status = "running" /\ to.manager = work[r].manager
                      /\ work' = [work EXCEPT ![r] = to] /\ to.overtaken = o
                      /\ to.session = IF work[r].session = NoOne THEN bound ELSE work[r].session
                    BY <1>3, <4>0, <4>2, <5>1 DEF WorkRecords
                <5>5. bound # NoOne => to.session = bound
                    BY <4>3, <5>4
                <5> HIDE DEF to
                <5> QED BY <1>6, <4>0, <5>3, <5>4, <5>5 DEF bound
            <4>4. CASE ~mine
                <5>1. work' = [work EXCEPT ![r] =
                        [[[[work[r] EXCEPT !.resuming = FALSE] EXCEPT !.status = "paused"]
                            EXCEPT !.session = IF work[r].session = NoOne THEN bound ELSE work[r].session]
                            EXCEPT !.overtaken = o]]
                    BY <1>3, <4>1, <4>4
                <5> HIDE DEF o, bound
                <5>2. /\ to \in WorkRecords /\ to.status = "paused" /\ to.manager = work[r].manager
                      /\ work' = [work EXCEPT ![r] = to]
                    BY <1>3, <4>0, <4>2, <5>1 DEF WorkRecords
                <5> HIDE DEF to
                <5> QED BY <1>6, <4>0, <5>2
            <4> QED BY <4>3, <4>4
        <3> QED BY <2>2, <3>3, <3>4
    <2> QED BY <2>1, <2>2
<1> HIDE DEF to
<1>8. work' \in [WorkRuns -> WorkRecords] /\ work'[r] = to /\ \A q \in WorkRuns : q # r => work'[q] = work[q]
    BY <1>3, <1>7
<1>9. HandoffTypeOK'
    BY <1>1, <1>2, <1>8 DEF HandoffTypeOK
<1>10. Referred'
    <2>1. to.manager # NoOne
        BY <1>4, <1>7
    <2>2. \A q \in WorkRuns :
            /\ work'[q].manager # NoOne => work'[q].manager \in DOMAIN managers'
            /\ work'[q].manager = NoOne <=> work'[q].status = "none"
        BY <1>1, <1>2, <1>7, <1>8, <2>1 DEF Referred
    <2> QED BY <1>1, <1>2, <2>2 DEF Referred
<1>11. OnePublishes'
    <2>1. \A m \in DOMAIN managers : \A q \in managers[m].pending : q \in WorkRuns /\ work[q].manager = m /\ m # NoOne
        BY <1>1, <1>4, <1>5 DEF OnePublishes
    <2>2. \A q \in WorkRuns : work[q].manager # NoOne => work'[q].manager = work[q].manager
        BY <1>7, <1>8
    <2> QED BY <1>1, <1>2, <2>1, <2>2 DEF OnePublishes, Bound
<1>12. NoRunStranded'
    BY <1>1, <1>2, <1>7, <1>8 DEF NoRunStranded, InReach, Bound
<1>13. NoneForgotten'
    BY <1>1, <1>2, <1>7, <1>8 DEF NoneForgotten, InReach
<1> QED BY <1>9, <1>10, <1>11, <1>12, <1>13 DEF HandoffInv

LEMMA EndKeeps ==
    ASSUME HandoffInv, NEW r \in WorkRuns, WorkEnds(r)
    PROVE  HandoffInv'
<1> DEFINE m == work[r].manager
<1>1. /\ HandoffTypeOK /\ Referred /\ OnePublishes /\ NoRunStranded /\ NoneForgotten
      /\ NoOne \notin Nat
    BY HandoffAssumption DEF HandoffInv
<1>2. /\ work[r].status = "running" /\ UNCHANGED <<slot, extension, window>>
      /\ work' = [work EXCEPT ![r].status = "done"]
    BY DEF WorkEnds
<1>3. /\ work' \in [WorkRuns -> WorkRecords] /\ work'[r].status = "done" /\ work'[r].manager = m
      /\ \A q \in WorkRuns : q # r => work'[q] = work[q]
      /\ \A q \in WorkRuns : work'[q].manager = work[q].manager
    BY <1>1, <1>2 DEF HandoffTypeOK, WorkRecords
<1>4. managers \in Seq(Managers) /\ \A n \in DOMAIN managers : managers[n] \in Managers /\ n \in Nat
    BY <1>1, ElementOfSeq, LenProperties DEF HandoffTypeOK
<1>5. m \in DOMAIN managers /\ window.sessions \in Nat
    BY <1>1, <1>2 DEF Referred, HandoffTypeOK
<1>6. /\ managers' \in Seq(Managers) /\ DOMAIN managers' = DOMAIN managers
      /\ \A n \in DOMAIN managers :
            /\ managers[n].listening => managers'[n].listening
            /\ managers'[n].listening /\ ~managers'[n].suspended =>
                    managers[n].listening /\ ~managers[n].suspended
            /\ managers'[n].session = managers[n].session
            /\ managers[n].pending \subseteq managers'[n].pending
            /\ managers'[n].pending \subseteq managers[n].pending \cup {r}
            /\ n # m => managers'[n] = managers[n]
      /\ sent' \in [WorkRuns -> Nat \cup {NoOne}]
      /\ \A q \in WorkRuns : sent[q] # NoOne => sent'[q] # NoOne
      /\ managers[m].listening => sent'[r] # NoOne \/ r \in managers'[m].pending
    <2>1. CASE sent' = [sent EXCEPT ![r] = window.sessions] /\ managers' = managers
        BY <1>1, <1>4, <1>5, <2>1 DEF HandoffTypeOK
    <2>2. CASE /\ managers' = [managers EXCEPT ![m] = [managers[m] EXCEPT !.pending = @ \cup {r}]]
               /\ sent' = sent
        <3> DEFINE mg == [managers[m] EXCEPT !.pending = @ \cup {r}]
        <3>1. /\ mg \in Managers /\ mg.pending = managers[m].pending \cup {r}
              /\ mg.listening = managers[m].listening /\ mg.suspended = managers[m].suspended
              /\ mg.session = managers[m].session
            BY <1>4, <1>5, PendingPut
        <3>2. managers' = [managers EXCEPT ![m] = mg]
            BY <2>2
        <3> HIDE DEF mg
        <3>3. /\ managers' \in Seq(Managers) /\ DOMAIN managers' = DOMAIN managers /\ managers'[m] = mg
              /\ \A n \in DOMAIN managers : n # m => managers'[n] = managers[n]
            BY <1>4, <1>5, <3>1, <3>2, ManagerPut
        <3> QED BY <1>1, <1>5, <2>2, <3>1, <3>3 DEF HandoffTypeOK
    <2>3. CASE ~managers[m].listening /\ UNCHANGED <<managers, sent>>
        BY <1>1, <1>4, <2>3 DEF HandoffTypeOK
    <2> QED BY <2>1, <2>2, <2>3 DEF WorkEnds
<1>7. HandoffTypeOK'
    BY <1>1, <1>2, <1>3, <1>6 DEF HandoffTypeOK
<1>8. Referred'
    <2>1. \A q \in WorkRuns :
            /\ work'[q].manager # NoOne => work'[q].manager \in DOMAIN managers'
            /\ work'[q].manager = NoOne <=> work'[q].status = "none"
        BY <1>1, <1>2, <1>3, <1>6 DEF Referred
    <2> QED BY <1>1, <1>2, <1>6, <2>1 DEF Referred
<1>9. OnePublishes'
    <2>1. ASSUME NEW n \in DOMAIN managers
          PROVE  /\ managers'[n].listening /\ ~managers'[n].suspended => n = extension.manager /\ Bound
                 /\ \A q \in managers'[n].pending : work'[q].manager = n
        <3>1. managers'[n].listening /\ ~managers'[n].suspended => n = extension.manager /\ Bound
            BY <1>1, <1>6, <2>1 DEF OnePublishes
        <3>2. \A q \in managers[n].pending : q \in WorkRuns /\ work[q].manager = n
            BY <1>1, <1>4, <2>1 DEF OnePublishes, Managers
        <3>3. CASE n = m
            BY <1>3, <1>6, <2>1, <3>1, <3>2, <3>3
        <3>4. CASE n # m
            BY <1>3, <1>6, <2>1, <3>1, <3>2, <3>4
        <3> QED BY <3>3, <3>4
    <2> QED BY <1>2, <1>6, <2>1 DEF OnePublishes, Bound
<1>10. NoRunStranded'
    <2> SUFFICES ASSUME NEW q \in WorkRuns, work'[q].status = "running", ~work'[q].overtaken
                 PROVE  /\ InReach(work[q].manager)
                        /\ Bound /\ managers'[work[q].manager].session # NoOne =>
                             work'[q].session = managers'[work[q].manager].session
        BY <1>2, <1>3 DEF NoRunStranded, InReach, Bound
    <2>1. q # r /\ work'[q] = work[q]
        BY <1>3
    <2>2. InReach(work[q].manager) /\ work[q].manager \in DOMAIN managers
        BY <1>1, <2>1 DEF NoRunStranded, Referred
    <2> QED BY <1>1, <1>6, <2>1, <2>2 DEF NoRunStranded
<1>11. NoneForgotten'
    <2> SUFFICES ASSUME NEW q \in WorkRuns, work'[q].status = "done", InReach(work[q].manager)
                 PROVE  sent'[q] # NoOne \/ q \in managers'[work[q].manager].pending
        BY <1>2, <1>3 DEF NoneForgotten, InReach
    <2>1. CASE q = r
        BY <1>1, <1>6, <2>1 DEF Referred, InReach
    <2>2. CASE q # r
        <3>1. work'[q] = work[q] /\ work[q].manager \in DOMAIN managers
            BY <1>1, <1>3, <2>2 DEF Referred, InReach
        <3> QED BY <1>1, <1>6, <3>1 DEF NoneForgotten
    <2> QED BY <2>1, <2>2
<1> QED BY <1>7, <1>8, <1>9, <1>10, <1>11 DEF HandoffInv

LEMMA HandoffInvInit == HandoffInit => HandoffInv
<1> SUFFICES ASSUME HandoffInit PROVE HandoffInv
    OBVIOUS
<1>1. /\ managers = <<>> /\ managers \in Seq(Managers) /\ DOMAIN managers = {}
      /\ \A r \in WorkRuns : work[r].manager = NoOne /\ work[r].status = "none"
      /\ slot.manager = NoOne /\ extension.manager = NoOne
      /\ window.phase = "replacing"
    BY EmptySeq DEF HandoffInit
<1>2. HandoffTypeOK
    BY <1>1 DEF HandoffInit, HandoffTypeOK, WorkRecords, Entries
<1> QED BY <1>1, <1>2 DEF HandoffInv, Referred, OnePublishes, NoRunStranded, NoneForgotten

LEMMA HandoffInvStep == HandoffInv /\ [HandoffNext]_handoffVars => HandoffInv'
<1> SUFFICES ASSUME HandoffInv, [HandoffNext]_handoffVars PROVE HandoffInv'
    OBVIOUS
<1>1. CASE UNCHANGED handoffVars
    BY <1>1 DEF handoffVars, HandoffInv, HandoffTypeOK, Referred, OnePublishes, NoRunStranded,
                NoneForgotten, InReach, Bound
<1>2. CASE HandoffNext
    BY <1>2, LoadKeeps, StartKeeps, ShutdownKeeps, ExpiryKeeps, OneRunKeeps, EndKeeps DEF HandoffNext
<1> QED BY <1>1, <1>2

\* extensions/workflow.ts, src/extension-reload.ts: over any number of reloads, replacements,
\* managers and runs, whoever refers to a manager refers to one that exists and listens, one
\* at most hands results on, and what runs or has ended is not forgotten.
THEOREM HandoffInvariant == HandoffSpec => []HandoffInv
BY HandoffInvInit, HandoffInvStep, PTL DEF HandoffSpec

\* session_shutdown, handoffWorkflowRuntime(), pauseStrandedWorkflowRuntime(): no running run is
\* left with a manager that nobody has.
THEOREM NobodyStranded == HandoffSpec => []NoRunStranded
<1>1. HandoffInv => NoRunStranded
    BY DEF HandoffInv
<1> QED BY <1>1, HandoffInvariant, PTL

\* A step that hands a result on is one of the manager of the session that is bound by then.
LEMMA SentByOwner ==
    ASSUME HandoffInv, [HandoffNext]_handoffVars, NEW r \in WorkRuns, sent'[r] # sent[r]
    PROVE  window'.phase = "bound" /\ work[r].manager = extension'.manager
<1>1. /\ HandoffTypeOK /\ Referred /\ OnePublishes
      /\ NoOne \notin Nat
    BY HandoffAssumption DEF HandoffInv
<1>2. managers \in Seq(Managers) /\ \A n \in DOMAIN managers : managers[n] \in Managers /\ n \in Nat
    BY <1>1, ElementOfSeq, LenProperties DEF HandoffTypeOK
<1>3. \A n \in DOMAIN managers : \A q \in managers[n].pending : work[q].manager = n
    BY <1>1 DEF OnePublishes
<1>4. sent' # sent
    OBVIOUS
<1>5. (\E seen \in BOOLEAN : SessionStart(seen)) \/ (\E q \in WorkRuns : WorkEnds(q))
    BY <1>4 DEF HandoffNext, handoffVars, LoadExtension, SessionShutdown, HandoffExpires, StartWork,
                PauseWork, WorkUnwinds, AskToResume, WorkResumes
<1>6. CASE \E q \in WorkRuns : WorkEnds(q)
    <2>1. PICK q \in WorkRuns : WorkEnds(q)
        BY <1>6
    <2>2. /\ sent' = [sent EXCEPT ![q] = window.sessions]
          /\ managers[work[q].manager].listening /\ ~managers[work[q].manager].suspended
          /\ work[q].status = "running" /\ UNCHANGED <<extension, window>>
        BY <1>4, <2>1 DEF WorkEnds
    <2>3. q = r
        BY <1>1, <2>2 DEF HandoffTypeOK
    <2>4. work[q].manager \in DOMAIN managers
        BY <1>1, <2>2 DEF Referred
    <2>5. work[q].manager = extension.manager /\ Bound
        BY <1>1, <2>2, <2>4 DEF OnePublishes
    <2> QED BY <2>2, <2>3, <2>5 DEF Bound
<1>7. CASE \E seen \in BOOLEAN : SessionStart(seen)
    <2>1. PICK seen \in BOOLEAN : SessionStart(seen)
        BY <1>7
    <2> DEFINE old == extension.manager
               home == managers[old].project = window.project
               m == IF home THEN old ELSE Len(managers) + 1
               aside == Disposed(Suspended(managers[old]))
               ms == [managers EXCEPT ![old] = aside]
               made == IF home THEN managers ELSE Append(ms, NewManager(window.project))
    <2>2. /\ extension' = [extension EXCEPT !.manager = m]
          /\ window' = [window EXCEPT !.phase = "bound", !.sessions = window.sessions + 1]
          /\ window.phase = "loaded"
        BY <2>1 DEF SessionStart
    <2>3. PICK taken \in SUBSET made[m].pending :
                sent' = [q \in WorkRuns |-> IF q \in taken THEN window.sessions + 1 ELSE sent[q]]
        <3>1. \E taken \in SUBSET made[m].pending :
                sent' = [q \in WorkRuns |-> IF q \in taken THEN window.sessions + 1 ELSE sent[q]]
            BY <2>1 DEF SessionStart
        <3> QED BY <3>1
    <2>4. window'.phase = "bound" /\ extension'.manager = m /\ old \in DOMAIN managers
          /\ window.project \in Projects
        BY <1>1, <2>2 DEF HandoffTypeOK, Entries, Referred
    <2>5. r \in made[m].pending
        BY <2>3
    <2>6. CASE home
        BY <1>3, <2>4, <2>5, <2>6
    <2>7. CASE ~home
        <3>1. aside \in Managers
            <4>1. Suspended(managers[old]) \in Managers
                BY <1>2, <2>4, ManagerViews
            <4> QED BY <4>1, ManagerViews
        <3> DEFINE fresh == NewManager(window.project)
        <3>2. made = Append(ms, fresh) /\ m = Len(managers) + 1
            BY <2>7
        <3>3. fresh \in Managers /\ fresh.pending = {}
            BY <2>4, NewIs
        <3> HIDE DEF fresh, aside, made, m
        <3>4. ms \in Seq(Managers) /\ DOMAIN ms = DOMAIN managers
            BY <1>2, <2>4, <3>1, ManagerPut
        <3> HIDE DEF ms
        <3>5. Len(ms) = Len(managers)
            BY <1>2, <3>4, LenProperties
        <3>6. made[m] = fresh
            BY <3>2, <3>3, <3>4, <3>5, ManagerMade
        <3> QED BY <2>5, <3>3, <3>6
    <2> QED BY <2>6, <2>7
<1> QED BY <1>5, <1>6, <1>7

\* src/task-panel.ts, the cache of results: one is handed on only by the manager of a bound
\* session, and a manager in reach forgets none.
THEOREM ResultsFindSessions == HandoffSpec => ResultsFindASession
<1> DEFINE ByOwner == \A r \in WorkRuns : sent'[r] # sent[r] =>
                        window'.phase = "bound" /\ work[r].manager = extension'.manager
           Kept == \A r \in WorkRuns : work[r].status = "done" /\ InReach(work[r].manager) =>
                        sent[r] # NoOne \/ r \in managers[work[r].manager].pending
<1>1. HandoffInv /\ [HandoffNext]_handoffVars => [ByOwner]_handoffVars
    BY SentByOwner
<1>2. HandoffInv => Kept
    BY DEF HandoffInv, NoneForgotten
<1>3. HandoffSpec => [][ByOwner]_handoffVars /\ []Kept
    BY <1>1, <1>2, HandoffInvariant, PTL DEF HandoffSpec
<1> QED BY <1>3 DEF ResultsFindASession

----------------------------------------------------------------------------
(* RecordFiles *)

Idle == {"idle", "listed"}
Removing == {"legacy", "run.bak", "legacy.bak", "unlock"}
Steps == Idle \cup Removing \cup {"owner", "backup", "look", "run"}
RecordStatuses == {"running", "paused", "terminal", "missing", "torn"}

RecordTypeOK ==
    /\ files \in [Files -> [rev : Nat, status : RecordStatuses]]
    /\ lock \in RecordProcs \cup {NoOwner, DeadOwner}
    /\ doing \in [RecordProcs -> Steps]
    /\ known \in [RecordProcs -> Nat]
    /\ sweep \in [RecordProcs -> RecordStatuses \cup {"none"}]
    /\ committed \in Nat /\ doomed \in BOOLEAN /\ fileFaults \in Nat

\* Who is past the listing has the lease.  A sweep that is about to unlink has seen what it
\* was after.
SweepHolds ==
    /\ \A p \in RecordProcs : doing[p] \in Idle \/ lock = p
    /\ \A p \in RecordProcs : doing[p] \in {"owner", "backup"} => sweep[p] = "none"
    /\ \A p \in RecordProcs : sweep[p] \in {"none", "paused", "terminal"}
    /\ \A p \in RecordProcs : doing[p] \in {"listed", "look"} => sweep[p] # "none"
    /\ \A p \in RecordProcs : doing[p] = "run" =>
          Loaded.rev > 0 /\ (sweep[p] # "none" => Loaded.status = sweep[p])

\* What there is besides the primary file.
Fallback == IF Readable("run.bak") THEN files["run.bak"].rev ELSE files["legacy"].rev

Removed(p) ==
    /\ doomed
    /\ files["run"] = Missing
    /\ doing[p] # "legacy" => files["legacy"] = Missing
    /\ doing[p] \in {"legacy.bak", "unlock"} => files["run.bak"] = Missing

Nothing == \A file \in Files : files[file] = Missing
NoneRemoves == \A p \in RecordProcs : doing[p] \notin Removing

\* Before the first fault there is a second copy of what was saved last, unless all is gone.
Spare == (doomed /\ Nothing) \/ Fallback >= committed

Current == IF Loaded.rev = 0 THEN doomed \/ committed = 0 ELSE Loaded.rev >= committed

\* Only the primary file is ever torn, and the backup of the legacy file is never there.
Copies == \A file \in Files \ {"run"} : /\ files[file].rev = 0 => files[file] = Missing
                                        /\ file = "legacy.bak" => files[file].rev = 0

\* An owner finds a record, or none was ever saved; and a deletion takes the second copy last.
FilesOf(p) ==
    /\ doing[p] = "owner" => Loaded.rev > 0 \/ committed = 0
    /\ doing[p] = "backup" => /\ files["run"].rev > 0 /\ files["run"].rev = known[p]
                              /\ committed <= known[p]
    /\ doing[p] \in Removing => Removed(p)
    /\ doing[p] \in Removing /\ fileFaults = 0 => Fallback = 0 \/ Fallback >= committed

FilesAgree ==
    /\ Copies
    /\ \A p \in RecordProcs : FilesOf(p)
    /\ NoneRemoves => Current
    /\ NoneRemoves /\ fileFaults = 0 => Spare
    /\ fileFaults \in {0, 1}

SweepInv == RecordTypeOK /\ SweepHolds

\* The search of load() for the first file that can be read.
LEMMA FirstRead ==
    ASSUME NEW f
    PROVE  LET order == <<"run", "run.bak", "legacy", "legacy.bak">>
           IN  (IF \E i \in DOMAIN order : f[order[i]].rev > 0
                THEN f[order[CHOOSE i \in DOMAIN order :
                           f[order[i]].rev > 0 /\ \A j \in 1 .. i - 1 : ~(f[order[j]].rev > 0)]]
                ELSE Missing)
               = IF f["run"].rev > 0 THEN f["run"]
                 ELSE IF f["run.bak"].rev > 0 THEN f["run.bak"]
                 ELSE IF f["legacy"].rev > 0 THEN f["legacy"]
                 ELSE IF f["legacy.bak"].rev > 0 THEN f["legacy.bak"] ELSE Missing
<1> DEFINE order == <<"run", "run.bak", "legacy", "legacy.bak">>
           R(file) == f[file].rev > 0
           First(i) == f[order[i]].rev > 0 /\ \A j \in 1 .. i - 1 : ~(f[order[j]].rev > 0)
           found == CHOOSE i \in DOMAIN order : First(i)
<1> SUFFICES (IF \E i \in DOMAIN order : f[order[i]].rev > 0 THEN f[order[found]] ELSE Missing)
               = IF R("run") THEN f["run"] ELSE IF R("run.bak") THEN f["run.bak"]
                 ELSE IF R("legacy") THEN f["legacy"] ELSE IF R("legacy.bak") THEN f["legacy.bak"]
                 ELSE Missing
    OBVIOUS
<1>1. DOMAIN order = 1 .. 4 /\ order[1] = "run" /\ order[2] = "run.bak" /\ order[3] = "legacy"
      /\ order[4] = "legacy.bak"
    OBVIOUS
<1> HIDE DEF order
<1>3. \A i \in DOMAIN order : i = 1 \/ i = 2 \/ i = 3 \/ i = 4
    BY <1>1
<1>4. 1 .. 0 = {} /\ 1 .. 1 = {1} /\ 1 .. 2 = {1, 2} /\ 1 .. 3 = {1, 2, 3}
    OBVIOUS
<1>5. /\ First(1) <=> R("run")
      /\ First(2) <=> R("run.bak") /\ ~R("run")
      /\ First(3) <=> R("legacy") /\ ~R("run.bak") /\ ~R("run")
      /\ First(4) <=> R("legacy.bak") /\ ~R("legacy") /\ ~R("run.bak") /\ ~R("run")
    <2> USE <1>1, <1>4
    <2>1. First(1) <=> R("run")
        OBVIOUS
    <2>2. First(2) <=> R("run.bak") /\ ~R("run")
        OBVIOUS
    <2>3. First(3) <=> R("legacy") /\ ~R("run.bak") /\ ~R("run")
        OBVIOUS
    <2>4. First(4) <=> R("legacy.bak") /\ ~R("legacy") /\ ~R("run.bak") /\ ~R("run")
        OBVIOUS
    <2> QED BY <2>1, <2>2, <2>3, <2>4
<1> HIDE DEF First
<1>6. ASSUME NEW i \in DOMAIN order, First(i) PROVE found = i
    <2>1. found \in DOMAIN order /\ First(found)
        BY <1>6
    <2>2. \A j \in DOMAIN order : First(j) => j = i
        BY <1>3, <1>5, <1>6
    <2> QED BY <2>1, <2>2
<1> HIDE DEF found
<1>7. 1 \in DOMAIN order /\ 2 \in DOMAIN order /\ 3 \in DOMAIN order /\ 4 \in DOMAIN order
    BY <1>1
<1>8. (\E i \in DOMAIN order : f[order[i]].rev > 0)
      <=> R("run") \/ R("run.bak") \/ R("legacy") \/ R("legacy.bak")
    BY <1>1, <1>3, <1>7
<1> QED BY <1>1, <1>5, <1>6, <1>7, <1>8

LEMMA LoadedIs ==
    /\ Loaded = IF files["run"].rev > 0 THEN files["run"]
                ELSE IF files["run.bak"].rev > 0 THEN files["run.bak"]
                ELSE IF files["legacy"].rev > 0 THEN files["legacy"]
                ELSE IF files["legacy.bak"].rev > 0 THEN files["legacy.bak"] ELSE Missing
    /\ Loaded' = IF files'["run"].rev > 0 THEN files'["run"]
                 ELSE IF files'["run.bak"].rev > 0 THEN files'["run.bak"]
                 ELSE IF files'["legacy"].rev > 0 THEN files'["legacy"]
                 ELSE IF files'["legacy.bak"].rev > 0 THEN files'["legacy.bak"] ELSE Missing
<1>1. Loaded = IF files["run"].rev > 0 THEN files["run"]
               ELSE IF files["run.bak"].rev > 0 THEN files["run.bak"]
               ELSE IF files["legacy"].rev > 0 THEN files["legacy"]
               ELSE IF files["legacy.bak"].rev > 0 THEN files["legacy.bak"] ELSE Missing
    BY FirstRead DEF Loaded, FirstOf, Readable
<1>2. Loaded' = IF files'["run"].rev > 0 THEN files'["run"]
                ELSE IF files'["run.bak"].rev > 0 THEN files'["run.bak"]
                ELSE IF files'["legacy"].rev > 0 THEN files'["legacy"]
                ELSE IF files'["legacy.bak"].rev > 0 THEN files'["legacy.bak"] ELSE Missing
    BY FirstRead DEF Loaded, FirstOf, Readable
<1> QED BY <1>1, <1>2

FileRecords == [rev : Nat, status : RecordStatuses]

LEMMA FileNames == {"run", "run.bak", "legacy", "legacy.bak"} \subseteq Files
BY DEF Files

LEMMA LoadedTyped ==
    ASSUME RecordTypeOK
    PROVE  /\ Loaded \in FileRecords
           /\ Loaded.rev = 0 => Loaded = Missing
           /\ Missing \in FileRecords /\ Torn \in FileRecords /\ Missing.rev = 0 /\ Torn.rev = 0
           /\ Missing.status = "missing"
<1>1. /\ Missing \in FileRecords /\ Torn \in FileRecords /\ Missing.rev = 0 /\ Torn.rev = 0
      /\ Missing.status = "missing"
    BY DEF FileRecords, RecordStatuses, Missing, Torn
<1>2. \A file \in Files : files[file] \in FileRecords /\ files[file].rev \in Nat
    BY DEF RecordTypeOK, FileRecords
<1> QED BY <1>1, <1>2, LoadedIs, FileNames

LEMMA FirstOfPair ==
    ASSUME NEW a, NEW b
    PROVE  FirstOf(<<a, b>>) \in {files[a], files[b], Missing}
<1> DEFINE order == <<a, b>>
           First(i) == Readable(order[i]) /\ \A j \in 1 .. i - 1 : ~Readable(order[j])
           found == CHOOSE i \in DOMAIN order : First(i)
<1>1. DOMAIN order = {1, 2} /\ order[1] = a /\ order[2] = b
    OBVIOUS
<1>2. FirstOf(order) = IF \E i \in DOMAIN order : Readable(order[i]) THEN files[order[found]] ELSE Missing
    BY DEF FirstOf
<1> HIDE DEF order
<1>3. 1 .. 0 = {} /\ 1 .. 1 = {1}
    OBVIOUS
<1>4. First(1) <=> Readable(a)
    BY <1>1, <1>3
<1>5. First(2) <=> Readable(b) /\ ~Readable(a)
    BY <1>1, <1>3
<1> HIDE DEF First
<1>6. (\E i \in DOMAIN order : First(i)) => found \in {1, 2}
    BY <1>1
<1> HIDE DEF found
<1>7. (\E i \in DOMAIN order : Readable(order[i])) => \E i \in DOMAIN order : First(i)
    BY <1>1, <1>4, <1>5
<1>8. files[order[1]] = files[a] /\ files[order[2]] = files[b]
    BY <1>1
<1>9. CASE \E i \in DOMAIN order : Readable(order[i])
    <2>1. FirstOf(order) = files[order[found]] /\ found \in {1, 2}
        BY <1>2, <1>6, <1>7, <1>9
    <2> QED BY <1>8, <2>1 DEF order
<1>10. CASE ~ \E i \in DOMAIN order : Readable(order[i])
    <2>1. FirstOf(order) = Missing
        BY <1>2, <1>10
    <2> QED BY <2>1 DEF order
<1> QED BY <1>9, <1>10

LEMMA ListedTyped ==
    ASSUME RecordTypeOK
    PROVE  Listed \in FileRecords
<1>1. \A file \in Files : files[file] \in FileRecords
    BY DEF RecordTypeOK, FileRecords
<1>2. Missing \in FileRecords
    BY LoadedTyped
<1>3. FirstOf(<<"run", "run.bak">> \o <<"legacy", "legacy.bak">>) = Loaded
    <2>1. <<"run", "run.bak">> \o <<"legacy", "legacy.bak">> = <<"run", "run.bak", "legacy", "legacy.bak">>
        <3> DEFINE a == <<"run", "run.bak">>
                   b == <<"legacy", "legacy.bak">>
                   c == <<"run", "run.bak", "legacy", "legacy.bak">>
        <3>1. /\ a \in Seq(Files) /\ b \in Seq(Files) /\ Len(a) = 2 /\ Len(b) = 2
              /\ a[1] = "run" /\ a[2] = "run.bak" /\ b[1] = "legacy" /\ b[2] = "legacy.bak"
            BY FileNames
        <3>2. /\ c \in Seq(Files) /\ Len(c) = 4
              /\ c[1] = "run" /\ c[2] = "run.bak" /\ c[3] = "legacy" /\ c[4] = "legacy.bak"
            BY FileNames
        <3> HIDE DEF a, b, c
        <3>3. /\ a \o b \in Seq(Files) /\ Len(a \o b) = 4
              /\ (a \o b)[1] = a[1] /\ (a \o b)[2] = a[2] /\ (a \o b)[3] = b[1] /\ (a \o b)[4] = b[2]
            <4>1. a \o b \in Seq(Files) /\ Len(a \o b) = Len(a) + Len(b)
                BY <3>1, ConcatProperties
            <4>2. \A i \in 1 .. Len(a) + Len(b) :
                    (a \o b)[i] = IF i <= Len(a) THEN a[i] ELSE b[i - Len(a)]
                BY <3>1, ConcatProperties
            <4> QED BY <3>1, <4>1, <4>2
        <3>4. \A i \in 1 .. Len(c) : i = 1 \/ i = 2 \/ i = 3 \/ i = 4
            BY <3>2
        <3>5. \A i \in 1 .. Len(c) : (a \o b)[i] = c[i]
            BY <3>1, <3>2, <3>3, <3>4
        <3>6. a \o b = c
            BY <3>2, <3>3, <3>5, SeqEqual
        <3> QED BY <3>6 DEF a, b, c
    <2> QED BY <2>1 DEF Loaded
<1>4. FirstOf(<<"run", "run.bak">> \o <<>>) \in FileRecords
    <2>1. <<"run", "run.bak">> \o <<>> = <<"run", "run.bak">>
        OBVIOUS
    <2>2. FirstOf(<<"run", "run.bak">>) \in FileRecords
        BY <1>1, <1>2, FirstOfPair, FileNames
    <2> QED BY <2>1, <2>2
<1>5. FirstOf(<<>> \o <<"legacy", "legacy.bak">>) \in FileRecords
    <2>1. <<>> \o <<"legacy", "legacy.bak">> = <<"legacy", "legacy.bak">>
        OBVIOUS
    <2>2. FirstOf(<<"legacy", "legacy.bak">>) \in FileRecords
        BY <1>1, <1>2, FirstOfPair, FileNames
    <2> QED BY <2>1, <2>2
<1>6. FirstOf(<<>> \o <<>>) = Missing
    <2>1. DOMAIN (<<>> \o <<>>) = {}
        OBVIOUS
    <2> QED BY <2>1 DEF FirstOf
<1> QED BY <1>2, <1>3, <1>4, <1>5, <1>6, LoadedTyped DEF Listed

LEMMA AfterIs ==
    /\ AfterFile("run") = "legacy" /\ AfterFile("legacy") = "run.bak"
    /\ AfterFile("run.bak") = "legacy.bak" /\ AfterFile("legacy.bak") = "unlock"
BY DEF AfterFile

\* A step of one process moves that process only.
LEMMA OthersWait ==
    ASSUME RecordTypeOK, NEW p \in RecordProcs, NEW s, Does(p, s)
    PROVE  doing'[p] = s /\ \A q \in RecordProcs : q # p => doing'[q] = doing[q]
BY DEF RecordTypeOK, Does

LEMMA RecordTypes ==
    ASSUME RecordTypeOK, [RecordNext]_recordVars
    PROVE  RecordTypeOK'
<1> USE DEF Ghosts
<1>1. \A p \in RecordProcs, s \in Steps : Does(p, s) => doing' \in [RecordProcs -> Steps]
    BY DEF RecordTypeOK, Does
<1>2. /\ Idle \subseteq Steps /\ Removing \subseteq Steps
      /\ "owner" \in Steps /\ "backup" \in Steps /\ "look" \in Steps /\ "run" \in Steps
      /\ "idle" \in Steps /\ "listed" \in Steps
    BY DEF Steps, Idle
<1>3. /\ FileFault => fileFaults' \in Nat
      /\ NoFileFault => fileFaults' \in Nat
    BY DEF FileFault, NoFileFault, RecordTypeOK
<1>4. Loaded.rev \in Nat /\ Loaded.rev + 1 \in Nat /\ Loaded.status \in RecordStatuses
    BY LoadedTyped DEF FileRecords
<1>5. ASSUME NEW file \in Files, NEW r \in FileRecords
      PROVE  [files EXCEPT ![file] = r] \in [Files -> FileRecords]
    BY DEF RecordTypeOK, FileRecords
<1>6. \A p \in RecordProcs, n \in Nat : [known EXCEPT ![p] = n] \in [RecordProcs -> Nat]
    BY DEF RecordTypeOK
<1>7. ASSUME NEW p \in RecordProcs, Open(p) \/ Close(p) \/ DeleteRun(p) PROVE RecordTypeOK'
    BY <1>1, <1>2, <1>4, <1>6, <1>7 DEF Open, Close, DeleteRun, RecordTypeOK
<1>8. ASSUME NEW p \in RecordProcs, SaveRecord(p) PROVE RecordTypeOK'
    <2>1. \A status \in {"running", "paused", "terminal"} :
            [rev |-> Loaded.rev + 1, status |-> status] \in FileRecords
        BY <1>4 DEF FileRecords, RecordStatuses
    <2>2. files' \in [Files -> FileRecords]
        BY <1>5, <1>8, <2>1, FileNames DEF SaveRecord, RecordTypeOK, FileRecords
    <2>3. doing' \in [RecordProcs -> Steps]
        BY <1>1, <1>2, <1>8 DEF SaveRecord, RecordTypeOK
    <2>4. known' \in [RecordProcs -> Nat]
        BY <1>4, <1>6, <1>8 DEF SaveRecord, RecordTypeOK
    <2>5. fileFaults' \in Nat
        BY <1>3, <1>8 DEF SaveRecord
    <2> QED BY <1>8, <2>2, <2>3, <2>4, <2>5 DEF SaveRecord, RecordTypeOK, FileRecords
<1>9. ASSUME NEW p \in RecordProcs, SaveBackup(p) PROVE RecordTypeOK'
    <2>1. files["run"] \in FileRecords
        BY FileNames DEF RecordTypeOK, FileRecords
    <2>2. files' \in [Files -> FileRecords]
        BY <1>5, <1>9, <2>1, FileNames DEF SaveBackup, Backup, RecordTypeOK, FileRecords
    <2> QED BY <1>1, <1>2, <1>3, <1>9, <2>2 DEF SaveBackup, RecordTypeOK, FileRecords
<1>10. ASSUME NEW p \in RecordProcs, SweepLists(p) PROVE RecordTypeOK'
    <2>1. Listed.rev \in Nat
        BY ListedTyped DEF FileRecords
    <2> QED BY <1>1, <1>2, <1>6, <1>10, <2>1 DEF SweepLists, RecordTypeOK, RecordStatuses
<1>11. ASSUME NEW p \in RecordProcs, SweepTakes(p) \/ SweepLooks(p) \/ DeletionDone(p) PROVE RecordTypeOK'
    BY <1>1, <1>2, <1>11 DEF SweepTakes, SweepLooks, DeletionDone, RecordTypeOK
<1>12. ASSUME NEW p \in RecordProcs, Unlink(p) PROVE RecordTypeOK'
    <2>1. doing[p] \in Files
        BY <1>12 DEF Unlink
    <2>2. AfterFile(doing[p]) \in Steps
        BY <1>2, <2>1, AfterIs DEF Files, Removing
    <2>3. files' \in [Files -> FileRecords]
        BY <1>5, <1>12, <2>1, LoadedTyped DEF Unlink, RecordTypeOK, FileRecords
    <2>4. doing' \in [RecordProcs -> Steps]
        BY <1>1, <1>2, <1>12, <2>2 DEF Unlink
    <2> QED BY <1>3, <1>12, <2>3, <2>4 DEF Unlink, RecordTypeOK, FileRecords
<1>13. ASSUME NEW p \in RecordProcs, ProcessDies(p) PROVE RecordTypeOK'
    BY <1>1, <1>2, <1>3, <1>13 DEF ProcessDies, RecordTypeOK
<1>14. CASE Damage
    <2>1. files' \in [Files -> FileRecords]
        BY <1>5, <1>14, LoadedTyped, FileNames DEF Damage
    <2> QED BY <1>3, <1>14, <2>1 DEF Damage, RecordTypeOK, FileRecords
<1>15. CASE UNCHANGED recordVars
    BY <1>15 DEF recordVars, RecordTypeOK
<1> QED BY <1>7, <1>8, <1>9, <1>10, <1>11, <1>12, <1>13, <1>14, <1>15 DEF RecordNext

LEMMA SameFiles == UNCHANGED files => Loaded' = Loaded
BY DEF Loaded, FirstOf, Readable

\* What a process that has the lease does leaves the others idle.
LEMMA OneHolder ==
    ASSUME RecordTypeOK, SweepHolds, NEW p \in RecordProcs, doing[p] \notin Idle \/ lock = p
    PROVE  lock = p /\ \A q \in RecordProcs : q # p => doing[q] \in Idle
BY DEF SweepHolds

LEMMA FreeMeansIdle ==
    ASSUME SweepHolds, LockFree, NEW p \in RecordProcs
    PROVE  doing[p] \in Idle
BY RecordAssumption DEF SweepHolds, LockFree

\* What a process does to the fields of SweepHolds.
HeldBy(p) ==
    /\ doing[p] \in Idle \/ lock = p
    /\ doing[p] \in {"owner", "backup"} => sweep[p] = "none"
    /\ sweep[p] \in {"none", "paused", "terminal"}
    /\ doing[p] \in {"listed", "look"} => sweep[p] # "none"
    /\ doing[p] = "run" => Loaded.rev > 0 /\ (sweep[p] # "none" => Loaded.status = sweep[p])

LEMMA HeldByAll ==
    /\ SweepHolds => \A p \in RecordProcs : HeldBy(p)
    /\ (\A p \in RecordProcs : HeldBy(p)') => SweepHolds'
<1>1. SweepHolds => \A p \in RecordProcs : HeldBy(p)
    BY DEF SweepHolds, HeldBy
<1>2. (\A p \in RecordProcs : HeldBy(p)') => SweepHolds'
    BY DEF SweepHolds, HeldBy
<1> QED BY <1>1, <1>2

\* Those who do not act: idle ones stay idle, a holder keeps lease and record.
LEMMA HeldByOthers ==
    ASSUME RecordTypeOK, SweepHolds, NEW p \in RecordProcs, NEW q \in RecordProcs, q # p,
           doing'[q] = doing[q], sweep'[q] = sweep[q],
           doing[q] \notin Idle => lock' = lock /\ files' = files
    PROVE  HeldBy(q)'
<1>1. HeldBy(q)
    BY HeldByAll
<1>2. CASE doing[q] \in Idle
    BY <1>1, <1>2 DEF HeldBy, Idle
<1>3. CASE doing[q] \notin Idle
    <2>1. lock' = lock /\ Loaded' = Loaded
        BY <1>3, SameFiles
    <2> QED BY <1>1, <2>1 DEF HeldBy
<1> QED BY <1>2, <1>3

LEMMA StepOfOne ==
    ASSUME RecordTypeOK, SweepHolds, NEW p \in RecordProcs, NEW s, Does(p, s),
           \A q \in RecordProcs : q # p => sweep'[q] = sweep[q],
           lock = p \/ doing[p] \notin Idle \/ LockFree \/ UNCHANGED <<lock, files>>,
           HeldBy(p)'
    PROVE  SweepHolds'
<1>1. \A q \in RecordProcs : q # p => doing'[q] = doing[q]
    BY OthersWait
<1>2. ASSUME NEW q \in RecordProcs, q # p, doing[q] \notin Idle PROVE UNCHANGED <<lock, files>>
    BY <1>2, OneHolder, FreeMeansIdle
<1>3. \A q \in RecordProcs : q # p => HeldBy(q)'
    BY <1>1, <1>2, HeldByOthers
<1>4. \A q \in RecordProcs : HeldBy(q)'
    BY <1>3
<1> QED BY <1>4, HeldByAll

LEMMA SweepStep ==
    ASSUME SweepInv, [RecordNext]_recordVars
    PROVE  SweepInv'
<1>1. RecordTypeOK /\ SweepHolds /\ RecordTypeOK'
    BY RecordTypes DEF SweepInv
<1> USE DEF Ghosts
<1>2. \A p \in RecordProcs : HeldBy(p)
    BY <1>1, HeldByAll
<1>3. ASSUME NEW p \in RecordProcs, NEW s, Does(p, s) PROVE doing'[p] = s
    BY <1>1, <1>3, OthersWait
<1>4. ASSUME NEW p \in RecordProcs, Open(p) PROVE SweepHolds'
    <2>1. Does(p, "owner") /\ LockFree /\ lock' = p /\ sweep' = [sweep EXCEPT ![p] = "none"]
        BY <1>4 DEF Open
    <2>2. doing'[p] = "owner" /\ sweep'[p] = "none" /\ \A q \in RecordProcs : q # p => sweep'[q] = sweep[q]
        BY <1>1, <1>3, <2>1 DEF RecordTypeOK
    <2>3. HeldBy(p)'
        BY <2>1, <2>2 DEF HeldBy
    <2> QED BY <1>1, <2>1, <2>2, <2>3, StepOfOne
<1>5. ASSUME NEW p \in RecordProcs, SaveRecord(p) PROVE SweepHolds'
    <2>1. lock = p /\ lock' = lock /\ sweep' = sweep /\ doing[p] = "owner"
        BY <1>5 DEF SaveRecord
    <2>2. CASE Does(p, "backup")
        <3>1. HeldBy(p)'
            BY <1>2, <1>3, <2>1, <2>2 DEF HeldBy
        <3> QED BY <1>1, <2>1, <2>2, <3>1, StepOfOne
    <2>3. CASE UNCHANGED <<files, known, doing>>
        <3>1. Loaded' = Loaded
            BY <2>3, SameFiles
        <3> QED BY <1>1, <2>1, <2>3, <3>1 DEF SweepHolds
    <2> QED BY <1>5, <2>2, <2>3 DEF SaveRecord
<1>6. ASSUME NEW p \in RecordProcs, SaveBackup(p) PROVE SweepHolds'
    <2>1. lock' = lock /\ sweep' = sweep /\ doing[p] = "backup" /\ Does(p, "owner")
        BY <1>6 DEF SaveBackup
    <2>2. HeldBy(p)'
        BY <1>2, <1>3, <2>1 DEF HeldBy, Idle
    <2>3. doing[p] \notin Idle
        BY <2>1 DEF Idle
    <2> QED BY <1>1, <2>1, <2>2, <2>3, StepOfOne
<1>7. ASSUME NEW p \in RecordProcs, Close(p) \/ DeletionDone(p) \/ ProcessDies(p) PROVE SweepHolds'
    <2>1. sweep' = sweep /\ Does(p, "idle") /\ files' = files /\ (lock # p => lock' = lock)
        BY <1>7 DEF Close, DeletionDone, ProcessDies
    <2>2. HeldBy(p)'
        BY <1>2, <1>3, <2>1 DEF HeldBy, Idle
    <2>3. lock = p \/ UNCHANGED <<lock, files>>
        BY <2>1
    <2> QED BY <1>1, <2>1, <2>2, <2>3, StepOfOne
<1>8. ASSUME NEW p \in RecordProcs, DeleteRun(p) PROVE SweepHolds'
    <2>1. /\ lock = p /\ lock' = lock /\ sweep' = sweep /\ doing[p] = "owner" /\ Does(p, "run")
          /\ files' = files /\ Loaded # Missing
        BY <1>8 DEF DeleteRun
    <2>2. Loaded' = Loaded /\ Loaded.rev > 0
        BY <1>1, <2>1, SameFiles, LoadedTyped DEF FileRecords
    <2>3. HeldBy(p)'
        BY <1>2, <1>3, <2>1, <2>2 DEF HeldBy
    <2> QED BY <1>1, <2>1, <2>3, StepOfOne
<1>9. ASSUME NEW p \in RecordProcs, SweepLists(p) PROVE SweepHolds'
    <2>1. /\ lock' = lock /\ files' = files /\ Does(p, "listed")
          /\ sweep' = [sweep EXCEPT ![p] = Listed.status] /\ Listed.status \in {"paused", "terminal"}
        BY <1>9 DEF SweepLists
    <2>2. sweep'[p] = Listed.status /\ \A q \in RecordProcs : q # p => sweep'[q] = sweep[q]
        BY <1>1, <2>1 DEF RecordTypeOK
    <2>3. HeldBy(p)'
        BY <1>3, <2>1, <2>2 DEF HeldBy, Idle
    <2> QED BY <1>1, <2>1, <2>2, <2>3, StepOfOne
<1>10. ASSUME NEW p \in RecordProcs, SweepTakes(p) PROVE SweepHolds'
    <2>1. files' = files /\ sweep' = sweep /\ doing[p] = "listed"
        BY <1>10 DEF SweepTakes
    <2>2. CASE LockFree /\ lock' = p /\ Does(p, "look")
        <3>1. sweep[p] # "none"
            BY <1>2, <2>1 DEF HeldBy
        <3>2. HeldBy(p)'
            BY <1>2, <1>3, <2>1, <2>2, <3>1 DEF HeldBy
        <3> QED BY <1>1, <2>1, <2>2, <3>2, StepOfOne
    <2>3. CASE UNCHANGED lock /\ Does(p, "idle")
        <3>1. HeldBy(p)'
            BY <1>2, <1>3, <2>1, <2>3 DEF HeldBy, Idle
        <3> QED BY <1>1, <2>1, <2>3, <3>1, StepOfOne
    <2> QED BY <1>10, <2>2, <2>3 DEF SweepTakes
<1>11. ASSUME NEW p \in RecordProcs, SweepLooks(p) PROVE SweepHolds'
    <2>1. files' = files /\ sweep' = sweep /\ doing[p] = "look" /\ doing[p] \notin Idle /\ lock = p
        BY <1>1, <1>2, <1>11 DEF SweepLooks, HeldBy, Idle
    <2>2. CASE StillWanted(p) /\ Does(p, "run") /\ UNCHANGED lock
        <3>1. Loaded.status = sweep[p] /\ sweep[p] \in {"paused", "terminal"}
            BY <1>2, <2>1, <2>2 DEF StillWanted, HeldBy
        <3>2. Loaded.rev > 0 /\ Loaded' = Loaded
            BY <1>1, <2>1, <3>1, LoadedTyped, SameFiles DEF FileRecords
        <3>3. HeldBy(p)'
            BY <1>2, <1>3, <2>1, <2>2, <3>1, <3>2 DEF HeldBy
        <3> QED BY <1>1, <2>1, <2>2, <3>3, StepOfOne
    <2>3. CASE Does(p, "idle") /\ lock' = NoOwner
        <3>1. HeldBy(p)'
            BY <1>2, <1>3, <2>1, <2>3 DEF HeldBy, Idle
        <3> QED BY <1>1, <2>1, <2>3, <3>1, StepOfOne
    <2> QED BY <1>11, <2>2, <2>3 DEF SweepLooks
<1>12. ASSUME NEW p \in RecordProcs, Unlink(p) PROVE SweepHolds'
    <2>1. sweep' = sweep /\ doing[p] \in Files
        BY <1>12 DEF Unlink
    <2>2. doing[p] \notin Idle /\ lock = p
        BY <1>2, <2>1 DEF HeldBy, Idle, Files
    <2>3. AfterFile(doing[p]) \in Removing
        BY <2>1, AfterIs DEF Files, Removing
    <2>4. CASE Does(p, AfterFile(doing[p])) /\ UNCHANGED lock
        <3>1. doing'[p] \in Removing
            BY <1>3, <2>3, <2>4
        <3>2. HeldBy(p)'
            BY <1>2, <2>1, <2>2, <2>4, <3>1 DEF HeldBy, Removing
        <3> QED BY <1>1, <2>1, <2>2, <2>4, <3>2, StepOfOne
    <2>5. CASE sweep[p] = "none" /\ Does(p, "owner") /\ UNCHANGED lock
        <3>1. HeldBy(p)'
            BY <1>2, <1>3, <2>1, <2>2, <2>5 DEF HeldBy
        <3> QED BY <1>1, <2>1, <2>2, <2>5, <3>1, StepOfOne
    <2>6. CASE Does(p, "idle")
        <3>1. HeldBy(p)'
            BY <1>2, <1>3, <2>1, <2>6 DEF HeldBy, Idle
        <3> QED BY <1>1, <2>1, <2>2, <2>6, <3>1, StepOfOne
    <2> QED BY <1>12, <2>4, <2>5, <2>6 DEF Unlink
<1>13. CASE Damage
    <2>1. UNCHANGED <<lock, doing, sweep>> /\ \A p \in RecordProcs : doing[p] # "run"
        BY <1>13 DEF Damage
    <2>2. \A p \in RecordProcs : HeldBy(p)'
        BY <1>2, <2>1 DEF HeldBy
    <2> QED BY <1>1, <2>2, HeldByAll DEF SweepInv
<1>14. CASE UNCHANGED recordVars
    <2>1. UNCHANGED <<lock, doing, sweep>> /\ Loaded' = Loaded
        BY <1>14, SameFiles DEF recordVars
    <2>2. \A p \in RecordProcs : HeldBy(p)'
        BY <1>2, <2>1 DEF HeldBy
    <2> QED BY <1>1, <2>2, HeldByAll DEF SweepInv
<1> QED BY <1>1, <1>4, <1>5, <1>6, <1>7, <1>8, <1>9, <1>10, <1>11, <1>12, <1>13, <1>14 DEF RecordNext, SweepInv

LEMMA RecordInitTypes == RecordInit => SweepInv
<1> SUFFICES ASSUME RecordInit PROVE SweepInv
    OBVIOUS
<1>1. PICK old \in {{}, LegacyFiles}, status \in {"running", "paused", "terminal"} :
          files = [file \in Files |-> IF file \in old THEN [rev |-> 1, status |-> status] ELSE Missing]
    BY DEF RecordInit
<1>2. files \in [Files -> FileRecords]
    <2>1. [rev |-> 1, status |-> status] \in FileRecords /\ Missing \in FileRecords
        BY DEF FileRecords, RecordStatuses, Missing
    <2> QED BY <1>1, <2>1
<1>3. Loaded.rev \in Nat
    <2>1. \A file \in Files : files[file] \in FileRecords
        BY <1>2
    <2>2. Missing \in FileRecords /\ \A r \in FileRecords : r.rev \in Nat
        BY DEF FileRecords, Missing, RecordStatuses
    <2>3. Loaded \in FileRecords
        BY <2>1, <2>2, LoadedIs, FileNames
    <2> QED BY <2>2, <2>3
<1>4. RecordTypeOK
    BY <1>2, <1>3 DEF RecordInit, RecordTypeOK, FileRecords, Steps, Idle
<1>5. SweepHolds
    BY DEF RecordInit, SweepHolds, Idle
<1> QED BY <1>4, <1>5 DEF SweepInv

\* For any number of processes, revisions, faults and deaths: a sweep begins to unlink only
\* what is still what it was after, and under its lease.
THEOREM SweepsSpare == RecordSpec => SweepSparesTheLiving
<1>1. RecordInit => SweepInv
    BY RecordInitTypes
<1>2. SweepInv /\ [RecordNext]_recordVars => SweepInv'
    BY SweepStep
<1>3. ASSUME SweepInv
      PROVE  \A p \in RecordProcs : sweep[p] # "none" /\ doing[p] = "run" /\ doing'[p] = "legacy"
                                    => Loaded.status = sweep[p] /\ lock = p
    BY <1>3 DEF SweepInv, SweepHolds, Idle
<1>4. SweepInv => [\A p \in RecordProcs : sweep[p] # "none" /\ doing[p] = "run" /\ doing'[p] = "legacy"
                                    => Loaded.status = sweep[p] /\ lock = p]_recordVars
    BY <1>3
<1> QED BY <1>1, <1>2, <1>4, PTL DEF RecordSpec, SweepSparesTheLiving

OneFault == LegacyFiles \subseteq {"legacy"} /\ MaxFileFaults \in {0, 1}
FilesInv == SweepInv /\ FilesAgree

LEMMA FaultIsFirst ==
    ASSUME OneFault, FilesAgree
    PROVE  /\ FileFault => fileFaults = 0 /\ fileFaults' = 1
           /\ NoFileFault => fileFaults' = fileFaults
BY DEF OneFault, FilesAgree, FileFault, NoFileFault

LEMMA LoadedRev ==
    /\ RecordTypeOK /\ Copies
       => /\ Loaded.rev = IF files["run"].rev > 0 THEN files["run"].rev ELSE Fallback
          /\ Loaded.rev \in Nat /\ Fallback \in Nat /\ files["run"].rev \in Nat
          /\ Loaded.rev = 0 <=> Loaded = Missing
          /\ Nothing => Loaded.rev = 0 /\ Fallback = 0
    /\ RecordTypeOK' /\ Copies'
       => /\ Loaded'.rev = IF files'["run"].rev > 0 THEN files'["run"].rev ELSE Fallback'
          /\ Loaded'.rev \in Nat /\ Fallback' \in Nat /\ files'["run"].rev \in Nat
          /\ Nothing' => Loaded'.rev = 0 /\ Fallback' = 0
<1>1. Missing.rev = 0
    BY DEF Missing
<1>2. ASSUME RecordTypeOK, Copies
      PROVE  /\ Loaded.rev = IF files["run"].rev > 0 THEN files["run"].rev ELSE Fallback
             /\ Loaded.rev \in Nat /\ Fallback \in Nat /\ files["run"].rev \in Nat
             /\ Loaded.rev = 0 <=> Loaded = Missing
             /\ Nothing => Loaded.rev = 0 /\ Fallback = 0
    <2>1. \A file \in Files : files[file].rev \in Nat
        BY <1>2 DEF RecordTypeOK
    <2>2. files["legacy.bak"].rev = 0
        BY <1>2, FileNames DEF Copies
    <2>3. Loaded.rev = IF files["run"].rev > 0 THEN files["run"].rev ELSE Fallback
        BY <1>1, <2>1, <2>2, LoadedIs, FileNames DEF Fallback, Readable
    <2>4. Fallback \in Nat
        BY <2>1, FileNames DEF Fallback
    <2>5. Loaded.rev = 0 <=> Loaded = Missing
        BY <1>1, <1>2, LoadedTyped
    <2>6. Nothing => files["run"].rev = 0 /\ Fallback = 0
        BY <1>1, FileNames DEF Nothing, Fallback
    <2> QED BY <2>1, <2>3, <2>4, <2>5, <2>6, FileNames
<1>3. ASSUME RecordTypeOK', Copies'
      PROVE  /\ Loaded'.rev = IF files'["run"].rev > 0 THEN files'["run"].rev ELSE Fallback'
             /\ Loaded'.rev \in Nat /\ Fallback' \in Nat /\ files'["run"].rev \in Nat
             /\ Nothing' => Loaded'.rev = 0 /\ Fallback' = 0
    <2>1. \A file \in Files : files'[file].rev \in Nat
        BY <1>3 DEF RecordTypeOK
    <2>2. files'["legacy.bak"].rev = 0
        BY <1>3, FileNames DEF Copies
    <2>3. Loaded'.rev = IF files'["run"].rev > 0 THEN files'["run"].rev ELSE Fallback'
        BY <1>1, <2>1, <2>2, LoadedIs, FileNames DEF Fallback, Readable
    <2>4. Fallback' \in Nat
        BY <2>1, FileNames DEF Fallback
    <2>5. Nothing' => files'["run"].rev = 0 /\ Fallback' = 0
        BY <1>1, FileNames DEF Nothing, Fallback
    <2> QED BY <2>1, <2>3, <2>4, <2>5, FileNames
<1> QED BY <1>2, <1>3

\* When one process has the lease, only what it does counts.
LEMMA IntactIs ==
    ASSUME SweepInv, NEW p \in RecordProcs, NEW s, Does(p, s),
           lock = p \/ doing[p] \notin Idle \/ LockFree
    PROVE  /\ \A q \in RecordProcs : q # p => doing'[q] \in Idle
           /\ doing'[p] = s
           /\ NoneRemoves <=> doing[p] \notin Removing
           /\ NoneRemoves' <=> s \notin Removing
           /\ (\A q \in RecordProcs : q # p => FilesOf(q)')
<1>1. \A q \in RecordProcs : q # p => doing[q] \in Idle
    BY OneHolder, FreeMeansIdle DEF SweepInv
<1>2. doing'[p] = s /\ \A q \in RecordProcs : q # p => doing'[q] = doing[q]
    BY OthersWait DEF SweepInv
<1>3. \A x \in Idle : x \notin Removing /\ x # "owner" /\ x # "backup"
    BY DEF Idle, Removing
<1>4. (NoneRemoves <=> doing[p] \notin Removing) /\ (NoneRemoves' <=> s \notin Removing)
    BY <1>1, <1>2, <1>3 DEF NoneRemoves
<1>5. \A q \in RecordProcs : q # p => FilesOf(q)'
    BY <1>1, <1>2, <1>3 DEF FilesOf
<1> QED BY <1>1, <1>2, <1>4, <1>5

\* Steps that touch no file.
LEMMA QuietFiles ==
    ASSUME UNCHANGED <<files, committed, doomed>>
    PROVE  /\ Loaded' = Loaded /\ Fallback' = Fallback /\ Nothing' = Nothing
           /\ (Copies => Copies') /\ (Current => Current') /\ (Spare => Spare')
<1>1. Loaded' = Loaded
    BY SameFiles
<1>2. Fallback' = Fallback /\ Nothing' = Nothing
    BY DEF Fallback, Nothing, Readable
<1>3. Copies => Copies'
    BY DEF Copies
<1> QED BY <1>1, <1>2, <1>3 DEF Current, Spare

\* What the acting process leaves behind is enough.
LEMMA FilesByOne ==
    ASSUME SweepInv, FilesAgree, NEW p \in RecordProcs, NEW s, Does(p, s),
           lock = p \/ doing[p] \notin Idle \/ LockFree,
           Copies', FilesOf(p)', fileFaults' \in {0, 1},
           s \notin Removing => Current', s \notin Removing /\ fileFaults' = 0 => Spare'
    PROVE  FilesAgree'
<1>1. \A q \in RecordProcs : FilesOf(q)'
    BY IntactIs
<1>2. NoneRemoves' <=> s \notin Removing
    BY IntactIs
<1> QED BY <1>1, <1>2 DEF FilesAgree

LEMMA OpenFiles ==
    ASSUME OneFault, FilesInv, NEW p \in RecordProcs, Open(p)
    PROVE  FilesAgree'
<1>1. /\ SweepInv /\ FilesAgree /\ LockFree /\ Does(p, "owner") /\ ~(doomed /\ Loaded = Missing)
      /\ UNCHANGED <<files, committed, doomed>> /\ fileFaults' = fileFaults
    BY DEF Open, FilesInv, Ghosts
<1>2. doing[p] \in Idle /\ NoneRemoves
    <2>1. \A q \in RecordProcs : doing[q] \in Idle
        BY <1>1, FreeMeansIdle DEF SweepInv
    <2> QED BY <2>1 DEF NoneRemoves, Idle, Removing
<1>3. Copies' /\ Current' /\ (fileFaults' = 0 => Spare') /\ Loaded' = Loaded
    BY <1>1, <1>2, QuietFiles DEF FilesAgree
<1>4. Loaded.rev > 0 \/ committed = 0
    <2>1. Loaded.rev \in Nat /\ (Loaded.rev = 0 <=> Loaded = Missing) /\ Current
        BY <1>1, <1>2, LoadedRev DEF SweepInv, FilesAgree
    <2> QED BY <1>1, <2>1 DEF Current
<1>5. FilesOf(p)'
    <2>1. doing'[p] = "owner"
        BY <1>1, IntactIs
    <2> QED BY <1>1, <1>3, <1>4, <2>1 DEF FilesOf, Removing
<1> QED BY <1>1, <1>3, <1>5, FilesByOne DEF FilesAgree

LEMMA SaveFiles ==
    ASSUME OneFault, FilesInv, RecordTypeOK', NEW p \in RecordProcs, SaveRecord(p)
    PROVE  FilesAgree'
<1>1. /\ SweepInv /\ FilesAgree /\ RecordTypeOK /\ Copies /\ doing[p] = "owner" /\ lock = p
      /\ committed' = committed /\ doomed' = doomed
    BY DEF SaveRecord, FilesInv, FilesAgree, SweepInv, Ghosts
<1>2. NoneRemoves /\ Current /\ (fileFaults = 0 => Spare) /\ FilesOf(p)
    <2>1. \A q \in RecordProcs : q # p => doing[q] \in Idle
        BY <1>1, OneHolder DEF SweepInv
    <2>2. NoneRemoves
        BY <1>1, <2>1 DEF NoneRemoves, Idle, Removing
    <2> QED BY <1>1, <2>2 DEF FilesAgree
<1>3. /\ Loaded.rev = IF files["run"].rev > 0 THEN files["run"].rev ELSE Fallback
      /\ Loaded.rev \in Nat /\ Fallback \in Nat /\ committed \in Nat
    BY <1>1, LoadedRev DEF RecordTypeOK
<1>4. CASE UNCHANGED <<files, known, doing>> /\ FileFault
    <2>1. fileFaults' = 1
        BY <1>1, <1>4, FaultIsFirst
    <2>2. Copies' /\ Loaded' = Loaded /\ Fallback' = Fallback
        BY <1>1, <1>4, QuietFiles
    <2>3. \A q \in RecordProcs : FilesOf(q)'
        BY <1>1, <1>4, <2>1, <2>2 DEF FilesOf, FilesAgree, Removed
    <2>4. NoneRemoves => Current'
        BY <1>1, <1>2, <1>4, QuietFiles
    <2> QED BY <1>2, <2>1, <2>2, <2>3, <2>4 DEF FilesAgree, NoneRemoves
<1>5. CASE NoFileFault /\ Does(p, "backup")
    <2>1. PICK status \in {"running", "paused", "terminal"} :
            /\ files' = [files EXCEPT !["run"] = [rev |-> Loaded.rev + 1, status |-> status]]
            /\ known' = [known EXCEPT ![p] = Loaded.rev + 1]
        <3>1. "backup" # "owner" /\ doing'[p] = "backup"
            BY <1>1, <1>5, OthersWait
        <3> QED BY <1>1, <1>5, <3>1 DEF SaveRecord
    <2>2. /\ files'["run"].rev = Loaded.rev + 1 /\ known'[p] = Loaded.rev + 1
          /\ \A file \in Files \ {"run"} : files'[file] = files[file]
        BY <1>1, <2>1, FileNames DEF RecordTypeOK
    <2>3. Copies' /\ Fallback' = Fallback
        BY <1>1, <2>2, FileNames DEF Copies, Fallback, Readable
    <2>4. Loaded'.rev = Loaded.rev + 1
        BY <1>3, <2>2, <2>3, LoadedRev
    <2>5. committed <= Loaded.rev + 1
        BY <1>1, <1>2, <1>3 DEF FilesOf, Current
    <2>6. doing'[p] = "backup" /\ fileFaults' = fileFaults
        BY <1>1, <1>5, IntactIs, FaultIsFirst
    <2>7. FilesOf(p)'
        BY <1>1, <1>3, <2>2, <2>4, <2>5, <2>6 DEF FilesOf, Removing
    <2>8. Current'
        BY <1>1, <1>3, <2>4, <2>5 DEF Current
    <2>9. fileFaults' = 0 => Spare'
        <3> SUFFICES ASSUME fileFaults = 0 PROVE Spare'
            BY <2>6
        <3>1. CASE Fallback >= committed
            BY <1>1, <2>3, <3>1 DEF Spare
        <3>2. CASE doomed /\ Nothing
            <4>1. Loaded.rev = 0 /\ committed = 0
                BY <1>1, <1>2, <3>2, LoadedRev DEF FilesOf
            <4> QED BY <1>1, <1>3, <2>3, <4>1 DEF Spare
        <3> QED BY <1>2, <3>1, <3>2 DEF Spare
    <2> QED BY <1>1, <1>5, <2>3, <2>6, <2>7, <2>8, <2>9, FilesByOne DEF FilesAgree
<1> QED BY <1>4, <1>5 DEF SaveRecord

LEMMA BackupFiles ==
    ASSUME OneFault, FilesInv, RecordTypeOK', NEW p \in RecordProcs, SaveBackup(p)
    PROVE  FilesAgree'
<1>1. /\ SweepInv /\ FilesAgree /\ RecordTypeOK /\ Copies /\ doing[p] = "backup" /\ lock = p
      /\ committed' = known[p] /\ doomed' = doomed /\ Does(p, "owner") /\ known' = known
    BY DEF SaveBackup, FilesInv, FilesAgree, SweepInv, SweepHolds, Idle
<1>2. /\ files["run"].rev > 0 /\ files["run"].rev = known[p]
      /\ known[p] \in Nat
    BY <1>1 DEF FilesAgree, FilesOf, RecordTypeOK
<1>3. doing'[p] = "owner" /\ "owner" \notin Removing
    BY <1>1, IntactIs DEF Removing
<1>4. CASE UNCHANGED files /\ FileFault
    <2>1. fileFaults' = 1
        BY <1>1, <1>4, FaultIsFirst
    <2>2. Copies'
        BY <1>1, <1>4 DEF Copies
    <2>3. Loaded'.rev = known[p]
        BY <1>2, <1>4, <2>2, LoadedRev
    <2>4. FilesOf(p)' /\ Current'
        BY <1>1, <1>2, <1>3, <2>3 DEF FilesOf, Current
    <2> QED BY <1>1, <2>1, <2>2, <2>4, FilesByOne
<1>5. CASE files' = [files EXCEPT !["run.bak"] = files["run"]] /\ NoFileFault
    <2>1. /\ files'["run.bak"] = files["run"]
          /\ \A file \in Files \ {"run.bak"} : files'[file] = files[file]
        BY <1>1, <1>5, FileNames DEF RecordTypeOK
    <2>2. Copies'
        BY <1>1, <1>2, <2>1, FileNames DEF Copies
    <2>3. Loaded'.rev = known[p]
        BY <1>2, <2>1, <2>2, LoadedRev, FileNames
    <2>4. Fallback' = known[p]
        BY <1>2, <2>1, FileNames DEF Fallback, Readable
    <2>5. FilesOf(p)' /\ Current' /\ Spare'
        BY <1>1, <1>2, <1>3, <2>3, <2>4 DEF FilesOf, Current, Spare
    <2>6. fileFaults' = fileFaults
        BY <1>1, <1>5, FaultIsFirst
    <2> QED BY <1>1, <2>2, <2>5, <2>6, FilesByOne DEF FilesAgree
<1> QED BY <1>4, <1>5 DEF SaveBackup, Backup

\* A move between idle and listed, whoever has the lease.
LEMMA IdleFiles ==
    ASSUME FilesInv, NEW p \in RecordProcs, NEW s \in Idle, Does(p, s), doing[p] \in Idle,
           UNCHANGED <<files, known, committed, doomed, fileFaults>>
    PROVE  FilesAgree'
<1>1. RecordTypeOK /\ FilesAgree
    BY DEF FilesInv, SweepInv
<1>2. doing'[p] = s /\ \A q \in RecordProcs : q # p => doing'[q] = doing[q]
    BY <1>1, OthersWait
<1>3. \A x \in Idle : x \notin Removing /\ x # "owner" /\ x # "backup"
    BY DEF Idle, Removing
<1>4. Loaded' = Loaded /\ Fallback' = Fallback /\ Copies' /\ (Current => Current') /\ (Spare => Spare')
    BY <1>1, QuietFiles DEF FilesAgree
<1>5. FilesOf(p)'
    BY <1>2, <1>3 DEF FilesOf
<1>6. \A q \in RecordProcs : q # p => FilesOf(q)'
    <2>1. ASSUME NEW q \in RecordProcs, q # p PROVE FilesOf(q)'
        <3>1. FilesOf(q) /\ doing'[q] = doing[q]
            BY <1>1, <1>2, <2>1 DEF FilesAgree
        <3> QED BY <1>4, <3>1 DEF FilesOf, Removed
    <2> QED BY <2>1
<1>7. NoneRemoves' => NoneRemoves
    BY <1>2, <1>3 DEF NoneRemoves
<1> QED BY <1>1, <1>4, <1>5, <1>6, <1>7 DEF FilesAgree

\* A listing changes what the sweep goes by, which no file depends on.
LEMMA ListingFiles ==
    ASSUME FilesInv, NEW p \in RecordProcs, Does(p, "listed"), doing[p] = "idle",
           NEW n, known' = [known EXCEPT ![p] = n],
           UNCHANGED <<files, committed, doomed, fileFaults>>
    PROVE  FilesAgree'
<1>1. RecordTypeOK /\ FilesAgree
    BY DEF FilesInv, SweepInv
<1>2. doing'[p] = "listed" /\ \A q \in RecordProcs : q # p => doing'[q] = doing[q] /\ known'[q] = known[q]
    BY <1>1, OthersWait DEF RecordTypeOK
<1>3. Loaded' = Loaded /\ Fallback' = Fallback /\ Copies' /\ (Current => Current') /\ (Spare => Spare')
    BY <1>1, QuietFiles DEF FilesAgree
<1>4. FilesOf(p)'
    BY <1>2 DEF FilesOf, Removing
<1>5. ASSUME NEW q \in RecordProcs, q # p PROVE FilesOf(q)'
    <2>1. FilesOf(q) /\ doing'[q] = doing[q] /\ known'[q] = known[q]
        BY <1>1, <1>2, <1>5 DEF FilesAgree
    <2> QED BY <1>3, <2>1 DEF FilesOf, Removed
<1>6. NoneRemoves' => NoneRemoves
    BY <1>2 DEF NoneRemoves, Removing
<1> QED BY <1>1, <1>3, <1>4, <1>5, <1>6 DEF FilesAgree

\* The lease is given back, or a deletion begins: no file is touched.
LEMMA HeldFiles ==
    ASSUME FilesInv, NEW p \in RecordProcs, NEW s \in {"idle", "look", "run"}, Does(p, s),
           doing[p] \notin Removing, lock = p \/ doing[p] \notin Idle \/ LockFree,
           UNCHANGED <<files, committed, doomed>>, fileFaults' \in {0, 1}, fileFaults \in {0, fileFaults'}
    PROVE  FilesAgree'
<1>1. SweepInv /\ FilesAgree
    BY DEF FilesInv
<1>2. doing'[p] = s /\ s \notin Removing /\ NoneRemoves
    BY <1>1, IntactIs DEF Removing
<1>3. Copies' /\ Current' /\ (fileFaults = 0 => Spare')
    BY <1>1, <1>2, QuietFiles DEF FilesAgree
<1>4. FilesOf(p)'
    BY <1>2 DEF FilesOf
<1>5. fileFaults' = 0 => fileFaults = 0
    OBVIOUS
<1> QED BY <1>1, <1>3, <1>4, <1>5, FilesByOne

\* A deletion that was through with the files has left none.
LEMMA DoneFiles ==
    ASSUME OneFault, FilesInv, RecordTypeOK', NEW p \in RecordProcs, DeletionDone(p)
    PROVE  FilesAgree'
<1>1. /\ SweepInv /\ FilesAgree /\ RecordTypeOK /\ Copies /\ doing[p] = "unlock" /\ Does(p, "idle")
      /\ UNCHANGED <<files, committed, doomed>> /\ fileFaults' = fileFaults
    BY DEF DeletionDone, FilesInv, FilesAgree, SweepInv, Ghosts
<1>2. doing[p] \in Removing /\ doing[p] \notin Idle
    BY <1>1 DEF Removing, Idle
<1>3. doomed /\ Nothing
    <2>1. Removed(p)
        BY <1>1, <1>2 DEF FilesAgree, FilesOf
    <2>2. files["legacy.bak"] = Missing
        BY <1>1, FileNames DEF Copies
    <2> QED BY <1>1, <2>1, <2>2 DEF Removed, Nothing, Files
<1>4. Loaded.rev = 0
    BY <1>1, <1>3, LoadedRev
<1>5. Copies' /\ Current' /\ Spare'
    BY <1>1, <1>3, <1>4, QuietFiles DEF Current, Spare
<1>6. doing'[p] = "idle"
    BY <1>1, <1>2, IntactIs
<1>7. FilesOf(p)'
    BY <1>6 DEF FilesOf, Removing
<1> QED BY <1>1, <1>2, <1>5, <1>7, FilesByOne DEF FilesAgree

\* A deletion that stops half way with a file left has left one that is new enough.
LEMMA HalfDeleted ==
    ASSUME SweepInv, FilesAgree, NEW p \in RecordProcs, doing[p] \in Removing, fileFaults = 0
    PROVE  /\ Loaded.rev = 0 \/ Loaded.rev >= committed
           /\ doomed
           /\ \A file \in {"legacy", "run.bak"} :
                 files[file] # Missing /\ doing[p] = file => Loaded.rev > 0
<1>1. RecordTypeOK /\ Copies /\ Removed(p) /\ (Fallback = 0 \/ Fallback >= committed)
    BY DEF SweepInv, FilesAgree, FilesOf
<1>2. Missing.rev = 0 /\ files["run"].rev = 0 /\ doomed
    BY <1>1 DEF Removed, Missing
<1>3. Loaded.rev = Fallback /\ Fallback \in Nat
    BY <1>1, <1>2, LoadedRev
<1>4. \A file \in Files : files[file].rev \in Nat
    BY <1>1 DEF RecordTypeOK
<1>5. ASSUME NEW file \in {"legacy", "run.bak"}, files[file] # Missing PROVE Fallback > 0
    <2>1. files[file].rev > 0
        BY <1>1, <1>4, <1>5, FileNames DEF Copies
    <2> QED BY <1>4, <2>1, FileNames DEF Fallback, Readable
<1> QED BY <1>1, <1>2, <1>3, <1>5

LEMMA UnlinkFiles ==
    ASSUME OneFault, FilesInv, RecordTypeOK', NEW p \in RecordProcs, Unlink(p)
    PROVE  FilesAgree'
<1>1. /\ SweepInv /\ FilesAgree /\ RecordTypeOK /\ SweepHolds /\ Copies /\ doing[p] \in Files
      /\ committed' = committed
    BY DEF Unlink, FilesInv, FilesAgree, SweepInv
<1>2. doing[p] \notin Idle /\ (doing[p] \in Removing \/ doing[p] = "run")
    BY <1>1 DEF Files, Idle, Removing
<1>3. Missing.rev = 0
    BY DEF Missing
<1>4. doing[p] = "run" => Loaded.rev > 0 /\ NoneRemoves
    BY <1>1, <1>2, OneHolder DEF SweepHolds, NoneRemoves, Idle, Removing
<1>5. CASE /\ files' = [files EXCEPT ![doing[p]] = Missing] /\ doomed'
           /\ Does(p, AfterFile(doing[p])) /\ NoFileFault
    <2>1. /\ files'[doing[p]] = Missing
          /\ \A file \in Files : file # doing[p] => files'[file] = files[file]
        BY <1>1, <1>5 DEF RecordTypeOK
    <2>2. Copies'
        BY <1>1, <1>3, <2>1 DEF Copies
    <2>3. doing'[p] = AfterFile(doing[p]) /\ AfterFile(doing[p]) \in Removing
        BY <1>1, <1>2, <1>5, IntactIs, AfterIs DEF Files, Removing
    <2>4. fileFaults' = fileFaults
        BY <1>5 DEF NoFileFault
    <2>5. Removed(p)'
        <3>1. CASE doing[p] = "run"
            BY <1>5, <2>1, <2>3, <3>1, AfterIs DEF Removed
        <3>2. CASE doing[p] \in Removing
            <4>1. Removed(p)
                BY <1>1, <3>2 DEF FilesAgree, FilesOf
            <4> QED BY <1>1, <1>5, <2>1, <2>3, <3>2, <4>1, AfterIs, FileNames DEF Removed, Files, Removing
        <3> QED BY <1>2, <3>1, <3>2
    <2>6. fileFaults = 0 => Fallback' = 0 \/ Fallback' >= committed
        <3> SUFFICES ASSUME fileFaults = 0 PROVE Fallback' = 0 \/ Fallback' >= committed
            OBVIOUS
        <3>1. CASE doing[p] = "run"
            <4>1. ~Nothing /\ Fallback >= committed
                BY <1>1, <1>4, <3>1, LoadedRev DEF FilesAgree, Spare
            <4>2. Fallback' = Fallback
                BY <2>1, <3>1, FileNames DEF Fallback, Readable
            <4> QED BY <4>1, <4>2
        <3>2. CASE doing[p] \in Removing
            <4>1. Removed(p) /\ (Fallback = 0 \/ Fallback >= committed)
                BY <1>1, <3>2 DEF FilesAgree, FilesOf
            <4>2. \A file \in Files : files[file].rev \in Nat
                BY <1>1 DEF RecordTypeOK
            <4>3. CASE doing[p] = "legacy"
                BY <1>3, <2>1, <4>1, <4>2, <4>3, FileNames DEF Fallback, Readable
            <4>4. CASE doing[p] = "run.bak"
                BY <1>3, <2>1, <4>1, <4>2, <4>4, FileNames DEF Fallback, Readable, Removed
            <4>5. CASE doing[p] = "legacy.bak"
                BY <1>3, <2>1, <4>1, <4>2, <4>5, FileNames DEF Fallback, Readable
            <4> QED BY <1>1, <3>2, <4>3, <4>4, <4>5 DEF Removing, Files
        <3> QED BY <1>2, <3>1, <3>2
    <2>7. FilesOf(p)'
        BY <1>1, <2>3, <2>4, <2>5, <2>6 DEF FilesOf, Removing
    <2> QED BY <1>1, <1>2, <1>5, <2>2, <2>3, <2>4, <2>7, FilesByOne DEF FilesAgree
<1>6. CASE /\ files[doing[p]] # Missing /\ FileFault
           /\ \/ sweep[p] = "none" /\ Does(p, "owner") /\ UNCHANGED lock
              \/ Does(p, "idle") /\ lock' = NoOwner
           /\ UNCHANGED <<files, doomed>>
    <2>1. fileFaults = 0 /\ fileFaults' = 1
        BY <1>1, <1>6, FaultIsFirst
    <2>2. Loaded.rev > 0 /\ Loaded.rev >= committed
        <3>1. CASE doing[p] = "run"
            BY <1>1, <1>4, <3>1 DEF FilesAgree, Current, RecordTypeOK
        <3>2. CASE doing[p] \in Removing
            <4>1. doing[p] # "legacy.bak"
                BY <1>1, <1>6, FileNames DEF Copies
            <4>2. doing[p] \in {"legacy", "run.bak"}
                BY <1>1, <3>2, <4>1 DEF Removing, Files
            <4>3. Loaded.rev > 0 /\ (Loaded.rev = 0 \/ Loaded.rev >= committed)
                BY <1>1, <1>6, <2>1, <3>2, <4>2, HalfDeleted
            <4> QED BY <4>3
        <3> QED BY <1>2, <3>1, <3>2
    <2>3. PICK s \in {"owner", "idle"} : Does(p, s)
        BY <1>6
    <2>4. Copies' /\ Loaded' = Loaded
        BY <1>1, <1>6, QuietFiles
    <2>5. Current'
        BY <1>1, <2>2, <2>4 DEF Current
    <2>6. doing'[p] = s /\ s \notin Removing
        BY <1>1, <1>2, <2>3, IntactIs DEF Removing
    <2>7. FilesOf(p)'
        BY <2>2, <2>3, <2>4, <2>6 DEF FilesOf
    <2> QED BY <1>1, <1>2, <2>1, <2>3, <2>4, <2>5, <2>7, FilesByOne
<1> QED BY <1>5, <1>6 DEF Unlink

LEMMA DiesFiles ==
    ASSUME OneFault, FilesInv, RecordTypeOK', NEW p \in RecordProcs, ProcessDies(p)
    PROVE  FilesAgree'
<1>1. /\ SweepInv /\ FilesAgree /\ RecordTypeOK /\ Copies /\ doing[p] # "idle" /\ Does(p, "idle")
      /\ UNCHANGED <<files, known, committed, doomed>>
      /\ (Deleting(p) /\ FileFault) \/ NoFileFault
    BY DEF ProcessDies, FilesInv, FilesAgree, SweepInv, Ghosts
<1>2. fileFaults' \in {0, 1} /\ fileFaults \in {0, fileFaults'}
    BY <1>1, FaultIsFirst DEF FilesAgree
<1>3. CASE doing[p] \in Removing
    <2>1. Deleting(p) /\ doing[p] \notin Idle
        BY <1>3 DEF Deleting, Removing, Files, Idle
    <2>2. fileFaults = 0 /\ fileFaults' = 1
        BY <2>1, <1>1, FaultIsFirst DEF ProcessDies
    <2>3. doomed /\ (Loaded.rev = 0 \/ Loaded.rev >= committed)
        BY <1>1, <1>3, <2>2, HalfDeleted
    <2>4. Copies' /\ Loaded' = Loaded
        BY <1>1, QuietFiles
    <2>5. Current'
        BY <1>1, <2>3, <2>4 DEF Current
    <2>6. doing'[p] = "idle"
        BY <1>1, <2>1, IntactIs
    <2>7. FilesOf(p)'
        BY <2>6 DEF FilesOf, Removing
    <2> QED BY <1>1, <2>1, <2>2, <2>4, <2>5, <2>7, FilesByOne
<1>4. CASE doing[p] \notin Removing /\ doing[p] \notin Idle
    BY <1>1, <1>2, <1>4, HeldFiles
<1>5. CASE doing[p] \in Idle
    <2>1. ~Deleting(p) /\ "idle" \in Idle
        BY <1>5 DEF Deleting, Files, Idle
    <2>2. fileFaults' = fileFaults
        BY <1>1, <2>1, FaultIsFirst
    <2> QED BY <1>1, <1>5, <2>1, <2>2, IdleFiles
<1> QED BY <1>3, <1>4, <1>5

LEMMA DamagedFiles ==
    ASSUME OneFault, FilesInv, RecordTypeOK', Damage
    PROVE  FilesAgree'
<1>1. /\ SweepInv /\ FilesAgree /\ RecordTypeOK /\ Copies /\ Readable("run")
      /\ \A p \in RecordProcs : doing[p] \in {"idle", "owner", "listed"}
      /\ files' = [files EXCEPT !["run"] = Torn]
      /\ UNCHANGED <<doing, known, committed, doomed>>
      /\ fileFaults = 0 /\ fileFaults' = 1
    BY FaultIsFirst DEF Damage, FilesInv, FilesAgree, SweepInv, Ghosts
<1>2. Torn.rev = 0 /\ Missing.rev = 0
    BY DEF Torn, Missing
<1>3. files'["run"].rev = 0 /\ \A file \in Files \ {"run"} : files'[file] = files[file]
    BY <1>1, <1>2, FileNames DEF RecordTypeOK
<1>4. Copies' /\ Fallback' = Fallback
    BY <1>1, <1>3, FileNames DEF Copies, Fallback, Readable
<1>5. NoneRemoves
    BY <1>1 DEF NoneRemoves, Removing
<1>6. Fallback >= committed
    <2>1. ~Nothing
        BY <1>1, <1>2, FileNames DEF Nothing, Readable
    <2> QED BY <1>1, <1>5, <2>1 DEF FilesAgree, Spare
<1>7. Loaded'.rev >= committed' /\ Loaded'.rev \in Nat /\ committed' \in Nat
    BY <1>1, <1>3, <1>4, <1>6, LoadedRev DEF RecordTypeOK
<1>8. Current'
    BY <1>7 DEF Current
<1>9. \A p \in RecordProcs : FilesOf(p)'
    <2>1. \A p \in RecordProcs : doing'[p] \in {"idle", "owner", "listed"}
        BY <1>1
    <2>2. Loaded'.rev > 0 \/ committed' = 0
        BY <1>7
    <2> QED BY <2>1, <2>2 DEF FilesOf, Removing
<1> QED BY <1>1, <1>4, <1>8, <1>9 DEF FilesAgree

LEMMA FilesStep ==
    ASSUME OneFault, FilesInv, [RecordNext]_recordVars
    PROVE  FilesInv'
<1>1. SweepInv /\ FilesAgree /\ SweepInv' /\ RecordTypeOK' /\ RecordTypeOK /\ SweepHolds
    BY SweepStep DEF FilesInv, SweepInv
<1> USE DEF Ghosts
<1>2. fileFaults \in {0, 1}
    BY <1>1 DEF FilesAgree
<1>3. ASSUME NEW p \in RecordProcs, Close(p) \/ DeleteRun(p) PROVE FilesAgree'
    <2>1. PICK s \in {"idle", "run"} : Does(p, s)
        BY <1>3 DEF Close, DeleteRun
    <2>2. doing[p] = "owner" /\ UNCHANGED <<files, committed, doomed>> /\ fileFaults' = fileFaults
        BY <1>3 DEF Close, DeleteRun
    <2>3. doing[p] \notin Removing /\ doing[p] \notin Idle
        BY <2>2 DEF Removing, Idle
    <2> QED BY <1>2, <2>1, <2>2, <2>3, HeldFiles
<1>4. ASSUME NEW p \in RecordProcs, SweepLists(p) PROVE FilesAgree'
    <2>1. /\ doing[p] = "idle" /\ Does(p, "listed") /\ UNCHANGED <<files, committed, doomed, fileFaults>>
          /\ known' = [known EXCEPT ![p] = Listed.rev]
        BY <1>4 DEF SweepLists
    <2> QED BY <1>1, <2>1, ListingFiles
<1>5. ASSUME NEW p \in RecordProcs, SweepTakes(p) PROVE FilesAgree'
    <2>1. /\ doing[p] = "listed" /\ UNCHANGED <<files, known, committed, doomed>> /\ fileFaults' = fileFaults
          /\ (LockFree /\ Does(p, "look")) \/ Does(p, "idle")
        BY <1>5 DEF SweepTakes
    <2>2. doing[p] \in Idle /\ doing[p] \notin Removing /\ "idle" \in Idle
        BY <2>1 DEF Idle, Removing
    <2>3. CASE LockFree /\ Does(p, "look")
        BY <1>2, <2>1, <2>2, <2>3, HeldFiles
    <2>4. CASE Does(p, "idle")
        BY <2>1, <2>2, <2>4, IdleFiles
    <2> QED BY <2>1, <2>3, <2>4
<1>6. ASSUME NEW p \in RecordProcs, SweepLooks(p) PROVE FilesAgree'
    <2>1. PICK s \in {"idle", "run"} : Does(p, s)
        BY <1>6 DEF SweepLooks
    <2>2. doing[p] = "look" /\ UNCHANGED <<files, committed, doomed>> /\ fileFaults' = fileFaults
        BY <1>6 DEF SweepLooks
    <2>3. doing[p] \notin Removing /\ doing[p] \notin Idle
        BY <2>2 DEF Removing, Idle
    <2> QED BY <1>2, <2>1, <2>2, <2>3, HeldFiles
<1>7. CASE UNCHANGED recordVars
    <2>1. UNCHANGED <<files, doing, known, committed, doomed, fileFaults>>
        BY <1>7 DEF recordVars
    <2>2. Loaded' = Loaded /\ Fallback' = Fallback /\ Copies' /\ (Current => Current') /\ (Spare => Spare')
        BY <1>1, <2>1, QuietFiles DEF FilesAgree
    <2>3. \A q \in RecordProcs : FilesOf(q)'
        BY <1>1, <2>1, <2>2 DEF FilesOf, FilesAgree, Removed
    <2>4. NoneRemoves' => NoneRemoves
        BY <2>1 DEF NoneRemoves
    <2>5. (NoneRemoves => Current) /\ (NoneRemoves /\ fileFaults = 0 => Spare)
        BY <1>1 DEF FilesAgree
    <2>6. (NoneRemoves' => Current') /\ (NoneRemoves' /\ fileFaults' = 0 => Spare')
        BY <2>1, <2>2, <2>4, <2>5
    <2> QED BY <1>1, <1>2, <2>1, <2>2, <2>3, <2>6 DEF FilesAgree, FilesInv
<1> QED BY <1>1, <1>3, <1>4, <1>5, <1>6, <1>7, OpenFiles, SaveFiles, BackupFiles, UnlinkFiles,
       DoneFiles, DiesFiles, DamagedFiles DEF RecordNext, FilesInv

LEMMA FilesInitially ==
    ASSUME OneFault, RecordInit
    PROVE  FilesInv
<1>1. SweepInv /\ RecordTypeOK
    BY RecordInitTypes DEF SweepInv
<1>2. PICK old \in {{}, LegacyFiles}, status \in {"running", "paused", "terminal"} :
          files = [file \in Files |-> IF file \in old THEN [rev |-> 1, status |-> status] ELSE Missing]
    BY DEF RecordInit
<1>3. \A file \in Files : (file # "legacy" => files[file] = Missing)
                           /\ (files[file].rev = 0 => files[file] = Missing)
    <2>1. old \subseteq {"legacy"}
        BY DEF OneFault
    <2>2. \A file \in Files : files[file] = IF file \in old THEN [rev |-> 1, status |-> status] ELSE Missing
        BY <1>2
    <2>3. [rev |-> 1, status |-> status].rev # 0
        OBVIOUS
    <2> QED BY <2>1, <2>2, <2>3
<1>4. Missing.rev = 0 /\ \A p \in RecordProcs : doing[p] = "idle"
    BY DEF RecordInit, Missing
<1>5. Copies
    BY <1>3, <1>4 DEF Copies
<1>6. Loaded.rev = Fallback /\ Loaded.rev \in Nat /\ committed = Loaded.rev
    BY <1>1, <1>3, <1>4, <1>5, LoadedRev, FileNames DEF RecordInit
<1>7. Current /\ Spare
    BY <1>6 DEF Current, Spare
<1>8. \A p \in RecordProcs : FilesOf(p)
    BY <1>4 DEF FilesOf, Removing
<1> QED BY <1>1, <1>5, <1>7, <1>8 DEF FilesInv, FilesAgree, RecordInit

\* For any number of processes, saves and deaths, and at most one fault.
THEOREM NewestStays ==
    ASSUME OneFault
    PROVE  RecordSpec => []NewestOrGone
<1>1. RecordInit => FilesInv
    BY FilesInitially
<1>2. FilesInv /\ [RecordNext]_recordVars => FilesInv'
    BY FilesStep
<1>3. FilesInv => NewestOrGone
    <2> SUFFICES ASSUME FilesInv, \A p \in RecordProcs : ~Deleting(p)
                 PROVE  IF Loaded = Missing THEN doomed \/ committed = 0 ELSE Loaded.rev >= committed
        BY DEF NewestOrGone
    <2>1. NoneRemoves
        BY DEF NoneRemoves, Deleting, Removing, Files
    <2>2. Current /\ (Loaded.rev = 0 <=> Loaded = Missing)
        BY <2>1, LoadedRev DEF FilesInv, SweepInv, FilesAgree
    <2> QED BY <2>2 DEF Current
<1> QED BY <1>1, <1>2, <1>3, PTL DEF RecordSpec

=============================================================================
