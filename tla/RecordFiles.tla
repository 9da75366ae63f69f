------------------------------ MODULE RecordFiles ------------------------------
(* run-persistence.ts and fs-persistence.ts: the files one run's record lives in, *)
(* and what becomes of them when managers save and delete it, when retention and  *)
(* pruning sweep old runs in another process, and when a write or an unlink       *)
(* fails, a file is damaged or a process dies between two of them.  (RunLease     *)
(* looks at the lock itself; here taking it is one step.)                         *)
EXTENDS Naturals, Sequences

CONSTANTS
    RecordProcs,   \* processes that work on the run
    LegacyFiles,   \* files an earlier version may have left: a subset of Files
    NoOwner, DeadOwner,  \* the lock: nobody's, a dead process's
    MaxRevision,   \* bound on the saves
    MaxFileFaults  \* bound on failing writes and unlinks, damage and deaths amid a deletion

Files == {"run", "run.bak", "legacy", "legacy.bak"}

ASSUME RecordAssumption ==
    LegacyFiles \subseteq {"legacy", "legacy.bak"} /\ NoOwner # DeadOwner
    /\ {NoOwner, DeadOwner} \cap RecordProcs = {}

VARIABLES
    files,       \* what each file holds
    lock,        \* the process that holds the run's lease
    doing,       \* what each process does, or the file it unlinks next
    known,       \* the revision each process goes by
    sweep,       \* the status a sweep is after, "none" for a manager
    committed,   \* the revision of the last save that returned
    doomed,      \* a deletion has begun to unlink
    fileFaults

recordVars == <<files, lock, doing, known, sweep, committed, doomed, fileFaults>>

Missing == [rev |-> 0, status |-> "missing"]
Torn == [rev |-> 0, status |-> "torn"]
Readable(file) == files[file].rev > 0
FirstOf(order) ==
    IF \E i \in DOMAIN order : Readable(order[i])
    THEN files[order[CHOOSE i \in DOMAIN order :
                        Readable(order[i]) /\ \A j \in 1 .. i - 1 : ~Readable(order[j])]]
    ELSE Missing

\* load(): each place with its backup, the new place first.
Loaded == FirstOf(<<"run", "run.bak", "legacy", "legacy.bak">>)

\* list(): only what has a primary file is seen at all.
Listed ==
    FirstOf((IF files["run"] = Missing THEN <<>> ELSE <<"run", "run.bak">>) \o
            (IF files["legacy"] = Missing THEN <<>> ELSE <<"legacy", "legacy.bak">>))

RecordInit ==
    /\ \E old \in {{}, LegacyFiles}, status \in {"running", "paused", "terminal"} :
          files = [file \in Files |->
                      IF file \in old THEN [rev |-> 1, status |-> status] ELSE Missing]
    /\ lock = NoOwner
    /\ doing = [p \in RecordProcs |-> "idle"]
    /\ known = [p \in RecordProcs |-> 0]
    /\ sweep = [p \in RecordProcs |-> "none"]
    /\ committed = Loaded.rev
    /\ doomed = FALSE
    /\ fileFaults = 0

FileFault == fileFaults < MaxFileFaults /\ fileFaults' = fileFaults + 1
NoFileFault == UNCHANGED fileFaults
Does(p, what) == doing' = [doing EXCEPT ![p] = what]
LockFree == lock \in {NoOwner, DeadOwner}
Ghosts == <<committed, doomed>>

------------------------------------------------------------------------------
(* A manager: a new run, a resume, or a save on the side by a process that does   *)
(* not execute the run.                                                           *)

Open(p) ==
    /\ doing[p] = "idle" /\ LockFree /\ ~(doomed /\ Loaded = Missing)
    /\ lock' = p
    /\ known' = [known EXCEPT ![p] = Loaded.rev]
    /\ sweep' = [sweep EXCEPT ![p] = "none"]
    /\ Does(p, "owner")
    /\ UNCHANGED <<files, Ghosts, fileFaults>>

\* save(): the revision fence, then the primary file in one rename.
SaveRecord(p) ==
    /\ doing[p] = "owner" /\ lock = p
    /\ known[p] = Loaded.rev /\ Loaded.rev < MaxRevision
    /\ \/ \E status \in {"running", "paused", "terminal"} :
             /\ files' = [files EXCEPT !["run"] = [rev |-> Loaded.rev + 1, status |-> status]]
             /\ known' = [known EXCEPT ![p] = Loaded.rev + 1]
             /\ Does(p, "backup")
             /\ NoFileFault
       \/ UNCHANGED <<files, known, doing>> /\ FileFault
    /\ UNCHANGED <<lock, sweep, Ghosts>>

\* Mutant: the backup is the record before this one.
BackupOf(record) == IF record.rev > 1 THEN [record EXCEPT !.rev = @ - 1] ELSE record

\* The text that went into the primary file.
Backup(record) == record

\* The backup, best effort; only then has save() returned.
SaveBackup(p) ==
    /\ doing[p] = "backup"
    /\ \/ /\ files' = [files EXCEPT !["run.bak"] =
                          Backup(files["run"])]
          /\ NoFileFault
       \/ UNCHANGED files /\ FileFault
    /\ committed' = known[p]
    /\ Does(p, "owner")
    /\ UNCHANGED <<lock, known, sweep, doomed>>

Close(p) ==
    /\ doing[p] = "owner"
    /\ lock' = (IF lock = p THEN NoOwner ELSE lock)
    /\ Does(p, "idle")
    /\ UNCHANGED <<files, known, sweep, Ghosts, fileFaults>>

\* deleteRun() of the manager, by the revision it has in memory.
DeleteRun(p) ==
    /\ doing[p] = "owner" /\ lock = p
    /\ known[p] = Loaded.rev /\ Loaded # Missing
    /\ Does(p, "run")
    /\ UNCHANGED <<files, lock, known, sweep, Ghosts, fileFaults>>

------------------------------------------------------------------------------
(* enforceRetention() and prunePausedRuns(): a listing, then for each candidate   *)
(* the lease, a second look and the deletion.                                     *)

SweepLists(p) ==
    /\ doing[p] = "idle"
    /\ Listed.status \in {"paused", "terminal"}
    /\ sweep' = [sweep EXCEPT ![p] = Listed.status]
    /\ known' = [known EXCEPT ![p] = Listed.rev]
    /\ Does(p, "listed")
    /\ UNCHANGED <<files, lock, Ghosts, fileFaults>>

SweepTakes(p) ==
    /\ doing[p] = "listed"
    /\ IF LockFree
       THEN lock' = p /\ Does(p, "look")
       ELSE UNCHANGED lock /\ Does(p, "idle")
    /\ UNCHANGED <<files, known, sweep, Ghosts, fileFaults>>

\* Mutant: the record is the one that was listed because the lease was free.
ListedIsEnough(p) == Loaded # Missing

\* Retention wants the revision it listed; pruning, a run that is paused (again).
StillWanted(p) ==
    /\ Loaded.status = sweep[p]
    /\ sweep[p] = "terminal" => Loaded.rev = known[p]

SweepLooks(p) ==
    /\ doing[p] = "look"
    /\ IF StillWanted(p)
       THEN Does(p, "run") /\ UNCHANGED lock
       ELSE Does(p, "idle") /\ lock' = NoOwner
    /\ UNCHANGED <<files, known, sweep, Ghosts, fileFaults>>

------------------------------------------------------------------------------
(* deleteRunFiles(): every primary file before any backup, the lock last.         *)

AfterFile(file) ==
    CASE file = "run" -> "legacy"
      [] file = "legacy" -> "run.bak"
      [] file = "run.bak" -> "legacy.bak"
      [] file = "legacy.bak" -> "unlock"

Unlink(p) ==
    /\ doing[p] \in Files
    /\ LET file == doing[p]
       IN \/ /\ files' = [files EXCEPT ![file] = Missing]
             /\ doomed' = TRUE
             /\ Does(p, AfterFile(file))
             /\ UNCHANGED lock /\ NoFileFault
          \/ /\ files[file] # Missing   \* unlink fails: the owner keeps its lease
             /\ FileFault
             /\ IF sweep[p] = "none"
                THEN Does(p, "owner") /\ UNCHANGED lock
                ELSE Does(p, "idle") /\ lock' = NoOwner
             /\ UNCHANGED <<files, doomed>>
    /\ UNCHANGED <<known, sweep, committed>>

DeletionDone(p) ==
    /\ doing[p] = "unlock"
    /\ lock' = (IF lock = p THEN NoOwner ELSE lock)
    /\ Does(p, "idle")
    /\ UNCHANGED <<files, known, sweep, Ghosts, fileFaults>>

------------------------------------------------------------------------------
Deleting(p) == doing[p] \in Files \cup {"unlock"}

(* A process dies and is started anew; the primary file is found truncated.       *)

ProcessDies(p) ==
    /\ doing[p] # "idle"
    /\ lock' = (IF lock = p THEN DeadOwner ELSE lock)
    /\ Does(p, "idle")
    /\ IF Deleting(p) THEN FileFault ELSE NoFileFault
    /\ UNCHANGED <<files, known, sweep, Ghosts>>

Damage ==
    /\ Readable("run") /\ \A p \in RecordProcs : doing[p] \in {"idle", "owner", "listed"}
    /\ files' = [files EXCEPT !["run"] = Torn]
    /\ FileFault
    /\ UNCHANGED <<lock, doing, known, sweep, Ghosts>>

RecordNext ==
    \/ \E p \in RecordProcs :
          \/ Open(p) \/ SaveRecord(p) \/ SaveBackup(p) \/ Close(p) \/ DeleteRun(p)
          \/ SweepLists(p) \/ SweepTakes(p) \/ SweepLooks(p)
          \/ Unlink(p) \/ DeletionDone(p) \/ ProcessDies(p)
    \/ Damage

RecordSpec == RecordInit /\ [][RecordNext]_recordVars

------------------------------------------------------------------------------
(* A sweep unlinks the files of a run only while the record is what the sweep was *)
(* after, terminal or paused, under its lease: not one that another process has   *)
(* resumed, saved or brought back since the listing.                              *)
SweepSparesTheLiving ==
    [][\A p \in RecordProcs :
          sweep[p] # "none" /\ doing[p] = "run" /\ doing'[p] = "legacy"
          => Loaded.status = sweep[p] /\ lock = p]_recordVars

(* One failed write or unlink, one damaged file or one death amid a deletion,     *)
(* with any number of deaths elsewhere, neither loses a record nor brings an older *)
(* one back: while nobody is deleting, load() gives the last revision whose save  *)
(* returned, or a later one - or nothing, after a deletion.                       *)
NewestOrGone ==
    (\A p \in RecordProcs : ~Deleting(p))
    => IF Loaded = Missing THEN doomed \/ committed = 0 ELSE Loaded.rev >= committed
================================================================================
