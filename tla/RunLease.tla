-------------------------------- MODULE RunLease --------------------------------
(***************************************************************************)
(* The lease of one run: the lock file of src/src/run-persistence.ts and   *)
(* the record it protects, at the granularity of the system calls of       *)
(* acquireRunLease(), releaseRunLease() and save().  Each of these         *)
(* functions is synchronous, so a process is inside at most one of them,   *)
(* but processes interleave between any two system calls.                  *)
(*                                                                         *)
(* link(2) publishes a lock file whole, with a token its writer has just   *)
(* made.  A process asks for a lease only when it has none, so the process *)
(* stands for its current token.  A Pi that is started again after a crash *)
(* is another process: its pid, or its nonce, differs.                     *)
(***************************************************************************)
EXTENDS FiniteSets, Naturals

CONSTANTS
    Procs,          \* processes that share the runs directory
    NoLock,         \* the lock file does not exist
    MaxCrashes,     \* bound: processes that die
    MaxRevision     \* bound: saves of the record

ASSUME LeaseAssumption ==
    /\ IsFiniteSet(Procs)
    /\ NoLock \notin Procs
    /\ MaxCrashes \in Nat
    /\ MaxRevision \in Nat

VARIABLES
    lock,       \* the writer of the lock file, or NoLock
    revision,   \* revision of the record on disk, 0 without one
    dead,       \* processes that have died
    pc,         \* where each process is
    attempt,    \* its round of the loop of acquireRunLease()
    leased,     \* processes that hold a lease
    known       \* the revision each believes current, its fence

locals == <<pc, attempt, leased, known>>
leaseVars == <<lock, revision, dead, locals>>

Points == {"idle", "link", "exists", "read", "unlink",      \* acquireRunLease()
           "readOwn", "unlinkOwn",                          \* releaseRunLease()
           "checkOwn", "readRecord", "rename"}              \* save()

LeaseTypeOK ==
    /\ lock \in Procs \union {NoLock}
    /\ revision \in 0 .. MaxRevision
    /\ dead \in SUBSET Procs
    /\ pc \in [Procs -> Points]
    /\ attempt \in [Procs -> {1, 2}]
    /\ leased \in SUBSET Procs
    /\ known \in [Procs -> 0 .. MaxRevision]

LeaseInit ==
    /\ lock = NoLock
    /\ revision = 0
    /\ dead = {}
    /\ pc = [p \in Procs |-> "idle"]
    /\ attempt = [p \in Procs |-> 1]
    /\ leased = {}
    /\ known = [p \in Procs |-> 0]

----------------------------------------------------------------------------
At(p, point) == p \notin dead /\ pc[p] = point
Goto(p, point) == pc' = [pc EXCEPT ![p] = point]

\* acquireRunLease().
Acquire(p) ==
    /\ At(p, "idle")
    /\ p \notin leased
    /\ attempt' = [attempt EXCEPT ![p] = 1]
    /\ Goto(p, "link")
    /\ UNCHANGED <<lock, revision, dead, leased, known>>

\* The second round of its loop, or null after it.
TryAgain(p) ==
    /\ attempt' = [attempt EXCEPT ![p] = 2]
    /\ Goto(p, IF attempt[p] = 1 THEN "link" ELSE "idle")

\* linkSync() succeeds, or fails with EEXIST.  A caller that takes the run over
\* reads the record next; one that only saves its progress does not.
Link(p) ==
    /\ At(p, "link")
    /\ lock = NoLock
    /\ lock' = p
    /\ leased' = leased \union {p}
    /\ \E k \in {known[p], revision} : known' = [known EXCEPT ![p] = k]
    /\ Goto(p, "idle")
    /\ UNCHANGED <<revision, dead, attempt>>

LinkFails(p) ==
    /\ At(p, "link")
    /\ lock # NoLock
    /\ Goto(p, "exists")
    /\ UNCHANGED <<lock, revision, dead, attempt, leased, known>>

\* existsSync(): a lock that has gone meanwhile costs one round.
Exists(p) ==
    /\ At(p, "exists")
    /\ IF lock = NoLock THEN TryAgain(p) ELSE Goto(p, "read") /\ attempt' = attempt
    /\ UNCHANGED <<lock, revision, dead, leased, known>>

\* Mutant: any lock in the way ends the attempt.
ReadLockGivesUp(p) ==
    /\ At(p, "read")
    /\ Goto(p, "idle")
    /\ UNCHANGED <<lock, revision, dead, attempt, leased, known>>

\* readLock() and lockOwnerIsStale(): null unless the owner is dead.
ReadLock(p) ==
    /\ At(p, "read")
    /\ Goto(p, IF lock \in dead THEN "unlink" ELSE "idle")
    /\ UNCHANGED <<lock, revision, dead, attempt, leased, known>>

\* unlinkSync() removes the file that is there now, or fails with ENOENT.
Unlink(p) ==
    /\ At(p, "unlink")
    /\ IF lock = NoLock THEN Goto(p, "idle") /\ attempt' = attempt ELSE TryAgain(p)
    /\ lock' = NoLock
    /\ UNCHANGED <<revision, dead, leased, known>>

\* releaseRunLease(): the token is compared, then the file is removed.
ReleaseLease(p) ==
    /\ At(p, "idle")
    /\ p \in leased
    /\ Goto(p, "readOwn")
    /\ UNCHANGED <<lock, revision, dead, attempt, leased, known>>

ReadOwn(p) ==
    /\ At(p, "readOwn")
    /\ IF lock = p THEN Goto(p, "unlinkOwn") /\ leased' = leased
                   ELSE Goto(p, "idle") /\ leased' = leased \ {p}
    /\ UNCHANGED <<lock, revision, dead, attempt, known>>

UnlinkOwn(p) ==
    /\ At(p, "unlinkOwn")
    /\ lock' = NoLock
    /\ leased' = leased \ {p}
    /\ Goto(p, "idle")
    /\ UNCHANGED <<revision, dead, attempt, known>>

\* save() under a lease compares the token, then the revision, then renames the
\* new record into place; it throws when one of the comparisons fails.
Save(p) ==
    /\ At(p, "idle")
    /\ p \in leased
    /\ revision < MaxRevision
    /\ Goto(p, "checkOwn")
    /\ UNCHANGED <<lock, revision, dead, attempt, leased, known>>

CheckOwn(p) ==
    /\ At(p, "checkOwn")
    /\ Goto(p, IF lock = p THEN "readRecord" ELSE "idle")
    /\ UNCHANGED <<lock, revision, dead, attempt, leased, known>>

\* Mutant: no revision fence.
ReadRecordUnfenced(p) ==
    /\ At(p, "readRecord")
    /\ Goto(p, "rename")
    /\ UNCHANGED <<lock, revision, dead, attempt, leased, known>>

ReadRecord(p) ==
    /\ At(p, "readRecord")
    /\ Goto(p, IF revision = known[p] THEN "rename" ELSE "idle")
    /\ UNCHANGED <<lock, revision, dead, attempt, leased, known>>

Rename(p) ==
    /\ At(p, "rename")
    /\ known[p] < MaxRevision
    /\ revision' = known[p] + 1
    /\ known' = [known EXCEPT ![p] = known[p] + 1]
    /\ Goto(p, "idle")
    /\ UNCHANGED <<lock, dead, attempt, leased>>

\* A process dies between two system calls; the files stay as they are.
Crash(p) ==
    /\ p \notin dead
    /\ Cardinality(dead) < MaxCrashes
    /\ dead' = dead \union {p}
    /\ leased' = leased \ {p}
    /\ UNCHANGED <<lock, revision, pc, attempt, known>>

SystemCall(p) ==
    \/ Link(p) \/ LinkFails(p) \/ Exists(p) \/ ReadLock(p) \/ Unlink(p)
    \/ ReadOwn(p) \/ UnlinkOwn(p)
    \/ CheckOwn(p) \/ ReadRecord(p) \/ Rename(p)

LeaseNext ==
    \E p \in Procs :
        SystemCall(p) \/ Acquire(p) \/ ReleaseLease(p) \/ Save(p) \/ Crash(p)

\* A living process that is inside one of the functions gets to its end.
LeaseFairness == \A p \in Procs : WF_leaseVars(SystemCall(p))

LeaseSpec == LeaseInit /\ [][LeaseNext]_leaseVars /\ LeaseFairness

----------------------------------------------------------------------------
\* acquireRunLease() is documented as "an exclusive cross-process lease for a
\* run": no two living processes hold it, or both execute the run.
LeaseExclusive == \A p, q \in leased : p = q

\* A holder keeps its lock file until it removes it itself: neither the removal
\* of a stale lock nor a release by token hits a living holder's file, although
\* both read the file in one system call and remove it in another.
HolderKeepsLock == \A p \in leased : lock = p

\* A record is only replaced by one derived from it: the token check, the
\* revision fence and the rename of save() are three steps, and no other save
\* gets in between.
NoLostUpdate == [][revision' # revision => revision' = revision + 1]_leaseVars

\* The lock of a dead process blocks nobody for good: a survivor that keeps
\* asking for the lease gets past it.
DeadLockYields ==
    \A p, q \in Procs :
        ([]<>At(q, "link")) => [](lock = p /\ p \in dead => <>(lock # p))
=============================================================================
