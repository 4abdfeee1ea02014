----------------------------- MODULE ManagerLease -----------------------------
(***************************************************************************)
(* WebManagerLease (web/security.py): the lock on a file below the state   *)
(* directory that a manager takes in start(), checks before every          *)
(* operation and gives back in close().  The file outlives its holder;     *)
(* the user may remove it, or the directory it is in.                      *)
(***************************************************************************)
EXTENDS Naturals

CONSTANTS
    Managers,        \* processes that start a manager on one state directory
    MaxLeaseEvents   \* bound: removals of the file and deaths of a manager

ASSUME LeaseAssumption == MaxLeaseEvents \in Nat /\ "nobody" \notin Managers

VARIABLES
    leaseFile,    \* the file at the lease path, 0 when there is none
    leaseFiles,   \* files created so far
    flock,        \* who holds the lock of each file
    named,        \* whose metadata each file holds, "nobody" while it is written
    lpc,          \* what each manager does next
    fd, seen,     \* the file each manager opened, and what it saw before
    robbed,       \* running managers whose file was removed
    leaseEvents

leaseVars == <<leaseFile, leaseFiles, flock, named, lpc, fd, seen, robbed, leaseEvents>>

\* A file is created only after the last one was removed.
LeaseFiles == 1..MaxLeaseEvents + 1
NoLease     == <<0, "nobody">>
LeasePc    == {"idle", "opening", "locking", "naming", "verifying", "managing", "operating"}

ManagerLeaseTypeOK ==
    /\ leaseFile \in 0..leaseFiles /\ leaseFiles \in 0..MaxLeaseEvents + 1
    /\ flock \in [LeaseFiles -> Managers \cup {"nobody"}]
    /\ named \in [LeaseFiles -> Managers \cup {"nobody"}]
    /\ lpc \in [Managers -> LeasePc]
    /\ fd \in [Managers -> 0..leaseFiles]
    /\ seen \in [Managers -> Nat \X (Managers \cup {"nobody"})]
    /\ robbed \subseteq Managers /\ leaseEvents \in 0..MaxLeaseEvents

LeaseInit ==
    /\ leaseFile = 0 /\ leaseFiles = 0 /\ robbed = {} /\ leaseEvents = 0
    /\ flock = [f \in LeaseFiles |-> "nobody"] /\ named = [f \in LeaseFiles |-> "nobody"]
    /\ lpc = [m \in Managers |-> "idle"] /\ fd = [m \in Managers |-> 0]
    /\ seen = [m \in Managers |-> NoLease]

Manages(m) == lpc[m] \in {"managing", "operating"}
Sees       == IF leaseFile = 0 THEN NoLease ELSE <<leaseFile, named[leaseFile]>>
LeaseGoes(m, step) == lpc' = [lpc EXCEPT ![m] = step]

\* The path is looked at before it is opened.
StatLease(m) ==
    /\ lpc[m] = "idle"
    /\ seen' = [seen EXCEPT ![m] = Sees]
    /\ LeaseGoes(m, "opening")
    /\ UNCHANGED <<leaseFile, leaseFiles, flock, named, fd, robbed, leaseEvents>>

\* No file: created exclusively.  A file: it must be the one that was seen.
OpenLease(m) ==
    /\ lpc[m] = "opening"
    /\ \/ /\ seen[m] = NoLease /\ leaseFile = 0
          /\ leaseFiles' = leaseFiles + 1 /\ leaseFile' = leaseFiles'
          /\ fd' = [fd EXCEPT ![m] = leaseFiles'] /\ LeaseGoes(m, "locking")
       \/ /\ seen[m] # NoLease /\ Sees = seen[m]
          /\ fd' = [fd EXCEPT ![m] = leaseFile] /\ LeaseGoes(m, "locking")
          /\ UNCHANGED <<leaseFile, leaseFiles>>
       \/ /\ Sees # seen[m]
          /\ LeaseGoes(m, "idle") /\ UNCHANGED <<leaseFile, leaseFiles, fd>>
    /\ UNCHANGED <<flock, named, seen, robbed, leaseEvents>>

\* flock(LOCK_EX | LOCK_NB): another holder ends the start at once.
LockLease(m) ==
    /\ lpc[m] = "locking"
    /\ IF flock[fd[m]] = "nobody"
       THEN flock' = [flock EXCEPT ![fd[m]] = m] /\ LeaseGoes(m, "naming") /\ UNCHANGED fd
       ELSE LeaseGoes(m, "idle") /\ fd' = [fd EXCEPT ![m] = 0] /\ UNCHANGED flock
    /\ UNCHANGED <<leaseFile, leaseFiles, named, seen, robbed, leaseEvents>>

\* The owner's metadata: the file is truncated, then written.
NameLease(m) ==
    /\ lpc[m] = "naming"
    /\ \/ named[fd[m]] # "nobody" /\ named' = [named EXCEPT ![fd[m]] = "nobody"] /\ UNCHANGED lpc
       \/ /\ named[fd[m]] = "nobody" /\ named' = [named EXCEPT ![fd[m]] = m]
          /\ LeaseGoes(m, "verifying")
    /\ UNCHANGED <<leaseFile, leaseFiles, flock, fd, seen, robbed, leaseEvents>>

Unlocked(m) ==
    /\ flock' = [f \in LeaseFiles |-> IF flock[f] = m THEN "nobody" ELSE flock[f]]
    /\ fd' = [fd EXCEPT ![m] = 0] /\ robbed' = robbed \ {m} /\ LeaseGoes(m, "idle")

\* Mutant: the lock is held, so the path is taken for granted.
VerifyNothing(m) ==
    /\ lpc[m] = "verifying"
    /\ LeaseGoes(m, "managing")
    /\ UNCHANGED <<leaseFile, leaseFiles, flock, named, fd, seen, robbed, leaseEvents>>

\* The locked file must be the one at the path; otherwise it is unlocked again.
VerifyLease(m) ==
    /\ lpc[m] = "verifying"
    /\ \/ leaseFile = fd[m] /\ LeaseGoes(m, "managing") /\ UNCHANGED <<flock, fd, robbed>>
       \/ leaseFile # fd[m] /\ Unlocked(m)
    /\ UNCHANGED <<leaseFile, leaseFiles, named, seen, leaseEvents>>

\* _validate_owned_roots: an operation starts only on the file at the path.
BeginOperation(m) ==
    /\ lpc[m] = "managing" /\ leaseFile = fd[m]
    /\ LeaseGoes(m, "operating")
    /\ UNCHANGED <<leaseFile, leaseFiles, flock, named, fd, seen, robbed, leaseEvents>>

EndOperation(m) ==
    /\ lpc[m] = "operating" /\ LeaseGoes(m, "managing")
    /\ UNCHANGED <<leaseFile, leaseFiles, flock, named, fd, seen, robbed, leaseEvents>>

\* close(), or the failure of start(): the file stays.
ReleaseLease(m) ==
    /\ lpc[m] = "managing" /\ Unlocked(m)
    /\ UNCHANGED <<leaseFile, leaseFiles, named, seen, leaseEvents>>

LeaseEvent == leaseEvents < MaxLeaseEvents /\ leaseEvents' = leaseEvents + 1

\* The kernel drops the lock of a process that dies.
ManagerDies(m) ==
    /\ lpc[m] # "idle" /\ LeaseEvent /\ Unlocked(m)
    /\ UNCHANGED <<leaseFile, leaseFiles, named, seen>>

\* The user deletes the file, or moves the state directory away.
RemoveLease ==
    /\ leaseFile # 0 /\ LeaseEvent
    /\ leaseFile' = 0
    /\ robbed' = robbed \cup {m \in Managers : Manages(m) /\ fd[m] = leaseFile}
    /\ UNCHANGED <<leaseFiles, flock, named, lpc, fd, seen>>

LeaseStep(m) ==
    \/ StatLease(m) \/ OpenLease(m) \/ LockLease(m) \/ NameLease(m) \/ VerifyLease(m)
    \/ BeginOperation(m) \/ EndOperation(m) \/ ReleaseLease(m) \/ ManagerDies(m)

LeaseNext == RemoveLease \/ \E m \in Managers : LeaseStep(m)
LeaseSpec == LeaseInit /\ [][LeaseNext]_leaseVars

-----------------------------------------------------------------------------
(* Properties *)

\* However starts, deaths and removals interleave: of the managers whose file
\* nobody removed while they ran, one at most runs, and the file names it.
LeaseIsExclusive ==
    \A m \in Managers : Manages(m) /\ m \notin robbed =>
        /\ leaseFile = fd[m] /\ named[fd[m]] = m
        /\ \A n \in Managers : Manages(n) /\ n \notin robbed => n = m

=============================================================================
