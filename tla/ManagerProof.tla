----------------------------- MODULE ManagerProof -----------------------------
(*****************************************************************************)
(* What the parts around the job manager promise, for every value of the     *)
(* constants: the manager lease, the atomic writes, the owned paths and the  *)
(* contained commands; what clients see of a job, and what becomes of its    *)
(* workspace; and the cache of map tiles.                                    *)
(*****************************************************************************)
EXTENDS ManagerLease, AtomicPublish, OwnedPaths, ContainedCommand,
        JobProgress, JobViews, BackupRestore, ReferenceTiles,
        FiniteSetTheorems, TLAPS

-----------------------------------------------------------------------------
(*****************************************************************************)
(* The manager lease: one manager at a time on a state directory, for any    *)
(* set of managers and any number of deaths and removals of the lease file.  *)
(*****************************************************************************)

\* A manager past the open call has a file; one past flock holds its lock.
Holds(m)  == lpc[m] \in {"naming", "verifying", "managing", "operating"}
FileOpen  == \A m \in Managers : lpc[m] \notin {"idle", "opening"} => fd[m] # 0
LockHeld  == \A m \in Managers : Holds(m) => flock[fd[m]] = m
\* The metadata of a verified lease names its holder.
NamedSelf == \A m \in Managers : Holds(m) /\ lpc[m] # "naming" => named[fd[m]] = m
\* A file is created for each removal at most, and once more.
OnePerRemoval == leaseFiles <= IF leaseFile = 0 THEN leaseEvents ELSE leaseEvents + 1
\* A running manager has the file at the path, unless it was taken from it.
RunsOnFile ==
    \A m \in Managers : Manages(m) /\ m \notin robbed => fd[m] = leaseFile

LeaseInv ==
    /\ ManagerLeaseTypeOK /\ OnePerRemoval
    /\ FileOpen /\ LockHeld /\ NamedSelf /\ RunsOnFile

LEMMA LeaseInitial == LeaseInit => LeaseInv
  BY LeaseAssumption
     DEF LeaseInit, LeaseInv, ManagerLeaseTypeOK, OnePerRemoval, FileOpen, LockHeld, NamedSelf,
         RunsOnFile, Holds, Manages, LeaseFiles, LeasePc, NoLease

\* Whoever has opened a lease has one of the files.
LEMMA OpenFileExists ==
    ASSUME LeaseInv, NEW m \in Managers, lpc[m] \notin {"idle", "opening"}
    PROVE  fd[m] \in LeaseFiles
  BY LeaseAssumption DEF LeaseInv, ManagerLeaseTypeOK, FileOpen, LeaseFiles

\* Unlocking takes a manager's locks and file from it and changes nothing else.
LEMMA UnlockEffect ==
    ASSUME LeaseInv, NEW m \in Managers, Unlocked(m)
    PROVE  /\ flock' \in [LeaseFiles -> Managers \cup {"nobody"}]
           /\ fd' \in [Managers -> 0..leaseFiles]
           /\ lpc' \in [Managers -> LeasePc] /\ robbed' \subseteq Managers
           /\ lpc'[m] = "idle"
           /\ \A n \in Managers \ {m} :
                 /\ lpc'[n] = lpc[n] /\ fd'[n] = fd[n] /\ (n \in robbed' <=> n \in robbed)
                 /\ Holds(n) => flock'[fd[n]] = flock[fd[n]]
  <1> USE DEF LeaseInv, ManagerLeaseTypeOK
  <1>1. flock' \in [LeaseFiles -> Managers \cup {"nobody"}]
    BY DEF Unlocked
  <1>2. fd' \in [Managers -> 0..leaseFiles]
    BY DEF Unlocked
  <1>3. lpc' \in [Managers -> LeasePc] /\ robbed' \subseteq Managers /\ lpc'[m] = "idle"
    BY DEF Unlocked, LeaseGoes, LeasePc
  <1>4. ASSUME NEW n \in Managers \ {m}
        PROVE  /\ lpc'[n] = lpc[n] /\ fd'[n] = fd[n] /\ (n \in robbed' <=> n \in robbed)
               /\ Holds(n) => flock'[fd[n]] = flock[fd[n]]
    <2>1. lpc'[n] = lpc[n] /\ fd'[n] = fd[n] /\ (n \in robbed' <=> n \in robbed)
      BY <1>4 DEF Unlocked, LeaseGoes
    <2>2. Holds(n) => fd[n] \in LeaseFiles /\ flock[fd[n]] = n
      BY OpenFileExists DEF Holds, LockHeld
    <2> QED
      BY <2>1, <2>2 DEF Unlocked
  <1> QED
    BY <1>1, <1>2, <1>3, <1>4

\* A step keeps the types and makes a file only where there is none.
LEMMA LeaseTypes ==
    ASSUME LeaseInv, [LeaseNext]_leaseVars PROVE ManagerLeaseTypeOK' /\ OnePerRemoval'
  <1> USE LeaseAssumption DEF LeaseInv, ManagerLeaseTypeOK, OnePerRemoval
  <1>1. CASE UNCHANGED leaseVars
    BY <1>1 DEF leaseVars
  <1>2. CASE RemoveLease
    BY <1>2 DEF RemoveLease, LeaseEvent
  <1>3. ASSUME NEW m \in Managers, StatLease(m) PROVE ManagerLeaseTypeOK' /\ OnePerRemoval'
    <2>1. Sees \in Nat \X (Managers \cup {"nobody"})
      BY DEF Sees, NoLease, LeaseFiles
    <2> QED
      BY <1>3, <2>1 DEF StatLease, LeaseGoes, LeasePc
  <1>4. ASSUME NEW m \in Managers, OpenLease(m) PROVE ManagerLeaseTypeOK' /\ OnePerRemoval'
    <2>1. /\ leaseFiles' \in {leaseFiles, leaseFiles + 1}
          /\ leaseFile' \in 0..leaseFiles' /\ leaseFiles' \in 0..MaxLeaseEvents + 1
          /\ OnePerRemoval'
      BY <1>4 DEF OpenLease
    <2>2. fd' = fd \/ \E f \in 0..leaseFiles' : fd' = [fd EXCEPT ![m] = f]
      BY <1>4, <2>1 DEF OpenLease
    <2>3. fd' \in [Managers -> 0..leaseFiles']
      BY <2>1, <2>2
    <2>4. lpc' \in [Managers -> LeasePc]
      BY <1>4 DEF OpenLease, LeaseGoes, LeasePc
    <2> QED
      BY <1>4, <2>1, <2>3, <2>4 DEF OpenLease
  <1>5. ASSUME NEW m \in Managers, LockLease(m) PROVE ManagerLeaseTypeOK' /\ OnePerRemoval'
    <2>1. flock' \in [LeaseFiles -> Managers \cup {"nobody"}]
      BY <1>5 DEF LockLease
    <2>2. fd' \in [Managers -> 0..leaseFiles]
      BY <1>5 DEF LockLease
    <2>3. lpc' \in [Managers -> LeasePc]
      BY <1>5 DEF LockLease, LeaseGoes, LeasePc
    <2> QED
      BY <1>5, <2>1, <2>2, <2>3 DEF LockLease
  <1>6. ASSUME NEW m \in Managers, NameLease(m) PROVE ManagerLeaseTypeOK' /\ OnePerRemoval'
    <2>1. named' \in [LeaseFiles -> Managers \cup {"nobody"}]
      BY <1>6 DEF NameLease
    <2>2. lpc' \in [Managers -> LeasePc]
      BY <1>6 DEF NameLease, LeaseGoes, LeasePc
    <2> QED
      BY <1>6, <2>1, <2>2 DEF NameLease
  <1>7. ASSUME NEW m \in Managers, VerifyLease(m) \/ ReleaseLease(m) \/ ManagerDies(m),
               Unlocked(m)
        PROVE  ManagerLeaseTypeOK' /\ OnePerRemoval'
    BY <1>7, UnlockEffect DEF VerifyLease, ReleaseLease, ManagerDies, LeaseEvent
  <1>8. ASSUME NEW m \in Managers,
               (VerifyLease(m) /\ ~ Unlocked(m)) \/ BeginOperation(m) \/ EndOperation(m)
        PROVE  ManagerLeaseTypeOK' /\ OnePerRemoval'
    <2>1. lpc' \in [Managers -> LeasePc]
      BY <1>8 DEF VerifyLease, BeginOperation, EndOperation, LeaseGoes, LeasePc
    <2> QED
      BY <1>8, <2>1 DEF VerifyLease, BeginOperation, EndOperation
  <1> HIDE DEF LeaseInv, ManagerLeaseTypeOK, OnePerRemoval
  <1>9. ASSUME NEW m \in Managers, LeaseStep(m) PROVE ManagerLeaseTypeOK' /\ OnePerRemoval'
    <2>1. ReleaseLease(m) \/ ManagerDies(m) => Unlocked(m)
      BY DEF ReleaseLease, ManagerDies
    <2> QED
      BY <1>9, <2>1, <1>3, <1>4, <1>5, <1>6, <1>7, <1>8 DEF LeaseStep
  <1> QED
    BY <1>1, <1>2, <1>9 DEF LeaseNext

\* The lock of a file and its metadata are touched by its holder alone.
LEMMA LeaseLocks ==
    ASSUME LeaseInv, [LeaseNext]_leaseVars
    PROVE  FileOpen' /\ LockHeld' /\ NamedSelf' /\ RunsOnFile'
  <1> USE DEF LeaseInv, FileOpen, LockHeld, NamedSelf, RunsOnFile, Holds, Manages
  <1> DEFINE Goal == FileOpen' /\ LockHeld' /\ NamedSelf' /\ RunsOnFile'
  <1>1. CASE UNCHANGED leaseVars
    BY <1>1 DEF leaseVars
  <1>2. CASE RemoveLease
    BY <1>2 DEF RemoveLease
  <1>3. ASSUME NEW m \in Managers, StatLease(m) PROVE Goal
    BY <1>3 DEF StatLease, LeaseGoes, ManagerLeaseTypeOK
  <1>4. ASSUME NEW m \in Managers, OpenLease(m) PROVE Goal
    <2>1. \A n \in Managers : n # m => lpc'[n] = lpc[n] /\ fd'[n] = fd[n]
      BY <1>4 DEF OpenLease, LeaseGoes, ManagerLeaseTypeOK
    <2>2. lpc'[m] \in {"locking", "idle"} /\ (lpc'[m] = "locking" => fd'[m] # 0)
      <3>1. Sees = seen[m] /\ seen[m] # NoLease => leaseFile # 0
        BY DEF Sees
      <3> QED
        BY <1>4, <3>1, LeaseAssumption DEF OpenLease, LeaseGoes, ManagerLeaseTypeOK
    <2>3. flock' = flock /\ named' = named /\ robbed' = robbed
      BY <1>4 DEF OpenLease
    <2>4. leaseFile # 0 => leaseFile' = leaseFile
      BY <1>4 DEF OpenLease
    <2> QED
      BY <2>1, <2>2, <2>3, <2>4
  <1>5. ASSUME NEW m \in Managers, LockLease(m) PROVE Goal
    <2>1. \A n \in Managers \ {m} : lpc'[n] = lpc[n] /\ fd'[n] = fd[n]
      BY <1>5 DEF LockLease, LeaseGoes, ManagerLeaseTypeOK
    <2>2. fd[m] \in LeaseFiles /\ \A n \in Managers : Holds(n) => fd[n] \in LeaseFiles
      BY <1>5, OpenFileExists DEF LockLease
    <2>3. \A n \in Managers \ {m} : Holds(n) => flock'[fd[n]] = n
      BY <1>5, <2>2, LeaseAssumption DEF LockLease, ManagerLeaseTypeOK
    <2>4. \/ lpc'[m] = "idle"
          \/ lpc'[m] = "naming" /\ fd'[m] = fd[m] /\ flock'[fd[m]] = m
      BY <1>5, <2>2 DEF LockLease, LeaseGoes, ManagerLeaseTypeOK
    <2>5. leaseFile' = leaseFile /\ named' = named /\ robbed' = robbed /\ fd[m] # 0
      BY <1>5 DEF LockLease
    <2> QED
      BY <2>1, <2>3, <2>4, <2>5
  <1>6. ASSUME NEW m \in Managers, NameLease(m) PROVE Goal
    <2>1. \A n \in Managers \ {m} : lpc'[n] = lpc[n] /\ (Holds(n) => fd[n] # fd[m])
      BY <1>6 DEF NameLease, LeaseGoes, ManagerLeaseTypeOK
    <2>2. fd[m] \in LeaseFiles /\ \A n \in Managers : Holds(n) => fd[n] \in LeaseFiles
      BY <1>6, OpenFileExists DEF NameLease
    <2>3. \A n \in Managers \ {m} : Holds(n) => named'[fd[n]] = named[fd[n]]
      BY <1>6, <2>1, <2>2 DEF NameLease, ManagerLeaseTypeOK
    <2>4. lpc'[m] = "naming" \/ (lpc'[m] = "verifying" /\ named'[fd[m]] = m)
      <3>1. CASE UNCHANGED lpc
        BY <1>6, <3>1 DEF NameLease
      <3>2. CASE named' = [named EXCEPT ![fd[m]] = m] /\ LeaseGoes(m, "verifying")
        BY <2>2, <3>2 DEF LeaseGoes, ManagerLeaseTypeOK
      <3> QED
        BY <1>6, <3>1, <3>2 DEF NameLease
    <2>5. /\ leaseFile' = leaseFile /\ flock' = flock /\ fd' = fd /\ robbed' = robbed
          /\ lpc[m] = "naming"
      BY <1>6 DEF NameLease
    <2> QED
      BY <2>1, <2>3, <2>4, <2>5
  <1>7. ASSUME NEW m \in Managers, VerifyLease(m) \/ ReleaseLease(m) \/ ManagerDies(m),
               Unlocked(m)
        PROVE  Goal
    <2>1. leaseFile' = leaseFile /\ named' = named
      BY <1>7 DEF VerifyLease, ReleaseLease, ManagerDies
    <2> QED
      BY <1>7, <2>1, UnlockEffect
  <1>8. ASSUME NEW m \in Managers,
               (VerifyLease(m) /\ ~ Unlocked(m)) \/ BeginOperation(m) \/ EndOperation(m)
        PROVE  Goal
    <2>1. \A n \in Managers \ {m} : lpc'[n] = lpc[n]
      BY <1>8 DEF VerifyLease, BeginOperation, EndOperation, LeaseGoes, ManagerLeaseTypeOK
    <2>2. /\ lpc[m] \in {"verifying", "managing", "operating"}
          /\ lpc'[m] \in {"managing", "operating"}
          /\ lpc[m] = "verifying" => fd[m] = leaseFile
      BY <1>8 DEF VerifyLease, BeginOperation, EndOperation, LeaseGoes, ManagerLeaseTypeOK
    <2>3. UNCHANGED <<leaseFile, flock, named, fd, robbed>>
      BY <1>8 DEF VerifyLease, BeginOperation, EndOperation
    <2> QED
      BY <2>1, <2>2, <2>3
  <1> HIDE DEF LeaseInv, FileOpen, LockHeld, NamedSelf, RunsOnFile, Holds, Manages, Goal
  <1>9. ASSUME NEW m \in Managers, LeaseStep(m) PROVE Goal
    <2>1. ReleaseLease(m) \/ ManagerDies(m) => Unlocked(m)
      BY DEF ReleaseLease, ManagerDies
    <2> QED
      BY <1>9, <2>1, <1>3, <1>4, <1>5, <1>6, <1>7, <1>8 DEF LeaseStep
  <1> QED
    BY <1>1, <1>2, <1>9 DEF LeaseNext, Goal

\* The invariant of WebManagerLease: what acquire() checked before and after its
\* flock stays true of every manager that relies on it.
THEOREM LeaseInvariant == LeaseSpec => []LeaseInv
  BY LeaseInitial, LeaseTypes, LeaseLocks, PTL DEF LeaseSpec, LeaseInv

\* The state of the lease keeps its types (WebManagerLease).
THEOREM LeaseTypeCorrect == LeaseSpec => []ManagerLeaseTypeOK
  BY LeaseInvariant, PTL DEF LeaseInv

\* Two managers never run on one state directory (acquire and _validate_held),
\* unless the file of a running one was removed.
THEOREM LeaseIsExclusiveAlways == LeaseSpec => []LeaseIsExclusive
  <1>1. LeaseInv => LeaseIsExclusive
    <2> SUFFICES ASSUME LeaseInv, NEW m \in Managers, Manages(m), m \notin robbed
        PROVE  /\ leaseFile = fd[m] /\ named[fd[m]] = m
               /\ \A n \in Managers : Manages(n) /\ n \notin robbed => n = m
      BY DEF LeaseIsExclusive
    <2>1. fd[m] = leaseFile /\ Holds(m) /\ lpc[m] # "naming"
      BY DEF LeaseInv, RunsOnFile, Holds, Manages
    <2>2. ASSUME NEW n \in Managers, Manages(n), n \notin robbed PROVE n = m
      <3>1. fd[n] = leaseFile /\ Holds(n)
        BY <2>2 DEF LeaseInv, RunsOnFile, Holds, Manages
      <3> QED
        BY <2>1, <3>1 DEF LeaseInv, LockHeld
    <2> QED
      BY <2>1, <2>2 DEF LeaseInv, NamedSelf
  <1> QED
    BY <1>1, LeaseInvariant, PTL

-----------------------------------------------------------------------------
(*****************************************************************************)
(* Atomic writes: what a path names, for any number of writers, failures,    *)
(* deaths and power losses.                                                  *)
(*****************************************************************************)

\* What a writer has reached before its rename.
Ready ==
    \A w \in Writers :
        /\ wpc[w] = "syncing" => content[w] = "whole"
        /\ wpc[w] = "renaming" => content[w] = "whole" /\ onDisk[w] = "whole"

\* A writer that has not renamed is named nowhere.
BeforeRename == {"idle", "writing", "syncing", "renaming", "removing"}
Unnamed ==
    \A w \in Writers :
        wpc[w] \in BeforeRename \/ (w \in Owned /\ wpc[w] = "failed")
            => turn[w] = 0 /\ w \notin mayRemain

\* Whatever may come back after a power loss is some writer's, or the last rename
\* that a writer in between has seen.
Later(w, e) == e \in Writers /\ turn[e] >= turn[w]
InOrder ==
    \A w \in Writers :
        /\ wpc[w] \in {"looking", "settling"} => Later(w, entry)
        /\ wpc[w] = "done" => \A e \in mayRemain : Later(w, e)

PublishInv == AtomicPublishTypeOK /\ PublishedIsWhole /\ Ready /\ Unnamed /\ InOrder

LEMMA PublishInitial == PublishInit => PublishInv
  BY PublishAssumption
     DEF PublishInit, PublishInv, AtomicPublishTypeOK, PublishedIsWhole, Ready, Unnamed,
         InOrder, BeforeRename, PublishPc

-----------------------------------------------------------------------------
(* One writer *)

\* A step before or after the rename changes what the writer has, never what the
\* path names, except that a synced directory forgets what it named before.
QuietStep(w) ==
    \/ CreateTemporary(w) \/ WriteData(w) \/ SyncData(w) \/ LookBack(w) \/ SyncParent(w)
    \/ RemoveTemporary(w) \/ WriterDies(w)

LEMMA QuietEffect ==
    ASSUME PublishInv, NEW w \in Writers, QuietStep(w)
    PROVE  /\ UNCHANGED <<entry, renames, turn>>
           /\ mayRemain' = mayRemain \/ (mayRemain' = {entry} /\ wpc[w] = "settling")
           /\ temporary' \subseteq Writers
           /\ publishFaults' \in 0..MaxPublishFaults
           /\ \E s \in PublishPc : wpc' = [wpc EXCEPT ![w] = s]
           /\ \/ content' = content
              \/ /\ wpc[w] = "writing"
                 /\ \E c \in {"part", "whole"} : content' = [content EXCEPT ![w] = c]
           /\ onDisk' = onDisk
              \/ (wpc[w] = "syncing" /\ onDisk' = [onDisk EXCEPT ![w] = content[w]])
           /\ wpc'[w] = "syncing" => content'[w] = "whole"
           /\ wpc'[w] = "renaming" => content'[w] = "whole" /\ onDisk'[w] = "whole"
           /\ wpc'[w] \in BeforeRename => wpc[w] \in BeforeRename
           /\ w \in Owned /\ wpc'[w] = "failed" => wpc[w] = "removing"
           /\ wpc'[w] # "looking"
           /\ wpc'[w] = "settling" => entry = w
           /\ wpc'[w] = "done" => wpc[w] = "settling" /\ mayRemain' = {entry}
  <1> USE PublishAssumption
      DEF PublishInv, AtomicPublishTypeOK, PublishPc, BeforeRename, WriterGoes, PublishFault
  <1>1. CASE CreateTemporary(w)
    BY <1>1 DEF CreateTemporary
  <1>2. CASE WriteData(w)
    BY <1>2 DEF WriteData
  <1>3. CASE SyncData(w)
    BY <1>3 DEF SyncData, Ready
  <1>4. CASE LookBack(w)
    BY <1>4 DEF LookBack
  <1>5. CASE SyncParent(w)
    BY <1>5 DEF SyncParent
  <1>6. CASE RemoveTemporary(w)
    BY <1>6 DEF RemoveTemporary
  <1>7. CASE WriterDies(w)
    BY <1>7 DEF WriterDies
  <1> HIDE DEF PublishInv, AtomicPublishTypeOK, PublishPc, BeforeRename
  <1> QED
    BY <1>1, <1>2, <1>3, <1>4, <1>5, <1>6, <1>7 DEF QuietStep

LEMMA QuietKeeps ==
    ASSUME PublishInv, NEW w \in Writers, QuietStep(w) PROVE PublishInv'
  <1> USE DEF PublishInv, AtomicPublishTypeOK
  <1>1. PICK s \in PublishPc : wpc' = [wpc EXCEPT ![w] = s]
    BY QuietEffect
  <1>2. \A v \in Writers \ {w} : /\ wpc'[v] = wpc[v]
                                 /\ content'[v] = content[v] /\ onDisk'[v] = onDisk[v]
    BY <1>1, QuietEffect
  <1>3. /\ UNCHANGED <<entry, renames, turn>>
        /\ mayRemain' \subseteq mayRemain /\ entry \in mayRemain'
    BY QuietEffect
  <1>4. AtomicPublishTypeOK'
    <2>1. wpc' \in [Writers -> PublishPc]
      BY <1>1
    <2>2. content' \in [Writers -> {"none", "part", "whole"}]
      BY QuietEffect
    <2>3. onDisk' \in [Writers -> {"none", "part", "whole"}]
      BY QuietEffect
    <2>4. temporary' \subseteq Writers /\ publishFaults' \in 0..MaxPublishFaults
      BY QuietEffect
    <2> QED
      BY <1>3, <2>1, <2>2, <2>3, <2>4
  <1>5. PublishedIsWhole'
    <2>1. w \in mayRemain => content'[w] = content[w] /\ onDisk'[w] = onDisk[w]
      BY QuietEffect DEF Unnamed, BeforeRename
    <2> QED
      BY <1>2, <1>3, <2>1 DEF PublishedIsWhole
  <1>6. Ready'
    BY <1>2, QuietEffect DEF Ready
  <1>7. Unnamed'
    <2>1. wpc'[w] \in BeforeRename \/ (w \in Owned /\ wpc'[w] = "failed")
              => wpc[w] \in BeforeRename
      BY QuietEffect DEF BeforeRename
    <2> QED
      BY <1>2, <1>3, <2>1 DEF Unnamed
  <1>8. InOrder'
    <2>1. \A v \in Writers \ {w} :
              /\ wpc'[v] \in {"looking", "settling"} => Later(v, entry)'
              /\ wpc'[v] = "done" => \A e \in mayRemain' : Later(v, e)'
      BY <1>2, <1>3 DEF InOrder, Later
    <2>2. wpc'[w] = "settling" => Later(w, entry)'
      BY <1>3, QuietEffect DEF Later
    <2>3. wpc'[w] = "done" => \A e \in mayRemain' : Later(w, e)'
      BY <1>3, QuietEffect DEF InOrder, Later
    <2> QED
      BY <2>1, <2>2, <2>3, QuietEffect DEF InOrder
  <1> QED
    BY <1>4, <1>5, <1>6, <1>7, <1>8

\* A rename names a whole and synced file, later than every other.
LEMMA PublishKeeps ==
    ASSUME PublishInv, NEW w \in Writers, Publish(w) PROVE PublishInv'
  <1> USE PublishAssumption DEF PublishInv, AtomicPublishTypeOK
  <1>1. CASE wpc'[w] = "removing"
    <2>1. /\ UNCHANGED <<entry, mayRemain, renames, turn, temporary, content, onDisk>>
          /\ wpc' = [wpc EXCEPT ![w] = "removing"] /\ wpc[w] = "renaming"
          /\ publishFaults' \in 0..MaxPublishFaults
      BY <1>1 DEF Publish, WriterGoes, PublishFault
    <2>2. wpc' \in [Writers -> PublishPc] /\ \A v \in Writers \ {w} : wpc'[v] = wpc[v]
      BY <2>1 DEF PublishPc
    <2>3. Unnamed'
      BY <1>1, <2>1, <2>2 DEF Unnamed, BeforeRename
    <2> QED
      BY <1>1, <2>1, <2>2, <2>3 DEF PublishedIsWhole, Ready, InOrder, Later
  <1>2. CASE wpc'[w] # "removing"
    <2>1. /\ wpc[w] = "renaming" /\ UNCHANGED <<content, onDisk, publishFaults>>
          /\ entry' = w /\ mayRemain' = mayRemain \cup {w} /\ temporary' = temporary \ {w}
          /\ renames' = renames + 1 /\ turn' = [turn EXCEPT ![w] = renames + 1]
          /\ wpc' = [wpc EXCEPT ![w] = IF w \in Owned THEN "looking" ELSE "settling"]
      BY <1>2 DEF Publish, WriterGoes
    <2>2. /\ wpc' \in [Writers -> PublishPc] /\ wpc'[w] \in {"looking", "settling"}
          /\ \A v \in Writers \ {w} : wpc'[v] = wpc[v]
      BY <2>1 DEF PublishPc
    <2>3. /\ turn' \in [Writers -> 0..renames'] /\ turn'[w] = renames + 1
          /\ \A v \in Writers \ {w} : turn'[v] = turn[v]
      BY <2>1
    <2>4. AtomicPublishTypeOK'
      BY <2>1, <2>2, <2>3
    <2>5. PublishedIsWhole' /\ Ready'
      BY <2>1, <2>2 DEF PublishedIsWhole, Ready
    <2>6. Unnamed'
      BY <2>1, <2>2, <2>3 DEF Unnamed, BeforeRename
    <2>7. InOrder'
      <3>1. ASSUME NEW v \in Writers, NEW e \in Writers, Later(v, e) \/ e = w
            PROVE  Later(v, e)' \/ v = w
        BY <2>3, <3>1 DEF Later
      <3>2. Later(w, w)'
        BY <2>3 DEF Later
      <3>3. ASSUME NEW v \in Writers \ {w}, wpc'[v] = "done", NEW e \in mayRemain'
            PROVE  Later(v, e)'
        BY <2>1, <2>2, <3>1, <3>3 DEF InOrder, Later
      <3>4. ASSUME NEW v \in Writers, wpc'[v] \in {"looking", "settling"}
            PROVE  Later(v, entry)'
        BY <2>1, <3>1, <3>2
      <3> QED
        BY <2>2, <3>3, <3>4 DEF InOrder
    <2> QED
      BY <2>4, <2>5, <2>6, <2>7
  <1> QED
    BY <1>1, <1>2

\* The machine comes back with what the disk has, and without its writers.
LEMMA PowerLossKeeps ==
    ASSUME PublishInv, PowerLoss PROVE PublishInv'
  <1> USE PublishAssumption DEF PublishInv, AtomicPublishTypeOK
  <1>1. /\ entry' \in mayRemain /\ mayRemain' = {entry'} /\ content' = onDisk
        /\ UNCHANGED <<renames, turn, temporary, onDisk>>
        /\ publishFaults' \in 0..MaxPublishFaults
    BY DEF PowerLoss, PublishFault
  <1>2. /\ wpc' \in [Writers -> PublishPc]
        /\ \A w \in Writers : wpc'[w] = "gone" \/ (wpc[w] \in Settled /\ wpc'[w] = wpc[w])
    BY DEF PowerLoss, PublishPc, Settled
  <1>3. AtomicPublishTypeOK' /\ PublishedIsWhole'
    BY <1>1, <1>2 DEF PublishedIsWhole
  <1>4. Ready' /\ Unnamed'
    BY <1>1, <1>2 DEF Settled, Ready, Unnamed, BeforeRename
  <1>5. InOrder'
    BY <1>1, <1>2 DEF Settled, InOrder, Later
  <1> QED
    BY <1>3, <1>4, <1>5

-----------------------------------------------------------------------------
(* Theorems *)

\* The invariant of atomic_write_owned_regular_bytes and its siblings.
THEOREM PublishInvariant == PublishSpec => []PublishInv
  <1>1. PublishInv /\ [PublishNext]_publishVars => PublishInv'
    <2> SUFFICES ASSUME PublishInv, [PublishNext]_publishVars PROVE PublishInv'
      OBVIOUS
    <2>1. CASE UNCHANGED publishVars
      BY <2>1 DEF publishVars, PublishInv, AtomicPublishTypeOK, PublishedIsWhole, Ready, Unnamed,
         InOrder, Later
    <2> QED
      BY <2>1, QuietKeeps, PublishKeeps, PowerLossKeeps DEF PublishNext, WriterStep, QuietStep
  <1> QED
    BY <1>1, PublishInitial, PTL DEF PublishSpec

\* The state of the writers and of the path keeps its types.
THEOREM PublishTypeCorrect == PublishSpec => []AtomicPublishTypeOK
  BY PublishInvariant, PTL DEF PublishInv

\* At every moment, and after a power loss at every moment, the path names a whole
\* file or none: each writer syncs its file before it renames it.
THEOREM PublishedIsWholeAlways == PublishSpec => []PublishedIsWhole
  BY PublishInvariant, PTL DEF PublishInv

\* A call that returned has its file, or a later one, at the path for good; an
\* owned call that raised a plain error has published nothing.
THEOREM OutcomeIsTrueAlways == PublishSpec => []OutcomeIsTrue
  <1>1. PublishInv => OutcomeIsTrue
    BY DEF PublishInv, InOrder, Later, Unnamed, OutcomeIsTrue
  <1> QED
    BY <1>1, PublishInvariant, PTL

-----------------------------------------------------------------------------
(*****************************************************************************)
(* Owned paths: one call of each kind among any number of foreign acts.      *)
(*****************************************************************************)

HeldEntries == [entry : Entries \cup {"none"}, edits : 0..MaxForeign]

\* Every edit is a foreign act; what has no entry is the record that says so.
OwnedTypes ==
    /\ OwnedPathsTypeOK /\ held \in HeldEntries
    /\ held.entry = "none" => held = NoEntry
    /\ \A e \in Entries : edits[e] <= foreign

\* Where a path leads now is where it led.
LedNow == \A p \in {"here", "there"} : LeadsTo(p) \in OwnedDirs => LeadsTo(p) \in everLed[p]

\* The calls that come to a step, and what they hold there.
CallAtStep ==
    /\ opc \in {"root", "parent", "check"} => ownedCall # "stable"
    /\ opc \in {"root", "parent", "check"} /\ held # NoEntry => ownedCall = "move"
    /\ opc = "act" => ownedCall \in {"move", "remove", "create", "exclusive"}
    /\ opc = "look" => ownedCall \in {"move", "create"}
    /\ opc = "settle" => ownedCall \in {"move", "remove", "create"}
    /\ opc = "undo" => Creates
    /\ opc \in {"reopen", "part", "again"} => held.entry \in Entries

\* A directory that was looked up again is one its path led to.
PinAtStep ==
    /\ opc = "check" => pinned[Target] \in OwnedDirs
    /\ /\ \/ opc \in {"stat", "open", "reopen", "act", "look", "settle", "undo", "part", "again"}
          \/ held # NoEntry
       /\ ownedCall # "stable"
       => Pinned \in everLed["here"]
    /\ opc \in {"act", "look"} /\ ownedCall = "move" => pinned["there"] \in everLed["there"]

\* Before its act a call has done nothing.
EffectsAtStep ==
    opc \in {"root", "parent", "check", "stat", "open", "act", "absent", "part", "again"}
      \/ (opc = "reopen" /\ ~Creates)
    => effects = {}

\* What was read is of the entry held, edited no more than it is now.
ReadAtStep ==
    /\ opc \notin {"part", "again", "end"} => got = {}
    /\ \A g \in got : g.entry = held.entry /\ held.edits <= g.edits /\ g.edits <= edits[held.entry]
    /\ held.entry \in Entries => held.edits <= edits[held.entry]
    /\ opc = "again" /\ ownedCall # "identity" => got # {}

OwnedInv ==
    /\ OwnedTypes /\ LedNow /\ CallAtStep /\ PinAtStep /\ EffectsAtStep /\ ReadAtStep
    /\ OwnedCallsAreTrue

\* A call begins with nothing pinned and nothing done.
LEMMA OwnedInitial == OwnedInit => OwnedInv
  <1> SUFFICES ASSUME OwnedInit PROVE OwnedInv
    OBVIOUS
  <1> USE OwnedAssumption DEF OwnedInit, NoEntry
  <1>1. OwnedTypes
    <2>1. (opc = "end") = (reply # "none")
      BY DEF OwnedSteps
    <2>2. stands \in [OwnedDirs -> Entries \cup {"none"}]
      BY DEF Entries
    <2> QED
      BY <2>1, <2>2 DEF OwnedTypes, OwnedPathsTypeOK, HeldEntries, OwnedNames, OwnedDirs, OwnedSteps,
                        Replies, Entries
  <1>2. LedNow
    BY DEF LedNow, LeadsTo, OwnedNames
  <1>3. CallAtStep /\ PinAtStep /\ EffectsAtStep /\ ReadAtStep
    BY DEF CallAtStep, PinAtStep, EffectsAtStep, ReadAtStep
  <1>4. OwnedCallsAreTrue
    BY DEF OwnedCallsAreTrue, PinsAreOwned, PlainErrorsAreHarmless
  <1> QED
    BY <1>1, <1>2, <1>3, <1>4 DEF OwnedInv

\* What stands at the name, or that nothing does.
LEMMA StandsIsAnEntry == OwnedTypes => StandsThere \in Entries \cup {"none"}
  BY DEF OwnedTypes, OwnedPathsTypeOK, StandsThere

\* A step of the call leaves the paths and the edits alone.
LEMMA CallStepKeepsPaths ==
    ASSUME OwnedInv, UNCHANGED <<platform, ownedCall, leads, edits, everLed, foreign>>
    PROVE  LedNow' /\ Creates' = Creates /\ (\A e \in Entries : edits'[e] <= foreign')
  BY DEF OwnedInv, OwnedTypes, LedNow, LeadsTo, Creates

\* The root is opened.
LEMMA OpenRootKeeps ==
    ASSUME OwnedInv, OpenRoot
    PROVE  OwnedInv'
  <1> USE OwnedAssumption
  <1>0. /\ OwnedTypes /\ LedNow /\ CallAtStep /\ PinAtStep /\ EffectsAtStep /\ ReadAtStep
        /\ PinsAreOwned /\ PlainErrorsAreHarmless
    BY DEF OwnedInv, OwnedCallsAreTrue
  <1>1. UNCHANGED <<platform, ownedCall, leads, edits, everLed, foreign>>
    BY DEF OpenRoot, treeVars
  <1>2. LedNow' /\ Creates' = Creates /\ (\A e \in Entries : edits'[e] <= foreign')
    BY <1>1, CallStepKeepsPaths
  <1> USE <1>0, <1>1 DEF OwnedTypes, CallAtStep, PinAtStep, EffectsAtStep, ReadAtStep,
          OwnedPathsTypeOK, HeldEntries, OwnedSteps, Replies, NoEntry, OwnedGoes, Ends, Refuses, Misses,
            Target, Pinned, Creates, treeVars, OwnedNames, OpenRoot
  <1>3. OwnedTypes'
    BY <1>2
  <1>4. CallAtStep'
    BY <1>2
  <1>5. PinAtStep'
    BY <1>2
  <1>6. EffectsAtStep'
    BY <1>2
  <1>7. ReadAtStep'
    BY <1>2
  <1>8. PinsAreOwned'
    BY <1>2 DEF PinsAreOwned
  <1>9. PlainErrorsAreHarmless'
    BY <1>2 DEF PlainErrorsAreHarmless
  <1> QED
    BY <1>2, <1>3, <1>4, <1>5, <1>6, <1>7, <1>8, <1>9 DEF OwnedInv, OwnedCallsAreTrue

\* The directory is opened below the root.
LEMMA OpenParentKeeps ==
    ASSUME OwnedInv, OpenParent
    PROVE  OwnedInv'
  <1> USE OwnedAssumption
  <1>0. /\ OwnedTypes /\ LedNow /\ CallAtStep /\ PinAtStep /\ EffectsAtStep /\ ReadAtStep
        /\ PinsAreOwned /\ PlainErrorsAreHarmless
    BY DEF OwnedInv, OwnedCallsAreTrue
  <1>1. UNCHANGED <<platform, ownedCall, leads, edits, everLed, foreign>>
    BY DEF OpenParent, treeVars
  <1>2. LedNow' /\ Creates' = Creates /\ (\A e \in Entries : edits'[e] <= foreign')
    BY <1>1, CallStepKeepsPaths
  <1> USE <1>0, <1>1 DEF OwnedTypes, CallAtStep, PinAtStep, EffectsAtStep, ReadAtStep,
          OwnedPathsTypeOK, HeldEntries, OwnedSteps, Replies, NoEntry, OwnedGoes, Ends, Refuses, Misses,
            Target, Pinned, Creates, treeVars, OwnedNames, OpenParent
  <1>3. OwnedTypes'
    BY <1>2
  <1>4. CallAtStep'
    BY <1>2
  <1>5. PinAtStep'
    BY <1>2
  <1>6. EffectsAtStep'
    BY <1>2
  <1>7. ReadAtStep'
    BY <1>2
  <1>8. PinsAreOwned'
    BY <1>2 DEF PinsAreOwned
  <1>9. PlainErrorsAreHarmless'
    BY <1>2 DEF PlainErrorsAreHarmless
  <1> QED
    BY <1>2, <1>3, <1>4, <1>5, <1>6, <1>7, <1>8, <1>9 DEF OwnedInv, OwnedCallsAreTrue

\* An absent entry is reported after the directory was looked up once more.
LEMMA AnswerAbsentKeeps ==
    ASSUME OwnedInv, AnswerAbsent
    PROVE  OwnedInv'
  <1> USE OwnedAssumption
  <1>0. /\ OwnedTypes /\ LedNow /\ CallAtStep /\ PinAtStep /\ EffectsAtStep /\ ReadAtStep
        /\ PinsAreOwned /\ PlainErrorsAreHarmless
    BY DEF OwnedInv, OwnedCallsAreTrue
  <1>1. UNCHANGED <<platform, ownedCall, leads, edits, everLed, foreign>>
    BY DEF AnswerAbsent, treeVars
  <1>2. LedNow' /\ Creates' = Creates /\ (\A e \in Entries : edits'[e] <= foreign')
    BY <1>1, CallStepKeepsPaths
  <1> USE <1>0, <1>1 DEF OwnedTypes, CallAtStep, PinAtStep, EffectsAtStep, ReadAtStep,
          OwnedPathsTypeOK, HeldEntries, OwnedSteps, Replies, NoEntry, OwnedGoes, Ends, Refuses, Misses,
            Target, Pinned, Creates, treeVars, OwnedNames, AnswerAbsent
  <1>3. OwnedTypes'
    BY <1>2
  <1>4. CallAtStep'
    BY <1>2
  <1>5. PinAtStep'
    BY <1>2
  <1>6. EffectsAtStep'
    BY <1>2
  <1>7. ReadAtStep'
    BY <1>2
  <1>8. PinsAreOwned'
    BY <1>2 DEF PinsAreOwned
  <1>9. PlainErrorsAreHarmless'
    BY <1>2 DEF PlainErrorsAreHarmless
  <1> QED
    BY <1>2, <1>3, <1>4, <1>5, <1>6, <1>7, <1>8, <1>9 DEF OwnedInv, OwnedCallsAreTrue

\* The directory is looked up again, and is the one that was opened or the call fails.
LEMMA CheckParentKeeps ==
    ASSUME OwnedInv, CheckParent
    PROVE  OwnedInv'
  <1> USE OwnedAssumption
  <1>0. /\ OwnedTypes /\ LedNow /\ CallAtStep /\ PinAtStep /\ EffectsAtStep /\ ReadAtStep
        /\ PinsAreOwned /\ PlainErrorsAreHarmless
    BY DEF OwnedInv, OwnedCallsAreTrue
  <1>1. UNCHANGED <<platform, ownedCall, leads, edits, everLed, foreign>>
    BY DEF CheckParent, PinReached, AfterPin, treeVars
  <1>2. LedNow' /\ Creates' = Creates /\ (\A e \in Entries : edits'[e] <= foreign')
    BY <1>1, CallStepKeepsPaths
  <1> USE <1>0, <1>1 DEF OwnedTypes, CallAtStep, PinAtStep, EffectsAtStep, ReadAtStep,
          OwnedPathsTypeOK, HeldEntries, OwnedSteps, Replies, NoEntry, OwnedGoes, Ends, Refuses, Misses,
            Target, Pinned, Creates, treeVars, OwnedNames, CheckParent, PinReached, AfterPin
  <1>3. OwnedTypes'
    BY <1>2
  <1>4. CallAtStep'
    BY <1>2
  <1>5. PinAtStep'
    <2>1. CASE LeadsTo(Target) = pinned[Target]
      <3>1. pinned[Target] \in everLed[Target]
        BY <2>1 DEF LedNow
      <3>2. UNCHANGED <<pinned, held>> /\ opc = "check"
        OBVIOUS
      <3> QED
        BY <2>1, <3>1, <3>2
    <2>2. CASE LeadsTo(Target) # pinned[Target]
      BY <2>2
    <2> QED
      BY <2>1, <2>2
  <1>6. EffectsAtStep'
    BY <1>2
  <1>7. ReadAtStep'
    BY <1>2
  <1>8. PinsAreOwned'
    <2>1. CASE LeadsTo(Target) = pinned[Target] /\ ownedCall = "directory"
      <3>1. Target = "here" /\ Pinned \in everLed["here"]
        BY <2>1 DEF LedNow
      <3>2. effects' = {<<"read", Pinned, "none">>} /\ UNCHANGED held
        <4>0. LeadsTo(Target) # "none"
          BY <2>1 DEF OwnedDirs
        <4>1. PinReached /\ UNCHANGED held
          BY ONLY CheckParent, <2>1, <4>0, Zenon DEF CheckParent
        <4> QED
          BY <2>1, <4>1 DEF PinReached
      <3> HIDE DEF Pinned
      <3> QED
        BY <3>1, <3>2 DEF PinsAreOwned
    <2>2. CASE ~ (LeadsTo(Target) = pinned[Target] /\ ownedCall = "directory")
      <3>1. effects' = {}
        BY <2>2
      <3> QED
        BY <3>1 DEF PinsAreOwned
    <2> QED
      BY <2>1, <2>2
  <1>9. PlainErrorsAreHarmless'
    BY <1>2 DEF PlainErrorsAreHarmless
  <1> QED
    BY <1>2, <1>3, <1>4, <1>5, <1>6, <1>7, <1>8, <1>9 DEF OwnedInv, OwnedCallsAreTrue

\* The entry is looked at.
LEMMA StatEntryKeeps ==
    ASSUME OwnedInv, StatEntry
    PROVE  OwnedInv'
  <1> USE OwnedAssumption
  <1>0. /\ OwnedTypes /\ LedNow /\ CallAtStep /\ PinAtStep /\ EffectsAtStep /\ ReadAtStep
        /\ PinsAreOwned /\ PlainErrorsAreHarmless
    BY DEF OwnedInv, OwnedCallsAreTrue
  <1>1. UNCHANGED <<platform, ownedCall, leads, edits, everLed, foreign>>
    BY DEF StatEntry, Fit, Seen, NextOfLook, treeVars
  <1>2. LedNow' /\ Creates' = Creates /\ (\A e \in Entries : edits'[e] <= foreign')
    BY <1>1, CallStepKeepsPaths
  <1> USE <1>0, <1>1 DEF OwnedTypes, CallAtStep, PinAtStep, EffectsAtStep, ReadAtStep,
          OwnedPathsTypeOK, HeldEntries, OwnedSteps, Replies, NoEntry, OwnedGoes, Ends, Refuses, Misses,
            Target, Pinned, Creates, treeVars, OwnedNames, StatEntry, Fit, Seen, NextOfLook
  <1>3. OwnedTypes'
    <2>1. held' \in HeldEntries /\ (held'.entry = "none" => held' = NoEntry)
      <3>1. held' = held \/ (\E e \in Entries : held' = [entry |-> e, edits |-> edits[e]])
        BY StandsIsAnEntry
      <3> QED
        BY <3>1 DEF Entries
    <2> QED
      BY <1>2, <2>1
  <1>4. CallAtStep'
    BY <1>2
  <1>5. PinAtStep'
    BY <1>2
  <1>6. EffectsAtStep'
    BY <1>2
  <1>7. ReadAtStep'
    BY <1>2
  <1>8. PinsAreOwned'
    BY <1>2 DEF PinsAreOwned
  <1>9. PlainErrorsAreHarmless'
    BY <1>2 DEF PlainErrorsAreHarmless
  <1> QED
    BY <1>2, <1>3, <1>4, <1>5, <1>6, <1>7, <1>8, <1>9 DEF OwnedInv, OwnedCallsAreTrue

\* The entry is opened.
LEMMA OpenEntryKeeps ==
    ASSUME OwnedInv, OpenEntry
    PROVE  OwnedInv'
  <1> USE OwnedAssumption
  <1>0. /\ OwnedTypes /\ LedNow /\ CallAtStep /\ PinAtStep /\ EffectsAtStep /\ ReadAtStep
        /\ PinsAreOwned /\ PlainErrorsAreHarmless
    BY DEF OwnedInv, OwnedCallsAreTrue
  <1>1. UNCHANGED <<platform, ownedCall, leads, edits, everLed, foreign>>
    BY DEF OpenEntry, Fit, Seen, Yields, treeVars
  <1>2. LedNow' /\ Creates' = Creates /\ (\A e \in Entries : edits'[e] <= foreign')
    BY <1>1, CallStepKeepsPaths
  <1> USE <1>0, <1>1 DEF OwnedTypes, CallAtStep, PinAtStep, EffectsAtStep, ReadAtStep,
          OwnedPathsTypeOK, HeldEntries, OwnedSteps, Replies, NoEntry, OwnedGoes, Ends, Refuses, Misses,
            Target, Pinned, Creates, treeVars, OwnedNames, OpenEntry, Fit, Seen, Yields
  <1>3. OwnedTypes'
    <2>1. held' \in HeldEntries /\ (held'.entry = "none" => held' = NoEntry)
      <3>1. \/ held' = held \/ (held' = [entry |-> "made", edits |-> 0])
            \/ \E e \in Entries : held' = [entry |-> e, edits |-> edits[e]]
        BY StandsIsAnEntry
      <3> QED
        BY <3>1 DEF Entries
    <2>2. stands' \in [OwnedDirs -> Entries \cup {"none"}]
      BY DEF Entries
    <2>3. effects' \subseteq {"made", "moved", "removed", "read"} \X OwnedDirs
                                \X (Entries \cup {"none"})
      <3>1. CASE UNCHANGED effects
        BY <3>1
      <3>2. CASE \E e \in Entries : effects' = {<<"read", Pinned, e>>} /\ ownedCall = "stream"
        BY <3>2
      <3>3. CASE effects' = {<<"made", Pinned, "made">>} /\ Creates
        BY <3>3 DEF Entries
      <3> QED
        BY <3>1, <3>2, <3>3, StandsIsAnEntry
    <2> QED
      BY <1>2, <2>1, <2>2, <2>3
  <1>4. CallAtStep'
    BY <1>2, StandsIsAnEntry DEF Entries
  <1>5. PinAtStep'
    BY <1>2
  <1>6. EffectsAtStep'
    BY <1>2
  <1>7. ReadAtStep'
    <2>1. CASE UNCHANGED held
      BY <2>1, StandsIsAnEntry DEF Entries
    <2>2. CASE held' # held
      BY <2>2, StandsIsAnEntry DEF Entries
    <2> QED
      BY <2>1, <2>2
  <1>8. PinsAreOwned'
    BY <1>2 DEF PinsAreOwned
  <1>9. PlainErrorsAreHarmless'
    BY <1>2 DEF PlainErrorsAreHarmless
  <1> QED
    BY <1>2, <1>3, <1>4, <1>5, <1>6, <1>7, <1>8, <1>9 DEF OwnedInv, OwnedCallsAreTrue

\* The entry is looked up again, and is the one that is open or the call fails.
LEMMA ReopenEntryKeeps ==
    ASSUME OwnedInv, ReopenEntry
    PROVE  OwnedInv'
  <1> USE OwnedAssumption
  <1>0. /\ OwnedTypes /\ LedNow /\ CallAtStep /\ PinAtStep /\ EffectsAtStep /\ ReadAtStep
        /\ PinsAreOwned /\ PlainErrorsAreHarmless
    BY DEF OwnedInv, OwnedCallsAreTrue
  <1>1. UNCHANGED <<platform, ownedCall, leads, edits, everLed, foreign>>
    BY DEF ReopenEntry, Yields, Gone, treeVars
  <1>2. LedNow' /\ Creates' = Creates /\ (\A e \in Entries : edits'[e] <= foreign')
    BY <1>1, CallStepKeepsPaths
  <1> USE <1>0, <1>1 DEF OwnedTypes, CallAtStep, PinAtStep, EffectsAtStep, ReadAtStep,
          OwnedPathsTypeOK, HeldEntries, OwnedSteps, Replies, NoEntry, OwnedGoes, Ends, Refuses, Misses,
            Target, Pinned, Creates, treeVars, OwnedNames, ReopenEntry, Yields, Gone
  <1>3. OwnedTypes'
    BY <1>2
  <1>4. CallAtStep'
    BY <1>2
  <1>5. PinAtStep'
    BY <1>2
  <1>6. EffectsAtStep'
    BY <1>2
  <1>7. ReadAtStep'
    <2>1. got = {} /\ UNCHANGED <<got, held>> /\ held \in HeldEntries
      OBVIOUS
    <2>2. CASE opc' = "part"
      BY <2>1, <2>2
    <2>3. CASE opc' # "part"
      BY <2>1, <2>3
    <2> QED
      BY <2>2, <2>3
  <1>8. PinsAreOwned'
    BY <1>2 DEF PinsAreOwned
  <1>9. PlainErrorsAreHarmless'
    BY <1>2 DEF PlainErrorsAreHarmless
  <1> QED
    BY <1>2, <1>3, <1>4, <1>5, <1>6, <1>7, <1>8, <1>9 DEF OwnedInv, OwnedCallsAreTrue

\* The entry is renamed into the other directory.
LEMMA MoveEntryKeeps ==
    ASSUME OwnedInv, MoveEntry
    PROVE  OwnedInv'
  <1> USE OwnedAssumption
  <1>0. /\ OwnedTypes /\ LedNow /\ CallAtStep /\ PinAtStep /\ EffectsAtStep /\ ReadAtStep
        /\ PinsAreOwned /\ PlainErrorsAreHarmless
    BY DEF OwnedInv, OwnedCallsAreTrue
  <1>1. UNCHANGED <<platform, ownedCall, leads, edits, everLed, foreign>>
    BY DEF MoveEntry, treeVars
  <1>2. LedNow' /\ Creates' = Creates /\ (\A e \in Entries : edits'[e] <= foreign')
    BY <1>1, CallStepKeepsPaths
  <1> USE <1>0, <1>1 DEF OwnedTypes, CallAtStep, PinAtStep, EffectsAtStep, ReadAtStep,
          OwnedPathsTypeOK, HeldEntries, OwnedSteps, Replies, NoEntry, OwnedGoes, Ends, Refuses, Misses,
            Target, Pinned, Creates, treeVars, OwnedNames, MoveEntry
  <1>3. OwnedTypes'
    BY <1>2
  <1>4. CallAtStep'
    BY <1>2
  <1>5. PinAtStep'
    BY <1>2
  <1>6. EffectsAtStep'
    BY <1>2
  <1>7. ReadAtStep'
    BY <1>2
  <1>8. PinsAreOwned'
    BY <1>2 DEF PinsAreOwned
  <1>9. PlainErrorsAreHarmless'
    BY <1>2 DEF PlainErrorsAreHarmless
  <1> QED
    BY <1>2, <1>3, <1>4, <1>5, <1>6, <1>7, <1>8, <1>9 DEF OwnedInv, OwnedCallsAreTrue

\* The entry is removed.
LEMMA RemoveEntryKeeps ==
    ASSUME OwnedInv, RemoveEntry
    PROVE  OwnedInv'
  <1> USE OwnedAssumption
  <1>0. /\ OwnedTypes /\ LedNow /\ CallAtStep /\ PinAtStep /\ EffectsAtStep /\ ReadAtStep
        /\ PinsAreOwned /\ PlainErrorsAreHarmless
    BY DEF OwnedInv, OwnedCallsAreTrue
  <1>1. UNCHANGED <<platform, ownedCall, leads, edits, everLed, foreign>>
    BY DEF RemoveEntry, treeVars
  <1>2. LedNow' /\ Creates' = Creates /\ (\A e \in Entries : edits'[e] <= foreign')
    BY <1>1, CallStepKeepsPaths
  <1> USE <1>0, <1>1 DEF OwnedTypes, CallAtStep, PinAtStep, EffectsAtStep, ReadAtStep,
          OwnedPathsTypeOK, HeldEntries, OwnedSteps, Replies, NoEntry, OwnedGoes, Ends, Refuses, Misses,
            Target, Pinned, Creates, treeVars, OwnedNames, RemoveEntry
  <1>3. OwnedTypes'
    BY <1>2
  <1>4. CallAtStep'
    BY <1>2
  <1>5. PinAtStep'
    BY <1>2
  <1>6. EffectsAtStep'
    BY <1>2
  <1>7. ReadAtStep'
    BY <1>2
  <1>8. PinsAreOwned'
    BY <1>2 DEF PinsAreOwned
  <1>9. PlainErrorsAreHarmless'
    BY <1>2 DEF PlainErrorsAreHarmless
  <1> QED
    BY <1>2, <1>3, <1>4, <1>5, <1>6, <1>7, <1>8, <1>9 DEF OwnedInv, OwnedCallsAreTrue

\* An entry is made.
LEMMA MakeEntryKeeps ==
    ASSUME OwnedInv, MakeEntry
    PROVE  OwnedInv'
  <1> USE OwnedAssumption
  <1>0. /\ OwnedTypes /\ LedNow /\ CallAtStep /\ PinAtStep /\ EffectsAtStep /\ ReadAtStep
        /\ PinsAreOwned /\ PlainErrorsAreHarmless
    BY DEF OwnedInv, OwnedCallsAreTrue
  <1>1. UNCHANGED <<platform, ownedCall, leads, edits, everLed, foreign>>
    BY DEF MakeEntry, treeVars
  <1>2. LedNow' /\ Creates' = Creates /\ (\A e \in Entries : edits'[e] <= foreign')
    BY <1>1, CallStepKeepsPaths
  <1> USE <1>0, <1>1 DEF OwnedTypes, CallAtStep, PinAtStep, EffectsAtStep, ReadAtStep,
          OwnedPathsTypeOK, HeldEntries, OwnedSteps, Replies, NoEntry, OwnedGoes, Ends, Refuses, Misses,
            Target, Pinned, Creates, treeVars, OwnedNames, MakeEntry
  <1>3. OwnedTypes'
    <2>1. Pinned \in OwnedDirs /\ "made" \in Entries
      BY DEF Entries
    <2>2. stands' \in [OwnedDirs -> Entries \cup {"none"}]
      BY <2>1
    <2>3. effects' \subseteq {"made", "moved", "removed", "read"} \X OwnedDirs
                                \X (Entries \cup {"none"})
      BY <2>1
    <2> QED
      BY <1>2, <2>2, <2>3
  <1>4. CallAtStep'
    BY <1>2
  <1>5. PinAtStep'
    BY <1>2
  <1>6. EffectsAtStep'
    BY <1>2
  <1>7. ReadAtStep'
    BY <1>2
  <1>8. PinsAreOwned'
    BY <1>2 DEF PinsAreOwned
  <1>9. PlainErrorsAreHarmless'
    BY <1>2 DEF PlainErrorsAreHarmless
  <1> QED
    BY <1>2, <1>3, <1>4, <1>5, <1>6, <1>7, <1>8, <1>9 DEF OwnedInv, OwnedCallsAreTrue

\* After its act the call looks at the entry again.
LEMMA LookAfterKeeps ==
    ASSUME OwnedInv, LookAfter
    PROVE  OwnedInv'
  <1> USE OwnedAssumption
  <1>0. /\ OwnedTypes /\ LedNow /\ CallAtStep /\ PinAtStep /\ EffectsAtStep /\ ReadAtStep
        /\ PinsAreOwned /\ PlainErrorsAreHarmless
    BY DEF OwnedInv, OwnedCallsAreTrue
  <1>1. UNCHANGED <<platform, ownedCall, leads, edits, everLed, foreign>>
    BY DEF LookAfter, treeVars
  <1>2. LedNow' /\ Creates' = Creates /\ (\A e \in Entries : edits'[e] <= foreign')
    BY <1>1, CallStepKeepsPaths
  <1> USE <1>0, <1>1 DEF OwnedTypes, CallAtStep, PinAtStep, EffectsAtStep, ReadAtStep,
          OwnedPathsTypeOK, HeldEntries, OwnedSteps, Replies, NoEntry, OwnedGoes, Ends, Refuses, Misses,
            Target, Pinned, Creates, treeVars, OwnedNames, LookAfter
  <1>3. OwnedTypes'
    BY <1>2
  <1>4. CallAtStep'
    BY <1>2
  <1>5. PinAtStep'
    BY <1>2
  <1>6. EffectsAtStep'
    BY <1>2
  <1>7. ReadAtStep'
    BY <1>2
  <1>8. PinsAreOwned'
    BY <1>2 DEF PinsAreOwned
  <1>9. PlainErrorsAreHarmless'
    BY <1>2 DEF PlainErrorsAreHarmless
  <1> QED
    BY <1>2, <1>3, <1>4, <1>5, <1>6, <1>7, <1>8, <1>9 DEF OwnedInv, OwnedCallsAreTrue

\* What a rename moved, or made, is compared with what was meant.
LEMMA SettleEntryKeeps ==
    ASSUME OwnedInv, SettleEntry
    PROVE  OwnedInv'
  <1> USE OwnedAssumption
  <1>0. /\ OwnedTypes /\ LedNow /\ CallAtStep /\ PinAtStep /\ EffectsAtStep /\ ReadAtStep
        /\ PinsAreOwned /\ PlainErrorsAreHarmless
    BY DEF OwnedInv, OwnedCallsAreTrue
  <1>1. UNCHANGED <<platform, ownedCall, leads, edits, everLed, foreign>>
    BY DEF SettleEntry, treeVars
  <1>2. LedNow' /\ Creates' = Creates /\ (\A e \in Entries : edits'[e] <= foreign')
    BY <1>1, CallStepKeepsPaths
  <1> USE <1>0, <1>1 DEF OwnedTypes, CallAtStep, PinAtStep, EffectsAtStep, ReadAtStep,
          OwnedPathsTypeOK, HeldEntries, OwnedSteps, Replies, NoEntry, OwnedGoes, Ends, Refuses, Misses,
            Target, Pinned, Creates, treeVars, OwnedNames, SettleEntry
  <1>3. OwnedTypes'
    BY <1>2
  <1>4. CallAtStep'
    BY <1>2
  <1>5. PinAtStep'
    BY <1>2
  <1>6. EffectsAtStep'
    BY <1>2
  <1>7. ReadAtStep'
    BY <1>2
  <1>8. PinsAreOwned'
    BY <1>2 DEF PinsAreOwned
  <1>9. PlainErrorsAreHarmless'
    BY <1>2 DEF PlainErrorsAreHarmless
  <1> QED
    BY <1>2, <1>3, <1>4, <1>5, <1>6, <1>7, <1>8, <1>9 DEF OwnedInv, OwnedCallsAreTrue

\* An entry that must not stay is taken away again.
LEMMA UndoEntryKeeps ==
    ASSUME OwnedInv, UndoEntry
    PROVE  OwnedInv'
  <1> USE OwnedAssumption
  <1>0. /\ OwnedTypes /\ LedNow /\ CallAtStep /\ PinAtStep /\ EffectsAtStep /\ ReadAtStep
        /\ PinsAreOwned /\ PlainErrorsAreHarmless
    BY DEF OwnedInv, OwnedCallsAreTrue
  <1>1. UNCHANGED <<platform, ownedCall, leads, edits, everLed, foreign>>
    BY DEF UndoEntry, treeVars
  <1>2. LedNow' /\ Creates' = Creates /\ (\A e \in Entries : edits'[e] <= foreign')
    BY <1>1, CallStepKeepsPaths
  <1> USE <1>0, <1>1 DEF OwnedTypes, CallAtStep, PinAtStep, EffectsAtStep, ReadAtStep,
          OwnedPathsTypeOK, HeldEntries, OwnedSteps, Replies, NoEntry, OwnedGoes, Ends, Refuses, Misses,
            Target, Pinned, Creates, treeVars, OwnedNames, UndoEntry
  <1>3. OwnedTypes'
    BY <1>2
  <1>4. CallAtStep'
    BY <1>2
  <1>5. PinAtStep'
    BY <1>2
  <1>6. EffectsAtStep'
    BY <1>2
  <1>7. ReadAtStep'
    BY <1>2
  <1>8. PinsAreOwned'
    BY <1>2 DEF PinsAreOwned
  <1>9. PlainErrorsAreHarmless'
    BY <1>2 DEF PlainErrorsAreHarmless
  <1> QED
    BY <1>2, <1>3, <1>4, <1>5, <1>6, <1>7, <1>8, <1>9 DEF OwnedInv, OwnedCallsAreTrue

\* A part of the content is read.
LEMMA ReadPartKeeps ==
    ASSUME OwnedInv, ReadPart
    PROVE  OwnedInv'
  <1> USE OwnedAssumption
  <1>0. /\ OwnedTypes /\ LedNow /\ CallAtStep /\ PinAtStep /\ EffectsAtStep /\ ReadAtStep
        /\ PinsAreOwned /\ PlainErrorsAreHarmless
    BY DEF OwnedInv, OwnedCallsAreTrue
  <1>1. UNCHANGED <<platform, ownedCall, leads, edits, everLed, foreign>>
    BY DEF ReadPart, Seen, treeVars
  <1>2. LedNow' /\ Creates' = Creates /\ (\A e \in Entries : edits'[e] <= foreign')
    BY <1>1, CallStepKeepsPaths
  <1> USE <1>0, <1>1 DEF OwnedTypes, CallAtStep, PinAtStep, EffectsAtStep, ReadAtStep,
          OwnedPathsTypeOK, HeldEntries, OwnedSteps, Replies, NoEntry, OwnedGoes, Ends, Refuses, Misses,
            Target, Pinned, Creates, treeVars, OwnedNames, ReadPart, Seen
  <1>3. OwnedTypes'
    BY <1>2
  <1>4. CallAtStep'
    BY <1>2
  <1>5. PinAtStep'
    BY <1>2
  <1>6. EffectsAtStep'
    BY <1>2
  <1>7. ReadAtStep'
    <2>1. got' = got \cup {[entry |-> held.entry, edits |-> edits[held.entry]]} /\ UNCHANGED held
      OBVIOUS
    <2>2. held.entry \in Entries /\ edits[held.entry] \in Nat /\ held.edits <= edits[held.entry]
      OBVIOUS
    <2>3. /\ [entry |-> held.entry, edits |-> edits[held.entry]].entry = held.entry
          /\ [entry |-> held.entry, edits |-> edits[held.entry]].edits = edits[held.entry]
          /\ [entry |-> held.entry, edits |-> edits[held.entry]] \in got'
      BY <2>1
    <2>4. got' # {}
      BY <2>3
    <2>5. ASSUME NEW g \in got'
          PROVE  g.entry = held.entry /\ held.edits <= g.edits /\ g.edits <= edits[held.entry]
      <3>1. CASE g \in got
        BY <3>1
      <3>2. CASE g = [entry |-> held.entry, edits |-> edits[held.entry]]
        BY <2>2, <3>2
      <3> QED
        BY <2>1, <3>1, <3>2
    <2>6. opc' \in {"part", "again"}
      OBVIOUS
    <2> QED
      BY <2>1, <2>2, <2>4, <2>5, <2>6
  <1>8. PinsAreOwned'
    BY <1>2 DEF PinsAreOwned
  <1>9. PlainErrorsAreHarmless'
    BY <1>2 DEF PlainErrorsAreHarmless
  <1> QED
    BY <1>2, <1>3, <1>4, <1>5, <1>6, <1>7, <1>8, <1>9 DEF OwnedInv, OwnedCallsAreTrue

\* After the reading the call looks at the entry again.
LEMMA LookAgainKeeps ==
    ASSUME OwnedInv, LookAgain
    PROVE  OwnedInv'
  <1> USE OwnedAssumption
  <1>0. /\ OwnedTypes /\ LedNow /\ CallAtStep /\ PinAtStep /\ EffectsAtStep /\ ReadAtStep
        /\ PinsAreOwned /\ PlainErrorsAreHarmless
    BY DEF OwnedInv, OwnedCallsAreTrue
  <1>1. UNCHANGED <<platform, ownedCall, leads, edits, everLed, foreign>>
    BY DEF LookAgain, Seen, treeVars
  <1>2. LedNow' /\ Creates' = Creates /\ (\A e \in Entries : edits'[e] <= foreign')
    BY <1>1, CallStepKeepsPaths
  <1> USE <1>0, <1>1 DEF OwnedTypes, CallAtStep, PinAtStep, EffectsAtStep, ReadAtStep,
          OwnedPathsTypeOK, HeldEntries, OwnedSteps, Replies, NoEntry, OwnedGoes, Ends, Refuses, Misses,
            Target, Pinned, Creates, treeVars, OwnedNames, LookAgain, Seen
  <1>3. OwnedTypes'
    BY <1>2
  <1>4. CallAtStep'
    BY <1>2
  <1>5. PinAtStep'
    BY <1>2
  <1>6. EffectsAtStep'
    BY <1>2
  <1>7. ReadAtStep'
    BY <1>2
  <1>8. PinsAreOwned'
    BY <1>2 DEF PinsAreOwned
  <1>9. PlainErrorsAreHarmless'
    BY <1>2 DEF PlainErrorsAreHarmless
  <1> QED
    BY <1>2, <1>3, <1>4, <1>5, <1>6, <1>7, <1>8, <1>9 DEF OwnedInv, OwnedCallsAreTrue

\* What others do: the call stays where it is, paths lead elsewhere only after they
\* are noted, entries are edited only forward.
LEMMA ForeignKeeps ==
    ASSUME OwnedInv, ForeignAct,
           leads' \in [OwnedNames -> OwnedDirs \cup {"link", "none"}],
           stands' \in [OwnedDirs -> Entries \cup {"none"}],
           edits' \in [Entries -> Nat], everLed' \in [{"here", "there"} -> SUBSET OwnedDirs],
           LedNow', \A e \in Entries : edits[e] <= edits'[e] /\ edits'[e] <= foreign',
           \A p \in {"here", "there"} : everLed[p] \subseteq everLed'[p]
    PROVE  OwnedInv'
  <1> USE OwnedAssumption
  <1>0. /\ OwnedTypes /\ LedNow /\ CallAtStep /\ PinAtStep /\ EffectsAtStep /\ ReadAtStep
        /\ PinsAreOwned /\ PlainErrorsAreHarmless
    BY DEF OwnedInv, OwnedCallsAreTrue
  <1>1. /\ UNCHANGED <<platform, ownedCall, opc, pinned, held, got, effects, reply>>
        /\ foreign' \in 0..MaxForeign
    BY <1>0 DEF ForeignAct, OwnedTypes, OwnedPathsTypeOK
  <1>2. OwnedTypes'
    <2>1. edits' \in [Entries -> 0..MaxForeign]
      BY <1>1
    <2> QED
      BY <1>0, <1>1, <2>1 DEF OwnedTypes, OwnedPathsTypeOK
  <1>3. CallAtStep' /\ EffectsAtStep'
    BY <1>0, <1>1 DEF CallAtStep, EffectsAtStep, Creates
  <1>4. PinAtStep'
    BY <1>0, <1>1 DEF PinAtStep, Target, Pinned
  <1>5. ReadAtStep'
    <2>1. /\ held.entry \in Entries \cup {"none"} /\ held.edits \in Nat
          /\ \A e \in Entries : edits[e] \in Nat
          /\ \A g \in got : g.entry \in Entries /\ g.edits \in Nat
      BY <1>0 DEF OwnedTypes, OwnedPathsTypeOK, HeldEntries
    <2> QED
      BY <1>0, <1>1, <2>1 DEF ReadAtStep
  <1>6. OwnedCallsAreTrue'
    BY <1>0, <1>1 DEF OwnedCallsAreTrue, PinsAreOwned, PlainErrorsAreHarmless, Creates
  <1> QED
    BY <1>2, <1>3, <1>4, <1>5, <1>6 DEF OwnedInv

\* Others redirect a path, put an entry at a name, or edit one.
LEMMA OthersKeepOwned ==
    ASSUME OwnedInv,
           \/ \E path \in OwnedNames : Redirect(path)
           \/ \E dir \in OwnedDirs : PutEntry(dir)
           \/ \E e \in {"mine", "other"} : EditEntry(e)
    PROVE  OwnedInv'
  <1> USE OwnedAssumption
  <1>0. OwnedTypes /\ LedNow
    BY DEF OwnedInv
  <1> DEFINE Types == /\ leads \in [OwnedNames -> OwnedDirs \cup {"link", "none"}]
                      /\ stands \in [OwnedDirs -> Entries \cup {"none"}]
                      /\ edits \in [Entries -> 0..MaxForeign] /\ foreign \in 0..MaxForeign
                      /\ everLed \in [{"here", "there"} -> SUBSET OwnedDirs]
                      /\ \A e \in Entries : edits[e] <= foreign
  <1>1. Types
    BY <1>0 DEF OwnedTypes, OwnedPathsTypeOK
  <1>2. CASE \E path \in OwnedNames : Redirect(path)
    <2>1. PICK path \in OwnedNames : Redirect(path)
      BY <1>2
    <2>2. PICK d \in OwnedDirs \cup {"link", "none"} : leads' = [leads EXCEPT ![path] = d]
      BY <2>1 DEF Redirect, OwnedNames, OwnedDirs
    <2>3. /\ everLed' = [p \in {"here", "there"} |->
                           everLed[p] \cup ({LeadsTo(p)'} \cap OwnedDirs)]
          /\ ForeignAct /\ UNCHANGED <<stands, edits>> /\ foreign' = foreign + 1
      BY <2>1 DEF Redirect, ForeignAct
    <2>4. LedNow'
      BY <2>3 DEF LedNow
    <2>5. leads' \in [OwnedNames -> OwnedDirs \cup {"link", "none"}]
      BY <1>1, <2>2
    <2>6. /\ everLed' \in [{"here", "there"} -> SUBSET OwnedDirs]
          /\ \A p \in {"here", "there"} : everLed[p] \subseteq everLed'[p]
      BY <1>1, <2>3
    <2>7. /\ edits' \in [Entries -> Nat] /\ stands' \in [OwnedDirs -> Entries \cup {"none"}]
          /\ \A e \in Entries : edits[e] <= edits'[e] /\ edits'[e] <= foreign'
      BY <1>1, <2>3
    <2> QED
      BY <2>3, <2>4, <2>5, <2>6, <2>7, ForeignKeeps
  <1>3. CASE \E dir \in OwnedDirs : PutEntry(dir)
    <2>1. PICK dir \in OwnedDirs : PutEntry(dir)
      BY <1>3
    <2>2. ForeignAct /\ UNCHANGED <<leads, edits, everLed>> /\ foreign' = foreign + 1
      BY <2>1 DEF PutEntry, ForeignAct
    <2>3. PICK e \in Entries \cup {"none"} :
             stands' = [(IF e = "none" THEN stands ELSE Gone(e)) EXCEPT ![dir] = e]
      BY <2>1 DEF PutEntry, Entries
    <2>4. Gone(e) \in [OwnedDirs -> Entries \cup {"none"}]
      BY <1>1 DEF Gone
    <2>5. stands' \in [OwnedDirs -> Entries \cup {"none"}]
      BY <1>1, <2>3, <2>4
    <2>6. LedNow'
      BY <1>0, <2>2 DEF LedNow, LeadsTo
    <2>7. /\ edits' \in [Entries -> Nat]
          /\ \A x \in Entries : edits[x] <= edits'[x] /\ edits'[x] <= foreign'
      BY <1>1, <2>2
    <2> QED
      BY <1>1, <2>2, <2>5, <2>6, <2>7, ForeignKeeps
  <1>4. CASE \E e \in {"mine", "other"} : EditEntry(e)
    <2>1. PICK e \in {"mine", "other"} : EditEntry(e)
      BY <1>4
    <2>2. /\ ForeignAct /\ UNCHANGED <<leads, stands, everLed>> /\ foreign' = foreign + 1
          /\ edits' = [edits EXCEPT ![e] = @ + 1]
      BY <2>1 DEF EditEntry, ForeignAct
    <2>3. LedNow'
      BY <1>0, <2>2 DEF LedNow, LeadsTo
    <2>4. /\ edits' \in [Entries -> Nat]
          /\ \A x \in Entries : edits[x] <= edits'[x] /\ edits'[x] <= foreign'
      BY <1>1, <2>2 DEF Entries
    <2> QED
      BY <1>1, <2>2, <2>3, <2>4, ForeignKeeps
  <1> QED
    BY <1>2, <1>3, <1>4

\* Whoever redirects paths and replaces entries while a call is under way, on either
\* platform: every effect of it is in a directory that its path led to meanwhile, or
\* on Windows on the entry it opened; a move or removal that reports a plain error
\* has done nothing; and bytes that are read are one version of one file
\* (web/security.py: move_owned_path, remove_owned_path, create_owned_directory,
\* read_owned_regular_bytes).
THEOREM OwnedCallsAreTrueHolds ==
    OwnedSpec => [](OwnedPathsTypeOK /\ OwnedCallsAreTrue)
  <1>1. OwnedInv => OwnedPathsTypeOK /\ OwnedCallsAreTrue
    BY DEF OwnedInv, OwnedTypes
  <1>2. OwnedInv /\ UNCHANGED ownedVars => OwnedInv'
    <2> SUFFICES ASSUME OwnedInv, UNCHANGED ownedVars PROVE OwnedInv'
      OBVIOUS
    <2>1. OwnedTypes' /\ LedNow' /\ CallAtStep'
      BY DEF ownedVars, OwnedInv, OwnedTypes, OwnedPathsTypeOK, LedNow, LeadsTo, CallAtStep, Creates
    <2>2. PinAtStep' /\ EffectsAtStep' /\ ReadAtStep' /\ OwnedCallsAreTrue'
      BY DEF ownedVars, OwnedInv, PinAtStep, EffectsAtStep, ReadAtStep, OwnedCallsAreTrue,
             PinsAreOwned, PlainErrorsAreHarmless, Target, Pinned, Creates
    <2> QED
      BY <2>1, <2>2 DEF OwnedInv
  <1>3. OwnedInv /\ [OwnedNext]_ownedVars => OwnedInv'
    BY <1>2, OpenRootKeeps, OpenParentKeeps, CheckParentKeeps, AnswerAbsentKeeps, StatEntryKeeps,
       OpenEntryKeeps, ReopenEntryKeeps, MoveEntryKeeps, RemoveEntryKeeps, MakeEntryKeeps,
       LookAfterKeeps, SettleEntryKeeps, UndoEntryKeeps, ReadPartKeeps, LookAgainKeeps,
       OthersKeepOwned
    DEF OwnedNext
  <1> QED
    BY <1>1, <1>3, OwnedInitial, PTL DEF OwnedSpec

-----------------------------------------------------------------------------
(*****************************************************************************)
(* Contained commands, for any set of processes that the command leaves      *)
(* behind.                                                                   *)
(*****************************************************************************)

\* The group has been killed: nothing undoomed is left in it.
Killed == supervisor # "none" /\ group \subseteq doomed

\* The call has ended, or its caller has.
CallIsOver == caller \notin {"idle", "waiting", "draining"}

\* Once the supervisor may start a command, a watcher that nothing but a kill of
\* the group ends is in it.
CommandInv ==
    /\ ContainedCommandTypeOK
    /\ caller = "idle" <=> supervisor = "none"
    /\ supervisor = "none" => Alive = {} /\ doomed = {}
    /\ supervisor = "starting" => group = {"supervisor"} /\ outside = {} /\ doomed \subseteq group
    /\ supervisor \in {"watched", "running", "ended"} =>
          group \subseteq doomed \/ "watcher" \in group \ doomed
    /\ caller \in CallPc \ {"idle", "waiting", "dead"} => group \subseteq doomed

\* Whoever ended the call, the group it leaves is killed, or a watcher reads the
\* pipe of the caller that has gone, or the supervisor has started nothing yet
\* (_supervise_posix_command forks the watcher first).
GroupIsKilledOrWatched ==
    CallIsOver =>
        \/ Killed
        \/ "watcher" \in group \ doomed
        \/ supervisor = "starting" /\ group = {"supervisor"}

\* Nothing joins a group that has been killed, and none of its processes is
\* spared after all.
KilledGroupShrinks == [][Killed => Killed' /\ group' \subseteq group]_commandVars

\* Before the call nothing runs.
LEMMA CommandInitial == CommandInit => CommandInv
  BY DEF CommandInit, CommandInv, ContainedCommandTypeOK, CallPc, Alive, Processes

\* The watcher is in the group before the command, so whoever ends the call leaves a
\* group that is killed or watched; and what is killed can start nothing.
LEMMA CommandStep == CommandInv /\ [CommandNext]_commandVars => CommandInv' /\ (Killed => Killed' /\ group' \subseteq group)
  <1> SUFFICES ASSUME CommandInv, [CommandNext]_commandVars
               PROVE  CommandInv' /\ (Killed => Killed' /\ group' \subseteq group)
    OBVIOUS
  <1> USE DEF CommandInv, ContainedCommandTypeOK, CallPc, Alive, Processes, Killed
  <1> USE ChildrenAssumption
  <1>1. CASE Launch
    BY <1>1 DEF Launch
  <1>2. CASE ForkWatcher
    <2>1. CASE supervisor' = "watched"
      <3>1. /\ group' = group \cup {"watcher"} /\ streams' = streams \cup {"watcher"}
            /\ UNCHANGED <<caller, outside, doomed, watching>>
            /\ supervisor = "starting" /\ "supervisor" \in group \ doomed
        BY <1>2, <2>1 DEF ForkWatcher
      <3>2. ~ Killed
        BY <3>1
      <3>3. ContainedCommandTypeOK'
        BY <2>1, <3>1
      <3>4. caller \notin CallPc \ {"idle", "waiting", "dead"}
        BY <3>1
      <3>5. "watcher" \notin doomed
        BY <1>2, <2>1 DEF ForkWatcher
      <3> QED
        BY <2>1, <3>1, <3>2, <3>3, <3>4, <3>5
    <2>2. CASE supervisor' = "ended"
      <3>1. group' = {} /\ doomed' = doomed /\ outside' = outside /\ streams' = streams \ {"supervisor"}
        BY <1>2, <2>2 DEF ForkWatcher
      <3>2. caller' = caller /\ watching' = watching
        BY <1>2 DEF ForkWatcher
      <3> QED
        BY <2>2, <3>1, <3>2, <1>2 DEF ForkWatcher
    <2> QED
      BY <1>2, <2>1, <2>2 DEF ForkWatcher
  <1>3. CASE Watch
    BY <1>3 DEF Watch
  <1>4. CASE WatcherKills
    BY <1>4 DEF WatcherKills, KillGroup, PipeOpen
  <1>5. CASE RunCommand
    BY <1>5 DEF RunCommand
  <1>6. CASE EndSupervisor
    BY <1>6 DEF EndSupervisor, Exit
  <1>7. CASE Return
    BY <1>7 DEF Return, KillGroup
  <1>8. CASE TimeOut
    BY <1>8 DEF TimeOut, KillGroup
  <1>9. CASE Interrupt
    BY <1>9 DEF Interrupt, KillGroup
  <1>10. CASE Drain
    BY <1>10 DEF Drain
  <1>11. CASE CallerDies
    BY <1>11 DEF CallerDies, PipeOpen
  <1>12. ASSUME NEW c \in Children, ForkChild(c)
         PROVE  CommandInv' /\ (Killed => Killed' /\ group' \subseteq group)
    <2>1. /\ "command" \in group \ doomed /\ c \notin group \cup outside \cup doomed
          /\ group \subseteq group' /\ group' \subseteq group \cup {c}
          /\ outside \subseteq outside' /\ outside' \subseteq outside \cup {c}
          /\ group' \cap outside' = {} /\ c \in group' \cup outside'
          /\ streams' \subseteq streams \cup {c}
          /\ UNCHANGED <<caller, supervisor, doomed, watching>>
      BY <1>12 DEF ForkChild
    <2>2. supervisor \notin {"none", "starting"}
      BY <2>1
    <2>3. ContainedCommandTypeOK'
      BY <2>1
    <2>4. ~ Killed /\ caller \notin CallPc \ {"idle", "waiting", "dead"}
      BY <2>1
    <2> QED
      BY <2>1, <2>2, <2>3, <2>4
  <1>13. ASSUME NEW p \in Processes, EndProcess(p)
         PROVE  CommandInv' /\ (Killed => Killed' /\ group' \subseteq group)
    BY <1>13 DEF EndProcess, Exit
  <1>14. ASSUME NEW p \in Processes, DieKilled(p)
         PROVE  CommandInv' /\ (Killed => Killed' /\ group' \subseteq group)
    <2>1. /\ group' = group \ {p} /\ outside' = outside \ {p} /\ streams' = streams \ {p}
          /\ UNCHANGED <<caller, doomed, watching>> /\ p \in doomed /\ p \in Alive
          /\ supervisor' = (IF p = "supervisor" THEN "ended" ELSE supervisor)
      BY <1>14 DEF DieKilled, Exit
    <2>2. supervisor # "none" /\ supervisor' # "none"
      BY <2>1
    <2>3. ContainedCommandTypeOK'
      BY <2>1
    <2>4. supervisor = "starting" /\ supervisor' = "starting" => FALSE
      BY <2>1
    <2>5. supervisor' # "starting"
      BY <2>1, <2>4
    <2>6. group' \subseteq doomed' \/ "watcher" \in group' \ doomed'
      BY <2>1, <2>2
    <2>7. (Killed => Killed' /\ group' \subseteq group)
      BY <2>1, <2>2
    <2>8. (caller = "idle" <=> supervisor = "none")' /\ (caller \in CallPc \ {"idle", "waiting", "dead"} => group \subseteq doomed)'
      BY <2>1, <2>2
    <2> QED
      BY <2>2, <2>3, <2>5, <2>6, <2>7, <2>8
  <1>15. CASE UNCHANGED commandVars
    BY <1>15 DEF commandVars
  <1> QED
    BY <1>1, <1>2, <1>3, <1>4, <1>5, <1>6, <1>7, <1>8, <1>9, <1>10, <1>11, <1>12, <1>13, <1>14, <1>15
    DEF CommandNext

\* The processes of a contained call are in its group or outside of it, and only those
\* that live hold its streams (run_contained_command).
THEOREM CommandTypeCorrect == CommandSpec => []ContainedCommandTypeOK
  <1>1. CommandInv => ContainedCommandTypeOK
    BY DEF CommandInv
  <1> QED
    BY <1>1, CommandInitial, CommandStep, PTL DEF CommandSpec

\* Whether the call returned, timed out, was interrupted or died with its caller, the
\* process group it leaves is killed, or holds a watcher that will kill it: the safety
\* half of NothingOutlivesItsCall (run_contained_command, _supervise_posix_command).
THEOREM GroupIsKilledOrWatchedHolds == CommandSpec => []GroupIsKilledOrWatched
  <1>1. CommandInv => GroupIsKilledOrWatched
    BY DEF CommandInv, ContainedCommandTypeOK, GroupIsKilledOrWatched, CallIsOver, Killed, CallPc
  <1> QED
    BY <1>1, CommandInitial, CommandStep, PTL DEF CommandSpec

\* Once the group is killed nothing joins it any more: a fork comes from a live process
\* of the group, and the kill was sent to all of them at once (_kill_command).
THEOREM KilledGroupShrinksAlways == CommandSpec => KilledGroupShrinks
  <1>1. CommandInv /\ [CommandNext]_commandVars => [Killed => Killed' /\ group' \subseteq group]_commandVars
    BY CommandStep
  <1> QED
    BY <1>1, CommandInitial, CommandStep, PTL DEF CommandSpec, KilledGroupShrinks

-----------------------------------------------------------------------------
(*****************************************************************************)
(* The events of a job, for any set of clients, any number of stages, events *)
(* and faults.                                                               *)
(*****************************************************************************)

\* A client has the first events of the log, and a stream counts those it has.
ToldIsLog ==
    \A c \in StreamClients :
        /\ Len(told[c]) <= Len(log)
        /\ \A i \in 1..Len(told[c]) : told[c][i] = log[i]
        /\ stream[c].next \in {"read", "check"} => stream[c].after = Len(told[c])
        /\ stream[c].next = "ended" => job.state \in Outcomes

\* Once an outcome was told the job has one, and what is still to be told is FAILED.
OutcomeTold == \E i \in 1..Len(log) : log[i].state \in Outcomes
OutcomeIsLast ==
    /\ \A i, k \in 1..Len(log) : i < k /\ log[i].state \in Outcomes => log[k].state = "failed"
    /\ OutcomeTold => /\ job.state \in Outcomes /\ holder # "outcome_event"
                      /\ holder = "event" => job.state = "failed"
    /\ holder = "outcome_event" => job.state \in Outcomes

ProgressInv == JobProgressTypeOK /\ ToldIsLog /\ OutcomeIsLast

\* What the concatenation of two sequences holds, and where.
LEMMA Joined ==
    ASSUME NEW S, NEW a \in Seq(S), NEW b \in Seq(S)
    PROVE  /\ a \o b \in Seq(S) /\ Len(a \o b) = Len(a) + Len(b)
           /\ \A i \in 1..Len(a) : (a \o b)[i] = a[i]
           /\ \A i \in 1..Len(b) : (a \o b)[Len(a) + i] = b[i]
  OBVIOUS

\* What is left of a sequence behind its first n elements.
LEMMA RestOfSequence ==
    ASSUME NEW S, NEW s \in Seq(S), NEW n \in Nat, n <= Len(s)
    PROVE  LET rest == SubSeq(s, n + 1, Len(s)) IN
           /\ rest \in Seq(S) /\ Len(rest) = Len(s) - n
           /\ \A i \in 1..Len(s) - n : rest[i] = s[n + i]
  <1> DEFINE rest == SubSeq(s, n + 1, Len(s))
  <1>1. rest \in Seq(S)
    OBVIOUS
  <1>2. Len(rest) = Len(s) - n
    OBVIOUS
  <1>3. \A i \in 1..Len(s) - n : rest[i] = s[n + i]
    OBVIOUS
  <1> QED
    BY <1>1, <1>2, <1>3

\* The log begins with the event of the submission.
LEMMA ProgressInitial == ProgressInit => ProgressInv
  <1> SUFFICES ASSUME ProgressInit PROVE ProgressInv
    OBVIOUS
  <1> USE ProgressAssumption
  <1>1. job \in JobEvent /\ job.state = "queued"
    BY DEF ProgressInit, JobEvent
  <1>2. log \in Seq(JobEvent) /\ Len(log) = 1 /\ log[1] = job
    BY <1>1 DEF ProgressInit
  <1>3. \A c \in StreamClients : told[c] = <<>> /\ Len(told[c]) = 0
    BY DEF ProgressInit
  <1>4. told \in [StreamClients -> Seq(JobEvent)]
    BY DEF ProgressInit
  <1>5. \A c \in StreamClients : stream[c] = [next |-> "closed", after |-> 0, news |-> FALSE]
    BY DEF ProgressInit
  <1>6. stream \in [StreamClients -> [next : {"closed", "read", "check", "ended"},
                                      after : Sequence, news : BOOLEAN]]
    BY DEF ProgressInit, Sequence
  <1>7. JobProgressTypeOK
    BY <1>1, <1>2, <1>4, <1>6 DEF ProgressInit, JobProgressTypeOK, Sequence
  <1>8. ToldIsLog
    <2> SUFFICES ASSUME NEW c \in StreamClients
                 PROVE  /\ Len(told[c]) <= Len(log)
                        /\ \A i \in 1..Len(told[c]) : told[c][i] = log[i]
                        /\ stream[c].next = "closed"
      BY DEF ToldIsLog
    <2>1. stream[c].next = "closed"
      BY <1>5
    <2>2. told[c] = <<>>
      BY <1>3
    <2>3. Len(log) >= 0
      BY <1>2
    <2> QED
      BY <2>1, <2>2, <2>3
  <1>9. OutcomeIsLast
    BY <1>1, <1>2 DEF OutcomeIsLast, OutcomeTold, Outcomes, ProgressInit
  <1> QED
    BY <1>7, <1>8, <1>9 DEF ProgressInv

\* Steps that leave the log and the streams alone: the record and what the manager
\* does next.
LEMMA RecordStep ==
    ASSUME ProgressInv, UNCHANGED <<log, streamVars>>,
           statusReady' \in 0..StageCount, job' \in JobEvent,
           holder' \in {"free", "event", "outcome_event", "reconcile"},
           progressFaults' \in 0..MaxProgressFaults,
           job.state \in Outcomes => job'.state \in Outcomes,
           OutcomeTold => holder' # "outcome_event" /\ (holder' = "event" => job'.state = "failed"),
           holder' = "outcome_event" => job'.state \in Outcomes
    PROVE  ProgressInv'
  <1> USE DEF ProgressInv
  <1>1. JobProgressTypeOK'
    BY DEF JobProgressTypeOK, streamVars
  <1>2. ToldIsLog'
    BY DEF ToldIsLog, streamVars
  <1>3. OutcomeIsLast'
    BY DEF OutcomeIsLast, OutcomeTold
  <1> QED
    BY <1>1, <1>2, <1>3

\* The work on a job writes its record; it has no outcome then.
LEMMA WorkKeeps ==
    ASSUME ProgressInv, WriteStatus \/ RunJob \/ StatusUpdate PROVE ProgressInv'
  <1> USE ProgressAssumption DEF ProgressInv, JobProgressTypeOK
  <1>1. job.state \notin Outcomes /\ job \in JobEvent /\ ~ OutcomeTold
    BY DEF WriteStatus, RunJob, StatusUpdate, Outcomes, OutcomeIsLast
  <1>2. statusReady' \in 0..StageCount
    BY DEF WriteStatus, RunJob, StatusUpdate
  <1>3. job' \in JobEvent
    <2>1. [job EXCEPT !.state = "running"] \in JobEvent /\ [job EXCEPT !.ready = statusReady] \in JobEvent
      BY <1>1 DEF JobEvent
    <2> QED
      BY <1>1, <2>1 DEF WriteStatus, RunJob, StatusUpdate, WriteRecord
  <1>4. /\ progressFaults' \in 0..MaxProgressFaults
        /\ holder' = holder \/ (holder' = "event" /\ holder = "free")
        /\ holder = "outcome_event" => job' = job
    BY DEF WriteStatus, RunJob, StatusUpdate, WriteRecord, ProgressFault
  <1>5. UNCHANGED <<log, streamVars>>
    BY DEF WriteStatus, RunJob, StatusUpdate
  <1>6. holder # "outcome_event"
    BY <1>1 DEF OutcomeIsLast
  <1> QED
    BY <1>1, <1>2, <1>3, <1>4, <1>5, <1>6, RecordStep

\* A job gets its outcome, or a reconciliation makes its record fail.
LEMMA EndKeeps ==
    ASSUME ProgressInv, ReconciliationFailure \/ \E o \in Outcomes : EndJob(o) PROVE ProgressInv'
  <1> USE ProgressAssumption DEF ProgressInv, JobProgressTypeOK
  <1>1. UNCHANGED <<statusReady, log, streamVars>> /\ job \in JobEvent
    BY DEF ReconciliationFailure, EndJob
  <1>2. CASE ReconciliationFailure
    <2>1. /\ job' \in JobEvent /\ (job' = job \/ job'.state = "failed")
          /\ (holder' = "event" /\ job'.state = "failed") \/ holder' = "free"
          /\ progressFaults' \in 0..MaxProgressFaults
      BY <1>2 DEF ReconciliationFailure, ProgressFault, JobEvent, Outcomes
    <2>2. "failed" \in Outcomes
      BY DEF Outcomes
    <2> QED
      BY <1>1, <2>1, <2>2, RecordStep
  <1>3. ASSUME NEW o \in Outcomes, EndJob(o) PROVE ProgressInv'
    <2>1. job.state = "running" /\ ~ OutcomeTold
      BY <1>3 DEF EndJob, OutcomeIsLast, Outcomes
    <2> DEFINE record == [state |-> o, ready |-> IF o = "completed" THEN StageCount ELSE job.ready]
    <2>2. record \in JobEvent /\ record.state = o
      BY <1>1 DEF JobEvent
    <2>3. /\ job' \in {job, record}
          /\ holder' \in {"outcome_event", "reconcile"} /\ (holder' = "outcome_event" => job' = record)
          /\ progressFaults' \in 0..MaxProgressFaults
      BY <1>3 DEF EndJob, ProgressFault
    <2> HIDE DEF record
    <2>4. job.state \notin Outcomes
      BY <2>1 DEF Outcomes
    <2> QED
      BY <1>1, <2>1, <2>2, <2>3, <2>4, RecordStep
  <1> QED
    BY <1>2, <1>3

\* The log is only ever made longer, by the record it is about.
LEMMA AppendKeeps ==
    ASSUME ProgressInv, AppendEvent PROVE ProgressInv'
  <1> USE ProgressAssumption DEF ProgressInv
  <1>1. /\ UNCHANGED <<statusReady, job, streamVars>> /\ job \in JobEvent
        /\ log \in Seq(JobEvent) /\ Len(log) \in 0..MaxEvents
        /\ holder \in {"event", "outcome_event"} /\ holder' \in {"free", "reconcile"}
        /\ progressFaults' \in 0..MaxProgressFaults
    BY DEF AppendEvent, AfterEvent, ProgressFault, JobProgressTypeOK, Sequence
  <1>2. CASE log' = log
    BY <1>1, <1>2, RecordStep DEF JobProgressTypeOK, OutcomeIsLast
  <1>3. CASE log' = Append(log, job) /\ Len(log) < MaxEvents
    <2>1. /\ log' \in Seq(JobEvent) /\ Len(log') = Len(log) + 1 /\ log'[Len(log) + 1] = job
          /\ \A i \in 1..Len(log) : log'[i] = log[i]
      BY <1>1, <1>3
    <2>2. JobProgressTypeOK'
      BY <1>1, <1>3, <2>1 DEF JobProgressTypeOK, Sequence, streamVars
    <2>3. ToldIsLog'
      BY <1>1, <2>1 DEF ToldIsLog, JobProgressTypeOK, streamVars
    <2>4. OutcomeIsLast'
      <3>1. OutcomeTold => job.state = "failed"
        BY <1>1 DEF OutcomeIsLast
      <3>2. ASSUME NEW i \in 1..Len(log'), NEW k \in 1..Len(log'), i < k, log'[i].state \in Outcomes
            PROVE  log'[k].state = "failed"
        <4>1. i \in 1..Len(log) /\ log[i].state \in Outcomes
          BY <1>1, <2>1, <3>2
        <4>2. CASE k = Len(log) + 1
          BY <2>1, <3>1, <4>1, <4>2 DEF OutcomeTold
        <4>3. CASE k # Len(log) + 1
          <5>1. k \in 1..Len(log)
            BY <1>1, <2>1, <4>3
          <5> QED
            BY <2>1, <3>2, <4>1, <5>1 DEF OutcomeIsLast
        <4> QED
          BY <4>2, <4>3
      <3>3. OutcomeTold' => job'.state \in Outcomes
        <4> SUFFICES ASSUME NEW i \in 1..Len(log'), log'[i].state \in Outcomes
                     PROVE  job.state \in Outcomes
          BY <1>1 DEF OutcomeTold
        <4>1. CASE i = Len(log) + 1
          BY <2>1, <4>1
        <4>2. CASE i # Len(log) + 1
          <5>1. i \in 1..Len(log)
            BY <1>1, <2>1, <4>2
          <5> QED
            BY <2>1, <5>1 DEF OutcomeIsLast, OutcomeTold
        <4> QED
          BY <4>1, <4>2
      <3> QED
        BY <1>1, <3>2, <3>3 DEF OutcomeIsLast
    <2> QED
      BY <2>2, <2>3, <2>4
  <1> QED
    BY <1>2, <1>3 DEF AppendEvent

\* A stream changes nothing of the job.  It ends only when the job has an outcome.
LEMMA StreamStep ==
    ASSUME ProgressInv, NEW c \in StreamClients, UNCHANGED jobVars,
           progressFaults' \in 0..MaxProgressFaults,
           NEW s \in [next : {"closed", "read", "check", "ended"}, after : Sequence, news : BOOLEAN],
           NEW t \in Seq(JobEvent),
           stream' = [stream EXCEPT ![c] = s], told' = [told EXCEPT ![c] = t],
           Len(t) <= Len(log), \A i \in 1..Len(t) : t[i] = log[i],
           s.next \in {"read", "check"} => s.after = Len(t),
           s.next = "ended" => job.state \in Outcomes
    PROVE  ProgressInv'
  <1> USE DEF ProgressInv
  <1>1. JobProgressTypeOK'
    BY DEF JobProgressTypeOK, jobVars
  <1>2. ToldIsLog'
    BY DEF ToldIsLog, jobVars, JobProgressTypeOK
  <1>3. OutcomeIsLast'
    BY DEF OutcomeIsLast, OutcomeTold, jobVars
  <1> QED
    BY <1>1, <1>2, <1>3

\* The events that are sent continue those the client has.
LEMMA SendKeeps ==
    ASSUME ProgressInv, NEW c \in StreamClients, SendEvents(c) PROVE ProgressInv'
  <1> USE ProgressAssumption DEF ProgressInv
  <1> DEFINE n == stream[c].after
             events == EventsAfter(n)
             t == told[c] \o events
             s == [next |-> "check", after |-> n + Len(events), news |-> events # <<>>]
  <1>1. /\ log \in Seq(JobEvent) /\ Len(log) \in 0..MaxEvents /\ told[c] \in Seq(JobEvent)
        /\ n = Len(told[c]) /\ n \in Nat /\ n <= Len(log)
        /\ \A i \in 1..n : told[c][i] = log[i]
    BY DEF JobProgressTypeOK, Sequence, SendEvents, ToldIsLog
  <1>2. /\ events \in Seq(JobEvent) /\ Len(events) = Len(log) - n
        /\ \A i \in 1..Len(log) - n : events[i] = log[n + i]
    BY <1>1, RestOfSequence DEF EventsAfter
  <1>3. /\ told' = [told EXCEPT ![c] = t] /\ stream' = [stream EXCEPT ![c] = s]
        /\ UNCHANGED jobVars /\ progressFaults' \in 0..MaxProgressFaults
    BY DEF SendEvents, JobProgressTypeOK
  <1> HIDE DEF events
  <1>4. t \in Seq(JobEvent) /\ Len(t) = n + Len(events)
        /\ (\A i \in 1..n : t[i] = told[c][i]) /\ (\A i \in 1..Len(events) : t[n + i] = events[i])
    BY <1>1, <1>2, Joined
  <1>5. Len(t) <= Len(log)
    BY <1>1, <1>2, <1>4
  <1>6. \A i \in 1..Len(t) : t[i] = log[i]
    <2> SUFFICES ASSUME NEW i \in 1..Len(t) PROVE t[i] = log[i]
      OBVIOUS
    <2>1. CASE i <= n
      BY <1>1, <1>4, <2>1
    <2>2. CASE i > n
      <3>1. i - n \in 1..Len(events) /\ i = n + (i - n)
        BY <1>1, <1>2, <1>4, <2>2
      <3>2. t[i] = events[i - n] /\ events[i - n] = log[i]
        BY <1>2, <1>4, <3>1
      <3> QED
        BY <3>2
    <2> QED
      BY <1>1, <1>4, <2>1, <2>2
  <1>7. /\ s \in [next : {"closed", "read", "check", "ended"}, after : Sequence, news : BOOLEAN]
        /\ s.next = "check" /\ s.after = Len(t)
    <2>1. n + Len(events) \in Sequence
      BY <1>1, <1>2 DEF Sequence
    <2> QED
      BY <1>4, <2>1
  <1> HIDE DEF s, t
  <1> QED
    BY <1>1, <1>3, <1>4, <1>5, <1>6, <1>7, StreamStep

\* A client connects or goes, or a stream looks whether its job is over.
LEMMA StreamKeeps ==
    ASSUME ProgressInv, NEW c \in StreamClients, Connect(c) \/ Disconnect(c) \/ CheckJob(c)
    PROVE  ProgressInv'
  <1> USE ProgressAssumption DEF ProgressInv
  <1>1. UNCHANGED <<jobVars, told>> /\ progressFaults' \in 0..MaxProgressFaults
    BY DEF Connect, Disconnect, CheckJob, ProgressFault, JobProgressTypeOK
  <1>2. /\ told[c] \in Seq(JobEvent) /\ Len(told[c]) <= Len(log) /\ Len(log) \in 0..MaxEvents
        /\ \A i \in 1..Len(told[c]) : told[c][i] = log[i]
        /\ stream[c] \in [next : {"closed", "read", "check", "ended"}, after : Sequence,
                          news : BOOLEAN]
        /\ told' = [told EXCEPT ![c] = told[c]]
    BY <1>1 DEF JobProgressTypeOK, ToldIsLog, Sequence
  <1> DEFINE s == stream'[c]
  <1>3. /\ stream' = [stream EXCEPT ![c] = s]
        /\ s \in [next : {"closed", "read", "check", "ended"}, after : Sequence, news : BOOLEAN]
        /\ s.next \in {"read", "check"} => s.after = Len(told[c])
        /\ s.next = "ended" => job.state \in Outcomes
    <2>1. CASE Connect(c)
      <3>1. Len(told[c]) \in Sequence
        BY <1>2 DEF Sequence
      <3> QED
        BY <2>1, <3>1 DEF Connect, JobProgressTypeOK
    <2>2. CASE Disconnect(c)
      BY <1>2, <2>2 DEF Disconnect, JobProgressTypeOK
    <2>3. CASE CheckJob(c)
      BY <1>2, <2>3 DEF CheckJob, JobProgressTypeOK, ToldIsLog
    <2> QED
      BY <2>1, <2>2, <2>3
  <1> HIDE DEF s
  <1> QED
    BY <1>1, <1>2, <1>3, StreamStep

\* A restart of the manager ends every stream; the log stays.
LEMMA RestartKeeps ==
    ASSUME ProgressInv, ManagerRestarts PROVE ProgressInv'
  <1> USE ProgressAssumption DEF ProgressInv
  <1>1. /\ UNCHANGED <<statusReady, job, log, told>> /\ holder' = "free"
        /\ progressFaults' \in 0..MaxProgressFaults
    BY DEF ManagerRestarts, ProgressFault, JobProgressTypeOK
  <1>2. /\ stream' \in [StreamClients -> [next : {"closed", "read", "check", "ended"},
                                          after : Sequence, news : BOOLEAN]]
        /\ \A c \in StreamClients : stream'[c].next = "closed"
    BY DEF ManagerRestarts, JobProgressTypeOK
  <1>3. JobProgressTypeOK'
    BY <1>1, <1>2 DEF JobProgressTypeOK
  <1>4. ToldIsLog' /\ OutcomeIsLast'
    BY <1>1, <1>2 DEF ToldIsLog, OutcomeIsLast, OutcomeTold
  <1> QED
    BY <1>3, <1>4

\* What the invariant says of the log is what is promised to a client.
LEMMA StreamTells ==
    ASSUME ProgressInv PROVE StreamTellsTheJob
  <1> USE DEF ProgressInv, JobProgressTypeOK
  <1>1. ASSUME NEW c \in StreamClients
        PROVE  told[c] = SubSeq(log, 1, Len(told[c])) /\ (stream[c].next = "ended" => job.state \in Outcomes)
    <2>1. /\ told[c] \in Seq(JobEvent) /\ log \in Seq(JobEvent) /\ Len(told[c]) <= Len(log)
          /\ \A i \in 1..Len(told[c]) : told[c][i] = log[i]
      BY DEF ToldIsLog
    <2> DEFINE u == SubSeq(log, 1, Len(told[c]))
    <2>2. u \in Seq(JobEvent) /\ Len(u) = Len(told[c]) /\ \A i \in 1..Len(told[c]) : u[i] = log[i]
      BY <2>1
    <2> HIDE DEF u
    <2>3. told[c] = u
      BY <2>1, <2>2
    <2> QED
      BY <2>3 DEF ToldIsLog, u
  <1>2. DOMAIN log = 1..Len(log)
    OBVIOUS
  <1> QED
    BY <1>1, <1>2 DEF StreamTellsTheJob, OutcomeIsLast

\* Whatever is lost, restarted or reconnected: a client of a job's event stream has
\* the first events of its log, each once and in order; an event with an outcome is
\* followed only by FAILED ones; and a stream ends only when the job has an outcome
\* (LocalJobManager._status_update, _finish_job, _append_event; stream_events).
THEOREM StreamTellsTheJobHolds == JobProgressSpec => [](JobProgressTypeOK /\ StreamTellsTheJob)
  <1>1. ProgressInv /\ [JobProgressNext]_progressVars => ProgressInv'
    <2> SUFFICES ASSUME ProgressInv, [JobProgressNext]_progressVars PROVE ProgressInv'
      OBVIOUS
    <2>1. CASE JobProgressNext
      BY <2>1, WorkKeeps, EndKeeps, AppendKeeps, SendKeeps, StreamKeeps, RestartKeeps
      DEF JobProgressNext
    <2>2. CASE UNCHANGED progressVars
      BY <2>2 DEF progressVars, jobVars, streamVars, ProgressInv, JobProgressTypeOK, ToldIsLog,
         OutcomeIsLast, OutcomeTold
    <2> QED
      BY <2>1, <2>2
  <1>2. ProgressInv => JobProgressTypeOK /\ StreamTellsTheJob
    BY StreamTells DEF ProgressInv
  <1> QED
    BY ProgressInitial, <1>1, <1>2, PTL DEF JobProgressSpec

-----------------------------------------------------------------------------
(*****************************************************************************)
(* The views of a job, for any set of requests and any number of             *)
(* replacements.                                                             *)
(*****************************************************************************)

\* Nobody makes a map tile or an archive of anything but the job's own files.
Made == {"png", "record", "archive"}
MadeOfTheJob == \A f \in Made : file[f] \in {"none", "bad", "one"}

\* What a request at a step has read, what it has open, and what it was answered from.
Sound(kind, step, bytes, open, sent) ==
    /\ step \in {"assembly", "parts", "glb", "reopen"} => bytes = "one"
    /\ step \in {"cached", "png", "record", "reread", "stream", "unpack", "inspect",
                 "directory", "request", "job", "event"} => open = "one"
    /\ step = "lock" /\ kind = "tile" => open = "one"
    /\ sent \in {"none", "one"}
AllSound == \A v \in Views : Sound(viewKind[v], vpc[v], read[v], handle[v], answer[v])

\* What is written of the job directory when its restore comes to a step.
WrittenAt == [s \in {"inspect", "directory", "request", "job", "event"} |->
                CASE s \in {"inspect", "directory"} -> {}
                  [] s = "request" -> {"directory"}
                  [] s = "job" -> {"directory", "request"}
                  [] OTHER -> {"directory", "request", "record"}]
Restoring(v) == vpc[v] \in DOMAIN WrittenAt

\* One restore ever finds the workspace free, and registers what it unpacked.
OneRestore ==
    /\ workspace \in {"none", "taken", "one"}
    /\ registered # {} => workspace = "one"
    /\ \A v \in Views : Restoring(v) => workspace = "one" /\ registered = WrittenAt[vpc[v]]
    /\ \A v, w \in Views : Restoring(v) /\ Restoring(w) => v = w

ViewsInv == JobViewsTypeOK /\ MadeOfTheJob /\ AllSound /\ OneRestore

\* Nothing is read yet, and nothing registered.
LEMMA ViewsInitial == JobViewsInit => ViewsInv
  <1> SUFFICES ASSUME JobViewsInit PROVE ViewsInv
    OBVIOUS
  <1> USE ViewsAssumption DEF JobViewsInit
  <1>1. JobViewsTypeOK
    BY DEF JobViewsTypeOK, ViewFiles, ChainFiles, ViewContent, ViewVersions, ViewSteps
  <1>2. MadeOfTheJob
    BY DEF MadeOfTheJob, Made, ViewFiles
  <1>3. AllSound
    BY DEF AllSound, Sound
  <1>4. OneRestore
    BY DEF OneRestore, Restoring, WrittenAt
  <1> QED
    BY <1>1, <1>2, <1>3, <1>4 DEF ViewsInv

\* A step of one request that is not that of a restore at work: it suffices to look
\* at the step it comes to, and at the files.
LEMMA OneViewMoves ==
    ASSUME ViewsInv, NEW v \in Views, NEW s \in ViewSteps, NEW r \in ViewContent,
           NEW h \in ViewContent, NEW a \in ViewContent,
           vpc' = [vpc EXCEPT ![v] = s], read' = [read EXCEPT ![v] = r],
           handle' = [handle EXCEPT ![v] = h], answer' = [answer EXCEPT ![v] = a],
           Sound(viewKind[v], s, r, h, a), s \notin DOMAIN WrittenAt,
           UNCHANGED <<viewKind, workspace, registered>>,
           file' \in [ViewFiles -> ViewContent], MadeOfTheJob',
           viewLock' \in [{"tiles", "manager"} -> Views \cup {"none"}],
           viewEvents' \in 0..MaxViewEvents
    PROVE  ViewsInv'
  <1>1. JobViewsTypeOK'
    BY DEF JobViewsTypeOK, ViewsInv
  <1>2. AllSound'
    BY DEF AllSound, ViewsInv, JobViewsTypeOK
  <1>3. OneRestore'
    BY DEF OneRestore, ViewsInv, Restoring, JobViewsTypeOK
  <1> QED
    BY <1>1, <1>2, <1>3 DEF ViewsInv

\* A lock that is let go of.
LEMMA ReleasesLock ==
    ASSUME JobViewsTypeOK, NEW v \in Views
    PROVE  Releases(v) \in [{"tiles", "manager"} -> Views \cup {"none"}]
  BY DEF Releases, JobViewsTypeOK

\* The requests that look at the files of the job.
LEMMA ReadingKeeps ==
    ASSUME ViewsInv, NEW v \in Views,
           BeginView(v) \/ OpenDem(v) \/ ReadWorkflow(v) \/ ReadAssembly(v) \/ CheckParts(v)
             \/ CheckGlb(v) \/ Stream(v)
    PROVE  ViewsInv'
  <1> USE ViewsAssumption DEF StoreVars
  <1> DEFINE s == vpc'[v]  r == read'[v]  h == handle'[v]  a == answer'[v]
  <1>0. JobViewsTypeOK /\ MadeOfTheJob /\ AllSound /\ OneRestore
    BY DEF ViewsInv
  <1>1. /\ UNCHANGED <<file, viewKind, workspace, registered, viewEvents>>
        /\ viewLock' \in [{"tiles", "manager"} -> Views \cup {"none"}]
    BY <1>0, ReleasesLock
    DEF BeginView, OpenDem, ReadWorkflow, ReadAssembly, CheckParts, CheckGlb, Stream, Opens,
        RefuseView, JobViewsTypeOK
  <1>2. Sound(viewKind[v], vpc[v], read[v], handle[v], answer[v])
    BY <1>0 DEF AllSound
  <1>3. /\ vpc' = [vpc EXCEPT ![v] = s] /\ read' = [read EXCEPT ![v] = r]
        /\ handle' = [handle EXCEPT ![v] = h] /\ answer' = [answer EXCEPT ![v] = a]
        /\ s \in ViewSteps \ DOMAIN WrittenAt /\ r \in ViewContent /\ h \in ViewContent
        /\ a \in ViewContent /\ Sound(viewKind[v], s, r, h, a)
    <2> USE <1>0, <1>2 DEF JobViewsTypeOK, ViewSteps, WrittenAt, ViewContent, ViewVersions,
            ViewGoes, RefuseView, Opens, ViewFiles, ChainFiles
    <2>1. CASE BeginView(v)
      <3>1. FirstStep(viewKind[v]) \in {"workflow", "dem", "archive", "lock"}
        BY DEF FirstStep, ViewKinds
      <3>2. viewKind[v] = "tile" => FirstStep(viewKind[v]) = "dem"
        BY DEF FirstStep
      <3>3. vpc' = [vpc EXCEPT ![v] = FirstStep(viewKind[v])] /\ UNCHANGED <<read, handle, answer>>
        BY <2>1 DEF BeginView
      <3> QED
        BY <3>1, <3>2, <3>3 DEF Sound
    <2>2. CASE OpenDem(v)
      BY <2>2 DEF OpenDem, Sound
    <2>3. CASE ReadWorkflow(v)
      BY <2>3 DEF ReadWorkflow, Sound
    <2>4. CASE ReadAssembly(v)
      BY <2>4 DEF ReadAssembly, Sound
    <2>5. CASE CheckParts(v)
      BY <2>5 DEF CheckParts, Sound
    <2>6. CASE CheckGlb(v)
      BY <2>6 DEF CheckGlb, Sound
    <2>7. CASE Stream(v)
      BY <2>7 DEF Stream, Sound
    <2> QED
      BY <2>1, <2>2, <2>3, <2>4, <2>5, <2>6, <2>7
  <1>4. viewEvents' \in 0..MaxViewEvents /\ MadeOfTheJob' /\ file' \in [ViewFiles -> ViewContent]
    BY <1>0, <1>1 DEF JobViewsTypeOK, MadeOfTheJob
  <1> HIDE DEF s, r, h, a
  <1> QED
    BY <1>1, <1>3, <1>4, OneViewMoves

\* Map tiles, and the archives.
LEMMA MakingKeeps ==
    ASSUME ViewsInv, NEW v \in Views,
           TakeLock(v) \/ ReadCache(v) \/ WriteTile(v) \/ RereadTile(v) \/ ReopenTile(v)
             \/ PlaceArchive(v) \/ OpenArchive(v)
    PROVE  ViewsInv'
  <1> USE ViewsAssumption DEF StoreVars
  <1> DEFINE s == vpc'[v]  r == read'[v]  h == handle'[v]  a == answer'[v]
  <1>0. JobViewsTypeOK /\ MadeOfTheJob /\ AllSound /\ OneRestore
    BY DEF ViewsInv
  <1>1. UNCHANGED <<viewKind, workspace, registered>> /\ viewEvents' \in 0..MaxViewEvents
    BY <1>0
    DEF TakeLock, ReadCache, WriteTile, RereadTile, ReopenTile, PlaceArchive, OpenArchive,
        ViewFault, JobViewsTypeOK
  <1>5. viewLock' \in [{"tiles", "manager"} -> Views \cup {"none"}]
    <2>1. Releases(v) \in [{"tiles", "manager"} -> Views \cup {"none"}]
      BY <1>0, ReleasesLock
    <2>2. CASE TakeLock(v)
      BY <2>2, <1>0 DEF TakeLock, JobViewsTypeOK
    <2>3. CASE ~ TakeLock(v)
      BY <2>1, <2>3, <1>0
      DEF ReadCache, WriteTile, RereadTile, ReopenTile, PlaceArchive, OpenArchive, Opens,
          RefuseView, JobViewsTypeOK
    <2> QED
      BY <2>2, <2>3
  <1>2. Sound(viewKind[v], vpc[v], read[v], handle[v], answer[v])
    BY <1>0 DEF AllSound
  <1>6. CacheIsValid => file["record"] = "one" /\ file["png"] = "one"
    BY <1>0 DEF CacheIsValid, MadeOfTheJob, Made, ViewVersions
  <1>3. /\ vpc' = [vpc EXCEPT ![v] = s] /\ read' = [read EXCEPT ![v] = r]
        /\ handle' = [handle EXCEPT ![v] = h] /\ answer' = [answer EXCEPT ![v] = a]
        /\ s \in ViewSteps \ DOMAIN WrittenAt /\ r \in ViewContent /\ h \in ViewContent
        /\ a \in ViewContent /\ Sound(viewKind[v], s, r, h, a)
    <2> USE <1>0, <1>2, <1>6 DEF JobViewsTypeOK, ViewSteps, WrittenAt, ViewContent, ViewVersions,
            ViewGoes, RefuseView, Opens, ViewFiles, ChainFiles
    <2>1. CASE TakeLock(v)
      BY <2>1 DEF TakeLock, Sound
    <2>2. CASE ReadCache(v)
      BY <2>2 DEF ReadCache, Sound
    <2>3. CASE WriteTile(v)
      BY <2>3 DEF WriteTile, Sound
    <2>4. CASE RereadTile(v)
      BY <2>4 DEF RereadTile, Sound
    <2>5. CASE ReopenTile(v)
      BY <2>5 DEF ReopenTile, Sound
    <2>6. CASE PlaceArchive(v)
      BY <2>6 DEF PlaceArchive, Sound
    <2>7. CASE OpenArchive(v)
      BY <2>7 DEF OpenArchive, Sound
    <2> QED
      BY <2>1, <2>2, <2>3, <2>4, <2>5, <2>6, <2>7
  <1>4. MadeOfTheJob' /\ file' \in [ViewFiles -> ViewContent]
    <2> USE <1>0, <1>2 DEF JobViewsTypeOK, MadeOfTheJob, Made, ViewFiles, ViewContent, ViewVersions
    <2>1. CASE WriteTile(v)
      <3>1. handle[v] = "one" /\ vpc[v] \in {"png", "record"}
        BY <2>1 DEF WriteTile, Sound
      <3>2. \E c \in {file[vpc[v]], "one"} : file' = [file EXCEPT ![vpc[v]] = c]
        BY <2>1, <3>1 DEF WriteTile
      <3> QED
        BY <3>1, <3>2
    <2>2. CASE PlaceArchive(v)
      <3>1. \E c \in {file["archive"], "none", "one"} : file' = [file EXCEPT !["archive"] = c]
        BY <2>2 DEF PlaceArchive
      <3> QED
        BY <3>1
    <2>3. CASE ~ WriteTile(v) /\ ~ PlaceArchive(v)
      <3>1. UNCHANGED file
        BY <2>3 DEF TakeLock, ReadCache, RereadTile, ReopenTile, OpenArchive
      <3> QED
        BY <3>1
    <2> QED
      BY <2>1, <2>2, <2>3
  <1> HIDE DEF s, r, h, a
  <1> QED
    BY <1>1, <1>3, <1>4, <1>5, OneViewMoves

\* A restore: into the free workspace, and then its job directory piece by piece.
LEMMA RestoringKeeps ==
    ASSUME ViewsInv, NEW v \in Views,
           Unpack(v) \/ Inspect(v) \/ Register(v) \/ AppendRestored(v)
    PROVE  ViewsInv'
  <1> USE ViewsAssumption DEF StoreVars
  <1> DEFINE s == vpc'[v]  a == answer'[v]
  <1>0. JobViewsTypeOK /\ MadeOfTheJob /\ AllSound /\ OneRestore
    BY DEF ViewsInv
  <1>1. /\ UNCHANGED <<viewKind, file, read, handle>> /\ viewEvents' \in 0..MaxViewEvents
        /\ viewLock' \in [{"tiles", "manager"} -> Views \cup {"none"}]
    BY <1>0, ReleasesLock
    DEF Unpack, Inspect, Register, AppendRestored, ViewFault, RefuseView, JobViewsTypeOK
  <1>2. /\ Sound(viewKind[v], vpc[v], read[v], handle[v], answer[v])
        /\ handle[v] = "one"
        /\ vpc[v] \in {"unpack", "inspect", "directory", "request", "job", "event"}
    BY <1>0 DEF AllSound, Unpack, Inspect, Register, AppendRestored, Sound
  <1>3. /\ vpc' = [vpc EXCEPT ![v] = s] /\ answer' = [answer EXCEPT ![v] = a]
        /\ s \in ViewSteps /\ a \in ViewContent
        /\ Sound(viewKind[v], s, read[v], handle[v], a)
        /\ s \in {"inspect", "directory", "request", "job", "event", "done", "refused"}
    <2> USE <1>0, <1>2 DEF JobViewsTypeOK, ViewSteps, ViewContent, ViewVersions, ViewGoes, RefuseView
    <2>1. CASE Unpack(v)
      BY <2>1 DEF Unpack, Sound
    <2>2. CASE Inspect(v)
      BY <2>2 DEF Inspect, Sound
    <2>3. CASE Register(v)
      BY <2>3 DEF Register, Sound
    <2>4. CASE AppendRestored(v)
      BY <2>4 DEF AppendRestored, Sound
    <2> QED
      BY <2>1, <2>2, <2>3, <2>4
  <1>4. \A w \in Views \ {v} : ~ Restoring(w)' \/ (Restoring(w) /\ vpc'[w] = vpc[w])
    BY <1>0, <1>3 DEF Restoring, JobViewsTypeOK
  <1>5. /\ workspace' \in {"none", "taken", "one"}
        /\ registered' # {} => workspace' = "one"
        /\ s \in DOMAIN WrittenAt => workspace' = "one" /\ registered' = WrittenAt[s]
        /\ \A w \in Views \ {v} : ~ Restoring(w) \/ UNCHANGED <<workspace, registered>>
        /\ s \in DOMAIN WrittenAt => \A w \in Views \ {v} : ~ Restoring(w)
    <2> USE <1>0, <1>2 DEF OneRestore, ViewGoes, RefuseView, JobViewsTypeOK
    <2>0. s \in DOMAIN WrittenAt <=> s \in {"inspect", "directory", "request", "job", "event"}
      BY DEF WrittenAt
    <2>1. CASE Unpack(v)
      <3>1. CASE workspace = "none" /\ workspace' = "one" /\ s = "inspect"
        <4>1. registered = {} /\ registered' = {} /\ \A w \in Views : ~ Restoring(w)
          BY <2>1, <3>1 DEF Unpack
        <4> QED
          BY <4>1, <3>1, <2>0 DEF WrittenAt
      <3>2. CASE s = "refused" /\ UNCHANGED workspace
        BY <2>0, <2>1, <3>2 DEF Unpack
      <3> QED
        BY <2>1, <3>1, <3>2 DEF Unpack
    <2>2. CASE ~ Unpack(v)
      <3>1. Restoring(v) /\ workspace = "one" /\ registered = WrittenAt[vpc[v]]
        BY <2>2 DEF Restoring, WrittenAt, Inspect, Register, AppendRestored
      <3>2. \A w \in Views \ {v} : ~ Restoring(w)
        BY <3>1
      <3>3. workspace' = "one"
        BY <2>2, <3>1 DEF Inspect, Register, AppendRestored
      <3>4. s \in DOMAIN WrittenAt => registered' = WrittenAt[s]
        <4>1. CASE Inspect(v)
          BY <3>1, <4>1, <2>0 DEF Inspect, WrittenAt
        <4>2. CASE Register(v)
          BY <3>1, <4>2, <2>0 DEF Register, WrittenAt
        <4>3. CASE AppendRestored(v)
          BY <3>1, <4>3, <2>0 DEF AppendRestored
        <4> QED
          BY <2>2, <4>1, <4>2, <4>3
      <3> QED
        BY <3>1, <3>2, <3>3, <3>4
    <2> QED
      BY <2>1, <2>2
  <1>6. registered' \in {{}, {"directory"}, {"directory", "request"},
                         {"directory", "request", "record"}}
    <2>1. CASE Register(v)
      <3>1. Restoring(v) /\ vpc[v] \in {"directory", "request", "job"}
        BY <2>1 DEF Register, Restoring, WrittenAt
      <3>2. registered = WrittenAt[vpc[v]]
        BY <1>0, <3>1 DEF OneRestore
      <3> QED
        BY <1>0, <2>1, <3>1, <3>2 DEF Register, WrittenAt, JobViewsTypeOK
    <2>2. CASE ~ Register(v)
      BY <1>0, <2>2 DEF Unpack, Inspect, AppendRestored, JobViewsTypeOK
    <2> QED
      BY <2>1, <2>2
  <1>7. JobViewsTypeOK'
    BY <1>0, <1>1, <1>3, <1>5, <1>6 DEF JobViewsTypeOK, ViewContent, ViewVersions
  <1>8. MadeOfTheJob' /\ AllSound'
    BY <1>0, <1>1, <1>3 DEF MadeOfTheJob, AllSound, JobViewsTypeOK
  <1>9. OneRestore'
    <2>1. vpc'[v] = s
      OBVIOUS
    <2>2. ASSUME NEW w \in Views, Restoring(w)'
          PROVE  workspace' = "one" /\ registered' = WrittenAt[vpc'[w]]
      <3>1. CASE w = v
        BY <1>5, <2>2, <3>1 DEF Restoring
      <3>2. CASE w # v
        BY <1>0, <1>4, <1>5, <2>2, <3>2 DEF OneRestore
      <3> QED
        BY <3>1, <3>2
    <2>3. ASSUME NEW w \in Views, NEW u \in Views, Restoring(w)', Restoring(u)' PROVE w = u
      <3>1. CASE w = v \/ u = v
        BY <1>4, <1>5, <2>3, <3>1 DEF Restoring
      <3>2. CASE w # v /\ u # v
        BY <1>0, <1>4, <2>3, <3>2 DEF OneRestore
      <3> QED
        BY <3>1, <3>2
    <2> QED
      BY <1>5, <2>2, <2>3 DEF OneRestore
  <1> QED
    BY <1>7, <1>8, <1>9 DEF ViewsInv

\* The server may die, and files of the workspace may be replaced.
LEMMA OthersKeep ==
    ASSUME ViewsInv, ServerDies \/ (\E f \in ViewFiles : ReplaceFile(f)) \/ UNCHANGED viewVars
    PROVE  ViewsInv'
  <1> USE ViewsAssumption
  <1>0. JobViewsTypeOK /\ MadeOfTheJob /\ AllSound /\ OneRestore
    BY DEF ViewsInv
  <1>1. CASE ServerDies
    <2>1. /\ UNCHANGED <<file, viewKind, read, handle, answer, workspace, registered>>
          /\ viewEvents' \in 0..MaxViewEvents
          /\ viewLock' \in [{"tiles", "manager"} -> Views \cup {"none"}]
      BY <1>0, <1>1 DEF ServerDies, ViewFault, JobViewsTypeOK
    <2>2. \A v \in Views : vpc'[v] \in {vpc[v], "gone"} /\ ~ Restoring(v)'
      BY <1>0, <1>1 DEF ServerDies, Restoring, WrittenAt, JobViewsTypeOK
    <2>3. vpc' \in [Views -> ViewSteps]
      BY <1>0, <1>1 DEF ServerDies, JobViewsTypeOK, ViewSteps
    <2>4. AllSound'
      BY <1>0, <2>1, <2>2 DEF AllSound, Sound
    <2> QED
      BY <1>0, <2>1, <2>2, <2>3, <2>4 DEF ViewsInv, JobViewsTypeOK, MadeOfTheJob, OneRestore
  <1>2. CASE \E f \in ViewFiles : ReplaceFile(f)
    <2>1. PICK f \in ViewFiles : ReplaceFile(f)
      BY <1>2
    <2>2. /\ UNCHANGED <<viewKind, vpc, read, handle, answer, viewLock, workspace, registered>>
          /\ viewEvents' \in 0..MaxViewEvents
      BY <1>0, <2>1 DEF ReplaceFile, ViewFault, JobViewsTypeOK
    <2>3. PICK c \in ViewContent : /\ file' = [file EXCEPT ![f] = c]
                                   /\ f \in Made => c \in {"none", "bad"}
      BY <2>1 DEF ReplaceFile, ViewContent, ViewVersions, Made, ChainFiles
    <2>4. file' \in [ViewFiles -> ViewContent] /\ MadeOfTheJob'
      BY <1>0, <2>3 DEF JobViewsTypeOK, MadeOfTheJob, Made, ViewFiles
    <2> QED
      BY <1>0, <2>2, <2>4 DEF ViewsInv, JobViewsTypeOK, AllSound, OneRestore, Restoring
  <1>3. CASE UNCHANGED viewVars
    BY <1>0, <1>3 DEF viewVars, ViewsInv, JobViewsTypeOK, MadeOfTheJob, AllSound, OneRestore, Restoring
  <1> QED
    BY <1>1, <1>2, <1>3

\* Whatever requests run at the same time, and whatever replaces files below them:
\* a map tile, assembly or archive that is answered was made of the job it is asked
\* for, and a restored job is listed only with the workspace and the request of its
\* archive (WebVisualizationService, VerifiedFileDownload, restore_backup).
THEOREM ViewsAreOfTheirJobHolds ==
    JobViewsSpec => [](JobViewsTypeOK /\ ViewsAreOfTheirJob)
  <1>1. ViewsInv => JobViewsTypeOK /\ ViewsAreOfTheirJob
    BY DEF ViewsInv, ViewsAreOfTheirJob, AllSound, Sound, OneRestore, JobViewsTypeOK
  <1>2. ViewsInv /\ [JobViewsNext]_viewVars => ViewsInv'
    BY ReadingKeeps, MakingKeeps, RestoringKeeps, OthersKeep DEF JobViewsNext, ViewStep
  <1> QED
    BY <1>1, <1>2, ViewsInitial, PTL DEF JobViewsSpec

-----------------------------------------------------------------------------
(*****************************************************************************)
(* Backup and restore, for any set of files and of restores, any number of   *)
(* rewritten workflows, acts of the user and faults.                         *)
(*****************************************************************************)

BackupSteps  == {"idle", "hashing", "writing", "reopening", "publishing"}
BackupRecord == [pc : BackupSteps, claimed : 0..MaxGeneration,
                 hashed : [Parts -> 0..MaxGeneration], written : SUBSET Parts]

\* Before its publication a restore has nothing at the destination; when it has
\* failed its staging directory is gone as well.
Unpublished == {"idle", "filling", "remapping", "checking", "publishing", "failing", "cleaning", "failed"}
OwnPlace ==
    \A r \in Restores :
        /\ rpc[r] \in Unpublished => destination # r
        /\ rpc[r] = "failed" => r \notin staging

\* Only an archive that restored is published.
PublishesOneWorkflow == backup.pc = "publishing" => Reopens(backup.claimed, backup.hashed)

BackupInv == BackupTypeOK /\ OwnPlace /\ PublishesOneWorkflow /\ ArchiveIsOneWorkflow

LEMMA BackupInitial == BackupInit => BackupInv
  <1> SUFFICES ASSUME BackupInit PROVE BackupInv
    OBVIOUS
  <1>1. BackupTypeOK
    BY BackupAssumption DEF BackupInit, BackupTypeOK, Generations, NoBackup, NoArchive, NoParts,
       Archive, RestorePc, Settlement
  <1>2. OwnPlace
    BY BackupAssumption DEF BackupInit, OwnPlace, Unpublished
  <1> QED
    BY <1>1, <1>2 DEF BackupInv, PublishesOneWorkflow, ArchiveIsOneWorkflow, BackupInit, NoBackup

-----------------------------------------------------------------------------
(* The workspace, the backup and the user *)

\* A run rewrites the workspace under the eyes of a backup: no record of it and
\* no restore changes.
LEMMA RewriteKeeps ==
    ASSUME BackupInv, BeginRewrite \/ \E p \in Parts : Rewrite(p) PROVE BackupInv'
  <1> USE BackupAssumption DEF BackupInv, BackupTypeOK
  <1>1. UNCHANGED <<backup, archive, inodes, restoreVars, meddling, backupFaults>>
    BY DEF BeginRewrite, Rewrite
  <1>2. generation' \in Generations
    BY DEF BeginRewrite, Rewrite, Generations
  <1>3. live' \in [Parts -> Generations]
    BY DEF BeginRewrite, Rewrite
  <1> QED
    BY <1>1, <1>2, <1>3 DEF restoreVars, OwnPlace, PublishesOneWorkflow, ArchiveIsOneWorkflow,
       Reopens

\* A step of the backup before its last one changes the backup alone.
LEMMA PrepareKeeps ==
    ASSUME BackupInv, BeginBackup \/ ReopenBackup \/ \E p \in Parts : HashPart(p) \/ WritePart(p)
    PROVE  BackupInv'
  <1> USE BackupAssumption DEF BackupInv, BackupTypeOK, BackupSteps
  <1>1. UNCHANGED <<generation, live, archive, inodes, destination, staging, rpc, pin, reopened,
                    meddling>>
    BY DEF BeginBackup, ReopenBackup, HashPart, WritePart, workspaceVars, restoreVars
  <1>2. backupFaults' \in 0..MaxBackupFaults
    <2>1. backupFaults' = backupFaults \/ BackupFault
      BY DEF BeginBackup, ReopenBackup, HashPart, WritePart
    <2> QED
      BY <2>1 DEF BackupFault
  <1>3. backup' \in BackupRecord /\ PublishesOneWorkflow'
    <2>1. NoBackup \in BackupRecord /\ NoBackup.pc = "idle"
      BY DEF NoBackup, NoParts, BackupRecord
    <2>2. CASE BeginBackup
      <3>1. backup' = [pc |-> "hashing", claimed |-> generation, hashed |-> NoParts,
                       written |-> {}]
        BY <2>2 DEF BeginBackup, NoBackup
      <3>2. NoParts \in [Parts -> 0..MaxGeneration] /\ generation \in 0..MaxGeneration
        BY DEF NoParts, Generations
      <3> QED
        BY <3>1, <3>2 DEF BackupRecord, PublishesOneWorkflow
    <2>3. CASE ReopenBackup
      BY <2>1, <2>3 DEF ReopenBackup, BackupRecord, PublishesOneWorkflow, Reopens
    <2>4. ASSUME NEW p \in Parts, HashPart(p) PROVE backup' \in BackupRecord /\ PublishesOneWorkflow'
      <3>1. live[p] \in 0..MaxGeneration
        BY DEF Generations
      <3>2. PICK hashed \in [Parts -> 0..MaxGeneration], pc \in {"hashing", "writing"} :
                backup' = [backup EXCEPT !.hashed = hashed, !.pc = pc]
        BY <2>4, <3>1 DEF HashPart
      <3> QED
        BY <3>2 DEF BackupRecord, PublishesOneWorkflow
    <2>5. ASSUME NEW p \in Parts, WritePart(p) PROVE backup' \in BackupRecord /\ PublishesOneWorkflow'
      <3>1. \/ backup' = NoBackup
            \/ \E written \in SUBSET Parts, pc \in {"writing", "reopening"} :
                  backup' = [backup EXCEPT !.written = written, !.pc = pc]
        <4>1. CASE live[p] # backup.hashed[p]
          BY <2>5, <4>1 DEF WritePart
        <4>2. CASE live[p] = backup.hashed[p]
          <5> DEFINE written == backup.written \cup {p}
                     pc == IF written = Parts THEN "reopening" ELSE "writing"
          <5>1. backup' = [backup EXCEPT !.written = written, !.pc = pc]
            BY <2>5, <4>2 DEF WritePart
          <5>2. written \in SUBSET Parts /\ pc \in {"writing", "reopening"}
            OBVIOUS
          <5> HIDE DEF written, pc
          <5> QED
            BY <5>1, <5>2
        <4> QED
          BY <4>1, <4>2
      <3> QED
        BY <2>1, <3>1 DEF BackupRecord, PublishesOneWorkflow
    <2> QED
      BY <2>2, <2>3, <2>4, <2>5
  <1> QED
    BY <1>1, <1>2, <1>3 DEF BackupRecord, OwnPlace, ArchiveIsOneWorkflow, Reopens

\* The archive that is published is the one that was restored.
LEMMA PublishBackupKeeps ==
    ASSUME BackupInv, PublishBackup PROVE BackupInv'
  <1> USE BackupAssumption DEF BackupInv, BackupTypeOK, BackupSteps
  <1>1. UNCHANGED <<generation, live, destination, staging, rpc, pin, reopened, meddling>>
    BY DEF PublishBackup, workspaceVars, restoreVars
  <1>2. backup' \in BackupRecord /\ backup'.pc = "idle" /\ backupFaults' \in 0..MaxBackupFaults
    BY DEF PublishBackup, NoBackup, NoParts, BackupRecord, BackupFault
  <1>3. /\ inodes' \in Nat
        /\ \/ archive' = archive
           \/ archive' = [inode |-> inodes', id |-> backup.claimed, parts |-> backup.hashed]
    BY DEF PublishBackup
  <1>4. archive' \in Archive /\ ArchiveIsOneWorkflow'
    BY <1>3 DEF Archive, ArchiveIsOneWorkflow, PublishesOneWorkflow, PublishBackup, Reopens
  <1> QED
    BY <1>1, <1>2, <1>3, <1>4 DEF BackupRecord, OwnPlace, PublishesOneWorkflow

\* The user's archives are whole, and the user's directories nobody's restore.
LEMMA UserKeeps ==
    ASSUME BackupInv, ReplaceArchive \/ ChangeDestination PROVE BackupInv'
  <1> USE BackupAssumption DEF BackupInv, BackupTypeOK
  <1>1. meddling' \in 0..MaxMeddling
    BY DEF ReplaceArchive, ChangeDestination, Meddle
  <1>2. CASE ReplaceArchive
    <2>1. UNCHANGED <<generation, live, backup, destination, staging, rpc, pin, reopened,
                      backupFaults>>
      BY <1>2 DEF ReplaceArchive, workspaceVars, restoreVars
    <2>2. /\ inodes' \in Nat
          /\ \/ archive' = NoArchive
             \/ \E g \in Generations :
                   archive' = [inode |-> inodes', id |-> g, parts |-> [p \in Parts |-> g]]
      BY <1>2 DEF ReplaceArchive
    <2>3. archive' \in Archive /\ ArchiveIsOneWorkflow'
      BY <2>2 DEF NoArchive, NoParts, Archive, Generations, ArchiveIsOneWorkflow, Reopens
    <2> QED
      BY <1>1, <2>1, <2>2, <2>3 DEF OwnPlace, PublishesOneWorkflow, Reopens
  <1>3. CASE ChangeDestination
    <2>1. UNCHANGED <<generation, live, backup, archive, inodes, staging, rpc, pin, reopened,
                      backupFaults>>
          /\ destination' \in {"free", "user"}
      BY <1>3 DEF ChangeDestination, workspaceVars
    <2> QED
      BY <1>1, <2>1 DEF OwnPlace, PublishesOneWorkflow, ArchiveIsOneWorkflow, Reopens
  <1> QED
    BY <1>2, <1>3

-----------------------------------------------------------------------------
(* The restores *)

\* What a restore does to the directories, and from which step to which.
LEMMA RestoreEffect ==
    ASSUME BackupInv, NEW r \in Restores, RestoreStep(r)
    PROVE  /\ UNCHANGED <<generation, live, backup, archive, inodes, meddling>>
           /\ backupFaults' \in 0..MaxBackupFaults
           /\ \E s \in RestorePc : rpc' = [rpc EXCEPT ![r] = s]
           /\ pin' = pin \/ pin' = [pin EXCEPT ![r] = archive]
           /\ reopened' \in {reopened, reopened \cup {r}}
           /\ staging' \in {staging, staging \cup {r}, staging \ {r}}
           /\ \/ destination' = destination
              \/ destination = "free" /\ destination' = r /\ rpc'[r] \notin Unpublished
              \/ destination = r /\ destination' = "free"
           /\ rpc'[r] \in Unpublished => rpc[r] \in Unpublished \/ destination' # r
           /\ rpc'[r] = "failed" => r \notin staging'
  <1> USE BackupAssumption
      DEF BackupInv, BackupTypeOK, workspaceVars, Goes, RestorePc, Settlement, Unpublished
  <1>1. CASE OpenBackup(r)
    BY <1>1 DEF OpenBackup
  <1>2. CASE FillStaging(r)
    BY <1>2 DEF FillStaging, BackupFault
  <1>12. CASE RemapLaunch(r)
    BY <1>12 DEF RemapLaunch, BackupFault
  <1>3. CASE CheckSource(r)
    BY <1>3 DEF CheckSource
  <1>4. CASE PublishRestore(r)
    BY <1>4 DEF PublishRestore, Moved, BackupFault
  <1>5. CASE WriteEvidence(r)
    BY <1>5 DEF WriteEvidence, BackupFault
  <1>6. CASE InspectRestored(r)
    BY <1>6 DEF InspectRestored
  <1>7. CASE FinishRestore(r)
    BY <1>7 DEF FinishRestore, BackupFault
  <1>8. CASE CloseArchive(r)
    BY <1>8 DEF CloseArchive, BackupFault
  <1>9. CASE RollBackPublication(r)
    BY <1>9 DEF RollBackPublication, BackupFault
  <1>10. CASE RemoveStaging(r)
    BY <1>10 DEF RemoveStaging, BackupFault
  <1>11. CASE RestoreDies(r)
    BY <1>11 DEF RestoreDies, BackupFault
  <1> HIDE DEF BackupInv, BackupTypeOK, Goes, RestorePc, Settlement, Unpublished
  <1> QED
    BY <1>1, <1>2, <1>3, <1>4, <1>5, <1>6, <1>7, <1>8, <1>9, <1>10, <1>11, <1>12
       DEF RestoreStep

LEMMA RestoreKeeps ==
    ASSUME BackupInv, NEW r \in Restores, RestoreStep(r) PROVE BackupInv'
  <1> USE BackupAssumption DEF BackupInv, BackupTypeOK
  <1>1. PICK s \in RestorePc : rpc' = [rpc EXCEPT ![r] = s]
    BY RestoreEffect
  <1>2. BackupTypeOK'
    <2>1. rpc' \in [Restores -> RestorePc]
      BY <1>1
    <2>2. pin' \in [Restores -> Archive]
      BY RestoreEffect
    <2>3. destination' \in Restores \cup {"free", "user"} /\ staging' \subseteq Restores
          /\ reopened' \subseteq Restores
      BY RestoreEffect
    <2>4. UNCHANGED <<generation, live, backup, archive, inodes, meddling>>
          /\ backupFaults' \in 0..MaxBackupFaults
      BY RestoreEffect
    <2> QED
      BY <2>1, <2>2, <2>3, <2>4
  <1>3. OwnPlace'
    <2>1. ASSUME NEW q \in Restores \ {r}
          PROVE  /\ rpc'[q] \in Unpublished => destination' # q
                 /\ rpc'[q] = "failed" => q \notin staging'
      <3>1. rpc'[q] = rpc[q]
        BY <1>1, <2>1
      <3> QED
        BY <2>1, <3>1, RestoreEffect DEF OwnPlace
    <2>2. rpc'[r] \in Unpublished => destination' # r
      BY RestoreEffect DEF OwnPlace
    <2>3. rpc'[r] = "failed" => r \notin staging'
      BY RestoreEffect
    <2> QED
      BY <2>1, <2>2, <2>3 DEF OwnPlace
  <1> QED
    BY <1>2, <1>3, RestoreEffect DEF PublishesOneWorkflow, ArchiveIsOneWorkflow, Reopens

-----------------------------------------------------------------------------
(* Theorems *)

\* The invariant of create_workflow_backup and restore_workflow_backup.
THEOREM BackupInvariant == BackupSpec => []BackupInv
  <1>1. BackupInv /\ [BackupNext]_backupVars => BackupInv'
    <2> SUFFICES ASSUME BackupInv, [BackupNext]_backupVars PROVE BackupInv'
      OBVIOUS
    <2>1. CASE UNCHANGED backupVars
      BY <2>1 DEF backupVars, BackupInv, BackupTypeOK, OwnPlace, PublishesOneWorkflow,
         ArchiveIsOneWorkflow, Reopens
    <2> QED
      BY <2>1, RewriteKeeps, PrepareKeeps, PublishBackupKeeps, UserKeeps, RestoreKeeps
         DEF BackupNext
  <1> QED
    BY <1>1, BackupInitial, PTL DEF BackupSpec

\* The state of backup and restore keeps its types.
THEOREM BackupTypeCorrect == BackupSpec => []BackupTypeOK
  BY BackupInvariant, PTL DEF BackupInv

\* create_workflow_backup never publishes an archive whose files are of two
\* workflows, however a run rewrites the workspace meanwhile.
THEOREM ArchiveIsOneWorkflowAlways == BackupSpec => []ArchiveIsOneWorkflow
  BY BackupInvariant, PTL DEF BackupInv

\* A restore that reports a plain failure has left neither a directory at the
\* destination nor its staging directory (restore_workflow_backup).
THEOREM FailedRestoreLeavesNothingAlways == BackupSpec => []FailedRestoreLeavesNothing
  <1>1. BackupInv => FailedRestoreLeavesNothing
    BY DEF BackupInv, OwnPlace, Unpublished, FailedRestoreLeavesNothing
  <1> QED
    BY <1>1, BackupInvariant, PTL

\* A restore moves a directory to a free destination, or its own away from it,
\* whatever raises (_publish_restored_workspace, _rollback_published_restore).
THEOREM RestoreSparesOthersAlways == BackupSpec => RestoreSparesOthers
  <1>1. ASSUME BackupInv, BackupNext, NEW r \in Restores, rpc'[r] # rpc[r],
               destination' # destination
        PROVE  {destination, destination'} = {"free", r}
    <2>1. PICK q \in Restores : RestoreStep(q)
      BY <1>1 DEF BackupNext, BeginRewrite, Rewrite, HashPart, WritePart, BeginBackup,
         ReopenBackup, PublishBackup, ReplaceArchive, ChangeDestination, restoreVars
    <2>2. q = r
      BY <1>1, <2>1, RestoreEffect DEF BackupInv, BackupTypeOK
    <2> QED
      BY <1>1, <2>1, <2>2, RestoreEffect
  <1>2. BackupInv /\ [BackupNext]_backupVars
            => [\A r \in Restores :
                   rpc'[r] # rpc[r] /\ destination' # destination
                       => {destination, destination'} = {"free", r}]_backupVars
    BY <1>1
  <1> QED
    BY <1>2, BackupInvariant, PTL DEF BackupSpec, RestoreSparesOthers

-----------------------------------------------------------------------------
(*****************************************************************************)
(* The cache of map tiles, for any set of tiles and of requests, any limits  *)
(* and any number of losses.                                                 *)
(*****************************************************************************)

LockedSteps == {"reselecting", "rereading", "fetching", "storing"}

\* The lock of a tile is held by who is between looking again and the end.
LocksAreHeld ==
    /\ \A r \in Requests : request[r].pc # "idle" => Tile(r) \in Tiles
    /\ \A r \in Requests, t \in Tiles :
          holds[t] = r <=> Tile(r) = t /\ request[r].pc \in LockedSteps

\* Only the holder of a tile's lock makes its row fresh, so what it read still holds.
LockedReadIsTrue ==
    \A r \in Requests :
        \/ In(r, "fetching") \/ In(r, "storing")
        \/ In(r, "rereading") /\ request[r].read # "fresh"
        => row[Tile(r)] # "fresh"

\* A download beyond the losses is that of the fresh row, or is about to be stored.
DownloadsAreUsed ==
    \A t \in Tiles :
        /\ fetches[t] <= 1 + losses[t]
        /\ row[t] # "fresh" /\ (\A r \in Requests : ~(In(r, "storing") /\ Tile(r) = t))
              => fetches[t] <= losses[t]

RowsAreFew == IsFiniteSet(Rows) /\ TileCacheWithinLimits

TilesInv ==
    ReferenceTilesTypeOK /\ LocksAreHeld /\ LockedReadIsTrue /\ DownloadsAreUsed /\ RowsAreFew

-----------------------------------------------------------------------------
BytesOf(S) == {b \in Tiles \X (1..MaxBytes) : b[1] \in S /\ b[2] <= Size[b[1]]}

\* The bytes of finitely many rows can be counted.
LEMMA BytesAreFinite ==
    ASSUME NEW S, S \subseteq Tiles, IsFiniteSet(S)
    PROVE  IsFiniteSet(BytesOf(S)) /\ Bytes(S) = Cardinality(BytesOf(S)) /\ Bytes(S) \in Nat
  <1>1. IsFiniteSet(1..MaxBytes)
    BY FS_Interval, TileAssumption
  <1>2. IsFiniteSet(S \X (1..MaxBytes))
    BY <1>1, FS_Product
  <1>3. BytesOf(S) \in SUBSET (S \X (1..MaxBytes))
    BY DEF BytesOf
  <1>4. IsFiniteSet(BytesOf(S))
    BY <1>2, <1>3, FS_Subset
  <1>5. Bytes(S) = Cardinality(BytesOf(S))
    BY DEF Bytes, BytesOf
  <1> QED
    BY <1>4, <1>5, FS_CardinalityType

\* Fewer rows are not more rows, nor more bytes.
LEMMA FewerRowsFewerBytes ==
    ASSUME NEW S, NEW T, S \subseteq T, T \subseteq Tiles, IsFiniteSet(T)
    PROVE  IsFiniteSet(S) /\ Cardinality(S) <= Cardinality(T) /\ Bytes(S) <= Bytes(T)
  <1>1. IsFiniteSet(S) /\ Cardinality(S) <= Cardinality(T)
    BY FS_Subset
  <1>2. BytesOf(S) \in SUBSET BytesOf(T)
    BY DEF BytesOf
  <1>3. Cardinality(BytesOf(S)) <= Cardinality(BytesOf(T))
    BY <1>2, BytesAreFinite, FS_Subset
  <1> QED
    BY <1>1, <1>3, BytesAreFinite

\* A row by itself has the bytes of its tile's payload.
LEMMA BytesOfOne ==
    ASSUME NEW t \in Tiles
    PROVE  Cardinality(BytesOf({t})) = Size[t]
  <1> DEFINE f == [n \in 1..Size[t] |-> <<t, n>>]
  <1>1. Size[t] \in Nat /\ Size[t] <= MaxBytes /\ MaxBytes \in Nat
    BY TileAssumption
  <1>2. f \in [1..Size[t] -> BytesOf({t})]
    BY <1>1 DEF BytesOf
  <1>3. f \in Injection(1..Size[t], BytesOf({t}))
    BY <1>2 DEF Injection, IsInjective
  <1>4. ASSUME NEW b \in BytesOf({t})
        PROVE  \E n \in 1..Size[t] : f[n] = b
    <2>1. b \in Tiles \X (1..MaxBytes) /\ b[1] = t /\ b[2] <= Size[t]
      BY DEF BytesOf
    <2>2. b = <<t, b[2]>> /\ b[2] \in 1..Size[t]
      BY <1>1, <2>1
    <2> QED
      BY <2>2
  <1>5. f \in Surjection(1..Size[t], BytesOf({t}))
    BY <1>2, <1>4 DEF Surjection
  <1>6. ExistsBijection(1..Size[t], BytesOf({t}))
    BY <1>3, <1>5 DEF ExistsBijection, Bijection
  <1>7. IsFiniteSet(1..Size[t]) /\ Cardinality(1..Size[t]) = Size[t]
    <2>1. 1 \in Int /\ Size[t] \in Int
      BY <1>1
    <2>2. /\ IsFiniteSet(1..Size[t])
          /\ Cardinality(1..Size[t]) = IF 1 > Size[t] THEN 0 ELSE Size[t] - 1 + 1
      BY <2>1, FS_Interval
    <2> QED
      BY <1>1, <2>2
  <1> QED
    BY <1>6, <1>7, FS_Bijection

\* One row more adds the bytes of its payload: the sum is a sum.
LEMMA BytesWithOneMore ==
    ASSUME NEW S, S \subseteq Tiles, IsFiniteSet(S), NEW t \in Tiles, t \notin S
    PROVE  Bytes(S \cup {t}) = Bytes(S) + Size[t]
  <1>1. IsFiniteSet(S \cup {t}) /\ S \cup {t} \subseteq Tiles
    BY FS_AddElement
  <1>2. IsFiniteSet({t}) /\ {t} \subseteq Tiles
    BY FS_Singleton
  <1>3. BytesOf(S \cup {t}) = BytesOf(S) \cup BytesOf({t})
    BY DEF BytesOf
  <1>4. BytesOf(S) \cap BytesOf({t}) = {}
    BY DEF BytesOf
  <1>5. Cardinality(BytesOf(S) \cup BytesOf({t}))
          = Cardinality(BytesOf(S)) + Cardinality(BytesOf({t})) - Cardinality({})
    <2>1. IsFiniteSet(BytesOf(S)) /\ IsFiniteSet(BytesOf({t}))
      BY <1>2, BytesAreFinite
    <2> QED
      BY <2>1, <1>4, FS_Union
  <1>6. Cardinality({}) = 0
    BY FS_EmptySet
  <1>7. Bytes(S) = Cardinality(BytesOf(S)) /\ Bytes(S) \in Nat
    BY BytesAreFinite
  <1>8. Bytes(S \cup {t}) = Cardinality(BytesOf(S \cup {t}))
    BY <1>1, BytesAreFinite
  <1>9. Size[t] \in Nat
    BY TileAssumption
  <1>10. Cardinality(BytesOf({t})) = Size[t]
    BY BytesOfOne
  <1>11. Cardinality(BytesOf(S \cup {t})) = Cardinality(BytesOf(S)) + Size[t] - 0
    BY <1>3, <1>5, <1>6, <1>10
  <1> QED
    BY <1>7, <1>8, <1>9, <1>11

\* An empty cache, and nobody asks.
LEMMA TilesInitial == TilesInit => TilesInv
  <1> SUFFICES ASSUME TilesInit PROVE TilesInv
    OBVIOUS
  <1> USE TileAssumption
  <1>1. Rows = {}
    BY DEF TilesInit, Rows
  <1>2. \A r \in Requests : request[r] = NoRequest
    BY DEF TilesInit
  <1>3. ReferenceTilesTypeOK
    BY <1>1 DEF TilesInit, ReferenceTilesTypeOK, NoRequest
  <1>4. LocksAreHeld
    BY <1>2 DEF TilesInit, LocksAreHeld, NoRequest, LockedSteps, Tile
  <1>5. LockedReadIsTrue
    BY <1>2 DEF LockedReadIsTrue, NoRequest, In
  <1>6. DownloadsAreUsed
    BY DEF TilesInit, DownloadsAreUsed
  <1>7. IsFiniteSet({}) /\ Cardinality({}) = 0
    BY FS_EmptySet
  <1>8. Bytes({}) = 0
    <2>1. BytesOf({}) = {}
      BY DEF BytesOf
    <2> QED
      BY <2>1, <1>7, BytesAreFinite
  <1>9. RowsAreFew
    BY <1>1, <1>7, <1>8 DEF TilesInit, RowsAreFew, TileCacheWithinLimits
  <1> QED
    BY <1>3, <1>4, <1>5, <1>6, <1>9 DEF TilesInv

(* How the steps below change the rows. *)

\* What the steps that leave rows, downloads and losses alone keep.
LEMMA RowsUntouched ==
    ASSUME TilesInv, ReferenceTilesTypeOK', LocksAreHeld', LockedReadIsTrue',
           UNCHANGED <<row, older, provenance, fetches, losses>>,
           \A r \in Requests, t \in Tiles : In(r, "storing") /\ Tile(r) = t
                                              => (In(r, "storing") /\ Tile(r) = t)'
    PROVE  TilesInv'
  <1>1. Rows' = Rows
    BY DEF Rows
  <1>2. DownloadsAreUsed'
    BY DEF TilesInv, DownloadsAreUsed
  <1>3. RowsAreFew'
    BY <1>1 DEF TilesInv, RowsAreFew, TileCacheWithinLimits, Bytes
  <1> QED
    BY <1>2, <1>3 DEF TilesInv

RequestTypeOK == [pc : {"idle", "selecting", "reading", "locking", "reselecting",
                        "rereading", "fetching", "storing", "served", "refused"},
                  tile : Tiles \cup {"none"}, only : BOOLEAN,
                  read : {"none", "fresh", "stale", "bad"}]

\* A request begins without a lock.
LEMMA GetKeeps ==
    ASSUME TilesInv, NEW r \in Requests, Get(r)
    PROVE  TilesInv'
  <1>1. PICK t \in Tiles, only \in BOOLEAN :
            request' = [request EXCEPT ![r] = [NoRequest EXCEPT !.pc = "selecting", !.tile = t,
                                                                !.only = only]]
    BY DEF Get
  <1> DEFINE new == [NoRequest EXCEPT !.pc = "selecting", !.tile = t, !.only = only]
  <1>2. NoRequest \in RequestTypeOK /\ NoRequest.read = "none"
    BY DEF NoRequest, RequestTypeOK
  <1>3. new \in RequestTypeOK /\ new.pc = "selecting" /\ new.tile = t /\ new.read = "none"
    BY <1>2 DEF RequestTypeOK
  <1>4. request \in [Requests -> RequestTypeOK] /\ request' = [request EXCEPT ![r] = new]
    BY <1>1 DEF TilesInv, ReferenceTilesTypeOK, RequestTypeOK
  <1> HIDE DEF new
  <1>5. request' \in [Requests -> RequestTypeOK] /\ request'[r] = new
        /\ \A q \in Requests : q # r => request'[q] = request[q]
    BY <1>3, <1>4
  <1>6. UNCHANGED <<row, older, provenance, holds, fetches, losses, tileEvents>>
        /\ request[r].pc = "idle"
    BY DEF Get, In
  <1>7. ReferenceTilesTypeOK'
    BY <1>5, <1>6 DEF TilesInv, ReferenceTilesTypeOK, RequestTypeOK, Rows
  <1>8. LocksAreHeld'
    BY <1>3, <1>5, <1>6 DEF TilesInv, LocksAreHeld, Tile, LockedSteps
  <1>9. LockedReadIsTrue'
    BY <1>3, <1>5, <1>6 DEF TilesInv, LockedReadIsTrue, In, Tile
  <1> QED
    BY <1>3, <1>5, <1>6, <1>7, <1>8, <1>9, RowsUntouched DEF In, Tile

\* A SELECT holds for as long as nobody else writes the row; the lock sees to that.
LEMMA SelectRowKeeps ==
    ASSUME TilesInv, NEW r \in Requests, SelectRow(r)
    PROVE  TilesInv'
  <1> DEFINE new == [request[r] EXCEPT !.read = row[Tile(r)],
                        !.pc = IF request[r].pc = "selecting" THEN "reading" ELSE "rereading"]
  <1>1. request[r] \in RequestTypeOK /\ Tile(r) \in Tiles /\ request[r].tile = Tile(r)
    BY DEF TilesInv, ReferenceTilesTypeOK, RequestTypeOK, LocksAreHeld, SelectRow, In, Tile
  <1>2. row[Tile(r)] \in {"none", "fresh", "stale", "bad"}
    BY <1>1 DEF TilesInv, ReferenceTilesTypeOK
  <1>3. /\ new \in RequestTypeOK /\ new.tile = Tile(r) /\ new.read = row[Tile(r)]
        /\ new.pc = IF request[r].pc = "selecting" THEN "reading" ELSE "rereading"
    BY <1>1, <1>2 DEF RequestTypeOK
  <1>4. request \in [Requests -> RequestTypeOK] /\ request' = [request EXCEPT ![r] = new]
    BY DEF TilesInv, ReferenceTilesTypeOK, RequestTypeOK, SelectRow
  <1> HIDE DEF new
  <1>5. request' \in [Requests -> RequestTypeOK] /\ request'[r] = new
        /\ \A q \in Requests : q # r => request'[q] = request[q]
    BY <1>3, <1>4
  <1>6. UNCHANGED <<row, older, provenance, holds, fetches, losses, tileEvents>>
        /\ (request[r].pc = "selecting" \/ request[r].pc = "reselecting")
    BY DEF SelectRow, In
  <1>7. ReferenceTilesTypeOK'
    BY <1>5, <1>6 DEF TilesInv, ReferenceTilesTypeOK, RequestTypeOK, Rows
  <1>8. LocksAreHeld'
    BY <1>1, <1>3, <1>5, <1>6 DEF TilesInv, LocksAreHeld, Tile, LockedSteps
  <1>9. LockedReadIsTrue'
    BY <1>3, <1>5, <1>6 DEF TilesInv, LockedReadIsTrue, In, Tile
  <1> QED
    BY <1>3, <1>5, <1>6, <1>7, <1>8, <1>9, RowsUntouched DEF In, Tile

\* What turning a request to its next step changes.
LEMMA Turned ==
    ASSUME TilesInv, NEW r \in Requests, NEW step, Turns(r, step),
           step \in {"locking", "reselecting", "fetching", "storing", "served", "refused"}
    PROVE  /\ request' \in [Requests -> RequestTypeOK]
           /\ request'[r].pc = step /\ request'[r].tile = Tile(r)
           /\ request'[r].read = request[r].read
           /\ \A q \in Requests : q # r => request'[q] = request[q]
  <1> DEFINE new == [request[r] EXCEPT !.pc = step]
  <1>1. request[r] \in RequestTypeOK
    BY DEF TilesInv, ReferenceTilesTypeOK, RequestTypeOK
  <1>2. new \in RequestTypeOK /\ new.tile = Tile(r) /\ new.read = request[r].read /\ new.pc = step
    BY <1>1 DEF RequestTypeOK, Tile
  <1>3. request \in [Requests -> RequestTypeOK] /\ request' = [request EXCEPT ![r] = new]
    BY DEF TilesInv, ReferenceTilesTypeOK, RequestTypeOK, Turns
  <1> HIDE DEF new
  <1> QED
    BY <1>2, <1>3

\* A lock is given when nobody has it.
LEMMA LockTileKeeps ==
    ASSUME TilesInv, NEW r \in Requests, LockTile(r)
    PROVE  TilesInv'
  <1>1. /\ request' \in [Requests -> RequestTypeOK]
        /\ request'[r].pc = "reselecting" /\ request'[r].tile = Tile(r)
        /\ \A q \in Requests : q # r => request'[q] = request[q]
    BY Turned DEF LockTile
  <1>2. /\ Tile(r) \in Tiles /\ request[r].pc = "locking" /\ holds[Tile(r)] = "none"
        /\ holds' = [holds EXCEPT ![Tile(r)] = r]
        /\ UNCHANGED <<row, older, provenance, fetches, losses, tileEvents>>
    BY DEF LockTile, In, TilesInv, LocksAreHeld
  <1>3. ReferenceTilesTypeOK'
    BY <1>1, <1>2 DEF TilesInv, ReferenceTilesTypeOK, RequestTypeOK, Rows
  <1>4. LocksAreHeld'
    BY <1>1, <1>2, TileAssumption
       DEF TilesInv, ReferenceTilesTypeOK, LocksAreHeld, Tile, LockedSteps
  <1>5. LockedReadIsTrue'
    BY <1>1, <1>2 DEF TilesInv, LockedReadIsTrue, In, Tile
  <1> QED
    BY <1>1, <1>2, <1>3, <1>4, <1>5, RowsUntouched DEF In, Tile

\* A download is that of the lock's holder, who found no fresh row under it.
LEMMA FetchTileKeeps ==
    ASSUME TilesInv, NEW r \in Requests, FetchTile(r)
    PROVE  TilesInv'
  <1> DEFINE t == Tile(r)
  <1>1. /\ t \in Tiles /\ request[r].pc = "fetching" /\ holds[t] = r /\ row[t] # "fresh"
        /\ UNCHANGED <<row, older, provenance, losses>>
    BY DEF FetchTile, In, TilesInv, LocksAreHeld, LockedReadIsTrue, LockedSteps
  <1>2. Rows' = Rows
    BY <1>1 DEF Rows
  <1>3. RowsAreFew'
    BY <1>1, <1>2 DEF TilesInv, RowsAreFew, TileCacheWithinLimits, Bytes
  <1>4. ASSUME fetches' = [fetches EXCEPT ![t] = @ + 1], Turns(r, "storing"),
               UNCHANGED <<holds, tileEvents>>
        PROVE  TilesInv'
    <2>1. /\ request' \in [Requests -> RequestTypeOK]
          /\ request'[r].pc = "storing" /\ request'[r].tile = t
          /\ \A q \in Requests : q # r => request'[q] = request[q]
      BY <1>4, Turned
    <2>2. ReferenceTilesTypeOK'
      <3>1. fetches \in [Tiles -> Nat]
        BY DEF TilesInv, ReferenceTilesTypeOK
      <3>2. fetches[t] \in Nat /\ fetches' = [fetches EXCEPT ![t] = fetches[t] + 1]
        BY <3>1, <1>1, <1>4
      <3>3. fetches' \in [Tiles -> Nat]
        <4> DEFINE more == fetches[t] + 1
        <4>1. more \in Nat
          BY <3>2
        <4>2. fetches' = [fetches EXCEPT ![t] = more]
          BY <3>2
        <4> HIDE DEF more
        <4> QED
          BY <3>1, <4>1, <4>2
      <3> QED
        BY <1>1, <1>2, <1>4, <2>1, <3>3 DEF TilesInv, ReferenceTilesTypeOK, RequestTypeOK
    <2>3. LocksAreHeld'
      BY <1>1, <1>4, <2>1 DEF TilesInv, LocksAreHeld, Tile, LockedSteps
    <2>4. LockedReadIsTrue'
      BY <1>1, <2>1 DEF TilesInv, LockedReadIsTrue, In, Tile
    <2>5. fetches[t] <= losses[t] /\ fetches[t] \in Nat /\ losses[t] \in Nat
      <3>1. \A q \in Requests : ~(In(q, "storing") /\ Tile(q) = t)
        BY <1>1 DEF TilesInv, LocksAreHeld, LockedSteps, In
      <3> QED
        BY <1>1, <3>1 DEF TilesInv, DownloadsAreUsed, ReferenceTilesTypeOK
    <2>6. DownloadsAreUsed'
      <3> SUFFICES ASSUME NEW u \in Tiles
                   PROVE  /\ fetches'[u] <= 1 + losses'[u]
                          /\ row'[u] # "fresh"
                             /\ (\A q \in Requests : ~(In(q, "storing") /\ Tile(q) = u)')
                             => fetches'[u] <= losses'[u]
        BY DEF DownloadsAreUsed
      <3>1. CASE u = t
        <4>1. fetches'[u] = fetches[t] + 1 /\ losses'[u] = losses[t]
          BY <1>1, <1>4, <3>1 DEF TilesInv, ReferenceTilesTypeOK
        <4>2. (In(r, "storing") /\ Tile(r) = u)'
          BY <2>1, <3>1 DEF In, Tile
        <4> QED
          BY <2>5, <4>1, <4>2
      <3>2. CASE u # t
        <4>1. fetches'[u] = fetches[u] /\ losses'[u] = losses[u] /\ row'[u] = row[u]
          BY <1>1, <1>4, <3>2 DEF TilesInv, ReferenceTilesTypeOK
        <4>2. \A q \in Requests : In(q, "storing") /\ Tile(q) = u
                                    => (In(q, "storing") /\ Tile(q) = u)'
          BY <1>1, <2>1 DEF In, Tile
        <4> QED
          BY <4>1, <4>2 DEF TilesInv, DownloadsAreUsed
      <3> QED
        BY <3>1, <3>2
    <2> QED
      BY <1>3, <2>2, <2>3, <2>4, <2>6 DEF TilesInv
  <1>5. ASSUME TileEvent, Turns(r, "refused"), holds' = [holds EXCEPT ![t] = "none"],
               UNCHANGED fetches
        PROVE  TilesInv'
    <2>1. /\ request' \in [Requests -> RequestTypeOK]
          /\ request'[r].pc = "refused" /\ request'[r].tile = t
          /\ \A q \in Requests : q # r => request'[q] = request[q]
      BY <1>5, Turned
    <2>2. ReferenceTilesTypeOK'
      <3>1. tileEvents' \in 0..MaxTileEvents
        BY <1>5, TileAssumption DEF TileEvent, TilesInv, ReferenceTilesTypeOK
      <3> QED
        BY <1>1, <1>2, <1>5, <2>1, <3>1 DEF TilesInv, ReferenceTilesTypeOK, RequestTypeOK
    <2>3. LocksAreHeld'
      BY <1>1, <1>5, <2>1, TileAssumption
         DEF TilesInv, ReferenceTilesTypeOK, LocksAreHeld, Tile, LockedSteps
    <2>4. LockedReadIsTrue'
      BY <1>1, <2>1 DEF TilesInv, LockedReadIsTrue, In, Tile
    <2> QED
      BY <1>1, <1>5, <2>1, <2>2, <2>3, <2>4, RowsUntouched DEF In, Tile
  <1> QED
    BY <1>4, <1>5 DEF FetchTile

\* What the end of a read does to the rows.
LEMMA EndsReadKeeps ==
    ASSUME TilesInv, NEW r \in Requests, EndsRead(r), Tile(r) \in Tiles,
           request' \in [Requests -> RequestTypeOK],
           holds' \in [Tiles -> Requests \cup {"none"}],
           UNCHANGED <<fetches, tileEvents>>,
           \A q \in Requests, t \in Tiles : In(q, "storing") /\ Tile(q) = t
                                              => (In(q, "storing") /\ Tile(q) = t)'
    PROVE  /\ ReferenceTilesTypeOK' /\ DownloadsAreUsed' /\ RowsAreFew'
           /\ \A t \in Tiles : row'[t] = "fresh" => row[t] = "fresh"
  <1> DEFINE t == Tile(r)
  <1> USE DEF Tile
  <1>1. CASE request[r].read = "bad"
    <2>1. /\ row' = [row EXCEPT ![t] = "none"]
          /\ older' = Among(Rows \ {t})
          /\ provenance' = provenance \ {t}
          /\ losses' = [u \in Tiles |-> losses[u]
                          + (IF u \in ({t} \cap {x \in Tiles : row[x] = "fresh"}) THEN 1 ELSE 0)]
      BY <1>1 DEF EndsRead, Lose
    <2>2. Rows' = Rows \ {t} /\ row' \in [Tiles -> {"none", "fresh", "stale", "bad"}]
      BY <2>1 DEF Rows, TilesInv, ReferenceTilesTypeOK
    <2>3. losses' \in [Tiles -> Nat]
      BY <2>1 DEF TilesInv, ReferenceTilesTypeOK
    <2>4. ReferenceTilesTypeOK'
      <3>1. older' \subseteq Rows' \X Rows' /\ provenance' \subseteq Tiles
        BY <2>1, <2>2 DEF Among, TilesInv, ReferenceTilesTypeOK
      <3>2. \A u, v \in Rows' : u # v => (<<u, v>> \in older' <=> <<v, u>> \notin older')
        BY <2>1, <2>2 DEF Among, TilesInv, ReferenceTilesTypeOK
      <3> QED
        BY <2>2, <2>3, <3>1, <3>2 DEF TilesInv, ReferenceTilesTypeOK, RequestTypeOK
    <2>5. RowsAreFew'
      <3>1. IsFiniteSet(Rows) /\ Rows \subseteq Tiles /\ Rows' \subseteq Rows
        BY <2>2 DEF TilesInv, RowsAreFew, Rows
      <3>2. /\ IsFiniteSet(Rows') /\ Cardinality(Rows') <= Cardinality(Rows)
            /\ Bytes(Rows \ {t}) <= Bytes(Rows)
        BY <2>2, <3>1, FewerRowsFewerBytes
      <3>3. Bytes(Rows)' = Bytes(Rows \ {t})
        BY <2>2 DEF Bytes
      <3>4. /\ Cardinality(Rows) \in Nat /\ Cardinality(Rows)' \in Nat
            /\ Bytes(Rows) \in Nat /\ Bytes(Rows \ {t}) \in Nat
        BY <2>2, <3>1, <3>2, FS_CardinalityType, BytesAreFinite
      <3>5. provenance' \subseteq Rows'
        BY <2>1, <2>2 DEF TilesInv, RowsAreFew, TileCacheWithinLimits
      <3> QED
        BY <3>2, <3>3, <3>4, <3>5, TileAssumption DEF TilesInv, RowsAreFew, TileCacheWithinLimits
    <2>6. DownloadsAreUsed'
      <3> SUFFICES ASSUME NEW u \in Tiles
                   PROVE  /\ fetches'[u] <= 1 + losses'[u]
                          /\ row'[u] # "fresh"
                             /\ (\A q \in Requests : ~(In(q, "storing") /\ Tile(q) = u)')
                             => fetches'[u] <= losses'[u]
        BY DEF DownloadsAreUsed
      <3>1. fetches'[u] = fetches[u] /\ fetches[u] \in Nat /\ losses[u] \in Nat
        BY DEF TilesInv, ReferenceTilesTypeOK
      <3>2. losses'[u] = IF u = t /\ row[u] = "fresh" THEN losses[u] + 1 ELSE losses[u]
        BY <2>1, <3>1
      <3>3. row'[u] = IF u = t THEN "none" ELSE row[u]
        BY <2>1 DEF TilesInv, ReferenceTilesTypeOK
      <3> QED
        BY <3>1, <3>2, <3>3 DEF TilesInv, DownloadsAreUsed
    <2>7. \A u \in Tiles : row'[u] = "fresh" => row[u] = "fresh"
      BY <2>1 DEF TilesInv, ReferenceTilesTypeOK
    <2> QED
      BY <2>4, <2>5, <2>6, <2>7
  <1>2. CASE request[r].read # "bad" /\ request[r].read # "none" /\ row[t] # "none"
    <2>1. /\ older' = Among(Rows \ {t}) \cup (Rows \ {t}) \X {t}
          /\ UNCHANGED <<row, provenance, losses>>
      BY <1>2 DEF EndsRead
    <2>2. Rows' = Rows /\ t \in Rows
      BY <1>2, <2>1 DEF Rows
    <2>3. ReferenceTilesTypeOK'
      <3>1. older' \subseteq Rows' \X Rows'
        BY <2>1, <2>2 DEF Among, TilesInv, ReferenceTilesTypeOK
      <3>2. \A u, v \in Rows' : u # v => (<<u, v>> \in older' <=> <<v, u>> \notin older')
        BY <2>1, <2>2 DEF Among, TilesInv, ReferenceTilesTypeOK
      <3> QED
        BY <2>1, <2>2, <3>1, <3>2 DEF TilesInv, ReferenceTilesTypeOK, RequestTypeOK
    <2>4. RowsAreFew'
      BY <2>1, <2>2 DEF TilesInv, RowsAreFew, TileCacheWithinLimits, Bytes
    <2>5. DownloadsAreUsed'
      BY <2>1 DEF TilesInv, DownloadsAreUsed
    <2> QED
      BY <2>1, <2>3, <2>4, <2>5
  <1>3. CASE ~(request[r].read = "bad")
             /\ ~(request[r].read # "bad" /\ request[r].read # "none" /\ row[t] # "none")
    <2>1. UNCHANGED <<row, older, provenance, losses>>
      BY <1>3 DEF EndsRead
    <2>2. Rows' = Rows
      BY <2>1 DEF Rows
    <2>3. ReferenceTilesTypeOK'
      BY <2>1, <2>2 DEF TilesInv, ReferenceTilesTypeOK, RequestTypeOK
    <2>4. RowsAreFew'
      BY <2>1, <2>2 DEF TilesInv, RowsAreFew, TileCacheWithinLimits, Bytes
    <2>5. DownloadsAreUsed'
      BY <2>1 DEF TilesInv, DownloadsAreUsed
    <2> QED
      BY <2>1, <2>3, <2>4, <2>5
  <1> QED
    BY <1>1, <1>2, <1>3

\* A read before the lock may delete a row that was stored meanwhile: a loss.
LEMMA ReadRowKeeps ==
    ASSUME TilesInv, NEW r \in Requests, ReadRow(r)
    PROVE  TilesInv'
  <1>1. PICK step \in {"locking", "served", "refused"} : Turns(r, step)
    BY DEF ReadRow
  <1>2. /\ request' \in [Requests -> RequestTypeOK]
        /\ request'[r].pc = step /\ request'[r].tile = Tile(r)
        /\ \A q \in Requests : q # r => request'[q] = request[q]
    BY <1>1, Turned
  <1>3. /\ Tile(r) \in Tiles /\ request[r].pc = "reading"
        /\ EndsRead(r) /\ UNCHANGED <<holds, fetches, tileEvents>>
    BY DEF ReadRow, In, TilesInv, LocksAreHeld
  <1>4. holds' \in [Tiles -> Requests \cup {"none"}]
    BY <1>3 DEF TilesInv, ReferenceTilesTypeOK
  <1>5. \A q \in Requests, t \in Tiles : In(q, "storing") /\ Tile(q) = t
                                           => (In(q, "storing") /\ Tile(q) = t)'
    BY <1>2, <1>3 DEF In, Tile
  <1>6. /\ ReferenceTilesTypeOK' /\ DownloadsAreUsed' /\ RowsAreFew'
        /\ \A t \in Tiles : row'[t] = "fresh" => row[t] = "fresh"
    BY <1>2, <1>3, <1>4, <1>5, EndsReadKeeps
  <1>7. LocksAreHeld'
    BY <1>2, <1>3 DEF TilesInv, LocksAreHeld, Tile, LockedSteps
  <1>8. LockedReadIsTrue'
    <2> SUFFICES ASSUME NEW q \in Requests,
                        \/ In(q, "fetching")' \/ In(q, "storing")'
                        \/ In(q, "rereading")' /\ request'[q].read # "fresh"
                 PROVE  row'[request'[q].tile] # "fresh"
      BY DEF LockedReadIsTrue, Tile
    <2>1. q # r
      BY <1>1, <1>2 DEF In
    <2>2. request'[q] = request[q] /\ request[q].tile \in Tiles /\ row[Tile(q)] # "fresh"
      BY <1>2, <2>1 DEF TilesInv, LockedReadIsTrue, LocksAreHeld, In, Tile
    <2> QED
      BY <1>6, <2>2 DEF Tile
  <1> QED
    BY <1>6, <1>7, <1>8 DEF TilesInv

\* A read under the lock serves a fresh row, or leaves none.
LEMMA ReadLockedKeeps ==
    ASSUME TilesInv, NEW r \in Requests, ReadLocked(r)
    PROVE  TilesInv'
  <1>1. PICK step \in {"served", "fetching"} :
            /\ Turns(r, step)
            /\ step = "served" => holds' = [holds EXCEPT ![Tile(r)] = "none"]
            /\ step = "fetching" => request[r].read # "fresh" /\ UNCHANGED holds
    BY DEF ReadLocked
  <1>2. /\ request' \in [Requests -> RequestTypeOK]
        /\ request'[r].pc = step /\ request'[r].tile = Tile(r)
        /\ \A q \in Requests : q # r => request'[q] = request[q]
    BY <1>1, Turned
  <1>3. /\ Tile(r) \in Tiles /\ request[r].pc = "rereading" /\ holds[Tile(r)] = r
        /\ EndsRead(r) /\ UNCHANGED <<fetches, tileEvents>>
    BY DEF ReadLocked, In, TilesInv, LocksAreHeld, LockedSteps
  <1>4. holds' \in [Tiles -> Requests \cup {"none"}]
    BY <1>1 DEF TilesInv, ReferenceTilesTypeOK
  <1>5. \A q \in Requests, t \in Tiles : In(q, "storing") /\ Tile(q) = t
                                           => (In(q, "storing") /\ Tile(q) = t)'
    BY <1>2, <1>3 DEF In, Tile
  <1>6. /\ ReferenceTilesTypeOK' /\ DownloadsAreUsed' /\ RowsAreFew'
        /\ \A t \in Tiles : row'[t] = "fresh" => row[t] = "fresh"
    BY <1>2, <1>3, <1>4, <1>5, EndsReadKeeps
  <1>7. LocksAreHeld'
    <2>1. CASE step = "served"
      BY <1>1, <1>2, <1>3, <2>1, TileAssumption
         DEF TilesInv, ReferenceTilesTypeOK, LocksAreHeld, Tile, LockedSteps
    <2>2. CASE step = "fetching"
      BY <1>1, <1>2, <1>3, <2>2 DEF TilesInv, LocksAreHeld, Tile, LockedSteps
    <2> QED
      BY <2>1, <2>2
  <1>8. LockedReadIsTrue'
    <2> SUFFICES ASSUME NEW q \in Requests,
                        \/ In(q, "fetching")' \/ In(q, "storing")'
                        \/ In(q, "rereading")' /\ request'[q].read # "fresh"
                 PROVE  row'[request'[q].tile] # "fresh"
      BY DEF LockedReadIsTrue, Tile
    <2>1. request'[q].tile \in Tiles /\ row[request'[q].tile] # "fresh"
      <3>1. CASE q = r
        BY <1>1, <1>2, <1>3, <3>1 DEF TilesInv, LockedReadIsTrue, In, Tile
      <3>2. CASE q # r
        BY <1>2, <3>2 DEF TilesInv, LockedReadIsTrue, LocksAreHeld, In, Tile
      <3> QED
        BY <3>1, <3>2
    <2> QED
      BY <1>6, <2>1
  <1> QED
    BY <1>6, <1>7, <1>8 DEF TilesInv

\* A row that expires or is damaged is a loss.
LEMMA RowEndsKeeps ==
    ASSUME TilesInv, NEW t \in Tiles, NEW how \in {"stale", "bad"}, RowEnds(t, how)
    PROVE  TilesInv'
  <1>1. /\ row[t] = "fresh" /\ row' = [row EXCEPT ![t] = how] /\ TileEvent
        /\ losses' = [u \in Tiles |-> losses[u] + (IF u \in {t} THEN 1 ELSE 0)]
        /\ UNCHANGED <<older, provenance, holds, request, fetches>>
    BY DEF RowEnds, Lose
  <1>2. Rows' = Rows /\ row' \in [Tiles -> {"none", "fresh", "stale", "bad"}]
    BY <1>1 DEF Rows, TilesInv, ReferenceTilesTypeOK
  <1>3. losses' \in [Tiles -> Nat] /\ tileEvents' \in 0..MaxTileEvents
    BY <1>1, TileAssumption DEF TilesInv, ReferenceTilesTypeOK, TileEvent
  <1>4. ReferenceTilesTypeOK'
    BY <1>1, <1>2, <1>3 DEF TilesInv, ReferenceTilesTypeOK
  <1>5. LocksAreHeld'
    BY <1>1 DEF TilesInv, LocksAreHeld, Tile
  <1>6. \A u \in Tiles : row'[u] = "fresh" => row[u] = "fresh"
    BY <1>1 DEF TilesInv, ReferenceTilesTypeOK
  <1>7. LockedReadIsTrue'
    BY <1>1, <1>6 DEF TilesInv, LockedReadIsTrue, LocksAreHeld, In, Tile
  <1>8. RowsAreFew'
    BY <1>1, <1>2 DEF TilesInv, RowsAreFew, TileCacheWithinLimits, Bytes
  <1>9. DownloadsAreUsed'
    <2> SUFFICES ASSUME NEW u \in Tiles
                 PROVE  /\ fetches'[u] <= 1 + losses'[u]
                        /\ row'[u] # "fresh"
                           /\ (\A q \in Requests : ~(In(q, "storing") /\ Tile(q) = u)')
                           => fetches'[u] <= losses'[u]
      BY DEF DownloadsAreUsed
    <2>1. fetches'[u] = fetches[u] /\ fetches[u] \in Nat /\ losses[u] \in Nat
      BY <1>1 DEF TilesInv, ReferenceTilesTypeOK
    <2>2. losses'[u] = IF u = t THEN losses[u] + 1 ELSE losses[u]
      BY <1>1, <2>1
    <2>3. u # t => row'[u] = row[u]
      BY <1>1 DEF TilesInv, ReferenceTilesTypeOK
    <2> QED
      BY <1>1, <2>1, <2>2, <2>3 DEF TilesInv, DownloadsAreUsed, In, Tile
  <1> QED
    BY <1>4, <1>5, <1>7, <1>8, <1>9 DEF TilesInv

\* A store evicts until the new row fits, and gives the lock back.
LEMMA StoreTileKeeps ==
    ASSUME TilesInv, NEW r \in Requests, StoreTile(r)
    PROVE  TilesInv'
  <1> DEFINE t == Tile(r)
  <1>1. PICK kept \in Evicted(Rows \ {t}, t) :
            LET gone == Rows \ (kept \cup {t}) IN
            /\ row' = [x \in Tiles |-> IF x = t THEN "fresh" ELSE IF x \in gone THEN "none"
                                       ELSE row[x]]
            /\ older' = Among(kept) \cup kept \X {t}
            /\ \E p \in {{}, {t}} :
                  provenance' = ((provenance \ {t}) \cup p) \cap (kept \cup {t})
            /\ Lose({x \in gone : row[x] = "fresh"})
            /\ holds' = [holds EXCEPT ![t] = "none"]
    BY DEF StoreTile
  <1> DEFINE gone == Rows \ (kept \cup {t})
  <1>2. /\ row' = [x \in Tiles |-> IF x = t THEN "fresh" ELSE IF x \in gone THEN "none"
                                   ELSE row[x]]
        /\ older' = Among(kept) \cup kept \X {t}
        /\ provenance' \subseteq kept \cup {t}
        /\ losses' = [u \in Tiles |-> losses[u]
                        + (IF u \in {x \in gone : row[x] = "fresh"} THEN 1 ELSE 0)]
        /\ holds' = [holds EXCEPT ![t] = "none"]
    BY <1>1 DEF Lose
  <1>3. /\ t \in Tiles /\ request[r].pc = "storing" /\ holds[t] = r
        /\ UNCHANGED <<fetches, tileEvents>> /\ Turns(r, "served")
    BY DEF StoreTile, In, TilesInv, LocksAreHeld, LockedSteps
  <1>4. kept \subseteq Rows \ {t} /\ Fits(kept, t)
    BY <1>1 DEF Evicted, Newest
  <1>5. /\ request' \in [Requests -> RequestTypeOK]
        /\ request'[r].pc = "served" /\ request'[r].tile = t
        /\ \A q \in Requests : q # r => request'[q] = request[q]
    BY <1>3, Turned
  <1>6. Rows' = kept \cup {t} /\ row' \in [Tiles -> {"none", "fresh", "stale", "bad"}]
    BY <1>2, <1>3, <1>4 DEF Rows, TilesInv, ReferenceTilesTypeOK
  <1>7. losses' \in [Tiles -> Nat]
    BY <1>2 DEF TilesInv, ReferenceTilesTypeOK
  <1>8. ReferenceTilesTypeOK'
    <2>1. older' \subseteq Rows' \X Rows'
      BY <1>2, <1>4, <1>6 DEF Among, TilesInv, ReferenceTilesTypeOK
    <2>2. \A u, v \in Rows' : u # v => (<<u, v>> \in older' <=> <<v, u>> \notin older')
      BY <1>2, <1>4, <1>6 DEF Among, TilesInv, ReferenceTilesTypeOK
    <2>3. provenance' \subseteq Tiles
      BY <1>2, <1>3, <1>4 DEF Rows
    <2>4. holds' \in [Tiles -> Requests \cup {"none"}]
      BY <1>2 DEF TilesInv, ReferenceTilesTypeOK
    <2> QED
      BY <1>3, <1>5, <1>6, <1>7, <2>1, <2>2, <2>3, <2>4
         DEF TilesInv, ReferenceTilesTypeOK, RequestTypeOK
  <1>9. RowsAreFew'
    <2>1. IsFiniteSet(Rows) /\ Rows \subseteq Tiles
      BY DEF TilesInv, RowsAreFew, Rows
    <2>2. IsFiniteSet(kept) /\ kept \subseteq Tiles /\ t \notin kept
      BY <1>4, <2>1, FewerRowsFewerBytes
    <2>3. /\ IsFiniteSet(kept \cup {t})
          /\ Cardinality(kept \cup {t}) = Cardinality(kept) + 1
          /\ Cardinality(kept) \in Nat
      BY <2>2, FS_AddElement, FS_CardinalityType
    <2>4. Bytes(kept \cup {t}) = Bytes(kept) + Size[t]
      BY <1>3, <2>2, BytesWithOneMore
    <2>5. Bytes(Rows)' = Bytes(kept \cup {t})
      BY <1>6 DEF Bytes
    <2>6. Cardinality(kept) < MaxTiles /\ Bytes(kept) + Size[t] <= MaxBytes
      BY <1>4 DEF Fits
    <2>7. Cardinality(Rows)' = Cardinality(kept) + 1 /\ IsFiniteSet(Rows)'
      BY <1>6, <2>3
    <2>8. Cardinality(Rows)' <= MaxTiles /\ Bytes(Rows)' <= MaxBytes
      BY <2>3, <2>4, <2>5, <2>6, <2>7, TileAssumption
    <2> QED
      BY <1>2, <1>6, <2>7, <2>8 DEF RowsAreFew, TileCacheWithinLimits
  <1>10. LocksAreHeld'
    BY <1>2, <1>3, <1>5, TileAssumption
       DEF TilesInv, ReferenceTilesTypeOK, LocksAreHeld, Tile, LockedSteps
  <1>11. LockedReadIsTrue'
    <2> SUFFICES ASSUME NEW q \in Requests,
                        \/ In(q, "fetching")' \/ In(q, "storing")'
                        \/ In(q, "rereading")' /\ request'[q].read # "fresh"
                 PROVE  row'[request'[q].tile] # "fresh"
      BY DEF LockedReadIsTrue, Tile
    <2>1. q # r /\ request'[q] = request[q]
      BY <1>5 DEF In
    <2>2. /\ request[q].tile \in Tiles /\ row[request[q].tile] # "fresh"
          /\ holds[request[q].tile] = q
      BY <2>1 DEF TilesInv, LockedReadIsTrue, LocksAreHeld, LockedSteps, In, Tile
    <2>3. request[q].tile # t
      BY <1>3, <2>1, <2>2
    <2> QED
      BY <1>2, <2>1, <2>2, <2>3
  <1>12. DownloadsAreUsed'
    <2> SUFFICES ASSUME NEW u \in Tiles
                 PROVE  /\ fetches'[u] <= 1 + losses'[u]
                        /\ row'[u] # "fresh"
                           /\ (\A q \in Requests : ~(In(q, "storing") /\ Tile(q) = u)')
                           => fetches'[u] <= losses'[u]
      BY DEF DownloadsAreUsed
    <2>1. fetches'[u] = fetches[u] /\ fetches[u] \in Nat /\ losses[u] \in Nat
      BY <1>3 DEF TilesInv, ReferenceTilesTypeOK
    <2>2. losses'[u] = IF u \in gone /\ row[u] = "fresh" THEN losses[u] + 1 ELSE losses[u]
      BY <1>2, <2>1
    <2>3. row'[u] = IF u = t THEN "fresh" ELSE IF u \in gone THEN "none" ELSE row[u]
      BY <1>2
    <2>4. u # t => \A q \in Requests : In(q, "storing") /\ Tile(q) = u
                                         => (In(q, "storing") /\ Tile(q) = u)'
      BY <1>3, <1>5 DEF In, Tile
    <2> QED
      BY <2>1, <2>2, <2>3, <2>4 DEF TilesInv, DownloadsAreUsed
  <1> QED
    BY <1>8, <1>9, <1>10, <1>11, <1>12 DEF TilesInv

\* Every step of the cache keeps the invariant.
LEMMA TilesStep == TilesInv /\ [TilesNext]_tileVars => TilesInv'
  <1> SUFFICES ASSUME TilesInv, [TilesNext]_tileVars PROVE TilesInv'
    OBVIOUS
  <1>1. ASSUME NEW r \in Requests, RequestStep(r) PROVE TilesInv'
    BY <1>1, GetKeeps, SelectRowKeeps, ReadRowKeeps, LockTileKeeps, ReadLockedKeeps,
       FetchTileKeeps, StoreTileKeeps DEF RequestStep
  <1>2. ASSUME NEW t \in Tiles, NEW how \in {"stale", "bad"}, RowEnds(t, how) PROVE TilesInv'
    BY <1>2, RowEndsKeeps
  <1>3. CASE UNCHANGED tileVars
    <2> USE <1>3 DEF tileVars
    <2>1. Rows' = Rows
      BY DEF Rows
    <2>2. ReferenceTilesTypeOK'
      BY <2>1 DEF TilesInv, ReferenceTilesTypeOK
    <2>3. LocksAreHeld' /\ LockedReadIsTrue'
      BY DEF TilesInv, LocksAreHeld, LockedReadIsTrue, In, Tile
    <2> QED
      BY <2>2, <2>3, RowsUntouched DEF In, Tile
  <1> QED
    BY <1>1, <1>2, <1>3 DEF TilesNext

\* Whatever tiles are asked for at the same time, and whatever expires or is
\* damaged: the cache has no more rows and bytes than its limits, no provenance
\* without a row, and a tile is downloaded once, and again only for a row that was
\* lost (ReferenceTileCache.get, _read, _store).
THEOREM TileCacheIsSoundHolds == TilesSpec => [](ReferenceTilesTypeOK /\ TileCacheIsSound)
  <1>1. TilesInv => ReferenceTilesTypeOK /\ TileCacheIsSound
    BY DEF TilesInv, RowsAreFew, DownloadsAreUsed, TileCacheIsSound, DownloadsAreShared
  <1> QED
    BY <1>1, TilesInitial, TilesStep, PTL DEF TilesSpec

===============================================================================
