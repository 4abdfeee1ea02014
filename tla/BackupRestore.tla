---------------------------- MODULE BackupRestore ----------------------------
(***************************************************************************)
(* create_workflow_backup and restore_workflow_backup                      *)
(* (workflow/maintenance.py).  A backup hashes the files of a workspace a  *)
(* run may be rewriting, archives them, restores the archive privately and *)
(* publishes it.  Restores to one destination fill a staging directory,    *)
(* publish it, reopen it there, and take it back when anything fails.      *)
(* Moves may raise before or after they took effect; the user meddles with *)
(* the archive and the destination; a restoring process may die.           *)
(***************************************************************************)
EXTENDS Naturals

CONSTANTS
    Parts,           \* files of the workspace
    Restores,        \* calls of restore_workflow_backup
    MaxGeneration,   \* bound: workflows the workspace is rewritten to
    MaxMeddling,     \* bound: acts of the user
    MaxBackupFaults  \* bound: failed writes, raising moves, deaths

ASSUME BackupAssumption ==
    /\ MaxGeneration \in Nat \ {0} /\ MaxMeddling \in Nat /\ MaxBackupFaults \in Nat
    /\ Restores \cap {"free", "user"} = {}

VARIABLES
    generation,    \* the workflow the workspace is of, or is being rewritten to
    live,          \* the workflow each file is of
    backup,        \* [pc, claimed, hashed, written]
    archive,       \* the file at the archive path: [inode, id, parts]
    inodes,        \* archives made so far
    destination,   \* whose directory is at the destination: a restore's, "user", "free"
    staging,       \* restores whose staging directory exists
    rpc,           \* next effect, or the outcome, of each restore
    pin,           \* the archive each restore holds open
    reopened,      \* restores whose published directory was strictly reopened
    meddling, backupFaults

backupVars == <<generation, live, backup, archive, inodes, destination, staging,
                rpc, pin, reopened, meddling, backupFaults>>
workspaceVars == <<generation, live>>
restoreVars   == <<destination, staging, rpc, pin, reopened>>

Generations == 1..MaxGeneration
NoParts     == [p \in Parts |-> 0]
NoArchive   == [inode |-> 0, id |-> 0, parts |-> NoParts]
Archive     == [inode : Nat, id : 0..MaxGeneration, parts : [Parts -> 0..MaxGeneration]]
NoBackup    == [pc |-> "idle", claimed |-> 0, hashed |-> NoParts, written |-> {}]

Settlement  == {"ok", "failed", "kept", "dead"}
RestorePc   == {"idle", "filling", "remapping", "checking", "publishing", "evidence",
                "inspecting", "finishing", "closing", "failing", "undoing", "cleaning"} \cup Settlement

BackupTypeOK ==
    /\ generation \in Generations /\ live \in [Parts -> Generations]
    /\ backup \in [pc : {"idle", "hashing", "writing", "reopening", "publishing"},
                   claimed : 0..MaxGeneration, hashed : [Parts -> 0..MaxGeneration],
                   written : SUBSET Parts]
    /\ archive \in Archive /\ inodes \in Nat
    /\ destination \in Restores \cup {"free", "user"}
    /\ staging \subseteq Restores
    /\ rpc \in [Restores -> RestorePc]
    /\ pin \in [Restores -> Archive]
    /\ reopened \subseteq Restores
    /\ meddling \in 0..MaxMeddling /\ backupFaults \in 0..MaxBackupFaults

BackupInit ==
    /\ generation = 1 /\ live = [p \in Parts |-> 1]
    /\ backup = NoBackup /\ archive = NoArchive /\ inodes = 0
    /\ destination = "free" /\ staging = {}
    /\ rpc = [r \in Restores |-> "idle"] /\ pin = [r \in Restores |-> NoArchive]
    /\ reopened = {} /\ meddling = 0 /\ backupFaults = 0

BackupFault == backupFaults < MaxBackupFaults /\ backupFaults' = backupFaults + 1

\* What strict verification accepts: every file is of the workflow it claims.
Reopens(id, parts) == \A p \in Parts : parts[p] = id

-----------------------------------------------------------------------------
(* A run rewrites the workspace file by file *)

BeginRewrite ==
    /\ generation < MaxGeneration /\ Reopens(generation, live)
    /\ generation' = generation + 1
    /\ UNCHANGED <<live, backup, archive, inodes, restoreVars, meddling, backupFaults>>

Rewrite(p) ==
    /\ live[p] # generation
    /\ live' = [live EXCEPT ![p] = generation]
    /\ UNCHANGED <<generation, backup, archive, inodes, restoreVars, meddling, backupFaults>>

-----------------------------------------------------------------------------
(* The backup *)

\* inspect_workflow_workspace; the id of its summary goes into the manifest.
BeginBackup ==
    /\ backup.pc = "idle" /\ inodes = 0
    /\ Reopens(generation, live)
    /\ backup' = [NoBackup EXCEPT !.pc = "hashing", !.claimed = generation]
    /\ UNCHANGED <<workspaceVars, archive, inodes, restoreVars, meddling, backupFaults>>

HashPart(p) ==
    /\ backup.pc = "hashing" /\ backup.hashed[p] = 0
    /\ LET hashed == [backup.hashed EXCEPT ![p] = live[p]] IN
       backup' = [backup EXCEPT !.hashed = hashed,
                    !.pc = IF \E q \in Parts : hashed[q] = 0 THEN "hashing" ELSE "writing"]
    /\ UNCHANGED <<workspaceVars, archive, inodes, restoreVars, meddling, backupFaults>>

\* A file that is not the one that was hashed ends the backup.
WritePart(p) ==
    /\ backup.pc = "writing" /\ p \notin backup.written
    /\ LET written == backup.written \cup {p} IN
       backup' = IF live[p] # backup.hashed[p] THEN NoBackup
                 ELSE [backup EXCEPT !.written = written,
                         !.pc = IF written = Parts THEN "reopening" ELSE "writing"]
    /\ UNCHANGED <<workspaceVars, archive, inodes, restoreVars, meddling, backupFaults>>

\* Mutant: members and hashes are reread, the workflow is not restored.
ReopenMembers ==
    /\ backup.pc = "reopening"
    /\ backup' = [backup EXCEPT !.pc = "publishing"]
    /\ UNCHANGED <<workspaceVars, archive, inodes, restoreVars, meddling, backupFaults>>

\* Members reread, then restored into a private directory that is removed.
ReopenBackup ==
    /\ backup.pc = "reopening"
    /\ \/ /\ Reopens(backup.claimed, backup.hashed)
          /\ backup' = [backup EXCEPT !.pc = "publishing"]
          /\ UNCHANGED backupFaults
       \/ /\ ~ Reopens(backup.claimed, backup.hashed)
          /\ backup' = NoBackup /\ UNCHANGED backupFaults
       \/ BackupFault /\ backup' = NoBackup
    /\ UNCHANGED <<workspaceVars, archive, inodes, restoreVars, meddling>>

\* A rename that replaces nothing.  If it raises, the endpoints decide; when it
\* took effect but is perhaps not durable the call fails and the archive stays.
PublishBackup ==
    /\ backup.pc = "publishing" /\ backup' = NoBackup
    /\ \/ /\ archive = NoArchive
          /\ inodes' = inodes + 1
          /\ archive' = [inode |-> inodes', id |-> backup.claimed, parts |-> backup.hashed]
          /\ UNCHANGED backupFaults
       \/ archive # NoArchive /\ UNCHANGED <<archive, inodes, backupFaults>>
       \/ BackupFault /\ UNCHANGED <<archive, inodes>>
    /\ UNCHANGED <<workspaceVars, restoreVars, meddling>>

-----------------------------------------------------------------------------
(* One restore *)

Goes(r, step) == rpc' = [rpc EXCEPT ![r] = step]

\* Nothing is at the destination; the archive is opened, verified and kept open.
OpenBackup(r) ==
    /\ rpc[r] = "idle" /\ destination = "free" /\ archive # NoArchive
    /\ pin' = [pin EXCEPT ![r] = archive]
    /\ staging' = staging \cup {r}
    /\ Goes(r, "filling")
    /\ UNCHANGED <<workspaceVars, backup, archive, inodes, destination, reopened,
                   meddling, backupFaults>>

\* Members are copied.
FillStaging(r) ==
    /\ rpc[r] = "filling"
    /\ \/ Goes(r, "remapping") /\ UNCHANGED backupFaults
       \/ BackupFault /\ Goes(r, "failing")
    /\ UNCHANGED <<workspaceVars, backup, archive, inodes, destination, staging, pin,
                   reopened, meddling>>

\* The paths of the launch lead into the destination from now on, those of external
\* files to their copies; a launch that cannot be read or written ends the restore.
RemapLaunch(r) ==
    /\ rpc[r] = "remapping"
    /\ \/ Goes(r, "checking") /\ UNCHANGED backupFaults
       \/ BackupFault /\ Goes(r, "failing")
    /\ UNCHANGED <<workspaceVars, backup, archive, inodes, destination, staging, pin,
                   reopened, meddling>>

\* _require_verified_backup_source: the path names the open archive.
CheckSource(r) ==
    /\ rpc[r] = "checking"
    /\ Goes(r, IF archive = pin[r] THEN "publishing" ELSE "failing")
    /\ UNCHANGED <<workspaceVars, backup, archive, inodes, destination, staging, pin,
                   reopened, meddling, backupFaults>>

Moved(r) == destination' = r /\ staging' = staging \ {r}

\* Mutant: a rename that raised is taken for one that did not happen.
PublishUnreconciled(r) ==
    /\ rpc[r] = "publishing"
    /\ \/ destination = "free" /\ Moved(r) /\ Goes(r, "evidence") /\ UNCHANGED backupFaults
       \/ destination = "free" /\ Moved(r) /\ BackupFault /\ Goes(r, "failing")
       \/ /\ destination # "free" /\ Goes(r, "failing")
          /\ UNCHANGED <<destination, staging, backupFaults>>
    /\ UNCHANGED <<workspaceVars, backup, archive, inodes, pin, reopened, meddling>>

\* A rename that replaces nothing.  A rename that raised after it took effect
\* counts as published; one that may not be durable is left alone.
PublishRestore(r) ==
    /\ rpc[r] = "publishing"
    /\ \/ destination = "free" /\ Moved(r) /\ Goes(r, "evidence") /\ UNCHANGED backupFaults
       \/ destination = "free" /\ Moved(r) /\ BackupFault /\ Goes(r, "evidence")
       \/ destination = "free" /\ Moved(r) /\ BackupFault /\ Goes(r, "kept")
       \/ BackupFault /\ Goes(r, "failing") /\ UNCHANGED <<destination, staging>>
       \/ /\ destination # "free" /\ Goes(r, "failing")
          /\ UNCHANGED <<destination, staging, backupFaults>>
    /\ UNCHANGED <<workspaceVars, backup, archive, inodes, pin, reopened, meddling>>

\* Files of the destination are written only into the published directory.
WriteEvidence(r) ==
    /\ rpc[r] = "evidence"
    /\ \/ destination = r /\ Goes(r, "inspecting") /\ UNCHANGED backupFaults
       \/ destination # r /\ Goes(r, "undoing") /\ UNCHANGED backupFaults
       \/ BackupFault /\ Goes(r, "undoing")
    /\ UNCHANGED <<workspaceVars, backup, archive, inodes, destination, staging, pin,
                   reopened, meddling>>

\* inspect_workflow_workspace against the evidence and the open archive.
InspectRestored(r) ==
    /\ rpc[r] = "inspecting"
    /\ IF destination = r /\ Reopens(pin[r].id, pin[r].parts)
       THEN reopened' = reopened \cup {r} /\ Goes(r, "finishing")
       ELSE UNCHANGED reopened /\ Goes(r, "undoing")
    /\ UNCHANGED <<workspaceVars, backup, archive, inodes, destination, staging, pin,
                   meddling, backupFaults>>

\* Summary and report, then the directory and the archive once more.
FinishRestore(r) ==
    /\ rpc[r] = "finishing"
    /\ \/ /\ Goes(r, IF destination = r /\ archive = pin[r] THEN "closing" ELSE "undoing")
          /\ UNCHANGED backupFaults
       \/ BackupFault /\ Goes(r, "undoing")
    /\ UNCHANGED <<workspaceVars, backup, archive, inodes, destination, staging, pin,
                   reopened, meddling>>

\* The archive is closed; a failure takes the restore back as well.
CloseArchive(r) ==
    /\ rpc[r] = "closing"
    /\ \/ Goes(r, "ok") /\ UNCHANGED backupFaults
       \/ BackupFault /\ Goes(r, "undoing")
    /\ UNCHANGED <<workspaceVars, backup, archive, inodes, destination, staging, pin,
                   reopened, meddling>>

\* Mutant: what is at the destination is moved, whosever it is.
RollBackByPath(r) ==
    /\ rpc[r] = "undoing"
    /\ destination' = "free" /\ staging' = staging \cup {r} /\ Goes(r, "cleaning")
    /\ UNCHANGED <<workspaceVars, backup, archive, inodes, pin, reopened, meddling,
                   backupFaults>>

\* Only the directory this restore published is moved back; in doubt it is kept.
RollBackPublication(r) ==
    /\ rpc[r] = "undoing"
    /\ \/ /\ destination = r
          /\ destination' = "free" /\ staging' = staging \cup {r}
          /\ \/ Goes(r, "cleaning") /\ UNCHANGED backupFaults
             \/ BackupFault /\ Goes(r, "cleaning")
             \/ BackupFault /\ Goes(r, "kept")
       \/ /\ destination # r /\ Goes(r, "kept")
          /\ UNCHANGED <<destination, staging, backupFaults>>
       \/ BackupFault /\ Goes(r, "kept") /\ UNCHANGED <<destination, staging>>
    /\ UNCHANGED <<workspaceVars, backup, archive, inodes, pin, reopened, meddling>>

\* A failure before the publication has nothing to move back.
RemoveStaging(r) ==
    /\ rpc[r] \in {"failing", "cleaning"}
    /\ \/ staging' = staging \ {r} /\ Goes(r, "failed") /\ UNCHANGED backupFaults
       \/ BackupFault /\ Goes(r, "kept") /\ UNCHANGED staging
    /\ UNCHANGED <<workspaceVars, backup, archive, inodes, destination, pin, reopened,
                   meddling>>

RestoreDies(r) ==
    /\ rpc[r] \notin Settlement \cup {"idle"} /\ BackupFault
    /\ Goes(r, "dead")
    /\ UNCHANGED <<workspaceVars, backup, archive, inodes, destination, staging, pin,
                   reopened, meddling>>

-----------------------------------------------------------------------------
(* The user *)

Meddle == meddling < MaxMeddling /\ meddling' = meddling + 1

\* Another backup is put at the archive path, or the archive is deleted.
ReplaceArchive ==
    /\ Meddle
    /\ \/ /\ inodes' = inodes + 1
          /\ \E g \in Generations :
                archive' = [inode |-> inodes', id |-> g, parts |-> [p \in Parts |-> g]]
       \/ archive # NoArchive /\ archive' = NoArchive /\ UNCHANGED inodes
    /\ UNCHANGED <<workspaceVars, backup, restoreVars, backupFaults>>

\* The destination is moved away, or a directory is created there.
ChangeDestination ==
    /\ Meddle
    /\ destination' = IF destination = "free" THEN "user" ELSE "free"
    /\ UNCHANGED <<workspaceVars, backup, archive, inodes, staging, rpc, pin, reopened,
                   backupFaults>>

RestoreStep(r) ==
    \/ OpenBackup(r) \/ FillStaging(r) \/ RemapLaunch(r) \/ CheckSource(r)
    \/ PublishRestore(r) \/ WriteEvidence(r) \/ InspectRestored(r) \/ FinishRestore(r) \/ CloseArchive(r)
    \/ RollBackPublication(r) \/ RemoveStaging(r) \/ RestoreDies(r)

BackupNext ==
    \/ BeginRewrite \/ \E p \in Parts : Rewrite(p) \/ HashPart(p) \/ WritePart(p)
    \/ BeginBackup \/ ReopenBackup \/ PublishBackup
    \/ \E r \in Restores : RestoreStep(r)
    \/ ReplaceArchive \/ ChangeDestination

BackupSpec == BackupInit /\ [][BackupNext]_backupVars

-----------------------------------------------------------------------------
(* Properties *)

\* The archive is of one workflow, though runs rewrite the workspace while its
\* files are hashed and copied.
ArchiveIsOneWorkflow == archive # NoArchive => Reopens(archive.id, archive.parts)

\* A restore that fails, and does not ask for an inspection, leaves nothing at
\* the destination and no staging directory.
FailedRestoreLeavesNothing ==
    \A r \in Restores : rpc[r] = "failed" => r \notin staging /\ destination # r

\* A restore neither replaces nor takes away a directory that is not its own,
\* and no other restore takes away what it published.
RestoreSparesOthers ==
    [][\A r \in Restores :
          rpc'[r] # rpc[r] /\ destination' # destination
              => {destination, destination'} = {"free", r}]_backupVars

=============================================================================
