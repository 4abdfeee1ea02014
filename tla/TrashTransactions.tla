------------------------- MODULE TrashTransactions -------------------------
(***************************************************************************)
(* Batch delete, restore and purge of LocalJobManager (web/jobs.py), and   *)
(* what start() does about an operation that was cut short.                *)
(*                                                                         *)
(* All operations and start() hold the manager lock, so one of them runs   *)
(* at a time.  Between any two of its effects on the disk the process may  *)
(* die, and each effect may raise, before or after it has happened.        *)
(* Workers do not take the lock: they write to their workspaces at any     *)
(* time.  Files and directories are all that survives a death.             *)
(***************************************************************************)
EXTENDS Naturals, FiniteSets

CONSTANTS
    Jobs,         \* job identifiers
    Workspaces,   \* workspace paths below workspace_root
    WorkspaceOf,  \* job -> its workspace_dir; jobs may share one
    Batches,      \* batch identifiers (uuid4)
    MaxVersions,  \* bound: how often workers write to workspaces
    MaxCrashes,   \* bound: how often the manager process may die
    Faults        \* the effects that may raise

FaultKinds == {"write", "mkdir", "move", "remove"}
DirEntries == {"workspaces/", "trash.json", "jobs/", "batch/"}

ASSUME NamesAreDistinct ==
    /\ Jobs \cap Workspaces = {}
    /\ (Jobs \cup Workspaces) \cap DirEntries = {}
    /\ "none" \notin Batches
ASSUME WorkspaceAssumption == WorkspaceOf \in [Jobs -> Workspaces]
ASSUME BoundsAssumption == MaxVersions \in Nat /\ MaxCrashes \in Nat
ASSUME FaultsAssumption == Faults \subseteq FaultKinds

Items == Jobs \cup Workspaces

VARIABLES
    life,      \* job -> "absent", "active" or "terminal"
    live,      \* jobs whose directory is below jobs_dir
    version,   \* workspace -> inventory of the directory at its path, 0: none
    fresh,     \* the inventory most recently handed out
    record,    \* batch -> the JobTrashRecord its files carry
    tx,        \* batches with a transaction.json
    action,    \* batch -> kind of its action.json
    phase,     \* batch -> phase in its action.json
    manifest,  \* batch -> purge_entries from purge_index on
    audit,     \* batch -> its terminal audit record
    sdir,      \* batch -> name under which its state directory exists
    wdir,      \* batch -> name under which its workspace directory exists
    roots,     \* batches whose state directory has a jobs/ directory
    records,   \* batches whose state directory has a trash.json
    held,      \* batch -> job and workspace directories inside the two
    mgr,       \* "down", "starting", "up", or "refused": start() raised a check
    cur,       \* the batch the lock holder works on
    pc,        \* its next step
    todo,      \* items its current loop still has to visit
    crashes

clients == <<life, live, version, fresh>>
intents == <<record, tx, action, phase, manifest, audit>>
dirs    == <<sdir, wdir, roots, records, held>>
control == <<mgr, cur, pc, todo>>
vars    == <<life, live, version, fresh, record, tx, action, phase, manifest,
             audit, sdir, wdir, roots, records, held, mgr, cur, pc, todo, crashes>>

\* moved: workspace -> the inventory it was quarantined with, 0 if it was not;
\* kept: workspaces a RECORD_ONLY batch found in place.
TrashRecord == [jobs : SUBSET Jobs, moved : [Workspaces -> 0..MaxVersions],
                kept : SUBSET Workspaces]

DirNames == {"none", "creating", "batch", "purging"}

ApplySteps    == {"stage", "stage-jobs", "stage-workspaces"}
GuardedSteps  == {"move-out", "write-record", "publish", "publish-workspaces",
                  "publish-state", "verify", "commit"}
RollbackSteps == {"move-back", "drop-record", "drop-jobs", "drop-state",
                  "drop-workspaces", "withdraw"}
RestoreSteps  == {"restore", "restore-items", "restore-final", "empty-workspaces",
                  "empty-record", "empty-jobs", "empty-state", "restore-audit",
                  "restore-end"}
PurgeSteps    == {"purge", "purge-workspaces", "purge-state", "purge-final",
                  "purge-entry", "purge-cursor", "purge-audit", "purge-end"}
Steps == {"idle"} \cup ApplySteps \cup GuardedSteps \cup RollbackSteps
            \cup RestoreSteps \cup PurgeSteps

\* Every variable has its type.
TypeOK ==
    /\ life \in [Jobs -> {"absent", "active", "terminal"}]
    /\ live \subseteq Jobs
    /\ version \in [Workspaces -> 0..MaxVersions]
    /\ fresh \in 0..MaxVersions
    /\ record \in [Batches -> TrashRecord]
    /\ tx \subseteq Batches
    /\ action \in [Batches -> {"none", "restore", "purge"}]
    /\ phase \in [Batches -> {"prepared", "moving", "finalizing"}]
    /\ manifest \in [Batches -> SUBSET (Items \cup DirEntries)]
    /\ audit \in [Batches -> {"none", "restored", "purged"}]
    /\ sdir \in [Batches -> DirNames]
    /\ wdir \in [Batches -> DirNames]
    /\ roots \subseteq Batches
    /\ records \subseteq Batches
    /\ held \in [Batches -> SUBSET Items]
    /\ mgr \in {"down", "starting", "up", "refused"}
    /\ cur \in Batches \cup {"none"}
    /\ pc \in Steps
    /\ pc = "idle" <=> cur = "none"
    /\ todo \subseteq Items \cup DirEntries
    /\ crashes \in 0..MaxCrashes

Init ==
    /\ life = [j \in Jobs |-> "absent"] /\ live = {}
    /\ version = [w \in Workspaces |-> 0] /\ fresh = 0
    /\ record = [b \in Batches |-> [jobs |-> {}, moved |-> [w \in Workspaces |-> 0],
                                    kept |-> {}]]
    /\ tx = {} /\ action = [b \in Batches |-> "none"]
    /\ phase = [b \in Batches |-> "prepared"]
    /\ manifest = [b \in Batches |-> {}]
    /\ audit = [b \in Batches |-> "none"]
    /\ sdir = [b \in Batches |-> "none"] /\ wdir = [b \in Batches |-> "none"]
    /\ roots = {} /\ records = {}
    /\ held = [b \in Batches |-> {}]
    /\ mgr = "down" /\ cur = "none" /\ pc = "idle" /\ todo = {}
    /\ crashes = 0

-----------------------------------------------------------------------------
(* Queries on the disk *)

JobsIn(b)       == held[b] \cap Jobs
WorkspacesIn(b) == held[b] \cap Workspaces
Moved(b)        == {w \in Workspaces : record[b].moved[w] # 0}
Moves(b)        == record[b].jobs \cup Moved(b)
References(w)   == {j \in live : WorkspaceOf[j] = w}
Exists(w)       == version[w] # 0
AtHome(i)       == IF i \in Jobs THEN i \in live ELSE Exists(i)
CanServe        == mgr = "up" /\ pc = "idle"

\* Each loop visits the workspaces before the jobs.
NextItems == IF todo \cap Workspaces # {} THEN todo \cap Workspaces ELSE todo

\* _transaction_move_location, and the two-path form of _restore_inventory_move.
OneCopy(b, i) == i \in held[b] <=> ~AtHome(i)

\* _deletion_inventory of the copy at home equals the recorded one.  A job
\* directory does not change once its job is terminal.
Unchanged(b, i) == i \in Workspaces => version[i] = record[b].moved[i]

\* _verify_trash_record on the published batch.
Verified(b) ==
    /\ sdir[b] = "batch" /\ b \in records /\ b \in roots
    /\ JobsIn(b) = record[b].jobs
    /\ WorkspacesIn(b) = Moved(b)
    /\ \A w \in Moved(b) : ~Exists(w)
    /\ wdir[b] = "batch" <=> Moved(b) # {}

-----------------------------------------------------------------------------
(* Control *)

\* An effect happens, raises without happening, or happens and raises.
Outcomes(kind) == {"done"} \cup (IF kind \in Faults THEN {"raised", "late"} ELSE {})

Go(step, loop) == pc' = step /\ todo' = loop /\ UNCHANGED <<mgr, cur>>
Return == pc' = "idle" /\ cur' = "none" /\ todo' = {} /\ UNCHANGED mgr

\* An exception aborts start().  Out of the try block of apply_batch_delete it
\* leads to the rollback, provided transaction.json is still there; any other
\* goes to the caller.
Raise(cause) ==
    IF mgr = "starting"
    THEN /\ mgr' = IF cause = "check" THEN "refused" ELSE "down"
         /\ pc' = "idle" /\ cur' = "none" /\ todo' = {}
    ELSE IF pc \in GuardedSteps /\ cur \in tx'
    THEN Go("move-back", Moves(cur))
    ELSE Return

\* The control flow after an effect with outcome out.
Then(out, step, loop) == IF out = "done" THEN Go(step, loop) ELSE Raise("io")

-----------------------------------------------------------------------------
(* Jobs and workers *)

Submit(j) ==
    /\ CanServe /\ life[j] = "absent"
    /\ life' = [life EXCEPT ![j] = "active"]
    /\ live' = live \cup {j}
    /\ UNCHANGED <<version, fresh, intents, dirs, control, crashes>>

\* A worker creates its workspace or writes to it, also while no manager runs.
WriteWorkspace(w) ==
    /\ \E j \in References(w) : life[j] = "active"
    /\ fresh < MaxVersions
    /\ fresh' = fresh + 1
    /\ version' = [version EXCEPT ![w] = fresh + 1]
    /\ UNCHANGED <<life, live, intents, dirs, control, crashes>>

\* refresh finds the job completed, failed or cancelled.
Settle(j) ==
    /\ CanServe /\ life[j] = "active"
    /\ life' = [life EXCEPT ![j] = "terminal"]
    /\ UNCHANGED <<live, version, fresh, intents, dirs, control, crashes>>

-----------------------------------------------------------------------------
(* apply_batch_delete *)

\* plan_batch_delete: the batch is terminal, and takes no workspace that a job
\* outside it refers to.
Eligible(S, mode) ==
    /\ S # {} /\ S \subseteq live
    /\ \A j \in S : life[j] = "terminal"
    /\ mode = "quarantine" => \A j \in S : References(WorkspaceOf[j]) \subseteq S

\* The plan is made again under the lock and has to be the confirmed one, so
\* that plan, record and transaction.json are one step.
ApplyBatchDelete(b, S, mode) ==
    LET existing == {w \in {WorkspaceOf[j] : j \in S} : Exists(w)}
        taken    == IF mode = "quarantine" THEN existing ELSE {}
    IN  /\ CanServe /\ Eligible(S, mode)
        /\ record[b].jobs = {}
        /\ \E out \in Outcomes("write") :
             /\ IF out = "raised" THEN UNCHANGED <<record, tx>>
                ELSE /\ record' = [record EXCEPT ![b] =
                            [jobs  |-> S,
                             moved |-> [w \in Workspaces |-> IF w \in taken THEN version[w] ELSE 0],
                             kept  |-> existing \ taken]]
                     /\ tx' = tx \cup {b}
             /\ IF out = "done" THEN pc' = "stage" /\ cur' = b /\ UNCHANGED <<mgr, todo>>
                ELSE UNCHANGED control
        /\ UNCHANGED <<clients, action, phase, manifest, audit, dirs, crashes>>

\* The staging directories are made outside the try block.
CreateStaging ==
    /\ UNCHANGED <<clients, intents, records, held, crashes>>
    /\ \E out \in Outcomes("mkdir") :
         \/ /\ pc = "stage" /\ UNCHANGED <<roots, wdir>>
            /\ sdir' = IF out = "raised" THEN sdir ELSE [sdir EXCEPT ![cur] = "creating"]
            /\ Then(out, "stage-jobs", {})
         \/ /\ pc = "stage-jobs" /\ UNCHANGED <<sdir, wdir>>
            /\ roots' = IF out = "raised" THEN roots ELSE roots \cup {cur}
            /\ IF Moved(cur) # {} THEN Then(out, "stage-workspaces", {})
               ELSE Then(out, "move-out", Moves(cur))
         \/ /\ pc = "stage-workspaces" /\ UNCHANGED <<sdir, roots>>
            /\ wdir' = IF out = "raised" THEN wdir ELSE [wdir EXCEPT ![cur] = "creating"]
            /\ Then(out, "move-out", Moves(cur))

\* Mutant: the directory is copied home.
CopyHome(b, i) ==
    /\ UNCHANGED held
    /\ live' = IF i \in Jobs THEN live \cup {i} ELSE live
    /\ version' = IF i \in Jobs THEN version
                  ELSE [version EXCEPT ![i] = record[b].moved[i]]

\* _move_owned_directory from the batch to the original path.
TakeHome(b, i) ==
    /\ held' = [held EXCEPT ![b] = @ \ {i}]
    /\ live' = IF i \in Jobs THEN live \cup {i} ELSE live
    /\ version' = IF i \in Jobs THEN version
                  ELSE [version EXCEPT ![i] = record[b].moved[i]]

\* ... and from there into the batch.
TakeAway(b, i) ==
    /\ held' = [held EXCEPT ![b] = @ \cup {i}]
    /\ live' = live \ {i}
    /\ version' = IF i \in Jobs THEN version ELSE [version EXCEPT ![i] = 0]

LeaveItems == UNCHANGED <<held, live, version>>

\* The moves, workspaces first; each item has to be what the plan measured.
MoveOut ==
    /\ pc = "move-out"
    /\ UNCHANGED <<life, fresh, intents, sdir, wdir, roots, records, crashes>>
    /\ \/ todo = {} /\ LeaveItems /\ Go("write-record", {})
       \/ \E i \in NextItems :
            IF ~(AtHome(i) /\ Unchanged(cur, i)) THEN LeaveItems /\ Raise("check")
            ELSE \E out \in Outcomes("move") :
                   /\ IF out = "raised" THEN LeaveItems ELSE TakeAway(cur, i)
                   /\ Then(out, "move-out", todo \ {i})

\* trash.json, the commit point for recovery.
WriteTrashRecord ==
    /\ pc = "write-record"
    /\ UNCHANGED <<clients, intents, sdir, wdir, roots, held, crashes>>
    /\ \E out \in Outcomes("write") :
         /\ records' = IF out = "raised" THEN records ELSE records \cup {cur}
         /\ Then(out, "publish", {})

-----------------------------------------------------------------------------
(* _publish_trash_transaction *)

BeginPublish ==
    /\ pc = "publish"
    /\ UNCHANGED <<clients, intents, dirs, crashes>>
    /\ IF \E i \in Moves(cur) : ~OneCopy(cur, i) \/ (AtHome(i) /\ ~Unchanged(cur, i))
       THEN Raise("check")
       ELSE IF cur \in records /\ sdir[cur] = "batch" THEN Go("verify", {})
       ELSE IF cur \in records /\ sdir[cur] = "creating"
       THEN Go(IF Moved(cur) # {} THEN "publish-workspaces" ELSE "publish-state", {})
       ELSE Raise("check")

PublishWorkspaces ==
    /\ pc = "publish-workspaces"
    /\ UNCHANGED <<clients, intents, sdir, roots, records, held, crashes>>
    /\ IF wdir[cur] = "none" THEN UNCHANGED wdir /\ Raise("check")
       ELSE \E out \in IF wdir[cur] = "creating" THEN Outcomes("move") ELSE {"done"} :
              /\ wdir' = IF out = "raised" THEN wdir ELSE [wdir EXCEPT ![cur] = "batch"]
              /\ Then(out, "publish-state", {})

PublishState ==
    /\ pc = "publish-state"
    /\ UNCHANGED <<clients, intents, wdir, roots, records, held, crashes>>
    /\ \E out \in Outcomes("move") :
         /\ sdir' = IF out = "raised" THEN sdir ELSE [sdir EXCEPT ![cur] = "batch"]
         /\ Then(out, "verify", {})

VerifyPublished ==
    /\ pc = "verify"
    /\ UNCHANGED <<clients, intents, dirs, crashes>>
    /\ IF Verified(cur) THEN Go("commit", {}) ELSE Raise("check")

\* _remove_trash_transaction, which ends a publication and a rollback.
RemoveTransaction ==
    /\ pc \in {"commit", "withdraw"}
    /\ UNCHANGED <<clients, record, action, phase, manifest, audit, dirs, crashes>>
    /\ \E out \in Outcomes("remove") :
         /\ tx' = IF out = "raised" THEN tx ELSE tx \ {cur}
         /\ IF out = "done" THEN Return ELSE Raise("io")

-----------------------------------------------------------------------------
(* _rollback_trash_transaction *)

\* A changed item that is at home already is left alone.
MoveBack ==
    /\ pc = "move-back"
    /\ UNCHANGED <<life, fresh, intents, sdir, wdir, roots, records, crashes>>
    /\ \/ todo = {} /\ LeaveItems /\ Go("drop-record", {})
       \/ \E i \in NextItems :
            IF ~OneCopy(cur, i) THEN LeaveItems /\ Raise("check")
            ELSE IF AtHome(i) THEN LeaveItems /\ Go("move-back", todo \ {i})
            ELSE \E out \in Outcomes("move") :
                   /\ IF out = "raised" THEN LeaveItems ELSE TakeHome(cur, i)
                   /\ Then(out, "move-back", todo \ {i})

\* Whatever is left of a state directory is removed by its own name; what a
\* removal finds missing it skips, what it finds in use makes it raise.
RemoveRecordFile(at, next) ==
    /\ pc = at
    /\ UNCHANGED <<clients, intents, sdir, wdir, roots, held, crashes>>
    /\ \E out \in IF cur \in records THEN Outcomes("remove") ELSE {"done"} :
         /\ records' = IF out = "raised" THEN records ELSE records \ {cur}
         /\ Then(out, next, {})

RemoveJobsRoot(at, next) ==
    /\ pc = at
    /\ UNCHANGED <<clients, intents, sdir, wdir, records, held, crashes>>
    /\ IF cur \in roots /\ JobsIn(cur) # {} THEN UNCHANGED roots /\ Raise("check")
       ELSE \E out \in IF cur \in roots THEN Outcomes("remove") ELSE {"done"} :
              /\ roots' = IF out = "raised" THEN roots ELSE roots \ {cur}
              /\ Then(out, next, {})

RemoveStateDir(at, next) ==
    /\ pc = at
    /\ UNCHANGED <<clients, intents, wdir, roots, records, held, crashes>>
    /\ IF cur \in roots \cup records THEN UNCHANGED sdir /\ Raise("check")
       ELSE \E out \in IF sdir[cur] # "none" THEN Outcomes("remove") ELSE {"done"} :
              /\ sdir' = IF out = "raised" THEN sdir ELSE [sdir EXCEPT ![cur] = "none"]
              /\ Then(out, next, {})

RemoveWorkspaceDir(at, next) ==
    /\ pc = at
    /\ UNCHANGED <<clients, intents, sdir, roots, records, held, crashes>>
    /\ IF WorkspacesIn(cur) # {} THEN UNCHANGED wdir /\ Raise("check")
       ELSE \E out \in IF wdir[cur] # "none" THEN Outcomes("remove") ELSE {"done"} :
              /\ wdir' = IF out = "raised" THEN wdir ELSE [wdir EXCEPT ![cur] = "none"]
              /\ Then(out, next, {})

\* Mutant: the staging directories are left behind.
DropRecordOnly == RemoveRecordFile("drop-record", "withdraw")

DropBatch ==
    \/ RemoveRecordFile("drop-record", "drop-jobs")
    \/ RemoveJobsRoot("drop-jobs", "drop-state")
    \/ RemoveStateDir("drop-state", "drop-workspaces")
    \/ RemoveWorkspaceDir("drop-workspaces", "withdraw")

-----------------------------------------------------------------------------
(* restore_trash, purge_trash *)

\* The step at which a durable action is taken up.
ResumeAction(b) ==
    /\ cur' = b
    /\ IF action[b] = "restore"
       THEN IF phase[b] = "prepared" THEN pc' = "restore" /\ todo' = {}
            ELSE pc' = "restore-items" /\ todo' = Moves(b) \cup record[b].kept
       ELSE /\ pc' = CASE phase[b] = "prepared" -> "purge"
                       [] phase[b] = "moving" -> "purge-workspaces"
                       [] OTHER -> "purge-entry"
            /\ todo' = {}

\* A repeated request takes up the action it finds.
RepeatAction(b) ==
    /\ CanServe /\ action[b] # "none"
    /\ ResumeAction(b)
    /\ UNCHANGED <<clients, intents, dirs, mgr, crashes>>

\* Mutant: an action that owns the batch already is overwritten.
BeginAnyTrashAction(b, kind) ==
    /\ CanServe /\ b \notin tx /\ Verified(b)
    /\ action' = [action EXCEPT ![b] = kind]
    /\ phase' = [phase EXCEPT ![b] = "prepared"]
    /\ manifest' = [manifest EXCEPT ![b] =
           IF kind = "restore" THEN {} ELSE held[b] \cup {"trash.json", "jobs/", "batch/"}]
    /\ pc' = kind /\ cur' = b /\ UNCHANGED <<mgr, todo>>
    /\ UNCHANGED <<clients, record, tx, audit, dirs, crashes>>

\* _begin_trash_action: action.json, with the purge manifest of the batch.
BeginTrashAction(b, kind) ==
    /\ CanServe /\ action[b] = "none"
    /\ b \notin tx /\ Verified(b)
    /\ \E out \in Outcomes("write") :
         /\ IF out = "raised" THEN UNCHANGED <<action, phase, manifest>>
            ELSE /\ action' = [action EXCEPT ![b] = kind]
                 /\ phase' = [phase EXCEPT ![b] = "prepared"]
                 /\ manifest' = [manifest EXCEPT ![b] =
                        IF kind = "restore" THEN {}
                        ELSE held[b] \cup {"trash.json", "jobs/", "batch/"}
                               \cup (IF wdir[b] = "batch" THEN {"workspaces/"} ELSE {})]
         /\ IF out = "done" THEN pc' = kind /\ cur' = b /\ UNCHANGED <<mgr, todo>>
            ELSE UNCHANGED control
    /\ UNCHANGED <<clients, record, tx, audit, dirs, crashes>>

\* _set_trash_action_phase.
SetPhase(at, p, next, loop) ==
    /\ pc = at
    /\ UNCHANGED <<clients, record, tx, action, manifest, audit, dirs, crashes>>
    /\ \E out \in IF phase[cur] = p THEN {"done"} ELSE Outcomes("write") :
         /\ phase' = IF out = "raised" THEN phase ELSE [phase EXCEPT ![cur] = p]
         /\ Then(out, next, loop)

\* _write_trash_audit accepts the record of an earlier attempt.
WriteAudit(at, label, next) ==
    /\ pc = at
    /\ UNCHANGED <<clients, record, tx, action, phase, manifest, dirs, crashes>>
    /\ \E out \in IF audit[cur] = label THEN {"done"} ELSE Outcomes("write") :
         /\ audit' = IF out = "raised" THEN audit ELSE [audit EXCEPT ![cur] = label]
         /\ Then(out, next, {})

RemoveAction ==
    /\ pc \in {"restore-end", "purge-end"}
    /\ UNCHANGED <<clients, record, tx, audit, dirs, crashes>>
    /\ \E out \in Outcomes("remove") :
         /\ IF out = "raised" THEN UNCHANGED <<action, phase, manifest>>
            ELSE /\ action' = [action EXCEPT ![cur] = "none"]
                 /\ phase' = [phase EXCEPT ![cur] = "prepared"]
                 /\ manifest' = [manifest EXCEPT ![cur] = {}]
         /\ IF out = "done" THEN Return ELSE Raise("io")

-----------------------------------------------------------------------------
(* _finish_restore_action *)

\* A retained workspace has to be there; any other item has one copy, with the
\* recorded inventory, and is moved home unless an earlier attempt has.
RestoreItems ==
    /\ pc = "restore-items"
    /\ UNCHANGED <<life, fresh, intents, sdir, wdir, roots, records, crashes>>
    /\ \/ todo = {} /\ LeaveItems /\ Go("restore-final", {})
       \/ \E i \in NextItems :
            IF i \in record[cur].kept
            THEN LeaveItems /\ IF Exists(i) THEN Go(pc, todo \ {i}) ELSE Raise("check")
            ELSE IF ~OneCopy(cur, i) \/ (AtHome(i) /\ ~Unchanged(cur, i))
            THEN LeaveItems /\ Raise("check")
            ELSE IF AtHome(i) THEN LeaveItems /\ Go(pc, todo \ {i})
            ELSE \E out \in Outcomes("move") :
                   /\ IF out = "raised" THEN LeaveItems ELSE TakeHome(cur, i)
                   /\ Then(out, pc, todo \ {i})

FinishRestore ==
    \/ SetPhase("restore", "moving", "restore-items", Moves(cur) \cup record[cur].kept)
    \/ SetPhase("restore-final", "finalizing", "empty-workspaces", {})
    \/ RemoveWorkspaceDir("empty-workspaces", "empty-record")
    \/ RemoveRecordFile("empty-record", "empty-jobs")
    \/ RemoveJobsRoot("empty-jobs", "empty-state")
    \/ RemoveStateDir("empty-state", "restore-audit")
    \/ WriteAudit("restore-audit", "restored", "restore-end")

-----------------------------------------------------------------------------
(* _finish_purge_action *)

\* _prepare_purge_batch for the workspace directory: there is one exactly if
\* something was quarantined.
PurgeWorkspaceDir ==
    /\ pc = "purge-workspaces"
    /\ UNCHANGED <<clients, intents, sdir, roots, records, held, crashes>>
    /\ IF ~(Moved(cur) # {} <=> wdir[cur] \in {"batch", "purging"})
       THEN UNCHANGED wdir /\ Raise("check")
       ELSE \E out \in IF wdir[cur] = "batch" THEN Outcomes("move") ELSE {"done"} :
              /\ wdir' = IF out # "raised" /\ wdir[cur] = "batch"
                         THEN [wdir EXCEPT ![cur] = "purging"] ELSE wdir
              /\ Then(out, "purge-state", {})

PurgeStateDir ==
    /\ pc = "purge-state"
    /\ UNCHANGED <<clients, intents, wdir, roots, records, held, crashes>>
    /\ IF sdir[cur] \notin {"batch", "purging"} THEN UNCHANGED sdir /\ Raise("check")
       ELSE \E out \in IF sdir[cur] = "batch" THEN Outcomes("move") ELSE {"done"} :
              /\ sdir' = IF out = "raised" THEN sdir ELSE [sdir EXCEPT ![cur] = "purging"]
              /\ Then(out, "purge-final", {})

\* The manifest lists the workspace tree before the state tree, and in each
\* what is inside a directory before the directory.
NextEntries(b) ==
    LET m == manifest[b]
        FirstOf(S, rest) == IF m \cap S # {} THEN m \cap S ELSE rest
    IN  FirstOf(Workspaces, FirstOf({"workspaces/"}, FirstOf(Jobs, FirstOf({"trash.json"},
            FirstOf({"jobs/"}, m)))))

\* _remove_purge_entry: a missing entry was removed by an earlier attempt, a
\* directory has to be empty.
RemoveEntry(e) ==
    /\ held' = [held EXCEPT ![cur] = @ \ {e}]
    /\ records' = IF e = "trash.json" THEN records \ {cur} ELSE records
    /\ roots' = IF e = "jobs/" THEN roots \ {cur} ELSE roots
    /\ wdir' = IF e = "workspaces/" THEN [wdir EXCEPT ![cur] = "none"] ELSE wdir
    /\ sdir' = IF e = "batch/" THEN [sdir EXCEPT ![cur] = "none"] ELSE sdir

EntryInUse(e) ==
    \/ e = "workspaces/" /\ WorkspacesIn(cur) # {}
    \/ e = "jobs/" /\ JobsIn(cur) # {}
    \/ e = "batch/" /\ cur \in roots \cup records

PurgeEntry ==
    /\ pc = "purge-entry"
    /\ UNCHANGED <<clients, intents, crashes>>
    /\ IF manifest[cur] = {} \/ "batch" \in {sdir[cur], wdir[cur]}
       THEN /\ UNCHANGED dirs
            /\ IF sdir[cur] = "none" /\ wdir[cur] = "none" THEN Go("purge-audit", {})
               ELSE Raise("check")
       ELSE \E e \in NextEntries(cur) :
              IF EntryInUse(e) THEN UNCHANGED dirs /\ Raise("check")
              ELSE \E out \in Outcomes("remove") :
                     /\ IF out = "raised" THEN UNCHANGED dirs ELSE RemoveEntry(e)
                     /\ Then(out, "purge-cursor", {e})

\* _set_purge_index.
AdvanceCursor ==
    /\ pc = "purge-cursor"
    /\ UNCHANGED <<clients, record, tx, action, phase, audit, dirs, crashes>>
    /\ \E out \in Outcomes("write") :
         /\ manifest' = IF out = "raised" THEN manifest
                        ELSE [manifest EXCEPT ![cur] = @ \ todo]
         /\ Then(out, "purge-entry", {})

\* Mutant: entries are removed before FINALIZING is durable.
PurgeWhileMoving ==
    \/ SetPhase("purge", "moving", "purge-workspaces", {})
    \/ PurgeWorkspaceDir \/ PurgeStateDir
    \/ SetPhase("purge-final", "moving", "purge-entry", {})
    \/ PurgeEntry \/ AdvanceCursor
    \/ WriteAudit("purge-audit", "purged", "purge-end")

FinishPurge ==
    \/ SetPhase("purge", "moving", "purge-workspaces", {})
    \/ PurgeWorkspaceDir \/ PurgeStateDir
    \/ SetPhase("purge-final", "finalizing", "purge-entry", {})
    \/ PurgeEntry \/ AdvanceCursor
    \/ WriteAudit("purge-audit", "purged", "purge-end")

-----------------------------------------------------------------------------
(* start() and the life of the manager *)

Start ==
    /\ mgr \in {"down", "refused"}
    /\ mgr' = "starting"
    /\ UNCHANGED <<clients, intents, dirs, cur, pc, todo, crashes>>

\* Mutant: the staging directory, not trash.json, decides.
RecoverByStaging(b) ==
    /\ mgr = "starting" /\ pc = "idle" /\ b \in tx
    /\ cur' = b
    /\ IF sdir[b] # "none" THEN pc' = "publish" /\ todo' = {}
       ELSE pc' = "move-back" /\ todo' = Moves(b)
    /\ UNCHANGED <<clients, intents, dirs, mgr, crashes>>

\* _recover_trash_transactions: forward with a trash.json, otherwise back.
RecoverTransaction(b) ==
    /\ mgr = "starting" /\ pc = "idle" /\ b \in tx
    /\ cur' = b
    /\ IF b \in records THEN pc' = "publish" /\ todo' = {}
       ELSE pc' = "move-back" /\ todo' = Moves(b)
    /\ UNCHANGED <<clients, intents, dirs, mgr, crashes>>

\* _recover_trash_action_transactions.
RecoverAction(b) ==
    /\ mgr = "starting" /\ pc = "idle" /\ tx = {} /\ action[b] # "none"
    /\ ResumeAction(b)
    /\ UNCHANGED <<clients, intents, dirs, mgr, crashes>>

\* Mutant: restores and purges that were cut short are not resumed.
ServeWithoutActions ==
    /\ mgr = "starting" /\ pc = "idle" /\ tx = {}
    /\ mgr' = "up"
    /\ UNCHANGED <<clients, intents, dirs, cur, pc, todo, crashes>>

Serve ==
    /\ mgr = "starting" /\ pc = "idle" /\ tx = {}
    /\ \A b \in Batches : action[b] = "none"
    /\ mgr' = "up"
    /\ UNCHANGED <<clients, intents, dirs, cur, pc, todo, crashes>>

\* close().
Close ==
    /\ CanServe /\ mgr' = "down"
    /\ UNCHANGED <<clients, intents, dirs, cur, pc, todo, crashes>>

Crash ==
    /\ mgr \in {"starting", "up"} /\ crashes < MaxCrashes
    /\ crashes' = crashes + 1
    /\ mgr' = "down" /\ cur' = "none" /\ pc' = "idle" /\ todo' = {}
    /\ UNCHANGED <<clients, intents, dirs>>

Recover == Serve \/ \E b \in Batches : RecoverTransaction(b) \/ RecoverAction(b)

\* A step of the operation in hand.
Proceed ==
    \/ CreateStaging \/ MoveOut \/ WriteTrashRecord
    \/ BeginPublish \/ PublishWorkspaces \/ PublishState \/ VerifyPublished
    \/ RemoveTransaction \/ MoveBack \/ DropBatch
    \/ RestoreItems \/ FinishRestore \/ FinishPurge \/ RemoveAction

Request ==
    \E b \in Batches :
       \/ \E S \in SUBSET Jobs, mode \in {"record_only", "quarantine"} : ApplyBatchDelete(b, S, mode)
       \/ \E kind \in {"restore", "purge"} : BeginTrashAction(b, kind)
       \/ RepeatAction(b)

Next ==
    \/ Proceed \/ Recover \/ Request
    \/ Start \/ Close \/ Crash
    \/ \E j \in Jobs : Submit(j) \/ Settle(j)
    \/ \E w \in Workspaces : WriteWorkspace(w)

Spec == Init /\ [][Next]_vars

\* The lock holder carries on and a stopped manager is started again.
FairSpec == Spec /\ WF_vars(Proceed) /\ WF_vars(Recover) /\ WF_vars(Start)

-----------------------------------------------------------------------------
(* Safety *)

Closed(b) == b \notin tx /\ action[b] = "none"

Erasing(b) == action[b] = "purge" /\ phase[b] = "finalizing"

\* A submitted job's directory is in exactly one place, whatever failed and
\* however often the manager died, unless a purge of its batch erased it.
NothingLost ==
    \A j \in Jobs : life[j] # "absent" =>
        LET places == {b \in Batches : j \in held[b]}
        IN  \/ j \in live /\ places = {}
            \/ j \notin live /\ \E b \in Batches : places = {b} /\ j \in record[b].jobs
            \/ /\ j \notin live /\ places = {}
               /\ \E b \in Batches : j \in record[b].jobs /\ (Erasing(b) \/ audit[b] = "purged")

\* Nothing is left of the batch; or it is in the trash with everything it took.
Empty(b) ==
    /\ sdir[b] = "none" /\ wdir[b] = "none" /\ held[b] = {}
    /\ b \notin roots /\ b \notin records
Complete(b) ==
    /\ sdir[b] = "batch" /\ b \in roots /\ b \in records
    /\ record[b].jobs # {} /\ held[b] = Moves(b)
    /\ wdir[b] = IF Moved(b) = {} THEN "none" ELSE "batch"

\* A batch without a pending intent is either complete, so that it can be
\* restored, or has left nothing behind.
WholeBatch == \A b \in Batches : Closed(b) => Empty(b) \/ Complete(b)

\* The durable purge cursor never runs ahead of the removals: what is still on
\* the disk is listed at or after it.
CursorBehindRemovals ==
    \A b \in Batches : Erasing(b) =>
        /\ held[b] \subseteq manifest[b]
        /\ b \in records => "trash.json" \in manifest[b]
        /\ sdir[b] # "none" => "batch/" \in manifest[b]
        /\ wdir[b] # "none" => "workspaces/" \in manifest[b]

\* A terminal audit record is only written of a batch that is gone from the
\* trash, and it names what happened to it.
AuditIsTrue ==
    \A b \in Batches : audit[b] # "none" =>
        /\ held[b] = {} /\ sdir[b] = "none" /\ wdir[b] = "none"
        /\ b \notin tx
        /\ action[b] # "none" => audit[b] = IF action[b] = "purge" THEN "purged" ELSE "restored"

\* A directory leaves a batch for its original path or by a purge that has
\* entered its last phase; a workspace at its path is replaced by nothing but
\* its own worker, and disappears only into the batch that measured it.
ErasesNothing ==
    /\ \A b \in Batches : \A i \in held[b] \ held'[b] :
          \/ Erasing(b)
          \/ i \in Jobs /\ i \in live'
          \/ i \in Workspaces /\ ~Exists(i) /\ version'[i] = record[b].moved[i]
    /\ \A w \in Workspaces : Exists(w) /\ version'[w] # version[w] =>
          \/ \E b \in Batches : /\ w \in held'[b] \ held[b]
                                /\ record[b].moved[w] = version[w]
          \/ fresh' # fresh

\* No step of anyone erases anything else.
NothingErased == [][ErasesNothing]_vars

-----------------------------------------------------------------------------
(* The inductive invariant *)

\* A batch has one intent at a time, and none before it is applied.
OneIntent ==
    \A b \in Batches :
        /\ b \in tx => action[b] = "none" /\ audit[b] = "none"
        /\ record[b].jobs = {} => Closed(b) /\ audit[b] = "none" /\ Empty(b)

\* Only a submitted job is listed or in a batch.
OnlySubmitted ==
    \A j \in Jobs : life[j] = "absent" =>
        j \notin live /\ \A b \in Batches : j \notin record[b].jobs

\* A batch holds only what its record lists, workspaces in their own directory.
HoldsRecorded ==
    \A b \in Batches : /\ held[b] \subseteq Moves(b)
                       /\ Moved(b) \cap record[b].kept = {}
                       /\ wdir[b] # "none" => Moved(b) # {}

\* The manifest of a purge lists whatever is left of the batch.
ManifestCovers ==
    \A b \in Batches : action[b] = "purge" =>
        /\ held[b] \subseteq manifest[b]
        /\ b \in records => "trash.json" \in manifest[b]
        /\ b \in roots => "jobs/" \in manifest[b]
        /\ sdir[b] # "none" => "batch/" \in manifest[b]
        /\ wdir[b] # "none" => "workspaces/" \in manifest[b]

\* The operation in hand owns an intent of its kind.
OwnsIntent ==
    /\ pc \in ApplySteps \cup GuardedSteps \cup RollbackSteps => cur \in tx
    /\ pc \in RestoreSteps => action[cur] = "restore"
    /\ pc \in PurgeSteps => action[cur] = "purge"
    /\ pc \in {"restore", "purge"} => phase[cur] = "prepared"
    /\ pc \in {"purge-entry", "purge-cursor", "purge-audit", "purge-end"}
         => phase[cur] = "finalizing"
    /\ pc = "restore-end" => audit[cur] = "restored"
    /\ pc = "purge-end" => audit[cur] = "purged"

\* What the steps behind the lock holder have left of the batch.
BatchInHand ==
    /\ pc \in ApplySteps => held[cur] = {}
    /\ pc = "stage-workspaces" => Moved(cur) # {}
    /\ pc = "move-out" => held[cur] \cap todo = {}
    /\ pc \in {"move-out", "move-back"} => todo \subseteq Moves(cur)
    /\ pc \in {"move-back", "restore-items"} => held[cur] \subseteq todo
    /\ pc \in (RollbackSteps \ {"move-back"})
              \cup (RestoreSteps \ {"restore", "restore-items"}) => held[cur] = {}
    /\ pc \in {"drop-jobs", "drop-state", "drop-workspaces", "withdraw",
               "empty-jobs", "empty-state", "restore-audit", "restore-end"}
         => cur \notin records
    /\ pc \in {"drop-state", "drop-workspaces", "withdraw",
               "empty-state", "restore-audit", "restore-end"} => cur \notin roots
    /\ pc \in {"drop-workspaces", "withdraw", "restore-audit", "restore-end"}
         => sdir[cur] = "none"
    /\ pc \in {"withdraw", "empty-record", "empty-jobs", "empty-state",
               "restore-audit", "restore-end"} => wdir[cur] = "none"
    /\ pc \in {"purge-audit", "purge-end"} => Empty(cur)
    /\ pc = "commit" => Complete(cur)

\* An entry the cursor is about to pass has been removed.
PassedIsRemoved ==
    pc = "purge-cursor" =>
        \A e \in todo : /\ e \notin held[cur]
                        /\ e = "trash.json" => cur \notin records
                        /\ e = "jobs/" => cur \notin roots
                        /\ e = "batch/" => sdir[cur] = "none"
                        /\ e = "workspaces/" => wdir[cur] = "none"

Inductive ==
    /\ TypeOK /\ OneIntent /\ OnlySubmitted /\ HoldsRecorded /\ ManifestCovers
    /\ OwnsIntent /\ BatchInHand /\ PassedIsRemoved
    /\ NothingLost /\ WholeBatch /\ AuditIsTrue

-----------------------------------------------------------------------------
(* Recovery *)

\* Docs/web.md on recovery: whatever the manager left behind, start() rolls it
\* back or completes it; none of its own checks makes it give up.
RecoveryNeverRefuses == mgr # "refused"

-----------------------------------------------------------------------------
(* Liveness *)

\* Every intent that is on the disk is completed or withdrawn, across restarts.
EveryIntentEnds == \A b \in Batches : ~Closed(b) ~> Closed(b)

-----------------------------------------------------------------------------
(* Refinement *)

Gone == {j \in Jobs : /\ life[j] # "absent" /\ j \notin live
                      /\ \A b \in Batches : j \notin held[b]}

BatchStatus(b) ==
    IF b \in tx THEN "open"
    ELSE IF action[b] = "restore" THEN "restoring"
    ELSE IF action[b] = "purge" THEN "purging"
    ELSE IF sdir[b] = "batch" THEN "trashed" ELSE "free"

Contained == [b \in Batches |-> JobsIn(b)]
Chosen    == [b \in Batches |-> record[b].jobs]
Progress  == [b \in Batches |-> BatchStatus(b)]

Bin == INSTANCE TrashBin WITH
    bin <- Contained, gone <- Gone, chosen <- Chosen, status <- Progress

\* The operations, their recoveries included, implement TrashBin.
ImplementsTrashBin == Bin!BinSpec

=============================================================================
