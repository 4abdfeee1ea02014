# TopoForge: TLA+ models, model checking and proofs

TopoForge turns elevation data into printable terrain tiles. A local Web server accepts
*jobs*; each job runs one content-addressed *workflow* in an isolated worker process and
leaves its artifacts in a *workspace*. This directory models the parts of it whose
correctness depends on order, crashes, failed writes and concurrent processes, checks them
with TLC and proves the central invariants with TLAPS. Paths below are relative to
`src/src/topoforge/`.

## Inventory

| Component | State | Operations | Interacts with | Hard behaviour | Correct when |
|---|---|---|---|---|---|
| Job manager (`web/jobs.py`, `LocalJobManager`) | `job.json`, event log, Popen table, one re-entrant lock, monitor thread, termination threads | `submit`, `cancel`, `refresh`, `start`, `close` | worker (files and signals), operating system, API handlers | crash between durable writes, writes that raise after taking effect, late workers, restart with processes it did not spawn | at most `max_concurrent_jobs` slots, no workflow the records do not know, truthful and final outcomes, progress |
| Gated worker (`web/worker.py`) | `worker-ready.json`, `worker-result.json` | announce, wait for the gate, run, report | manager through three files | gate or death of the parent or time-out, whichever is seen first | runs only when released |
| Process containment (`web/processes.py`) | none of its own | liveness of a leader and its group, termination | operating system | pid reuse, a group that outlives its leader, failing inspections | never calls a live containment dead |
| Trash (`web/jobs.py`) | transactions, trash batches, quarantined workspaces, audits | batch delete, restore, purge, recovery | job records, workspaces | crash between two moves, rollback that fails, redo after restart | every job and workspace in exactly one place, nothing lost before a purge |
| Manager lease (`web/security.py`) | lease file, its lock | acquire, verify, release | the manager's `start`, every call, `close` | the file outlives its holder and is replaced while another opens it | one manager |
| Atomic writes (`web/security.py`, `util/atomic.py`) | temporary file, path, directory | write, sync, rename, sync the directory | everything durable | the rename succeeded and the sync failed; power loss | a reader sees a whole file; an error tells what happened |
| Owned paths (`web/security.py`) | pinned directories | create, move, remove, read, stream | jobs, workspaces, archives | directories and entries swapped during the call | acts only below its own directory, plain errors did nothing |
| Contained commands (`process_containment.py`) | supervisor, watcher, pipe | run with a time-out | slicers, Bambu Studio | the caller dies first, children leave the group | the group ends with the call |
| Workflow (`workflow/local.py`, `workflow/ux.py`) | launch, request, status, manifest, stage directories named by content | save, run, make or reuse a stage, publish, verify, inspect | engine, tiling, slicers, cleanup | interruption at every step, edited inputs, damaged stages | what verifies was made from the current inputs; rerunning recovers |
| Maintenance (`workflow/maintenance.py`) | quarantine, archives, staging | cleanup, backup, restore | workspaces, runs, jobs | plans and files that change under it, moves that raise after the effect | removes nothing referenced; an archive is of one workflow; a failed restore leaves nothing |
| Acquisition (`workflow/acquisition.py`, `providers/selection.py`) | private drop, trace | evaluate, rank, fetch, fall back, copy | providers, cache | fetches that fail half-way | the trace is true and the source whole |
| Download cache (`providers/cache.py`, `providers/transport.py`) | index and object files | look up, fetch, retry, publish, invalidate | network, other processes | shared without a lock, damage, changed servers | what is returned was served and stays |
| Reference tiles (`web/reference_tiles.py`) | SQLite rows, striped locks | get, fetch, store, evict | network, browser | eviction while others look up and refresh | within both limits, downloads shared |
| Views of a job (`web/map_tiles.py`, `web/api.py`, `web/jobs.py`) | tile cache, archives, verified handles | artifact, map tile, assembly, download, restore | job records, workspaces | files replaced between verification and response | answered from what the job recorded |
| Event stream (`web/api.py`, `web/jobs.py`) | `events.jsonl`, the client's position | append, stream, resume | job manager, browser | record and event are two writes, the log may be full | each event once and in order |
| Build and bundle (`engine/build.py`, `engine/preflight.py`) | staging and output directory | build, verify, record a slicing | raster, mesh, exporters | six files rewritten in place, inputs replaced meanwhile | a bundle that verifies is of one build and one slicing |
| Raster, scaling, mesh (`raster/`, `scaling/`, `mesh/`) | none | window, crop, fill, sample, scale, close | engine | antimeridian, budgets, narrow grids, holes | the area once, within the limits, a closed solid |
| Tiling (`tiling/`) | tile set, mesh set, print set | layout, extract, compare seams, mesh, dovetails | bundle | a bundle that changes meanwhile, narrow strips | the tiles are the terrain and fit together |
| Bambu evidence (`validation/bambu_projects.py`) | private stage, published evidence | run per tile, inspect, publish | print set, slice set, Bambu Studio | sources, executable and files that change meanwhile | evidence is of one version of its sources |
| Geocoding, overlays, exporters, command line, scripts | none of their own | parsing, geometry, formats, arguments | the components above | - | see Not modelled |

The job manager starts a *worker*, which runs the *workflow*; that acquires a source through
*providers* and their *cache*, builds a *bundle*, cuts *tiles*, runs *contained commands* and
publishes every result as a stage with *owned* moves and *atomic writes*. Maintenance and the
views work on the same workspaces from outside. Except for the manager's lock and its lease
they coordinate through files only: renames that replace nothing, digests, and a second look.

## Modules

| Module | Models |
|---|---|
| `WorkflowService` | what a client is promised: a job waits, is admitted to one of `MaxConcurrent` slots, runs at most once and only there, is closed only when it does not run |
| `WorkerLaunch` | the launch protocol: manager, workers, termination threads, clock, manager crash |
| `TrashBin` | what the batch operations promise: a record is live, in one batch, or erased; a batch is committed whole or abandoned empty, then restored or purged |
| `TrashTransactions` | batch delete, restore, purge and their recovery, down to single effects on the disk |
| `ManagerLease`, `AtomicPublish`, `OwnedPaths` | the lease, the atomic writers, the owned calls of `web/security.py` |
| `JobProgress` | status file, record, event log and the event streams of one job |
| `Workspace`, `WorkflowRun`, `WorkflowCleanup` | the files of a workspace and what the verifiers accept; a run; a cleanup beside it |
| `BackupRestore` | a backup while runs rewrite the workspace, and two restores to one destination |
| `ContainedCommand` | one call of a slicer: supervisor, watcher, command, children |
| `SourceAcquisition`, `ProviderCache`, `ReferenceTiles` | how elevation data and map tiles arrive |
| `TerrainGrid`, `BuildBundle` | from a raster to a solid; the bundle and its slicings |
| `TileSet`, `PrintTiles` | tiles of a bundle; the dovetails between them (extends `TileSet`) |
| `BambuEvidence`, `JobViews` | evidence from Bambu Studio; what the browser is given of a job |
| `MCWorkerLaunch`, `MCTrashTransactions`, `MCWorkflowCleanup` | constants and symmetry for the runs of one component |
| `MCLaunchSettle` | `WorkerLaunch` and `ContainedCommand` under fairness |
| `MCServices` | the other components, one at a time, in one run |
| `WorkerLaunchProof` | what each operation does to a record; the inductive invariant, the safety theorems and the refinement of `WorkflowService`; why passes end |
| `TrashTransactionsProof` | the inductive invariant of the trash; no step erases anything else; the refinement of `TrashBin`; recovery; why operations end |
| `WorkflowProof` | `Workspace`, `WorkflowRun`, `WorkflowCleanup`; why runs and cleanups end |
| `ManagerProof` | `ManagerLease`, `AtomicPublish`, `OwnedPaths`, `ContainedCommand`; `JobProgress`, `JobViews`, `BackupRestore`, `ReferenceTiles` |
| `PipelineProof` | `ProviderCache`, `SourceAcquisition`, `BuildBundle`, `BambuEvidence` |
| `TerrainProof`, `TilingProof` | `TerrainGrid`; `TileSet` and `PrintTiles` |
| `ServicesProof` | `MCServices`: the composition implements each of its components |

### WorkerLaunch and the code

Every API call, every refresh and every termination thread holds `LocalJobManager._lock`
throughout. The model therefore has one sequential *pass* (`mgr`, `todo`, `batch`, `step`)
and lets everything that does not need the lock interleave with its steps: workers,
`DeadlinePasses`, and `Crash`. `Submit`, `Cancel*`, `TerminateProcess`, `Refresh` and
`Close` need the lock to be free.

| Variable | Code |
|---|---|
| `rec` | `JobRecord.state`, `pid`/`process_identity`/`process_group_id` (`ident`), `cancellation_requested` |
| `ready`, `gate`, `result` | `worker-ready.json`, `launch-gate.json`, `worker-result.json` |
| `worker`, `strays` | the worker process; members of its group that outlive it |
| `expired`, `orphans` | `launch_gate_deadline` has passed; the launching manager is gone |
| `handle`, `killers` | `_processes`; `_terminate_process` threads that wait for the lock |
| `todo`, `batch`, `step` | records `refresh` still has to look at, records `_start_queued_jobs` is starting, position in `_start_job` / `_finish_job` |

`_start_job` is one action per durable or visible effect (`BeginStart` ... `ExposeGate`,
`CleanupStart`), because the manager can die after each. A durable write may raise without
effect or after it (the event append, the fsync of the directory); both are outcomes of the
action when `"io"` is in `Faults`. `_reconcile_starting` is the operator `StartingVerdict`,
shared by `ReconcileStarting` and `CancelStarting` as in the code. `Containment` is the set
of answers `process_containment_is_alive` can give.

Abstracted: the content of requests, results and errors; progress and event text;
checksums and nonces, which the model takes to identify their launch; the second
verification of the gate during a refresh, which only sets an error text; records of the
older schema; Windows job objects.

### TrashTransactions and the code

All of these operations hold the manager lock as well, and `start()` finishes what it finds
before it serves. So one operation (`cur`, `pc`, `todo`) proceeds at a time; between two of
its effects the process may die (`Crash`), and an effect whose kind is in `Faults` may raise
without happening or after it has happened (`Outcomes`, as `CommittedStateUncertainError` in
`web/security.py` does). `Raise` is the exception path: out of the try block of
`apply_batch_delete` into the rollback, out of recovery out of `start()`. When a check of the
code, not an effect, makes `start()` fail, `mgr` becomes `"refused"`.

| Variable | Code |
|---|---|
| `live`, `life` | directories below `jobs_dir`, state of the record inside |
| `version`, `fresh` | identity (inventory) of the directory at a workspace path, 0 if there is none |
| `record` | `JobTrashRecord`, the same in `transaction.json`, `trash.json` and `action.json` |
| `tx`, `action`, `phase`, `manifest` | `transaction.json`; `action.json` with kind, phase, and `purge_entries` from `purge_index` on |
| `sdir`, `wdir` | state and workspace directory of the batch: `.creating`, published or `.purging` |
| `roots`, `records`, `held` | `jobs/` and `trash.json` inside, and the moved directories |
| `audit` | terminal audit record |

| Action | Code |
|---|---|
| `ApplyBatchDelete`, `CreateStaging`, `MoveOut`, `WriteTrashRecord` | `apply_batch_delete`, with `plan_batch_delete` as `Eligible` |
| `BeginPublish`, `PublishWorkspaces`, `PublishState`, `VerifyPublished` | `_publish_trash_transaction`, `_verify_trash_record` |
| `MoveBack`, `DropBatch`, `RemoveTransaction` | `_rollback_trash_transaction` |
| `BeginTrashAction`, `RepeatAction` | `restore_trash`, `purge_trash`, `_begin_trash_action` |
| `SetPhase`, `RestoreItems`, `FinishRestore` | `_finish_restore_action` |
| `PurgeWorkspaceDir`, `PurgeStateDir`, `PurgeEntry`, `AdvanceCursor`, `FinishPurge` | `_finish_purge_action` |
| `Start`, `RecoverTransaction`, `RecoverAction`, `Serve` | `start`, `_recover_trash_transactions`, `_recover_trash_action_transactions` |

`delete` is an apply followed by a purge. `BACKUP_AND_QUARANTINE` is a quarantine with the
further precondition of a verified backup. Abstracted: the content of job directories, which
does not change once a job is terminal; link, path-escape and root-identity checks; the order
of items of one kind in a loop (workspaces come before jobs); the order in which `start()`
visits batches, which is that of random identifiers. Nobody but workers and the manager
changes files.

### The workflow and the code

`Workspace` holds the files: `launch`, `request`, `status`, `manifest`, `stages`, and the
inputs (`files`). A SHA-256 is modelled by what it identifies: a stage's manifest is the
vector of ingredient versions the stage was made from, and a directory's name is the vector
known when it was looked up. `Verifies` is `verify_completed_workflow`, `Inspects` is
`inspect_workflow_workspace` of `ux.py`. `WorkflowRun` is one process in
`run_local_workflow`: `SaveLaunch`, `RejectSetup`/`BindRequest`, `Announce`, per stage
`ReuseStage`, or `NameStage` (the identity is hashed and names a free place), `MakeStage` (the
generator reads the inputs as they are by then), `PublishStage` and `ReopenStage`, then
`WriteManifest` and `Complete`, or `PersistFailure`; it may die in between, and inputs are
edited, stages damaged and edits taken back at any time. `WorkflowCleanup` adds `apply_workflow_cleanup`, which
takes no lock against a run: `ApplyCleanup`, `MoveCandidate`, `InspectCleaned`,
`PurgeQuarantine`, or, after a failed move, a death or a write into a candidate
(`TouchCandidate`, `CandidateChanged`), `MoveBack` and `EndRollback`.

Abstracted: `made` is what the stage manifest records, which a generator that hashes a source
after having parsed it need not have read (see Findings); damage hits files of a stage other
than its manifest; private roots and leftovers of staging are not kept; setup reads the
inputs in one step; nobody removes stages by hand while a cleanup works; one runner per
workspace (the code has no lock that would keep a second one out).

`BackupRestore` models `create_workflow_backup` (hash, write, reopen, publish) and
`restore_workflow_backup` (open, fill, remap the launch, publish, write evidence, inspect,
finish, or roll back). A move may raise before or after it took effect. One backup is made
per behaviour.

### The services and the code

* `ManagerLease`: `open`, `flock`, look at the path again, write the metadata, verify before
  every operation, release. `RemoveLease` is the user.
* `AtomicPublish`: the owned writers of `security.py` and the plain ones of
  `util/atomic.py`, replacing or not. `mayRemain` is what the path may name after a power
  loss.
* `OwnedPaths`: nine calls (`ownedCall`) on one name below one level of parents, one call per
  behaviour, on POSIX by name and on Windows by handle, with renames, links, swaps and edits
  by others. An edit changes the file's times.
* `ContainedCommand`: the group leader, its watcher on the parent's pipe, the command and its
  children, who may leave the group and keep the streams.
* `ProviderCache`: index and object files with damage, changing servers, failing writes, deaths
  and retries; the lookup reads index and object in one step. `harm` is history, not state of
  the code: whether an object was never damaged, is damaged (`"open"`), or was put in place
  again since (`"mended"`); `DownloadsStay` needs it to say who may miss an object and when. `SourceAcquisition`: ranking, fetches that
  fail with files left, fallback, copy and removal of the drop; while a fetch runs the drop is
  its own, and nobody forges a manifest. `ReferenceTiles`: one lock per tile (the code has
  32 that tiles share), cache-only reads beside it; SQLite's busy time-outs are left out.
* `JobViews`: files are replaced by renames; `parts` stands for the files of an assembly; one
  workspace name for restores; a map tile is a function of the elevations.
* `JobProgress`: one job; STARTING and CANCELLING and the updates of `error` are merged into
  the other transitions, `job.restored` is in `JobViews`.
* `TerrainGrid`: lengths are whole numbers and scales ratios; a geographic raster is at most a
  turn wide, north up or mirrored; row windows are like column windows without the turn; the
  metric raster has square cells; GDAL may cover and lack any cells.
* `BuildBundle`: the content of a file is its digest; one configuration; a verification reads
  in one step; foreign files come from builds of other elevations.
* `TileSet`, `PrintTiles`: a sample's value is the moment it was written, so that an edit
  never restores an earlier raster; the mask is cut like the elevations; `tile-mesh` verifies
  its input in one step; lengths in micrometres, y to the south; a dovetail is the rectangle
  around its outline; the boolean engine and the mesh formats are external, volumes are not
  compared.
* `BambuEvidence`: change times make an executable's stamp grow; the files of a run have one
  flaw at most; the stage is inspected again in one step; the environment of runs is left out.

## Runs

| Run | Instance | Shows |
|---|---|---|
| `launch_safety` | 2 jobs, 1 slot, 1 crash, all faults | the inductive invariant (`SlotBound` follows from it, `CompletedIsGenuine` is part of it), the other safety properties, refinement of `WorkflowService` |
| `launch_settle` | 2 jobs, 1 slot, 1 crash, strays, workflows that may hang; a command with 2 children | outcomes are final when writes succeed; every job settles if workflows end; a termination thread settles its job also if they do not; nothing outlives its contained call |
| `lost_cancel` (violation) | 1 job, 1 crash | see Findings |
| `failed_cancel` (violation) | 1 job, writes that raise with or without effect | see Findings |
| `trash_safety` | 2 jobs sharing a workspace, 2 batches, 1 crash, all faults | the inductive invariant with `WholeBatch` and `AuditIsTrue`; nothing is lost, duplicated or overwritten; refinement of `TrashBin` |
| `trash_recovery` | 2 jobs with private workspaces, 2 batches, 2 crashes, no faults | `start()` finishes everything it finds; every intent ends |
| `trash_shared` (violation) | 2 jobs sharing a workspace, no crash, no fault | see Findings |
| `trash_staging` (violation) | private workspaces, failing `mkdir` | see Findings |
| `workflow_cleanup` | a launch for a printer and one for a region, 1 edit that may be undone or damage, 1 fault, 1 cleanup | what verifies is current; an undisturbed run verifies and can be browsed; a cleanup spares what the manifest references; rerunning recovers |
| `services` | see below | one invariant or action property per component |
| `narrow_grid` (violation) | `TerrainGrid`, a grid of two columns | see Findings |
| `hole_mask` (violation) | `TerrainGrid`, one hole of one cell | see Findings |

Bounds: two jobs and one slot make the queue, the slot and the hand-over between two jobs
interact; jobs touch each other only through the slots and the order of the queue. The proofs
cover every number of jobs and slots. One crash at any step covers every recovery; the
recovery itself may abort (`"io"`) and be repeated without bound.

For the trash: two jobs in one batch make moves that are cut short half way; two batches let
an unfinished one meet a later delete of the same job; a shared workspace that two workers
may write to (`MaxVersions = 2`) can be recreated while its older content is in the trash.
Two crashes interrupt a recovery as well. Faults need no bound. `trash_safety` checks the
safety properties in the presence of everything that makes `start()` refuse: the manager may
get stuck, but it loses nothing.

For the workflow: one disturbance at any step is enough for a stage made from one version
beside another made from the next; a second launch makes stages of one run reusable by the
other and candidates of the cleanup.

`services` checks components that share no state in one state space: the initial state
chooses which one runs (`focus`), and the others keep one initial state each.
`ServicesTypeOK` is the type invariant of the one that runs. The instances:

| Component | Bounds | Why they are enough |
|---|---|---|
| lease | 2 managers, 3 deaths or removals | a third event lets the removed file's holder meet two successors |
| atomic writes | 3 writers (replacing or not, owned or not), 2 faults or power losses | one behind and one ahead of a writer |
| cache | 2 clients, 2 requests, 2 contents, 2 attempts, 2 events | two requests may be answered with one object; both clients find it bad, one mends and returns it, the other unlinks it |
| reference tiles | 4 tiles of 3, 1, 1, 1 units, at most 2 tiles and 3 units, 2 requests, 2 events | each limit is met by itself |
| contained command | 2 children | one in the group, one outside |
| backup and restore | 2 files, 2 restores, 2 generations, 1 foreign act, 2 faults | a fault and a failing rollback |
| acquisition | 2 providers, 1 mask, 2 faults | both fail, or the first |
| Bambu evidence | 2 tiles, 2 foreign acts | replaced and put back between two runs |
| bundle | 2 versions, 2 formats, 2 slicings, 1 foreign act | both slicings interleave write by write |
| terrain | a turn of 12 units; sources of 3 to 12 columns of 1 to 3 units from four west edges, mirrored or not, every request; covers up to 3 x 3 with any gaps; grids with sides 2, 7, 12 and one hole | every position of the seam and of the source's own edge |
| tiling | 12 requests: strips of 3 tiles narrower than, as wide as and wider than a dovetail; 2 x 3 grids that divide evenly or not, with overlap and a drift of 1 um; seams too short; tiles as large as the printer; more tiles than cells; too thin a base; a 0.2 mm nozzle; 2 edits or damages | each refusal and each kind of neighbour; the edited sample is one that several tiles hold |
| owned paths | both platforms, all nine calls, 2 foreign acts | swapped and swapped back |
| views | 2 requests of any kinds, 1 event | a request beside the one that fills the cache |
| progress | 1 stream client, 2 stages, room for 4 events, 2 faults | the log is full before the job ends |

Fairness (`ManagerFairness`, `GateFairness`): the pass and the workers make steps; the
monitor thread polls; the clock advances past a deadline; a stopped manager is restarted;
a group that lost its leader ends. Termination threads get strong fairness because they
wait for a lock that is released between refreshes. `HangSpec` assumes nothing about a
running workflow; `EveryJobSettles` assumes `WorkflowsEnd`, `CancelSettles` does not. `"io"`
and `"unkillable"` are excluded from the liveness run: with an operation that fails for ever
nothing settles. In `TrashTransactions` the thread that holds the lock carries on, recovery
proceeds from one intent to the next, and a stopped manager is started again. In
`WorkflowCleanup` the user reruns the saved launch until the workspace verifies, processes
that are not killed go on (weak), and the user removes a refused stage between cleanups
(strong: a cleanup may begin in between). `NothingOutlivesItsCall` assumes `ProcessesRun`:
processes that were forked run and signals arrive; not that the command ends or the caller's
time is up. Deadlock is checked except where a call or a bounded set of requests may end
(`launch_settle`, `workflow_cleanup`, `services`, and the two `TerrainGrid` runs).

## Findings

Six runs end in a violation; each checks what a document or a comment says.

* `lost_cancel`: `docs/web.md` says that a cancellation "sends a process-group termination
  signal and records `cancelling` followed by `cancelled`". `CANCELLING` is durable before
  the thread that signals exists; if the manager stops in between, no later refresh
  signals, and a workflow that does not end by itself keeps its slot in `CANCELLING`.
* `failed_cancel`: `docs/architecture.md` promises a "persistent completed/failed/cancelled
  state". When the record of a cancelled job is already `CANCELLED` and only the append of its
  `job.cancelled` event fails, `refresh` catches the exception and overwrites the record with
  `FAILED`; `CancelledStaysCancelled` forbids that step, and nothing else violates it. A
  cancelled job also ends `FAILED` when the write of `CANCELLED` itself has no effect; then no
  outcome is taken back.
* `trash_shared`: `docs/web.md` says "Job records survive a Web process restart". Two jobs
  share a workspace. A record-only delete of the first, a workspace delete of the second and
  a restore of the first are all accepted; the restore is durable before it notices that its
  retained workspace has gone, and since recovery raises, no later `start()` succeeds.
* `trash_staging`: `docs/web.md` says that "a transaction without a prepared `trash.json` is
  rolled back". If a staging directory cannot be created, the transaction stays behind a
  manager that goes on; after a later delete of the same job its rollback raises at every
  start.
* `narrow_grid`: `README.md` says that adapt mode "deterministically coarsens a request when a
  cell, triangle, or memory limit is exceeded". `_fit_shape_to_budget` takes away a row only
  if rows have kept the larger share and else stops at two columns: a tall narrow raster stays
  above its budget and is refused, although fewer rows would fit and its transpose is adapted.
* `hole_mask`: `_resample_mask_to_shape` is to "conservatively retain any pre-sampling NoData
  footprint". `_verify_raster_evidence` bounds what it may mark as if the samples were as
  small as the cells; one permitted hole of one cell, sampled down by 1.74 to 2 or by 2.31 or
  more, exceeds the bound, and the build fails on the evidence it has just written.

The invariant of `trash_shared`, `RecoveryNeverRefuses`, also fails with `Faults = {"move"}`
and one crash: a rollback that is interrupted while `trash.json` exists is taken forward by
the next start, which then finds the jobs at home. Nothing is lost in any of these
(`trash_safety`).

Noticed while the code was read, without a run of their own:

* `docs/offline-workflow.md:93` says that a restore "strictly reopens the workflow, and only
  then atomically publishes". The last opening, with the evidence it needs, comes after the
  publication (`workflow/maintenance.py:3248-3335`); a failure there rolls back
  (`FailedRestoreLeavesNothing`). The same line says that a relocated workflow "remains
  immediately browsable"; inspecting it needs the archive at the path of the restore
  (`workflow/ux.py:376-395`).
* `docs/tiling.md:126` and `docs/architecture.md:50` list thin walls among what is validated;
  `tiling/connectors.py:987-991` compares the policy's own parameters, not the mesh.
* `list_backups` opens every archive, so one damaged archive hides all (`web/jobs.py:2088-2109`).
* `restore_backup` fails when its first event cannot be appended, though its job is listed
  from then on (`web/jobs.py:2315`).
* An event stream reads the events before the record and may end without the last ones; the
  `Last-Event-ID` of a browser that reconnects is not read (`web/api.py:666-677`).
* The storage estimate counts tiles without the tolerance of the layout
  (`workflow/maintenance.py:810`, `tiling/layout.py:176-183`), and a tile may exceed its
  maximum by up to a cell.
* The exclusive create of POSIX removes the entry at its path on an exception also when it was
  not the one that created it (`web/security.py:2362-2371`); the removal of an owned file
  looks at it and then unlinks by name (`web/security.py:1715`).
* The plain writer raises an ordinary `OSError` when only the sync after its rename failed
  (`web/security.py:2969`); `OutcomeIsTrue` is stated for the owned ones.
* `build_local_terrain` hashes its source for the manifest after having read it
  (`engine/build.py:960`), and `generate_overlay_bundle` each overlay source after having parsed
  it and made its layer (`overlays/bundle.py:364-474`). An edit taken back in between is
  recorded under the hash of the version put back, and verification accepts it:
  `VerifiedMeansCurrent` is about what manifests record.
* A place search that does not parse stays in the cache (`geocoding/nominatim.py:196`), and "at
  most one per second" is per client object (`providers/transport.py:109-119`).

## Proofs

Every safety invariant and action property that a run checks is proved for every value of
the constants that the named assumptions allow, except where it says otherwise; the number of
crashes, faults and edits is a constant too. Each theorem rests on an inductive invariant,
most of them tried with TLC on a small instance first, on one lemma per action or group of
actions, and on a last step that combines them.

### The launch protocol

For every finite set of jobs, every limit, number of crashes and set of faults:

* `InductiveInvariant`: `Spec => []Inductive`. The safety properties are not inductive:
  `SlotBound` needs that the jobs of a batch already count (`Reserved`), `StartsInOrder`
  that a batch holds the oldest queued jobs (`OldestInBatch`) and that ranks are unique
  (`ArrivalOrder`), `WorkflowHoldsSlot` and `NoLateRelease` need what the three files say
  about record and process (`Evidence`), and each of them the position of the lock holder
  (`PassShape`). `CompletedIsGenuine` is inductive with these.
* From it `TypeCorrect`, `SlotBoundHolds`, `WorkflowHoldsSlotAlways`, `NoLateReleaseEver`,
  `CompletedIsGenuineAlways`, and the action properties `StartsInOrderAlways` and
  `ReconciliationFreesDeadContainmentAlways`.
* `OutcomeIsFinalHolds`: where durable writes succeed (`"io" \notin Faults`, as in the run
  `launch_settle`) no step changes a settled record. Without that hypothesis it is false
  (`failed_cancel`), and `OutcomeIsAnOutcome` says what is left: the one change of a settled
  record is that the exception handler of `refresh` makes it `FAILED`. `failed_cancel` shows
  that for a cancelled job; a completed one may be overwritten in the same way.
* `PassesEndHolds` and `JobsMoveOnHolds`: see *What liveness rests on*.
* `Implementation`: `Spec => ImplementsService`, by `InitSimulates` and `StepSimulates`:
  a step of the protocol is a step of the service or leaves its state alone.

Assumed: `JobsFinite`, `LimitsAssumption`, `FaultsAssumption`.

### The trash

For all sets of jobs, workspaces and batches, every relation between jobs and workspaces,
every number of crashes and set of failing effects:

* `InductiveInvariant`: `Spec => []Inductive`. `NothingLost`, `WholeBatch` and `AuditIsTrue`
  speak of batches without an intent or of no batch in particular; to keep them, a step must
  know the batch it works on. `BatchInHand` says for each `pc` what the steps behind it have
  left of that batch, `OwnsIntent` that the intent of the right kind is still on the disk,
  `PassedIsRemoved` that an entry the cursor is about to pass has gone. Of every other batch
  `OneIntent`, `HoldsRecorded` and `ManifestCovers` say what an intent found by `start()` can
  rely on, and `OnlySubmitted` keeps jobs that do not exist yet out of all of them.
* The argument: there is one lemma per action. Each has a part about the disk
  (`TypeOK`, `OneIntent`, ... for all batches) and one about control (`OwnsIntent`,
  `BatchInHand`, `PassedIsRemoved`). `Raise`, `Return` and `Crash` change no directory and
  leave control where nothing is claimed about the batch, except that a rollback starts with
  its transaction on the disk; so a failing effect is covered by the disk part of the effect
  together with one fact about `Raise`.
* From it `TypeCorrect`, `NothingIsLost`, `BatchesAreWhole`, `CursorNeverAhead` (from
  `ManifestCovers`) and `AuditsAreTrue`.
* `NothingIsErased`: the action property `NothingErased`, again action by action: a move takes
  a directory out of one place only into another.
* `RecoveryNeverRefusesHolds`, for private workspaces and without failing effects, as in the
  run `trash_recovery`; `trash_shared` and `trash_staging` show that it needs both. A further
  invariant on top of `Inductive`, `RecoveryInv`, says what the disk looks like at every step
  of a delete, a restore and a purge, so that whichever step a death interrupts, recovery
  finds what it checks for.
* `OperationsEndHolds` and `RecoveryAdvancesHolds`: see *What liveness rests on*.
* `Implementation`: `Spec => ImplementsTrashBin`. Most steps change at most one of
  `Contained`, `Gone`, `Chosen` and `Progress`; the lemmas show which step of `TrashBin` each
  change is, or that it is none.

Assumed: `NamesAreDistinct`, `WorkspaceAssumption`, `BoundsAssumption`, `FaultsAssumption`.

### Around the manager: lease, writes, paths, commands (`ManagerProof`)

* The lease, for any set of managers and number of events: `LeaseInvariant`, and from
  it `LeaseTypeCorrect` and `LeaseIsExclusiveAlways`. Exclusion follows from three facts about
  a manager past each of its steps: it holds the lock of the file it opened (`LockHeld`), the
  file names it once verified (`NamedSelf`), and the file is still the one at the path unless
  it was removed under the manager (`RunsOnFile`). `OnePerRemoval` bounds the files ever
  created. Assumed: `LeaseAssumption`.
* Atomic writes, for any set of writers, owned or not, replacing or not:
  `PublishInvariant`, `PublishTypeCorrect`, `PublishedIsWholeAlways`, `OutcomeIsTrueAlways`.
  A writer is `Ready`, content and disk, before its rename; until then it is `Unnamed`; and
  what a power loss may bring back is never older than what a finished writer was told
  (`InOrder`). Assumed: `PublishAssumption`. This justifies the outcomes that `WorkerLaunch`
  and `TrashTransactions` give to a durable write.
* `OwnedCallsAreTrueHolds`, for both platforms, all nine calls and any number of foreign acts.
  The invariant relates what a call has pinned, opened and read to where its path ever led
  (`PinAtStep`, `ReadAtStep`) and says that before its act it has done nothing
  (`EffectsAtStep`). That an entry was read in one version needs that edits are counted and
  the counter never goes back. Assumed: `OwnedAssumption`.
* Contained commands, for any set of processes that the command leaves behind:
  `CommandTypeCorrect`; `GroupIsKilledOrWatchedHolds`, the safety half of
  `NothingOutlivesItsCall`; and the action property `KilledGroupShrinksAlways`. The watcher is
  in the group before the supervisor starts the command, and whoever starts anything is in the
  group alive (`CommandInv`); so the kill reaches everybody at once, and a fork that races it
  comes from a process that has been sent it too. Assumed: `ChildrenAssumption`.

### The workflow (`WorkflowProof`)

For any launches and settings, number of edits, damages and faults, and a cleanup beside the
run:

* `TypeCorrect`, and `VerifiedMeansCurrentHolds`. A stage that reopens is whole, agrees with
  its parent's record in everything it does not add itself, and what it adds is what the
  verifier compares with the files (`ReopenedIsCurrent`); going up the plan from parent to
  child, every version in a record is the present one. `AllShaped` says which versions a stage
  cannot have used.
* `UndisturbedRunVerifiesHolds`: from `WorkflowInv` (`RunShape`, the run goes through its plan
  in order) and `CalmInv`: while nothing was edited or damaged, the records of the run reopen
  as strictly as the finished workflow will have to.
* `PurgeSparesManifestHolds`: the action property, from `PurgeSafe`: what is in the quarantine
  was registered as moved or given up, and what the cleanup inspected holds the records of the
  manifest and of every run begun since.

Assumed: the assumptions of `Workspace`, `WorkflowRun` and `WorkflowCleanup`.

### The pipeline (`PipelineProof`)

* `DownloadsStayHolds` (`CacheAssumption`), for any clients, requests and contents: what is
  indexed was served (`IndexIsServed`), nobody drops an object that was never damaged
  (`Unharmed`), and a mended one is there or about to be placed (`HarmIsTrue`), also when a
  client that found it bad unlinks what another has published since.
* `AcquisitionIsTrueHolds` (`AcquisitionAssumption`), for any ranking of providers: they are
  tried in order (`TriedInOrder`), a running fetch writes its own files and the manifest last
  (`FetchIsOwn`), trusted hashes are those of the fetch that wrote them (`SealIsOwn`), and
  between two fetches the drop is empty of them (`NothingLeft`).
* `BundleIsOfOneBuildHolds` (`BundleAssumption`): each report is of one build at every step of
  staging and recording (`StagedAtStep`, `BundleAtStep`), and reports that name each other's
  digests are of the same one.
* `EvidenceIsOfItsSourceHolds` (`EvidenceAssumption`), for any number of tiles: the stamp of
  the executable only grows, so one that is the locked one after a run was so during the run
  (`ResultIsOfTheRun`); the stage holds what the runs so far have made (`KeptIsOfTheRuns`).

### Terrain and tiles (`TerrainProof`, `TilingProof`)

* `TerrainIsPrintableHolds` (`TerrainAssumption`), for rasters of any size and all budgets:
  * the crop is the largest covered rectangle. `LargestTrueRectangle` folds over rows and
    columns with a stack, as recursive functions, and is reasoned about through the least
    index at which a fact would fail (`Least`). `StackHolds`: the stack has an entry for every
    rectangle that can be continued to the right; `BestHolds`: the best is no smaller than
    any that has ended;
  * the samples fit the budgets (`Affordable` requests are left as they are), the gates of the
    preflight fail only for the two causes that `GatesFailForCause` names, and the vertical
    scale keeps the relief below the limit (integer arithmetic of ratios);
  * the mesh is closed: each face has a code, each directed edge an owner computed from the
    edge alone, so none is walked twice; each is walked the other way by a face that its kind
    names.
* `AoiIsCoveredOnceHolds`, for every source of at most a turn and every request: a column is
  in the window of a part exactly if it touches the part (`InWindow`, floor and ceiling of a
  division), what is read is what touches some part, in one window or in two that meet at the
  seam (`WhatIsRead`), and the rest is arithmetic modulo a turn (`SameRest`, `NextRest`).
* `TilesAreTheTerrainHolds` (`TilingAssumption`), for any raster, layout and number of edits:
  once the bundle was found unchanged, a sample of its raster is what the manifest records or
  newer than every tile (`CutIsTrue`), and a mesh has the samples with the checksum of its
  tile (`MeshIsTrue`). `PrintTilesKeepTheTerrain` carries it over to `PrintSpec`.
* `TilesFitTogetherHolds` (and `PrinterAssumption`), for any layout and printer: two dovetails
  of a row or a column that come from one corner stay apart because the margin at the ends of
  a seam is larger than their reach; those of one seam are a spacing apart; those of two seams
  are in two tiles.

### What the manager shows and keeps (`ManagerProof`)

* `StreamTellsTheJobHolds` (`ProgressAssumption`): a client has a prefix of the log
  (`ToldIsLog`) and after an outcome only FAILED may follow (`OutcomeIsLast`).
* `ViewsAreOfTheirJobHolds` (`ViewsAssumption`), for any requests: what a request has made so
  far is of its job or no longer sound, and one restore ever finds the workspace free
  (`OneRestore`).
* `TileCacheIsSoundHolds` (`TileAssumption`), for any tiles, requests and limits: who is
  between the second look and the end holds the tile's lock (`LocksAreHeld`), so what it read
  still holds (`LockedReadIsTrue`) and no download is wasted (`DownloadsAreUsed`).
* Backups, for any files, restores, generations and faults: `BackupInvariant`,
  `BackupTypeCorrect`, `ArchiveIsOneWorkflowAlways`, `FailedRestoreLeavesNothingAlways` and the
  action property `RestoreSparesOthersAlways`. Only an archive that reopened is published
  (`PublishesOneWorkflow`), and a restore that has not published owns nothing but its staging
  directory (`OwnPlace`). Assumed: `BackupAssumption`.

### The composition (`ServicesProof`)

`ServicesImplementComponents`: `MCServices` starts every component in one of its own initial
states, and a step of one changes no variable of another. So a behaviour of the composition
is a behaviour of each of the fourteen (`ServicesInitial`, `ServicesStep`), and their theorems
carry over: `ServicesTypeCorrect` is `[]ServicesTypeOK`, `ServicesAreSafe` everything else that
the run `services` checks, with what is proved of contained commands. Liveness is not part of
it: `ServicesSpec` states no fairness. Assumed: the assumptions of the components.

### What liveness rests on

The five properties about what must eventually happen need fairness and ENABLED and stay with
TLC. The other half of each argument is a step relation: what is under way gets nearer to its
end with every step of its own, in a well-founded order, and nobody takes it back. That half
is proved for all constants, including the faults that the liveness runs leave out:

* `PassesEndHolds` (for `EveryJobSettles`, `CancelSettles`): a step of `_start_job` or `refresh`
  leaves fewer records to reconcile; or as many, and fewer jobs to start; or is a later step
  with the same record. An exception empties both. While the lock is held nobody lengthens
  the pass, so the monitor, the clients and the termination threads get the lock again.
* `JobsMoveOnHolds` (for the same two): the state of a job never goes back, from `absent` over
  `queued`, `starting`, `running` and `cancelling` to an outcome; nor does its worker; nor are
  a gate, a ready record and a result withdrawn or rewritten. It needs `Evidence`: a
  result exists only once its worker has reported.
* `OperationsEndHolds` (for `EveryIntentEnds`): the steps of a delete, restore or purge are
  counted down, a loop by what it has still to visit, and the loop of a purge, which has two
  steps, by its manifest. A failing effect ends the operation or turns it into its rollback,
  whose steps come after all of those it can fail from. `EndInv` says that the entry in hand
  is still listed.
* `RecoveryAdvancesHolds` (for the same): during `start()` no intent is added, an operation
  that finishes closes one, and the manager serves when none is left.
* `RunsEndHolds` (for `RerunRecovers`): a run records one more stage, or is a later phase or
  effect; a cleanup has one directory less to move or to move back. It needs `RunShape`: the
  stage in hand was not recorded yet.
* `KilledGroupShrinksAlways` (for `NothingOutlivesItsCall`): see above.

### Only model-checked

* Liveness itself: `EveryJobSettles`, `CancelSettles`, `NothingOutlivesItsCall`,
  `EveryIntentEnds`, `RerunRecovers`. What TLC adds to the theorems above is that a step with
  fairness is enabled whenever something is under way, and that refreshes, restarts and reruns
  do not go round in circles. Jobs wait for one another only through the slots and the
  manager's lock, which two jobs and one slot exercise; batches and workspaces wait for nobody.
* That the models' integer geometry is what the floating-point code computes: see Not modelled.

## Plan

Done: all components above are model-checked, and every safety property of theirs is proved,
also of their composition.
Left, in order:

1. Two runners in one workspace: the code has no lock against it; state what still holds.
2. The limiter of place searches, as a component with a clock.
3. The Windows writers of `web/security.py` and job objects of `process_containment.py`.
4. The refinement of an abstract job store by `JobProgress` and `BackupRestore` together.

`WorkerLaunch` and `TrashTransactions` share only the manager lock and the state of a job;
each has the other's part as a nondeterministic environment (`Settle` here, no deletion
there), because a terminal record takes no part in the launch protocol any more. The other
components share files with each other only across a verification, which each of them makes
again: hence one module each with a nondeterministic environment, and `WorkflowRun` composed
with `WorkflowCleanup`, where that is not so.

## Not modelled

* Numerics (interpolation, projection, mesh and overlay geometry, previews) are floating-point
  functions without state, out of reach of TLC and TLAPS. `TerrainGrid`, `TileSet` and
  `PrintTiles` model the integer part of them: indices, windows, sizes, adjacency.
* Overlays, exporters (STL, 3MF, GLB), validation of their files and slicer profiles have no
  state and no order to get wrong; a file is whole or damaged in the modules that use them.
* Geocoding parses an answer of the download cache, which is modelled. Its candidates are
  chosen by the user.
* The command line, request parsing and the browser client only call the components above.
  Release scripts (`scripts/`) check evidence of a release and write a report at the end.
* On Windows, the writers of temporary files and the renames of `web/security.py` (1764-1912,
  2808-2887) and the job objects are a second implementation of interfaces that are
  modelled; `OwnedPaths` has both platforms.
* Rate limits and the delays of back-off: the model lets any time pass between attempts.
* Progress texts, errors and logging; records of older schemas.
* Links placed by others and other breaches of ownership, outside `OwnedPaths`, are rejected
  by checks that raise without a change of state.
