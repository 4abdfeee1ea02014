------------------------------ MODULE MCServices ------------------------------
(***************************************************************************)
(* The components around the job manager and the workflow, checked in one  *)
(* run.  They share no state: Init chooses the one that runs, and the      *)
(* others stay as they are.                                                *)
(***************************************************************************)
EXTENDS ManagerLease, AtomicPublish, ProviderCache, ReferenceTiles, ContainedCommand,
        BackupRestore, SourceAcquisition, BambuEvidence, BuildBundle, TerrainGrid,
        PrintTiles, OwnedPaths, JobViews, JobProgress, TLC

VARIABLE focus    \* the component that runs

\* One tile fills the cache, three small ones fit but are one too many.
TileSizes == "large" :> 3 @@ "west" :> 1 @@ "mid" :> 1 @@ "east" :> 1
RankedTwo == <<"first", "second">>

\* The bambu-p2s printers, and a base too thin for a dovetail.
P2S04 == [nozzle |-> 400, layer |-> 200, feature |-> 500, tolerance |-> 200, base |-> 3000,
          volume |-> 64000]
P2S02 == [P2S04 EXCEPT !.nozzle = 200, !.layer = 100, !.feature = 250]
ThinBase == [P2S04 EXCEPT !.base = 1700]

Request(rows, columns, cell, drift, maxTile, overlap, printer) ==
    [rows |-> rows, columns |-> columns, cell |-> cell, drift |-> drift,
     maxTile |-> maxTile, overlap |-> overlap, printer |-> printer]

\* Strips of tiles narrower, as wide and wider than a dovetail is deep; grids that
\* divide evenly, or not; seams too short; tiles as large as the printer; more
\* tiles than cells.
RequestedPlans ==
    {Request(1, 3, cell, 0, cell, 0, P2S04) : cell \in {3300, 3400, 3500}}
    \cup {Request(2, 3, 30000, 1, 30000, 1, P2S04), Request(2, 3, 30000, 0, 45000, 0, P2S04),
          Request(2, 3, 30000, 0, 45000, 1, P2S04)}
    \cup {Request(2, 2, 10000, 0, 10000, 0, P2S04), Request(1, 2, 62000, 0, 62000, 1, P2S04),
          Request(2, 1, 60000, 0, 60000, 1, P2S04), Request(1, 2, 21000, 0, 10500, 0, P2S04),
          Request(1, 2, 21000, 0, 21000, 0, ThinBase), Request(3, 1, 22000, 0, 22000, 0, P2S02)}

ServicesInit ==
    /\ focus \in {"lease", "publish", "cache", "tiles", "command", "backup", "acquisition",
                  "evidence", "bundle", "terrain", "tiling", "owned", "views", "progress"}
    /\ LeaseInit /\ PublishInit /\ TilesInit /\ CommandInit /\ BackupInit
    /\ AcquisitionInit /\ EvidenceInit /\ BundleInit /\ TerrainInit
    \* Whatever another component may start from, it starts from one state here.
    /\ CacheInit
    /\ focus # "cache" => serves = [i \in Identities |-> CHOOSE c \in Contents : TRUE]
    /\ PrintInit
    /\ focus # "tiling" => chosen = CHOOSE p \in TilePlans : TRUE
    /\ OwnedInit
    /\ focus # "owned" => platform = "posix" /\ ownedCall = "read" /\ stands["here"] = "none"
    /\ JobViewsInit
    /\ focus # "views" => viewKind = [v \in Views |-> "tile"]
    /\ workspace = "taken" => \E v \in Views : viewKind[v] = "restore"
    /\ ProgressInit
    /\ focus # "progress" => statusReady = 0

LeaseRuns ==
    /\ focus = "lease" /\ LeaseNext
    /\ UNCHANGED <<focus, publishVars, cacheVars, tileVars, commandVars, backupVars,
                   acquisitionVars, evidenceVars, bundleVars, terrainVars, tilingVars,
                   printVars, ownedVars, viewVars, progressVars>>
PublishRuns ==
    /\ focus = "publish" /\ PublishNext
    /\ UNCHANGED <<focus, leaseVars, cacheVars, tileVars, commandVars, backupVars,
                   acquisitionVars, evidenceVars, bundleVars, terrainVars, tilingVars,
                   printVars, ownedVars, viewVars, progressVars>>
CacheRuns ==
    /\ focus = "cache" /\ CacheNext
    /\ UNCHANGED <<focus, leaseVars, publishVars, tileVars, commandVars, backupVars,
                   acquisitionVars, evidenceVars, bundleVars, terrainVars, tilingVars,
                   printVars, ownedVars, viewVars, progressVars>>
TilesRun ==
    /\ focus = "tiles" /\ TilesNext
    /\ UNCHANGED <<focus, leaseVars, publishVars, cacheVars, commandVars, backupVars,
                   acquisitionVars, evidenceVars, bundleVars, terrainVars, tilingVars,
                   printVars, ownedVars, viewVars, progressVars>>
CommandRuns ==
    /\ focus = "command" /\ CommandNext
    /\ UNCHANGED <<focus, leaseVars, publishVars, cacheVars, tileVars, backupVars,
                   acquisitionVars, evidenceVars, bundleVars, terrainVars, tilingVars,
                   printVars, ownedVars, viewVars, progressVars>>
BackupRuns ==
    /\ focus = "backup" /\ BackupNext
    /\ UNCHANGED <<focus, leaseVars, publishVars, cacheVars, tileVars, commandVars,
                   acquisitionVars, evidenceVars, bundleVars, terrainVars, tilingVars,
                   printVars, ownedVars, viewVars, progressVars>>
AcquisitionRuns ==
    /\ focus = "acquisition" /\ AcquisitionNext
    /\ UNCHANGED <<focus, leaseVars, publishVars, cacheVars, tileVars, commandVars, backupVars,
                   evidenceVars, bundleVars, terrainVars, tilingVars, printVars, ownedVars,
                   viewVars, progressVars>>
EvidenceRuns ==
    /\ focus = "evidence" /\ EvidenceNext
    /\ UNCHANGED <<focus, leaseVars, publishVars, cacheVars, tileVars, commandVars, backupVars,
                   acquisitionVars, bundleVars, terrainVars, tilingVars, printVars, ownedVars,
                   viewVars, progressVars>>
BundleRuns ==
    /\ focus = "bundle" /\ BundleNext
    /\ UNCHANGED <<focus, leaseVars, publishVars, cacheVars, tileVars, commandVars, backupVars,
                   acquisitionVars, evidenceVars, terrainVars, tilingVars, printVars,
                   ownedVars, viewVars, progressVars>>
TerrainRuns ==
    /\ focus = "terrain" /\ TerrainNext
    /\ UNCHANGED <<focus, leaseVars, publishVars, cacheVars, tileVars, commandVars, backupVars,
                   acquisitionVars, evidenceVars, bundleVars, tilingVars, printVars, ownedVars,
                   viewVars, progressVars>>
TilingRuns ==
    /\ focus = "tiling" /\ PrintNext
    /\ UNCHANGED <<focus, leaseVars, publishVars, cacheVars, tileVars, commandVars, backupVars,
                   acquisitionVars, evidenceVars, bundleVars, terrainVars, ownedVars, viewVars, progressVars>>
OwnedRuns ==
    /\ focus = "owned" /\ OwnedNext
    /\ UNCHANGED <<focus, leaseVars, publishVars, cacheVars, tileVars, commandVars, backupVars,
                   acquisitionVars, evidenceVars, bundleVars, terrainVars, tilingVars,
                   printVars, viewVars, progressVars>>
ViewRuns ==
    /\ focus = "views" /\ JobViewsNext
    /\ UNCHANGED <<focus, leaseVars, publishVars, cacheVars, tileVars, commandVars, backupVars,
                   acquisitionVars, evidenceVars, bundleVars, terrainVars, tilingVars,
                   printVars, ownedVars, progressVars>>

ProgressRuns ==
    /\ focus = "progress" /\ JobProgressNext
    /\ UNCHANGED <<focus, leaseVars, publishVars, cacheVars, tileVars, commandVars, backupVars,
                   acquisitionVars, evidenceVars, bundleVars, terrainVars, tilingVars,
                   printVars, ownedVars, viewVars>>

ServicesNext ==
    \/ LeaseRuns \/ PublishRuns \/ CacheRuns \/ TilesRun \/ CommandRuns \/ BackupRuns
    \/ AcquisitionRuns \/ EvidenceRuns \/ BundleRuns \/ TerrainRuns \/ TilingRuns
    \/ OwnedRuns \/ ViewRuns \/ ProgressRuns

ServicesSpec ==
    ServicesInit /\ [][ServicesNext]_<<focus, leaseVars, publishVars, cacheVars, tileVars, commandVars,
                        backupVars, acquisitionVars, evidenceVars, bundleVars, terrainVars,
                        tilingVars, printVars, ownedVars, viewVars, progressVars>>

\* The state of the component that runs has its type; the others are as at first.
ServicesTypeOK ==
    /\ focus = "lease" => ManagerLeaseTypeOK
    /\ focus = "publish" => AtomicPublishTypeOK
    /\ focus = "cache" => ProviderCacheTypeOK
    /\ focus = "tiles" => ReferenceTilesTypeOK
    /\ focus = "command" => ContainedCommandTypeOK
    /\ focus = "backup" => BackupTypeOK
    /\ focus = "acquisition" => SourceAcquisitionTypeOK
    /\ focus = "evidence" => BambuEvidenceTypeOK
    /\ focus = "bundle" => BundleTypeOK
    /\ focus = "terrain" => TerrainTypeOK
    /\ focus = "tiling" => PrintTypeOK
    /\ focus = "owned" => OwnedPathsTypeOK
    /\ focus = "views" => JobViewsTypeOK
    /\ focus = "progress" => JobProgressTypeOK
=============================================================================
