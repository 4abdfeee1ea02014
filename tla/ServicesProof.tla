---------------------------- MODULE ServicesProof -----------------------------
(*****************************************************************************)
(* The composition of the components that share no state: it implements each *)
(* of them, so what is proved of a component alone holds of the composed     *)
(* system that TLC checks, for every value of the constants.                 *)
(*****************************************************************************)
EXTENDS MCServices, ManagerProof, PipelineProof, TerrainProof, TilingProof,
        TLAPS

servicesVars ==
    <<focus, leaseVars, publishVars, cacheVars, tileVars, commandVars, backupVars,
      acquisitionVars, evidenceVars, bundleVars, terrainVars, tilingVars, printVars,
      ownedVars, viewVars, progressVars>>

\* Every component starts from one of its own initial states.
LEMMA ServicesInitial ==
    ServicesInit =>
        /\ LeaseInit /\ PublishInit /\ CacheInit /\ TilesInit /\ CommandInit /\ BackupInit
        /\ AcquisitionInit /\ EvidenceInit /\ BundleInit /\ TerrainInit /\ PrintInit
        /\ OwnedInit /\ JobViewsInit /\ ProgressInit
  BY DEF ServicesInit

\* A step of one component is a step of none of the others.
LEMMA ServicesStep ==
    [ServicesNext]_servicesVars =>
        /\ [LeaseNext]_leaseVars /\ [PublishNext]_publishVars /\ [CacheNext]_cacheVars
        /\ [TilesNext]_tileVars /\ [CommandNext]_commandVars /\ [BackupNext]_backupVars
        /\ [AcquisitionNext]_acquisitionVars /\ [EvidenceNext]_evidenceVars
        /\ [BundleNext]_bundleVars /\ [TerrainNext]_terrainVars
        /\ [PrintNext]_<<tilingVars, printVars>> /\ [OwnedNext]_ownedVars
        /\ [JobViewsNext]_viewVars /\ [JobProgressNext]_progressVars
  BY DEF servicesVars, ServicesNext, LeaseRuns, PublishRuns, CacheRuns, TilesRun, CommandRuns,
         BackupRuns, AcquisitionRuns, EvidenceRuns, BundleRuns, TerrainRuns, TilingRuns,
         OwnedRuns, ViewRuns, ProgressRuns

\* A behaviour of the composition is one of every component: what is proved of a
\* component alone holds of the composed system that the run checks.
THEOREM ServicesImplementComponents ==
    ServicesSpec =>
        /\ LeaseSpec /\ PublishSpec /\ CacheSpec /\ TilesSpec /\ CommandSpec /\ BackupSpec
        /\ AcquisitionSpec /\ EvidenceSpec /\ BundleSpec /\ TerrainSpec /\ PrintSpec
        /\ OwnedSpec /\ JobViewsSpec /\ JobProgressSpec
  BY ServicesInitial, ServicesStep, PTL
     DEF ServicesSpec, servicesVars, LeaseSpec, PublishSpec, CacheSpec, TilesSpec, CommandSpec,
         BackupSpec, AcquisitionSpec, EvidenceSpec, BundleSpec, TerrainSpec, PrintSpec,
         OwnedSpec, JobViewsSpec, JobProgressSpec

\* The state of every component has its type.
THEOREM ServicesTypeCorrect == ServicesSpec => []ServicesTypeOK
  <1>1. /\ ManagerLeaseTypeOK /\ AtomicPublishTypeOK /\ ProviderCacheTypeOK
        /\ ReferenceTilesTypeOK /\ ContainedCommandTypeOK /\ BackupTypeOK
        /\ SourceAcquisitionTypeOK /\ BambuEvidenceTypeOK /\ BundleTypeOK /\ TerrainTypeOK
        /\ PrintTypeOK /\ OwnedPathsTypeOK /\ JobViewsTypeOK /\ JobProgressTypeOK
        => ServicesTypeOK
    BY DEF ServicesTypeOK
  <1> QED
    BY <1>1, ServicesImplementComponents, LeaseTypeCorrect, PublishTypeCorrect,
       DownloadsStayHolds, TileCacheIsSoundHolds, CommandTypeCorrect, BackupTypeCorrect,
       AcquisitionIsTrueHolds, EvidenceIsOfItsSourceHolds, BundleIsOfOneBuildHolds,
       TerrainIsPrintableHolds, TilesFitTogetherHolds, OwnedCallsAreTrueHolds,
       ViewsAreOfTheirJobHolds, StreamTellsTheJobHolds, PTL

\* Everything the run of the services checks, for every value of the constants.
THEOREM ServicesAreSafe ==
    ServicesSpec =>
        /\ [](/\ LeaseIsExclusive /\ PublishedIsWhole /\ OutcomeIsTrue /\ DownloadsStay
              /\ TileCacheIsSound /\ GroupIsKilledOrWatched /\ ArchiveIsOneWorkflow
              /\ FailedRestoreLeavesNothing /\ AcquisitionIsTrue /\ EvidenceIsOfItsSource
              /\ BundleIsOfOneBuild /\ AoiIsCoveredOnce /\ TerrainIsPrintable
              /\ TilesAreTheTerrain /\ TilesFitTogether /\ OwnedCallsAreTrue
              /\ ViewsAreOfTheirJob /\ StreamTellsTheJob)
        /\ RestoreSparesOthers /\ KilledGroupShrinks
  BY ServicesImplementComponents, LeaseIsExclusiveAlways, PublishedIsWholeAlways,
     OutcomeIsTrueAlways, DownloadsStayHolds, TileCacheIsSoundHolds,
     GroupIsKilledOrWatchedHolds, KilledGroupShrinksAlways, ArchiveIsOneWorkflowAlways,
     FailedRestoreLeavesNothingAlways, RestoreSparesOthersAlways, AcquisitionIsTrueHolds,
     EvidenceIsOfItsSourceHolds, BundleIsOfOneBuildHolds, AoiIsCoveredOnceHolds,
     TerrainIsPrintableHolds, PrintTilesKeepTheTerrain, TilesFitTogetherHolds,
     OwnedCallsAreTrueHolds, ViewsAreOfTheirJobHolds, StreamTellsTheJobHolds, PTL

===============================================================================
