(* Two or three actors per component, two faults or foreign acts each. *)
CONSTANTS
    Managers = {m1, m2}
    MaxLeaseEvents = 3
    Writers = {w1, w2, w3}
    Replacing = {w1, w2}
    Owned = {w1, w3}
    MaxPublishFaults = 2
    Clients = {k1, k2}
    Identities = {i1, i2}
    Contents = {o1, o2}
    MaxAttempts = 2
    MaxCacheEvents = 2
    Tiles = {"large", "west", "mid", "east"}
    Size <- TileSizes
    Requests = {q1, q2}
    MaxTiles = 2
    MaxBytes = 3
    MaxTileEvents = 2
    Children = {c1, c2}
    Parts = {p1, p2}
    Restores = {r1, r2}
    MaxGeneration = 2
    MaxMeddling = 1
    MaxBackupFaults = 2
    Ranking <- RankedTwo
    Masks = {"mask"}
    MaxAcqFaults = 2
    TileCount = 2
    MaxEvidenceEvents = 2
    Rasters = {1, 2}
    Formats = {"model_3mf", "preview_glb"}
    Slicings = {s1, s2}
    MaxBundleEvents = 1
    HalfTurn = 6
    Lefts = {5, 6, 7, 12}
    Widths = {3, 5, 6, 12}
    Steps = {1, 2, 3}
    CoverSides = {2, 3}
    GridSides = {2, 7, 12}
    MaxHole = 1
    MaxMissing = 1
    Spacings = {0, 1}
    ModelWidth = 3
    CellBudgets = {16}
    MemoryBudgets = {4, 30}
    TriangleBudgets = {0, 12}
    Elevations = {0, 2, 9}
    Base = 2
    MinBase = 1
    HeightLimit = 6
    Visible = 2
    MinScale = 1
    MaxScale = 3
    TilePlans <- RequestedPlans
    SizeTolerance = 1
    EditedLines = {1}
    MaxTilingEvents = 2
    Platforms = {"posix", "windows"}
    OwnedCalls = {"directory", "identity", "create", "move", "remove", "read", "stream",
                  "exclusive", "stable"}
    MaxForeign = 2
    Views = {v1, v2}
    MaxViewEvents = 1
    StreamClients = {z1}
    StageCount = 2
    MaxEvents = 4
    MaxProgressFaults = 2
SPECIFICATION ServicesSpec
INVARIANTS
    ServicesTypeOK
    LeaseIsExclusive
    PublishedIsWhole
    OutcomeIsTrue
    DownloadsStay
    TileCacheIsSound
    ArchiveIsOneWorkflow
    FailedRestoreLeavesNothing
    AcquisitionIsTrue
    EvidenceIsOfItsSource
    BundleIsOfOneBuild
    AoiIsCoveredOnce
    TerrainIsPrintable
    TilesAreTheTerrain
    TilesFitTogether
    OwnedCallsAreTrue
    ViewsAreOfTheirJob
    StreamTellsTheJob
PROPERTIES
    RestoreSparesOthers
CHECK_DEADLOCK FALSE
