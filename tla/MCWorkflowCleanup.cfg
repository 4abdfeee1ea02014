(* Two launches, one crash, one edit that may be undone, damage or failure. *)
CONSTANTS
    Launches = {"print", "region"}
    Settings <- PrintAndRegion
    MaxVersion = 2
    Editable = {"dem", "overlay", "slicer"}
    Damageable = {"build"}
    MaxDisturbances = 1
    MaxFaults = 1
    MaxCleanups = 1
    MoveFaults = {"not_moved", "uncertain"}
SPECIFICATION FairSpec
INVARIANTS
    TypeOK
    VerifiedMeansCurrent
    UndisturbedRunVerifies
PROPERTIES
    PurgeSparesManifest
    RerunRecovers
CHECK_DEADLOCK FALSE
