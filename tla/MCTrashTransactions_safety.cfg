(* Two jobs in one workspace, two batches, one death, every effect may raise. *)
CONSTANTS
    j1 = j1
    j2 = j2
    w1 = w1
    w2 = w2
    Jobs = {j1, j2}
    Workspaces = {w1}
    WorkspaceOf <- Shared
    Batches = {b1, b2}
    MaxVersions = 2
    MaxCrashes = 1
    Faults = {"write", "mkdir", "move", "remove"}
SPECIFICATION Spec
SYMMETRY SharedSymmetry
INVARIANTS
    Inductive
    NothingLost
PROPERTIES
    NothingErased
    ImplementsTrashBin
