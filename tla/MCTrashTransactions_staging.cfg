(* A directory cannot be created; nobody dies. *)
CONSTANTS
    j1 = j1
    j2 = j2
    w1 = w1
    w2 = w2
    Jobs = {j1, j2}
    Workspaces = {w1, w2}
    WorkspaceOf <- Private
    Batches = {b1, b2}
    MaxVersions = 1
    MaxCrashes = 0
    Faults = {"mkdir"}
SPECIFICATION Spec
INVARIANTS
    RecoveryNeverRefuses
