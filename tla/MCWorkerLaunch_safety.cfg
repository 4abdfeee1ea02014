(* One slot, two jobs, one manager crash, every fault. *)
CONSTANTS
    Jobs = {j1, j2}
    MaxConcurrent = 1
    MaxCrashes = 1
    Faults = {"io", "unkillable", "stray"}
SPECIFICATION Spec
SYMMETRY JobSymmetry
INVARIANTS
    Inductive
    WorkflowHoldsSlot
    NoLateRelease
PROPERTIES
    StartsInOrder
    ReconciliationFreesDeadContainment
    ImplementsService
