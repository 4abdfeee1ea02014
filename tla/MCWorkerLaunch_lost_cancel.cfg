(* A cancellation recorded before the manager stops is never carried out. *)
CONSTANTS
    Jobs = {j1}
    MaxConcurrent = 1
    MaxCrashes = 1
    Faults = {}
SPECIFICATION HangSpec
PROPERTIES
    CancellingEndsCancelled
