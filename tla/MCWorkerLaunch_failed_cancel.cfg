(* A cancelled job whose last event cannot be written is recorded as failed. *)
CONSTANTS
    Jobs = {j1}
    MaxConcurrent = 1
    MaxCrashes = 0
    Faults = {"io"}
SPECIFICATION Spec
PROPERTIES
    CancelledStaysCancelled
