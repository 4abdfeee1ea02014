(* Progress across one crash; a workflow may hang unless a property says it ends. *)
CONSTANTS
    Jobs = {j1, j2}
    MaxConcurrent = 1
    MaxCrashes = 1
    Faults = {"stray"}
    Children = {c1, c2}
SPECIFICATION SettleSpec
PROPERTIES
    OutcomeIsFinal
    EveryJobSettles
    CancelSettles
    NothingOutlivesItsCall
CHECK_DEADLOCK FALSE
