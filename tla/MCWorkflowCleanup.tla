------------------------- MODULE MCWorkflowCleanup -------------------------
(* WorkflowCleanup with one launch for a printer and one for a region. *)
EXTENDS WorkflowCleanup, TLC

\* A local DEM sliced for a printer, and a downloaded one with an overlay.
PrintAndRegion ==
    "print" :> [aoi |-> 0, terrain |-> 1, tiles |-> 1, overlaid |-> FALSE,
                sliced |-> TRUE, projects |-> TRUE]
    @@ "region" :> [aoi |-> 1, terrain |-> 1, tiles |-> 1, overlaid |-> TRUE,
                    sliced |-> FALSE, projects |-> FALSE]
=============================================================================
