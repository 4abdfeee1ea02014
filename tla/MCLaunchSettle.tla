--------------------------- MODULE MCLaunchSettle ---------------------------
(***************************************************************************)
(* What must eventually happen: jobs settle, and no process outlives the   *)
(* call that contained it.  A command runs while an open manager has no    *)
(* job, and then no job comes: the two share no state.                     *)
(***************************************************************************)
EXTENDS WorkerLaunch, ContainedCommand

JobsRun == caller = "idle" /\ Next /\ UNCHANGED commandVars

CommandRuns ==
    /\ mgr = "open" /\ \A j \in Jobs : rec[j].state = "absent"
    /\ CommandNext /\ UNCHANGED vars

SettleSpec ==
    /\ Init /\ CommandInit /\ [][JobsRun \/ CommandRuns]_<<vars, commandVars>>
    /\ ManagerFairness /\ GateFairness
=============================================================================
