--------------------------- MODULE MCWorkerLaunch ---------------------------
(* WorkerLaunch on small sets of jobs. *)
EXTENDS WorkerLaunch, TLC

JobSymmetry == Permutations(Jobs)
=============================================================================
