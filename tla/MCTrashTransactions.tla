------------------------ MODULE MCTrashTransactions ------------------------
(* TrashTransactions on small sets of jobs, workspaces and batches. *)
EXTENDS TrashTransactions, TLC

CONSTANTS j1, j2, w1, w2

Private == j1 :> w1 @@ j2 :> w2   \* every job has a workspace of its own
Shared  == j1 :> w1 @@ j2 :> w1   \* both jobs were submitted with the same one


(* Under Shared the two jobs are interchangeable, and batches always are. *)
SharedSymmetry == Permutations(Jobs) \cup Permutations(Batches)
=============================================================================
