-------------------------- MODULE WorkflowService --------------------------
(***************************************************************************)
(* What the Web job manager promises its clients about a workflow, without *)
(* processes, files or crashes: an accepted job waits, is admitted to one  *)
(* of MaxConcurrent slots, runs at most once and only in that slot, and    *)
(* gets an outcome when it no longer runs.  "completed" is said only of a  *)
(* workflow that produced its result.                                      *)
(***************************************************************************)
EXTENDS Naturals, FiniteSets

CONSTANTS Jobs, MaxConcurrent

VARIABLES
    phase,     \* job -> "absent", "waiting", "admitted", or its outcome
    run,       \* job -> "idle", "running" or "over"
    produced   \* jobs whose workflow reported success

vars == <<phase, run, produced>>

Outcomes == {"completed", "failed", "cancelled"}
Admitted == {j \in Jobs : phase[j] = "admitted"}

Init ==
    /\ phase = [j \in Jobs |-> "absent"]
    /\ run = [j \in Jobs |-> "idle"]
    /\ produced = {}

Accept(j) ==
    /\ phase[j] = "absent" /\ phase' = [phase EXCEPT ![j] = "waiting"]
    /\ UNCHANGED <<run, produced>>

Admit(j) ==
    /\ phase[j] = "waiting" /\ Cardinality(Admitted) < MaxConcurrent
    /\ phase' = [phase EXCEPT ![j] = "admitted"]
    /\ UNCHANGED <<run, produced>>

Begin(j) ==
    /\ phase[j] = "admitted" /\ run[j] = "idle"
    /\ run' = [run EXCEPT ![j] = "running"]
    /\ UNCHANGED <<phase, produced>>

\* The workflow ends, or will never begin.
End(j) ==
    /\ run[j] # "over" /\ run' = [run EXCEPT ![j] = "over"]
    /\ \/ UNCHANGED produced
       \/ run[j] = "running" /\ produced' = produced \cup {j}
    /\ UNCHANGED phase

\* A slot is given up only by a workflow that is not running.
Close(j) ==
    /\ phase[j] \in {"waiting", "admitted"} /\ run[j] # "running"
    /\ \E o \in Outcomes :
         /\ o = "completed" => j \in produced
         /\ phase' = [phase EXCEPT ![j] = o]
    /\ UNCHANGED <<run, produced>>

\* The manager stops a workflow and closes its job in one critical section.
StopAndClose(j) ==
    /\ phase[j] = "admitted" /\ run[j] # "over"
    /\ run' = [run EXCEPT ![j] = "over"]
    /\ phase' = [phase EXCEPT ![j] = "failed"]
    /\ UNCHANGED produced

\* An outcome whose publication was interrupted may be replaced by "failed".
Retract(j) ==
    /\ phase[j] \in Outcomes /\ phase' = [phase EXCEPT ![j] = "failed"]
    /\ UNCHANGED <<run, produced>>

Next == \E j \in Jobs :
    \/ Accept(j) \/ Admit(j) \/ Begin(j) \/ End(j)
    \/ Close(j) \/ StopAndClose(j) \/ Retract(j)

Spec == Init /\ [][Next]_vars
=============================================================================
