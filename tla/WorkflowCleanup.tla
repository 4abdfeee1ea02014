--------------------------- MODULE WorkflowCleanup ---------------------------
(***************************************************************************)
(* apply_workflow_cleanup (workflow/maintenance.py).  Stage directories no  *)
(* record of the manifest names are moved into a quarantine, the workspace *)
(* is strictly reopened, and the quarantine is erased; after any failure   *)
(* the directories are moved back.  No lock keeps a run away, a move may   *)
(* raise before or after it took effect, and the process may die.          *)
(***************************************************************************)
EXTENDS WorkflowRun

CONSTANTS
    MaxCleanups,   \* bound: applied plans
    MoveFaults     \* outcomes of a failing move: "not_moved", "uncertain"

ASSUME CleanupAssumption ==
    MaxCleanups \in Nat /\ MoveFaults \subseteq {"not_moved", "uncertain"}

VARIABLES
    cpc,           \* next effect of the cleanup process
    pending,       \* checked candidates not moved yet
    moved,         \* candidates registered as moved
    lost,          \* some candidate could not be moved back
    quarantine,    \* directories in the quarantine of this cleanup
    abandoned,     \* directories in quarantines of earlier ones
    cleanups

cleanupVars == <<cpc, pending, moved, lost, quarantine, abandoned, cleanups>>

CleanupTypeOK ==
    /\ cpc \in {"idle", "moving", "rollback", "purging"}
    /\ pending \subseteq Directory /\ moved \subseteq Directory
    /\ lost \in BOOLEAN
    /\ quarantine \subseteq Directory /\ abandoned \subseteq Directory
    /\ cleanups \in 0..MaxCleanups

CleanupInit ==
    /\ cpc = "idle" /\ pending = {} /\ moved = {} /\ lost = FALSE
    /\ quarantine = {} /\ abandoned = {} /\ cleanups = 0

Referenced == {manifest.stages[s] : s \in DOMAIN manifest.stages}
IsReferenced(d) ==
    \E rec \in Referenced : rec.stage = d.stage /\ rec.key = d.key

\* plan_workflow_cleanup on the workspace as it is, if it verifies.
Candidates == {d \in stages : ~ IsReferenced(d)}

\* The plan is made again; if it is not the one that was confirmed, or the
\* workspace does not verify, nothing happens.
ApplyCleanup ==
    /\ cpc = "idle" /\ cleanups < MaxCleanups
    /\ Inspects /\ Candidates # {}
    /\ cpc' = "moving" /\ pending' = Candidates
    /\ abandoned' = abandoned \cup quarantine /\ quarantine' = {}
    /\ cleanups' = cleanups + 1
    /\ UNCHANGED <<files, diskVars, runVars, moved, lost>>

\* Candidates are visited in the order of their paths, and back.
First(dirs) == {d \in dirs : \A e \in dirs : Order[d.stage] <= Order[e.stage]}
Last(dirs)  == {d \in dirs : \A e \in dirs : Order[d.stage] >= Order[e.stage]}

\* Somebody writes into the directory that is to be moved next.  A write into a
\* later one is found when its turn comes, as this is.
TouchCandidate(d) ==
    /\ cpc = "moving" /\ d \in First(pending) \cap stages /\ d.intact /\ Fault
    /\ stages' = (stages \ {d}) \cup {[d EXCEPT !.intact = FALSE]}
    /\ calm' = FALSE
    /\ UNCHANGED <<files, launch, request, status, manifest, pc, req, recs, making,
                   refused, disturbances, cleanupVars>>

\* A candidate that changed since the review ends the cleanup.
CandidateChanged ==
    /\ cpc = "moving" /\ \E d \in First(pending) : d \notin stages
    /\ cpc' = "rollback"
    /\ UNCHANGED <<files, diskVars, runVars, pending, moved, lost, quarantine,
                   abandoned, cleanups>>

\* Registered as moved before the rename; forgotten only if the rename failed
\* and both endpoints show that nothing moved.
MoveCandidate(d) ==
    /\ cpc = "moving" /\ d \in First(pending) /\ d \in stages
    /\ pending' = pending \ {d}
    /\ \/ /\ stages' = stages \ {d} /\ quarantine' = quarantine \cup {d}
          /\ moved' = moved \cup {d}
          /\ UNCHANGED <<cpc, faults>>
       \/ /\ "not_moved" \in MoveFaults /\ Fault
          /\ UNCHANGED <<stages, quarantine, moved>> /\ cpc' = "rollback"
       \/ /\ "uncertain" \in MoveFaults /\ Fault
          /\ stages' = stages \ {d} /\ quarantine' = quarantine \cup {d}
          /\ moved' = moved \cup {d}
          /\ cpc' = "rollback"
    /\ calm' = FALSE
    /\ UNCHANGED <<files, launch, request, status, manifest, pc, req, recs, making,
                   refused, disturbances, lost, abandoned, cleanups>>

\* Mutant: what is left is not inspected.
InspectNothing ==
    /\ cpc = "moving" /\ pending = {} /\ cpc' = "purging"
    /\ UNCHANGED <<files, diskVars, runVars, pending, moved, lost, quarantine,
                   abandoned, cleanups>>

\* inspect_workflow_workspace on what is left.
InspectCleaned ==
    /\ cpc = "moving" /\ pending = {}
    /\ cpc' = IF Inspects THEN "purging" ELSE "rollback"
    /\ UNCHANGED <<files, diskVars, runVars, pending, moved, lost, quarantine,
                   abandoned, cleanups>>

\* Back to its place, unless a run has published another directory there.
MoveBack(d) ==
    /\ cpc = "rollback" /\ d \in Last(moved)
    /\ moved' = moved \ {d}
    /\ \/ /\ ~ Occupied(stages, d.stage, d.key)
          /\ stages' = stages \cup {d} /\ quarantine' = quarantine \ {d}
          /\ UNCHANGED <<lost, faults>>
       \/ /\ Occupied(stages, d.stage, d.key)
          /\ lost' = TRUE /\ UNCHANGED <<stages, quarantine, faults>>
       \/ /\ "not_moved" \in MoveFaults /\ Fault
          /\ lost' = TRUE /\ UNCHANGED <<stages, quarantine>>
       \/ /\ "uncertain" \in MoveFaults /\ ~ Occupied(stages, d.stage, d.key) /\ Fault
          /\ stages' = stages \cup {d} /\ quarantine' = quarantine \ {d}
          /\ lost' = TRUE
    /\ calm' = FALSE
    /\ UNCHANGED <<files, launch, request, status, manifest, pc, req, recs, making,
                   refused, disturbances, cpc, pending, abandoned, cleanups>>

EndCleanup == cpc' = "idle" /\ pending' = {} /\ moved' = {} /\ lost' = FALSE

\* The quarantine goes only if everything is back; otherwise it is preserved.
EndRollback ==
    /\ cpc = "rollback" /\ moved = {}
    /\ EndCleanup
    /\ quarantine' = IF lost THEN quarantine ELSE {}
    /\ UNCHANGED <<files, diskVars, runVars, abandoned, cleanups>>

PurgeQuarantine ==
    /\ cpc = "purging"
    /\ EndCleanup /\ quarantine' = {}
    /\ UNCHANGED <<files, diskVars, runVars, abandoned, cleanups>>

\* The quarantine stays behind, and with it whatever was moved.
CleanupDies ==
    /\ cpc # "idle" /\ Fault
    /\ EndCleanup
    /\ UNCHANGED <<files, diskVars, pc, req, recs, making, refused, calm,
                   disturbances, quarantine, abandoned, cleanups>>

CleanupStep ==
    \/ ApplyCleanup \/ CandidateChanged
    \/ \E d \in pending : TouchCandidate(d) \/ MoveCandidate(d)
    \/ InspectCleaned
    \/ \E d \in moved : MoveBack(d)
    \/ EndRollback \/ PurgeQuarantine \/ CleanupDies

\* The user removes a refused stage while no cleanup is at work.
Tidy == cpc = "idle" /\ RemoveRefused /\ UNCHANGED cleanupVars

vars == <<files, diskVars, runVars, cleanupVars>>

Init == WorkspaceInit /\ RunInit /\ CleanupInit
Next == (RunStep /\ UNCHANGED cleanupVars) \/ CleanupStep \/ Tidy
Spec == Init /\ [][Next]_vars

\* The user reruns the saved launch until the workspace verifies and removes a
\* refused stage; processes that are not killed go on.
Rerun ==
    /\ pc = "idle" /\ ~ Verifies
    /\ SaveLaunch(IF launch = "none" THEN CHOOSE l \in Launches : TRUE ELSE launch)
Proceed == RejectSetup \/ BindRequest \/ Announce
             \/ (\E s \in Stages : ReuseStage(s) \/ NameStage(s) \/ MakeStage(s))
             \/ PublishStage \/ ReopenStage \/ WriteManifest \/ Complete
             \/ PersistFailure
CleanUp == CandidateChanged \/ (\E d \in pending : MoveCandidate(d)) \/ InspectCleaned
             \/ (\E d \in moved : MoveBack(d)) \/ EndRollback \/ PurgeQuarantine

FairSpec ==
    /\ Spec
    /\ WF_vars((Rerun \/ Proceed) /\ UNCHANGED cleanupVars)
    /\ WF_vars(CleanUp)
    /\ SF_vars(Tidy)

-----------------------------------------------------------------------------
(* Properties *)

\* Every variable has its type.
TypeOK == WorkspaceTypeOK /\ RunTypeOK /\ CleanupTypeOK

\* What verify_completed_workflow accepts was made, stage by stage and as each
\* manifest says, from the inputs and settings as they are now, whatever was edited
\* and put back, damaged, reused or moved between any two effects of the runs (the
\* slicer may have been uninstalled since).
VerifiedMeansCurrent ==
    Verifies =>
        \A s \in Plan[launch] :
            LET made == manifest.stages[s].made IN
            /\ made["dem"] # 0 /\ ~ IsGlobal(launch) => made["dem"] = files["dem"]
            /\ made["overlay"] \in {0, files["overlay"]}
            /\ made["slicer"] \in {0, request.slicer}
            /\ made["terrain"] \in {0, Settings[launch].terrain}
            /\ made["tiles"] \in {0, Settings[launch].tiles}
            /\ Present(stages, manifest.stages[s])

\* A run that reports COMPLETED while nothing was changed under it leaves a
\* workspace that reopens strictly and can be browsed, also when it reused
\* stages of other runs.
UndisturbedRunVerifies ==
    calm /\ pc = "idle" /\ status.state = "completed" => Inspects

\* The purge of a cleanup never takes the only copy of a stage the current
\* manifest references, though a run may have written that manifest since.
PurgeSparesManifest ==
    [][\A d \in quarantine :
          \/ d \in quarantine' \cup abandoned'
          \/ \E e \in stages' : RecordOf(e) = RecordOf(d)
          \/ RecordOf(d) \notin Referenced]_vars

\* Rerunning the saved launch recovers from every crash, failed tool, edit,
\* damage and interrupted cleanup, once those stop.
RerunRecovers == []<>(Verifies \/ files["slicer"] = 0)

=============================================================================
