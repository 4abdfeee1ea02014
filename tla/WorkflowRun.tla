----------------------------- MODULE WorkflowRun -----------------------------
(***************************************************************************)
(* execute_workflow_launch and run_local_workflow (workflow/ux.py,         *)
(* workflow/local.py): one process walks through the plan of its launch,   *)
(* reuses a stage that reopens and makes, publishes and reopens one that   *)
(* is not there.  It takes no lock: input files change, stages are         *)
(* damaged, and the process dies, between any two of its effects.          *)
(***************************************************************************)
EXTENDS Workspace

CONSTANTS
    Editable,         \* input files that change
    Damageable,       \* stages whose directories are damaged
    MaxDisturbances,  \* bound: edits, damages, changed launches, failures
    MaxFaults         \* bound: deaths, failed moves, writes into a candidate

ASSUME EditableAssumption == Editable \subseteq Files /\ Damageable \subseteq Stages
ASSUME RunBoundsAssumption == MaxDisturbances \in Nat /\ MaxFaults \in Nat

VARIABLES
    pc,            \* next effect of the running process, "idle": none runs
    req,           \* its request
    recs,          \* its stage records so far
    making,        \* the private or staged output, where it will be published
    refused,       \* the directory the last strict reuse refused, if any
    calm,          \* no disturbance since the current or last run began
    disturbances, faults

runVars == <<pc, req, recs, making, refused, calm, disturbances, faults>>

RunSteps == {"idle", "setup", "announce", "lookup", "make", "publish", "reopen",
             "conclude", "complete", "failing"}

Place == [stage : Stages, key : Vector]

NoRecord == [stage |-> "none", key |-> Nothing, made |-> Nothing]

RunTypeOK ==
    /\ pc \in RunSteps
    /\ req \in Requests
    /\ DOMAIN recs \subseteq Stages
    /\ \A s \in DOMAIN recs : recs[s] \in Record /\ recs[s].stage = s
    /\ making \in Record \cup {NoRecord}
    /\ refused \subseteq Place /\ Cardinality(refused) <= 1
    /\ calm \in BOOLEAN
    /\ disturbances \in 0..MaxDisturbances
    /\ faults \in 0..MaxFaults

RunInit ==
    /\ pc = "idle" /\ req = NoRequest /\ recs = <<>> /\ making = NoRecord
    /\ refused = {} /\ calm = FALSE
    /\ disturbances = 0 /\ faults = 0

-----------------------------------------------------------------------------
(* The stage at hand *)

Here == req.launch

ToDo == Plan[Here] \ DOMAIN recs

IsCurrent(s) == s \in ToDo /\ \A t \in ToDo : Order[s] <= Order[t]

\* The slicing stage trusts the probe of the request, the project stage hashes
\* the executable again; the overlay sources are hashed again as well.
RunKnown(s) ==
    Known(Here, SourceDem(Here, recs, req.dem), files["overlay"],
          IF s = "project" THEN files["slicer"] ELSE req.slicer)
RunKey(s) == Bind(s, Up(recs, s), RunKnown(s))

\* The generators read the input files themselves.
FilesRead == Known(Here, SourceDem(Here, recs, files["dem"]), files["overlay"],
                   files["slicer"])
From(s) == Bind(s, Up(recs, s), FilesRead)

Verified(inputs) == \A s \in inputs : Present(stages, recs[s])

\* What the generator of each stage can make: nothing if what it reads does not
\* verify, else an output whose manifest says what it was made from.
GlobalSource    == {[RunKey("acquire") EXCEPT !["dem"] = files["dem"]]}
\* source.json takes over the hash of the request; a downloaded source is there.
SourceRecord    == {v \in {RunKey("source")} :
                        IsGlobal(Here) => \E d \in stages : RecordOf(d) = recs["acquire"]}
\* The build is verified before it is published, against the hash the run began
\* with, and a downloaded source once more.
TerrainBundle   == {v \in {From("build")} :
                        /\ v["dem"] = SourceDem(Here, recs, req.dem)
                        /\ IsGlobal(Here) => Verified({"acquire"})}
OverlayBundle   == {v \in {From("overlay")} : Verified({"build"})}
TileLayout      == {From("layout")}
TileSet         == {v \in {From("extract")} : Verified({"build"})}
TileMeshSet     == {v \in {From("mesh")} : Verified({"build", "extract"})}
PrintTileSet    == {v \in {From("connect")} : Verified({"build", "extract", "mesh"})}
TileSliceSet    == {v \in {From("slice")} :
                        /\ Verified({"build", "extract", "mesh", "connect"})
                        /\ files["slicer"] # 0}
ProjectEvidence == {v \in {From("project")} :
                        Verified({"connect", "slice"}) /\ files["slicer"] # 0}

Makes(s) == CASE s = "acquire" -> GlobalSource
              [] s = "source"  -> SourceRecord
              [] s = "build"   -> TerrainBundle
              [] s = "overlay" -> OverlayBundle
              [] s = "layout"  -> TileLayout
              [] s = "extract" -> TileSet
              [] s = "mesh"    -> TileMeshSet
              [] s = "connect" -> PrintTileSet
              [] s = "slice"   -> TileSliceSet
              [] s = "project" -> ProjectEvidence

Opens(s, d) ==
    StageOpens(s, d, Here, recs, stages, files,
               SourceDem(Here, recs, IF s = "source" THEN files["dem"] ELSE req.dem))

RecordStage(rec) ==
    LET after == [s \in DOMAIN recs \cup {rec.stage} |->
                    IF s = rec.stage THEN rec ELSE recs[s]] IN
    /\ recs' = after
    /\ pc' = IF DOMAIN after = Plan[Here] THEN "conclude" ELSE "lookup"
    /\ making' = NoRecord

\* What is made is discarded; no record of this run is used any more.
FailRun == pc' = "failing" /\ recs' = <<>> /\ making' = NoRecord

EndRun == pc' = "idle" /\ req' = NoRequest /\ recs' = <<>> /\ making' = NoRecord

Fault == faults < MaxFaults /\ faults' = faults + 1

Disturb == disturbances < MaxDisturbances /\ disturbances' = disturbances + 1

-----------------------------------------------------------------------------
(* One run *)

\* write_workflow_launch_config: the same launch again, or, counted, another.
SaveLaunch(l) ==
    /\ pc = "idle"
    /\ IF launch \in {"none", l} THEN UNCHANGED disturbances ELSE Disturb
    /\ launch' = l
    /\ pc' = "setup" /\ calm' = TRUE /\ refused' = {}
    /\ UNCHANGED <<files, request, status, manifest, stages, req, recs, making, faults>>

\* Nothing is recorded of a run whose slicer cannot be probed.
RejectSetup ==
    /\ pc = "setup"
    /\ Settings[launch].sliced /\ files["slicer"] = 0
    /\ EndRun /\ calm' = FALSE
    /\ UNCHANGED <<files, diskVars, refused, disturbances, faults>>

\* Hash the source and the overlay, probe the slicer, write the request.
BindRequest ==
    /\ pc = "setup"
    /\ ~ (Settings[launch].sliced /\ files["slicer"] = 0)
    /\ req' = RequestPayload(launch, files, files["slicer"])
    /\ request' = req'
    /\ pc' = "announce"
    /\ UNCHANGED <<files, launch, status, manifest, stages, recs, making, refused,
                   calm, disturbances, faults>>

Announce ==
    /\ pc = "announce"
    /\ status' = [of |-> req, state |-> "running"]
    /\ pc' = "lookup"
    /\ UNCHANGED <<files, launch, request, manifest, stages, req, recs, making,
                   refused, calm, disturbances, faults>>

\* Mutant: what is there is taken for complete.
ReuseUnverified(s) ==
    /\ pc = "lookup" /\ IsCurrent(s)
    /\ \E d \in At(stages, s, RunKey(s)) : RecordStage(RecordOf(d))
    /\ UNCHANGED <<files, diskVars, req, refused, calm, disturbances, faults>>

\* _existing_stage and its variants: strictly reopened, or the run fails.
ReuseStage(s) ==
    /\ pc = "lookup" /\ IsCurrent(s)
    /\ \E d \in At(stages, s, RunKey(s)) :
        IF Opens(s, d)
        THEN RecordStage(RecordOf(d)) /\ UNCHANGED refused
        ELSE FailRun /\ refused' = {[stage |-> s, key |-> RunKey(s)]}
    /\ UNCHANGED <<files, diskVars, req, calm, disturbances, faults>>

\* The identity is hashed and names a free place, then a private stage is created ...
NameStage(s) ==
    /\ pc = "lookup" /\ IsCurrent(s) /\ ~ Occupied(stages, s, RunKey(s))
    /\ making' = [stage |-> s, key |-> RunKey(s), made |-> Nothing]
    /\ pc' = "make"
    /\ UNCHANGED <<files, diskVars, req, recs, refused, calm, disturbances, faults>>

\* ... and its generator reads the input files as they are by then.
MakeStage(s) ==
    /\ pc = "make" /\ making.stage = s
    /\ \/ \E made \in Makes(s) :
            /\ making' = [making EXCEPT !.made = made]
            /\ pc' = "publish" /\ UNCHANGED recs
       \/ Makes(s) = {} /\ FailRun
    /\ UNCHANGED <<files, diskVars, req, refused, calm, disturbances, faults>>

\* The engine, a tool, the network or a write fails.
FailStage ==
    /\ pc \in {"lookup", "make", "publish", "conclude", "complete"} /\ Disturb
    /\ FailRun /\ calm' = FALSE
    /\ UNCHANGED <<files, diskVars, req, refused, faults>>

\* Mutant: published beside what is already there.
PublishOver ==
    /\ pc = "publish"
    /\ stages' = stages \cup {[stage |-> making.stage, key |-> making.key,
                               made |-> making.made, intact |-> TRUE]}
    /\ RecordStage(making)
    /\ UNCHANGED <<files, launch, request, status, manifest, req, refused,
                   calm, disturbances, faults>>

\* A rename that replaces nothing.  SOURCE and LAYOUT are recorded as written,
\* the other stages are reopened at their final place.
PublishStage ==
    LET s == making.stage IN
    /\ pc = "publish"
    /\ IF Occupied(stages, s, making.key)
       THEN FailRun /\ UNCHANGED stages
       ELSE /\ stages' = stages \cup
                 {[stage |-> s, key |-> making.key, made |-> making.made,
                   intact |-> TRUE]}
            /\ IF s \in {"source", "layout"} THEN RecordStage(making)
               ELSE pc' = "reopen" /\ UNCHANGED <<recs, making>>
    /\ UNCHANGED <<files, launch, request, status, manifest, req, refused,
                   calm, disturbances, faults>>

ReopenStage ==
    LET s == making.stage IN
    /\ pc = "reopen"
    /\ IF \E d \in At(stages, s, making.key) : RecordOf(d) = making /\ Opens(s, d)
       THEN RecordStage(making)
       ELSE FailRun
    /\ UNCHANGED <<files, diskVars, req, refused, calm, disturbances, faults>>

\* Mutant: an existing manifest is kept.
WriteManifestOnce ==
    /\ pc = "conclude"
    /\ manifest' = IF manifest.of = NoRequest THEN [of |-> req, stages |-> recs]
                   ELSE manifest
    /\ pc' = "complete"
    /\ UNCHANGED <<files, launch, request, status, stages, req, recs, making,
                   refused, calm, disturbances, faults>>

WriteManifest ==
    /\ pc = "conclude"
    /\ manifest' = [of |-> req, stages |-> recs]
    /\ pc' = "complete"
    /\ UNCHANGED <<files, launch, request, status, stages, req, recs, making,
                   refused, calm, disturbances, faults>>

\* The summary that is published then is a report to the caller.
Complete ==
    /\ pc = "complete"
    /\ status' = [of |-> req, state |-> "completed"]
    /\ EndRun
    /\ UNCHANGED <<files, launch, request, manifest, stages, refused, calm,
                   disturbances, faults>>

\* The failure record and the FAILED status; if they cannot be written the
\* status stays RUNNING.
PersistFailure ==
    /\ pc = "failing" /\ EndRun /\ calm' = FALSE
    /\ \/ /\ status' = [of |-> req, state |-> "failed"]
          /\ UNCHANGED disturbances
       \/ Disturb /\ UNCHANGED status
    /\ UNCHANGED <<files, launch, request, manifest, stages, refused, faults>>

Crash ==
    /\ pc # "idle" /\ Fault /\ EndRun /\ calm' = FALSE
    /\ UNCHANGED <<files, diskVars, refused, disturbances>>

-----------------------------------------------------------------------------
(* Disturbances *)

EditFile(f) ==
    /\ Disturb
    /\ \E v \in (IF f = "slicer" THEN 0 ELSE 1)..MaxVersion :
          v # files[f] /\ files' = [files EXCEPT ![f] = v]
    /\ calm' = FALSE
    /\ UNCHANGED <<diskVars, pc, req, recs, making, refused, faults>>

\* The first version is put back: counted with the edit it undoes.
PutBack(f) ==
    /\ files[f] # 1 /\ files' = [files EXCEPT ![f] = 1]
    /\ calm' = FALSE
    /\ UNCHANGED <<diskVars, pc, req, recs, making, refused, disturbances, faults>>

DamageStage(d) ==
    /\ d \in stages /\ d.stage \in Damageable /\ d.intact /\ Disturb
    /\ stages' = (stages \ {d}) \cup {[d EXCEPT !.intact = FALSE]}
    /\ calm' = FALSE
    /\ UNCHANGED <<files, launch, request, status, manifest, pc, req, recs, making,
                   refused, faults>>

\* What the message of a refused reuse asks for.
RemoveRefused ==
    /\ pc = "idle" /\ refused # {}
    /\ stages' = {d \in stages : [stage |-> d.stage, key |-> d.key] \notin refused}
    /\ refused' = {} /\ calm' = FALSE
    /\ UNCHANGED <<files, launch, request, status, manifest, pc, req, recs, making,
                   disturbances, faults>>

RunStep ==
    \/ \E l \in Launches : SaveLaunch(l)
    \/ RejectSetup \/ BindRequest \/ Announce
    \/ \E s \in Stages : ReuseStage(s) \/ NameStage(s) \/ MakeStage(s)
    \/ FailStage \/ PublishStage \/ ReopenStage \/ WriteManifest \/ Complete
    \/ PersistFailure \/ Crash
    \/ \E f \in Editable : EditFile(f) \/ PutBack(f)
    \/ \E d \in stages : DamageStage(d)

=============================================================================
