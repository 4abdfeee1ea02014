------------------------------ MODULE Workspace ------------------------------
(***************************************************************************)
(* The workspace of one workflow (workflow/local.py): saved launch,        *)
(* request, status, manifest and content-addressed stage directories, and  *)
(* what the strict verifiers accept.                                       *)
(*                                                                         *)
(* The manifest of a stage is the vector of ingredient versions it says it *)
(* was made from.  A SHA-256 identifies its content, so the SHA-256 of a   *)
(* manifest is that vector, and the identity that names a stage directory  *)
(* is the vector known when the directory was looked up.                   *)
(***************************************************************************)
EXTENDS Naturals, FiniteSets

CONSTANTS
    Launches,    \* saved launch configurations
    Settings,    \* launch -> [aoi, terrain, tiles, overlaid, sliced, projects]
    MaxVersion   \* bound: versions of an input file, and of a setting

Stages == {"acquire", "source", "build", "overlay", "layout", "extract", "mesh",
           "connect", "slice", "project"}

\* dem, overlay and slicer are files outside the workspace; aoi, terrain and
\* tiles are settings of the launch.
Files       == {"dem", "overlay", "slicer"}
Ingredients == Files \cup {"aoi", "terrain", "tiles"}
Vector      == [Ingredients -> 0..MaxVersion]   \* 0: not an ingredient

ASSUME MaxVersionAssumption == MaxVersion \in Nat \ {0}
\* aoi = 0 is a launch with a local DEM; project evidence requires slicing.
ASSUME SettingsAssumption ==
    Settings \in [Launches -> [aoi : 0..MaxVersion, terrain : 1..MaxVersion,
                               tiles : 1..MaxVersion, overlaid : BOOLEAN,
                               sliced : BOOLEAN, projects : BOOLEAN]]
ASSUME ProjectAssumption ==
    \A l \in Launches : Settings[l].projects => Settings[l].sliced
ASSUME NoneIsNoLaunch == "none" \notin Launches

-----------------------------------------------------------------------------
(* The plan of a launch *)

IsGlobal(l) == Settings[l].aoi # 0

Enabled(l, s) ==
    CASE s = "acquire" -> IsGlobal(l)
      [] s = "overlay" -> Settings[l].overlaid
      [] s = "slice"   -> Settings[l].sliced
      [] s = "project" -> Settings[l].projects
      [] OTHER         -> TRUE

Plan == [l \in Launches |-> {s \in Stages : Enabled(l, s)}]

\* What is read by stage s itself, and the stage whose manifest it is bound to.
Own == [acquire |-> {"aoi"}, source |-> {"aoi", "dem"},
        build |-> {"aoi", "dem", "terrain"}, overlay |-> {"overlay"},
        layout |-> {"tiles"}, extract |-> {}, mesh |-> {}, connect |-> {},
        slice |-> {"slicer"}, project |-> {"slicer"}]

Parent == [acquire |-> "none", source |-> "none", build |-> "none",
           overlay |-> "build", layout |-> "build", extract |-> "layout",
           mesh |-> "extract", connect |-> "mesh", slice |-> "connect",
           project |-> "slice"]

\* The number in a stage directory's name: stages run in this order.
Order == [acquire |-> 0, source |-> 5, build |-> 10, overlay |-> 15,
          layout |-> 20, extract |-> 30, mesh |-> 40, connect |-> 50,
          slice |-> 60, project |-> 70]

Nothing == [i \in Ingredients |-> 0]

\* A vector bound to the manifest up of its parent and to the values own.
Bind(s, up, own) == [i \in Ingredients |-> IF i \in Own[s] THEN own[i] ELSE up[i]]

-----------------------------------------------------------------------------
(* Directories and records *)

\* A record names a directory (stage, key) and its manifest: what the stage
\* says it was made from (made).  intact: every other file in the directory
\* still has the SHA-256 the manifest lists.
Record    == [stage : Stages, key : Vector, made : Vector]
Directory == [stage : Stages, key : Vector, made : Vector, intact : BOOLEAN]

RecordOf(d)     == [stage |-> d.stage, key |-> d.key, made |-> d.made]
At(dirs, s, k)  == {d \in dirs : d.stage = s /\ d.key = k}
Occupied(dirs, s, k) == At(dirs, s, k) # {}

\* The request binds the launch, the source of a local run, the overlay
\* sources and the probed slicer.  Its SHA-256 is the workflow id.
Request == [launch : Launches, dem : 0..MaxVersion, overlay : 0..MaxVersion,
            slicer : 0..MaxVersion]

RequestPayload(l, files, slicer) ==
    [launch  |-> l,
     dem     |-> IF IsGlobal(l) THEN 0 ELSE files["dem"],
     overlay |-> IF Settings[l].overlaid THEN files["overlay"] ELSE 0,
     slicer  |-> IF Settings[l].sliced THEN slicer ELSE 0]

\* What a stage of launch l may read: settings, and the given files.
Known(l, dem, overlay, slicer) ==
    [aoi |-> Settings[l].aoi, terrain |-> Settings[l].terrain,
     tiles |-> Settings[l].tiles, dem |-> dem, overlay |-> overlay,
     slicer |-> slicer]

\* The source of records r: the acquired raster, or the local file.
SourceDem(l, r, dem) ==
    IF ~ IsGlobal(l) THEN dem
    ELSE IF "acquire" \in DOMAIN r THEN r["acquire"].made["dem"] ELSE 0

Up(r, s) == IF Parent[s] = "none" THEN Nothing ELSE r[Parent[s]].made

-----------------------------------------------------------------------------
(* The verifier of each stage's artifacts, on a directory d of it.  up is   *)
(* the manifest of the parent on the disk, files the inputs as they are.    *)

\* verify_global_source and _verify_acquisition_stage_manifest.
AcquisitionOpens(d, l) == d.intact /\ d.made["aoi"] = Settings[l].aoi

\* source.json repeats its own identity; the DEM must still have that hash.
SourceOpens(d, dem) == d.intact /\ d.made = d.key /\ d.made["dem"] = dem

\* verify_artifact_bundle, and the source and configuration of the workflow.
BuildOpens(d, l, dem) ==
    /\ d.intact
    /\ d.made["dem"] = dem
    /\ d.made["terrain"] = Settings[l].terrain

\* Every verifier of a later stage requires the manifests it was made from.
Follows(d, up) == \A i \in Ingredients \ Own[d.stage] : d.made[i] = up[i]

\* Mutant: the overlay sources are not hashed again.
OverlaySourcesTrusted(d, up, files) == d.intact /\ Follows(d, up) /\ d.made["overlay"] # 0

OverlayOpens(d, up, files) ==
    d.intact /\ Follows(d, up) /\ d.made["overlay"] = files["overlay"]

\* The layout is compared with the one planned from the settings.
LayoutOpens(d, l, up) ==
    d.intact /\ Follows(d, up) /\ d.made["tiles"] = Settings[l].tiles

TileSetOpens(d, up)     == d.intact /\ Follows(d, up)
TileMeshSetOpens(d, up) == d.intact /\ Follows(d, up)
PrintSetOpens(d, up)    == d.intact /\ Follows(d, up)

\* verify_tile_slice_set: the recorded executable must be the installed one.
SliceSetOpens(d, up, files) ==
    d.intact /\ Follows(d, up) /\ d.made["slicer"] = files["slicer"]

\* verify_bambu_project_evidence; same requirement.
ProjectOpens(d, up, files) ==
    d.intact /\ Follows(d, up) /\ d.made["slicer"] = files["slicer"]

\* _verify_tile_slice_artifacts and _verify_bambu_project_artifacts run no
\* slicer: they require the executable of the request, installed or not.
SlicerBinding(d, slicer) == d.made["slicer"] = slicer
SliceArtifactsOpen(d, up, slicer) ==
    d.intact /\ Follows(d, up) /\ SlicerBinding(d, slicer)
ProjectArtifactsOpen(d, up, slicer) ==
    d.intact /\ Follows(d, up) /\ SlicerBinding(d, slicer)

\* The verifier run_local_workflow uses for directory d of stage s, when the
\* records so far are r.  The verifier of a manufacturing stage reopens the
\* sets it was made from, so they have to be intact as well.
Ancestors == [acquire |-> {}, source |-> {"acquire"}, build |-> {},
              overlay |-> {"build"}, layout |-> {}, extract |-> {"build"},
              mesh |-> {"build", "extract"}, connect |-> {"build", "extract", "mesh"},
              slice |-> {"build", "extract", "mesh", "connect"},
              project |-> {"connect", "slice"}]

Present(dirs, rec) ==
    \E d \in dirs : RecordOf(d) = rec /\ d.intact

StageOpens(s, d, l, r, dirs, files, dem) ==
    /\ \A a \in Ancestors[s] \cap Plan[l] : Present(dirs, r[a])
    /\ CASE s = "acquire" -> AcquisitionOpens(d, l)
         [] s = "source"  -> SourceOpens(d, dem)
         [] s = "build"   -> BuildOpens(d, l, dem)
         [] s = "overlay" -> OverlayOpens(d, Up(r, s), files)
         [] s = "layout"  -> LayoutOpens(d, l, Up(r, s))
         [] s = "extract" -> TileSetOpens(d, Up(r, s))
         [] s = "mesh"    -> TileMeshSetOpens(d, Up(r, s))
         [] s = "connect" -> PrintSetOpens(d, Up(r, s))
         [] s = "slice"   -> SliceSetOpens(d, Up(r, s), files)
         [] s = "project" -> ProjectOpens(d, Up(r, s), files)

-----------------------------------------------------------------------------
(* The disk *)

VARIABLES
    files,     \* the DEM, the overlay sources and the slicer, by version;
               \* slicer = 0: not installed
    launch,    \* workflow-launch.yaml
    request,   \* workflow-request.json
    status,    \* workflow-status.json
    manifest,  \* workflow-manifest.json: the request it is of, stage records
    stages     \* the directories below stages/

NoRequest == [launch |-> "none", dem |-> 0, overlay |-> 0, slicer |-> 0]
Requests  == Request \cup {NoRequest}

diskVars == <<launch, request, status, manifest, stages>>

WorkspaceTypeOK ==
    /\ files \in [Files -> 0..MaxVersion] /\ files["dem"] # 0 /\ files["overlay"] # 0
    /\ launch \in Launches \cup {"none"}
    /\ request \in Requests
    /\ status.of \in Requests
    /\ status.state \in {"none", "running", "completed", "failed"}
    /\ manifest.of \in Requests
    /\ DOMAIN manifest.stages \subseteq Stages
    /\ \A s \in DOMAIN manifest.stages :
            manifest.stages[s] \in Record /\ manifest.stages[s].stage = s
    /\ stages \subseteq Directory
    /\ \A d, e \in stages : d.stage = e.stage /\ d.key = e.key => d = e

WorkspaceInit ==
    /\ files = [f \in Files |-> 1]
    /\ launch = "none" /\ request = NoRequest
    /\ status = [of |-> NoRequest, state |-> "none"]
    /\ manifest = [of |-> NoRequest, stages |-> <<>>]
    /\ stages = {}

-----------------------------------------------------------------------------
(* verify_completed_workflow: what is saved reproduces what is on the disk *)

\* _verify_persisted_slicer_identity: the probed executable, if still there.
SlicerPersists(l) ==
    IF Settings[l].sliced
    THEN request.slicer # 0 /\ files["slicer"] \in {0, request.slicer}
    ELSE request.slicer = 0

RequestReproduced(l) ==
    /\ request = RequestPayload(l, files, request.slicer)
    /\ manifest.of = request

StatusCompleted == status = [of |-> request, state |-> "completed"]

\* The value an identity of the completed workflow is recomputed from.
Recomputed(l, r) ==
    Known(l, SourceDem(l, r, files["dem"]), files["overlay"], request.slicer)

\* _stage_paths and _verify_stage_record, then the artifact verifier.
RecordReopens(l, r, s) ==
    /\ r[s].key = Bind(s, Up(r, s), Recomputed(l, r))
    /\ \E d \in stages :
        /\ RecordOf(d) = r[s]
        /\ CASE s = "slice"   -> SliceArtifactsOpen(d, Up(r, s), request.slicer)
             [] s = "project" -> ProjectArtifactsOpen(d, Up(r, s), request.slicer)
             [] OTHER -> StageOpens(s, d, l, r, stages, files,
                                    SourceDem(l, r, files["dem"]))

Verifies ==
    /\ launch # "none"
    /\ StatusCompleted
    /\ DOMAIN manifest.stages = Plan[launch]
    /\ SlicerPersists(launch)
    /\ RequestReproduced(launch)
    /\ \A s \in Plan[launch] : RecordReopens(launch, manifest.stages, s)

\* inspect_workflow_workspace: strict verification, then the artifact index of a
\* completed workflow, which needs every recorded stage where its record says
\* and a build among them.
Inspects ==
    /\ Verifies
    /\ manifest.of = status.of /\ status.state = "completed"
    /\ \A s \in DOMAIN manifest.stages : \E d \in stages : RecordOf(d) = manifest.stages[s]
    /\ "build" \in DOMAIN manifest.stages

=============================================================================
