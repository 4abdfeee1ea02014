------------------------------ MODULE BuildBundle ------------------------------
(***************************************************************************)
(* A terrain bundle (engine/build.py): build_local_terrain makes it in a   *)
(* staging directory from an elevation file and an acquired quality mask,  *)
(* reopens it and publishes it; record_slice_validation later adds the     *)
(* result of a slicer by rewriting six of its files in place, one at a     *)
(* time.  verify_artifact_bundle decides what every reader may rely on.    *)
(* Meanwhile the elevation file or the mask may be replaced, two slicings  *)
(* may be recorded at once, one may die, and somebody may copy a file of   *)
(* another build over one of the bundle's.                                 *)
(*                                                                         *)
(* The content of a file stands for its digest.  What is computed from the *)
(* elevations is named by the version of the elevation file.  A bundle is  *)
(* a function from the roles that are present to their contents.           *)
(***************************************************************************)
EXTENDS Naturals, FiniteSets, Functions

CONSTANTS
    Rasters,        \* versions of the elevation file and of the mask
    Formats,         \* formats asked for, of "model_stl", "model_3mf", "preview_glb"
    Slicings,        \* results of a slicer that somebody records
    MaxBundleEvents  \* bound: files replaced from outside

ASSUME BundleAssumption ==
    /\ 1 \in Rasters /\ Formats # {} /\ Formats \subseteq {"model_stl", "model_3mf", "preview_glb"}
    /\ "none" \notin Slicings /\ MaxBundleEvents \in Nat

VARIABLES
    elevation,   \* version of the elevation file
    mask,        \* version of the quality mask; the acquisition recorded version 1
    bpc,         \* next step of the build, or how it ended
    memory,      \* of the build: is there an acquisition, which version was hashed
    staged,      \* the staging directory
    bundle,      \* the output directory, without files before it is published
    spc,         \* next step of every recording, or how it ended
    loaded,      \* what a recording read before it writes
    bundleEvents

bundleVars == <<elevation, mask, bpc, memory, staged, bundle, spc, loaded, bundleEvents>>

NoFiles   == [r \in {} |-> 0]
Sourced   == {"source_acquisition", "source_quality"}
Derived   == {"processed_dem", "original_nodata_mask", "preflight", "config", "preview"} \cup Formats
Reports   == {"validation", "html", "provenance"}
SliceFiles  == {"slicer", "bambu"}
Roles     == Sourced \cup Derived \cup Reports \cup SliceFiles \cup {"manifest"}
\* _MUTABLE_ARTIFACT_ROLES: all that recording a slicing may rewrite.
Mutable   == Reports \cup SliceFiles
BuildEnds == {"published", "failed"}
SliceEnds == {"recorded", "refused", "dead"}

-----------------------------------------------------------------------------
(* What a build writes *)

\* artifact_bindings: the digest of every immutable file, and of the rasters and
\* the geometry as they are once decoded.
Bindings(files) ==
    [roles |-> [r \in DOMAIN files \ (Mutable \cup {"manifest"}) |-> files[r]],
     dem |-> files["processed_dem"], nodata |-> files["original_nodata_mask"],
     geometry |-> files["processed_dem"]]

\* validation.json and provenance.json share their measurements of the raster,
\* the model and the preflight; the latter also repeats the acquisition and the
\* checksum of the elevation file.
ReportOf(files) ==
    [measured |-> files["processed_dem"], preflight |-> files["preflight"],
     bindings |-> Bindings(files), slice |-> "none"]
Provenance(files, hashed) ==
    [report |-> ReportOf(files), hashed |-> hashed,
     acquired |-> IF "source_acquisition" \in DOMAIN files THEN files["source_acquisition"] ELSE 0]

Manifest(files, source) ==
    [sha |-> Restrict(files, DOMAIN files \ {"manifest"}), source |-> source,
     made |-> files["provenance"].report.measured]

WithDerived(files, v)  == [r \in DOMAIN files \cup Derived |-> IF r \in Derived THEN v ELSE files[r]]
WithReports(files, hashed) ==
    [r \in DOMAIN files \cup Reports |->
        IF r = "provenance" THEN Provenance(files, hashed)
        ELSE IF r \in Reports THEN ReportOf(files) ELSE files[r]]
WithManifest(files, source) ==
    [r \in DOMAIN files \cup {"manifest"} |->
        IF r = "manifest" THEN Manifest(files, source) ELSE files[r]]
WithMask(v) == [r \in Sourced |-> v]

\* The bundle of an undisturbed build of version v.
BundleOf(v, acquired) ==
    WithManifest(WithReports(WithDerived(IF acquired THEN WithMask(1) ELSE NoFiles, v), v), v)

-----------------------------------------------------------------------------
(* verify_artifact_bundle *)

Complete(b) == Derived \cup Reports \cup {"manifest"} \subseteq DOMAIN b

\* The manifest names each file with its digest, of the roles it may name.
ManifestBinds(b) ==
    LET sha == b["manifest"].sha IN
    /\ Derived \cup Reports \subseteq DOMAIN sha
    /\ DOMAIN sha \subseteq DOMAIN b
    /\ \A r \in DOMAIN sha : b[r] = sha[r]
    /\ b["manifest"].made = b["provenance"].report.measured

\* Validation and provenance agree on the bindings, these on the manifest, and
\* the rasters decode to what was bound.
BindingsHold(b) ==
    LET bound == b["validation"].bindings
        sha == b["manifest"].sha IN
    /\ bound = b["provenance"].report.bindings
    /\ bound.roles = Restrict(sha, DOMAIN sha \ Mutable)
    /\ bound.dem = b["processed_dem"] /\ bound.nodata = b["original_nodata_mask"]

\* The acquisition and its masks are all there, and as recorded, or not at all.
AcquisitionHolds(b) ==
    IF b["provenance"].acquired = 0 THEN Sourced \cap DOMAIN b = {}
    ELSE /\ Sourced \subseteq DOMAIN b /\ Sourced \subseteq DOMAIN b["manifest"].sha
         /\ b["source_acquisition"] = b["provenance"].acquired
         /\ b["source_quality"] = b["source_acquisition"]

\* Mutant: provenance is not compared with the slicer's report.
SliceUncompared(b) ==
    LET s == b["validation"].slice IN
    \/ s = "none" /\ SliceFiles \cap DOMAIN b = {}
    \/ s # "none" /\ SliceFiles \subseteq DOMAIN b /\ b["slicer"] = s /\ b["bambu"] = s

\* SliceFiles of a slicing is complete and the same in four places, or not there.
SliceHolds(b) ==
    LET s == b["validation"].slice IN
    \/ /\ s = "none" /\ b["provenance"].report.slice = "none"
       /\ SliceFiles \cap (DOMAIN b \cup DOMAIN b["manifest"].sha) = {}
    \/ /\ s # "none" /\ SliceFiles \subseteq DOMAIN b /\ SliceFiles \subseteq DOMAIN b["manifest"].sha
       /\ b["slicer"] = s /\ b["bambu"] = s /\ b["provenance"].report.slice = s

PreflightHolds(b) ==
    b["validation"].preflight = b["preflight"] /\ b["provenance"].report.preflight = b["preflight"]

\* Shape, resolution, extremes and peak as recorded are those of the raster.
RasterHolds(b) ==
    /\ b["validation"].measured = b["processed_dem"]
    /\ b["provenance"].report.measured = b["processed_dem"]

\* So are the recorded share of NoData and the mask that was written.
MaskHolds(b) == b["provenance"].report.measured = b["original_nodata_mask"]

OrientationHolds(b) == b["validation"].measured = b["provenance"].report.measured
DimensionsHold(b)   == b["validation"].measured = b["preflight"]

\* The scaling is resolved again and the terrain built again from the raster and
\* the configuration.
GeometryRebuilt(b) ==
    b["config"] = b["processed_dem"] /\ b["validation"].bindings.geometry = b["processed_dem"]

\* validation.html is what validation.json renders to.
HtmlIsRendered(b) == b["html"] = b["validation"]

\* Each model, reopened, is the terrain of the raster and measures as recorded.
MeshHolds(b, f)   == b[f] = b["processed_dem"] /\ b["validation"].measured = b[f]
ThreeMfHolds(b)   == "model_3mf" \in Formats => b["validation"].measured = b["model_3mf"]
GlbIsSelfContained(b) == "preview_glb" \in Formats => b["preview_glb"] \in Rasters
ModelsHold(b)     == ThreeMfHolds(b) /\ GlbIsSelfContained(b) /\ \A f \in Formats : MeshHolds(b, f)

Verifies(b) ==
    /\ Complete(b) /\ PreflightHolds(b) /\ ManifestBinds(b) /\ BindingsHold(b)
    /\ AcquisitionHolds(b) /\ SliceHolds(b) /\ RasterHolds(b) /\ MaskHolds(b)
    /\ OrientationHolds(b) /\ DimensionsHold(b) /\ GeometryRebuilt(b) /\ HtmlIsRendered(b) /\ ModelsHold(b)

-----------------------------------------------------------------------------
(* build_local_terrain *)

BundleInit ==
    /\ elevation = 1 /\ mask = 1 /\ bpc = "idle" /\ staged = NoFiles /\ bundle = NoFiles
    /\ memory = [acquired |-> FALSE, hashed |-> 0]
    /\ spc = [s \in Slicings |-> "idle"]
    /\ loaded = [s \in Slicings |-> NoFiles] /\ bundleEvents = 0

OnlyBuild == UNCHANGED <<elevation, mask, spc, loaded, bundleEvents>>

\* An exception removes what is staged.
FailBuild == bpc' = "failed" /\ staged' = NoFiles /\ UNCHANGED <<memory, bundle>>

\* The acquisition manifest, if one is given, names masks that must hash to what
\* it says.  A refusal here leaves the staging directory, still empty.
ReadAcquisition ==
    /\ bpc = "idle" /\ OnlyBuild
    /\ \E acquired \in BOOLEAN :
          IF acquired /\ mask # 1 THEN FailBuild
          ELSE /\ memory' = [memory EXCEPT !.acquired = acquired]
               /\ bpc' = IF acquired THEN "copying" ELSE "hashing"
               /\ UNCHANGED <<staged, bundle>>

\* The copy is hashed again.
CopyMasks ==
    /\ bpc = "copying" /\ OnlyBuild
    /\ IF mask # 1 THEN FailBuild
       ELSE staged' = WithMask(mask) /\ bpc' = "hashing" /\ UNCHANGED <<memory, bundle>>

\* process_local_raster hashes the elevation file before it opens it.
HashSource ==
    /\ bpc = "hashing" /\ OnlyBuild /\ memory' = [memory EXCEPT !.hashed = elevation]
    /\ bpc' = "reading" /\ UNCHANGED <<staged, bundle>>

\* It reads, reprojects, samples and fills it and writes both rasters; scaling
\* and preflight follow.  Each may refuse.
ProcessRaster ==
    /\ bpc = "reading" /\ OnlyBuild
    /\ \/ FailBuild
       \/ /\ staged' = WithDerived(staged, elevation)
          /\ bpc' = "exporting" /\ UNCHANGED <<memory, bundle>>

\* The models are exported, reopened and measured; then come the reports.
ExportAndMeasure ==
    /\ bpc = "exporting" /\ OnlyBuild
    /\ \/ FailBuild
       \/ /\ staged' = WithReports(staged, memory.hashed)
          /\ bpc' = "binding" /\ UNCHANGED <<memory, bundle>>

\* The elevation file is hashed once more for the manifest.
WriteManifest ==
    /\ bpc = "binding" /\ OnlyBuild /\ staged' = WithManifest(staged, elevation)
    /\ bpc' = "verifying" /\ UNCHANGED <<memory, bundle>>

PublishBundle ==
    /\ bpc = "verifying" /\ OnlyBuild
    /\ IF Verifies(staged)
       THEN bundle' = staged /\ staged' = NoFiles /\ bpc' = "published" /\ UNCHANGED memory
       ELSE FailBuild

-----------------------------------------------------------------------------
(* record_slice_validation *)

Recording(s, from, to) ==
    /\ spc[s] = from /\ spc' = [spc EXCEPT ![s] = to]
    /\ UNCHANGED <<elevation, mask, bpc, memory, staged, bundleEvents>>
Forget(s) == loaded' = [loaded EXCEPT ![s] = NoFiles]
Put(role, content) ==
    bundle' = [r \in DOMAIN bundle \cup {role} |-> IF r = role THEN content ELSE bundle[r]]

VerifyBefore(s) ==
    /\ bpc = "published" /\ Recording(s, "idle", IF Verifies(bundle) THEN "verified" ELSE "refused")
    /\ UNCHANGED <<bundle, loaded>>

LoadReports(s) ==
    /\ Recording(s, "verified", "slicer")
    /\ loaded' = [loaded EXCEPT ![s] = Restrict(bundle, {"validation", "provenance", "manifest"})]
    /\ UNCHANGED bundle

WriteSlicer(s) == Recording(s, "slicer", "bambu") /\ Put("slicer", s) /\ UNCHANGED loaded
WriteBambu(s)  == Recording(s, "bambu", "validation") /\ Put("bambu", s) /\ UNCHANGED loaded
WriteValidation(s) ==
    /\ Recording(s, "validation", "html")
    /\ UNCHANGED loaded /\ Put("validation", [loaded[s]["validation"] EXCEPT !.slice = s])

\* It renders what validation.json says now.
WriteHtml(s) ==
    /\ Recording(s, "html", "provenance") /\ UNCHANGED loaded
    /\ Put("html", bundle["validation"])
WriteProvenance(s) ==
    /\ Recording(s, "provenance", "manifest")
    /\ UNCHANGED loaded /\ Put("provenance", [loaded[s]["provenance"] EXCEPT !.report.slice = s])

\* The manifest that was read, with new digests of the files that are there now.
WriteSliceManifest(s) ==
    /\ Recording(s, "manifest", "after") /\ Forget(s)
    /\ LET old == loaded[s]["manifest"] IN
       Put("manifest", [old EXCEPT !.sha =
              [r \in DOMAIN old.sha \cup Mutable |->
                  IF r \in Mutable THEN bundle[r] ELSE old.sha[r]]])

VerifyAfter(s) ==
    /\ Recording(s, "after", IF Verifies(bundle) THEN "recorded" ELSE "refused")
    /\ UNCHANGED <<bundle, loaded>>

SlicingDies(s) ==
    /\ spc[s] \notin SliceEnds \cup {"idle"} /\ Recording(s, spc[s], "dead") /\ Forget(s)
    /\ UNCHANGED bundle

RecordSlice(s) ==
    \/ VerifyBefore(s) \/ LoadReports(s) \/ WriteSlicer(s) \/ WriteBambu(s) \/ WriteValidation(s)
    \/ WriteHtml(s) \/ WriteProvenance(s) \/ WriteSliceManifest(s) \/ VerifyAfter(s)
    \/ SlicingDies(s)

-----------------------------------------------------------------------------
(* The user's file system *)

BundleEvent == bundleEvents < MaxBundleEvents /\ bundleEvents' = bundleEvents + 1

ReplaceInput(v) ==
    /\ bpc \notin BuildEnds /\ BundleEvent
    /\ \/ v # elevation /\ elevation' = v /\ UNCHANGED mask
       \/ v # mask /\ mask' = v /\ UNCHANGED elevation
    /\ UNCHANGED <<bpc, memory, staged, bundle, spc, loaded>>

\* A file of a build of other elevations is copied over one of this bundle.
CopyForeign(v, acquired, role) ==
    /\ bpc = "published" /\ BundleEvent /\ v # bundle["processed_dem"]
    /\ role \in DOMAIN BundleOf(v, acquired)
    /\ bundle' = [r \in DOMAIN bundle \cup {role} |->
                    IF r = role THEN BundleOf(v, acquired)[role] ELSE bundle[r]]
    /\ UNCHANGED <<elevation, mask, bpc, memory, staged, spc, loaded>>

BuildStep ==
    \/ ReadAcquisition \/ CopyMasks \/ HashSource \/ ProcessRaster \/ ExportAndMeasure
    \/ WriteManifest \/ PublishBundle

BundleNext ==
    \/ BuildStep
    \/ \E s \in Slicings : RecordSlice(s)
    \/ \E v \in Rasters : ReplaceInput(v)
    \/ \E v \in Rasters, acquired \in BOOLEAN, r \in Roles : CopyForeign(v, acquired, r)

BundleSpec == BundleInit /\ [][BundleNext]_bundleVars

-----------------------------------------------------------------------------
(* Properties *)

BundleTypeOK ==
    /\ elevation \in Rasters /\ mask \in Rasters /\ bundleEvents \in 0..MaxBundleEvents
    /\ bpc \in {"idle", "copying", "hashing", "reading", "exporting", "binding", "verifying"}
               \cup BuildEnds
    /\ memory \in [acquired : BOOLEAN, hashed : Rasters \cup {0}]
    /\ DOMAIN staged \subseteq Roles /\ DOMAIN bundle \subseteq Roles
    /\ spc \in [Slicings -> {"idle", "verified", "slicer", "bambu", "validation", "html",
                             "provenance", "manifest", "after"} \cup SliceEnds]
    /\ DOMAIN loaded = Slicings
    /\ \A s \in Slicings : DOMAIN loaded[s] \subseteq {"validation", "provenance", "manifest"}

\* Whatever order two recordings, a death and foreign files come in, a bundle
\* that verifies is of one build of one version of the elevations, and of one
\* slicing or none: rasters, models, preflight and reports all tell of it.
BundleIsOfOneBuild ==
    Verifies(bundle) =>
        \E v \in Rasters, s \in Slicings \cup {"none"} :
            /\ \A r \in Derived : bundle[r] = v
            /\ \A r \in {"validation", "html"} :
                  bundle[r] = [ReportOf(bundle) EXCEPT !.slice = s]
            /\ bundle["provenance"].report = bundle["validation"]
            /\ \A r \in SliceFiles \cap DOMAIN bundle : bundle[r] = s
            /\ \A r \in Sourced \cap DOMAIN bundle : bundle[r] = 1
=============================================================================
