---------------------------- MODULE WorkflowProof -----------------------------
(*****************************************************************************)
(* The run, the verification and the cleanup of a workflow, for any set of   *)
(* launches and settings, any number of edits, crashes, damages and faults.  *)
(*****************************************************************************)
EXTENDS WorkflowCleanup, FiniteSetTheorems, TLAPS

USE MaxVersionAssumption, SettingsAssumption, ProjectAssumption, NoneIsNoLaunch,
    EditableAssumption, RunBoundsAssumption, CleanupAssumption

-----------------------------------------------------------------------------
(* The tables of the plan *)

\* What is written down of the stages: their order follows their parents.
LEMMA PlanTables ==
    /\ Own \in [Stages -> SUBSET Ingredients]
    /\ Order \in [Stages -> Nat]
    /\ Parent \in [Stages -> Stages \cup {"none"}]
    /\ Ancestors \in [Stages -> SUBSET Stages]
    /\ \A s \in Stages : Parent[s] # "none" => Order[Parent[s]] < Order[s]
    /\ \A s \in Stages : \A a \in Ancestors[s] : Order[a] < Order[s]
    /\ \A s, t \in Stages : Order[s] = Order[t] => s = t
    /\ \A s \in Stages \ {"acquire"} : Order["acquire"] < Order[s]
  <1>1. Own \in [Stages -> SUBSET Ingredients]
    BY DEF Own, Stages, Ingredients, Files
  <1>2. Order \in [Stages -> Nat] /\ \A s, t \in Stages : Order[s] = Order[t] => s = t
    BY DEF Order, Stages
  <1>3. /\ Parent \in [Stages -> Stages \cup {"none"}]
        /\ \A s \in Stages : Parent[s] # "none" => Order[Parent[s]] < Order[s]
    BY DEF Order, Stages, Parent
  <1>4. /\ Ancestors \in [Stages -> SUBSET Stages]
        /\ \A s \in Stages : \A a \in Ancestors[s] : Order[a] < Order[s]
    BY DEF Order, Stages, Ancestors
  <1>5. \A s \in Stages \ {"acquire"} : Order["acquire"] < Order[s]
    BY DEF Order, Stages
  <1> QED
    BY <1>1, <1>2, <1>3, <1>4, <1>5

\* The stages of a launch: with each its parent, and always those up to the connectors.
LEMMA PlanOfLaunch ==
    ASSUME NEW l \in Launches
    PROVE  /\ Plan[l] \subseteq Stages
           /\ \A s \in Stages : s \in Plan[l] <=> Enabled(l, s)
           /\ {"source", "build", "layout", "extract", "mesh", "connect"} \subseteq Plan[l]
           /\ \A s \in Plan[l] : Parent[s] = "none" \/ Parent[s] \in Plan[l]
           /\ "acquire" \in Plan[l] <=> IsGlobal(l)
           /\ "project" \in Plan[l] => Settings[l].sliced
           /\ "slice" \in Plan[l] <=> Settings[l].sliced
           /\ "overlay" \in Plan[l] <=> Settings[l].overlaid
  <1>1. Plan[l] \subseteq Stages /\ \A s \in Stages : s \in Plan[l] <=> Enabled(l, s)
    BY DEF Plan
  <1>2. {"source", "build", "layout", "extract", "mesh", "connect"} \subseteq Plan[l]
    BY <1>1 DEF Enabled, Stages
  <1>3. /\ "acquire" \in Plan[l] <=> IsGlobal(l)
        /\ "project" \in Plan[l] => Settings[l].sliced
        /\ "slice" \in Plan[l] <=> Settings[l].sliced
        /\ "overlay" \in Plan[l] <=> Settings[l].overlaid
    BY <1>1 DEF Enabled, Stages
  <1>4. \A s \in Plan[l] : Parent[s] = "none" \/ Parent[s] \in Plan[l]
    <2> SUFFICES ASSUME NEW s \in Plan[l] PROVE Parent[s] = "none" \/ Parent[s] \in Plan[l]
      OBVIOUS
    <2>1. Parent[s] \in {"none", "build", "layout", "extract", "mesh", "connect"}
            \/ (s = "project" /\ Parent[s] = "slice")
      BY <1>1 DEF Parent, Stages
    <2> QED
      BY <1>2, <1>3, <2>1
  <1> QED
    BY <1>1, <1>2, <1>3, <1>4

\* An identity is a vector again.
LEMMA VectorsAreBound ==
    ASSUME NEW s \in Stages, NEW up \in Vector, NEW own \in Vector
    PROVE  Bind(s, up, own) \in Vector
  BY PlanTables DEF Bind, Vector

\* What a request knows is a vector.
LEMMA KnownIsAVector ==
    ASSUME NEW l \in Launches, NEW dem \in 0..MaxVersion, NEW overlay \in 0..MaxVersion,
           NEW slicer \in 0..MaxVersion
    PROVE  Known(l, dem, overlay, slicer) \in Vector
  BY DEF Known, Vector, Ingredients, Files

-----------------------------------------------------------------------------
(* What holds of a run, a cleanup and the disk whatever happens *)

Staging == {"lookup", "make", "publish", "reopen", "conclude", "complete"}

\* A run goes through its plan in order, under the status it announced.
RunShape ==
    /\ pc = "setup" => launch # "none"
    /\ pc \in Staging \cup {"announce"} => req \in Request
    /\ pc \notin Staging => recs = <<>>
    /\ pc \in Staging =>
          /\ status.state = "running"
          /\ DOMAIN recs \subseteq Plan[Here]
          /\ \A s \in DOMAIN recs, t \in Plan[Here] : Order[t] < Order[s] => t \in DOMAIN recs
    /\ pc \in {"conclude", "complete"} => DOMAIN recs = Plan[Here]
    /\ pc \in {"make", "publish", "reopen"} => making \in Record /\ IsCurrent(making.stage)

\* A download is made of the region and what the server had, a build of the
\* elevations and the terrain settings: of nothing that comes later.
Shaped(rec) ==
    /\ rec.stage = "acquire" => \A i \in {"overlay", "slicer", "terrain", "tiles"} : rec.made[i] = 0
    /\ rec.stage = "build" => \A i \in {"overlay", "slicer", "tiles"} : rec.made[i] = 0
AllShaped ==
    /\ \A d \in stages \cup moved : Shaped(d)
    /\ pc \in {"publish", "reopen"} => Shaped(making)

WorkflowInv == TypeOK /\ RunShape /\ AllShaped

\* All that RunTypeOK says of the records of a run.
RecsTyped(r) == DOMAIN r \subseteq Stages /\ \A s \in DOMAIN r : r[s] \in Record /\ r[s].stage = s

\* No records are records.
LEMMA EmptyRecs == RecsTyped(<<>>) /\ DOMAIN <<>> = {}
  BY DEF RecsTyped

\* The stage at hand finds its parent, and what its verifier reopens, recorded.
LEMMA ParentIsRecorded ==
    ASSUME TypeOK, RunShape, pc \in Staging, NEW s, IsCurrent(s)
    PROVE  /\ s \in Stages /\ s \in Plan[Here] /\ s \notin DOMAIN recs /\ Here \in Launches
           /\ Parent[s] # "none" => Parent[s] \in DOMAIN recs
           /\ Ancestors[s] \cap Plan[Here] \subseteq DOMAIN recs
           /\ \A t \in Plan[Here] : Order[t] < Order[s] => t \in DOMAIN recs
           /\ \A t \in DOMAIN recs : Order[t] < Order[s]
           /\ "acquire" \in Plan[Here] /\ s # "acquire" => "acquire" \in DOMAIN recs
  <1>1. Here \in Launches
    BY DEF RunShape, Here, Request, Staging
  <1>2. s \in Plan[Here] /\ s \notin DOMAIN recs /\ Plan[Here] \subseteq Stages
    BY <1>1, PlanOfLaunch DEF IsCurrent, ToDo
  <1>3. \A t \in Plan[Here] : Order[t] < Order[s] => t \in DOMAIN recs
    BY <1>2, PlanTables DEF IsCurrent, ToDo
  <1>4. \A t \in DOMAIN recs : Order[t] < Order[s]
    <2> SUFFICES ASSUME NEW t \in DOMAIN recs PROVE Order[t] < Order[s]
      OBVIOUS
    <2>1. t \in Plan[Here] /\ t # s
      BY <1>2 DEF RunShape
    <2>2. ~ (Order[s] < Order[t])
      BY <1>2, <2>1 DEF RunShape
    <2> QED
      BY <1>2, <2>1, <2>2, PlanTables
  <1> QED
    BY <1>1, <1>2, <1>3, <1>4, PlanTables, PlanOfLaunch

\* Recording a stage takes the run to the next one, or to its conclusion.
LEMMA RecordKeeps ==
    ASSUME TypeOK, RunShape, pc \in {"lookup", "make", "publish", "reopen"}, NEW rec \in Record,
           IsCurrent(rec.stage), RecordStage(rec), UNCHANGED <<launch, req, status>>
    PROVE  /\ RunShape' /\ RecsTyped(recs') /\ making' = NoRecord /\ pc' \in {"conclude", "lookup"}
           /\ DOMAIN recs' = DOMAIN recs \cup {rec.stage} /\ recs'[rec.stage] = rec
           /\ \A t \in DOMAIN recs : recs'[t] = recs[t]
  <1> DEFINE s == rec.stage
  <1>1. /\ DOMAIN recs' = DOMAIN recs \cup {s} /\ recs'[s] = rec
        /\ \A t \in DOMAIN recs \ {s} : recs'[t] = recs[t]
        /\ making' = NoRecord /\ pc' \in {"conclude", "lookup"}
        /\ pc' = "conclude" => DOMAIN recs' = Plan[Here]
    BY DEF RecordStage
  <1>2. /\ s \in Plan[Here] /\ s \notin DOMAIN recs
        /\ \A t \in Plan[Here] : Order[t] < Order[s] => t \in DOMAIN recs
    BY ParentIsRecorded DEF Staging
  <1>3. RecsTyped(recs')
    BY <1>1, <1>2 DEF RecsTyped, TypeOK, RunTypeOK, Record
  <1>4. RunShape'
    BY <1>1, <1>2 DEF RunShape, Staging, Here, Record
  <1> QED
    BY <1>1, <1>2, <1>3, <1>4

\* A failing run has no records any more.
LEMMA FailKeeps ==
    ASSUME TypeOK, RunShape, FailRun
    PROVE  RunShape' /\ RecsTyped(recs') /\ making' = NoRecord /\ pc' = "failing"
  BY EmptyRecs DEF FailRun, RunShape, Staging

\* What the stage at hand is looked up by, and made of.
LEMMA KeysAreVectors ==
    ASSUME TypeOK, RunShape, pc \in Staging, NEW s, IsCurrent(s)
    PROVE  /\ Up(recs, s) \in Vector /\ RunKnown(s) \in Vector /\ FilesRead \in Vector
           /\ RunKey(s) \in Vector /\ From(s) \in Vector /\ Makes(s) \subseteq Vector
  <1>1. /\ s \in Stages /\ Here \in Launches /\ req \in Request
        /\ Parent[s] # "none" => Parent[s] \in DOMAIN recs
    BY ParentIsRecorded DEF RunShape
  <1>2. \A t \in DOMAIN recs : recs[t] \in Record /\ recs[t].made \in Vector
    BY DEF TypeOK, RunTypeOK, Record
  <1>3. Up(recs, s) \in Vector
    BY <1>1, <1>2 DEF Up, Nothing, Vector
  <1>4. /\ files["overlay"] \in 0..MaxVersion /\ files["slicer"] \in 0..MaxVersion
        /\ files["dem"] \in 0..MaxVersion
        /\ req.dem \in 0..MaxVersion /\ req.slicer \in 0..MaxVersion
    BY <1>1 DEF TypeOK, WorkspaceTypeOK, Files, Request
  <1>5. \A dem \in 0..MaxVersion : SourceDem(Here, recs, dem) \in 0..MaxVersion
    BY <1>2 DEF SourceDem, Vector, Ingredients, Files
  <1>6. RunKnown(s) \in Vector /\ FilesRead \in Vector
    BY <1>1, <1>4, <1>5, KnownIsAVector DEF RunKnown, FilesRead
  <1>7. RunKey(s) \in Vector /\ From(s) \in Vector
    BY <1>1, <1>3, <1>6, VectorsAreBound DEF RunKey, From
  <1>8. Makes(s) \subseteq {RunKey(s), From(s), [RunKey(s) EXCEPT !["dem"] = files["dem"]]}
    BY <1>1
    DEF Makes, GlobalSource, SourceRecord, TerrainBundle, OverlayBundle, TileLayout, TileSet,
        TileMeshSet, PrintTileSet, TileSliceSet, ProjectEvidence, Stages
  <1>9. [RunKey(s) EXCEPT !["dem"] = files["dem"]] \in Vector
    BY <1>4, <1>7 DEF Vector
  <1> QED
    BY <1>3, <1>6, <1>7, <1>8, <1>9

\* What is made is made of what its stage may read.
LEMMA MadeIsShaped ==
    ASSUME TypeOK, RunShape, pc \in Staging, NEW s, IsCurrent(s), NEW made \in Makes(s),
           NEW rec, rec.stage = s, rec.made = made
    PROVE  Shaped(rec)
  <1>1. s \in Stages
    BY ParentIsRecorded
  <1>2. /\ Parent["acquire"] = "none" /\ Own["acquire"] = {"aoi"}
        /\ Parent["build"] = "none" /\ Own["build"] = {"aoi", "dem", "terrain"}
        /\ {"acquire", "build"} \subseteq Stages
    BY DEF Parent, Own, Stages
  <1>3. \A i \in Ingredients \ {"aoi"} : RunKey("acquire")[i] = 0
    BY <1>2 DEF RunKey, Bind, Up, Nothing
  <1>4. \A i \in Ingredients \ {"aoi", "dem", "terrain"} : From("build")[i] = 0
    BY <1>2 DEF From, Bind, Up, Nothing
  <1>5. s = "acquire" => \A i \in {"overlay", "slicer", "terrain", "tiles"} : made[i] = 0
    <2> SUFFICES ASSUME s = "acquire", NEW i \in {"overlay", "slicer", "terrain", "tiles"}
                 PROVE  made[i] = 0
      OBVIOUS
    <2>1. made = [RunKey("acquire") EXCEPT !["dem"] = files["dem"]]
      BY DEF Makes, GlobalSource
    <2>2. RunKey("acquire") \in Vector
      BY KeysAreVectors
    <2> QED
      BY <1>3, <2>1, <2>2 DEF Vector, Ingredients, Files
  <1>6. s = "build" => \A i \in {"overlay", "slicer", "tiles"} : made[i] = 0
    <2> SUFFICES ASSUME s = "build", NEW i \in {"overlay", "slicer", "tiles"} PROVE made[i] = 0
      OBVIOUS
    <2>1. made = From("build")
      BY DEF Makes, TerrainBundle
    <2> QED
      BY <1>4, <2>1 DEF Ingredients, Files
  <1> QED
    BY <1>5, <1>6 DEF Shaped

\* The request of a launch is a request.
LEMMA RequestIsTyped ==
    ASSUME TypeOK, NEW l \in Launches
    PROVE  RequestPayload(l, files, files["slicer"]) \in Request
  BY DEF RequestPayload, Request, TypeOK, WorkspaceTypeOK, Files

\* A workspace with nothing in it.
LEMMA WorkflowInitial == Init => WorkflowInv
  <1> SUFFICES ASSUME Init PROVE WorkflowInv
    OBVIOUS
  <1> USE EmptyRecs DEF Init, WorkspaceInit, RunInit, CleanupInit
  <1>1. WorkspaceTypeOK
    BY DEF WorkspaceTypeOK, Files, Requests
  <1>2. RunTypeOK
    <2>1. calm \in BOOLEAN
      BY Zenon
    <2>2. Cardinality(refused) <= 1
      BY FS_EmptySet
    <2> QED
      BY <2>1, <2>2 DEF RunTypeOK, RunSteps, Requests, RecsTyped
  <1>3. CleanupTypeOK
    <2>1. lost \in BOOLEAN
      BY Zenon
    <2> QED
      BY <2>1 DEF CleanupTypeOK
  <1>4. RunShape /\ AllShaped
    BY DEF RunShape, AllShaped, Staging
  <1> QED
    BY <1>1, <1>2, <1>3, <1>4 DEF WorkflowInv, TypeOK

\* The steps of a run that leave the stage directories alone and record nothing.
LEMMA PlainRunStepKeeps ==
    ASSUME WorkflowInv, UNCHANGED cleanupVars,
           \/ \E l \in Launches : SaveLaunch(l)
           \/ RejectSetup \/ BindRequest \/ Announce \/ FailStage \/ WriteManifest \/ Complete
           \/ PersistFailure \/ Crash
    PROVE  WorkflowInv'
  <1> USE EmptyRecs
  <1> DEFINE Acts == \/ \E l \in Launches : SaveLaunch(l)
                     \/ RejectSetup \/ BindRequest \/ Announce \/ FailStage \/ WriteManifest
                     \/ Complete \/ PersistFailure \/ Crash
  <1>0. TypeOK /\ RunShape /\ AllShaped
    BY DEF WorkflowInv
  <1>1. UNCHANGED <<files, stages, moved>>
    BY DEF SaveLaunch, RejectSetup, BindRequest, Announce, FailStage, WriteManifest, Complete,
           PersistFailure, Crash, diskVars, cleanupVars
  <1>2. pc' \notin {"publish", "reopen"} /\ pc' \in RunSteps
    BY <1>0
    DEF SaveLaunch, RejectSetup, BindRequest, Announce, FailStage, WriteManifest, Complete,
        PersistFailure, Crash, EndRun, FailRun, RunSteps
  <1>3. AllShaped'
    BY <1>0, <1>1, <1>2 DEF AllShaped, Shaped
  <1>4. CleanupTypeOK'
    BY <1>0 DEF cleanupVars, CleanupTypeOK, TypeOK
  <1>5. calm' \in BOOLEAN
    <2>1. calm' \in {calm, TRUE, FALSE}
      BY DEF SaveLaunch, RejectSetup, BindRequest, Announce, FailStage, WriteManifest, Complete,
             PersistFailure, Crash
    <2> QED
      BY <1>0, <2>1, Zenon DEF TypeOK, RunTypeOK
  <1>6. /\ disturbances' \in 0..MaxDisturbances /\ faults' \in 0..MaxFaults
        /\ refused' \subseteq Place /\ Cardinality(refused') <= 1
    <2>1. refused' \in {refused, {}}
      BY DEF SaveLaunch, RejectSetup, BindRequest, Announce, FailStage, WriteManifest, Complete,
             PersistFailure, Crash
    <2>2. disturbances' \in 0..MaxDisturbances /\ faults' \in 0..MaxFaults
      BY <1>0
      DEF SaveLaunch, RejectSetup, BindRequest, Announce, FailStage, WriteManifest, Complete,
          PersistFailure, Crash, Disturb, Fault, TypeOK, RunTypeOK
    <2>3. refused \subseteq Place /\ Cardinality(refused) <= 1
      BY <1>0 DEF TypeOK, RunTypeOK
    <2>4. Cardinality({}) <= 1
      BY FS_EmptySet
    <2> QED
      BY <2>1, <2>2, <2>3, <2>4
  <1>7. req' \in Requests /\ making' \in Record \cup {NoRecord} /\ RecsTyped(recs')
    <2>1. BindRequest => req' \in Request
      BY <1>0, RequestIsTyped DEF BindRequest, RunShape, TypeOK, WorkspaceTypeOK
    <2> QED
      BY <1>0, <2>1
      DEF SaveLaunch, RejectSetup, BindRequest, Announce, FailStage, WriteManifest, Complete,
          PersistFailure, Crash, EndRun, FailRun, TypeOK, RunTypeOK, Requests, RecsTyped
  <1>8. RunTypeOK'
    BY <1>2, <1>5, <1>6, <1>7 DEF RunTypeOK, RecsTyped
  <1>9. WorkspaceTypeOK'
    <2>1. launch' \in Launches \cup {"none"}
      BY <1>0
      DEF SaveLaunch, RejectSetup, BindRequest, Announce, FailStage, WriteManifest, Complete,
          PersistFailure, Crash, diskVars, TypeOK, WorkspaceTypeOK
    <2>2. request' \in Requests
      BY <1>0, <1>7
      DEF SaveLaunch, RejectSetup, BindRequest, Announce, FailStage, WriteManifest, Complete,
          PersistFailure, Crash, diskVars, TypeOK, WorkspaceTypeOK
    <2>3. status'.of \in Requests /\ status'.state \in {"none", "running", "completed", "failed"}
      BY <1>0
      DEF SaveLaunch, RejectSetup, BindRequest, Announce, FailStage, WriteManifest, Complete,
          PersistFailure, Crash, diskVars, TypeOK, WorkspaceTypeOK, RunTypeOK
    <2>4. manifest'.of \in Requests /\ RecsTyped(manifest'.stages)
      <3>1. CASE WriteManifest
        BY <1>0, <3>1 DEF WriteManifest, TypeOK, RunTypeOK, RecsTyped
      <3>2. CASE ~ WriteManifest
        <4>1. UNCHANGED manifest
          BY <3>2
          DEF SaveLaunch, RejectSetup, BindRequest, Announce, FailStage, Complete,
              PersistFailure, Crash, diskVars
        <4> QED
          BY <1>0, <4>1 DEF TypeOK, WorkspaceTypeOK, RecsTyped
      <3> QED
        BY <3>1, <3>2
    <2> QED
      BY <1>0, <1>1, <2>1, <2>2, <2>3, <2>4 DEF WorkspaceTypeOK, TypeOK, RecsTyped
  <1>10. RunShape'
    <2> USE <1>0 DEF RunShape, Staging, EndRun, FailRun, Here
    <2>1. CASE \E l \in Launches : SaveLaunch(l)
      BY <2>1 DEF SaveLaunch
    <2>2. CASE RejectSetup \/ Complete \/ PersistFailure \/ Crash
      BY <2>2 DEF RejectSetup, Complete, PersistFailure, Crash
    <2>3. CASE BindRequest
      <3>1. req' \in Request
        BY <2>3, RequestIsTyped DEF BindRequest, TypeOK, WorkspaceTypeOK
      <3> QED
        BY <2>3, <3>1 DEF BindRequest
    <2>4. CASE Announce
      BY <2>4 DEF Announce
    <2>5. CASE FailStage
      BY <2>5 DEF FailStage
    <2>6. CASE WriteManifest
      BY <2>6 DEF WriteManifest
    <2> QED
      BY <2>1, <2>2, <2>3, <2>4, <2>5, <2>6
  <1> QED
    BY <1>3, <1>4, <1>8, <1>9, <1>10 DEF WorkflowInv, TypeOK

\* A step that looks up, makes, publishes or reopens a stage: it suffices that what
\* it adds below stages/ finds its place free, and that the rest is typed.
LEMMA StageStepKeeps ==
    ASSUME WorkflowInv, UNCHANGED cleanupVars,
           \/ \E s \in Stages : ReuseStage(s) \/ NameStage(s) \/ MakeStage(s)
           \/ PublishStage \/ ReopenStage
    PROVE  WorkflowInv'
  <1> USE EmptyRecs
  <1>0. TypeOK /\ RunShape /\ AllShaped
    BY DEF WorkflowInv
  <1>1. /\ UNCHANGED <<files, launch, request, status, manifest, req, calm, disturbances, faults>>
        /\ UNCHANGED <<moved>> /\ pc \in {"lookup", "make", "publish", "reopen"}
    BY DEF ReuseStage, NameStage, MakeStage, PublishStage, ReopenStage, diskVars, cleanupVars
  <1>2. CleanupTypeOK'
    BY <1>0 DEF cleanupVars, CleanupTypeOK, TypeOK
  <1>3. refused' \subseteq Place /\ Cardinality(refused') <= 1
    <2>1. CASE UNCHANGED refused
      BY <1>0, <2>1 DEF TypeOK, RunTypeOK
    <2>2. CASE \E s \in Stages : ReuseStage(s)
      <3>1. PICK s \in Stages : ReuseStage(s)
        BY <2>2
      <3>2. CASE refused' = {[stage |-> s, key |-> RunKey(s)]}
        <4>1. RunKey(s) \in Vector
          BY <1>0, <3>1, KeysAreVectors DEF ReuseStage, Staging
        <4>2. refused' \subseteq Place
          BY <3>2, <4>1 DEF Place
        <4>3. Cardinality(refused') = 1
          BY <3>2, FS_Singleton
        <4> QED
          BY <4>2, <4>3
      <3> QED
        BY <2>1, <3>1, <3>2 DEF ReuseStage
    <2> QED
      BY <2>1, <2>2 DEF NameStage, MakeStage, PublishStage, ReopenStage
  <1>4. /\ RunShape' /\ RecsTyped(recs') /\ pc' \in RunSteps
        /\ making' \in Record \cup {NoRecord}
        /\ pc' \in {"publish", "reopen"} => Shaped(making')
    <2> DEFINE Goal == /\ RunShape' /\ RecsTyped(recs') /\ pc' \in RunSteps
                       /\ making' \in Record \cup {NoRecord}
                       /\ pc' \in {"publish", "reopen"} => Shaped(making')
    <2>1. ASSUME NEW rec \in Record, IsCurrent(rec.stage), RecordStage(rec) PROVE Goal
      BY <1>0, <1>1, <2>1, RecordKeeps DEF RunSteps
    <2>2. ASSUME FailRun PROVE Goal
      BY <1>0, <2>2, FailKeeps DEF RunSteps
    <2>3. CASE \E s \in Stages : ReuseStage(s)
      <3>1. PICK s \in Stages : ReuseStage(s)
        BY <2>3
      <3>2. PICK d \in At(stages, s, RunKey(s)) : RecordStage(RecordOf(d)) \/ FailRun
        BY <3>1 DEF ReuseStage
      <3>3. RecordOf(d) \in Record /\ RecordOf(d).stage = s
            /\ IsCurrent(RecordOf(d).stage)
        BY <1>0, <3>1, <3>2
        DEF At, RecordOf, Record, Directory, TypeOK, WorkspaceTypeOK, ReuseStage
      <3>4. CASE RecordStage(RecordOf(d))
        <4> DEFINE rec == RecordOf(d)
        <4>1. rec \in Record /\ IsCurrent(rec.stage) /\ RecordStage(rec)
          BY <3>3, <3>4
        <4> HIDE DEF rec
        <4> QED
          BY <2>1, <4>1
      <3> QED
        BY <2>2, <3>2, <3>4
    <2>4. CASE \E s \in Stages : NameStage(s)
      <3>1. PICK s \in Stages : NameStage(s)
        BY <2>4
      <3>2. RunKey(s) \in Vector /\ Nothing \in Vector
        BY <1>0, <3>1, KeysAreVectors DEF NameStage, Staging, Nothing, Vector
      <3>3. making' \in Record /\ making'.stage = s
        BY <3>1, <3>2 DEF NameStage, Record
      <3>4. RunShape'
        BY <1>0, <1>1, <3>1, <3>3 DEF NameStage, RunShape, Staging, Here, IsCurrent, ToDo
      <3> QED
        BY <1>0, <3>1, <3>3, <3>4 DEF NameStage, RunSteps, RecsTyped, TypeOK, RunTypeOK
    <2>5. CASE \E s \in Stages : MakeStage(s)
      <3>1. PICK s \in Stages : MakeStage(s)
        BY <2>5
      <3>2. making \in Record /\ making.stage = s /\ IsCurrent(s) /\ pc = "make"
        BY <1>0, <3>1 DEF MakeStage, RunShape
      <3>3. CASE \E made \in Makes(s) :
                    /\ making' = [making EXCEPT !.made = made]
                    /\ pc' = "publish" /\ UNCHANGED recs
        <4>1. PICK made \in Makes(s) :
                 /\ making' = [making EXCEPT !.made = made]
                 /\ pc' = "publish" /\ UNCHANGED recs
          BY <3>3
        <4>2. made \in Vector
          BY <1>0, <3>2, KeysAreVectors DEF Staging
        <4>3. making' \in Record /\ making'.stage = s /\ making'.made = made
          BY <3>2, <4>1, <4>2 DEF Record
        <4>4. Shaped(making')
          BY <1>0, <3>2, <4>3, MadeIsShaped DEF Staging
        <4>5. RunShape'
          BY <1>0, <1>1, <3>2, <4>1, <4>3 DEF RunShape, Staging, Here, IsCurrent, ToDo
        <4> QED
          BY <1>0, <4>1, <4>3, <4>4, <4>5 DEF RunSteps, RecsTyped, TypeOK, RunTypeOK
      <3> QED
        BY <2>2, <3>1, <3>3 DEF MakeStage
    <2>6. CASE PublishStage
      <3>1. making \in Record /\ IsCurrent(making.stage) /\ Shaped(making)
        BY <1>0, <2>6 DEF PublishStage, RunShape, AllShaped
      <3>2. CASE RecordStage(making) \/ FailRun
        BY <2>1, <2>2, <3>1, <3>2
      <3>3. CASE pc' = "reopen" /\ UNCHANGED <<recs, making>>
        <4>1. RunShape'
          BY <1>0, <1>1, <3>1, <3>3 DEF RunShape, Staging, Here, IsCurrent, ToDo
        <4> QED
          BY <1>0, <3>1, <3>3, <4>1 DEF RunSteps, RecsTyped, TypeOK, RunTypeOK, Shaped
      <3> QED
        BY <2>6, <3>2, <3>3 DEF PublishStage
    <2>7. CASE ReopenStage
      <3>1. making \in Record /\ IsCurrent(making.stage) /\ (RecordStage(making) \/ FailRun)
        BY <1>0, <2>7 DEF ReopenStage, RunShape
      <3> QED
        BY <2>1, <2>2, <3>1
    <2> QED
      BY <2>3, <2>4, <2>5, <2>6, <2>7
  <1>5. RunTypeOK'
    <2>1. calm' \in BOOLEAN
      BY <1>0, <1>1, Zenon DEF RunTypeOK, TypeOK
    <2> QED
      BY <1>0, <1>1, <1>3, <1>4, <2>1 DEF RunTypeOK, RecsTyped, TypeOK
  <1>6. WorkspaceTypeOK' /\ \A d \in stages' : Shaped(d)
    <2>1. CASE UNCHANGED stages
      BY <1>0, <1>1, <2>1 DEF WorkspaceTypeOK, TypeOK, AllShaped
    <2>2. CASE stages' # stages
      <3> DEFINE d == [stage |-> making.stage, key |-> making.key, made |-> making.made,
                       intact |-> TRUE]
      <3>1. /\ stages' = stages \cup {d} /\ ~ Occupied(stages, making.stage, making.key)
            /\ making \in Record /\ Shaped(making)
        BY <1>0, <2>2
        DEF ReuseStage, NameStage, MakeStage, PublishStage, ReopenStage, diskVars, RunShape,
            AllShaped
      <3>2. /\ d \in Directory /\ Shaped(d) /\ d.stage = making.stage /\ d.key = making.key
        BY <3>1 DEF Directory, Record, Shaped
      <3>3. \A e \in stages : ~ (e.stage = d.stage /\ e.key = d.key)
        BY <3>1, <3>2 DEF Occupied, At
      <3> HIDE DEF d
      <3> QED
        BY <1>0, <1>1, <3>1, <3>2, <3>3 DEF WorkspaceTypeOK, TypeOK, AllShaped
    <2> QED
      BY <2>1, <2>2
  <1>7. AllShaped'
    BY <1>0, <1>1, <1>4, <1>6 DEF AllShaped, Shaped
  <1> QED
    BY <1>2, <1>4, <1>5, <1>6, <1>7 DEF WorkflowInv, TypeOK

\* A damaged directory keeps its name and its manifest.
LEMMA DamageKeepsPlaces ==
    ASSUME WorkflowInv, NEW d \in stages,
           stages' = (stages \ {d}) \cup {[d EXCEPT !.intact = FALSE]}
    PROVE  /\ stages' \subseteq Directory /\ \A e \in stages' : Shaped(e)
           /\ \A x, y \in stages' : x.stage = y.stage /\ x.key = y.key => x = y
           /\ \A e \in stages : \E x \in stages' : RecordOf(x) = RecordOf(e)
  <1> DEFINE b == [d EXCEPT !.intact = FALSE]
  <1>0. d \in Directory /\ stages \subseteq Directory /\ \A e \in stages : Shaped(e)
    BY DEF WorkflowInv, TypeOK, WorkspaceTypeOK, AllShaped
  <1>1. b \in Directory /\ b.stage = d.stage /\ b.key = d.key /\ b.made = d.made
    BY <1>0 DEF Directory
  <1>2. Shaped(b) /\ RecordOf(b) = RecordOf(d)
    BY <1>0, <1>1 DEF Shaped, RecordOf
  <1>3. \A x, y \in stages : x.stage = y.stage /\ x.key = y.key => x = y
    BY DEF WorkflowInv, TypeOK, WorkspaceTypeOK
  <1> HIDE DEF b
  <1>4. stages' = (stages \ {d}) \cup {b}
    BY DEF b
  <1> QED
    BY <1>0, <1>1, <1>2, <1>3, <1>4

\* The inputs and the disk change while a run may be under way.
LEMMA DisturbanceKeeps ==
    ASSUME WorkflowInv, UNCHANGED cleanupVars,
           \/ \E f \in Editable : EditFile(f) \/ PutBack(f)
           \/ \E d \in stages : DamageStage(d)
           \/ RemoveRefused
    PROVE  WorkflowInv'
  <1>0. TypeOK /\ RunShape /\ AllShaped
    BY DEF WorkflowInv
  <1>1. UNCHANGED <<launch, request, status, manifest, pc, req, recs, making, faults, moved>>
    BY DEF EditFile, PutBack, DamageStage, RemoveRefused, diskVars, cleanupVars
  <1>2. CleanupTypeOK'
    BY <1>0 DEF cleanupVars, CleanupTypeOK, TypeOK
  <1>3. files' \in [Files -> 0..MaxVersion] /\ files'["dem"] # 0 /\ files'["overlay"] # 0
    <2> USE <1>0 DEF TypeOK, WorkspaceTypeOK
    <2>1. CASE \E f \in Editable : EditFile(f)
      <3>1. PICK f \in Editable : EditFile(f)
        BY <2>1
      <3>2. PICK v \in (IF f = "slicer" THEN 0 ELSE 1)..MaxVersion : files' = [files EXCEPT ![f] = v]
        BY <3>1 DEF EditFile
      <3>3. f \in Files /\ v \in 0..MaxVersion /\ (f # "slicer" => v # 0)
        OBVIOUS
      <3> QED
        BY <3>2, <3>3 DEF Files
    <2>2. CASE \E f \in Editable : PutBack(f)
      <3>1. PICK f \in Files : files' = [files EXCEPT ![f] = 1]
        BY <2>2 DEF PutBack
      <3>2. 1 \in 0..MaxVersion
        OBVIOUS
      <3> QED
        BY <3>1, <3>2 DEF Files
    <2>3. CASE (\E d \in stages : DamageStage(d)) \/ RemoveRefused
      BY <2>3 DEF DamageStage, RemoveRefused
    <2> QED
      BY <2>1, <2>2, <2>3
  <1>4. /\ stages' \subseteq Directory /\ \A e \in stages' : Shaped(e)
        /\ \A x, y \in stages' : x.stage = y.stage /\ x.key = y.key => x = y
    <2>1. CASE \E d \in stages : DamageStage(d)
      BY <2>1, DamageKeepsPlaces DEF DamageStage
    <2>2. CASE stages' \subseteq stages
      BY <1>0, <2>2 DEF TypeOK, WorkspaceTypeOK, AllShaped
    <2> QED
      BY <2>1, <2>2 DEF EditFile, PutBack, RemoveRefused, diskVars
  <1>5. RunTypeOK'
    <2>1. calm' \in BOOLEAN
      <3>1. calm' = FALSE
        BY DEF EditFile, PutBack, DamageStage, RemoveRefused
      <3> QED
        BY <3>1, Zenon
    <2>2. disturbances' \in 0..MaxDisturbances
      BY <1>0 DEF EditFile, PutBack, DamageStage, RemoveRefused, Disturb, TypeOK, RunTypeOK
    <2>3. refused' \subseteq Place /\ Cardinality(refused') <= 1
      <3>1. refused' \in {refused, {}}
        BY DEF EditFile, PutBack, DamageStage, RemoveRefused
      <3>2. refused \subseteq Place /\ Cardinality(refused) <= 1
        BY <1>0 DEF TypeOK, RunTypeOK
      <3>3. Cardinality({}) <= 1
        BY FS_EmptySet
      <3> QED
        BY <3>1, <3>2, <3>3
    <2> QED
      BY <1>0, <1>1, <2>1, <2>2, <2>3 DEF RunTypeOK, TypeOK
  <1>6. WorkspaceTypeOK'
    BY <1>0, <1>1, <1>3, <1>4 DEF TypeOK, WorkspaceTypeOK
  <1>7. RunShape'
    BY <1>0, <1>1 DEF RunShape, IsCurrent, ToDo, Here
  <1>8. AllShaped'
    BY <1>0, <1>1, <1>4 DEF AllShaped, Shaped
  <1> QED
    BY <1>2, <1>5, <1>6, <1>7, <1>8 DEF WorkflowInv, TypeOK

\* A cleanup moves stage directories away and back.
LEMMA CleanupStepKeeps ==
    ASSUME WorkflowInv, CleanupStep
    PROVE  WorkflowInv'
  <1>0. TypeOK /\ RunShape /\ AllShaped
    BY DEF WorkflowInv
  <1>1. UNCHANGED <<files, launch, request, status, manifest, pc, req, recs, making, refused,
                    disturbances>>
    BY DEF CleanupStep, ApplyCleanup, CandidateChanged, TouchCandidate, MoveCandidate,
           InspectCleaned, MoveBack, EndRollback, PurgeQuarantine, CleanupDies, diskVars, runVars
  <1>2. RunTypeOK'
    <2>1. calm' \in BOOLEAN
      <3>1. calm' \in {calm, FALSE}
        BY DEF CleanupStep, ApplyCleanup, CandidateChanged, TouchCandidate, MoveCandidate,
               InspectCleaned, MoveBack, EndRollback, PurgeQuarantine, CleanupDies, runVars
      <3> QED
        BY <1>0, <3>1, Zenon DEF TypeOK, RunTypeOK
    <2>2. faults' \in 0..MaxFaults
      BY <1>0
      DEF CleanupStep, ApplyCleanup, CandidateChanged, TouchCandidate, MoveCandidate,
          InspectCleaned, MoveBack, EndRollback, PurgeQuarantine, CleanupDies, runVars, Fault,
          TypeOK, RunTypeOK
    <2> QED
      BY <1>0, <1>1, <2>1, <2>2 DEF RunTypeOK, TypeOK
  <1>3. RunShape'
    BY <1>0, <1>1 DEF RunShape, IsCurrent, ToDo, Here
  <1>4. CleanupTypeOK'
    <2>1. lost' \in BOOLEAN
      <3>1. lost' \in {lost, TRUE, FALSE}
        BY DEF CleanupStep, ApplyCleanup, CandidateChanged, TouchCandidate, MoveCandidate,
               InspectCleaned, MoveBack, EndRollback, PurgeQuarantine, CleanupDies, EndCleanup,
               cleanupVars
      <3> QED
        BY <1>0, <3>1, Zenon DEF TypeOK, CleanupTypeOK
    <2>2. /\ cpc' \in {"idle", "moving", "rollback", "purging"}
          /\ pending' \subseteq Directory /\ moved' \subseteq Directory
          /\ quarantine' \subseteq Directory /\ abandoned' \subseteq Directory
          /\ cleanups' \in 0..MaxCleanups
      BY <1>0
      DEF CleanupStep, ApplyCleanup, CandidateChanged, TouchCandidate, MoveCandidate,
          InspectCleaned, MoveBack, EndRollback, PurgeQuarantine, CleanupDies, EndCleanup,
          cleanupVars, Candidates, TypeOK, CleanupTypeOK, WorkspaceTypeOK
    <2> QED
      BY <2>1, <2>2 DEF CleanupTypeOK
  <1>5. /\ stages' \subseteq Directory /\ \A e \in stages' \cup moved' : Shaped(e)
        /\ \A x, y \in stages' : x.stage = y.stage /\ x.key = y.key => x = y
    <2> USE <1>0 DEF TypeOK, WorkspaceTypeOK, CleanupTypeOK, AllShaped
    <2>1. CASE \E d \in pending : TouchCandidate(d)
      BY <2>1, DamageKeepsPlaces DEF TouchCandidate, cleanupVars
    <2>2. CASE \E d \in pending : MoveCandidate(d)
      BY <2>2 DEF MoveCandidate
    <2>3. CASE \E d \in moved : MoveBack(d)
      <3>1. PICK d \in moved : MoveBack(d)
        BY <2>3
      <3>2. CASE UNCHANGED stages
        BY <3>1, <3>2 DEF MoveBack
      <3>3. CASE stages' = stages \cup {d} /\ ~ Occupied(stages, d.stage, d.key)
        BY <3>1, <3>3 DEF MoveBack, Occupied, At
      <3> QED
        BY <3>1, <3>2, <3>3 DEF MoveBack
    <2>4. CASE ApplyCleanup \/ CandidateChanged \/ InspectCleaned \/ EndRollback \/ PurgeQuarantine
               \/ CleanupDies
      BY <2>4 DEF ApplyCleanup, CandidateChanged, InspectCleaned, EndRollback, PurgeQuarantine,
                  CleanupDies, EndCleanup, diskVars
    <2> QED
      BY <2>1, <2>2, <2>3, <2>4 DEF CleanupStep
  <1>6. WorkspaceTypeOK'
    BY <1>0, <1>1, <1>5 DEF TypeOK, WorkspaceTypeOK
  <1>7. AllShaped'
    BY <1>0, <1>1, <1>5 DEF AllShaped, Shaped
  <1> QED
    BY <1>2, <1>3, <1>4, <1>6, <1>7 DEF WorkflowInv, TypeOK

\* Nothing happens.
LEMMA WorkflowStutters == WorkflowInv /\ UNCHANGED vars => WorkflowInv'
  <1> SUFFICES ASSUME WorkflowInv, UNCHANGED vars PROVE WorkflowInv'
    OBVIOUS
  <1> USE DEF vars, diskVars, runVars, cleanupVars, WorkflowInv
  <1>1. RunTypeOK' /\ CleanupTypeOK' /\ WorkspaceTypeOK'
    BY DEF TypeOK, RunTypeOK, CleanupTypeOK, WorkspaceTypeOK
  <1>2. RunShape' /\ AllShaped'
    BY DEF RunShape, IsCurrent, ToDo, Here, AllShaped, Shaped
  <1> QED
    BY <1>1, <1>2 DEF TypeOK

\* Every step of a run, of a cleanup, and of whoever edits the workspace.
LEMMA WorkflowStepKeeps == WorkflowInv /\ [Next]_vars => WorkflowInv'
  BY PlainRunStepKeeps, StageStepKeeps, DisturbanceKeeps, CleanupStepKeeps, WorkflowStutters
  DEF Next, RunStep, Tidy

\* The state of a workflow's run, of its workspace and of its cleanup keeps its types;
\* no two stage directories have one name (run_local_workflow, apply_workflow_cleanup).
THEOREM TypeCorrect == Spec => []TypeOK
  <1>1. WorkflowInv => TypeOK
    BY DEF WorkflowInv
  <1> QED
    BY <1>1, WorkflowInitial, WorkflowStepKeeps, PTL DEF Spec

-----------------------------------------------------------------------------
(* What verifies is current *)

\* A stage that reopens has a whole directory with the manifest of its record, made
\* of its parent's manifest and of the settings and files that the verifier compares.
LEMMA ReopenedIsCurrent ==
    ASSUME WorkflowInv, NEW l \in Launches, NEW r, NEW s \in Plan[l], r[s].stage = s,
           RecordReopens(l, r, s)
    PROVE  /\ Present(stages, r[s])
           /\ s = "source" => \A i \in Ingredients \ {"aoi", "dem"} : r[s].made[i] = 0
           /\ s = "source" /\ ~ IsGlobal(l) => r[s].made["dem"] = files["dem"]
           /\ s = "acquire" => \A i \in {"overlay", "slicer", "terrain", "tiles"} : r[s].made[i] = 0
           /\ s = "build" => \A i \in {"overlay", "slicer", "tiles"} : r[s].made[i] = 0
           /\ s = "build" => r[s].made["terrain"] = Settings[l].terrain
           /\ s = "build" /\ ~ IsGlobal(l) => r[s].made["dem"] = files["dem"]
           /\ s \notin {"acquire", "source", "build"} =>
                 \A i \in Ingredients \ Own[s] : r[s].made[i] = Up(r, s)[i]
           /\ s = "overlay" => r[s].made["overlay"] = files["overlay"]
           /\ s = "layout" => r[s].made["tiles"] = Settings[l].tiles
           /\ s \in {"slice", "project"} => r[s].made["slicer"] = request.slicer
  <1>1. PICK d \in stages :
           /\ RecordOf(d) = r[s]
           /\ CASE s = "slice"   -> SliceArtifactsOpen(d, Up(r, s), request.slicer)
                [] s = "project" -> ProjectArtifactsOpen(d, Up(r, s), request.slicer)
                [] OTHER -> StageOpens(s, d, l, r, stages, files,
                                       SourceDem(l, r, files["dem"]))
    BY DEF RecordReopens
  <1>2. d.stage = r[s].stage /\ d.made = r[s].made /\ d.key = r[s].key /\ Shaped(d)
    BY <1>1 DEF RecordOf, WorkflowInv, AllShaped
  <1>3. s \in Stages
    BY PlanOfLaunch
  <1>4. SourceDem(l, r, files["dem"]) = files["dem"] \/ IsGlobal(l)
    BY DEF SourceDem
  <1>5. CASE s \in {"slice", "project"}
    <2>1. d.intact /\ Follows(d, Up(r, s)) /\ d.made["slicer"] = request.slicer
      BY <1>1, <1>5 DEF SliceArtifactsOpen, ProjectArtifactsOpen, SlicerBinding
    <2> QED
      BY <1>1, <1>2, <1>5, <2>1 DEF Present, Follows
  <1>6. CASE s \notin {"slice", "project"}
    <2>1. StageOpens(s, d, l, r, stages, files, SourceDem(l, r, files["dem"]))
      BY <1>1, <1>6
    <2>2. CASE s = "acquire"
      BY <1>1, <1>2, <2>1, <2>2 DEF StageOpens, AcquisitionOpens, Present, Shaped
    <2>3. CASE s = "source"
      <3>1. /\ d.intact /\ d.made = d.key /\ d.made["dem"] = SourceDem(l, r, files["dem"])
            /\ d.key = Bind(s, Up(r, s), Recomputed(l, r))
        BY <1>1, <1>2, <2>1, <2>3 DEF StageOpens, SourceOpens, RecordReopens
      <3>2. Own["source"] = {"aoi", "dem"} /\ Parent["source"] = "none"
        BY DEF Own, Parent
      <3> QED
        BY <1>1, <1>2, <1>4, <2>3, <3>1, <3>2 DEF Bind, Up, Nothing, Present
    <2>4. CASE s = "build"
      BY <1>1, <1>2, <1>4, <2>1, <2>4 DEF StageOpens, BuildOpens, Present, Shaped
    <2>5. CASE s \in {"overlay", "layout", "extract", "mesh", "connect"}
      <3>1. /\ d.intact /\ Follows(d, Up(r, s))
            /\ s = "overlay" => d.made["overlay"] = files["overlay"]
            /\ s = "layout" => d.made["tiles"] = Settings[l].tiles
        BY <2>1, <2>5 DEF StageOpens, OverlayOpens, LayoutOpens, TileSetOpens, TileMeshSetOpens,
                          PrintSetOpens
      <3> QED
        BY <1>1, <1>2, <2>5, <3>1 DEF Present, Follows
    <2> QED
      BY <1>3, <1>6, <2>2, <2>3, <2>4, <2>5 DEF Stages
  <1> QED
    BY <1>5, <1>6

\* What the whole workflow promises follows stage by stage from what its verifiers
\* compare.
LEMMA VerifiedIsCurrent == WorkflowInv => VerifiedMeansCurrent
  <1> SUFFICES ASSUME WorkflowInv, Verifies, NEW s \in Plan[launch]
               PROVE  LET made == manifest.stages[s].made IN
                      /\ made["dem"] # 0 /\ ~ IsGlobal(launch) => made["dem"] = files["dem"]
                      /\ made["overlay"] \in {0, files["overlay"]}
                      /\ made["slicer"] \in {0, request.slicer}
                      /\ made["terrain"] \in {0, Settings[launch].terrain}
                      /\ made["tiles"] \in {0, Settings[launch].tiles}
                      /\ Present(stages, manifest.stages[s])
    BY DEF VerifiedMeansCurrent
  <1> DEFINE r == manifest.stages
             l == launch
             Current(t) == /\ ~ IsGlobal(l) => r[t].made["dem"] = files["dem"]
                           /\ r[t].made["overlay"] \in {0, files["overlay"]}
                           /\ r[t].made["slicer"] \in {0, request.slicer}
                           /\ r[t].made["terrain"] \in {0, Settings[l].terrain}
                           /\ r[t].made["tiles"] \in {0, Settings[l].tiles}
  <1>1. l \in Launches
    BY DEF WorkflowInv, TypeOK, WorkspaceTypeOK, Verifies
  <1>2. /\ DOMAIN r = Plan[l] /\ Plan[l] \subseteq Stages
        /\ \A t \in Plan[l] : r[t].stage = t /\ RecordReopens(l, r, t)
    BY <1>1, PlanOfLaunch DEF WorkflowInv, TypeOK, WorkspaceTypeOK, Verifies
  <1>3. \A t \in Plan[l] : Present(stages, r[t])
    BY <1>1, <1>2, ReopenedIsCurrent
  <1>4. {"source", "build", "layout", "extract", "mesh", "connect"} \subseteq Plan[l]
        /\ ("project" \in Plan[l] => "slice" \in Plan[l])
    BY <1>1, PlanOfLaunch
  <1> HIDE DEF r, l
  <1>6. Current("source")
    BY <1>1, <1>2, <1>4, ReopenedIsCurrent DEF Ingredients, Files
  <1>7. Current("build")
    BY <1>1, <1>2, <1>4, ReopenedIsCurrent
  \* Each later stage takes what it does not read itself from its parent.
  <1>8. ASSUME NEW t \in Plan[l], NEW up \in Plan[l], Parent[t] = up, Current(up),
               t \notin {"acquire", "source", "build"}
        PROVE  Current(t)
    <2>1. \A i \in Ingredients \ Own[t] : r[t].made[i] = r[up].made[i]
      <3>1. Up(r, t) = r[up].made
        BY <1>2, <1>8, PlanTables DEF Up, Stages
      <3> QED
        BY <1>1, <1>2, <1>8, <3>1, ReopenedIsCurrent
    <2>2. /\ t = "overlay" => r[t].made["overlay"] = files["overlay"]
          /\ t = "layout" => r[t].made["tiles"] = Settings[l].tiles
          /\ t \in {"slice", "project"} => r[t].made["slicer"] = request.slicer
      BY <1>1, <1>2, <1>8, ReopenedIsCurrent
    <2>3. /\ "dem" \notin Own[t] /\ "terrain" \notin Own[t]
          /\ "overlay" \in Own[t] => t = "overlay"
          /\ "tiles" \in Own[t] => t = "layout"
          /\ "slicer" \in Own[t] => t \in {"slice", "project"}
      BY <1>2, <1>8 DEF Own, Stages
    <2> QED
      BY <1>8, <2>1, <2>2, <2>3 DEF Ingredients, Files
  <1>9. /\ Parent["overlay"] = "build" /\ Parent["layout"] = "build"
        /\ Parent["extract"] = "layout" /\ Parent["mesh"] = "extract"
        /\ Parent["connect"] = "mesh" /\ Parent["slice"] = "connect"
        /\ Parent["project"] = "slice"
    BY DEF Parent
  <1>10. "overlay" \in Plan[l] => Current("overlay")
    BY <1>4, <1>7, <1>8, <1>9
  <1>11. Current("layout")
    BY <1>4, <1>7, <1>8, <1>9
  <1>12. Current("extract")
    BY <1>4, <1>8, <1>9, <1>11
  <1>13. Current("mesh")
    BY <1>4, <1>8, <1>9, <1>12
  <1>14. Current("connect")
    BY <1>4, <1>8, <1>9, <1>13
  <1>15. "slice" \in Plan[l] => Current("slice")
    BY <1>4, <1>8, <1>9, <1>14
  <1>16. "project" \in Plan[l] => Current("project")
    BY <1>4, <1>8, <1>9, <1>15
  <1>17. "acquire" \in Plan[l] => Current("acquire")
    <2> SUFFICES ASSUME "acquire" \in Plan[l] PROVE Current("acquire")
      OBVIOUS
    <2>1. IsGlobal(l)
      BY <1>1, PlanOfLaunch
    <2>2. \A i \in {"overlay", "slicer", "terrain", "tiles"} : r["acquire"].made[i] = 0
      BY <1>1, <1>2, ReopenedIsCurrent
    <2> QED
      BY <2>1, <2>2
  <1>18. \A t \in Plan[l] : Current(t)
    BY <1>2, <1>6, <1>7, <1>10, <1>11, <1>12, <1>13, <1>14, <1>15, <1>16, <1>17 DEF Stages
  <1> QED
    BY <1>3, <1>18 DEF r, l

\* Whatever is edited, damaged, purged or interrupted: when the verification of a
\* workspace accepts, every stage of its manifest is there, whole, and was made of
\* the files and the settings as they are now, with the slicer the request names
\* (verify_completed_workflow and the verifiers of the stages).
THEOREM VerifiedMeansCurrentHolds == Spec => []VerifiedMeansCurrent
  BY WorkflowInitial, WorkflowStepKeeps, VerifiedIsCurrent, PTL DEF Spec

-----------------------------------------------------------------------------
(* The purge spares what the manifest references *)

Kept(dirs, rec) == \E e \in dirs : RecordOf(e) = rec

\* What a cleanup has in its quarantine it has registered as moved, unless it gave
\* one up; what it inspected holds every record of the manifest, and every record
\* of a run that has begun since.
PurgeSafe ==
    /\ cpc = "idle" => moved = {} /\ ~ lost
    /\ cpc \in {"moving", "rollback"} /\ ~ lost => quarantine \subseteq moved
    /\ cpc = "purging" =>
          /\ \A s \in DOMAIN manifest.stages : Kept(stages, manifest.stages[s])
          /\ \A s \in DOMAIN recs : Kept(stages, recs[s])

\* A run records only what it finds, or has put, below stages/.
LEMMA RunKeepsPurgeSafe ==
    ASSUME WorkflowInv, PurgeSafe, RunStep, UNCHANGED cleanupVars
    PROVE  PurgeSafe'
  <1>0. TypeOK /\ RunShape /\ UNCHANGED <<cpc, moved, lost, quarantine>>
    BY DEF WorkflowInv, cleanupVars
  <1> SUFFICES ASSUME cpc = "purging"
               PROVE  /\ \A s \in DOMAIN manifest'.stages : Kept(stages', manifest'.stages[s])
                      /\ \A s \in DOMAIN recs' : Kept(stages', recs'[s])
    BY <1>0 DEF PurgeSafe, Kept
  <1>1. /\ \A s \in DOMAIN manifest.stages : Kept(stages, manifest.stages[s])
        /\ \A s \in DOMAIN recs : Kept(stages, recs[s])
    BY DEF PurgeSafe
  <1> DEFINE Grows == \A e \in stages : \E x \in stages' : RecordOf(x) = RecordOf(e)
  <1>2. ASSUME Grows, NEW rec PROVE Kept(stages, rec) => Kept(stages', rec)
    BY <1>2 DEF Kept, RecordOf
  <1> HIDE DEF Grows
  <1>3. ASSUME Grows, UNCHANGED manifest, UNCHANGED recs \/ recs' = <<>>
        PROVE  /\ \A s \in DOMAIN manifest'.stages : Kept(stages', manifest'.stages[s])
               /\ \A s \in DOMAIN recs' : Kept(stages', recs'[s])
    BY <1>1, <1>2, <1>3
  <1>4. ASSUME Grows, UNCHANGED manifest, NEW rec, RecordStage(rec), Kept(stages', rec)
        PROVE  /\ \A s \in DOMAIN manifest'.stages : Kept(stages', manifest'.stages[s])
               /\ \A s \in DOMAIN recs' : Kept(stages', recs'[s])
    <2>1. \A s \in DOMAIN recs' : recs'[s] = rec \/ (s \in DOMAIN recs /\ recs'[s] = recs[s])
      BY <1>4 DEF RecordStage
    <2> QED
      BY <1>1, <1>2, <1>4, <2>1
  <1>5. UNCHANGED stages => Grows
    BY DEF Grows
  <1>6. CASE \/ \E l \in Launches : SaveLaunch(l)
             \/ RejectSetup \/ BindRequest \/ Announce \/ FailStage \/ Complete
             \/ PersistFailure \/ Crash \/ \E s \in Stages : NameStage(s) \/ MakeStage(s)
             \/ \E f \in Editable : EditFile(f) \/ PutBack(f)
    <2>1. UNCHANGED <<stages, manifest>> /\ (UNCHANGED recs \/ recs' = <<>>)
      BY <1>6 DEF SaveLaunch, RejectSetup, BindRequest, Announce, FailStage, Complete,
                  PersistFailure, Crash, NameStage, MakeStage, EditFile, PutBack, EndRun,
                  FailRun, diskVars
    <2> QED
      BY <1>3, <1>5, <2>1
  <1>7. CASE \E s \in Stages : ReuseStage(s)
    <2>1. PICK s \in Stages : ReuseStage(s)
      BY <1>7
    <2>2. PICK d \in stages : RecordStage(RecordOf(d)) \/ FailRun
      BY <2>1 DEF ReuseStage, At
    <2>3. UNCHANGED <<stages, manifest>>
      BY <2>1 DEF ReuseStage, diskVars
    <2>4. CASE FailRun
      BY <1>3, <1>5, <2>3, <2>4 DEF FailRun
    <2>5. CASE RecordStage(RecordOf(d))
      <3> DEFINE rec == RecordOf(d)
      <3>1. Kept(stages', rec) /\ RecordStage(rec)
        BY <2>2, <2>3, <2>5 DEF Kept, RecordOf
      <3> HIDE DEF rec
      <3> QED
        BY <1>4, <1>5, <2>3, <3>1
    <2> QED
      BY <2>2, <2>4, <2>5
  <1>8. CASE PublishStage
    <2>1. UNCHANGED manifest /\ Grows
      BY <1>8 DEF PublishStage, Grows
    <2>2. CASE FailRun \/ UNCHANGED recs
      BY <1>3, <2>1, <2>2 DEF FailRun
    <2>3. CASE RecordStage(making) /\ ~ FailRun
      <3> DEFINE d == [stage |-> making.stage, key |-> making.key, made |-> making.made,
                       intact |-> TRUE]
      <3>1. d \in stages' /\ making \in Record
        BY <1>0, <1>8, <2>3 DEF PublishStage, RunShape
      <3>2. RecordOf(d) = making
        BY <3>1 DEF RecordOf, Record
      <3>3. Kept(stages', making)
        BY <3>1, <3>2 DEF Kept, RecordOf
      <3> QED
        BY <1>4, <2>1, <2>3, <3>3
    <2> QED
      BY <1>8, <2>2, <2>3 DEF PublishStage
  <1>9. CASE ReopenStage
    <2>1. UNCHANGED <<stages, manifest>>
      BY <1>9 DEF ReopenStage, diskVars
    <2>2. CASE FailRun
      BY <1>3, <1>5, <2>1, <2>2 DEF FailRun
    <2>3. CASE RecordStage(making) /\ \E d \in stages : RecordOf(d) = making
      <3>1. Kept(stages', making)
        BY <2>1, <2>3 DEF Kept, RecordOf
      <3> QED
        BY <1>4, <1>5, <2>1, <2>3, <3>1
    <2> QED
      BY <1>9, <2>2, <2>3 DEF ReopenStage, At
  <1>10. CASE WriteManifest
    <2>1. UNCHANGED <<stages, recs>> /\ manifest'.stages = recs
      BY <1>10 DEF WriteManifest
    <2> QED
      BY <1>1, <1>2, <1>5, <2>1
  <1>11. CASE \E d \in stages : DamageStage(d)
    <2>1. UNCHANGED <<manifest, recs>> /\ Grows
      BY <1>11, DamageKeepsPlaces DEF DamageStage, Grows
    <2> QED
      BY <1>3, <2>1
  <1> QED
    BY <1>6, <1>7, <1>8, <1>9, <1>10, <1>11 DEF RunStep

\* A cleanup purges after it found the workspace complete, when no run has records.
LEMMA CleanupKeepsPurgeSafe ==
    ASSUME WorkflowInv, PurgeSafe, CleanupStep
    PROVE  PurgeSafe'
  <1>1. UNCHANGED <<manifest, recs>>
    BY DEF CleanupStep, ApplyCleanup, CandidateChanged, TouchCandidate, MoveCandidate,
           InspectCleaned, MoveBack, EndRollback, PurgeQuarantine, CleanupDies, diskVars, runVars
  <1>2. CASE InspectCleaned
    <2>1. UNCHANGED <<stages, moved, lost, quarantine>>
      BY <1>2 DEF InspectCleaned, diskVars
    <2>2. CASE Inspects
      <3>1. recs = <<>>
        BY <2>2 DEF Inspects, WorkflowInv, RunShape
      <3>2. \A s \in DOMAIN manifest.stages : Kept(stages, manifest.stages[s])
        BY <2>2 DEF Inspects, Kept
      <3> QED
        BY <1>1, <1>2, <2>1, <2>2, <3>1, <3>2 DEF InspectCleaned, PurgeSafe, Kept
    <2>3. CASE ~ Inspects
      BY <1>2, <2>1, <2>3 DEF InspectCleaned, PurgeSafe
    <2> QED
      BY <2>2, <2>3
  <1>3. CASE ApplyCleanup
    BY <1>3 DEF ApplyCleanup, PurgeSafe
  <1>4. CASE CandidateChanged
    BY <1>4 DEF CandidateChanged, PurgeSafe
  <1>5. CASE \E d \in pending : TouchCandidate(d)
    BY <1>5 DEF TouchCandidate, cleanupVars, PurgeSafe
  <1>6. CASE \E d \in pending : MoveCandidate(d)
    BY <1>6 DEF MoveCandidate, PurgeSafe
  <1>7. CASE \E d \in moved : MoveBack(d)
    BY <1>7 DEF MoveBack, PurgeSafe
  <1>8. CASE EndRollback \/ PurgeQuarantine \/ CleanupDies
    BY <1>8 DEF EndRollback, PurgeQuarantine, CleanupDies, EndCleanup, PurgeSafe
  <1> QED
    BY <1>2, <1>3, <1>4, <1>5, <1>6, <1>7, <1>8 DEF CleanupStep

\* Every step keeps what makes a purge safe.
LEMMA PurgeSafeKept ==
    ASSUME WorkflowInv, PurgeSafe, [Next]_vars
    PROVE  PurgeSafe'
  <1>1. CASE UNCHANGED vars
    BY <1>1 DEF vars, diskVars, runVars, cleanupVars, PurgeSafe, Kept
  <1>2. CASE Tidy
    BY <1>2 DEF Tidy, RemoveRefused, cleanupVars, PurgeSafe
  <1> QED
    BY <1>1, <1>2, RunKeepsPurgeSafe, CleanupKeepsPurgeSafe DEF Next

SparesManifest ==
    \A d \in quarantine :
        \/ d \in quarantine' \cup abandoned'
        \/ \E e \in stages' : RecordOf(e) = RecordOf(d)
        \/ RecordOf(d) \notin Referenced

\* A directory leaves the quarantine for its place, or nothing references it.
LEMMA PurgeSafeSpares ==
    ASSUME PurgeSafe, [Next]_vars
    PROVE  SparesManifest
  <1>1. CASE quarantine \subseteq quarantine' \cup abandoned'
    BY <1>1 DEF SparesManifest
  <1>2. CASE \E d \in moved : MoveBack(d)
    BY <1>2 DEF MoveBack, SparesManifest
  <1>3. CASE EndRollback
    BY <1>3 DEF EndRollback, PurgeSafe, SparesManifest
  <1>4. CASE PurgeQuarantine
    <2>1. UNCHANGED stages /\ \A s \in DOMAIN manifest.stages : Kept(stages, manifest.stages[s])
      BY <1>4 DEF PurgeQuarantine, PurgeSafe, diskVars
    <2> QED
      BY <2>1 DEF SparesManifest, Referenced, Kept
  <1> QED
    BY <1>1, <1>2, <1>3, <1>4
    DEF Next, Tidy, CleanupStep, ApplyCleanup, CandidateChanged, TouchCandidate, MoveCandidate,
        InspectCleaned, CleanupDies, vars, cleanupVars

\* Whatever runs while a cleanup is under way: a directory that a purge erases is
\* not one that the manifest references, unless one of that record stands in its
\* place (apply_workflow_cleanup).
THEOREM PurgeSparesManifestHolds == Spec => PurgeSparesManifest
  <1>1. Init => PurgeSafe
    BY DEF Init, CleanupInit, PurgeSafe
  <1>2. WorkflowInv /\ PurgeSafe /\ [Next]_vars => PurgeSafe'
    BY PurgeSafeKept
  <1>3. PurgeSafe /\ [Next]_vars =>
           [\A d \in quarantine :
               \/ d \in quarantine' \cup abandoned'
               \/ \E e \in stages' : RecordOf(e) = RecordOf(d)
               \/ RecordOf(d) \notin Referenced]_vars
    BY PurgeSafeSpares DEF SparesManifest
  <1> QED
    BY <1>1, <1>2, <1>3, WorkflowInitial, WorkflowStepKeeps, PTL DEF Spec, PurgeSparesManifest

-----------------------------------------------------------------------------
(* A run that is left alone verifies *)

\* The request says what the files are, and the slicer is there if it is used.
RequestIsCurrent ==
    /\ launch \in Launches
    /\ request = req /\ req = RequestPayload(launch, files, files["slicer"])
    /\ Settings[launch].sliced => files["slicer"] # 0

\* While nothing changes, the records of a run reopen as strictly as the finished
\* workflow will have to, and what it is making is what they ask for.
Undisturbed ==
    /\ pc = "idle" => Inspects
    /\ pc \in Staging \cup {"announce"} => RequestIsCurrent
    /\ pc \in Staging => \A s \in DOMAIN recs : RecordReopens(launch, recs, s)
    /\ pc \in {"make", "publish", "reopen"} => making.key = RunKey(making.stage)
    /\ pc \in {"publish", "reopen"} =>
          /\ making.stage = "source" => making.made = making.key
          /\ making.stage = "layout" => making.made = From("layout")
    /\ pc = "complete" => manifest = [of |-> req, stages |-> recs]

CalmInv == calm => Undisturbed

\* A record added for the stage at hand is not read by the stages before it.
LEMMA LaterRecordIsNotRead ==
    ASSUME TypeOK, RunShape, pc \in Staging, NEW s, IsCurrent(s), NEW q,
           DOMAIN q = DOMAIN recs \cup {s}, \A t \in DOMAIN recs : q[t] = recs[t],
           NEW t \in DOMAIN recs \cup {s}
    PROVE  /\ t \in Stages /\ t \in Plan[Here] /\ Here \in Launches
           /\ Up(q, t) = Up(recs, t)
           /\ \A a \in Ancestors[t] \cap Plan[Here] : q[a] = recs[a]
           /\ t # "acquire" =>
                \A dem : SourceDem(Here, q, dem) = SourceDem(Here, recs, dem)
  <1>1. /\ s \in Stages /\ s \in Plan[Here] /\ Here \in Launches
        /\ Parent[s] # "none" => Parent[s] \in DOMAIN recs
        /\ Ancestors[s] \cap Plan[Here] \subseteq DOMAIN recs
        /\ "acquire" \in Plan[Here] /\ s # "acquire" => "acquire" \in DOMAIN recs
        /\ \A u \in DOMAIN recs : Order[u] < Order[s]
    BY ParentIsRecorded
  <1>2. t \in Plan[Here] /\ Plan[Here] \subseteq Stages
    BY <1>1, PlanOfLaunch DEF RunShape
  <1>3. \A u \in Plan[Here] : Order[u] < Order[t] => u \in DOMAIN recs
    BY <1>1, <1>2, ParentIsRecorded DEF RunShape
  <1>4. Parent[t] # "none" => Parent[t] \in DOMAIN recs
    BY <1>1, <1>2, <1>3, PlanTables, PlanOfLaunch
  <1>5. Ancestors[t] \cap Plan[Here] \subseteq DOMAIN recs
    BY <1>1, <1>2, <1>3, PlanTables
  <1>6. t # "acquire" /\ IsGlobal(Here) => "acquire" \in DOMAIN recs
    BY <1>1, <1>2, <1>3, PlanTables, PlanOfLaunch
  <1> QED
    BY <1>1, <1>2, <1>4, <1>5, <1>6 DEF Up, SourceDem

\* The identity of a download depends on its region only.
LEMMA AcquireKey ==
    ASSUME NEW l \in Launches, NEW p, NEW q
    PROVE  Bind("acquire", Nothing, Recomputed(l, p)) = Bind("acquire", Nothing, Recomputed(l, q))
  BY DEF Bind, Own, Recomputed, Known, Ingredients, Files

\* A record that reopens still does when the stage at hand is recorded.
LEMMA EarlierRecordsReopen ==
    ASSUME TypeOK, RunShape, pc \in Staging, NEW s, IsCurrent(s), launch = Here,
           DOMAIN recs' = DOMAIN recs \cup {s}, \A t \in DOMAIN recs : recs'[t] = recs[t],
           stages \subseteq stages', UNCHANGED <<files, launch, request>>,
           NEW t \in DOMAIN recs, RecordReopens(launch, recs, t)
    PROVE  RecordReopens(launch, recs, t)'
  <1> DEFINE q == recs'
             l == launch
  <1>1. /\ t \in Stages /\ l \in Launches /\ q[t] = recs[t] /\ Up(q, t) = Up(recs, t)
        /\ \A a \in Ancestors[t] \cap Plan[l] : q[a] = recs[a]
        /\ t # "acquire" => \A dem : SourceDem(l, q, dem) = SourceDem(l, recs, dem)
    <2>1. DOMAIN q = DOMAIN recs \cup {s} /\ \A u \in DOMAIN recs : q[u] = recs[u]
      OBVIOUS
    <2>2. t \in DOMAIN recs \cup {s} /\ l = Here
      OBVIOUS
    <2> HIDE DEF q, l
    <2> QED
      BY <2>1, <2>2, LaterRecordIsNotRead
  <1>2. PICK d \in stages :
           /\ RecordOf(d) = recs[t]
           /\ CASE t = "slice"   -> SliceArtifactsOpen(d, Up(recs, t), request.slicer)
                [] t = "project" -> ProjectArtifactsOpen(d, Up(recs, t), request.slicer)
                [] OTHER -> StageOpens(t, d, l, recs, stages, files,
                                       SourceDem(l, recs, files["dem"]))
    BY DEF RecordReopens
  <1>3. recs[t].key = Bind(t, Up(recs, t), Recomputed(l, recs))
    BY DEF RecordReopens
  <1>4. q[t].key = Bind(t, Up(q, t), Recomputed(l, q))
    <2>1. CASE t = "acquire"
      <3>1. Up(recs, t) = Nothing
        BY <2>1 DEF Up, Parent
      <3> QED
        BY <1>1, <1>3, <2>1, <3>1, AcquireKey
    <2>2. CASE t # "acquire"
      BY <1>1, <1>3, <2>2 DEF Recomputed
    <2> QED
      BY <2>1, <2>2
  <1>5. t \notin {"slice", "project"} =>
          StageOpens(t, d, l, q, stages', files, SourceDem(l, q, files["dem"]))
    <2> SUFFICES ASSUME t \notin {"slice", "project"}
                 PROVE  StageOpens(t, d, l, q, stages', files, SourceDem(l, q, files["dem"]))
      OBVIOUS
    <2>1. StageOpens(t, d, l, recs, stages, files, SourceDem(l, recs, files["dem"]))
      BY <1>2
    <2>2. \A a \in Ancestors[t] \cap Plan[l] : Present(stages', q[a])
      BY <1>1, <2>1 DEF StageOpens, Present
    <2>3. CASE t = "acquire"
      BY <2>1, <2>2, <2>3 DEF StageOpens
    <2>4. CASE t # "acquire"
      BY <1>1, <2>1, <2>2, <2>4 DEF StageOpens, Stages
    <2> QED
      BY <2>3, <2>4
  <1>6. /\ t = "slice" => SliceArtifactsOpen(d, Up(q, t), request.slicer)
        /\ t = "project" => ProjectArtifactsOpen(d, Up(q, t), request.slicer)
    BY <1>1, <1>2
  <1>7. d \in stages' /\ RecordOf(d) = q[t]
    BY <1>1, <1>2
  <1>8. Recomputed(l, recs)' = Recomputed(l, q) /\ SourceDem(l, recs, files["dem"])' = SourceDem(l, q, files["dem"])
    BY DEF Recomputed, Known, SourceDem
  <1> QED
    BY <1>4, <1>5, <1>6, <1>7, <1>8 DEF RecordReopens

\* The identity a stage is looked up by is the one it is verified by.
LEMMA KeyIsReproduced ==
    ASSUME TypeOK, RunShape, pc \in Staging, RequestIsCurrent, NEW s, IsCurrent(s)
    PROVE  /\ Here = launch
           /\ RunKey(s) = Bind(s, Up(recs, s), Recomputed(launch, recs))
           /\ SourceDem(Here, recs, req.dem) = SourceDem(Here, recs, files["dem"])
           /\ s \in {"slice", "project"} => request.slicer = files["slicer"]
  <1>1. s \in Plan[Here] /\ Here = launch /\ launch \in Launches
    BY ParentIsRecorded DEF RequestIsCurrent, RequestPayload, Here
  <1>2. SourceDem(Here, recs, req.dem) = SourceDem(Here, recs, files["dem"])
    BY <1>1 DEF SourceDem, RequestIsCurrent, RequestPayload
  <1>3. s \in {"slice", "project"} => request.slicer = files["slicer"]
    BY <1>1, PlanOfLaunch DEF RequestIsCurrent, RequestPayload
  <1>4. RunKnown(s) = Recomputed(launch, recs)
    BY <1>1, <1>2, <1>3 DEF RunKnown, Recomputed, RequestIsCurrent
  <1> QED
    BY <1>1, <1>2, <1>3, <1>4 DEF RunKey

\* What the run accepts for the stage at hand the verifier of the workflow accepts.
LEMMA AcceptedRecordReopens ==
    ASSUME TypeOK, RunShape, pc \in Staging, RequestIsCurrent, NEW s, IsCurrent(s),
           DOMAIN recs' = DOMAIN recs \cup {s}, \A t \in DOMAIN recs : recs'[t] = recs[t],
           stages \subseteq stages', UNCHANGED <<files, launch, request>>,
           NEW d \in stages', RecordOf(d) = recs'[s], recs'[s].key = RunKey(s),
           StageOpens(s, d, Here, recs, stages', files, SourceDem(Here, recs, files["dem"]))
    PROVE  RecordReopens(launch, recs, s)'
  <1> DEFINE q == recs'
             l == launch
  <1>0. /\ Here = l /\ q[s].key = Bind(s, Up(recs, s), Recomputed(l, recs))
        /\ s \in {"slice", "project"} => request.slicer = files["slicer"]
    BY KeyIsReproduced
  <1>1. /\ s \in Stages /\ l \in Launches /\ Up(q, s) = Up(recs, s)
        /\ \A a \in Ancestors[s] \cap Plan[l] : q[a] = recs[a]
        /\ s # "acquire" => \A dem : SourceDem(l, q, dem) = SourceDem(l, recs, dem)
    <2>1. DOMAIN q = DOMAIN recs \cup {s} /\ \A u \in DOMAIN recs : q[u] = recs[u]
      OBVIOUS
    <2>2. s \in DOMAIN recs \cup {s} /\ Here = l
      BY <1>0
    <2> HIDE DEF q, l
    <2>3. ASSUME NEW t \in DOMAIN recs \cup {s}
          PROVE  /\ t \in Stages /\ Here \in Launches /\ Up(q, t) = Up(recs, t)
                 /\ \A a \in Ancestors[t] \cap Plan[Here] : q[a] = recs[a]
                 /\ t # "acquire" =>
                      \A dem : SourceDem(Here, q, dem) = SourceDem(Here, recs, dem)
      BY <2>1, LaterRecordIsNotRead
    <2> QED
      BY <2>2, <2>3
  <1>2. StageOpens(s, d, l, recs, stages', files, SourceDem(l, recs, files["dem"]))
    BY <1>0
  <1>3. q[s].key = Bind(s, Up(q, s), Recomputed(l, q))
    <2>1. CASE s = "acquire"
      <3>1. Up(recs, s) = Nothing
        BY <2>1 DEF Up, Parent
      <3> QED
        BY <1>0, <1>1, <2>1, <3>1, AcquireKey
    <2>2. CASE s # "acquire"
      BY <1>0, <1>1, <2>2 DEF Recomputed
    <2> QED
      BY <2>1, <2>2
  <1>4. s \notin {"slice", "project"} =>
          StageOpens(s, d, l, q, stages', files, SourceDem(l, q, files["dem"]))
    <2> SUFFICES ASSUME s \notin {"slice", "project"}
                 PROVE  StageOpens(s, d, l, q, stages', files, SourceDem(l, q, files["dem"]))
      OBVIOUS
    <2>2. \A a \in Ancestors[s] \cap Plan[l] : Present(stages', q[a])
      BY <1>1, <1>2 DEF StageOpens
    <2>3. CASE s = "acquire"
      BY <1>2, <2>2, <2>3 DEF StageOpens
    <2>4. CASE s # "acquire"
      BY <1>1, <1>2, <2>2, <2>4 DEF StageOpens, Stages
    <2> QED
      BY <2>3, <2>4
  <1>5. /\ s = "slice" => SliceArtifactsOpen(d, Up(q, s), request.slicer)
        /\ s = "project" => ProjectArtifactsOpen(d, Up(q, s), request.slicer)
    BY <1>0, <1>1, <1>2
    DEF StageOpens, SliceSetOpens, ProjectOpens, SliceArtifactsOpen, ProjectArtifactsOpen,
        SlicerBinding
  <1>6. Recomputed(l, recs)' = Recomputed(l, q)
        /\ SourceDem(l, recs, files["dem"])' = SourceDem(l, q, files["dem"])
    BY DEF Recomputed, Known, SourceDem
  <1> QED
    BY <1>3, <1>4, <1>5, <1>6 DEF RecordReopens

\* An output that is in its place and that no verifier has read yet opens, if it is a
\* source record or a layout: it says what its identity says.
LEMMA WrittenStageOpens ==
    ASSUME TypeOK, RunShape, pc = "publish", Undisturbed, making.stage \in {"source", "layout"},
           stages \subseteq stages', NEW d, d.stage = making.stage, d.key = making.key,
           d.made = making.made, d.intact = TRUE
    PROVE  StageOpens(making.stage, d, Here, recs, stages', files,
                      SourceDem(Here, recs, files["dem"]))
  <1> DEFINE s == making.stage
             l == Here
  <1>0. /\ IsCurrent(s) /\ RequestIsCurrent /\ pc \in Staging /\ making \in Record
        /\ making.key = RunKey(s) /\ (s = "source" => making.made = making.key)
        /\ (s = "layout" => making.made = From("layout"))
        /\ \A t \in DOMAIN recs : RecordReopens(launch, recs, t)
    BY DEF RunShape, Undisturbed, Staging
  <1>1. /\ Here = launch /\ launch \in Launches
        /\ SourceDem(l, recs, req.dem) = SourceDem(l, recs, files["dem"])
        /\ Ancestors[s] \cap Plan[l] \subseteq DOMAIN recs /\ Plan[l] \subseteq Stages
    BY <1>0, KeyIsReproduced, ParentIsRecorded, PlanOfLaunch
  <1>2. CASE s = "source"
    <2>1. \A a \in Ancestors[s] \cap Plan[l] : Present(stages', recs[a])
      <3> SUFFICES ASSUME NEW a \in Ancestors[s] \cap Plan[l] PROVE Present(stages', recs[a])
        OBVIOUS
      <3>1. a = "acquire" /\ a \in DOMAIN recs
        BY <1>1, <1>2 DEF Ancestors
      <3>2. \E e \in stages : RecordOf(e) = recs[a] /\ e.intact
        BY <1>0, <3>1 DEF RecordReopens, StageOpens, AcquisitionOpens
      <3> QED
        BY <3>2 DEF Present
    <2>2. Own["source"] = {"aoi", "dem"}
      BY DEF Own
    <2>3. d.made["dem"] = SourceDem(l, recs, files["dem"])
      BY <1>0, <1>1, <1>2, <2>2 DEF RunKey, Bind, RunKnown, Known, Ingredients, Files
    <2> QED
      BY <1>0, <1>2, <2>1, <2>3 DEF StageOpens, SourceOpens
  <1>3. CASE s = "layout"
    <2>1. Own["layout"] = {"tiles"} /\ Ancestors["layout"] = {}
      BY DEF Own, Ancestors
    <2>2. Follows(d, Up(recs, s)) /\ d.made["tiles"] = Settings[l].tiles
      BY <1>0, <1>3, <2>1 DEF Follows, From, Bind, FilesRead, Known, Ingredients, Files
    <2> QED
      BY <1>3, <2>1, <2>2 DEF StageOpens, LayoutOpens
  <1> QED
    BY <1>2, <1>3

\* A stage that is recorded reopens, and so do the earlier ones still.
LEMMA RecordedRunKeepsUndisturbed ==
    ASSUME TypeOK, RunShape, pc \in {"lookup", "publish", "reopen"}, Undisturbed,
           NEW rec \in Record, IsCurrent(rec.stage), RecordStage(rec), rec.key = RunKey(rec.stage),
           stages \subseteq stages', UNCHANGED <<files, launch, request, req, status>>,
           NEW d \in stages', RecordOf(d) = rec,
           StageOpens(rec.stage, d, Here, recs, stages', files,
                      SourceDem(Here, recs, files["dem"]))
    PROVE  Undisturbed'
  <1> DEFINE s == rec.stage
  <1>1. /\ DOMAIN recs' = DOMAIN recs \cup {s} /\ recs'[s] = rec
        /\ \A t \in DOMAIN recs : recs'[t] = recs[t]
        /\ pc' \in {"conclude", "lookup"}
    BY RecordKeeps
  <1>2. pc \in Staging /\ pc' \in Staging /\ pc' \notin {"idle", "make", "publish", "reopen", "complete"}
    BY <1>1 DEF Staging
  <1>3. RequestIsCurrent /\ RequestIsCurrent' /\ \A t \in DOMAIN recs : RecordReopens(launch, recs, t)
    BY <1>2 DEF Undisturbed, RequestIsCurrent
  <1>4. RecordReopens(launch, recs, s)'
    <2>1. recs'[s].key = RunKey(s) /\ RecordOf(d) = recs'[s]
      BY <1>1
    <2> HIDE DEF s
    <2>2. IsCurrent(s) /\ StageOpens(s, d, Here, recs, stages', files, SourceDem(Here, recs, files["dem"]))
      BY DEF s
    <2> QED
      BY <1>1, <1>2, <1>3, <2>1, <2>2, AcceptedRecordReopens
  <1>5. \A t \in DOMAIN recs : RecordReopens(launch, recs, t)'
    <2> SUFFICES ASSUME NEW t \in DOMAIN recs PROVE RecordReopens(launch, recs, t)'
      OBVIOUS
    <2>1. Here = launch /\ IsCurrent(s)
      BY <1>2, <1>3, KeyIsReproduced
    <2> HIDE DEF s
    <2> QED
      BY <1>1, <1>2, <1>3, <2>1, EarlierRecordsReopen
  <1>6. \A t \in DOMAIN recs' : RecordReopens(launch, recs, t)'
    BY <1>1, <1>4, <1>5
  <1> QED
    BY <1>2, <1>3, <1>6 DEF Undisturbed

\* A complete run under an undisturbed request leaves a workspace that reopens.
LEMMA CompletedRunInspects ==
    ASSUME TypeOK, RunShape, Undisturbed, Complete
    PROVE  Inspects'
  <1>1. /\ RequestIsCurrent /\ \A s \in DOMAIN recs : RecordReopens(launch, recs, s)
        /\ manifest = [of |-> req, stages |-> recs] /\ DOMAIN recs = Plan[Here]
        /\ Here = launch
    BY DEF Complete, Undisturbed, Staging, RunShape, RequestIsCurrent, RequestPayload, Here
  <1>2. /\ UNCHANGED <<files, launch, request, manifest, stages>>
        /\ status' = [of |-> req, state |-> "completed"]
    BY DEF Complete
  <1>3. \A s \in Plan[launch] : RecordReopens(launch, manifest.stages, s)'
    <2>1. \A s \in Plan[launch] : RecordReopens(launch, manifest.stages, s)
      BY <1>1
    <2> QED
      BY <1>2, <2>1 DEF RecordReopens, Recomputed
  <1>4. /\ launch # "none" /\ StatusCompleted' /\ SlicerPersists(launch)' /\ RequestReproduced(launch)'
    BY <1>1, <1>2
    DEF StatusCompleted, SlicerPersists, RequestReproduced, RequestIsCurrent, RequestPayload
  <1>5. Verifies'
    BY <1>1, <1>2, <1>3, <1>4 DEF Verifies
  <1>6. \A s \in DOMAIN recs : \E d \in stages : RecordOf(d) = recs[s]
    BY <1>1 DEF RecordReopens
  <1>7. "build" \in DOMAIN recs
    BY <1>1, PlanOfLaunch DEF RequestIsCurrent
  <1> QED
    BY <1>1, <1>2, <1>5, <1>6, <1>7 DEF Inspects

\* Nothing that was said changes while nothing it is said of does.
LEMMA UndisturbedStays ==
    ASSUME Undisturbed, UNCHANGED <<files, launch, request, status, manifest, stages, pc, req, recs, making>>
    PROVE  Undisturbed'
  <1>1. \A l, r, s : RecordReopens(l, r, s) <=> RecordReopens(l, r, s)'
    BY DEF RecordReopens, Recomputed
  <1>2. Inspects => Inspects'
    <2>1. Verifies => Verifies'
      BY <1>1 DEF Verifies, StatusCompleted, SlicerPersists, RequestReproduced, RecordReopens,
                  Recomputed
    <2> QED
      BY <2>1 DEF Inspects
  <1>3. RequestIsCurrent => RequestIsCurrent'
    BY DEF RequestIsCurrent
  <1>4. \A s \in DOMAIN recs : RecordReopens(launch, recs, s) => RecordReopens(launch, recs, s)'
    BY DEF RecordReopens, Recomputed
  <1>5. RunKey(making.stage)' = RunKey(making.stage) /\ From("layout")' = From("layout")
    BY DEF RunKey, RunKnown, From, FilesRead, Here
  <1> QED
    BY <1>2, <1>3, <1>4, <1>5 DEF Undisturbed

\* A run under a request that nobody disturbs keeps it reopening.
LEMMA RunKeepsCalm ==
    ASSUME WorkflowInv, CalmInv, RunStep
    PROVE  CalmInv'
  <1>0. TypeOK /\ RunShape
    BY DEF WorkflowInv
  <1>1. CASE calm' = FALSE
    BY <1>1 DEF CalmInv
  <1>2. CASE \E l \in Launches : SaveLaunch(l)
    BY <1>2 DEF SaveLaunch, CalmInv, Undisturbed, Staging
  <1> SUFFICES ASSUME Undisturbed, RunStep, calm' # FALSE, ~ \E l \in Launches : SaveLaunch(l)
               PROVE  Undisturbed'
    <2>1. ~ (\E l \in Launches : SaveLaunch(l)) /\ calm' => calm
      BY DEF RunStep, RejectSetup, BindRequest, Announce, ReuseStage, NameStage, MakeStage,
             FailStage, PublishStage, ReopenStage, WriteManifest, Complete, PersistFailure, Crash, EditFile,
             PutBack, DamageStage
    <2> QED
      BY <1>1, <1>2, <2>1 DEF CalmInv
  <1>3. ASSUME FailRun PROVE Undisturbed'
    BY <1>3 DEF FailRun, Undisturbed, Staging
  <1>4. CASE BindRequest
    <2>1. launch \in Launches
      BY <1>0, <1>4 DEF BindRequest, RunShape, TypeOK, WorkspaceTypeOK
    <2> QED
      BY <1>4, <2>1 DEF BindRequest, Undisturbed, RequestIsCurrent, Staging
  <1>5. CASE Announce
    <2>1. RequestIsCurrent'
      BY <1>5 DEF Announce, Undisturbed, RequestIsCurrent
    <2>2. recs' = <<>> /\ pc' = "lookup"
      BY <1>0, <1>5 DEF Announce, RunShape, Staging
    <2> QED
      BY <2>1, <2>2, EmptyRecs DEF Undisturbed
  <1>6. CASE \E s \in Stages : ReuseStage(s)
    <2>1. PICK s \in Stages : ReuseStage(s)
      BY <1>6
    <2>2. PICK d \in At(stages, s, RunKey(s)) : (Opens(s, d) /\ RecordStage(RecordOf(d))) \/ FailRun
      BY <2>1 DEF ReuseStage
    <2>3. UNCHANGED <<files, launch, request, req, status, stages>> /\ IsCurrent(s) /\ pc = "lookup"
      BY <2>1 DEF ReuseStage, diskVars
    <2>4. CASE Opens(s, d) /\ RecordStage(RecordOf(d))
      <3> DEFINE rec == RecordOf(d)
      <3>1. d \in stages /\ d.stage = s /\ d.key = RunKey(s)
        BY <2>2 DEF At
      <3>2. rec \in Record /\ rec.stage = s /\ rec.key = RunKey(s) /\ RecordOf(d) = rec
        BY <1>0, <3>1 DEF RecordOf, Record, Directory, TypeOK, WorkspaceTypeOK
      <3>3. RequestIsCurrent /\ pc \in Staging
        BY <2>3 DEF Undisturbed, Staging
      <3>4. StageOpens(s, d, Here, recs, stages', files, SourceDem(Here, recs, files["dem"]))
        BY <1>0, <2>3, <2>4, <3>3, KeyIsReproduced DEF Opens
      <3>5. RecordStage(rec)
        BY <2>4
      <3> HIDE DEF rec
      <3> QED
        BY <1>0, <2>3, <3>1, <3>2, <3>4, <3>5, RecordedRunKeepsUndisturbed
    <2> QED
      BY <1>3, <2>2, <2>4
  <1>7. CASE \E s \in Stages : NameStage(s) \/ MakeStage(s)
    <2>1. PICK s \in Stages : NameStage(s) \/ MakeStage(s)
      BY <1>7
    <2>2. UNCHANGED <<files, launch, request, req, status, stages, manifest>> /\ pc \in Staging
      BY <2>1 DEF NameStage, MakeStage, diskVars, Staging
    <2>3. CASE UNCHANGED recs
      <3>1. RequestIsCurrent'
        BY <2>2 DEF Undisturbed, RequestIsCurrent
      <3>2. \A t \in DOMAIN recs' : RecordReopens(launch, recs, t)'
        BY <2>2, <2>3 DEF Undisturbed, RecordReopens, Recomputed
      <3>3. \A t : RunKey(t)' = RunKey(t) /\ From(t)' = From(t)
        BY <2>2, <2>3 DEF RunKey, RunKnown, From, FilesRead, Here
      <3>4. CASE NameStage(s)
        <4>1. making'.stage = s /\ making'.key = RunKey(s) /\ pc' = "make"
          BY <3>4 DEF NameStage
        <4> QED
          BY <3>1, <3>2, <3>3, <4>1 DEF Undisturbed
      <3>5. CASE \E made \in Makes(s) :
                    making' = [making EXCEPT !.made = made] /\ pc' = "publish" /\ MakeStage(s)
        <4>1. PICK made \in Makes(s) :
                 making' = [making EXCEPT !.made = made] /\ pc' = "publish" /\ MakeStage(s)
          BY <3>5
        <4>2. making \in Record /\ making.stage = s /\ making.key = RunKey(s)
          BY <1>0, <4>1 DEF MakeStage, RunShape, Undisturbed
        <4>3. making'.stage = s /\ making'.key = RunKey(s) /\ making'.made = made
          BY <4>1, <4>2 DEF Record
        <4>4. (s = "source" => made = RunKey(s)) /\ (s = "layout" => made = From("layout"))
          BY <4>1 DEF Makes, SourceRecord, TileLayout
        <4> QED
          BY <3>1, <3>2, <3>3, <4>1, <4>3, <4>4 DEF Undisturbed
      <3> QED
        BY <1>3, <2>1, <3>4, <3>5 DEF MakeStage
    <2> QED
      BY <1>3, <2>1, <2>3 DEF NameStage, MakeStage
  <1>8. CASE PublishStage
    <2> DEFINE s == making.stage
               d == [stage |-> s, key |-> making.key, made |-> making.made, intact |-> TRUE]
    <2>1. /\ making \in Record /\ IsCurrent(s) /\ pc = "publish" /\ pc \in Staging
          /\ UNCHANGED <<files, launch, request, req, status, manifest>>
          /\ making.key = RunKey(s)
      BY <1>0, <1>8 DEF PublishStage, RunShape, Undisturbed, Staging
    <2>2. CASE /\ stages' = stages \cup {d} /\ s \in {"source", "layout"}
               /\ RecordStage(making)
      <3>1. RecordOf(d) = making /\ d \in stages' /\ stages \subseteq stages'
        BY <2>1, <2>2 DEF RecordOf, Record
      <3>2. /\ d.stage = making.stage /\ d.key = making.key /\ d.made = making.made
            /\ d.intact = TRUE
        OBVIOUS
      <3> HIDE DEF d
      <3>3. StageOpens(making.stage, d, Here, recs, stages', files,
                       SourceDem(Here, recs, files["dem"]))
        BY <1>0, <2>1, <2>2, <3>1, <3>2, WrittenStageOpens
      <3> QED
        BY <1>0, <2>1, <2>2, <3>1, <3>3, RecordedRunKeepsUndisturbed
    <2>3. CASE stages' = stages \cup {d} /\ pc' = "reopen" /\ UNCHANGED <<recs, making>>
      <3>1. RunKey(making.stage)' = RunKey(s) /\ From("layout")' = From("layout")
        BY <2>1, <2>3 DEF RunKey, RunKnown, From, FilesRead, Here
      <3>2. RequestIsCurrent'
        BY <2>1 DEF Undisturbed, RequestIsCurrent
      <3>3. \A t \in DOMAIN recs' : RecordReopens(launch, recs, t)'
        <4> SUFFICES ASSUME NEW t \in DOMAIN recs PROVE RecordReopens(launch, recs, t)'
          BY <2>3
        <4>1. RecordReopens(launch, recs, t)
          BY <2>1 DEF Undisturbed
        <4>2. stages \subseteq stages'
          BY <2>3
        <4> DEFINE dem == SourceDem(launch, recs, files["dem"])
        <4>3. ASSUME NEW x, StageOpens(t, x, launch, recs, stages, files, dem)
              PROVE  StageOpens(t, x, launch, recs, stages', files, dem)
          <5>1. \A a \in Ancestors[t] \cap Plan[launch] : Present(stages', recs[a])
            BY <4>2, <4>3 DEF StageOpens, Present
          <5>2. t \in Stages
            BY <1>0 DEF TypeOK, RunTypeOK
          <5> HIDE DEF dem
          <5> QED
            BY <4>3, <5>1, <5>2 DEF StageOpens, Stages
        <4> QED
          BY <2>1, <2>3, <4>1, <4>2, <4>3 DEF RecordReopens, Recomputed
      <3> QED
        BY <2>1, <2>3, <3>1, <3>2, <3>3 DEF Undisturbed, Staging
    <2> QED
      BY <1>3, <1>8, <2>2, <2>3 DEF PublishStage
  <1>9. CASE ReopenStage
    <2>1. /\ making \in Record /\ IsCurrent(making.stage) /\ pc = "reopen" /\ pc \in Staging
          /\ UNCHANGED <<files, launch, request, req, status, stages>>
          /\ making.key = RunKey(making.stage) /\ RequestIsCurrent
      BY <1>0, <1>9 DEF ReopenStage, RunShape, Undisturbed, Staging, diskVars
    <2>2. CASE RecordStage(making) /\ \E d \in stages : RecordOf(d) = making /\ Opens(making.stage, d)
      <3>1. PICK d \in stages : RecordOf(d) = making /\ Opens(making.stage, d)
        BY <2>2
      <3>2. StageOpens(making.stage, d, Here, recs, stages', files,
                       SourceDem(Here, recs, files["dem"]))
        BY <1>0, <2>1, <3>1, KeyIsReproduced DEF Opens
      <3> QED
        BY <1>0, <2>1, <2>2, <3>1, <3>2, RecordedRunKeepsUndisturbed
    <2> QED
      BY <1>3, <1>9, <2>2 DEF ReopenStage, At
  <1>10. CASE WriteManifest
    <2>1. /\ UNCHANGED <<files, launch, request, req, status, stages, recs>>
          /\ manifest' = [of |-> req, stages |-> recs] /\ pc = "conclude" /\ pc' = "complete"
      BY <1>10 DEF WriteManifest
    <2>2. RequestIsCurrent' /\ \A t \in DOMAIN recs : RecordReopens(launch, recs, t)'
      BY <2>1 DEF Undisturbed, RequestIsCurrent, RecordReopens, Recomputed, Staging
    <2> QED
      BY <2>1, <2>2 DEF Undisturbed
  <1>11. CASE Complete
    <2>1. pc' = "idle"
      BY <1>11 DEF Complete, EndRun
    <2> QED
      BY <1>0, <1>11, <2>1, CompletedRunInspects DEF Undisturbed, Staging
  <1> QED
    BY <1>4, <1>5, <1>6, <1>7, <1>8, <1>9, <1>10, <1>11
    DEF RunStep, RejectSetup, FailStage, PersistFailure, Crash, EditFile, PutBack, DamageStage

\* Every step keeps an undisturbed workspace reopening, or disturbs it.
LEMMA CalmKept ==
    ASSUME WorkflowInv, CalmInv, [Next]_vars
    PROVE  CalmInv'
  <1>1. CASE \/ calm' = FALSE
             \/ UNCHANGED <<files, launch, request, status, manifest, stages, pc, req, recs, making, calm>>
    BY <1>1, UndisturbedStays DEF CalmInv
  <1>2. CASE CleanupStep
    BY <1>1, <1>2
    DEF CleanupStep, ApplyCleanup, CandidateChanged, TouchCandidate, MoveCandidate,
        InspectCleaned, MoveBack, EndRollback, PurgeQuarantine, CleanupDies, diskVars, runVars
  <1> QED
    BY <1>1, <1>2, RunKeepsCalm DEF Next, Tidy, RemoveRefused, vars, diskVars, runVars

\* When nothing was edited or damaged since the last run began, a run that says it
\* completed leaves a workspace that its own verification accepts
\* (execute_workflow_launch, run_local_workflow).
THEOREM UndisturbedRunVerifiesHolds == Spec => []UndisturbedRunVerifies
  <1>1. Init => CalmInv
    BY DEF Init, RunInit, CalmInv
  <1>2. CalmInv => UndisturbedRunVerifies
    BY DEF CalmInv, Undisturbed, UndisturbedRunVerifies
  <1> QED
    BY <1>1, <1>2, CalmKept, WorkflowInitial, WorkflowStepKeeps, PTL DEF Spec

-----------------------------------------------------------------------------
(*****************************************************************************)
(* Why runs and cleanups end: every step of their own takes them nearer to   *)
(* it, and nobody takes them back.                                           *)
(*****************************************************************************)

\* How far a run is from its end.
PhasesLeft(p) ==
    CASE p = "setup"    -> 6
      [] p = "announce" -> 5
      [] p \in {"lookup", "make", "publish", "reopen"} -> 4
      [] p = "conclude" -> 3
      [] p = "complete" -> 2
      [] p = "failing"  -> 1
      [] OTHER          -> 0

\* How far the stage at hand is from its record.
EffectsLeft(p) ==
    CASE p = "lookup" -> 3 [] p = "make" -> 2 [] p = "publish" -> 1 [] OTHER -> 0

\* A later phase of the run; or one more stage recorded; or a later effect of the
\* stage at hand.
RunShrinks ==
    \/ PhasesLeft(pc') < PhasesLeft(pc)
    \/ /\ PhasesLeft(pc') = PhasesLeft(pc)
       /\ \/ DOMAIN recs \subseteq DOMAIN recs' /\ DOMAIN recs' # DOMAIN recs
          \/ recs' = recs /\ EffectsLeft(pc') < EffectsLeft(pc)

CleanupPhasesLeft(c) ==
    CASE c = "moving" -> 3 [] c = "rollback" -> 2 [] c = "purging" -> 1 [] OTHER -> 0

\* A later phase of the cleanup; or one directory fewer to move, or to move back.
CleanupShrinks ==
    \/ CleanupPhasesLeft(cpc') < CleanupPhasesLeft(cpc)
    \/ cpc' = cpc /\ pending' \subseteq pending /\ pending' # pending
    \/ cpc' = cpc /\ pending' = pending /\ moved' \subseteq moved /\ moved' # moved

\* A run and a cleanup get nearer to their end with every step of their own, and
\* nothing anybody does to the workspace takes either back.
RunsGoOn ==
    /\ Proceed => RunShrinks
    /\ CleanUp => CleanupShrinks
    /\ pc # "idle" => RunShrinks \/ UNCHANGED <<pc, recs>>
    /\ cpc # "idle" => CleanupShrinks \/ UNCHANGED <<cpc, pending, moved>>

RunsEnd == [][RunsGoOn]_vars

\* What the counts say of each phase.
LEMMA Phases ==
    /\ PhasesLeft("setup") = 6 /\ PhasesLeft("announce") = 5 /\ PhasesLeft("lookup") = 4
    /\ PhasesLeft("make") = 4 /\ PhasesLeft("publish") = 4 /\ PhasesLeft("reopen") = 4
    /\ PhasesLeft("conclude") = 3 /\ PhasesLeft("complete") = 2
    /\ PhasesLeft("failing") = 1 /\ PhasesLeft("idle") = 0
    /\ EffectsLeft("lookup") = 3 /\ EffectsLeft("make") = 2
    /\ EffectsLeft("publish") = 1 /\ EffectsLeft("reopen") = 0
    /\ CleanupPhasesLeft("moving") = 3 /\ CleanupPhasesLeft("rollback") = 2
    /\ CleanupPhasesLeft("purging") = 1 /\ CleanupPhasesLeft("idle") = 0
  BY DEF PhasesLeft, EffectsLeft, CleanupPhasesLeft

\* A recorded stage is one that was not recorded.
LEMMA RecordShrinks ==
    ASSUME WorkflowInv, pc \in {"lookup", "publish", "reopen"}, NEW rec,
           IsCurrent(rec.stage), RecordStage(rec)
    PROVE  RunShrinks
  <1>1. rec.stage \notin DOMAIN recs /\ DOMAIN recs' = DOMAIN recs \cup {rec.stage}
    BY DEF IsCurrent, ToDo, RecordStage
  <1>2. pc' \in {"lookup", "conclude"}
    BY DEF RecordStage
  <1> QED
    BY <1>1, <1>2, Phases DEF RunShrinks

\* A run that fails has its failure record to write and nothing else.
LEMMA FailShrinks ==
    ASSUME FailRun, pc \in {"lookup", "make", "publish", "reopen", "conclude", "complete"}
    PROVE  RunShrinks
  BY Phases DEF FailRun, RunShrinks

\* A run that ends is at its end.
LEMMA EndShrinks ==
    ASSUME EndRun, pc \in RunSteps, pc # "idle"
    PROVE  RunShrinks
  BY Phases DEF EndRun, RunShrinks, RunSteps

\* A step of the run.
LEMMA ProceedShrinks == ASSUME WorkflowInv, Proceed PROVE RunShrinks
  <1>0. pc \in RunSteps
    BY DEF WorkflowInv, TypeOK, RunTypeOK
  <1>1. CASE RejectSetup \/ Complete \/ PersistFailure
    BY <1>0, <1>1, EndShrinks DEF RejectSetup, Complete, PersistFailure
  <1>2. CASE BindRequest \/ Announce \/ WriteManifest
    BY <1>2, Phases DEF BindRequest, Announce, WriteManifest, RunShrinks
  <1>3. ASSUME NEW s \in Stages, ReuseStage(s) PROVE RunShrinks
    <2>1. PICK d \in At(stages, s, RunKey(s)) : RecordStage(RecordOf(d)) \/ FailRun
      BY <1>3 DEF ReuseStage
    <2>2. pc = "lookup" /\ IsCurrent(s)
      BY <1>3 DEF ReuseStage
    <2>3. RecordOf(d).stage = s
      BY <2>1 DEF At, RecordOf
    <2> QED
      BY <2>1, <2>2, <2>3, RecordShrinks, FailShrinks
  <1>4. ASSUME NEW s \in Stages, NameStage(s) \/ MakeStage(s) PROVE RunShrinks
    <2>1. \/ pc = "lookup" /\ pc' = "make" /\ recs' = recs
          \/ pc = "make" /\ (FailRun \/ (pc' = "publish" /\ recs' = recs))
      BY <1>4 DEF NameStage, MakeStage
    <2> QED
      BY <2>1, FailShrinks, Phases DEF RunShrinks
  <1>5. CASE PublishStage
    <2>1. pc = "publish" /\ IsCurrent(making.stage)
      BY <1>5 DEF PublishStage, WorkflowInv, RunShape
    <2>2. FailRun \/ RecordStage(making) \/ (pc' = "reopen" /\ recs' = recs)
      BY <1>5 DEF PublishStage
    <2> QED
      BY <2>1, <2>2, RecordShrinks, FailShrinks, Phases DEF RunShrinks
  <1>6. CASE ReopenStage
    <2>1. pc = "reopen" /\ IsCurrent(making.stage) /\ (FailRun \/ RecordStage(making))
      BY <1>6 DEF ReopenStage, WorkflowInv, RunShape
    <2> QED
      BY <2>1, RecordShrinks, FailShrinks
  <1> QED
    BY <1>1, <1>2, <1>3, <1>4, <1>5, <1>6 DEF Proceed

\* A step of the cleanup.
LEMMA CleanUpShrinks == ASSUME WorkflowInv, CleanUp PROVE CleanupShrinks
  <1>1. CASE CandidateChanged \/ InspectCleaned \/ EndRollback \/ PurgeQuarantine
    BY <1>1, Phases DEF CandidateChanged, InspectCleaned, EndRollback, PurgeQuarantine, EndCleanup,
       CleanupShrinks
  <1>2. ASSUME NEW d \in pending, MoveCandidate(d) PROVE CleanupShrinks
    <2>1. pending' = pending \ {d} /\ cpc = "moving" /\ (cpc' = cpc \/ cpc' = "rollback")
      BY <1>2 DEF MoveCandidate
    <2> QED
      BY <1>2, <2>1, Phases DEF CleanupShrinks
  <1>3. ASSUME NEW d \in moved, MoveBack(d) PROVE CleanupShrinks
    <2>1. moved' = moved \ {d} /\ cpc' = cpc /\ pending' = pending
      BY <1>3 DEF MoveBack
    <2> QED
      BY <1>3, <2>1 DEF CleanupShrinks
  <1> QED
    BY <1>1, <1>2, <1>3 DEF CleanUp

\* What any step does to the run and to the cleanup.
LEMMA RunsStep == WorkflowInv /\ [Next]_vars => [RunsGoOn]_vars
  <1> SUFFICES ASSUME WorkflowInv, Next PROVE RunsGoOn
    OBVIOUS
  <1>0. pc \in RunSteps /\ cpc \in {"idle", "moving", "rollback", "purging"}
    BY DEF WorkflowInv, TypeOK, RunTypeOK, CleanupTypeOK
  <1>1. Proceed => RunShrinks
    BY ProceedShrinks
  <1>2. CleanUp => CleanupShrinks
    BY CleanUpShrinks
  <1>3. ASSUME pc # "idle" PROVE RunShrinks \/ UNCHANGED <<pc, recs>>
    <2>1. CASE RunStep
      <3>1. CASE \E l \in Launches : SaveLaunch(l)
        BY <1>3, <3>1 DEF SaveLaunch
      <3>2. CASE FailStage
        BY <3>2, FailShrinks DEF FailStage
      <3>3. CASE Crash
        BY <1>0, <1>3, <3>3, EndShrinks DEF Crash
      <3>4. CASE (\E f \in Editable : EditFile(f) \/ PutBack(f)) \/ \E d \in stages : DamageStage(d)
        BY <3>4 DEF EditFile, PutBack, DamageStage
      <3>5. CASE Proceed
        BY <1>1, <3>5
      <3> QED
        BY <2>1, <3>1, <3>2, <3>3, <3>4, <3>5 DEF RunStep, Proceed
    <2>2. CASE CleanupStep
      BY <2>2 DEF CleanupStep, ApplyCleanup, CandidateChanged, TouchCandidate, MoveCandidate,
         InspectCleaned, MoveBack, EndRollback, PurgeQuarantine, CleanupDies, runVars
    <2>3. CASE Tidy
      BY <1>3, <2>3 DEF Tidy, RemoveRefused
    <2> QED
      BY <2>1, <2>2, <2>3 DEF Next
  <1>4. ASSUME cpc # "idle" PROVE CleanupShrinks \/ UNCHANGED <<cpc, pending, moved>>
    <2>1. CASE UNCHANGED cleanupVars
      BY <2>1 DEF cleanupVars
    <2>2. CASE Tidy
      BY <1>4, <2>2 DEF Tidy
    <2>3. CASE ApplyCleanup
      BY <1>4, <2>3 DEF ApplyCleanup
    <2>4. CASE \E d \in pending : TouchCandidate(d)
      BY <2>4 DEF TouchCandidate, cleanupVars
    <2>5. CASE CleanupDies
      BY <1>0, <1>4, <2>5, Phases DEF CleanupDies, EndCleanup, CleanupShrinks
    <2>6. CASE CleanUp
      BY <1>2, <2>6
    <2> QED
      BY <2>1, <2>2, <2>3, <2>4, <2>5, <2>6 DEF Next, CleanupStep, CleanUp
  <1> QED
    BY <1>1, <1>2, <1>3, <1>4 DEF RunsGoOn

\* A run comes to its end, whatever it finds reusable, refused, damaged or occupied on
\* the way, and a cleanup moves or moves back every directory once (run_local_workflow,
\* apply_workflow_cleanup): what RerunRecovers needs, apart from fairness.
THEOREM RunsEndHolds == Spec => RunsEnd
  <1> QED
    BY WorkflowInitial, WorkflowStepKeeps, RunsStep, PTL DEF Spec, RunsEnd

===============================================================================
