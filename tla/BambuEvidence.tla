----------------------------- MODULE BambuEvidence -----------------------------
(***************************************************************************)
(* generate_bambu_project_evidence (validation/bambu_projects.py): from a  *)
(* print set and its slice set, Bambu Studio builds a project per tile and *)
(* reopens it.  The sources are read file by file, the models copied       *)
(* aside; what each run leaves is inspected, kept in a private stage and   *)
(* inspected again with the sources before the stage is published.         *)
(* Meanwhile somebody may rewrite the sources, put old files back, update  *)
(* Bambu Studio, touch the files of a run or of the stage, or take the     *)
(* destination; and Bambu Studio may leave anything.                       *)
(***************************************************************************)
EXTENDS Naturals

CONSTANTS
    TileCount,         \* tiles of the layout
    MaxEvidenceEvents  \* bound: flawed outputs, files and programs replaced, calls that raise

ASSUME EvidenceAssumption == TileCount \in Nat \ {0} /\ MaxEvidenceEvents \in Nat

VARIABLES
    sourceFile,   \* version of every source file: even places print set, odd slice set
    slicer,       \* the stamp of Bambu Studio; a replacement gets a new one
    epc,          \* next effect, or how the call ended
    place,        \* the source file or the run that is next
    locked,       \* the stamp of the executable that was locked
    bound,        \* the version of the print manifest that was read
    copied,       \* the version of each tile's private copy, 0 before
    profiles,     \* the version of the stage's printer profiles, 0 when changed
    result,       \* what the last run left in its own directory
    inspected,    \* what the inspection of each run read there
    kept,         \* what the stage has of each run
    output,       \* what is at the destination: "free", "evidence", "other"
    evidenceEvents

sourceVars   == <<sourceFile, slicer>>
stageVars    == <<locked, bound, copied, profiles, kept>>
evidenceVars == <<sourceVars, stageVars, epc, place, result, inspected, output, evidenceEvents>>

\* Print manifest, slice manifest, then each tile's print and slice files.
Sources  == 0..2 * TileCount + 1
\* Each tile is built, then reopened.
Runs     == 1..2 * TileCount
IsBuild(i) == i % 2 = 1
TileOf(i) == i \div 2
Versions == {1, 2}
EvidenceEnded == {"published", "uncertain", "failed"}

\* What can be wrong with a run's files: the archive's directory or its members,
\* the model in it, the G-code, or the record of how the run went.
\* A reopening leaves no archive.
Flaws == {"directory", "members", "model", "gcode", "record"}
FlawsOf(i) == IF IsBuild(i) THEN Flaws ELSE {"gcode", "record"}
RunFiles == [from : Versions \cup {0}, by : Nat, flaw : Flaws \cup {"none"}]
NoRunFiles == [from |-> 0, by |-> 0, flaw |-> "none"]

BambuEvidenceTypeOK ==
    /\ sourceFile \in [Sources -> Versions] /\ slicer \in Nat /\ locked \in Nat
    /\ epc \in {"idle", "staging", "reading", "probing", "before", "running", "after",
                "inspecting", "keeping", "validating", "recording", "verifying", "checking",
                "publishing"} \cup EvidenceEnded
    /\ place \in Nat /\ bound \in Versions \cup {0} /\ profiles \in Versions \cup {0}
    /\ copied \in [1..TileCount -> Versions \cup {0}]
    /\ kept \in [Runs -> RunFiles] /\ inspected \in [Runs -> RunFiles] /\ result \in RunFiles
    /\ output \in {"free", "evidence", "other"} /\ evidenceEvents \in 0..MaxEvidenceEvents

EvidenceInit ==
    /\ sourceFile = [i \in Sources |-> 1] /\ slicer = 1 /\ epc = "idle" /\ place = 0
    /\ locked = 0 /\ bound = 0 /\ profiles = 0 /\ copied = [t \in 1..TileCount |-> 0]
    /\ kept = [i \in Runs |-> NoRunFiles] /\ inspected = kept /\ result = NoRunFiles
    /\ output = "free" /\ evidenceEvents = 0

EvidenceEvent == evidenceEvents < MaxEvidenceEvents /\ evidenceEvents' = evidenceEvents + 1

\* Every failure before the rename removes the private staging directory.
GiveUp == epc' = "failed"

-----------------------------------------------------------------------------
(* What the inspections accept *)

\* The end record and the central directory agree entry by entry.
DirectoryAgrees(left) == left.flaw # "directory"
\* Unique plain names, no link, no encryption, every size within its bound.
MembersAreValid(left) == left.flaw # "members"
\* The parts' transformed mesh has the source's dimensions and triangles.
ModelIsTheSource(left) == left.flaw # "model"
\* Each line and the comments within bounds; the release gate reads the comments.
GcodePasses(left) == left.flaw # "gcode"
\* Exit code, the exact command with its stage paths, a finite duration.
RecordPasses(left) == left.flaw # "record"

\* What is read before a run's files are kept, and what is judged afterwards.
ArchiveOpens(i, left)   == IsBuild(i) => DirectoryAgrees(left) /\ MembersAreValid(left)
Convinces(i, left) ==
    GcodePasses(left) /\ RecordPasses(left) /\ (IsBuild(i) => ModelIsTheSource(left))
\* The profiles of the stage are those of the slice set, no more and no fewer.
ProfilesMatch == profiles = bound

-----------------------------------------------------------------------------
(* The call *)

\* The executable is pinned and hashed; the destination must be free.
LockExecutable ==
    /\ epc = "idle" /\ locked' = slicer
    /\ epc' = IF output = "free" THEN "staging" ELSE "failed"
    /\ UNCHANGED <<sourceVars, place, bound, copied, profiles, kept, result, inspected, output,
                   evidenceEvents>>

\* A new private directory next to the destination, whose parents may not change.
MakeStage ==
    /\ epc = "staging"
    /\ \/ epc' = "reading" /\ UNCHANGED evidenceEvents
       \/ EvidenceEvent /\ GiveUp
    /\ UNCHANGED <<sourceVars, stageVars, place, result, inspected, output>>

\* A file is opened once and must be what its path names then: what is read, or
\* copied, is one version of it.
PinnedVersion(i) == sourceFile[i]

\* A tile's model is copied as it is hashed.
CopyAside(i) ==
    copied' = IF i > 1 /\ i % 2 = 0 THEN [copied EXCEPT ![TileOf(i)] = PinnedVersion(i)] ELSE copied

\* The print manifest comes first; every other file must hash to what a manifest
\* of that version says.
ReadSource ==
    /\ epc = "reading" /\ place \in Sources
    /\ bound' = IF place = 0 THEN PinnedVersion(0) ELSE bound
    /\ IF PinnedVersion(place) = bound' /\ (place = 0 => slicer = locked)
       THEN /\ place' = place + 1
            /\ epc' = IF place + 1 \in Sources THEN "reading" ELSE "probing"
            /\ CopyAside(place)
       ELSE GiveUp /\ UNCHANGED <<place, copied>>
    /\ UNCHANGED <<sourceVars, locked, profiles, kept, result, inspected, output, evidenceEvents>>

\* --help must name the version the slices were made with; then the profiles that
\* were read are written into the stage.
Probe ==
    /\ epc = "probing" /\ place' = 1 /\ profiles' = bound
    /\ IF slicer = locked THEN epc' \in {"before", "failed"} ELSE GiveUp
    /\ UNCHANGED <<sourceVars, locked, bound, copied, kept, result, inspected, output,
                   evidenceEvents>>

CheckBefore ==
    /\ epc = "before"
    /\ epc' = IF slicer = locked THEN "running" ELSE "failed"
    /\ UNCHANGED <<sourceVars, stageVars, place, result, inspected, output, evidenceEvents>>

\* Mutant: the project is built from the file of the print set.
RunOnLive ==
    /\ epc = "running" /\ epc' = "after"
    /\ \E flaw \in FlawsOf(place) \cup {"none"} :
         /\ IF flaw = "none" THEN UNCHANGED evidenceEvents ELSE EvidenceEvent
         /\ result' = [by |-> slicer, flaw |-> flaw,
                       from |-> IF IsBuild(place) THEN sourceFile[place + 1]
                                ELSE kept[place - 1].from]
    /\ UNCHANGED <<sourceVars, stageVars, place, inspected, output>>

\* A build works from the private copy, a reopening from the project that was
\* kept, each in a home of its own.  Bambu Studio may leave anything.
RunBambu ==
    /\ epc = "running" /\ epc' = "after"
    /\ \E flaw \in FlawsOf(place) \cup {"none"} :
         /\ IF flaw = "none" THEN UNCHANGED evidenceEvents ELSE EvidenceEvent
         /\ result' = [by |-> slicer, flaw |-> flaw,
                       from |-> IF IsBuild(place) THEN copied[TileOf(place + 1)]
                                ELSE kept[place - 1].from]
    /\ UNCHANGED <<sourceVars, stageVars, place, inspected, output>>

\* The executable is checked again; a call that failed or timed out ends it all.
CheckRun ==
    /\ epc = "after"
    /\ \/ slicer = locked /\ epc' = "inspecting"
       \/ GiveUp
    /\ UNCHANGED <<sourceVars, stageVars, place, result, inspected, output, evidenceEvents>>

\* The files of the run are opened and read through once ...
InspectRun ==
    /\ epc = "inspecting" /\ inspected' = [inspected EXCEPT ![place] = result]
    /\ epc' = IF ArchiveOpens(place, result) THEN "keeping" ELSE "failed"
    /\ UNCHANGED <<sourceVars, stageVars, place, result, output, evidenceEvents>>

\* ... and copied from the same handles; what is copied must be what was inspected.
KeepRun ==
    /\ epc = "keeping"
    /\ IF result = inspected[place]
       THEN /\ kept' = [kept EXCEPT ![place] = result]
            /\ IF IsBuild(place) THEN epc' = "before" /\ place' = place + 1
               ELSE epc' = "validating" /\ UNCHANGED place
       ELSE GiveUp /\ UNCHANGED <<kept, place>>
    /\ UNCHANGED <<sourceVars, locked, bound, copied, profiles, result, inspected, output,
                   evidenceEvents>>

\* Both gates, the models and the records of the tile, from what was read; a damage
\* to the stage since then goes unnoticed here.
ValidateTile ==
    /\ epc = "validating"
    /\ IF \A i \in {place - 1, place} : Convinces(i, inspected[i])
       THEN /\ place' = IF place + 1 \in Runs THEN place + 1 ELSE 0
            /\ epc' = IF place' = 0 THEN "recording" ELSE "before"
       ELSE GiveUp /\ UNCHANGED place
    /\ UNCHANGED <<sourceVars, stageVars, result, inspected, output, evidenceEvents>>

\* The manifest is written whole or not at all.
RecordEvidence ==
    /\ epc = "recording"
    /\ \/ slicer = locked /\ epc' = "verifying" /\ UNCHANGED evidenceEvents
       \/ slicer # locked /\ GiveUp /\ UNCHANGED evidenceEvents
       \/ EvidenceEvent /\ GiveUp
    /\ UNCHANGED <<sourceVars, stageVars, place, result, inspected, output>>

\* verify_output reads the sources again; the manifest has the first hashes ...
VerifySource ==
    /\ epc = "verifying" /\ place \in Sources
    /\ IF PinnedVersion(place) = bound /\ slicer = locked
       THEN /\ place' = place + 1
            /\ epc' = IF place + 1 \in Sources THEN "verifying" ELSE "checking"
       ELSE GiveUp /\ UNCHANGED place
    /\ UNCHANGED <<sourceVars, stageVars, result, inspected, output, evidenceEvents>>

\* ... and inspects everything in the stage once more.
CheckStage ==
    /\ epc = "checking"
    /\ epc' = IF ProfilesMatch /\ \A i \in Runs : ArchiveOpens(i, kept[i]) /\ Convinces(i, kept[i])
              THEN "publishing" ELSE "failed"
    /\ UNCHANGED <<sourceVars, stageVars, place, result, inspected, output, evidenceEvents>>

\* A rename that replaces nothing.
RenameNoReplace == output = "free" /\ output' = "evidence"

\* When a check or a sync after the rename fails, what was published stays and the
\* call reports that its state is uncertain.
PublishEvidence ==
    /\ epc = "publishing"
    /\ \/ /\ slicer = locked /\ RenameNoReplace
          /\ \/ epc' = "published" /\ UNCHANGED evidenceEvents
             \/ EvidenceEvent /\ epc' = "uncertain"
       \/ slicer # locked /\ GiveUp /\ UNCHANGED <<output, evidenceEvents>>
       \/ output # "free" /\ GiveUp /\ UNCHANGED <<output, evidenceEvents>>
       \/ EvidenceEvent /\ GiveUp /\ UNCHANGED output
    /\ UNCHANGED <<sourceVars, stageVars, place, result, inspected>>

-----------------------------------------------------------------------------
(* The others *)

\* Somebody writes a source file, maybe an old one ...
ReplaceSource(i) ==
    /\ epc \notin EvidenceEnded /\ EvidenceEvent
    /\ sourceFile' = [sourceFile EXCEPT ![i] = 3 - sourceFile[i]]
    /\ UNCHANGED <<slicer, stageVars, epc, place, result, inspected, output>>

\* ... updates Bambu Studio, or creates the destination.
ReplaceProgram ==
    /\ epc \notin EvidenceEnded /\ EvidenceEvent
    /\ slicer' = slicer + 1
    /\ UNCHANGED <<sourceFile, stageVars, epc, place, result, inspected, output>>

TakeOutput ==
    /\ output = "free" /\ EvidenceEvent /\ output' = "other"
    /\ UNCHANGED <<sourceVars, stageVars, epc, place, result, inspected>>

\* A run's files change after its inspection; so may what the stage has, until it
\* is inspected for the last time.
ChangeResult ==
    /\ epc = "keeping" /\ EvidenceEvent
    /\ \E flaw \in FlawsOf(place) : result' = [result EXCEPT !.flaw = flaw]
    /\ UNCHANGED <<sourceVars, stageVars, epc, place, inspected, output>>

DamageStage ==
    /\ epc \in {"before", "running", "after", "inspecting", "keeping", "validating",
                "recording", "verifying", "checking"}
    /\ EvidenceEvent
    /\ \/ /\ \E i \in Runs : \E flaw \in FlawsOf(i) :
               kept[i] # NoRunFiles /\ kept' = [kept EXCEPT ![i].flaw = flaw]
          /\ UNCHANGED profiles
       \/ profiles' = 0 /\ UNCHANGED kept
    /\ UNCHANGED <<sourceVars, locked, bound, copied, epc, place, result, inspected, output>>

EvidenceNext ==
    \/ LockExecutable \/ MakeStage \/ ReadSource \/ Probe \/ CheckBefore \/ RunBambu
    \/ CheckRun \/ InspectRun \/ KeepRun \/ ValidateTile \/ RecordEvidence
    \/ VerifySource \/ CheckStage \/ PublishEvidence
    \/ \E i \in Sources : ReplaceSource(i)
    \/ ReplaceProgram \/ TakeOutput \/ ChangeResult \/ DamageStage
EvidenceSpec == EvidenceInit /\ [][EvidenceNext]_evidenceVars

-----------------------------------------------------------------------------
(* Properties *)

\* Published evidence is of one version of the sources, the one its manifest
\* binds; every run was of the executable it names and left files without a flaw,
\* whatever was replaced, or replaced and put back, while it was made; a call that
\* failed published none.
EvidenceIsOfItsSource ==
    output = "evidence" =>
        /\ epc # "failed" /\ profiles = bound
        /\ \A i \in Runs : kept[i] = [from |-> bound, by |-> locked, flaw |-> "none"]

=============================================================================
