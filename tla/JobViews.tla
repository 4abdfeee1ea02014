------------------------------- MODULE JobViews -------------------------------
(***************************************************************************)
(* What the browser is given of a completed job, and its backups           *)
(* (web/map_tiles.py, web/jobs.py): the assembly, its tiles and map tiles, *)
(* each checked against the digests the job's record leads to and streamed *)
(* from the handle that was checked; archives made, downloaded and         *)
(* restored as new jobs.  A rerun, the user or the disk may replace any    *)
(* file at any time; a call may fail and the server die between two steps. *)
(***************************************************************************)
EXTENDS Naturals, FiniteSets

CONSTANTS
    Views,            \* requests
    MaxViewEvents     \* bound: replaced files, failures and deaths

ASSUME ViewsAssumption == "none" \notin Views /\ MaxViewEvents \in Nat

\* Each stands for the files of its kind: "parts" for the connector plan and map,
\* the preview, the validation and the tile manifests.
ChainFiles == {"workflow", "assembly", "parts", "glb"}
ViewFiles == ChainFiles \cup {"dem", "png", "record", "archive"}
ViewKinds == {"artifact", "overview", "manifest", "glb", "tile", "backup", "archive", "restore"}

VARIABLES
    file,        \* content of each: "none", "bad", or the version it is of; 1 is the job's
    viewKind,    \* what each request is
    vpc,         \* its next effect
    read,        \* the version of what it has read
    handle,      \* the content of the file it keeps open, "none" when none
    answer,      \* what it was answered from, "none" before that
    viewLock,    \* who holds the lock of the map tiles, or of the manager
    workspace,   \* content of the restored workspace
    registered,  \* what of its job directory is written
    viewEvents

viewVars == <<file, viewKind, vpc, read, handle, answer, viewLock, workspace, registered,
              viewEvents>>

ViewVersions == {"one", "two"}
ViewContent == ViewVersions \cup {"none", "bad"}
ViewSteps == {"idle", "workflow", "assembly", "parts", "glb", "dem", "lock", "cached", "png",
              "record", "reread", "reopen", "stream", "place", "archive", "unpack", "inspect",
              "directory", "request", "job", "event", "done", "refused", "gone"}

JobViewsTypeOK ==
    /\ file \in [ViewFiles -> ViewContent]
    /\ viewKind \in [Views -> ViewKinds] /\ vpc \in [Views -> ViewSteps]
    /\ read \in [Views -> ViewContent] /\ handle \in [Views -> ViewContent]
    /\ answer \in [Views -> ViewContent]
    /\ viewLock \in [{"tiles", "manager"} -> Views \cup {"none"}]
    /\ workspace \in ViewContent \cup {"taken"}
    /\ registered \in {{}, {"directory"}, {"directory", "request"},
                       {"directory", "request", "record"}}
    /\ viewEvents \in 0..MaxViewEvents

\* The job has completed; nothing has been rendered or backed up.  The workspace
\* a restore would make may be another's.
JobViewsInit ==
    /\ file = [f \in ViewFiles |-> IF f \in {"png", "record", "archive"} THEN "none" ELSE "one"]
    /\ viewKind \in [Views -> ViewKinds] /\ vpc = [v \in Views |-> "idle"]
    /\ read = [v \in Views |-> "none"] /\ handle = [v \in Views |-> "none"]
    /\ answer = [v \in Views |-> "none"]
    /\ viewLock = [l \in {"tiles", "manager"} |-> "none"]
    /\ workspace \in {"none", "taken"} /\ registered = {} /\ viewEvents = 0

ViewFault == viewEvents < MaxViewEvents /\ viewEvents' = viewEvents + 1
ViewGoes(v, step) == vpc' = [vpc EXCEPT ![v] = step]
Releases(v) == [l \in DOMAIN viewLock |-> IF viewLock[l] = v THEN "none" ELSE viewLock[l]]
RefuseView(v) == ViewGoes(v, "refused") /\ viewLock' = Releases(v)
StoreVars == <<file, workspace, registered, viewEvents>>

\* A file is opened and hashed through one handle, which is kept.
Opens(v, f, expected, step) ==
    IF file[f] = expected
    THEN handle' = [handle EXCEPT ![v] = file[f]] /\ ViewGoes(v, step) /\ UNCHANGED viewLock
    ELSE RefuseView(v) /\ UNCHANGED handle

FirstStep(kind) ==
    CASE kind \in {"overview", "glb"} -> "workflow"
      [] kind \in {"artifact", "manifest", "tile"} -> "dem"
      [] kind = "archive" -> "archive"
      [] OTHER -> "lock"

BeginView(v) ==
    /\ vpc[v] = "idle" /\ ViewGoes(v, FirstStep(viewKind[v]))
    /\ UNCHANGED <<viewKind, read, handle, answer, viewLock, StoreVars>>

-----------------------------------------------------------------------------
(* Artifacts and the assembly *)

\* A file whose digest the record has: here the processed elevations.
OpenDem(v) ==
    /\ vpc[v] = "dem"
    /\ Opens(v, "dem", "one", CASE viewKind[v] = "tile" -> "lock"
                               [] viewKind[v] = "manifest" -> "workflow"
                               [] OTHER -> "stream")
    /\ UNCHANGED <<viewKind, read, answer, StoreVars>>

\* The record has the digest of the workflow's manifest, that names the assembly's
\* manifest, that names the rest.
ReadWorkflow(v) ==
    /\ vpc[v] = "workflow"
    /\ IF file["workflow"] = "one"
       THEN /\ ViewGoes(v, "assembly") /\ read' = [read EXCEPT ![v] = file["workflow"]]
            /\ UNCHANGED viewLock
       ELSE RefuseView(v) /\ UNCHANGED read
    /\ UNCHANGED <<viewKind, handle, answer, StoreVars>>

ReadAssembly(v) ==
    /\ vpc[v] = "assembly"
    /\ IF file["assembly"] = read[v]
       THEN ViewGoes(v, "parts") /\ UNCHANGED viewLock ELSE RefuseView(v)
    /\ UNCHANGED <<viewKind, read, handle, answer, StoreVars>>

CheckParts(v) ==
    /\ vpc[v] = "parts"
    /\ IF file["parts"] = read[v]
       THEN ViewGoes(v, "glb") /\ UNCHANGED viewLock ELSE RefuseView(v)
    /\ UNCHANGED <<viewKind, read, handle, answer, StoreVars>>

\* The overview is made of what was read; a tile is streamed.
CheckGlb(v) ==
    /\ vpc[v] = "glb"
    /\ IF viewKind[v] = "glb"
       THEN Opens(v, "glb", read[v], "stream") /\ UNCHANGED answer
       ELSE IF file["glb"] = read[v]
       THEN /\ ViewGoes(v, "done") /\ answer' = [answer EXCEPT ![v] = read[v]]
            /\ UNCHANGED <<handle, viewLock>>
       ELSE RefuseView(v) /\ UNCHANGED <<handle, answer>>
    /\ UNCHANGED <<viewKind, read, StoreVars>>

-----------------------------------------------------------------------------
(* Map tiles *)

TakeLock(v) ==
    /\ vpc[v] = "lock"
    /\ LET lock == IF viewKind[v] = "tile" THEN "tiles" ELSE "manager"
       IN  viewLock[lock] = "none" /\ viewLock' = [viewLock EXCEPT ![lock] = v]
    /\ ViewGoes(v, CASE viewKind[v] = "tile" -> "cached"
                     [] viewKind[v] = "backup" -> "place"
                     [] OTHER -> "archive")
    /\ UNCHANGED <<viewKind, read, handle, answer, StoreVars>>

\* An image counts with the record that has its digest.
CacheIsValid == file["png"] \in ViewVersions /\ file["record"] = file["png"]

ReadCache(v) ==
    /\ vpc[v] = "cached"
    /\ IF CacheIsValid
       THEN /\ ViewGoes(v, "reopen") /\ viewLock' = Releases(v)
            /\ read' = [read EXCEPT ![v] = file["record"]]
       ELSE ViewGoes(v, "png") /\ UNCHANGED <<viewLock, read>>
    /\ UNCHANGED <<viewKind, handle, answer, StoreVars>>

\* The tile is rendered from the elevations behind the handle, and its image
\* written before its record.
WriteTile(v) ==
    /\ vpc[v] \in {"png", "record"}
    /\ \/ /\ file' = [file EXCEPT ![vpc[v]] = handle[v]]
          /\ ViewGoes(v, IF vpc[v] = "png" THEN "record" ELSE "reread")
          /\ UNCHANGED <<viewLock, viewEvents>>
       \/ /\ ViewFault /\ RefuseView(v)
          /\ \E c \in {file[vpc[v]], handle[v]} : file' = [file EXCEPT ![vpc[v]] = c]
    /\ UNCHANGED <<viewKind, read, handle, answer, workspace, registered>>

RereadTile(v) ==
    /\ vpc[v] = "reread" /\ viewLock' = Releases(v)
    /\ IF CacheIsValid
       THEN ViewGoes(v, "reopen") /\ read' = [read EXCEPT ![v] = file["record"]]
       ELSE ViewGoes(v, "refused") /\ UNCHANGED read
    /\ UNCHANGED <<viewKind, handle, answer, StoreVars>>

\* Mutant: the image is sent as the lock left it.
SendPath(v) ==
    /\ vpc[v] = "reopen"
    /\ handle' = [handle EXCEPT ![v] = file["png"]] /\ ViewGoes(v, "stream")
    /\ UNCHANGED <<viewKind, read, answer, viewLock, StoreVars>>

\* Outside the lock the image must still be the record's.
ReopenTile(v) ==
    /\ vpc[v] = "reopen" /\ Opens(v, "png", read[v], "stream")
    /\ UNCHANGED <<viewKind, read, answer, StoreVars>>

Stream(v) ==
    /\ vpc[v] = "stream" /\ ViewGoes(v, "done")
    /\ answer' = [answer EXCEPT ![v] = handle[v]]
    /\ UNCHANGED <<viewKind, read, handle, viewLock, StoreVars>>

-----------------------------------------------------------------------------
(* Backups *)

\* The verified workflow is written to a private file, which takes the name of its
\* identity if that is free; an archive that is there must be the same, byte by byte.
\* A workspace that holds another version by now has an archive of its own.
PlaceArchive(v) ==
    /\ vpc[v] = "place"
    /\ IF \E f \in ChainFiles \cup {"dem"} : file[f] # "one"
       THEN /\ IF \A f \in ChainFiles \cup {"dem"} : file[f] = "two"
               THEN ViewGoes(v, "done") /\ viewLock' = Releases(v) ELSE RefuseView(v)
            /\ UNCHANGED <<file, viewEvents>>
       ELSE \/ /\ file["archive"] \in {"none", "one"}
               /\ file' = [file EXCEPT !["archive"] = "one"] /\ ViewGoes(v, "archive")
               /\ UNCHANGED <<viewLock, viewEvents>>
            \/ file["archive"] = "bad" /\ RefuseView(v) /\ UNCHANGED <<file, viewEvents>>
            \/ /\ ViewFault /\ RefuseView(v) /\ file["archive"] = "none"
               /\ \E c \in {"none", "one"} : file' = [file EXCEPT !["archive"] = c]
    /\ UNCHANGED <<viewKind, read, handle, answer, workspace, registered>>

\* An archive is verified as a whole through the handle it is streamed or restored from.
OpenArchive(v) ==
    /\ vpc[v] = "archive"
    /\ IF viewKind[v] = "backup"
       THEN /\ viewLock' = Releases(v) /\ UNCHANGED handle
            /\ IF file["archive"] = "one"
               THEN ViewGoes(v, "done") /\ answer' = [answer EXCEPT ![v] = file["archive"]]
               ELSE ViewGoes(v, "refused") /\ UNCHANGED answer
       ELSE /\ Opens(v, "archive", "one", IF viewKind[v] = "archive" THEN "stream" ELSE "unpack")
            /\ UNCHANGED answer
    /\ UNCHANGED <<viewKind, read, StoreVars>>

\* Into a workspace that is not there yet, all or nothing.
Unpack(v) ==
    /\ vpc[v] = "unpack"
    /\ \/ /\ workspace = "none" /\ workspace' = handle[v] /\ ViewGoes(v, "inspect")
          /\ UNCHANGED <<viewLock, viewEvents>>
       \/ workspace # "none" /\ RefuseView(v) /\ UNCHANGED <<workspace, viewEvents>>
       \/ ViewFault /\ RefuseView(v) /\ UNCHANGED workspace
    /\ UNCHANGED <<viewKind, read, handle, answer, file, registered>>

\* The summary and the digests of the new job come from the workspace, read again.
Inspect(v) ==
    /\ vpc[v] = "inspect"
    /\ \/ ViewGoes(v, "directory") /\ UNCHANGED <<viewLock, viewEvents>>
       \/ ViewFault /\ RefuseView(v)
    /\ UNCHANGED <<viewKind, read, handle, answer, file, workspace, registered>>

\* Its directory, its request, its record: listed once the record is there.
Register(v) ==
    /\ vpc[v] \in {"directory", "request", "job"}
    /\ \/ /\ registered' = registered \cup {IF vpc[v] = "job" THEN "record" ELSE vpc[v]}
          /\ ViewGoes(v, CASE vpc[v] = "directory" -> "request" [] vpc[v] = "request" -> "job"
                           [] OTHER -> "event")
          /\ UNCHANGED <<viewLock, viewEvents>>
       \/ ViewFault /\ RefuseView(v) /\ UNCHANGED registered
    /\ UNCHANGED <<viewKind, read, handle, answer, file, workspace>>

\* The job stays listed when its first event cannot be written.
AppendRestored(v) ==
    /\ vpc[v] = "event" /\ viewLock' = Releases(v)
    /\ \/ ViewGoes(v, "done") /\ UNCHANGED viewEvents
          /\ answer' = [answer EXCEPT ![v] = handle[v]]
       \/ ViewFault /\ ViewGoes(v, "refused") /\ UNCHANGED answer
    /\ UNCHANGED <<viewKind, read, handle, file, workspace, registered>>

-----------------------------------------------------------------------------
(* Others *)

\* A rerun writes another version, the disk or the user damages or removes a file.
ReplaceFile(f) ==
    /\ ViewFault
    /\ \E c \in {"bad", "none"} \cup (IF f \in ChainFiles \cup {"dem"} THEN {"two"} ELSE {}) :
         c # file[f] /\ file' = [file EXCEPT ![f] = c]
    /\ UNCHANGED <<viewKind, vpc, read, handle, answer, viewLock, workspace, registered>>

ServerDies ==
    /\ ViewFault
    /\ vpc' = [v \in Views |-> IF vpc[v] \in {"idle", "done", "refused"} THEN vpc[v] ELSE "gone"]
    /\ viewLock' = [l \in DOMAIN viewLock |-> "none"]
    /\ UNCHANGED <<file, viewKind, read, handle, answer, workspace, registered>>

ViewStep(v) ==
    \/ BeginView(v) \/ ReadWorkflow(v) \/ ReadAssembly(v) \/ CheckParts(v) \/ CheckGlb(v)
    \/ OpenDem(v) \/ TakeLock(v) \/ ReadCache(v) \/ WriteTile(v) \/ RereadTile(v)
    \/ ReopenTile(v) \/ Stream(v)
    \/ PlaceArchive(v) \/ OpenArchive(v) \/ Unpack(v) \/ Inspect(v) \/ Register(v)
    \/ AppendRestored(v)

JobViewsNext ==
    ServerDies \/ (\E f \in ViewFiles : ReplaceFile(f)) \/ \E v \in Views : ViewStep(v)
JobViewsSpec == JobViewsInit /\ [][JobViewsNext]_viewVars

-----------------------------------------------------------------------------
(* Properties *)

\* Whatever is replaced while a request runs, and whatever was cached before, the
\* request is answered from the files its job recorded, or not at all; a restored
\* job is listed only with the workspace of the archive and the request it records.
ViewsAreOfTheirJob ==
    /\ \A v \in Views : answer[v] \in {"none", "one"}
    /\ "record" \in registered => workspace = "one" /\ "request" \in registered
=============================================================================
