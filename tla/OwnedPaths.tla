------------------------------ MODULE OwnedPaths ------------------------------
(***************************************************************************)
(* How one entry below a trusted root is looked up, made, moved, removed   *)
(* and read while others rename, replace and edit what is there            *)
(* (web/security.py).  A call pins its parent directory, opened from the   *)
(* root without following links and looked up once more, and works from    *)
(* there: by name on POSIX, on the opened entry itself on Windows.         *)
(***************************************************************************)
EXTENDS Naturals, FiniteSets

CONSTANTS
    Platforms,        \* of "posix" and "windows"
    OwnedCalls,       \* the calls a behaviour may be about
    MaxForeign        \* bound: what others do to the tree during the call

\* Directories by identity, the paths that should lead to them, and the entries
\* that may stand at the one name of interest: "mine" is the one the caller
\* expects, "unfit" a link, a hard link or another kind of file.
OwnedDirs == {"root", "here", "there", "stranger"}
OwnedNames == {"root", "here", "there"}
Entries == {"mine", "other", "unfit", "made"}

AllOwnedCalls == {"directory", "identity", "create", "move", "remove", "read", "stream",
                  "exclusive", "stable"}

ASSUME OwnedAssumption ==
    /\ Platforms \subseteq {"posix", "windows"} /\ OwnedCalls \subseteq AllOwnedCalls
    /\ MaxForeign \in Nat

VARIABLES
    platform, ownedCall,   \* which call runs, and where
    leads,       \* OwnedName -> the directory there, "link" or "none"; the last two in the root
    stands,      \* OwnedDir -> the entry that has the name there, or "none"
    edits,       \* edits of each entry so far
    opc,         \* the next effect of the call
    pinned,      \* the directories it pinned, by path
    held,        \* the entry it looked at or opened, with its edits at that time
    got,         \* what it read
    effects,     \* what it did: <<what, directory, entry>>
    reply,       \* how it ended
    everLed,     \* the directories each path led to since the call began
    foreign      \* foreign acts so far

ownedVars == <<platform, ownedCall, leads, stands, edits, opc, pinned, held, got, effects,
               reply, everLed, foreign>>
treeVars == <<leads, stands, edits, everLed, foreign>>

OwnedSteps == {"root", "parent", "check", "stat", "open", "reopen", "act", "look", "part",
               "again", "settle", "undo", "absent", "end"}
NoEntry == [entry |-> "none", edits |-> 0]
Replies == {"none", "returned", "absent", "refused", "uncertain"}

OwnedPathsTypeOK ==
    /\ platform \in Platforms /\ ownedCall \in OwnedCalls
    /\ leads \in [OwnedNames -> OwnedDirs \cup {"link", "none"}]
    /\ stands \in [OwnedDirs -> Entries \cup {"none"}]
    /\ edits \in [Entries -> 0..MaxForeign]
    /\ opc \in OwnedSteps /\ reply \in Replies /\ (opc = "end") = (reply # "none")
    /\ pinned \in [{"here", "there"} -> OwnedDirs \cup {"none"}]
    /\ held.entry \in Entries \cup {"none"} /\ held.edits \in 0..MaxForeign
    /\ got \subseteq [entry : Entries, edits : 0..MaxForeign]
    /\ effects \subseteq ({"made", "moved", "removed", "read"} \X OwnedDirs \X (Entries \cup {"none"}))
    /\ everLed \in [{"here", "there"} -> SUBSET OwnedDirs]
    /\ foreign \in 0..MaxForeign

\* The directory a path leads to now, links not followed.
LeadsTo(path) ==
    IF path = "root" \/ leads["root"] = "root" THEN leads[path] ELSE "none"

OwnedInit ==
    /\ platform \in Platforms /\ ownedCall \in OwnedCalls
    /\ leads = [p \in OwnedNames |-> p]
    /\ stands \in [OwnedDirs -> {"mine", "none"}]
    /\ \A d \in OwnedDirs : stands[d] = "mine" => d = "here"
    /\ edits = [e \in Entries |-> 0] /\ foreign = 0
    /\ opc = (IF ownedCall = "stable" THEN "stat" ELSE "root") /\ reply = "none"
    /\ pinned = [p \in {"here", "there"} |-> "none"]
    /\ held = NoEntry /\ got = {} /\ effects = {}
    /\ everLed = [p \in {"here", "there"} |-> {p}]

OwnedGoes(step) == opc' = step /\ UNCHANGED reply
Ends(r) == opc' = "end" /\ reply' = r
Refuses == Ends("refused")

\* The path being pinned: a move pins its destination once it knows its source.
Target == IF held # NoEntry THEN "there" ELSE "here"
Pinned == pinned["here"]

\* read_stable_regular_bytes pins nothing: a link to the directory is followed on POSIX.
Followed ==
    IF leads["root"] # "root" THEN "none"
    ELSE IF leads["here"] = "link" /\ platform = "posix" THEN "stranger" ELSE LeadsTo("here")
Parent == IF ownedCall = "stable" THEN Followed ELSE Pinned
StandsThere == IF Parent \in OwnedDirs THEN stands[Parent] ELSE "none"

\* What has vanished is no error to those who ask for it, if the root is still there.
Misses == IF ownedCall \in {"identity", "remove"} THEN OwnedGoes("absent") ELSE Refuses

AnswerAbsent ==
    /\ opc = "absent"
    /\ IF ownedCall = "remove" \/ LeadsTo("root") = "root" THEN Ends("absent") ELSE Refuses
    /\ UNCHANGED <<platform, ownedCall, pinned, held, got, effects, treeVars>>

-----------------------------------------------------------------------------
(* Pinning a directory *)

OpenRoot ==
    /\ opc = "root"
    /\ CASE leads["root"] = "root" -> OwnedGoes("parent")
         [] leads["root"] = "none" -> Misses
         [] OTHER -> Refuses
    /\ UNCHANGED <<platform, ownedCall, pinned, held, got, effects, treeVars>>

\* From the handle of the root, wherever the root may be now.
OpenParent ==
    /\ opc = "parent"
    /\ CASE leads[Target] \in OwnedDirs ->
              OwnedGoes("check") /\ pinned' = [pinned EXCEPT ![Target] = leads[Target]]
         [] leads[Target] = "none" -> Misses /\ UNCHANGED pinned
         [] OTHER -> Refuses /\ UNCHANGED pinned
    /\ UNCHANGED <<platform, ownedCall, held, got, effects, treeVars>>

AfterPin ==
    CASE held # NoEntry -> "act"
      [] held = NoEntry /\ platform = "windows" -> "open"
      [] held = NoEntry /\ platform = "posix" /\ ownedCall = "exclusive" -> "act"
      [] OTHER -> "stat"

PinReached ==
    IF ownedCall = "directory"
    THEN Ends("returned") /\ effects' = {<<"read", Pinned, "none">>}
    ELSE OwnedGoes(AfterPin) /\ UNCHANGED effects

\* Mutant: what was opened is not looked up again.
TrustParent ==
    /\ opc = "check" /\ PinReached
    /\ UNCHANGED <<platform, ownedCall, pinned, held, got, treeVars>>

\* The whole path, opened anew, must lead to the same directory.
CheckParent ==
    /\ opc = "check"
    /\ CASE LeadsTo(Target) = pinned[Target] -> PinReached
         [] LeadsTo(Target) = "none" -> Misses /\ UNCHANGED effects
         [] OTHER -> Refuses /\ UNCHANGED effects
    /\ UNCHANGED <<platform, ownedCall, pinned, held, got, treeVars>>

-----------------------------------------------------------------------------
(* Finding the entry *)

Fit(entry) == entry \in (IF ownedCall \in {"move", "remove"} THEN {"mine"}
                         ELSE Entries \ {"unfit"})
Seen(entry) == [entry |-> entry, edits |-> edits[entry]]
Creates == ownedCall \in {"create", "exclusive"}

\* After the look: POSIX acts by name, or opens what it saw.
NextOfLook ==
    CASE ownedCall = "move" -> "root" [] ownedCall = "remove" -> "act" [] OTHER -> "open"

\* A stream is given away with nothing but its own handle left open.
Yields(entry) == Ends("returned") /\ effects' = {<<"read", Pinned, entry>>}

StatEntry ==
    /\ opc = "stat"
    /\ LET found == StandsThere
       IN  CASE found = "none" /\ ownedCall = "create" -> OwnedGoes("act") /\ UNCHANGED held
             [] found = "none" /\ ownedCall \in {"identity", "remove"} ->
                  Ends("absent") /\ UNCHANGED held
             [] found # "none" /\ ownedCall # "create" /\ Fit(found) ->
                  OwnedGoes(NextOfLook) /\ held' = Seen(found)
             [] OTHER -> Refuses /\ UNCHANGED held
    /\ UNCHANGED <<platform, ownedCall, pinned, got, effects, treeVars>>

\* POSIX: what is opened is what was seen, unedited if it is to be read.
\* Windows: the handle says what it is; a call that creates makes it here.
OpenEntry ==
    /\ opc = "open"
    /\ LET found == StandsThere
       IN  \/ /\ platform = "posix"
              /\ IF found # "none" /\ found = held.entry
                      /\ (ownedCall = "identity" \/ Seen(found) = held)
                 THEN IF ownedCall = "stream" THEN Yields(found)
                      ELSE OwnedGoes(IF ownedCall = "identity" THEN "again" ELSE "part")
                           /\ UNCHANGED effects
                 ELSE Refuses /\ UNCHANGED effects
              /\ UNCHANGED <<held, treeVars>>
           \/ /\ platform = "windows" /\ Creates
              /\ IF found = "none"
                 THEN /\ stands' = [stands EXCEPT ![Pinned] = "made"]
                      /\ effects' = {<<"made", Pinned, "made">>}
                      /\ held' = [entry |-> "made", edits |-> 0] /\ OwnedGoes("reopen")
                 ELSE Refuses /\ UNCHANGED <<stands, effects, held>>
              /\ UNCHANGED <<leads, edits, everLed, foreign>>
           \/ /\ platform = "windows" /\ ~Creates
              /\ CASE found = "none" -> Misses /\ UNCHANGED held
                   [] /\ found # "none" /\ Fit(found)
                      /\ ownedCall = "stable" => Seen(found) = held ->
                        OwnedGoes("reopen") /\ held' = Seen(found)
                   [] OTHER -> Refuses /\ UNCHANGED held
              /\ UNCHANGED <<effects, treeVars>>
    /\ UNCHANGED <<platform, ownedCall, pinned, got>>

\* Where the opened entry is now, if it is anywhere.
Gone(entry) == [d \in OwnedDirs |-> IF stands[d] = entry THEN "none" ELSE stands[d]]

\* Windows: the name must still be the opened entry's; one just made is deleted.
ReopenEntry ==
    /\ opc = "reopen"
    /\ IF StandsThere = held.entry
       THEN /\ CASE ownedCall \in {"identity", "create", "exclusive"} ->
                        Ends("returned") /\ UNCHANGED effects
                 [] ownedCall = "stream" -> Yields(held.entry)
                 [] ownedCall = "move" -> OwnedGoes("root") /\ UNCHANGED effects
                 [] ownedCall = "remove" -> OwnedGoes("act") /\ UNCHANGED effects
                 [] OTHER -> OwnedGoes("part") /\ UNCHANGED effects
            /\ UNCHANGED stands
       ELSE /\ Refuses /\ effects' = {}
            /\ stands' = IF Creates THEN Gone("made") ELSE stands
    /\ UNCHANGED <<platform, ownedCall, pinned, held, got, leads, edits, everLed, foreign>>

-----------------------------------------------------------------------------
(* Acting on it *)

\* POSIX moves whatever has the name now, Windows what it opened, wherever that is.
MoveEntry ==
    /\ opc = "act" /\ ownedCall = "move"
    /\ LET from == IF platform = "posix" THEN {Pinned}
                   ELSE {d \in OwnedDirs : stands[d] = held.entry}
           to == pinned["there"]
       IN  IF stands[to] = "none" /\ \E d \in from : stands[d] # "none"
           THEN \E d \in from :
                  /\ effects' = {<<"moved", d, stands[d]>>, <<"moved", to, stands[d]>>}
                  /\ stands' = [stands EXCEPT ![to] = stands[d], ![d] = "none"]
                  /\ OwnedGoes("look")
           ELSE Refuses /\ UNCHANGED <<effects, stands>>
    /\ UNCHANGED <<platform, ownedCall, pinned, held, got, leads, edits, everLed, foreign>>

\* The same for a removal, which POSIX makes durable and Windows does not.
RemoveEntry ==
    /\ opc = "act" /\ ownedCall = "remove"
    /\ LET from == IF platform = "posix" THEN {Pinned}
                   ELSE {d \in OwnedDirs : stands[d] = held.entry}
       IN  IF \E d \in from : stands[d] # "none"
           THEN \E d \in from :
                  /\ effects' = {<<"removed", d, stands[d]>>}
                  /\ stands' = [stands EXCEPT ![d] = "none"] /\ OwnedGoes("settle")
           ELSE Refuses /\ UNCHANGED <<effects, stands>>
    /\ UNCHANGED <<platform, ownedCall, pinned, held, got, leads, edits, everLed, foreign>>

\* POSIX makes the directory, or the file whose creation is exclusive; the error
\* path of the latter unlinks the name whoever made what is there.
MakeEntry ==
    /\ opc = "act" /\ Creates
    /\ IF stands[Pinned] = "none"
       THEN /\ stands' = [stands EXCEPT ![Pinned] = "made"]
            /\ effects' = {<<"made", Pinned, "made">>}
            /\ IF ownedCall = "create" THEN OwnedGoes("look") ELSE Ends("returned")
       ELSE IF ownedCall = "create" THEN Refuses /\ UNCHANGED <<effects, stands>>
       ELSE OwnedGoes("undo") /\ UNCHANGED <<effects, stands>>
    /\ UNCHANGED <<platform, ownedCall, pinned, held, got, leads, edits, everLed, foreign>>

\* The result must stand where it should: what a move took, what a mkdir made.
LookAfter ==
    /\ opc = "look"
    /\ IF ownedCall = "move"
       THEN IF stands[pinned["there"]] = (IF platform = "posix" THEN "mine" ELSE held.entry)
            THEN OwnedGoes("settle") ELSE Ends("uncertain")
       ELSE IF stands[Pinned] \in {"none", "unfit"} THEN OwnedGoes("undo") ELSE OwnedGoes("settle")
    /\ UNCHANGED <<platform, ownedCall, pinned, held, got, effects, treeVars>>

\* fsync of the directories and the closing of the handles, either of which may fail.
SettleEntry ==
    /\ opc = "settle"
    /\ \/ Ends("returned")
       \/ ownedCall \in {"move", "remove"} /\ Ends("uncertain")
       \/ ownedCall = "create" /\ OwnedGoes("undo")
    /\ UNCHANGED <<platform, ownedCall, pinned, held, got, effects, treeVars>>

\* rmdir of the name, or unlink of it; the failure of either is not reported.
UndoEntry ==
    /\ opc = "undo" /\ Refuses
    /\ \/ /\ stands[Pinned] # "none"
          /\ ownedCall = "create" => stands[Pinned] \in {"made", "other"}
          /\ effects' = IF stands[Pinned] = "made" THEN {}
                        ELSE effects \cup {<<"removed", Pinned, stands[Pinned]>>}
          /\ stands' = [stands EXCEPT ![Pinned] = "none"]
       \/ UNCHANGED <<effects, stands>>
    /\ UNCHANGED <<platform, ownedCall, pinned, held, got, leads, edits, everLed, foreign>>

\* A file is read in parts; nothing but its descriptor is used.
ReadPart ==
    /\ opc = "part"
    /\ got' = got \cup {Seen(held.entry)}
    /\ OwnedGoes("part") \/ OwnedGoes("again")
    /\ UNCHANGED <<platform, ownedCall, pinned, held, effects, treeVars>>

\* The same entry has the name, unedited if it was read; its directory is in place.
LookAgain ==
    /\ opc = "again"
    /\ IF /\ StandsThere = held.entry
          /\ ownedCall # "identity" => Seen(held.entry) = held
          /\ ownedCall = "read" => LeadsTo("here") = Pinned
       THEN /\ Ends("returned")
            /\ effects' = IF ownedCall = "read" THEN {<<"read", Pinned, held.entry>>} ELSE {}
       ELSE Refuses /\ UNCHANGED effects
    /\ UNCHANGED <<platform, ownedCall, pinned, held, got, treeVars>>

-----------------------------------------------------------------------------
(* Others *)

ForeignAct ==
    /\ opc # "end" /\ foreign < MaxForeign /\ foreign' = foreign + 1
    /\ UNCHANGED <<platform, ownedCall, opc, pinned, held, got, effects, reply>>

\* Windows lets nobody write, rename or remove a file opened to be read.
Shut(entry) ==
    /\ platform = "windows" /\ ownedCall \in {"read", "stream", "stable"}
    /\ opc \in {"reopen", "part", "again"} /\ entry = held.entry

\* A directory is renamed away, another or a link takes its place.
Redirect(path) ==
    /\ \E d \in (OwnedDirs \ {"root"}) \cup {path, "link", "none"} :
         /\ d # leads[path]
         /\ d \in OwnedDirs => \A p \in OwnedNames : leads[p] # d
         /\ leads' = [leads EXCEPT ![path] = d]
    /\ everLed' = [p \in {"here", "there"} |->
                     everLed[p] \cup ({LeadsTo(p)'} \cap OwnedDirs)]
    /\ ForeignAct /\ UNCHANGED <<stands, edits>>

\* An entry comes to the name, from another directory or new, or leaves it.
PutEntry(dir) ==
    /\ ~Shut(stands[dir])
    /\ \E e \in {"mine", "other", "unfit", "made", "none"} :
         /\ e # stands[dir] /\ (e # "none" => ~Shut(e))
         /\ e = "made" => \E d \in OwnedDirs : stands[d] = "made"
         /\ stands' = [(IF e = "none" THEN stands ELSE Gone(e)) EXCEPT ![dir] = e]
    /\ ForeignAct /\ UNCHANGED <<leads, edits, everLed>>

EditEntry(entry) ==
    /\ ~Shut(entry) /\ edits' = [edits EXCEPT ![entry] = @ + 1]
    /\ ForeignAct /\ UNCHANGED <<leads, stands, everLed>>

OwnedNext ==
    \/ OpenRoot \/ OpenParent \/ CheckParent \/ AnswerAbsent
    \/ StatEntry \/ OpenEntry \/ ReopenEntry
    \/ MoveEntry \/ RemoveEntry \/ MakeEntry \/ LookAfter \/ SettleEntry \/ UndoEntry
    \/ ReadPart \/ LookAgain
    \/ \E path \in OwnedNames : Redirect(path)
    \/ \E dir \in OwnedDirs : PutEntry(dir)
    \/ \E entry \in {"mine", "other"} : EditEntry(entry)

OwnedSpec == OwnedInit /\ [][OwnedNext]_ownedVars

-----------------------------------------------------------------------------
(* Properties *)

\* On POSIX a call touches and reads only names in directories to which its path,
\* from the trusted root and through no link, led while it ran; on Windows it
\* moves and removes only the entry it opened, and reads there alone.
PinsAreOwned ==
    \A effect \in effects :
        \/ effect[2] \in everLed["here"] \cup everLed["there"]
        \/ platform = "windows" /\ effect[1] \in {"moved", "removed"} /\ effect[3] = held.entry

\* A move or removal refused with a plain error has done nothing, so a retry is
\* right; bytes that are returned are one version of one file.
PlainErrorsAreHarmless ==
    /\ reply \in {"refused", "absent"} /\ ~Creates => effects = {}
    /\ reply = "returned" /\ ownedCall \in {"read", "stable"} => got = {held}

\* Both: what a caller of an owned path relies on while others use the tree.
OwnedCallsAreTrue == PinsAreOwned /\ PlainErrorsAreHarmless
=============================================================================
