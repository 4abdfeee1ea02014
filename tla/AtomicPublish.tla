---------------------------- MODULE AtomicPublish ----------------------------
(***************************************************************************)
(* How every record, manifest and cache entry reaches its path             *)
(* (web/security.py, util/atomic.py): a temporary file is written, synced, *)
(* renamed over the path or to a free path, checked, and its directory is  *)
(* synced.  Several writers publish to one path; a write may fail, a       *)
(* writer die, the machine lose power.                                     *)
(***************************************************************************)
EXTENDS Naturals

CONSTANTS
    Writers,            \* calls, all for one path
    Replacing,          \* those with replace=True; the others want a free path
    Owned,              \* atomic_write_owned_regular_bytes; the others do not look back
    MaxPublishFaults    \* bound: failures, deaths and power losses

ASSUME PublishAssumption ==
    /\ Replacing \subseteq Writers /\ Owned \subseteq Writers
    /\ "nobody" \notin Writers /\ MaxPublishFaults \in Nat

VARIABLES
    entry,       \* whose file the path names, "nobody" when none
    mayRemain,   \* what the path may name after a power loss
    renames,     \* renames so far
    turn,        \* which of them was each writer's, 0 when it has not renamed
    temporary,   \* writers whose temporary file exists
    content,     \* what is in each writer's file
    onDisk,      \* what of it a power loss leaves
    wpc,         \* next effect, or the outcome, of each writer
    publishFaults

publishVars == <<entry, mayRemain, renames, turn, temporary, content, onDisk, wpc,
                 publishFaults>>

PublishPc == {"idle", "writing", "syncing", "renaming", "looking", "settling", "removing",
              "done", "uncertain", "failed", "gone"}

AtomicPublishTypeOK ==
    /\ entry \in Writers \cup {"nobody"}
    /\ mayRemain \subseteq Writers \cup {"nobody"} /\ entry \in mayRemain
    /\ renames \in Nat /\ turn \in [Writers -> 0..renames]
    /\ temporary \subseteq Writers
    /\ content \in [Writers -> {"none", "part", "whole"}]
    /\ onDisk \in [Writers -> {"none", "part", "whole"}]
    /\ wpc \in [Writers -> PublishPc]
    /\ publishFaults \in 0..MaxPublishFaults

PublishInit ==
    /\ entry = "nobody" /\ mayRemain = {"nobody"} /\ temporary = {}
    /\ renames = 0 /\ turn = [w \in Writers |-> 0]
    /\ content = [w \in Writers |-> "none"] /\ onDisk = [w \in Writers |-> "none"]
    /\ wpc = [w \in Writers |-> "idle"] /\ publishFaults = 0

PublishFault == publishFaults < MaxPublishFaults /\ publishFaults' = publishFaults + 1
WriterGoes(w, step) == wpc' = [wpc EXCEPT ![w] = step]

\* The prior file, if any, is a plain one; a temporary of a random name is made.
CreateTemporary(w) ==
    /\ wpc[w] = "idle"
    /\ temporary' = temporary \cup {w}
    /\ WriterGoes(w, "writing")
    /\ UNCHANGED <<entry, mayRemain, renames, turn, content, onDisk, publishFaults>>

\* os.write in a loop; the payload is there in part, then whole.
WriteData(w) ==
    /\ wpc[w] = "writing"
    /\ \/ /\ content[w] = "none" /\ content' = [content EXCEPT ![w] = "part"]
          /\ UNCHANGED <<wpc, publishFaults>>
       \/ /\ content[w] = "part" /\ content' = [content EXCEPT ![w] = "whole"]
          /\ WriterGoes(w, "syncing") /\ UNCHANGED publishFaults
       \/ PublishFault /\ WriterGoes(w, "removing") /\ UNCHANGED content
    /\ UNCHANGED <<entry, mayRemain, renames, turn, temporary, onDisk>>

\* Mutant: the data is left to the page cache.
SkipSync(w) ==
    /\ wpc[w] = "syncing" /\ WriterGoes(w, "renaming")
    /\ UNCHANGED <<entry, mayRemain, renames, turn, temporary, content, onDisk, publishFaults>>

SyncData(w) ==
    /\ wpc[w] = "syncing"
    /\ \/ /\ onDisk' = [onDisk EXCEPT ![w] = content[w]]
          /\ WriterGoes(w, "renaming") /\ UNCHANGED publishFaults
       \/ PublishFault /\ WriterGoes(w, "removing") /\ UNCHANGED onDisk
    /\ UNCHANGED <<entry, mayRemain, renames, turn, temporary, content>>

\* os.replace, or a rename that fails when the path is taken.
Publish(w) ==
    /\ wpc[w] = "renaming"
    /\ \/ /\ w \in Replacing \/ entry = "nobody"
          /\ entry' = w /\ mayRemain' = mayRemain \cup {w}
          /\ renames' = renames + 1 /\ turn' = [turn EXCEPT ![w] = renames']
          /\ temporary' = temporary \ {w}
          /\ WriterGoes(w, IF w \in Owned THEN "looking" ELSE "settling")
          /\ UNCHANGED publishFaults
       \/ /\ w \notin Replacing /\ entry # "nobody"
          /\ WriterGoes(w, "removing")
          /\ UNCHANGED <<entry, mayRemain, renames, turn, temporary, publishFaults>>
       \/ /\ PublishFault /\ WriterGoes(w, "removing")
          /\ UNCHANGED <<entry, mayRemain, renames, turn, temporary>>
    /\ UNCHANGED <<content, onDisk>>

\* The path must name the file this writer wrote, or its outcome is uncertain.
LookBack(w) ==
    /\ wpc[w] = "looking"
    /\ WriterGoes(w, IF entry = w THEN "settling" ELSE "uncertain")
    /\ UNCHANGED <<entry, mayRemain, renames, turn, temporary, content, onDisk, publishFaults>>

\* Mutant: the directory is not synced.
SettleUnsynced(w) ==
    /\ wpc[w] = "settling" /\ WriterGoes(w, "done")
    /\ UNCHANGED <<entry, mayRemain, renames, turn, temporary, content, onDisk, publishFaults>>

\* fsync of the directory makes what the path names now what it names for good.
\* Only the owned call says of its error that the file has been published.
SyncParent(w) ==
    /\ wpc[w] = "settling"
    /\ \/ mayRemain' = {entry} /\ WriterGoes(w, "done") /\ UNCHANGED publishFaults
       \/ /\ PublishFault /\ UNCHANGED mayRemain
          /\ WriterGoes(w, IF w \in Owned THEN "uncertain" ELSE "failed")
    /\ UNCHANGED <<entry, renames, turn, temporary, content, onDisk>>

\* A writer that published nothing removes its temporary; the removal may fail.
RemoveTemporary(w) ==
    /\ wpc[w] = "removing" /\ WriterGoes(w, "failed")
    /\ \/ temporary' = temporary \ {w} /\ UNCHANGED publishFaults
       \/ PublishFault /\ UNCHANGED temporary
    /\ UNCHANGED <<entry, mayRemain, renames, turn, content, onDisk>>

Settled == {"idle", "done", "uncertain", "failed", "gone"}

WriterDies(w) ==
    /\ wpc[w] \notin Settled /\ PublishFault /\ WriterGoes(w, "gone")
    /\ UNCHANGED <<entry, mayRemain, renames, turn, temporary, content, onDisk>>

\* The path names one of the files it may name; what was not synced is torn.
PowerLoss ==
    /\ PublishFault
    /\ entry' \in mayRemain /\ mayRemain' = {entry'}
    /\ content' = onDisk
    /\ wpc' = [w \in Writers |-> IF wpc[w] \in Settled THEN wpc[w] ELSE "gone"]
    /\ UNCHANGED <<renames, turn, temporary, onDisk>>

WriterStep(w) ==
    \/ CreateTemporary(w) \/ WriteData(w) \/ SyncData(w) \/ Publish(w) \/ LookBack(w)
    \/ SyncParent(w) \/ RemoveTemporary(w) \/ WriterDies(w)

PublishNext == PowerLoss \/ \E w \in Writers : WriterStep(w)
PublishSpec == PublishInit /\ [][PublishNext]_publishVars

-----------------------------------------------------------------------------
(* Properties *)

\* Whenever the power fails, the path names a whole file or none.
PublishedIsWhole ==
    \A w \in mayRemain \ {"nobody"} : content[w] = "whole" /\ onDisk[w] = "whole"

\* A call that returned is durable: what the path names, after a power loss too,
\* was published by it or later.  An owned call that failed published nothing.
OutcomeIsTrue ==
    \A w \in Writers :
        /\ wpc[w] = "done" => mayRemain \subseteq {e \in Writers : turn[e] >= turn[w]}
        /\ w \in Owned /\ wpc[w] = "failed" => turn[w] = 0

=============================================================================
