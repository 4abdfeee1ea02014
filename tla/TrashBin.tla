------------------------------ MODULE TrashBin ------------------------------
(***************************************************************************)
(* What the batch operations of LocalJobManager promise about job records: *)
(* a record is live, in one batch, or erased.  A batch fills up from the   *)
(* live records it was opened for and is then committed as a whole or      *)
(* abandoned empty; a committed batch is either restored, record by        *)
(* record, or purged, and the choice between the two is never revised.     *)
(***************************************************************************)
CONSTANTS Jobs, Batches

VARIABLES
    live,    \* records the manager lists
    bin,     \* batch -> the records it holds
    gone,    \* erased records
    chosen,  \* batch -> the records it was opened for
    status   \* batch -> how far it has come

binVars == <<live, bin, gone, chosen, status>>

Status == {"free", "open", "trashed", "restoring", "purging"}

Init ==
    /\ live = {} /\ gone = {}
    /\ bin = [b \in Batches |-> {}]
    /\ chosen = [b \in Batches |-> {}]
    /\ status = [b \in Batches |-> "free"]

Become(b, s) == status' = [status EXCEPT ![b] = s]

Create(j) ==
    /\ j \notin live \cup gone
    /\ \A b \in Batches : j \notin bin[b]
    /\ live' = live \cup {j}
    /\ UNCHANGED <<bin, gone, chosen, status>>

Open(b, S) ==
    /\ status[b] = "free" /\ chosen[b] = {}
    /\ S # {} /\ S \subseteq live
    /\ chosen' = [chosen EXCEPT ![b] = S]
    /\ Become(b, "open")
    /\ UNCHANGED <<live, bin, gone>>

Take(b, j) ==
    /\ status[b] = "open" /\ j \in chosen[b] \cap live
    /\ live' = live \ {j}
    /\ bin' = [bin EXCEPT ![b] = @ \cup {j}]
    /\ UNCHANGED <<gone, chosen, status>>

PutBack(b, j) ==
    /\ status[b] \in {"open", "restoring"} /\ j \in bin[b]
    /\ live' = live \cup {j}
    /\ bin' = [bin EXCEPT ![b] = @ \ {j}]
    /\ UNCHANGED <<gone, chosen, status>>

Commit(b) ==
    /\ status[b] = "open" /\ bin[b] = chosen[b]
    /\ Become(b, "trashed")
    /\ UNCHANGED <<live, bin, gone, chosen>>

Decide(b) ==
    /\ status[b] = "trashed"
    /\ Become(b, "restoring") \/ Become(b, "purging")
    /\ UNCHANGED <<live, bin, gone, chosen>>

Erase(b, j) ==
    /\ status[b] = "purging" /\ j \in bin[b]
    /\ bin' = [bin EXCEPT ![b] = @ \ {j}]
    /\ gone' = gone \cup {j}
    /\ UNCHANGED <<live, chosen, status>>

Close(b) ==
    /\ status[b] \in {"open", "restoring", "purging"} /\ bin[b] = {}
    /\ Become(b, "free")
    /\ UNCHANGED <<live, bin, gone, chosen>>

Next ==
    \/ \E j \in Jobs : Create(j)
    \/ \E b \in Batches :
          \/ \E S \in SUBSET Jobs : Open(b, S)
          \/ Commit(b) \/ Decide(b) \/ Close(b)
          \/ \E j \in Jobs : Take(b, j) \/ PutBack(b, j) \/ Erase(b, j)

BinSpec == Init /\ [][Next]_binVars
=============================================================================
