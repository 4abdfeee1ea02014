------------------------ MODULE TrashTransactionsProof ------------------------
(*****************************************************************************)
(* The inductive invariant of TrashTransactions, for every set of jobs,      *)
(* workspaces and batches, any number of deaths and any set of faults; what  *)
(* a step may do to the directories it moves; that the operations implement  *)
(* TrashBin; why start() never refuses to recover, and why operations end.   *)
(*****************************************************************************)
EXTENDS TrashTransactions, TLAPS

\* What the invariant says of the disk, and what it says of the lock holder.
DiskInv    == OneIntent /\ OnlySubmitted /\ HoldsRecorded /\ ManifestCovers
                /\ NothingLost /\ WholeBatch /\ AuditIsTrue
ControlInv == OwnsIntent /\ BatchInHand /\ PassedIsRemoved

disk == <<life, live, record, tx, action, phase, manifest, audit,
          sdir, wdir, roots, records, held>>

-----------------------------------------------------------------------------
(* Control *)

\* The lock holder has an operation in hand exactly when it works on a batch.
LEMMA BatchInHandExists ==
    ASSUME TypeOK, pc # "idle" PROVE cur \in Batches
  BY DEF TypeOK

\* A raised operation ends, or its rollback begins.
LEMMA RaiseEffect ==
    ASSUME TypeOK, NEW cause, Raise(cause)
    PROVE  \/ /\ pc' = "idle" /\ cur' = "none" /\ todo' = {}
              /\ mgr' \in {"down", "refused", mgr}
           \/ /\ pc \in GuardedSteps /\ cur \in tx' /\ cur' = cur /\ mgr' = mgr
              /\ pc' = "move-back" /\ todo' = Moves(cur)
  BY DEF Raise, Go, Return, TypeOK

\* Nothing is required of an idle lock holder.
LEMMA IdleControl ==
    ASSUME pc' = "idle" PROVE ControlInv'
  BY DEF ControlInv, OwnsIntent, BatchInHand, PassedIsRemoved, ApplySteps, GuardedSteps,
         RollbackSteps, RestoreSteps, PurgeSteps

\* A raise leaves the lock holder in order.
LEMMA RaiseControl ==
    ASSUME TypeOK, NEW cause, Raise(cause), record' = record, HoldsRecorded'
    PROVE  ControlInv'
  <1>1. CASE pc' = "idle"
    BY <1>1, IdleControl
  <1>2. CASE /\ pc \in GuardedSteps /\ cur \in tx' /\ cur' = cur
             /\ pc' = "move-back" /\ todo' = Moves(cur)
    <2>1. cur \in Batches
      BY <1>2, BatchInHandExists DEF GuardedSteps
    <2>2. held'[cur] \subseteq Moves(cur)
      BY <2>1 DEF HoldsRecorded, Moves, Moved
    <2> QED
      BY <1>2, <2>2 DEF ControlInv, OwnsIntent, BatchInHand, PassedIsRemoved, ApplySteps,
         GuardedSteps, RollbackSteps, RestoreSteps, PurgeSteps, Moves, Moved
  <1> QED
    BY <1>1, <1>2, RaiseEffect

\* The disk part of the invariant reads nothing but the disk.
LEMMA DiskFrame ==
    ASSUME DiskInv, UNCHANGED disk PROVE DiskInv'
  BY DEF DiskInv, disk, OneIntent, OnlySubmitted, HoldsRecorded, ManifestCovers, NothingLost, WholeBatch,
         AuditIsTrue, Closed, Empty, Complete, Erasing, Moves, Moved

-----------------------------------------------------------------------------
(* Types *)

ControlType ==
    /\ mgr \in {"down", "starting", "up", "refused"}
    /\ cur \in Batches \cup {"none"}
    /\ pc \in Steps
    /\ pc = "idle" <=> cur = "none"
    /\ todo \subseteq Items \cup DirEntries

DiskType ==
    /\ life \in [Jobs -> {"absent", "active", "terminal"}]
    /\ live \subseteq Jobs
    /\ version \in [Workspaces -> 0..MaxVersions]
    /\ fresh \in 0..MaxVersions
    /\ record \in [Batches -> TrashRecord]
    /\ tx \subseteq Batches
    /\ action \in [Batches -> {"none", "restore", "purge"}]
    /\ phase \in [Batches -> {"prepared", "moving", "finalizing"}]
    /\ manifest \in [Batches -> SUBSET (Items \cup DirEntries)]
    /\ audit \in [Batches -> {"none", "restored", "purged"}]
    /\ sdir \in [Batches -> DirNames]
    /\ wdir \in [Batches -> DirNames]
    /\ roots \subseteq Batches
    /\ records \subseteq Batches
    /\ held \in [Batches -> SUBSET Items]
    /\ crashes \in 0..MaxCrashes

\* The parts of the invariant, now and after a step.
LEMMA Parts ==
    ASSUME Inductive
    PROVE  TypeOK /\ DiskType /\ ControlType /\ DiskInv /\ ControlInv
  BY DEF Inductive, TypeOK, DiskType, ControlType, DiskInv, ControlInv

LEMMA PartsNext ==
    ASSUME DiskType', ControlType', DiskInv', ControlInv' PROVE Inductive'
  BY DEF Inductive, TypeOK, DiskType, ControlType, DiskInv, ControlInv

\* What a batch moves are items.
LEMMA MovesAreItems ==
    ASSUME DiskType, NEW b \in Batches
    PROVE  /\ record[b].jobs \subseteq Jobs /\ record[b].kept \subseteq Workspaces
           /\ Moved(b) \subseteq Workspaces
           /\ Moves(b) \subseteq Items
           /\ \A w \in Workspaces : record[b].moved[w] \in 0..MaxVersions
  BY DEF DiskType, TrashRecord, Moves, Moved, Items

LEMMA RaiseType ==
    ASSUME TypeOK, DiskType, NEW cause, Raise(cause) PROVE ControlType'
  <1>1. CASE pc' = "idle" /\ cur' = "none" /\ todo' = {} /\ mgr' \in {"down", "refused", mgr}
    BY <1>1 DEF ControlType, TypeOK, Steps
  <1>2. CASE /\ pc \in GuardedSteps /\ cur' = cur /\ mgr' = mgr
             /\ pc' = "move-back" /\ todo' = Moves(cur)
    <2>1. cur \in Batches
      BY <1>2, BatchInHandExists DEF GuardedSteps
    <2> QED
      BY <1>2, <2>1, MovesAreItems, NamesAreDistinct DEF ControlType, TypeOK, Steps, RollbackSteps
  <1>3. \/ pc' = "idle" /\ cur' = "none" /\ todo' = {} /\ mgr' \in {"down", "refused", mgr}
        \/ /\ pc \in GuardedSteps /\ cur' = cur /\ mgr' = mgr
           /\ pc' = "move-back" /\ todo' = Moves(cur)
    BY RaiseEffect
  <1> QED
    BY <1>1, <1>2, <1>3

LEMMA GoType ==
    ASSUME TypeOK, NEW step \in Steps \ {"idle"},
           NEW loop \in SUBSET (Items \cup DirEntries), pc # "idle", Go(step, loop)
    PROVE  ControlType'
  BY DEF Go, ControlType, TypeOK, Steps

\* A raise leaves the control in order.
LEMMA RaiseKeeps ==
    ASSUME Inductive, NEW cause, Raise(cause), record' = record, DiskInv'
    PROVE  ControlType' /\ ControlInv'
  BY Parts, RaiseType, RaiseControl DEF DiskInv

\* After an effect, it is enough that the next step finds what it relies on.
LEMMA ThenKeeps ==
    ASSUME Inductive, pc # "idle", NEW out, NEW step \in Steps \ {"idle"},
           NEW loop \in SUBSET (Items \cup DirEntries), Then(out, step, loop),
           record' = record, DiskInv', out = "done" /\ Go(step, loop) => ControlInv'
    PROVE  ControlType' /\ ControlInv'
  BY Parts, GoType, RaiseKeeps DEF Then

-----------------------------------------------------------------------------
(* What happens to the directories of a batch whose intent is pending *)

\* A step of an operation changes the directories of its own batch only.
Elsewhere(b) ==
    /\ sdir' = [sdir EXCEPT ![b] = sdir'[b]]
    /\ wdir' = [wdir EXCEPT ![b] = wdir'[b]]
    /\ roots' \ {b} = roots \ {b}
    /\ records' \ {b} = records \ {b}

LEMMA OwnDirs ==
    ASSUME DiskType, DiskInv, NEW b \in Batches, ~Closed(b), Elsewhere(b),
           UNCHANGED <<life, live, intents, held>>,
           wdir'[b] # "none" => Moved(b) # {},
           audit[b] # "none" => sdir'[b] = "none" /\ wdir'[b] = "none",
           action[b] = "purge" =>
              /\ b \in records' => b \in records
              /\ b \in roots' => b \in roots
              /\ sdir'[b] # "none" => sdir[b] # "none"
              /\ wdir'[b] # "none" => wdir[b] # "none"
    PROVE  DiskInv'
  <1>1. \A c \in Batches : c # b =>
            /\ sdir'[c] = sdir[c] /\ wdir'[c] = wdir[c]
            /\ c \in roots' <=> c \in roots
            /\ c \in records' <=> c \in records
    BY DEF Elsewhere, DiskType
  <1>2. OneIntent' /\ OnlySubmitted'
    BY <1>1 DEF DiskInv, OneIntent, OnlySubmitted, Closed, Empty, intents
  <1>3. HoldsRecorded'
    BY <1>1 DEF DiskInv, HoldsRecorded, intents, Moves, Moved
  <1>4. ManifestCovers'
    BY <1>1 DEF DiskInv, ManifestCovers, intents
  <1>5. NothingLost'
    BY DEF DiskInv, NothingLost, intents, Erasing
  <1>6. WholeBatch'
    BY <1>1 DEF DiskInv, WholeBatch, Closed, Empty, Complete, intents, Moves, Moved
  <1>7. AuditIsTrue'
    BY <1>1 DEF DiskInv, AuditIsTrue, intents
  <1> QED
    BY <1>2, <1>3, <1>4, <1>5, <1>6, <1>7 DEF DiskInv

\* An item comes home from a batch whose intent is pending.
LEMMA TakenHome ==
    ASSUME DiskType, DiskInv, NEW b \in Batches, NEW i \in held[b], ~Closed(b),
           TakeHome(b, i), UNCHANGED <<life, intents, sdir, wdir, roots, records>>
    PROVE  DiskInv'
  <1>1. /\ held'[b] = held[b] \ {i}
        /\ \A c \in Batches : c # b => held'[c] = held[c]
    BY DEF TakeHome, DiskType
  <1>2. OneIntent'
    BY <1>1 DEF DiskInv, OneIntent, Closed, Empty, intents
  <1>3. HoldsRecorded' /\ ManifestCovers' /\ AuditIsTrue'
    BY <1>1 DEF DiskInv, HoldsRecorded, ManifestCovers, AuditIsTrue, intents, Moves, Moved
  <1>4. NothingLost'
    BY <1>1 DEF TakeHome, DiskInv, NothingLost, intents, Erasing
  <1>5. WholeBatch'
    BY <1>1 DEF DiskInv, WholeBatch, Closed, Empty, Complete, intents, Moves, Moved
  <1>6. OnlySubmitted'
    <2>1. i \in Jobs => i \in record[b].jobs
      BY MovesAreItems, NamesAreDistinct DEF DiskInv, HoldsRecorded, Moves
    <2> QED
      BY <2>1 DEF TakeHome, DiskInv, OnlySubmitted, intents
  <1> QED
    BY <1>2, <1>3, <1>4, <1>5, <1>6 DEF DiskInv

\* An item goes into a batch that is being filled.
LEMMA TakenAway ==
    ASSUME DiskType, DiskInv, NEW b \in tx, NEW i \in Moves(b), AtHome(i),
           TakeAway(b, i), UNCHANGED <<life, intents, sdir, wdir, roots, records>>
    PROVE  DiskInv'
  <1>0. b \in Batches /\ ~Closed(b) /\ action[b] = "none" /\ audit[b] = "none"
    BY DEF DiskType, DiskInv, OneIntent, Closed
  <1>1. /\ held'[b] = held[b] \cup {i}
        /\ \A c \in Batches : c # b => held'[c] = held[c]
    BY <1>0 DEF TakeAway, DiskType
  <1>2. OneIntent' /\ OnlySubmitted'
    BY <1>0, <1>1 DEF DiskInv, TakeAway, OneIntent, OnlySubmitted, Closed, Empty, intents
  <1>3. HoldsRecorded' /\ ManifestCovers' /\ AuditIsTrue'
    BY <1>0, <1>1 DEF DiskInv, HoldsRecorded, ManifestCovers, AuditIsTrue, intents, Moves, Moved
  <1>4. NothingLost'
    <2>1. CASE i \in Jobs
      <3>1. i \in live /\ i \in record[b].jobs
        BY <1>0, <2>1, MovesAreItems, NamesAreDistinct DEF AtHome, Moves
      <3> QED
        BY <1>0, <1>1, <2>1, <3>1 DEF TakeAway, DiskInv, DiskType, NothingLost, intents, Erasing
    <2>2. CASE i \in Workspaces
      <3>1. live' = live /\ \A c \in Batches : \A j \in Jobs : j \in held'[c] <=> j \in held[c]
        BY <1>1, <2>2, NamesAreDistinct DEF TakeAway, DiskType
      <3> QED
        BY <3>1 DEF DiskInv, NothingLost, intents, Erasing
    <2> QED
      BY <1>0, <2>1, <2>2, MovesAreItems DEF Items
  <1>5. WholeBatch'
    BY <1>0, <1>1 DEF DiskInv, WholeBatch, Closed, Empty, Complete, intents, Moves, Moved
  <1> QED
    BY <1>2, <1>3, <1>4, <1>5 DEF DiskInv

\* A purge in its last phase removes an entry.
LEMMA EntryRemoved ==
    ASSUME DiskType, DiskInv, cur \in Batches, Erasing(cur), NEW e, RemoveEntry(e),
           UNCHANGED <<clients, intents>>
    PROVE  DiskInv'
  <1>0. ~Closed(cur) /\ record[cur].jobs # {}
    BY DEF DiskInv, OneIntent, Closed, Erasing
  <1>1. /\ held'[cur] = held[cur] \ {e}
        /\ \A c \in Batches : c # cur =>
            /\ held'[c] = held[c] /\ sdir'[c] = sdir[c] /\ wdir'[c] = wdir[c]
            /\ c \in roots' <=> c \in roots
            /\ c \in records' <=> c \in records
        /\ wdir'[cur] \in {"none", wdir[cur]} /\ sdir'[cur] \in {"none", sdir[cur]}
        /\ roots' \subseteq roots /\ records' \subseteq records
    BY DEF RemoveEntry, DiskType
  <1>2. OneIntent' /\ OnlySubmitted'
    BY <1>0, <1>1 DEF DiskInv, OneIntent, OnlySubmitted, Closed, Empty, clients, intents
  <1>3. HoldsRecorded' /\ ManifestCovers' /\ AuditIsTrue'
    BY <1>1 DEF DiskInv, HoldsRecorded, ManifestCovers, AuditIsTrue, intents, Moves, Moved
  <1>4. NothingLost'
    <2>1. \A j \in Jobs : \A b \in Batches : j \in held'[b] =>  j \in held[b]
      BY <1>1
    <2>2. \A j \in Jobs : \A b \in Batches : j \in held[b] /\ j \notin held'[b] => b = cur /\ j = e
      BY <1>1
    <2>3. life' = life /\ live' = live /\ record' = record /\ audit' = audit
          /\ action' = action /\ phase' = phase
      BY DEF clients, intents
    <2>4. CASE e \in held[cur] /\ e \in Jobs
      <3>1. e \in record[cur].jobs
        BY <2>4, MovesAreItems, NamesAreDistinct DEF DiskInv, HoldsRecorded, Moves
      <3> QED
        BY <2>1, <2>2, <2>3, <2>4, <3>1, <1>1 DEF DiskInv, NothingLost, Erasing
    <2>5. CASE ~(e \in held[cur] /\ e \in Jobs)
      BY <2>1, <2>2, <2>3, <2>5 DEF DiskInv, NothingLost, Erasing
    <2> QED
      BY <2>4, <2>5
  <1>5. WholeBatch'
    BY <1>0, <1>1 DEF DiskInv, WholeBatch, Closed, Empty, Complete, intents, Moves, Moved
  <1> QED
    BY <1>2, <1>3, <1>4, <1>5 DEF DiskInv

-----------------------------------------------------------------------------
(* apply_batch_delete *)

\* A transaction in hand is the only intent of its batch.
LEMMA TransactionInHand ==
    ASSUME Inductive, pc \in ApplySteps \cup GuardedSteps \cup RollbackSteps
    PROVE  /\ cur \in Batches /\ pc # "idle" /\ cur \in tx
           /\ action[cur] = "none" /\ audit[cur] = "none" /\ ~Closed(cur)
  <1>1. pc # "idle"
    BY DEF ApplySteps, GuardedSteps, RollbackSteps
  <1>2. cur \in Batches
    BY <1>1, Parts, BatchInHandExists
  <1>3. cur \in tx
    BY DEF Inductive, OwnsIntent
  <1> QED
    BY <1>1, <1>2, <1>3 DEF Inductive, OneIntent, Closed

LEMMA CreateStagingStep == ASSUME Inductive, CreateStaging PROVE Inductive'
  <1>1. /\ cur \in Batches /\ pc # "idle" /\ cur \in tx
        /\ action[cur] = "none" /\ audit[cur] = "none" /\ ~Closed(cur)
    BY TransactionInHand DEF CreateStaging, ApplySteps
  <1>2. TypeOK /\ DiskType /\ ControlType /\ DiskInv /\ ControlInv
    BY Parts
  <1>3. DiskType'
    BY <1>1, <1>2 DEF CreateStaging, DiskType, DirNames, clients, intents
  <1>4. DiskInv'
    <2>1. Elsewhere(cur)
      BY <1>1, <1>2 DEF CreateStaging, Elsewhere, DiskType
    <2>2. wdir'[cur] # "none" => Moved(cur) # {}
      <3>1. wdir[cur] # "none" => Moved(cur) # {}
        BY <1>1, <1>2 DEF DiskInv, HoldsRecorded
      <3>2. CASE pc = "stage-workspaces"
        BY <1>2, <3>2 DEF ControlInv, BatchInHand, CreateStaging, intents, Moved
      <3>3. CASE pc # "stage-workspaces"
        BY <3>1, <3>3 DEF CreateStaging
      <3> QED
        BY <3>2, <3>3
    <2> QED
      BY <1>1, <1>2, <2>1, <2>2, OwnDirs DEF CreateStaging, clients
  <1>5. ControlType' /\ ControlInv'
    <2>1. ASSUME NEW out, NEW step, NEW loop \in {{}, Moves(cur)}, Then(out, step, loop),
                 \/ step = "stage-jobs"
                 \/ step = "stage-workspaces" /\ Moved(cur) # {}
                 \/ step = "move-out"
          PROVE  ControlType' /\ ControlInv'
      <3>1. step \in Steps \ {"idle"} /\ loop \in SUBSET (Items \cup DirEntries)
        BY <1>1, <1>2, <2>1, MovesAreItems DEF Steps, ApplySteps, GuardedSteps
      <3>2. Go(step, loop) => ControlInv'
        BY <1>1, <1>2, <2>1 DEF CreateStaging, clients, intents, Go, ControlInv, OwnsIntent,
           BatchInHand, PassedIsRemoved, Moves, Moved,
           ApplySteps, GuardedSteps, RollbackSteps, RestoreSteps, PurgeSteps
      <3> QED
        BY <1>1, <1>4, <2>1, <3>1, <3>2, ThenKeeps DEF CreateStaging, intents
    <2> QED
      BY <2>1 DEF CreateStaging
  <1> QED
    BY <1>3, <1>4, <1>5, PartsNext

LEMMA MoveOutStep == ASSUME Inductive, MoveOut PROVE Inductive'
  <1>1. /\ cur \in Batches /\ pc # "idle" /\ cur \in tx
        /\ action[cur] = "none" /\ audit[cur] = "none" /\ ~Closed(cur)
    BY TransactionInHand DEF MoveOut, GuardedSteps
  <1>2. TypeOK /\ DiskType /\ ControlType /\ DiskInv /\ ControlInv
    BY Parts
  <1>3. todo \subseteq Moves(cur) /\ NextItems \subseteq todo /\ todo \subseteq Items
    BY <1>1, <1>2, MovesAreItems DEF MoveOut, ControlInv, BatchInHand, NextItems
  <1>4. \/ LeaveItems /\ (Go("write-record", {}) \/ Raise("check") \/ Raise("io"))
        \/ \E i \in Moves(cur) : /\ AtHome(i) /\ TakeAway(cur, i)
                                 /\ Go("move-out", todo \ {i}) \/ Raise("io")
    BY <1>3 DEF MoveOut, Then
  <1>5. DiskType'
    <2>1. LeaveItems \/ \E i \in Items : TakeAway(cur, i)
      BY <1>1, <1>2, <1>4, MovesAreItems
    <2> QED
      BY <1>1, <1>2, <2>1, BoundsAssumption
         DEF MoveOut, TakeAway, LeaveItems, DiskType, intents
  <1>6. DiskInv'
    <2>1. CASE LeaveItems
      BY <1>2, <2>1, DiskFrame DEF MoveOut, LeaveItems, disk, intents
    <2>2. CASE \E i \in Moves(cur) : AtHome(i) /\ TakeAway(cur, i)
      BY <1>1, <1>2, <2>2, TakenAway DEF MoveOut
    <2> QED
      BY <1>4, <2>1, <2>2
  <1>7. ControlType' /\ ControlInv'
    <2>1. CASE Go("write-record", {})
      <3>1. ControlType'
        BY <1>1, <1>2, <2>1, GoType DEF Steps, GuardedSteps
      <3>2. ControlInv'
        BY <1>1, <2>1 DEF MoveOut, intents, Go, ControlInv, OwnsIntent, BatchInHand,
           PassedIsRemoved, ApplySteps, GuardedSteps, RollbackSteps, RestoreSteps, PurgeSteps
      <3> QED
        BY <3>1, <3>2
    <2>2. CASE \E i \in Moves(cur) : TakeAway(cur, i) /\ Go("move-out", todo \ {i})
      <3>1. PICK i \in Moves(cur) : TakeAway(cur, i) /\ Go("move-out", todo \ {i})
        BY <2>2
      <3>2. held'[cur] \cap (todo \ {i}) = {}
        BY <1>1, <1>2, <3>1 DEF MoveOut, TakeAway, DiskType, ControlInv, BatchInHand
      <3>3. ControlType'
        BY <1>1, <1>2, <1>3, <3>1, GoType DEF Steps, GuardedSteps
      <3>4. ControlInv'
        BY <1>1, <1>3, <3>1, <3>2 DEF MoveOut, intents, Go, ControlInv, OwnsIntent, BatchInHand,
           Moves, Moved, PassedIsRemoved,
           ApplySteps, GuardedSteps, RollbackSteps, RestoreSteps, PurgeSteps
      <3> QED
        BY <3>3, <3>4
    <2>3. CASE Raise("check") \/ Raise("io")
      BY <1>6, <2>3, RaiseKeeps DEF MoveOut, intents
    <2> QED
      BY <1>4, <2>1, <2>2, <2>3
  <1> QED
    BY <1>5, <1>6, <1>7, PartsNext

LEMMA WriteTrashRecordStep == ASSUME Inductive, WriteTrashRecord PROVE Inductive'
  <1>1. /\ cur \in Batches /\ pc # "idle" /\ cur \in tx
        /\ action[cur] = "none" /\ audit[cur] = "none" /\ ~Closed(cur)
    BY TransactionInHand DEF WriteTrashRecord, GuardedSteps
  <1>2. TypeOK /\ DiskType /\ ControlType /\ DiskInv /\ ControlInv
    BY Parts
  <1>3. DiskType'
    BY <1>1, <1>2 DEF WriteTrashRecord, DiskType, clients, intents
  <1>4. DiskInv'
    <2>1. Elsewhere(cur)
      BY <1>1, <1>2 DEF WriteTrashRecord, Elsewhere, DiskType
    <2>2. wdir[cur] # "none" => Moved(cur) # {}
      BY <1>1, <1>2 DEF DiskInv, HoldsRecorded
    <2> QED
      BY <1>1, <1>2, <2>1, <2>2, OwnDirs DEF WriteTrashRecord, clients
  <1>5. ControlType' /\ ControlInv'
    <2>1. Go("publish", {}) => ControlInv'
      BY <1>1 DEF WriteTrashRecord, intents, Go, ControlInv, OwnsIntent, BatchInHand,
         PassedIsRemoved, ApplySteps, GuardedSteps, RollbackSteps, RestoreSteps, PurgeSteps
    <2> QED
      BY <1>1, <1>4, <2>1, ThenKeeps DEF WriteTrashRecord, intents, Steps, GuardedSteps
  <1> QED
    BY <1>3, <1>4, <1>5, PartsNext

LEMMA BeginPublishStep == ASSUME Inductive, BeginPublish PROVE Inductive'
  <1>1. /\ cur \in Batches /\ pc # "idle" /\ cur \in tx
    BY TransactionInHand DEF BeginPublish, GuardedSteps
  <1>2. TypeOK /\ DiskType /\ ControlType /\ DiskInv /\ ControlInv
    BY Parts
  <1>3. DiskType'
    BY <1>2 DEF BeginPublish, DiskType, clients, intents, dirs
  <1>4. DiskInv'
    BY <1>2, DiskFrame DEF BeginPublish, disk, clients, intents, dirs
  <1>5. \/ \E step \in {"verify", "publish-workspaces", "publish-state"} : Go(step, {})
        \/ Raise("check")
    BY DEF BeginPublish
  <1>6. ControlType' /\ ControlInv'
    <2>1. ASSUME NEW step \in {"verify", "publish-workspaces", "publish-state"}, Go(step, {})
          PROVE  ControlType' /\ ControlInv'
      <3>1. ControlType'
        BY <1>1, <1>2, <2>1, GoType DEF Steps, GuardedSteps
      <3>2. ControlInv'
        BY <1>1, <2>1 DEF BeginPublish, intents, Go, ControlInv, OwnsIntent, BatchInHand,
           PassedIsRemoved, ApplySteps, GuardedSteps, RollbackSteps, RestoreSteps, PurgeSteps
      <3> QED
        BY <3>1, <3>2
    <2> QED
      BY <1>4, <1>5, <2>1, RaiseKeeps DEF BeginPublish, intents
  <1> QED
    BY <1>3, <1>4, <1>6, PartsNext

LEMMA PublishWorkspacesStep == ASSUME Inductive, PublishWorkspaces PROVE Inductive'
  <1>1. /\ cur \in Batches /\ pc # "idle" /\ cur \in tx
        /\ action[cur] = "none" /\ audit[cur] = "none" /\ ~Closed(cur)
    BY TransactionInHand DEF PublishWorkspaces, GuardedSteps
  <1>2. TypeOK /\ DiskType /\ ControlType /\ DiskInv /\ ControlInv
    BY Parts
  <1>3. DiskType'
    BY <1>1, <1>2 DEF PublishWorkspaces, DiskType, DirNames, clients, intents
  <1>4. DiskInv'
    <2>1. Elsewhere(cur) /\ (wdir'[cur] # "none" => wdir[cur] # "none")
      BY <1>1, <1>2 DEF PublishWorkspaces, Elsewhere, DiskType
    <2>2. wdir[cur] # "none" => Moved(cur) # {}
      BY <1>1, <1>2 DEF DiskInv, HoldsRecorded
    <2> QED
      BY <1>1, <1>2, <2>1, <2>2, OwnDirs DEF PublishWorkspaces, clients
  <1>5. ControlType' /\ ControlInv'
    <2>1. Go("publish-state", {}) => ControlInv'
      BY <1>1 DEF PublishWorkspaces, intents, Go, ControlInv, OwnsIntent, BatchInHand,
         PassedIsRemoved, ApplySteps, GuardedSteps, RollbackSteps, RestoreSteps, PurgeSteps
    <2> QED
      BY <1>1, <1>4, <2>1, ThenKeeps, RaiseKeeps
         DEF PublishWorkspaces, intents, Steps, GuardedSteps
  <1> QED
    BY <1>3, <1>4, <1>5, PartsNext

LEMMA PublishStateStep == ASSUME Inductive, PublishState PROVE Inductive'
  <1>1. /\ cur \in Batches /\ pc # "idle" /\ cur \in tx
        /\ action[cur] = "none" /\ audit[cur] = "none" /\ ~Closed(cur)
    BY TransactionInHand DEF PublishState, GuardedSteps
  <1>2. TypeOK /\ DiskType /\ ControlType /\ DiskInv /\ ControlInv
    BY Parts
  <1>3. DiskType'
    BY <1>1, <1>2 DEF PublishState, DiskType, DirNames, clients, intents
  <1>4. DiskInv'
    <2>1. Elsewhere(cur)
      BY <1>1, <1>2 DEF PublishState, Elsewhere, DiskType
    <2>2. wdir[cur] # "none" => Moved(cur) # {}
      BY <1>1, <1>2 DEF DiskInv, HoldsRecorded
    <2> QED
      BY <1>1, <1>2, <2>1, <2>2, OwnDirs DEF PublishState, clients
  <1>5. ControlType' /\ ControlInv'
    <2>1. Go("verify", {}) => ControlInv'
      BY <1>1 DEF PublishState, intents, Go, ControlInv, OwnsIntent, BatchInHand,
         PassedIsRemoved, ApplySteps, GuardedSteps, RollbackSteps, RestoreSteps, PurgeSteps
    <2> QED
      BY <1>1, <1>4, <2>1, ThenKeeps DEF PublishState, intents, Steps, GuardedSteps
  <1> QED
    BY <1>3, <1>4, <1>5, PartsNext

\* A verified batch is complete.
LEMMA VerifyPublishedStep == ASSUME Inductive, VerifyPublished PROVE Inductive'
  <1>1. /\ cur \in Batches /\ pc # "idle" /\ cur \in tx /\ ~Closed(cur)
    BY TransactionInHand DEF VerifyPublished, GuardedSteps
  <1>2. TypeOK /\ DiskType /\ ControlType /\ DiskInv /\ ControlInv
    BY Parts
  <1>3. DiskType' /\ DiskInv'
    BY <1>2, DiskFrame DEF VerifyPublished, DiskType, disk, clients, intents, dirs
  <1>4. Verified(cur) => Complete(cur)
    <2>1. held[cur] \subseteq Moves(cur) /\ (wdir[cur] # "none" => Moved(cur) # {})
          /\ record[cur].jobs # {}
      BY <1>1, <1>2 DEF DiskInv, HoldsRecorded, OneIntent
    <2>2. held[cur] = JobsIn(cur) \cup WorkspacesIn(cur)
      BY <1>1, <1>2 DEF DiskType, Items, JobsIn, WorkspacesIn
    <2> QED
      BY <2>1, <2>2 DEF Verified, Complete, Moves
  <1>5. ControlType' /\ ControlInv'
    <2>1. CASE Go("commit", {}) /\ Verified(cur)
      <3>1. ControlType'
        BY <1>1, <1>2, <2>1, GoType DEF Steps, GuardedSteps
      <3>2. Complete(cur)'
        BY <1>4, <2>1 DEF VerifyPublished, clients, intents, dirs, Go, Complete, Moves, Moved
      <3>3. ControlInv'
        BY <1>1, <2>1, <3>2 DEF VerifyPublished, intents, Go, ControlInv, OwnsIntent, BatchInHand,
           PassedIsRemoved, ApplySteps, GuardedSteps, RollbackSteps, RestoreSteps, PurgeSteps
      <3> QED
        BY <3>1, <3>3
    <2> QED
      BY <1>3, <2>1, RaiseKeeps DEF VerifyPublished, intents
  <1> QED
    BY <1>3, <1>5, PartsNext

LEMMA RemoveTransactionStep == ASSUME Inductive, RemoveTransaction PROVE Inductive'
  <1>1. /\ cur \in Batches /\ pc # "idle" /\ cur \in tx
        /\ action[cur] = "none" /\ audit[cur] = "none"
    BY TransactionInHand DEF RemoveTransaction, GuardedSteps, RollbackSteps
  <1>2. TypeOK /\ DiskType /\ ControlType /\ DiskInv /\ ControlInv
    BY Parts
  <1>3. Empty(cur) \/ Complete(cur)
    BY <1>2 DEF RemoveTransaction, ControlInv, BatchInHand, RollbackSteps, Empty
  <1>4. /\ tx' \in {tx, tx \ {cur}}
        /\ UNCHANGED <<clients, record, action, phase, manifest, audit, dirs, crashes>>
        /\ Return \/ Raise("io")
    BY DEF RemoveTransaction
  <1>5. DiskType'
    BY <1>2, <1>4 DEF DiskType, clients, dirs
  <1>6. DiskInv'
    <2>1. OneIntent' /\ OnlySubmitted' /\ HoldsRecorded' /\ ManifestCovers' /\ AuditIsTrue'
      BY <1>2, <1>4 DEF DiskInv, OneIntent, OnlySubmitted, HoldsRecorded, ManifestCovers, AuditIsTrue, Closed,
         Empty, clients, dirs, Moves, Moved
    <2>2. NothingLost'
      BY <1>2, <1>4 DEF DiskInv, NothingLost, Erasing, clients, dirs
    <2>3. WholeBatch'
      BY <1>2, <1>3, <1>4 DEF DiskInv, WholeBatch, Closed, Empty, Complete, clients, dirs,
         Moves, Moved
    <2> QED
      BY <2>1, <2>2, <2>3 DEF DiskInv
  <1>7. ControlType' /\ ControlInv'
    <2>1. CASE Return
      BY <1>2, <2>1, IdleControl DEF Return, ControlType, Steps
    <2> QED
      BY <1>4, <1>6, <2>1, RaiseKeeps
  <1> QED
    BY <1>5, <1>6, <1>7, PartsNext

-----------------------------------------------------------------------------
(* Rollback and restore *)

\* A pending batch gets rid of what is left of its directories.
LEMMA Removal ==
    ASSUME Inductive, cur \in Batches, ~Closed(cur), NEW at, NEW next,
           \/ RemoveRecordFile(at, next) \/ RemoveJobsRoot(at, next)
           \/ RemoveStateDir(at, next) \/ RemoveWorkspaceDir(at, next)
    PROVE  DiskType' /\ DiskInv'
  <1>1. DiskType /\ DiskInv
    BY Parts
  <1>2. /\ UNCHANGED <<clients, intents, held, crashes>>
        /\ records' \in {records, records \ {cur}} /\ roots' \in {roots, roots \ {cur}}
        /\ sdir' \in {sdir, [sdir EXCEPT ![cur] = "none"]}
        /\ wdir' \in {wdir, [wdir EXCEPT ![cur] = "none"]}
    BY DEF RemoveRecordFile, RemoveJobsRoot, RemoveStateDir, RemoveWorkspaceDir
  <1>3. DiskType'
    BY <1>1, <1>2 DEF DiskType, DirNames, clients, intents
  <1>4. DiskInv'
    <2>1. /\ Elsewhere(cur) /\ sdir'[cur] \in {"none", sdir[cur]}
          /\ wdir'[cur] \in {"none", wdir[cur]} /\ roots' \subseteq roots /\ records' \subseteq records
      BY <1>1, <1>2 DEF Elsewhere, DiskType
    <2>2. /\ wdir[cur] # "none" => Moved(cur) # {}
          /\ audit[cur] # "none" => sdir[cur] = "none" /\ wdir[cur] = "none"
      BY <1>1 DEF DiskInv, HoldsRecorded, AuditIsTrue
    <2> QED
      BY <1>1, <1>2, <2>1, <2>2, OwnDirs DEF clients
  <1> QED
    BY <1>3, <1>4

\* A pending batch gives an item back.
LEMMA Homecoming ==
    ASSUME Inductive, cur \in Batches, ~Closed(cur),
           LeaveItems \/ \E i \in held[cur] : TakeHome(cur, i),
           UNCHANGED <<life, fresh, intents, sdir, wdir, roots, records, crashes>>
    PROVE  DiskType' /\ DiskInv'
  <1>1. DiskType /\ DiskInv
    BY Parts
  <1>2. CASE LeaveItems
    BY <1>1, <1>2, DiskFrame DEF LeaveItems, DiskType, disk, intents
  <1>3. ASSUME NEW i \in held[cur], TakeHome(cur, i) PROVE DiskType' /\ DiskInv'
    <2>1. i \in Items /\ \A w \in Workspaces : record[cur].moved[w] \in 0..MaxVersions
      BY <1>1, <1>3, MovesAreItems DEF DiskType
    <2>2. DiskType'
      BY <1>1, <1>3, <2>1 DEF TakeHome, DiskType, intents, Items
    <2> QED
      BY <1>1, <1>3, <2>2, TakenHome
  <1> QED
    BY <1>2, <1>3

LEMMA MoveBackStep == ASSUME Inductive, MoveBack PROVE Inductive'
  <1>1. /\ cur \in Batches /\ pc # "idle" /\ cur \in tx /\ ~Closed(cur)
    BY TransactionInHand DEF MoveBack, RollbackSteps
  <1>2. TypeOK /\ DiskType /\ ControlType /\ DiskInv /\ ControlInv
    BY Parts
  <1>3. /\ todo \subseteq Moves(cur) /\ NextItems \subseteq todo /\ todo \subseteq Items
        /\ held[cur] \subseteq todo
    BY <1>1, <1>2, MovesAreItems DEF MoveBack, ControlInv, BatchInHand, NextItems
  <1>4. \/ LeaveItems /\ todo = {} /\ Go("drop-record", {})
        \/ LeaveItems /\ (Raise("check") \/ Raise("io"))
        \/ LeaveItems /\ \E i \in Items \ held[cur] : Go("move-back", todo \ {i})
        \/ \E i \in held[cur] : /\ TakeHome(cur, i)
                                /\ Go("move-back", todo \ {i}) \/ (Raise("check") \/ Raise("io"))
    <2>1. CASE LeaveItems /\ todo = {} /\ Go("drop-record", {})
      BY <2>1
    <2>2. ASSUME NEW i \in NextItems,
                 IF ~OneCopy(cur, i) THEN LeaveItems /\ Raise("check")
                 ELSE IF AtHome(i) THEN LeaveItems /\ Go("move-back", todo \ {i})
                 ELSE \E out \in Outcomes("move") :
                        /\ IF out = "raised" THEN LeaveItems ELSE TakeHome(cur, i)
                        /\ Then(out, "move-back", todo \ {i})
          PROVE  <1>4
      <3>1. i \in Items
        BY <1>3
      <3>2. CASE ~OneCopy(cur, i)
        BY <2>2, <3>2
      <3>3. CASE OneCopy(cur, i) /\ AtHome(i)
        BY <2>2, <3>1, <3>3 DEF OneCopy
      <3>4. CASE OneCopy(cur, i) /\ ~AtHome(i)
        BY <2>2, <3>1, <3>4 DEF OneCopy, Then
      <3> QED
        BY <3>2, <3>3, <3>4
    <2> QED
      BY <2>1, <2>2 DEF MoveBack
  <1>5. DiskType' /\ DiskInv'
    <2>1. LeaveItems \/ \E i \in held[cur] : TakeHome(cur, i)
      BY <1>4
    <2>2. UNCHANGED <<life, fresh, intents, sdir, wdir, roots, records, crashes>>
      BY DEF MoveBack
    <2> QED
      BY <1>1, <2>1, <2>2, Homecoming
  <1>6. ControlType' /\ ControlInv'
    <2>1. CASE LeaveItems /\ todo = {} /\ Go("drop-record", {})
      <3>1. ControlType'
        BY <1>1, <1>2, <2>1, GoType DEF Steps, RollbackSteps
      <3>2. ControlInv'
        BY <1>1, <1>3, <2>1 DEF MoveBack, LeaveItems, intents, Go, ControlInv, OwnsIntent,
           BatchInHand, PassedIsRemoved,
           ApplySteps, GuardedSteps, RollbackSteps, RestoreSteps, PurgeSteps
      <3> QED
        BY <3>1, <3>2
    <2>2. ASSUME NEW i, Go("move-back", todo \ {i}), held'[cur] \subseteq todo \ {i}
          PROVE  ControlType' /\ ControlInv'
      <3>1. ControlType'
        BY <1>1, <1>2, <1>3, <2>2, GoType DEF Steps, RollbackSteps
      <3>2. ControlInv'
        BY <1>1, <1>3, <2>2 DEF MoveBack, intents, Go, ControlInv, OwnsIntent, BatchInHand,
           Moves, Moved, PassedIsRemoved,
           ApplySteps, GuardedSteps, RollbackSteps, RestoreSteps, PurgeSteps
      <3> QED
        BY <3>1, <3>2
    <2>3. CASE LeaveItems /\ \E i \in Items \ held[cur] : Go("move-back", todo \ {i})
      BY <1>3, <2>2, <2>3 DEF LeaveItems
    <2>4. CASE \E i \in held[cur] : TakeHome(cur, i) /\ Go("move-back", todo \ {i})
      <3>1. PICK i \in held[cur] : TakeHome(cur, i) /\ Go("move-back", todo \ {i})
        BY <2>4
      <3>2. held'[cur] \subseteq todo \ {i}
        BY <1>1, <1>2, <1>3, <3>1 DEF TakeHome, DiskType
      <3> QED
        BY <2>2, <3>1, <3>2
    <2>5. CASE Raise("check") \/ Raise("io")
      BY <1>5, <2>5, RaiseKeeps DEF MoveBack, intents
    <2> QED
      BY <1>4, <2>1, <2>3, <2>4, <2>5
  <1> QED
    BY <1>5, <1>6, PartsNext

LEMMA DropBatchStep == ASSUME Inductive, DropBatch PROVE Inductive'
  <1>1. /\ cur \in Batches /\ pc # "idle" /\ cur \in tx /\ ~Closed(cur)
    BY TransactionInHand DEF DropBatch, RemoveRecordFile, RemoveJobsRoot, RemoveStateDir,
       RemoveWorkspaceDir, RollbackSteps
  <1>2. TypeOK /\ DiskType /\ ControlType /\ DiskInv /\ ControlInv
    BY Parts
  <1>3. DiskType' /\ DiskInv'
    BY <1>1, Removal DEF DropBatch
  <1>4. ControlType' /\ ControlInv'
    <2>1. CASE RemoveRecordFile("drop-record", "drop-jobs")
      <3>1. PICK out : /\ Then(out, "drop-jobs", {})
                       /\ out = "done" => records' = records \ {cur}
        BY <2>1 DEF RemoveRecordFile
      <3>2. ASSUME out = "done", Go("drop-jobs", {}) PROVE ControlInv'
        BY <1>1, <1>2, <2>1, <3>1, <3>2 DEF RemoveRecordFile, intents, Go, ControlInv, OwnsIntent,
           BatchInHand, PassedIsRemoved,
           ApplySteps, GuardedSteps, RollbackSteps, RestoreSteps, PurgeSteps
      <3> QED
        BY <1>1, <1>3, <2>1, <3>1, <3>2, ThenKeeps DEF RemoveRecordFile, intents, Steps, RollbackSteps
    <2>2. CASE RemoveJobsRoot("drop-jobs", "drop-state")
      <3>1. \/ Raise("check")
            \/ \E out : Then(out, "drop-state", {}) /\ (out = "done" => cur \notin roots')
        BY <1>1, <1>2, <2>2 DEF RemoveJobsRoot, DiskType
      <3>2. ASSUME cur \notin roots', Go("drop-state", {}) PROVE ControlInv'
        BY <1>1, <1>2, <2>2, <3>2 DEF RemoveJobsRoot, intents, Go, ControlInv, OwnsIntent,
           BatchInHand, PassedIsRemoved,
           ApplySteps, GuardedSteps, RollbackSteps, RestoreSteps, PurgeSteps
      <3> QED
        BY <1>1, <1>3, <2>2, <3>1, <3>2, ThenKeeps, RaiseKeeps
           DEF RemoveJobsRoot, intents, Steps, RollbackSteps
    <2>3. CASE RemoveStateDir("drop-state", "drop-workspaces")
      <3>1. \/ Raise("check")
            \/ \E out : Then(out, "drop-workspaces", {}) /\ (out = "done" => sdir'[cur] = "none")
        BY <1>1, <1>2, <2>3 DEF RemoveStateDir, DiskType
      <3>2. ASSUME sdir'[cur] = "none", Go("drop-workspaces", {}) PROVE ControlInv'
        BY <1>1, <1>2, <2>3, <3>2 DEF RemoveStateDir, intents, Go, ControlInv, OwnsIntent,
           BatchInHand, PassedIsRemoved,
           ApplySteps, GuardedSteps, RollbackSteps, RestoreSteps, PurgeSteps
      <3> QED
        BY <1>1, <1>3, <2>3, <3>1, <3>2, ThenKeeps, RaiseKeeps
           DEF RemoveStateDir, intents, Steps, RollbackSteps
    <2>4. CASE RemoveWorkspaceDir("drop-workspaces", "withdraw")
      <3>1. \/ Raise("check")
            \/ \E out : Then(out, "withdraw", {}) /\ (out = "done" => wdir'[cur] = "none")
        BY <1>1, <1>2, <2>4 DEF RemoveWorkspaceDir, DiskType
      <3>2. ASSUME wdir'[cur] = "none", Go("withdraw", {}) PROVE ControlInv'
        BY <1>1, <1>2, <2>4, <3>2 DEF RemoveWorkspaceDir, intents, Go, ControlInv, OwnsIntent,
           BatchInHand, PassedIsRemoved,
           ApplySteps, GuardedSteps, RollbackSteps, RestoreSteps, PurgeSteps
      <3> QED
        BY <1>1, <1>3, <2>4, <3>1, <3>2, ThenKeeps, RaiseKeeps
           DEF RemoveWorkspaceDir, intents, Steps, RollbackSteps
    <2> QED
      BY <2>1, <2>2, <2>3, <2>4 DEF DropBatch
  <1> QED
    BY <1>3, <1>4, PartsNext

\* An action in hand is the only intent of its batch.
LEMMA ActionInHand ==
    ASSUME Inductive, pc \in RestoreSteps \cup PurgeSteps
    PROVE  /\ cur \in Batches /\ pc # "idle" /\ ~Closed(cur) /\ cur \notin tx
           /\ record[cur].jobs # {}
           /\ pc \in RestoreSteps => action[cur] = "restore"
           /\ pc \in PurgeSteps => action[cur] = "purge"
  <1>1. pc # "idle"
    BY DEF RestoreSteps, PurgeSteps
  <1>2. cur \in Batches
    BY <1>1, Parts, BatchInHandExists
  <1>3. /\ pc \in RestoreSteps => action[cur] = "restore"
        /\ pc \in PurgeSteps => action[cur] = "purge"
    BY DEF Inductive, OwnsIntent
  <1> QED
    BY <1>1, <1>2, <1>3 DEF Inductive, OneIntent, Closed

\* An action enters a later phase, or the one it is in.
LEMMA PhaseSet ==
    ASSUME Inductive, cur \in Batches, ~Closed(cur),
           NEW at, NEW p \in {"moving", "finalizing"}, NEW next, NEW loop,
           SetPhase(at, p, next, loop),
           p = "finalizing" \/ action[cur] = "restore" \/ phase[cur] = "prepared"
    PROVE  DiskType' /\ DiskInv' /\ \E out : Then(out, next, loop) /\ (out = "done" => phase'[cur] = p)
  <1>1. DiskType /\ DiskInv
    BY Parts
  <1>2. /\ UNCHANGED <<clients, record, tx, action, manifest, audit, dirs, crashes>>
        /\ phase' \in {phase, [phase EXCEPT ![cur] = p]}
    BY DEF SetPhase
  <1>3. DiskType'
    BY <1>1, <1>2 DEF DiskType, clients, dirs
  <1>4. \A b \in Batches : Erasing(b) => Erasing(b)'
    BY <1>1, <1>2 DEF Erasing, DiskType
  <1>5. DiskInv'
    <2>1. NothingLost'
      BY <1>1, <1>2, <1>4 DEF DiskInv, NothingLost, clients, dirs
    <2> QED
      BY <1>1, <1>2, <2>1 DEF DiskInv, OneIntent, OnlySubmitted, HoldsRecorded, ManifestCovers, WholeBatch,
         AuditIsTrue, Closed, Empty, Complete, clients, dirs, Moves, Moved
  <1>6. \E out : Then(out, next, loop) /\ (out = "done" => phase'[cur] = p)
    BY <1>1 DEF SetPhase, DiskType
  <1> QED
    BY <1>3, <1>5, <1>6

\* The audit of a batch that is gone names the action that ended it.
LEMMA AuditWritten ==
    ASSUME Inductive, cur \in Batches, ~Closed(cur), cur \notin tx, NEW at, NEW next,
           NEW label \in {"restored", "purged"}, WriteAudit(at, label, next),
           action[cur] = IF label = "purged" THEN "purge" ELSE "restore",
           held[cur] = {}, sdir[cur] = "none", wdir[cur] = "none"
    PROVE  DiskType' /\ DiskInv' /\ \E out : Then(out, next, {}) /\ (out = "done" => audit'[cur] = label)
  <1>1. DiskType /\ DiskInv
    BY Parts
  <1>2. /\ UNCHANGED <<clients, record, tx, action, phase, manifest, dirs, crashes>>
        /\ audit' \in {audit, [audit EXCEPT ![cur] = label]}
    BY DEF WriteAudit
  <1>3. DiskType'
    BY <1>1, <1>2 DEF DiskType, clients, dirs
  <1>4. AuditIsTrue'
    BY <1>1, <1>2 DEF DiskInv, DiskType, AuditIsTrue, clients, dirs
  <1>5. audit[cur] \in {"none", label}
    BY <1>1 DEF DiskInv, DiskType, AuditIsTrue, Closed
  <1>6. DiskInv'
    <2>1. NothingLost'
      BY <1>1, <1>2, <1>5 DEF DiskInv, DiskType, NothingLost, Erasing, clients, dirs
    <2>2. OneIntent'
      BY <1>1, <1>2 DEF DiskInv, DiskType, OneIntent, Closed, Empty, clients, dirs
    <2> QED
      BY <1>1, <1>2, <1>4, <2>1, <2>2 DEF DiskInv, OnlySubmitted, HoldsRecorded, ManifestCovers, WholeBatch,
         Closed, Empty, Complete, clients, dirs, Moves, Moved
  <1>7. \E out : Then(out, next, {}) /\ (out = "done" => audit'[cur] = label)
    BY <1>1 DEF WriteAudit, DiskType
  <1> QED
    BY <1>3, <1>6, <1>7

LEMMA FinishRestoreStep == ASSUME Inductive, FinishRestore PROVE Inductive'
  <1>0. TypeOK /\ DiskType /\ ControlType /\ DiskInv /\ ControlInv
    BY Parts
  <1>1. CASE SetPhase("restore", "moving", "restore-items", Moves(cur) \cup record[cur].kept)
    <2>1. /\ cur \in Batches /\ pc # "idle" /\ ~Closed(cur) /\ action[cur] = "restore"
      BY <1>1, ActionInHand DEF SetPhase, RestoreSteps
    <2> DEFINE loop == Moves(cur) \cup record[cur].kept
    <2>2. loop \in SUBSET (Items \cup DirEntries) /\ held[cur] \subseteq loop
      BY <1>0, <2>1, MovesAreItems DEF Items, DiskInv, HoldsRecorded
    <2>3. DiskType' /\ DiskInv' /\ \E out : Then(out, "restore-items", loop)
      BY <1>1, <2>1, PhaseSet
    <2>4. ASSUME Go("restore-items", loop) PROVE ControlInv'
      BY <1>1, <2>1, <2>2, <2>4 DEF SetPhase, dirs, Go, ControlInv, OwnsIntent,
           BatchInHand, PassedIsRemoved,
           ApplySteps, GuardedSteps, RollbackSteps, RestoreSteps, PurgeSteps
    <2>5. ControlType' /\ ControlInv'
      BY <1>1, <2>1, <2>2, <2>3, <2>4, ThenKeeps DEF SetPhase, Steps, RestoreSteps
    <2> QED
      BY <2>3, <2>5, PartsNext
  <1>2. CASE SetPhase("restore-final", "finalizing", "empty-workspaces", {})
    <2>1. /\ cur \in Batches /\ pc # "idle" /\ ~Closed(cur) /\ action[cur] = "restore"
      BY <1>2, ActionInHand DEF SetPhase, RestoreSteps
    <2>2. DiskType' /\ DiskInv' /\ \E out : Then(out, "empty-workspaces", {})
      BY <1>2, <2>1, PhaseSet
    <2>3. ASSUME Go("empty-workspaces", {}) PROVE ControlInv'
      BY <1>0, <1>2, <2>1, <2>3 DEF SetPhase, dirs, Go, ControlInv, OwnsIntent,
           BatchInHand, PassedIsRemoved,
           ApplySteps, GuardedSteps, RollbackSteps, RestoreSteps, PurgeSteps
    <2>4. ControlType' /\ ControlInv'
      BY <1>2, <2>1, <2>2, <2>3, ThenKeeps DEF SetPhase, Steps, RestoreSteps
    <2> QED
      BY <2>2, <2>4, PartsNext
  <1>3. CASE RemoveWorkspaceDir("empty-workspaces", "empty-record")
    <2>1. /\ cur \in Batches /\ pc # "idle" /\ ~Closed(cur) /\ action[cur] = "restore"
      BY <1>3, ActionInHand DEF RemoveWorkspaceDir, RestoreSteps
    <2>2. \/ Raise("check")
          \/ \E out : Then(out, "empty-record", {}) /\ (out = "done" => wdir'[cur] = "none")
      BY <1>0, <1>3, <2>1 DEF RemoveWorkspaceDir, DiskType
    <2>3. DiskType' /\ DiskInv'
      BY <1>3, <2>1, Removal
    <2>4. ASSUME wdir'[cur] = "none", Go("empty-record", {}) PROVE ControlInv'
      BY <1>0, <1>3, <2>1, <2>4 DEF RemoveWorkspaceDir, intents, Go, ControlInv, OwnsIntent,
           BatchInHand, PassedIsRemoved,
           ApplySteps, GuardedSteps, RollbackSteps, RestoreSteps, PurgeSteps
    <2>5. ControlType' /\ ControlInv'
      BY <1>3, <2>1, <2>2, <2>3, <2>4, ThenKeeps, RaiseKeeps
         DEF RemoveWorkspaceDir, intents, Steps, RestoreSteps
    <2> QED
      BY <2>3, <2>5, PartsNext
  <1>4. CASE RemoveRecordFile("empty-record", "empty-jobs")
    <2>1. /\ cur \in Batches /\ pc # "idle" /\ ~Closed(cur) /\ action[cur] = "restore"
      BY <1>4, ActionInHand DEF RemoveRecordFile, RestoreSteps
    <2>2. \/ Raise("check")
          \/ \E out : Then(out, "empty-jobs", {}) /\ (out = "done" => cur \notin records')
      BY <1>0, <1>4, <2>1 DEF RemoveRecordFile, DiskType
    <2>3. DiskType' /\ DiskInv'
      BY <1>4, <2>1, Removal
    <2>4. ASSUME cur \notin records', Go("empty-jobs", {}) PROVE ControlInv'
      BY <1>0, <1>4, <2>1, <2>4 DEF RemoveRecordFile, intents, Go, ControlInv, OwnsIntent,
           BatchInHand, PassedIsRemoved,
           ApplySteps, GuardedSteps, RollbackSteps, RestoreSteps, PurgeSteps
    <2>5. ControlType' /\ ControlInv'
      BY <1>4, <2>1, <2>2, <2>3, <2>4, ThenKeeps, RaiseKeeps
         DEF RemoveRecordFile, intents, Steps, RestoreSteps
    <2> QED
      BY <2>3, <2>5, PartsNext
  <1>5. CASE RemoveJobsRoot("empty-jobs", "empty-state")
    <2>1. /\ cur \in Batches /\ pc # "idle" /\ ~Closed(cur) /\ action[cur] = "restore"
      BY <1>5, ActionInHand DEF RemoveJobsRoot, RestoreSteps
    <2>2. \/ Raise("check")
          \/ \E out : Then(out, "empty-state", {}) /\ (out = "done" => cur \notin roots')
      BY <1>0, <1>5, <2>1 DEF RemoveJobsRoot, DiskType
    <2>3. DiskType' /\ DiskInv'
      BY <1>5, <2>1, Removal
    <2>4. ASSUME cur \notin roots', Go("empty-state", {}) PROVE ControlInv'
      BY <1>0, <1>5, <2>1, <2>4 DEF RemoveJobsRoot, intents, Go, ControlInv, OwnsIntent,
           BatchInHand, PassedIsRemoved,
           ApplySteps, GuardedSteps, RollbackSteps, RestoreSteps, PurgeSteps
    <2>5. ControlType' /\ ControlInv'
      BY <1>5, <2>1, <2>2, <2>3, <2>4, ThenKeeps, RaiseKeeps
         DEF RemoveJobsRoot, intents, Steps, RestoreSteps
    <2> QED
      BY <2>3, <2>5, PartsNext
  <1>6. CASE RemoveStateDir("empty-state", "restore-audit")
    <2>1. /\ cur \in Batches /\ pc # "idle" /\ ~Closed(cur) /\ action[cur] = "restore"
      BY <1>6, ActionInHand DEF RemoveStateDir, RestoreSteps
    <2>2. \/ Raise("check")
          \/ \E out : Then(out, "restore-audit", {}) /\ (out = "done" => sdir'[cur] = "none")
      BY <1>0, <1>6, <2>1 DEF RemoveStateDir, DiskType
    <2>3. DiskType' /\ DiskInv'
      BY <1>6, <2>1, Removal
    <2>4. ASSUME sdir'[cur] = "none", Go("restore-audit", {}) PROVE ControlInv'
      BY <1>0, <1>6, <2>1, <2>4 DEF RemoveStateDir, intents, Go, ControlInv, OwnsIntent,
           BatchInHand, PassedIsRemoved,
           ApplySteps, GuardedSteps, RollbackSteps, RestoreSteps, PurgeSteps
    <2>5. ControlType' /\ ControlInv'
      BY <1>6, <2>1, <2>2, <2>3, <2>4, ThenKeeps, RaiseKeeps
         DEF RemoveStateDir, intents, Steps, RestoreSteps
    <2> QED
      BY <2>3, <2>5, PartsNext
  <1>7. CASE WriteAudit("restore-audit", "restored", "restore-end")
    <2>1. /\ cur \in Batches /\ pc # "idle" /\ ~Closed(cur) /\ action[cur] = "restore" /\ cur \notin tx
      BY <1>7, ActionInHand DEF WriteAudit, RestoreSteps
    <2>2. held[cur] = {} /\ sdir[cur] = "none" /\ wdir[cur] = "none"
      BY <1>0, <1>7 DEF WriteAudit, ControlInv, BatchInHand, RestoreSteps
    <2>3. /\ DiskType' /\ DiskInv'
          /\ \E out : Then(out, "restore-end", {}) /\ (out = "done" => audit'[cur] = "restored")
      BY <1>7, <2>1, <2>2, AuditWritten
    <2>4. ASSUME Go("restore-end", {}), audit'[cur] = "restored" PROVE ControlInv'
      BY <1>0, <1>7, <2>1, <2>4 DEF WriteAudit, dirs, Go, ControlInv, OwnsIntent,
           BatchInHand, PassedIsRemoved,
           ApplySteps, GuardedSteps, RollbackSteps, RestoreSteps, PurgeSteps
    <2>5. ControlType' /\ ControlInv'
      BY <1>7, <2>1, <2>3, <2>4, ThenKeeps DEF WriteAudit, Steps, RestoreSteps
    <2> QED
      BY <2>3, <2>5, PartsNext
  <1> QED
    BY <1>1, <1>2, <1>3, <1>4, <1>5, <1>6, <1>7 DEF FinishRestore

LEMMA RestoreItemsStep == ASSUME Inductive, RestoreItems PROVE Inductive'
  <1>1. /\ cur \in Batches /\ pc # "idle" /\ ~Closed(cur) /\ action[cur] = "restore"
    BY ActionInHand DEF RestoreItems, RestoreSteps
  <1>2. TypeOK /\ DiskType /\ ControlType /\ DiskInv /\ ControlInv
    BY Parts
  <1>3. /\ NextItems \subseteq todo /\ held[cur] \subseteq todo /\ todo \subseteq Items \cup DirEntries
        /\ \A i \in record[cur].kept : i \notin held[cur]
    <2>1. record[cur].kept \subseteq Workspaces /\ Moved(cur) \cap record[cur].kept = {}
          /\ held[cur] \subseteq Moves(cur) /\ record[cur].jobs \subseteq Jobs
      BY <1>1, <1>2, MovesAreItems DEF DiskInv, HoldsRecorded
    <2>2. \A i \in record[cur].kept : i \notin held[cur]
      BY <2>1, NamesAreDistinct DEF Moves
    <2> QED
      BY <1>2, <2>2 DEF RestoreItems, ControlInv, ControlType, BatchInHand, NextItems
  <1>4. \/ LeaveItems /\ todo = {} /\ Go("restore-final", {})
        \/ LeaveItems /\ (Raise("check") \/ Raise("io"))
        \/ LeaveItems /\ \E i : i \notin held[cur] /\ Go(pc, todo \ {i})
        \/ \E i \in held[cur] : TakeHome(cur, i) /\ (Go(pc, todo \ {i}) \/ Raise("io"))
    <2>1. CASE LeaveItems /\ todo = {} /\ Go("restore-final", {})
      BY <2>1
    <2>2. ASSUME NEW i \in NextItems,
                 IF i \in record[cur].kept
                 THEN LeaveItems /\ IF Exists(i) THEN Go(pc, todo \ {i}) ELSE Raise("check")
                 ELSE IF ~OneCopy(cur, i) \/ (AtHome(i) /\ ~Unchanged(cur, i))
                 THEN LeaveItems /\ Raise("check")
                 ELSE IF AtHome(i) THEN LeaveItems /\ Go(pc, todo \ {i})
                 ELSE \E out \in Outcomes("move") :
                        /\ IF out = "raised" THEN LeaveItems ELSE TakeHome(cur, i)
                        /\ Then(out, pc, todo \ {i})
          PROVE  <1>4
      <3>1. CASE i \in record[cur].kept
        BY <1>3, <2>2, <3>1
      <3>2. CASE i \notin record[cur].kept /\ ~OneCopy(cur, i)
        BY <2>2, <3>2
      <3>3. CASE i \notin record[cur].kept /\ OneCopy(cur, i) /\ AtHome(i)
        BY <2>2, <3>3 DEF OneCopy
      <3>4. CASE i \notin record[cur].kept /\ OneCopy(cur, i) /\ ~AtHome(i)
        BY <2>2, <3>4 DEF OneCopy, Then
      <3> QED
        BY <3>1, <3>2, <3>3, <3>4
    <2> QED
      BY <2>1, <2>2 DEF RestoreItems
  <1>5. DiskType' /\ DiskInv'
    <2>1. LeaveItems \/ \E i \in held[cur] : TakeHome(cur, i)
      BY <1>4
    <2>2. UNCHANGED <<life, fresh, intents, sdir, wdir, roots, records, crashes>>
      BY DEF RestoreItems
    <2> QED
      BY <1>1, <2>1, <2>2, Homecoming
  <1>6. ControlType' /\ ControlInv'
    <2>1. CASE LeaveItems /\ todo = {} /\ Go("restore-final", {})
      <3>1. ControlType'
        BY <1>1, <1>2, <2>1, GoType DEF Steps, RestoreSteps
      <3>2. ControlInv'
        BY <1>1, <1>3, <2>1 DEF RestoreItems, LeaveItems, intents, Go, ControlInv, OwnsIntent,
           BatchInHand, PassedIsRemoved,
           ApplySteps, GuardedSteps, RollbackSteps, RestoreSteps, PurgeSteps
      <3> QED
        BY <3>1, <3>2
    <2>2. ASSUME NEW i, Go(pc, todo \ {i}), held'[cur] \subseteq todo \ {i}
          PROVE  ControlType' /\ ControlInv'
      <3>1. ControlType'
        BY <1>1, <1>2, <1>3, <2>2, GoType DEF RestoreItems, Steps, RestoreSteps
      <3>2. ControlInv'
        BY <1>1, <2>2 DEF RestoreItems, intents, Go, ControlInv, OwnsIntent,
           BatchInHand, PassedIsRemoved,
           ApplySteps, GuardedSteps, RollbackSteps, RestoreSteps, PurgeSteps
      <3> QED
        BY <3>1, <3>2
    <2>3. CASE LeaveItems /\ \E i : i \notin held[cur] /\ Go(pc, todo \ {i})
      BY <1>3, <2>2, <2>3 DEF LeaveItems
    <2>4. CASE \E i \in held[cur] : TakeHome(cur, i) /\ Go(pc, todo \ {i})
      <3>1. PICK i \in held[cur] : TakeHome(cur, i) /\ Go(pc, todo \ {i})
        BY <2>4
      <3>2. held'[cur] \subseteq todo \ {i}
        BY <1>1, <1>2, <1>3, <3>1 DEF TakeHome, DiskType
      <3> QED
        BY <2>2, <3>1, <3>2
    <2>5. CASE Raise("check") \/ Raise("io")
      BY <1>5, <2>5, RaiseKeeps DEF RestoreItems, intents
    <2> QED
      BY <1>4, <2>1, <2>3, <2>4, <2>5
  <1> QED
    BY <1>5, <1>6, PartsNext

LEMMA RemoveActionStep == ASSUME Inductive, RemoveAction PROVE Inductive'
  <1>1. /\ cur \in Batches /\ pc # "idle" /\ cur \notin tx /\ record[cur].jobs # {}
        /\ pc = "restore-end" => action[cur] = "restore"
        /\ pc = "purge-end" => action[cur] = "purge"
    BY ActionInHand DEF RemoveAction, RestoreSteps, PurgeSteps
  <1>2. TypeOK /\ DiskType /\ ControlType /\ DiskInv /\ ControlInv
    BY Parts
  <1>3. Empty(cur) /\ (action[cur] = "purge" => audit[cur] = "purged")
    BY <1>1, <1>2 DEF RemoveAction, ControlInv, BatchInHand, OwnsIntent, RestoreSteps, Empty
  <1>4. /\ UNCHANGED <<clients, record, tx, audit, dirs, crashes>>
        /\ \/ UNCHANGED <<action, phase, manifest>>
           \/ /\ action' = [action EXCEPT ![cur] = "none"]
              /\ phase' = [phase EXCEPT ![cur] = "prepared"]
              /\ manifest' = [manifest EXCEPT ![cur] = {}]
        /\ Return \/ Raise("io")
    BY DEF RemoveAction
  <1>5. DiskType'
    BY <1>2, <1>4 DEF DiskType, clients, dirs
  <1>6. DiskInv'
    <2>0. /\ action'[cur] \in {"none", action[cur]}
          /\ \A b \in Batches : b # cur => /\ action'[b] = action[b] /\ phase'[b] = phase[b]
                                         /\ manifest'[b] = manifest[b]
          /\ action'[cur] # "none" => manifest'[cur] = manifest[cur]
      BY <1>1, <1>2, <1>4 DEF DiskType
    <2>1. OneIntent' /\ OnlySubmitted' /\ HoldsRecorded' /\ ManifestCovers' /\ AuditIsTrue'
      BY <1>1, <1>2, <1>4, <2>0 DEF DiskInv, OneIntent, OnlySubmitted, HoldsRecorded, ManifestCovers,
         AuditIsTrue, Closed, Empty, clients, dirs, Moves, Moved
    <2>2. NothingLost'
      BY <1>2, <1>3, <1>4, <2>0 DEF DiskInv, NothingLost, Erasing, clients, dirs
    <2>3. WholeBatch'
      BY <1>2, <1>3, <1>4, <2>0 DEF DiskInv, WholeBatch, Closed, Empty, Complete, clients, dirs,
         Moves, Moved
    <2> QED
      BY <2>1, <2>2, <2>3 DEF DiskInv
  <1>7. ControlType' /\ ControlInv'
    <2>1. CASE Return
      BY <1>2, <2>1, IdleControl DEF Return, ControlType, Steps
    <2> QED
      BY <1>4, <1>6, <2>1, RaiseKeeps
  <1> QED
    BY <1>5, <1>6, <1>7, PartsNext

-----------------------------------------------------------------------------
(* Purge *)

LEMMA PurgeWorkspaceDirStep == ASSUME Inductive, PurgeWorkspaceDir PROVE Inductive'
  <1>1. /\ cur \in Batches /\ pc # "idle" /\ ~Closed(cur) /\ action[cur] = "purge"
    BY ActionInHand DEF PurgeWorkspaceDir, PurgeSteps
  <1>2. TypeOK /\ DiskType /\ ControlType /\ DiskInv /\ ControlInv
    BY Parts
  <1>3. DiskType'
    BY <1>1, <1>2 DEF PurgeWorkspaceDir, DiskType, DirNames, clients, intents
  <1>4. DiskInv'
    <2>1. Elsewhere(cur) /\ (wdir'[cur] # "none" => wdir[cur] # "none")
      BY <1>1, <1>2 DEF PurgeWorkspaceDir, Elsewhere, DiskType
    <2>2. /\ wdir[cur] # "none" => Moved(cur) # {}
          /\ audit[cur] # "none" => sdir[cur] = "none" /\ wdir[cur] = "none"
      BY <1>1, <1>2 DEF DiskInv, HoldsRecorded, AuditIsTrue
    <2>3. audit[cur] # "none" => wdir'[cur] = "none"
      BY <2>1, <2>2
    <2> QED
      BY <1>1, <1>2, <2>1, <2>2, <2>3, OwnDirs DEF PurgeWorkspaceDir, clients
  <1>5. ControlType' /\ ControlInv'
    <2>1. Go("purge-state", {}) => ControlInv'
      BY <1>1 DEF PurgeWorkspaceDir, intents, Go, ControlInv, OwnsIntent,
         BatchInHand, PassedIsRemoved,
         ApplySteps, GuardedSteps, RollbackSteps, RestoreSteps, PurgeSteps
    <2> QED
      BY <1>1, <1>4, <2>1, ThenKeeps, RaiseKeeps DEF PurgeWorkspaceDir, intents, Steps, PurgeSteps
  <1> QED
    BY <1>3, <1>4, <1>5, PartsNext

LEMMA PurgeStateDirStep == ASSUME Inductive, PurgeStateDir PROVE Inductive'
  <1>1. /\ cur \in Batches /\ pc # "idle" /\ ~Closed(cur) /\ action[cur] = "purge"
    BY ActionInHand DEF PurgeStateDir, PurgeSteps
  <1>2. TypeOK /\ DiskType /\ ControlType /\ DiskInv /\ ControlInv
    BY Parts
  <1>3. DiskType'
    BY <1>1, <1>2 DEF PurgeStateDir, DiskType, DirNames, clients, intents
  <1>4. DiskInv'
    <2>1. Elsewhere(cur) /\ (sdir'[cur] # "none" => sdir[cur] # "none")
      BY <1>1, <1>2 DEF PurgeStateDir, Elsewhere, DiskType
    <2>2. /\ wdir[cur] # "none" => Moved(cur) # {}
          /\ audit[cur] # "none" => sdir[cur] = "none" /\ wdir[cur] = "none"
      BY <1>1, <1>2 DEF DiskInv, HoldsRecorded, AuditIsTrue
    <2>3. audit[cur] # "none" => sdir'[cur] = "none"
      BY <2>1, <2>2
    <2> QED
      BY <1>1, <1>2, <2>1, <2>2, <2>3, OwnDirs DEF PurgeStateDir, clients
  <1>5. ControlType' /\ ControlInv'
    <2>1. Go("purge-final", {}) => ControlInv'
      BY <1>1 DEF PurgeStateDir, intents, Go, ControlInv, OwnsIntent,
         BatchInHand, PassedIsRemoved,
         ApplySteps, GuardedSteps, RollbackSteps, RestoreSteps, PurgeSteps
    <2> QED
      BY <1>1, <1>4, <2>1, ThenKeeps, RaiseKeeps DEF PurgeStateDir, intents, Steps, PurgeSteps
  <1> QED
    BY <1>3, <1>4, <1>5, PartsNext

LEMMA PurgeEntryStep == ASSUME Inductive, PurgeEntry PROVE Inductive'
  <1>1. /\ cur \in Batches /\ pc # "idle" /\ ~Closed(cur) /\ action[cur] = "purge"
    BY ActionInHand DEF PurgeEntry, PurgeSteps
  <1>2. TypeOK /\ DiskType /\ ControlType /\ DiskInv /\ ControlInv
    BY Parts
  <1>3. Erasing(cur)
    BY <1>1, <1>2 DEF PurgeEntry, Erasing, ControlInv, OwnsIntent
  <1>4. NextEntries(cur) \subseteq manifest[cur] /\ manifest[cur] \subseteq Items \cup DirEntries
    BY <1>1, <1>2 DEF NextEntries, DiskType
  <1>5. \/ UNCHANGED dirs /\ Empty(cur) /\ Go("purge-audit", {})
        \/ UNCHANGED dirs /\ (Raise("check") \/ Raise("io"))
        \/ \E e \in NextEntries(cur) :
              ~EntryInUse(e) /\ RemoveEntry(e) /\ (Go("purge-cursor", {e}) \/ Raise("io"))
    <2>1. CASE manifest[cur] = {} \/ "batch" \in {sdir[cur], wdir[cur]}
      BY <1>1, <1>2, <2>1 DEF PurgeEntry, DiskInv, ManifestCovers, Empty
    <2>2. CASE ~(manifest[cur] = {} \/ "batch" \in {sdir[cur], wdir[cur]})
      BY <2>2 DEF PurgeEntry, Then
    <2> QED
      BY <2>1, <2>2
  <1>6. ASSUME UNCHANGED dirs,
               (Empty(cur) /\ Go("purge-audit", {})) \/ Raise("check") \/ Raise("io")
        PROVE  Inductive'
    <2>1. DiskType' /\ DiskInv'
      BY <1>2, <1>6, DiskFrame DEF PurgeEntry, DiskType, disk, clients, intents, dirs
    <2>2. CASE Empty(cur) /\ Go("purge-audit", {})
      <3>1. ControlType'
        BY <1>1, <1>2, <2>2, GoType DEF Steps, PurgeSteps
      <3>2. Empty(cur)'
        BY <1>6, <2>2 DEF Go, Empty, dirs
      <3>3. ControlInv'
        BY <1>1, <1>2, <2>2, <3>2 DEF PurgeEntry, intents, Go, ControlInv, OwnsIntent,
           BatchInHand, PassedIsRemoved,
           ApplySteps, GuardedSteps, RollbackSteps, RestoreSteps, PurgeSteps
      <3> QED
        BY <2>1, <3>1, <3>3, PartsNext
    <2>3. CASE Raise("check") \/ Raise("io")
      BY <2>1, <2>3, RaiseKeeps, PartsNext DEF PurgeEntry, intents
    <2> QED
      BY <1>6, <2>2, <2>3
  <1>7. ASSUME NEW e \in NextEntries(cur), ~EntryInUse(e), RemoveEntry(e),
               Go("purge-cursor", {e}) \/ Raise("io")
        PROVE  Inductive'
    <2>1. DiskType'
      BY <1>1, <1>2, <1>7 DEF PurgeEntry, RemoveEntry, DiskType, DirNames, clients, intents
    <2>2. DiskInv'
      BY <1>1, <1>2, <1>3, <1>7, EntryRemoved DEF PurgeEntry
    <2>3. CASE Go("purge-cursor", {e})
      <3>1. ControlType'
        BY <1>1, <1>2, <1>4, <1>7, <2>3, GoType DEF Steps, PurgeSteps
      <3>2. PassedIsRemoved'
        BY <1>1, <1>2, <1>7, <2>3 DEF RemoveEntry, Go, PassedIsRemoved, DiskType
      <3>3. ControlInv'
        BY <1>1, <1>2, <2>3, <3>2 DEF PurgeEntry, intents, Go, ControlInv, OwnsIntent,
           BatchInHand, PassedIsRemoved,
           ApplySteps, GuardedSteps, RollbackSteps, RestoreSteps, PurgeSteps
      <3> QED
        BY <2>1, <2>2, <3>1, <3>3, PartsNext
    <2>4. CASE Raise("io")
      BY <2>1, <2>2, <2>4, RaiseKeeps, PartsNext DEF PurgeEntry, intents
    <2> QED
      BY <1>7, <2>3, <2>4
  <1> QED
    BY <1>5, <1>6, <1>7

LEMMA AdvanceCursorStep == ASSUME Inductive, AdvanceCursor PROVE Inductive'
  <1>1. /\ cur \in Batches /\ pc # "idle" /\ ~Closed(cur) /\ action[cur] = "purge"
    BY ActionInHand DEF AdvanceCursor, PurgeSteps
  <1>2. TypeOK /\ DiskType /\ ControlType /\ DiskInv /\ ControlInv
    BY Parts
  <1>3. /\ UNCHANGED <<clients, record, tx, action, phase, audit, dirs, crashes>>
        /\ manifest' \in {manifest, [manifest EXCEPT ![cur] = @ \ todo]}
        /\ \E out : Then(out, "purge-entry", {})
    BY DEF AdvanceCursor
  <1>4. DiskType'
    BY <1>1, <1>2, <1>3 DEF DiskType, clients, dirs
  <1>5. DiskInv'
    <2>1. PassedIsRemoved /\ pc = "purge-cursor"
      BY <1>2 DEF ControlInv, AdvanceCursor
    <2>2. ManifestCovers'
      BY <1>1, <1>2, <1>3, <2>1 DEF DiskInv, DiskType, ManifestCovers, PassedIsRemoved, clients, dirs
    <2> QED
      BY <1>2, <1>3, <2>2 DEF DiskInv, OneIntent, OnlySubmitted, HoldsRecorded, NothingLost, WholeBatch,
         AuditIsTrue, Closed, Erasing, Empty, Complete, clients, dirs, Moves, Moved
  <1>6. ControlType' /\ ControlInv'
    <2>1. Go("purge-entry", {}) => ControlInv'
      BY <1>1, <1>2, <1>3 DEF AdvanceCursor, dirs, Go, ControlInv, OwnsIntent,
         BatchInHand, PassedIsRemoved,
         ApplySteps, GuardedSteps, RollbackSteps, RestoreSteps, PurgeSteps
    <2> QED
      BY <1>1, <1>3, <1>5, <2>1, ThenKeeps DEF Steps, PurgeSteps
  <1> QED
    BY <1>4, <1>5, <1>6, PartsNext

LEMMA FinishPurgeStep == ASSUME Inductive, FinishPurge PROVE Inductive'
  <1>1. TypeOK /\ DiskType /\ ControlType /\ DiskInv /\ ControlInv
    BY Parts
  <1>2. CASE SetPhase("purge", "moving", "purge-workspaces", {})
    <2>1. /\ cur \in Batches /\ pc # "idle" /\ ~Closed(cur) /\ action[cur] = "purge"
          /\ phase[cur] = "prepared"
      BY <1>1, <1>2, ActionInHand DEF SetPhase, PurgeSteps, ControlInv, OwnsIntent
    <2>2. DiskType' /\ DiskInv' /\ \E out : Then(out, "purge-workspaces", {})
      BY <1>2, <2>1, PhaseSet
    <2>3. Go("purge-workspaces", {}) => ControlInv'
      BY <1>2, <2>1 DEF SetPhase, dirs, Go, ControlInv, OwnsIntent,
         BatchInHand, PassedIsRemoved,
         ApplySteps, GuardedSteps, RollbackSteps, RestoreSteps, PurgeSteps
    <2>4. ControlType' /\ ControlInv'
      BY <1>2, <2>1, <2>2, <2>3, ThenKeeps DEF SetPhase, Steps, PurgeSteps
    <2> QED
      BY <2>2, <2>4, PartsNext
  <1>3. CASE SetPhase("purge-final", "finalizing", "purge-entry", {})
    <2>1. /\ cur \in Batches /\ pc # "idle" /\ ~Closed(cur) /\ action[cur] = "purge"
      BY <1>3, ActionInHand DEF SetPhase, PurgeSteps
    <2>2. /\ DiskType' /\ DiskInv'
          /\ \E out : Then(out, "purge-entry", {}) /\ (out = "done" => phase'[cur] = "finalizing")
      BY <1>3, <2>1, PhaseSet
    <2>3. ASSUME Go("purge-entry", {}), phase'[cur] = "finalizing" PROVE ControlInv'
      BY <1>3, <2>1, <2>3 DEF SetPhase, dirs, Go, ControlInv, OwnsIntent,
         BatchInHand, PassedIsRemoved,
         ApplySteps, GuardedSteps, RollbackSteps, RestoreSteps, PurgeSteps
    <2>4. ControlType' /\ ControlInv'
      BY <1>3, <2>1, <2>2, <2>3, ThenKeeps DEF SetPhase, Steps, PurgeSteps
    <2> QED
      BY <2>2, <2>4, PartsNext
  <1>4. CASE WriteAudit("purge-audit", "purged", "purge-end")
    <2>1. /\ cur \in Batches /\ pc # "idle" /\ ~Closed(cur) /\ action[cur] = "purge" /\ cur \notin tx
      BY <1>4, ActionInHand DEF WriteAudit, PurgeSteps
    <2>2. Empty(cur) /\ phase[cur] = "finalizing"
      BY <1>1, <1>4 DEF WriteAudit, ControlInv, BatchInHand, OwnsIntent
    <2>3. held[cur] = {} /\ sdir[cur] = "none" /\ wdir[cur] = "none"
      BY <2>2 DEF Empty
    <2>4. /\ DiskType' /\ DiskInv'
          /\ \E out : Then(out, "purge-end", {}) /\ (out = "done" => audit'[cur] = "purged")
      BY <1>4, <2>1, <2>3, AuditWritten
    <2>5. ASSUME Go("purge-end", {}), audit'[cur] = "purged" PROVE ControlInv'
      BY <1>4, <2>1, <2>2, <2>5 DEF WriteAudit, dirs, Go, Empty, ControlInv, OwnsIntent,
         BatchInHand, PassedIsRemoved,
         ApplySteps, GuardedSteps, RollbackSteps, RestoreSteps, PurgeSteps
    <2>6. ControlType' /\ ControlInv'
      BY <1>4, <2>1, <2>4, <2>5, ThenKeeps DEF WriteAudit, Steps, PurgeSteps
    <2> QED
      BY <2>4, <2>6, PartsNext
  <1> QED
    BY <1>2, <1>3, <1>4, PurgeWorkspaceDirStep, PurgeStateDirStep, PurgeEntryStep,
       AdvanceCursorStep DEF FinishPurge

-----------------------------------------------------------------------------
(* Requests *)

LEMMA ApplyBatchDeleteStep ==
    ASSUME Inductive, NEW b \in Batches, NEW S \in SUBSET Jobs, NEW mode, ApplyBatchDelete(b, S, mode)
    PROVE  Inductive'
  <1>1. TypeOK /\ DiskType /\ ControlType /\ DiskInv /\ ControlInv
    BY Parts
  <1> DEFINE existing == {w \in {WorkspaceOf[j] : j \in S} : Exists(w)}
             taken    == IF mode = "quarantine" THEN existing ELSE {}
             new      == [jobs  |-> S,
                          moved |-> [w \in Workspaces |-> IF w \in taken THEN version[w] ELSE 0],
                          kept  |-> existing \ taken]
  <1>2. \/ UNCHANGED <<record, tx>> /\ UNCHANGED control
        \/ /\ record' = [record EXCEPT ![b] = new] /\ tx' = tx \cup {b}
           /\ \/ pc' = "stage" /\ cur' = b /\ UNCHANGED <<mgr, todo>>
              \/ UNCHANGED control
    BY DEF ApplyBatchDelete, Outcomes
  <1>3. /\ record[b].jobs = {} /\ S # {} /\ S \subseteq live /\ pc = "idle"
        /\ UNCHANGED <<clients, action, phase, manifest, audit, dirs, crashes>>
    BY DEF ApplyBatchDelete, Eligible, CanServe
  <1>4. /\ b \notin tx /\ action[b] = "none" /\ audit[b] = "none" /\ Empty(b)
    BY <1>1, <1>3 DEF DiskInv, OneIntent, OnlySubmitted, Closed
  <1>5. CASE UNCHANGED <<record, tx>> /\ UNCHANGED control
    <2>1. DiskType' /\ DiskInv'
      BY <1>1, <1>3, <1>5, DiskFrame DEF DiskType, disk, clients, dirs
    <2>2. ControlType' /\ ControlInv'
      BY <1>1, <1>3, <1>5, IdleControl DEF ControlType, control
    <2> QED
      BY <2>1, <2>2, PartsNext
  <1>6. CASE /\ record' = [record EXCEPT ![b] = new] /\ tx' = tx \cup {b}
             /\ \/ pc' = "stage" /\ cur' = b /\ UNCHANGED <<mgr, todo>>
                \/ UNCHANGED control
    <2>1. existing \subseteq Workspaces /\ new \in TrashRecord /\ new.jobs = S
      <3>1. [w \in Workspaces |-> IF w \in taken THEN version[w] ELSE 0] \in [Workspaces -> 0..MaxVersions]
        BY <1>1, BoundsAssumption DEF DiskType
      <3>2. existing \subseteq Workspaces
        BY WorkspaceAssumption
      <3> QED
        BY <3>1, <3>2 DEF TrashRecord
    <2>2. \A w \in Workspaces : new.moved[w] # 0 => w \in taken
      OBVIOUS
    <2>3. new.kept \cap taken = {}
      OBVIOUS
    <2> HIDE DEF existing, taken, new
    <2>4. DiskType'
      BY <1>1, <1>3, <1>6, <2>1 DEF DiskType, clients, dirs
    <2>5. /\ record'[b] = new /\ \A c \in Batches : c # b => record'[c] = record[c]
          /\ life' = life /\ live' = live /\ action' = action /\ phase' = phase /\ manifest' = manifest
          /\ audit' = audit /\ sdir' = sdir /\ wdir' = wdir /\ roots' = roots /\ records' = records
          /\ held' = held
      BY <1>1, <1>3, <1>6 DEF DiskType, clients, dirs
    <2>6. DiskInv'
      <3>1. OneIntent' /\ OnlySubmitted' /\ ManifestCovers' /\ AuditIsTrue'
        BY <1>1, <1>3, <1>4, <1>6, <2>1, <2>5 DEF DiskInv, OneIntent, OnlySubmitted, ManifestCovers, AuditIsTrue,
           Closed, Empty
      <3>2. HoldsRecorded'
        BY <1>1, <1>4, <2>2, <2>3, <2>5 DEF DiskInv, HoldsRecorded, Empty, Moves, Moved
      <3>3. NothingLost'
        BY <1>1, <1>3, <2>5 DEF DiskInv, NothingLost, Erasing
      <3>4. WholeBatch'
        BY <1>1, <1>6, <2>5 DEF DiskInv, WholeBatch, Closed, Empty, Complete, Moves, Moved
      <3> QED
        BY <3>1, <3>2, <3>3, <3>4 DEF DiskInv
    <2>7. ControlType' /\ ControlInv'
      <3>1. CASE pc' = "stage" /\ cur' = b /\ UNCHANGED <<mgr, todo>>
        <4>1. ControlType'
          BY <1>1, <3>1, NamesAreDistinct DEF ControlType, Steps, ApplySteps
        <4>2. ControlInv'
          BY <1>4, <1>6, <2>5, <3>1 DEF ControlInv, OwnsIntent, Empty,
             BatchInHand, PassedIsRemoved,
             ApplySteps, GuardedSteps, RollbackSteps, RestoreSteps, PurgeSteps
        <4> QED
          BY <4>1, <4>2
      <3>2. CASE UNCHANGED control
        BY <1>1, <1>3, <3>2, IdleControl DEF ControlType, control
      <3> QED
        BY <1>6, <3>1, <3>2
    <2> QED
      BY <2>4, <2>6, <2>7, PartsNext
  <1> QED
    BY <1>2, <1>5, <1>6

LEMMA BeginTrashActionStep ==
    ASSUME Inductive, NEW b \in Batches, NEW kind \in {"restore", "purge"}, BeginTrashAction(b, kind)
    PROVE  Inductive'
  <1>1. TypeOK /\ DiskType /\ ControlType /\ DiskInv /\ ControlInv
    BY Parts
  <1> DEFINE listed == IF kind = "restore" THEN {}
                       ELSE held[b] \cup {"trash.json", "jobs/", "batch/"}
                              \cup (IF wdir[b] = "batch" THEN {"workspaces/"} ELSE {})
  <1>2. /\ action[b] = "none" /\ b \notin tx /\ Verified(b) /\ pc = "idle"
        /\ UNCHANGED <<clients, record, tx, audit, dirs, crashes>>
    BY DEF BeginTrashAction, CanServe
  <1>3. \/ UNCHANGED <<action, phase, manifest>> /\ UNCHANGED control
        \/ /\ action' = [action EXCEPT ![b] = kind]
           /\ phase' = [phase EXCEPT ![b] = "prepared"]
           /\ manifest' = [manifest EXCEPT ![b] = listed]
           /\ \/ pc' = kind /\ cur' = b /\ UNCHANGED <<mgr, todo>>
              \/ UNCHANGED control
    BY DEF BeginTrashAction, Outcomes
  <1>4. CASE UNCHANGED <<action, phase, manifest>> /\ UNCHANGED control
    <2>1. DiskType' /\ DiskInv'
      BY <1>1, <1>2, <1>4, DiskFrame DEF DiskType, disk, clients, dirs
    <2>2. ControlType' /\ ControlInv'
      BY <1>1, <1>2, <1>4, IdleControl DEF ControlType, control
    <2> QED
      BY <2>1, <2>2, PartsNext
  <1>5. CASE /\ action' = [action EXCEPT ![b] = kind]
             /\ phase' = [phase EXCEPT ![b] = "prepared"]
             /\ manifest' = [manifest EXCEPT ![b] = listed]
             /\ \/ pc' = kind /\ cur' = b /\ UNCHANGED <<mgr, todo>>
                \/ UNCHANGED control
    <2>1. /\ listed \subseteq Items \cup DirEntries
          /\ kind = "purge" => /\ held[b] \cup {"trash.json", "jobs/", "batch/"} \subseteq listed
                               /\ wdir[b] # "none" => "workspaces/" \in listed
      <3>1. held[b] \subseteq Items
        BY <1>1 DEF DiskType
      <3>2. wdir[b] # "none" => wdir[b] = "batch"
        BY <1>1, <1>2 DEF DiskInv, HoldsRecorded, Verified
      <3> QED
        BY <3>1, <3>2 DEF DirEntries
    <2>2. record[b].jobs # {} /\ audit[b] = "none"
      BY <1>1, <1>2 DEF DiskInv, OneIntent, OnlySubmitted, AuditIsTrue, Empty, Verified
    <2> HIDE DEF listed
    <2>3. DiskType'
      BY <1>1, <1>2, <1>5, <2>1 DEF DiskType, clients, dirs
    <2>4. /\ action'[b] = kind /\ phase'[b] = "prepared" /\ manifest'[b] = listed
          /\ \A c \in Batches : c # b => /\ action'[c] = action[c] /\ phase'[c] = phase[c]
                                       /\ manifest'[c] = manifest[c]
          /\ life' = life /\ live' = live /\ record' = record /\ tx' = tx /\ audit' = audit
          /\ sdir' = sdir /\ wdir' = wdir /\ roots' = roots /\ records' = records /\ held' = held
      BY <1>1, <1>2, <1>5 DEF DiskType, clients, dirs
    <2>5. DiskInv'
      <3>1. OneIntent' /\ OnlySubmitted' /\ HoldsRecorded' /\ AuditIsTrue'
        BY <1>1, <1>2, <2>2, <2>4 DEF DiskInv, OneIntent, OnlySubmitted, HoldsRecorded, AuditIsTrue, Closed, Empty,
           Moves, Moved
      <3>2. ManifestCovers'
        BY <1>1, <2>1, <2>4 DEF DiskInv, ManifestCovers
      <3>3. NothingLost'
        BY <1>1, <1>2, <2>4 DEF DiskInv, NothingLost, Erasing
      <3>4. WholeBatch'
        BY <1>1, <2>4 DEF DiskInv, WholeBatch, Closed, Empty, Complete, Moves, Moved
      <3> QED
        BY <3>1, <3>2, <3>3, <3>4 DEF DiskInv
    <2>6. ControlType' /\ ControlInv'
      <3>1. CASE pc' = kind /\ cur' = b /\ UNCHANGED <<mgr, todo>>
        <4>1. ControlType'
          BY <1>1, <3>1, NamesAreDistinct DEF ControlType, Steps, RestoreSteps, PurgeSteps
        <4>2. ControlInv'
          BY <2>4, <3>1 DEF ControlInv, OwnsIntent,
             BatchInHand, PassedIsRemoved,
             ApplySteps, GuardedSteps, RollbackSteps, RestoreSteps, PurgeSteps
        <4> QED
          BY <4>1, <4>2
      <3>2. CASE UNCHANGED control
        BY <1>1, <1>2, <3>2, IdleControl DEF ControlType, control
      <3> QED
        BY <1>5, <3>1, <3>2
    <2> QED
      BY <2>3, <2>5, <2>6, PartsNext
  <1> QED
    BY <1>3, <1>4, <1>5

\* A durable action is taken up where its phase says.
LEMMA Resumed ==
    ASSUME Inductive, NEW b \in Batches, action[b] # "none", ResumeAction(b),
           UNCHANGED <<clients, intents, dirs, mgr, crashes>>
    PROVE  Inductive'
  <1>1. TypeOK /\ DiskType /\ ControlType /\ DiskInv /\ ControlInv
    BY Parts
  <1>2. DiskType' /\ DiskInv'
    BY <1>1, DiskFrame DEF DiskType, disk, clients, intents, dirs
  <1>3. held[b] \subseteq Moves(b) /\ Moves(b) \cup record[b].kept \subseteq Items
        /\ action[b] \in {"restore", "purge"} /\ phase[b] \in {"prepared", "moving", "finalizing"}
    BY <1>1, MovesAreItems DEF DiskType, DiskInv, HoldsRecorded, Items
  <1>4. /\ cur' = b
        /\ \/ pc' = "restore" /\ todo' = {} /\ action[b] = "restore" /\ phase[b] = "prepared"
           \/ pc' = "restore-items" /\ todo' = Moves(b) \cup record[b].kept /\ action[b] = "restore"
           \/ pc' = "purge" /\ todo' = {} /\ action[b] = "purge" /\ phase[b] = "prepared"
           \/ pc' = "purge-workspaces" /\ todo' = {} /\ action[b] = "purge"
           \/ pc' = "purge-entry" /\ todo' = {} /\ action[b] = "purge" /\ phase[b] = "finalizing"
    BY <1>3 DEF ResumeAction
  <1>5. ControlType'
    BY <1>1, <1>3, <1>4, NamesAreDistinct DEF ControlType, Steps, RestoreSteps, PurgeSteps
  <1>6. ControlInv'
    BY <1>3, <1>4 DEF intents, dirs, ControlInv, OwnsIntent,
         BatchInHand, PassedIsRemoved,
         ApplySteps, GuardedSteps, RollbackSteps, RestoreSteps, PurgeSteps
  <1> QED
    BY <1>2, <1>5, <1>6, PartsNext

-----------------------------------------------------------------------------
(* The manager and its clients *)

LEMMA RecoverTransactionStep ==
    ASSUME Inductive, NEW b \in Batches, RecoverTransaction(b) PROVE Inductive'
  <1>1. TypeOK /\ DiskType /\ ControlType /\ DiskInv /\ ControlInv
    BY Parts
  <1>2. DiskType' /\ DiskInv'
    BY <1>1, DiskFrame DEF RecoverTransaction, DiskType, disk, clients, intents, dirs
  <1>3. held[b] \subseteq Moves(b) /\ Moves(b) \subseteq Items
    BY <1>1, MovesAreItems DEF DiskInv, HoldsRecorded
  <1>4. /\ cur' = b /\ b \in tx
        /\ (pc' = "publish" /\ todo' = {}) \/ (pc' = "move-back" /\ todo' = Moves(b))
    BY DEF RecoverTransaction
  <1>5. ControlType'
    BY <1>1, <1>3, <1>4, NamesAreDistinct
       DEF RecoverTransaction, ControlType, Steps, GuardedSteps, RollbackSteps
  <1>6. ControlInv'
    BY <1>3, <1>4 DEF RecoverTransaction, intents, dirs, Moves, Moved, ControlInv, OwnsIntent,
         BatchInHand, PassedIsRemoved,
         ApplySteps, GuardedSteps, RollbackSteps, RestoreSteps, PurgeSteps
  <1> QED
    BY <1>2, <1>5, <1>6, PartsNext

\* Steps that leave the files and the lock alone.
LEMMA ManagerStep ==
    ASSUME Inductive, Start \/ Serve \/ Close \/ Crash PROVE Inductive'
  <1>1. TypeOK /\ DiskType /\ ControlType /\ DiskInv /\ ControlInv
    BY Parts
  <1>2. DiskType' /\ DiskInv'
    BY <1>1, DiskFrame, BoundsAssumption
       DEF Start, Serve, Close, Crash, DiskType, disk, clients, intents, dirs
  <1>3. CASE Crash
    BY <1>1, <1>2, <1>3, IdleControl, PartsNext DEF Crash, ControlType, Steps
  <1>4. CASE Start \/ Serve \/ Close
    <2>1. UNCHANGED <<intents, dirs, cur, pc, todo>> /\ mgr' \in {"starting", "up", "down"}
      BY <1>4 DEF Start, Serve, Close
    <2>2. ControlType' /\ ControlInv'
      BY <1>1, <2>1 DEF ControlType, intents, dirs, Empty, Complete, Moves, Moved, ControlInv, OwnsIntent,
         BatchInHand, PassedIsRemoved,
         ApplySteps, GuardedSteps, RollbackSteps, RestoreSteps, PurgeSteps
    <2> QED
      BY <1>2, <2>2, PartsNext
  <1> QED
    BY <1>3, <1>4

LEMMA ClientStep ==
    ASSUME Inductive,
           \/ \E j \in Jobs : Submit(j) \/ Settle(j)
           \/ \E w \in Workspaces : WriteWorkspace(w)
    PROVE  Inductive'
  <1>1. TypeOK /\ DiskType /\ ControlType /\ DiskInv /\ ControlInv
    BY Parts
  <1>2. UNCHANGED <<intents, dirs, control, crashes>>
    BY DEF Submit, Settle, WriteWorkspace
  <1>3. ControlType' /\ ControlInv'
    BY <1>1, <1>2 DEF ControlType, control, intents, dirs, Empty, Complete, Moves, Moved, ControlInv, OwnsIntent,
         BatchInHand, PassedIsRemoved,
         ApplySteps, GuardedSteps, RollbackSteps, RestoreSteps, PurgeSteps
  <1>4. ASSUME NEW j \in Jobs, Submit(j) PROVE DiskType' /\ DiskInv'
    <2>1. DiskType'
      BY <1>1, <1>2, <1>4 DEF Submit, DiskType, intents, dirs
    <2>2. j \notin live /\ \A b \in Batches : j \notin held[b] /\ j \notin record[b].jobs
      <3>1. j \notin live /\ \A b \in Batches : j \notin record[b].jobs
        BY <1>1, <1>4 DEF Submit, DiskInv, OnlySubmitted
      <3>2. \A b \in Batches : held[b] \subseteq Moves(b) /\ Moved(b) \cap Jobs = {}
        BY <1>1, MovesAreItems, NamesAreDistinct DEF DiskInv, HoldsRecorded
      <3> QED
        BY <3>1, <3>2 DEF Moves
    <2>3. /\ life'[j] = "active" /\ live' = live \cup {j}
          /\ \A k \in Jobs : k # j => life'[k] = life[k]
      BY <1>1, <1>4 DEF Submit, DiskType
    <2>4. NothingLost' /\ OnlySubmitted'
      BY <1>1, <1>2, <2>2, <2>3 DEF DiskInv, NothingLost, OnlySubmitted, Erasing, intents, dirs
    <2> QED
      BY <1>1, <1>2, <2>1, <2>4 DEF DiskInv, OneIntent, HoldsRecorded, ManifestCovers,
         WholeBatch, AuditIsTrue, Closed, Empty, Complete, intents, dirs, Moves, Moved
  <1>5. ASSUME NEW j \in Jobs, Settle(j) PROVE DiskType' /\ DiskInv'
    <2>1. /\ life[j] = "active" /\ life'[j] = "terminal" /\ live' = live
          /\ \A k \in Jobs : k # j => life'[k] = life[k]
      BY <1>1, <1>5 DEF Settle, DiskType
    <2>2. DiskType'
      BY <1>1, <1>2, <1>5 DEF Settle, DiskType, intents, dirs
    <2>3. NothingLost' /\ OnlySubmitted'
      BY <1>1, <1>2, <2>1 DEF DiskInv, NothingLost, OnlySubmitted, Erasing, intents, dirs
    <2> QED
      BY <1>1, <1>2, <2>2, <2>3 DEF DiskInv, OneIntent, HoldsRecorded, ManifestCovers,
         WholeBatch, AuditIsTrue, Closed, Empty, Complete, intents, dirs, Moves, Moved
  <1>6. ASSUME NEW w \in Workspaces, WriteWorkspace(w) PROVE DiskType' /\ DiskInv'
    BY <1>1, <1>2, <1>6, DiskFrame, BoundsAssumption
       DEF WriteWorkspace, DiskType, disk, intents, dirs
  <1> QED
    BY <1>3, <1>4, <1>5, <1>6, PartsNext

-----------------------------------------------------------------------------
(* The theorems *)

LEMMA ProceedStep == ASSUME Inductive, Proceed PROVE Inductive'
  BY CreateStagingStep, MoveOutStep, WriteTrashRecordStep, BeginPublishStep,
     PublishWorkspacesStep, PublishStateStep, VerifyPublishedStep, RemoveTransactionStep,
     MoveBackStep, DropBatchStep, RestoreItemsStep, FinishRestoreStep, FinishPurgeStep,
     RemoveActionStep DEF Proceed

LEMMA RecoverStep == ASSUME Inductive, Recover PROVE Inductive'
  <1>1. ASSUME NEW b \in Batches, RecoverAction(b) PROVE Inductive'
    BY <1>1, Resumed DEF RecoverAction
  <1> QED
    BY <1>1, ManagerStep, RecoverTransactionStep DEF Recover

LEMMA RequestStep == ASSUME Inductive, Request PROVE Inductive'
  <1>1. ASSUME NEW b \in Batches, RepeatAction(b) PROVE Inductive'
    BY <1>1, Resumed DEF RepeatAction
  <1> QED
    BY <1>1, ApplyBatchDeleteStep, BeginTrashActionStep DEF Request

LEMMA InductiveInit == ASSUME Init PROVE Inductive
  <1>1. TypeOK
    BY BoundsAssumption DEF Init, TypeOK, TrashRecord, DirNames, Steps
  <1>2. OneIntent /\ OnlySubmitted /\ HoldsRecorded /\ ManifestCovers
    BY DEF Init, OneIntent, OnlySubmitted, HoldsRecorded, ManifestCovers, Closed, Empty, Moves, Moved
  <1>3. OwnsIntent /\ BatchInHand /\ PassedIsRemoved
    BY DEF Init, OwnsIntent, BatchInHand, PassedIsRemoved, ApplySteps, GuardedSteps,
       RollbackSteps, RestoreSteps, PurgeSteps
  <1>4. NothingLost /\ WholeBatch /\ AuditIsTrue
    BY DEF Init, NothingLost, WholeBatch, AuditIsTrue, Closed, Empty
  <1> QED
    BY <1>1, <1>2, <1>3, <1>4 DEF Inductive

LEMMA InductiveNext == ASSUME Inductive, [Next]_vars PROVE Inductive'
  <1>1. CASE UNCHANGED vars
    BY <1>1 DEF vars, Inductive, TypeOK, OneIntent, OnlySubmitted, HoldsRecorded, ManifestCovers,
       OwnsIntent, BatchInHand, PassedIsRemoved, NothingLost, WholeBatch, AuditIsTrue,
       Closed, Erasing, Empty, Complete, Moves, Moved
  <1> QED
    BY <1>1, ProceedStep, RecoverStep, RequestStep, ManagerStep, ClientStep DEF Next

\* What every step of the trash operations keeps true, crashes and failing
\* effects included.
THEOREM InductiveInvariant == Spec => []Inductive
  BY InductiveInit, InductiveNext, PTL DEF Spec

\* Every variable of the trash operations keeps its type.
THEOREM TypeCorrect == Spec => []TypeOK
  <1>1. Inductive => TypeOK
    BY DEF Inductive
  <1> QED
    BY <1>1, InductiveInvariant, PTL

\* A job's directory is in exactly one place until a purge erases it.
THEOREM NothingIsLost == Spec => []NothingLost
  <1>1. Inductive => NothingLost
    BY DEF Inductive
  <1> QED
    BY <1>1, InductiveInvariant, PTL

\* Without a pending intent a batch is complete, or nothing is left of it.
THEOREM BatchesAreWhole == Spec => []WholeBatch
  <1>1. Inductive => WholeBatch
    BY DEF Inductive
  <1> QED
    BY <1>1, InductiveInvariant, PTL

\* A purge that is resumed finds everything it has not removed in its manifest.
THEOREM CursorNeverAhead == Spec => []CursorBehindRemovals
  <1>1. Inductive => CursorBehindRemovals
    BY DEF Inductive, ManifestCovers, CursorBehindRemovals, Erasing
  <1> QED
    BY <1>1, InductiveInvariant, PTL

\* A terminal audit record tells the truth about a batch that is gone.
THEOREM AuditsAreTrue == Spec => []AuditIsTrue
  <1>1. Inductive => AuditIsTrue
    BY DEF Inductive
  <1> QED
    BY <1>1, InductiveInvariant, PTL

-----------------------------------------------------------------------------
(*****************************************************************************)
(* What a step may do to the directories it moves, and the implementation of *)
(* TrashBin.                                                                 *)
(*****************************************************************************)

-----------------------------------------------------------------------------
(* What happens to the batches' contents *)

\* An operation moves one item out of its original path, moves one home, or
\* erases an entry of a batch that is being purged; or it moves nothing.
Contents ==
    \/ LeaveItems
    \/ \E b \in tx : \E i \in Moves(b) \ held[b] : AtHome(i) /\ Unchanged(b, i) /\ TakeAway(b, i)
    \/ \E b \in Batches : \E i \in held[b] :
          ~AtHome(i) /\ (b \in tx \/ action[b] = "restore") /\ TakeHome(b, i)
    \/ \E b \in Batches : \E i \in held[b] :
          Erasing(b) /\ held' = [held EXCEPT ![b] = @ \ {i}] /\ UNCHANGED <<live, version>>

LEMMA MoveOutContents == ASSUME Inductive, MoveOut PROVE Contents
  <1>1. /\ cur \in tx /\ todo \subseteq Moves(cur) /\ NextItems \subseteq todo
        /\ held[cur] \cap todo = {}
    BY TransactionInHand DEF MoveOut, GuardedSteps, Inductive, BatchInHand, NextItems
  <1>2. LeaveItems \/ \E i \in NextItems : AtHome(i) /\ Unchanged(cur, i) /\ TakeAway(cur, i)
    BY DEF MoveOut
  <1> QED
    BY <1>1, <1>2 DEF Contents

LEMMA MoveBackContents == ASSUME Inductive, MoveBack PROVE Contents
  <1>1. cur \in tx /\ cur \in Batches
    BY TransactionInHand DEF MoveBack, RollbackSteps
  <1>2. LeaveItems \/ \E i : OneCopy(cur, i) /\ ~AtHome(i) /\ TakeHome(cur, i)
    BY DEF MoveBack
  <1> QED
    BY <1>1, <1>2 DEF Contents, OneCopy

LEMMA RestoreItemsContents == ASSUME Inductive, RestoreItems PROVE Contents
  <1>1. action[cur] = "restore" /\ cur \in Batches
    BY ActionInHand DEF RestoreItems, RestoreSteps
  <1>2. LeaveItems \/ \E i : OneCopy(cur, i) /\ ~AtHome(i) /\ TakeHome(cur, i)
    BY DEF RestoreItems
  <1> QED
    BY <1>1, <1>2 DEF Contents, OneCopy

LEMMA PurgeEntryContents == ASSUME Inductive, PurgeEntry PROVE Contents
  <1>1. cur \in Batches /\ Erasing(cur)
    BY ActionInHand DEF PurgeEntry, PurgeSteps, Inductive, OwnsIntent, Erasing
  <1>2. UNCHANGED <<live, version>> /\ (held' = held \/ \E e : held' = [held EXCEPT ![cur] = @ \ {e}])
    BY DEF PurgeEntry, RemoveEntry, clients, dirs
  <1>3. ASSUME NEW e, e \notin held[cur], held' = [held EXCEPT ![cur] = @ \ {e}] PROVE held' = held
    BY <1>1, <1>3 DEF Inductive, TypeOK
  <1> QED
    BY <1>1, <1>2, <1>3 DEF Contents, LeaveItems

LEMMA ProceedContents == ASSUME Inductive, Proceed PROVE Contents
  <1>1. CASE CreateStaging \/ WriteTrashRecord \/ BeginPublish \/ PublishWorkspaces
             \/ PublishState \/ VerifyPublished \/ RemoveTransaction \/ RemoveAction
    BY <1>1 DEF Contents, LeaveItems, CreateStaging, WriteTrashRecord, BeginPublish,
       PublishWorkspaces, PublishState, VerifyPublished, RemoveTransaction, RemoveAction,
       clients, dirs
  <1>2. CASE DropBatch \/ FinishRestore
    BY <1>2 DEF Contents, LeaveItems, DropBatch, FinishRestore, RemoveRecordFile, RemoveJobsRoot,
       RemoveStateDir, RemoveWorkspaceDir, SetPhase, WriteAudit, clients, dirs
  <1>3. CASE FinishPurge
    <2>1. CASE PurgeEntry
      BY <2>1, PurgeEntryContents
    <2>2. CASE ~PurgeEntry
      BY <1>3, <2>2 DEF FinishPurge, Contents, LeaveItems, PurgeWorkspaceDir, PurgeStateDir,
         AdvanceCursor, SetPhase, WriteAudit, clients, dirs
    <2> QED
      BY <2>1, <2>2
  <1> QED
    BY <1>1, <1>2, <1>3, MoveOutContents, MoveBackContents, RestoreItemsContents DEF Proceed

\* Such a step erases nothing.
LEMMA ContentsErasesNothing == ASSUME Inductive, Contents PROVE ErasesNothing
  <1>1. TypeOK /\ DiskType
    BY Parts
  <1>2. CASE LeaveItems
    BY <1>2 DEF LeaveItems, ErasesNothing
  <1>3. ASSUME NEW b \in tx, NEW i \in Moves(b) \ held[b], AtHome(i), Unchanged(b, i), TakeAway(b, i)
        PROVE  ErasesNothing
    <2>1. b \in Batches /\ i \in Items
      BY <1>1, MovesAreItems DEF DiskType
    <2>2. \A c \in Batches : held[c] \subseteq held'[c]
      BY <1>1, <1>3, <2>1 DEF TakeAway, DiskType
    <2>3. i \in held'[b]
      BY <1>1, <1>3, <2>1 DEF TakeAway, DiskType
    <2>4. \A w \in Workspaces : version'[w] # version[w] => w = i /\ record[b].moved[w] = version[w]
      BY <1>1, <1>3 DEF TakeAway, DiskType, Unchanged
    <2> QED
      BY <2>1, <2>2, <2>3, <2>4 DEF ErasesNothing
  <1>4. ASSUME NEW b \in Batches, NEW i \in held[b], ~AtHome(i), TakeHome(b, i)
        PROVE  ErasesNothing
    <2>1. i \in Items
      BY <1>1 DEF DiskType
    <2>2. \A c \in Batches : \A k \in held[c] \ held'[c] : c = b /\ k = i
      BY <1>1, <1>4 DEF TakeHome, DiskType
    <2>3. CASE i \in Jobs
      BY <1>4, <2>2, <2>3 DEF TakeHome, ErasesNothing
    <2>4. CASE i \in Workspaces /\ i \notin Jobs
      <3>1. version' = [version EXCEPT ![i] = record[b].moved[i]] /\ ~Exists(i)
        BY <1>4, <2>4 DEF TakeHome, AtHome
      <3>2. \A w \in Workspaces : version'[w] # version[w] => w = i
        BY <1>1, <3>1 DEF DiskType
      <3>3. version'[i] = record[b].moved[i]
        BY <1>1, <2>4, <3>1 DEF DiskType
      <3> QED
        BY <2>2, <2>4, <3>1, <3>2, <3>3 DEF ErasesNothing
    <2> QED
      BY <2>1, <2>3, <2>4 DEF Items
  <1>5. ASSUME NEW b \in Batches, NEW i \in held[b], Erasing(b),
               held' = [held EXCEPT ![b] = @ \ {i}], UNCHANGED <<live, version>>
        PROVE  ErasesNothing
    BY <1>1, <1>5 DEF DiskType, ErasesNothing
  <1> QED
    BY <1>2, <1>3, <1>4, <1>5 DEF Contents

\* Nor does a step of anyone else.
LEMMA NextErasesNothing == ASSUME Inductive, [Next]_vars PROVE [ErasesNothing]_vars
  <1>1. CASE Proceed
    BY <1>1, ProceedContents, ContentsErasesNothing
  <1>2. CASE Recover \/ Request \/ Start \/ Close \/ Crash \/ \E j \in Jobs : Submit(j) \/ Settle(j)
    <2>1. UNCHANGED <<version, held>>
      BY <1>2 DEF Recover, Serve, RecoverTransaction, RecoverAction, Request, ApplyBatchDelete,
         BeginTrashAction, RepeatAction, Start, Close, Crash, Submit, Settle, clients, dirs
    <2> QED
      BY <2>1 DEF ErasesNothing
  <1>3. ASSUME NEW w \in Workspaces, WriteWorkspace(w) PROVE ErasesNothing
    <2>1. fresh' # fresh /\ held' = held
      BY <1>3, BoundsAssumption DEF WriteWorkspace, dirs, Inductive, TypeOK
    <2> QED
      BY <2>1 DEF ErasesNothing
  <1> QED
    BY <1>1, <1>2, <1>3 DEF Next

\* Directories leave a batch for home or by a purge in its last phase, and no
\* workspace is overwritten by a move.
THEOREM NothingIsErased == Spec => NothingErased
  BY InductiveInvariant, NextErasesNothing, PTL DEF Spec, NothingErased

-----------------------------------------------------------------------------
(* The operations implement TrashBin *)

\* What the abstract state says of a batch and a job.
LEMMA AbstractState ==
    ASSUME Inductive
    PROVE  /\ \A b \in Batches : /\ Contained[b] = JobsIn(b) /\ Chosen[b] = record[b].jobs
                                 /\ Progress[b] = BatchStatus(b)
           /\ \A b \in Batches : /\ b \in tx => Progress[b] = "open"
                                 /\ action[b] = "restore" => Progress[b] = "restoring"
                                 /\ action[b] = "purge" => Progress[b] = "purging"
                                 /\ Closed(b) /\ sdir[b] = "batch" => Progress[b] = "trashed"
                                 /\ Closed(b) /\ sdir[b] # "batch" => Progress[b] = "free"
           /\ \A j \in Jobs : j \in Gone <=> /\ life[j] # "absent" /\ j \notin live
                                             /\ \A b \in Batches : j \notin Contained[b]
  <1>1. \A b \in Batches : b \in tx => action[b] = "none"
    BY DEF Inductive, OneIntent
  <1> QED
    BY <1>1 DEF Contained, Chosen, Progress, BatchStatus, Gone, JobsIn, Closed

LEMMA InitSimulates == ASSUME Init PROVE Bin!Init
  BY DEF Init, Bin!Init, Contained, Chosen, Progress, Gone, BatchStatus, JobsIn

\* A step on workspaces, directories and control leaves the abstract state.
LEMMA Stutter ==
    ASSUME Inductive, UNCHANGED <<live, life, record, tx, action>>,
           \A b \in Batches : JobsIn(b)' = JobsIn(b),
           \A b \in Batches : Closed(b) => sdir'[b] = sdir[b]
    PROVE  UNCHANGED Bin!binVars
  <1>1. Contained' = Contained /\ Chosen' = Chosen
    BY DEF Contained, Chosen
  <1>2. Progress' = Progress
    BY DEF Progress, BatchStatus, Closed, Inductive, TypeOK
  <1>3. Gone' = Gone
    BY DEF Gone, JobsIn
  <1> QED
    BY <1>1, <1>2, <1>3 DEF Bin!binVars

\* An item moves: nothing but the contents of one batch and the lists change.
LEMMA ContentsSimulates ==
    ASSUME Inductive, Inductive', Contents, UNCHANGED <<life, record, tx, action>>,
           \A b \in Batches : Closed(b) => sdir'[b] = sdir[b]
    PROVE  [Bin!Next]_(Bin!binVars)
  <1>1. TypeOK /\ DiskType /\ TypeOK'
    BY Parts DEF Inductive
  <1>2. Chosen' = Chosen /\ Progress' = Progress
    BY <1>1 DEF Chosen, Progress, BatchStatus, Closed, TypeOK
  <1>3. CASE LeaveItems
    BY <1>3, Stutter DEF LeaveItems, JobsIn
  <1>4. ASSUME NEW b \in tx, NEW i \in Moves(b) \ held[b], AtHome(i), TakeAway(b, i)
        PROVE  [Bin!Next]_(Bin!binVars)
    <2>1. b \in Batches /\ i \in Items
      BY <1>1, MovesAreItems DEF DiskType
    <2>2. CASE i \in Jobs
      <3>1. /\ i \in live /\ i \in Chosen[b] /\ Progress[b] = "open"
        <4>1. i \in live /\ i \in record[b].jobs
          BY <1>1, <1>4, <2>1, <2>2, MovesAreItems, NamesAreDistinct DEF AtHome, Moves
        <4> QED
          BY <2>1, <4>1, AbstractState
      <3>2. live' = live \ {i} /\ Contained' = [Contained EXCEPT ![b] = @ \cup {i}]
        <4>1. \A c \in Batches : JobsIn(c)' = IF c = b THEN JobsIn(b) \cup {i} ELSE JobsIn(c)
          BY <1>1, <1>4, <2>1, <2>2 DEF TakeAway, JobsIn, DiskType
        <4>2. Contained' = [Contained EXCEPT ![b] = @ \cup {i}]
          BY <4>1 DEF Contained
        <4> QED
          BY <1>4, <4>2 DEF TakeAway
      <3>3. Gone' = Gone
        BY <1>1, <1>4, <2>1, <2>2, <3>1, <3>2 DEF Gone, TakeAway, DiskType
      <3>4. Bin!Take(b, i)
        BY <1>2, <3>1, <3>2, <3>3 DEF Bin!Take
      <3> QED
        BY <2>1, <2>2, <3>4 DEF Bin!Next
    <2>3. CASE i \in Workspaces
      <3>1. live' = live /\ \A c \in Batches : JobsIn(c)' = JobsIn(c)
        BY <1>1, <1>4, <2>1, <2>3, NamesAreDistinct DEF TakeAway, DiskType, JobsIn
      <3> QED
        BY <3>1, Stutter
    <2> QED
      BY <2>1, <2>2, <2>3 DEF Items
  <1>5. ASSUME NEW b \in Batches, NEW i \in held[b], b \in tx \/ action[b] = "restore", TakeHome(b, i)
        PROVE  [Bin!Next]_(Bin!binVars)
    <2>1. i \in Items
      BY <1>1 DEF DiskType
    <2>2. CASE i \in Jobs
      <3>1. Progress[b] \in {"open", "restoring"} /\ i \in Contained[b]
        BY <1>5, <2>2, AbstractState DEF JobsIn
      <3>2. live' = live \cup {i} /\ Contained' = [Contained EXCEPT ![b] = @ \ {i}]
        BY <1>1, <1>5, <2>2 DEF TakeHome, Contained, JobsIn, DiskType
      <3>3. Gone' = Gone
        <4>1. \A j \in Jobs \ {i} : j \in Gone' <=> j \in Gone
          BY <1>1, <1>5, <3>2 DEF Gone, TakeHome, DiskType
        <4>2. i \notin Gone /\ i \notin Gone'
          BY <1>5, <3>2 DEF Gone
        <4> QED
          BY <4>1, <4>2 DEF Gone
      <3>4. Bin!PutBack(b, i)
        BY <1>2, <3>1, <3>2, <3>3 DEF Bin!PutBack
      <3> QED
        BY <2>2, <3>4 DEF Bin!Next
    <2>3. CASE i \in Workspaces
      <3>1. live' = live /\ \A c \in Batches : JobsIn(c)' = JobsIn(c)
        BY <1>1, <1>5, <2>3, NamesAreDistinct DEF TakeHome, DiskType, JobsIn
      <3> QED
        BY <3>1, Stutter
    <2> QED
      BY <2>1, <2>2, <2>3 DEF Items
  <1>6. ASSUME NEW b \in Batches, NEW i \in held[b], Erasing(b),
               held' = [held EXCEPT ![b] = @ \ {i}], UNCHANGED <<live, version>>
        PROVE  [Bin!Next]_(Bin!binVars)
    <2>1. i \in Items
      BY <1>1 DEF DiskType
    <2>2. CASE i \in Jobs
      <3>1. Progress[b] = "purging" /\ i \in Contained[b]
        BY <1>6, <2>2, AbstractState DEF JobsIn, Erasing
      <3>2. Contained' = [Contained EXCEPT ![b] = @ \ {i}]
        BY <1>1, <1>6, <2>2 DEF Contained, JobsIn, DiskType
      <3>3. i \in Gone'
        <4>1. life[i] # "absent"
          BY <1>1, <2>2, MovesAreItems, NamesAreDistinct
             DEF Inductive, OnlySubmitted, HoldsRecorded, Moves
        <4>2. i \notin live /\ \A c \in Batches : c # b => i \notin held[c]
          BY <4>1, <2>2 DEF Inductive, NothingLost
        <4> QED
          BY <1>1, <1>6, <2>2, <4>1, <4>2 DEF Gone, DiskType
      <3>4. Gone' = Gone \cup {i}
        <4>1. \A j \in Jobs \ {i} : j \in Gone' <=> j \in Gone
          BY <1>1, <1>6 DEF Gone, DiskType
        <4> QED
          BY <2>2, <3>3, <4>1 DEF Gone
      <3>5. Bin!Erase(b, i)
        BY <1>2, <1>6, <3>1, <3>2, <3>4 DEF Bin!Erase
      <3> QED
        BY <2>2, <3>5 DEF Bin!Next
    <2>3. CASE i \in Workspaces
      <3>1. live' = live /\ \A c \in Batches : JobsIn(c)' = JobsIn(c)
        BY <1>1, <1>6, <2>3, NamesAreDistinct DEF DiskType, JobsIn
      <3> QED
        BY <3>1, Stutter
    <2> QED
      BY <2>1, <2>2, <2>3 DEF Items
  <1> QED
    BY <1>3, <1>4, <1>5, <1>6 DEF Contents

\* Only a batch with a pending intent loses or renames its state directory.
LEMMA OwnStateDir ==
    ASSUME Inductive, Proceed, ~RemoveTransaction, ~RemoveAction
    PROVE  /\ UNCHANGED <<life, record, tx, action>>
           /\ \A b \in Batches : Closed(b) => sdir'[b] = sdir[b]
  <1>1. pc # "idle" => cur \in Batches /\ ~Closed(cur)
    BY TransactionInHand, ActionInHand DEF Inductive, TypeOK, Steps
  <1>2. sdir \in [Batches -> DirNames]
    BY DEF Inductive, TypeOK
  <1>3. CASE CreateStaging \/ PublishState \/ DropBatch
    BY <1>1, <1>2, <1>3 DEF CreateStaging, PublishState, DropBatch, RemoveRecordFile,
       RemoveJobsRoot, RemoveStateDir, RemoveWorkspaceDir, clients, intents
  <1>4. CASE MoveOut \/ WriteTrashRecord \/ BeginPublish \/ PublishWorkspaces \/ VerifyPublished
             \/ MoveBack \/ RestoreItems
    BY <1>4 DEF MoveOut, WriteTrashRecord, BeginPublish, PublishWorkspaces, VerifyPublished,
       MoveBack, RestoreItems, clients, intents, dirs
  <1>5. CASE FinishRestore
    BY <1>1, <1>2, <1>5 DEF FinishRestore, RemoveRecordFile, RemoveJobsRoot, RemoveStateDir,
       RemoveWorkspaceDir, SetPhase, WriteAudit, clients, intents, dirs
  <1>6. CASE FinishPurge
    <2>1. CASE PurgeStateDir \/ PurgeEntry
      BY <1>1, <1>2, <2>1 DEF PurgeStateDir, PurgeEntry, RemoveEntry, clients, intents, dirs
    <2>2. CASE ~(PurgeStateDir \/ PurgeEntry)
      BY <1>6, <2>2 DEF FinishPurge, PurgeWorkspaceDir, AdvanceCursor, SetPhase, WriteAudit,
         clients, intents, dirs
    <2> QED
      BY <2>1, <2>2
  <1> QED
    BY <1>3, <1>4, <1>5, <1>6 DEF Proceed

\* The end of an operation commits its batch, abandons it, or closes it.
LEMMA RemoveTransactionSimulates ==
    ASSUME Inductive, RemoveTransaction PROVE [Bin!Next]_(Bin!binVars)
  <1>1. TypeOK /\ cur \in Batches /\ cur \in tx /\ action[cur] = "none"
    BY TransactionInHand DEF RemoveTransaction, GuardedSteps, RollbackSteps, Inductive
  <1>2. UNCHANGED <<clients, record, action, dirs>> /\ tx' \in {tx, tx \ {cur}}
    BY DEF RemoveTransaction
  <1>3. Contained' = Contained /\ Chosen' = Chosen /\ Gone' = Gone /\ live' = live
    BY <1>2 DEF Contained, Chosen, Gone, JobsIn, clients, dirs
  <1>4. CASE tx' = tx
    BY <1>2, <1>3, <1>4 DEF Bin!binVars, Progress, BatchStatus, dirs
  <1>5. CASE tx' = tx \ {cur} /\ Complete(cur)
    <2>1. Progress' = [Progress EXCEPT ![cur] = "trashed"]
      BY <1>1, <1>2, <1>5 DEF Progress, BatchStatus, Complete, dirs
    <2>2. Contained[cur] = Chosen[cur]
      BY <1>1, <1>5, MovesAreItems, NamesAreDistinct, Parts
         DEF Complete, Contained, Chosen, JobsIn, Moves
    <2>3. Bin!Commit(cur)
      BY <1>1, <1>3, <2>1, <2>2, AbstractState DEF Bin!Commit, Bin!Become
    <2> QED
      BY <1>1, <2>3 DEF Bin!Next
  <1>6. CASE tx' = tx \ {cur} /\ sdir[cur] = "none" /\ held[cur] = {}
    <2>1. Progress' = [Progress EXCEPT ![cur] = "free"]
      BY <1>1, <1>2, <1>6 DEF Progress, BatchStatus, dirs
    <2>2. Contained[cur] = {}
      BY <1>1, <1>6 DEF Contained, JobsIn
    <2>3. Bin!Close(cur)
      BY <1>1, <1>3, <2>1, <2>2, AbstractState DEF Bin!Close, Bin!Become
    <2> QED
      BY <1>1, <2>3 DEF Bin!Next
  <1>7. Complete(cur) \/ (sdir[cur] = "none" /\ held[cur] = {})
    BY DEF Inductive, BatchInHand, RemoveTransaction, RollbackSteps
  <1> QED
    BY <1>2, <1>4, <1>5, <1>6, <1>7

LEMMA RemoveActionSimulates ==
    ASSUME Inductive, RemoveAction PROVE [Bin!Next]_(Bin!binVars)
  <1>1. TypeOK /\ cur \in Batches /\ cur \notin tx /\ action[cur] \in {"restore", "purge"}
    BY ActionInHand DEF RemoveAction, RestoreSteps, PurgeSteps, Inductive
  <1>2. UNCHANGED <<clients, record, tx, dirs>>
        /\ (action' = action \/ action' = [action EXCEPT ![cur] = "none"])
    BY DEF RemoveAction
  <1>3. Contained' = Contained /\ Chosen' = Chosen /\ Gone' = Gone /\ live' = live
    BY <1>2 DEF Contained, Chosen, Gone, JobsIn, clients, dirs
  <1>4. CASE action' = action
    BY <1>2, <1>3, <1>4 DEF Bin!binVars, Progress, BatchStatus, dirs
  <1>5. CASE action' = [action EXCEPT ![cur] = "none"]
    <2>1. sdir[cur] = "none" /\ held[cur] = {}
      BY DEF Inductive, BatchInHand, RemoveAction, RestoreSteps, Empty
    <2>2. Progress' = [Progress EXCEPT ![cur] = "free"]
      BY <1>1, <1>2, <1>5, <2>1 DEF Progress, BatchStatus, dirs, TypeOK
    <2>3. Contained[cur] = {}
      BY <1>1, <2>1 DEF Contained, JobsIn
    <2>4. Bin!Close(cur)
      BY <1>1, <1>3, <2>2, <2>3, AbstractState DEF Bin!Close, Bin!Become
    <2> QED
      BY <1>1, <2>4 DEF Bin!Next
  <1> QED
    BY <1>2, <1>4, <1>5

LEMMA ProceedSimulates ==
    ASSUME Inductive, Inductive', Proceed PROVE [Bin!Next]_(Bin!binVars)
  BY OwnStateDir, ProceedContents, ContentsSimulates, RemoveTransactionSimulates,
     RemoveActionSimulates

\* A request opens a batch for the jobs it names, or decides a trashed one.
LEMMA ApplySimulates ==
    ASSUME Inductive, NEW b \in Batches, NEW S \in SUBSET Jobs, NEW mode, ApplyBatchDelete(b, S, mode)
    PROVE  [Bin!Next]_(Bin!binVars)
  <1>1. TypeOK /\ record[b].jobs = {} /\ S # {} /\ S \subseteq live
        /\ UNCHANGED <<clients, action, dirs>>
    BY DEF ApplyBatchDelete, Eligible, Inductive
  <1>2. \/ record' = record /\ tx' = tx
        \/ tx' = tx \cup {b} /\ \E new : record' = [record EXCEPT ![b] = new] /\ new.jobs = S
    <2> DEFINE existing == {w \in {WorkspaceOf[j] : j \in S} : Exists(w)}
               taken    == IF mode = "quarantine" THEN existing ELSE {}
               new      == [jobs  |-> S,
                            moved |-> [w \in Workspaces |-> IF w \in taken THEN version[w] ELSE 0],
                            kept  |-> existing \ taken]
    <2>1. (record' = record /\ tx' = tx) \/ (tx' = tx \cup {b} /\ record' = [record EXCEPT ![b] = new])
      BY DEF ApplyBatchDelete
    <2>2. new.jobs = S
      OBVIOUS
    <2> HIDE DEF existing, taken, new
    <2> QED
      BY <2>1, <2>2
  <1>3. Contained' = Contained /\ Gone' = Gone /\ live' = live
    BY <1>1 DEF Contained, Gone, JobsIn, clients, dirs
  <1>4. CASE record' = record /\ tx' = tx
    BY <1>1, <1>3, <1>4 DEF Bin!binVars, Chosen, Progress, BatchStatus, dirs
  <1>5. CASE tx' = tx \cup {b} /\ \E new : record' = [record EXCEPT ![b] = new] /\ new.jobs = S
    <2>1. Closed(b) /\ sdir[b] = "none"
      BY <1>1 DEF Inductive, OneIntent, Empty
    <2>2. Chosen' = [Chosen EXCEPT ![b] = S]
      BY <1>1, <1>5 DEF Chosen, TypeOK
    <2>3. Progress' = [Progress EXCEPT ![b] = "open"]
      BY <1>1, <1>5 DEF Progress, BatchStatus, dirs
    <2>4. Progress[b] = "free" /\ Chosen[b] = {}
      BY <1>1, <2>1, AbstractState
    <2>5. Bin!Open(b, S)
      BY <1>1, <1>3, <2>2, <2>3, <2>4 DEF Bin!Open, Bin!Become
    <2> QED
      BY <2>5 DEF Bin!Next
  <1> QED
    BY <1>2, <1>4, <1>5

LEMMA BeginSimulates ==
    ASSUME Inductive, NEW b \in Batches, NEW kind \in {"restore", "purge"}, BeginTrashAction(b, kind)
    PROVE  [Bin!Next]_(Bin!binVars)
  <1>1. TypeOK /\ Closed(b) /\ sdir[b] = "batch" /\ UNCHANGED <<clients, record, tx, dirs>>
        /\ (action' = action \/ action' = [action EXCEPT ![b] = kind])
    BY DEF BeginTrashAction, Verified, Closed, Inductive
  <1>2. Contained' = Contained /\ Chosen' = Chosen /\ Gone' = Gone /\ live' = live
    BY <1>1 DEF Contained, Chosen, Gone, JobsIn, clients, dirs
  <1>3. CASE action' = action
    BY <1>1, <1>2, <1>3 DEF Bin!binVars, Progress, BatchStatus, dirs
  <1>4. CASE action' = [action EXCEPT ![b] = kind]
    <2>1. Progress' = [Progress EXCEPT ![b] = IF kind = "restore" THEN "restoring" ELSE "purging"]
      BY <1>1, <1>4 DEF Progress, BatchStatus, Closed, dirs, TypeOK
    <2>2. Bin!Decide(b)
      BY <1>1, <1>2, <2>1, AbstractState DEF Bin!Decide, Bin!Become
    <2> QED
      BY <2>2 DEF Bin!Next
  <1> QED
    BY <1>1, <1>3, <1>4

\* A new job is a new record.
LEMMA SubmitSimulates ==
    ASSUME Inductive, NEW j \in Jobs, Submit(j) PROVE [Bin!Next]_(Bin!binVars)
  <1>1. TypeOK /\ life[j] = "absent" /\ life' = [life EXCEPT ![j] = "active"]
        /\ live' = live \cup {j} /\ UNCHANGED <<intents, dirs>>
    BY DEF Submit, Inductive
  <1>2. j \notin live /\ \A b \in Batches : j \notin Contained[b]
    <2>1. j \notin live /\ \A b \in Batches : j \notin record[b].jobs
      BY <1>1 DEF Inductive, OnlySubmitted
    <2>2. \A b \in Batches : held[b] \subseteq Moves(b) /\ Moved(b) \cap Jobs = {}
      BY MovesAreItems, NamesAreDistinct, Parts DEF Inductive, HoldsRecorded
    <2> QED
      BY <2>1, <2>2 DEF Contained, JobsIn, Moves
  <1>3. Contained' = Contained /\ Chosen' = Chosen /\ Progress' = Progress
    BY <1>1 DEF Contained, Chosen, Progress, BatchStatus, JobsIn, intents, dirs
  <1>4. j \notin Gone /\ Gone' = Gone
    <2>1. \A k \in Jobs \ {j} : k \in Gone' <=> k \in Gone
      BY <1>1, <1>3 DEF Gone, TypeOK, intents, dirs
    <2>2. j \notin Gone /\ j \notin Gone'
      BY <1>1 DEF Gone
    <2> QED
      BY <2>1, <2>2 DEF Gone
  <1>5. Bin!Create(j)
    BY <1>1, <1>2, <1>3, <1>4 DEF Bin!Create
  <1> QED
    BY <1>5 DEF Bin!Next

LEMMA NextSimulates ==
    ASSUME Inductive, Inductive', [Next]_vars PROVE [Bin!Next]_(Bin!binVars)
  <1>1. CASE Proceed
    BY <1>1, ProceedSimulates
  <1>2. CASE \/ Recover \/ Start \/ Close \/ Crash \/ UNCHANGED vars
             \/ \E b \in Batches : RepeatAction(b)
             \/ \E w \in Workspaces : WriteWorkspace(w)
    <2>1. UNCHANGED <<live, life, record, tx, action, sdir, held>>
      BY <1>2 DEF Recover, Serve, RecoverTransaction, RecoverAction, Start, Close, Crash, vars,
         RepeatAction, WriteWorkspace, clients, intents, dirs
    <2> QED
      BY <2>1, Stutter DEF JobsIn
  <1>3. ASSUME NEW j \in Jobs, Settle(j) PROVE [Bin!Next]_(Bin!binVars)
    <2>1. TypeOK /\ life[j] = "active" /\ life' = [life EXCEPT ![j] = "terminal"]
          /\ live' = live /\ UNCHANGED <<intents, dirs>>
      BY <1>3 DEF Settle, Inductive
    <2>2. Contained' = Contained /\ Chosen' = Chosen /\ Progress' = Progress
      BY <2>1 DEF Contained, Chosen, Progress, BatchStatus, JobsIn, intents, dirs
    <2>3. Gone' = Gone
      BY <2>1 DEF Gone, TypeOK, intents, dirs
    <2> QED
      BY <2>1, <2>2, <2>3 DEF Bin!binVars
  <1> QED
    BY <1>1, <1>2, <1>3, ApplySimulates, BeginSimulates, SubmitSimulates DEF Next, Request

\* Batch delete, restore and purge keep the promise of TrashBin: a job record
\* is live, in one batch, or erased; batches are committed whole and decided
\* once, across crashes and failing effects.
THEOREM Implementation == Spec => ImplementsTrashBin
  BY InitSimulates, NextSimulates, InductiveInvariant, PTL DEF Spec, ImplementsTrashBin, Bin!BinSpec

-----------------------------------------------------------------------------
(*****************************************************************************)
(* Why start() never refuses to recover: what the disk looks like at every   *)
(* step of a delete, a restore or a purge, so that the next step, or the     *)
(* recovery after a death, finds what it checks for.                         *)
(*****************************************************************************)

\* No two jobs were submitted with the same workspace.
PrivateWorkspaces == \A i, j \in Jobs : WorkspaceOf[i] = WorkspaceOf[j] => i = j

\* A death leaves one pending intent at the most.
OneOpen == \A b, c \in Batches : ~Closed(b) /\ ~Closed(c) => b = c

\* The jobs of a batch are over, and its workspaces are theirs.
OwnWorkspaces ==
    \A b \in Batches :
        /\ \A j \in record[b].jobs : life[j] = "terminal"
        /\ \A w \in Moved(b) \cup record[b].kept :
              \E j \in record[b].jobs : WorkspaceOf[j] = w

\* A workspace in a batch is nowhere else.
SoleHolder ==
    \A b \in Batches : \A w \in WorkspacesIn(b) :
        ~Exists(w) /\ \A c \in Batches : w \in held[c] => c = b

\* A workspace left in place is there as long as its job is in the trash.
KeptInPlace ==
    \A b \in Batches : ~Closed(b) \/ Complete(b) => \A w \in record[b].kept : Exists(w)

\* What a pending delete or restore moves is in one place, as it was measured.
Movable ==
    \A b \in Batches : b \in tx \/ action[b] = "restore" =>
        \A i \in Moves(b) : OneCopy(b, i) /\ (AtHome(i) => Unchanged(b, i))

\* A durable trash.json means that everything has been moved.
ForwardOf(b) ==
    b \in tx /\ b \in records =>
        /\ held[b] = Moves(b) /\ b \in roots
        /\ sdir[b] \in {"creating", "batch"}
        /\ Moved(b) # {} => wdir[b] \in {"creating", "batch"}
        /\ Moved(b) # {} /\ sdir[b] = "batch" => wdir[b] = "batch"

\* FINALIZING follows the renames of a purge.
RenamedOf(b) ==
    action[b] = "purge" =>
        /\ phase[b] = "finalizing" => sdir[b] # "batch" /\ wdir[b] # "batch"
        /\ phase[b] # "finalizing" =>
              /\ sdir[b] \in {"batch", "purging"}
              /\ Moved(b) # {} => wdir[b] \in {"batch", "purging"}

Forward == \A b \in Batches : ForwardOf(b)
Renamed == \A b \in Batches : RenamedOf(b)

\* The manager serves only when every intent is dealt with.
Serving ==
    /\ mgr # "refused"
    /\ mgr = "down" => pc = "idle"
    /\ mgr = "up" /\ pc = "idle" => \A b \in Batches : Closed(b)

\* Where the lock holder stands with a delete ...
DeleteInHand ==
    /\ pc \in {"stage-jobs", "stage-workspaces", "move-out", "write-record",
               "publish-workspaces", "publish-state"} => sdir[cur] = "creating"
    /\ pc \in {"stage-workspaces", "move-out", "write-record"} => cur \in roots
    /\ pc \in {"move-out", "write-record"} /\ Moved(cur) # {} => wdir[cur] = "creating"
    /\ pc = "move-out" => Moves(cur) \subseteq held[cur] \cup todo
    /\ pc = "write-record" => held[cur] = Moves(cur)
    /\ pc \in ApplySteps \cup RollbackSteps \cup {"move-out", "write-record"}
         => cur \notin records
    /\ pc \in {"publish", "publish-workspaces", "publish-state", "verify", "commit"}
         => cur \in records
    /\ pc = "publish-workspaces" => Moved(cur) # {}
    /\ pc = "publish-state" /\ Moved(cur) # {} => wdir[cur] = "batch"
    /\ pc = "verify" => sdir[cur] = "batch"

\* ... with a restore, and with a purge.
TrashActionInHand ==
    /\ pc = "restore-items" => todo \subseteq Moves(cur) \cup record[cur].kept
    /\ pc \in {"purge", "purge-workspaces", "purge-state", "purge-final"}
         => phase[cur] # "finalizing"
    /\ pc \in {"purge-state", "purge-final"} => wdir[cur] # "batch"
    /\ pc = "purge-final" => sdir[cur] # "batch"

OnDisk == /\ OneOpen /\ OwnWorkspaces /\ SoleHolder /\ KeptInPlace /\ Movable
          /\ Forward /\ Renamed
InHand == Serving /\ DeleteInHand /\ TrashActionInHand

RecoveryInv == OnDisk /\ InHand

-----------------------------------------------------------------------------
(* What the effects do to the disk *)

\* Without faults an effect happens and does not raise.
LEMMA OneEffect ==
    ASSUME Faults = {}, NEW kind PROVE Outcomes(kind) = {"done"}
BY DEF Outcomes

\* Intents are only finished, or enter another phase.
LEMMA IntentsKeepDisk ==
    ASSUME OnDisk, NEW b \in Batches, UNCHANGED <<clients, record, dirs>>,
           tx' \subseteq tx,
           \A c \in Batches : action'[c] \in {action[c], "none"},
           \A c \in Batches : c # b => phase'[c] = phase[c],
           RenamedOf(b)'
    PROVE  OnDisk'
  <1>1. \A c \in Batches : ~Closed(c)' => ~Closed(c)
    BY DEF Closed
  <1>2. OneOpen'
    BY <1>1 DEF OnDisk, OneOpen
  <1>3. OwnWorkspaces' /\ SoleHolder'
    BY DEF OnDisk, OwnWorkspaces, SoleHolder, Moved, WorkspacesIn, Exists, clients, dirs
  <1>4. KeptInPlace'
    BY <1>1 DEF OnDisk, KeptInPlace, Complete, Moved, Moves, Exists, clients, dirs
  <1>5. Movable'
    BY DEF OnDisk, Movable, Moves, Moved, OneCopy, AtHome, Exists, Unchanged, clients, dirs
  <1>6. Forward'
    BY DEF OnDisk, Forward, ForwardOf, Moves, Moved, dirs
  <1>7. \A c \in Batches : c # b => RenamedOf(c)'
    BY DEF OnDisk, Renamed, RenamedOf, Moved, dirs
  <1>8. Renamed'
    BY <1>7 DEF Renamed
  <1> QED
    BY <1>2, <1>3, <1>4, <1>5, <1>6, <1>8 DEF OnDisk

\* The directories of the batch in hand change, not what is in them.
LEMMA DirsKeepDisk ==
    ASSUME OnDisk, DiskType, NEW b \in Batches, ~Closed(b), Elsewhere(b),
           UNCHANGED <<clients, intents, held>>, ForwardOf(b)', RenamedOf(b)'
    PROVE  OnDisk'
  <1>1. \A c \in Batches : c # b =>
            /\ sdir'[c] = sdir[c] /\ wdir'[c] = wdir[c]
            /\ c \in roots' <=> c \in roots
            /\ c \in records' <=> c \in records
    BY DEF Elsewhere, DiskType
  <1>2. OneOpen'
    BY DEF OnDisk, OneOpen, Closed, intents
  <1>3. OwnWorkspaces' /\ SoleHolder'
    BY DEF OnDisk, OwnWorkspaces, SoleHolder, Moved, WorkspacesIn, Exists, clients, intents
  <1>4. KeptInPlace'
    BY <1>1 DEF OnDisk, KeptInPlace, Complete, Closed, Moved, Moves, Exists, clients, intents
  <1>5. Movable'
    BY DEF OnDisk, Movable, Moves, Moved, OneCopy, AtHome, Exists, Unchanged, clients, intents
  <1>6. \A c \in Batches : c # b => ForwardOf(c)' /\ RenamedOf(c)'
    BY <1>1 DEF OnDisk, Forward, ForwardOf, Renamed, RenamedOf, Moves, Moved, intents
  <1>7. Forward' /\ Renamed'
    BY <1>6 DEF Forward, Renamed
  <1> QED
    BY <1>2, <1>3, <1>4, <1>5, <1>7 DEF OnDisk

\* A directory goes home from the batch in hand.
LEMMA HomeKeepsDisk ==
    ASSUME OnDisk, DiskType, DiskInv, NEW b \in Batches, ~Closed(b), NEW i \in held[b],
           (b \in tx /\ b \notin records) \/ action[b] = "restore",
           TakeHome(b, i), UNCHANGED <<life, fresh, intents, sdir, wdir, roots, records>>
    PROVE  OnDisk'
  <1> USE NamesAreDistinct
  <1>1. /\ held'[b] = held[b] \ {i}
        /\ \A c \in Batches : c # b => held'[c] = held[c]
        /\ \A w \in Workspaces : w # i => version'[w] = version[w]
        /\ i \in Jobs \/ i \in Workspaces
        /\ i \in Jobs => i \notin Workspaces /\ live' = live \cup {i} /\ version' = version
        /\ i \in Workspaces =>
              /\ i \notin Jobs /\ live' = live
              /\ version'[i] = record[b].moved[i] /\ record[b].moved[i] # 0
              /\ i \in Moved(b)
    BY DEF TakeHome, DiskType, DiskInv, HoldsRecorded, Moves, Moved, Items, TrashRecord
  <1>2. \A c \in Batches : ~Closed(c) => c = b
    BY DEF OnDisk, OneOpen
  <1>3. OneOpen' /\ OwnWorkspaces'
    BY DEF OnDisk, OneOpen, Closed, OwnWorkspaces, Moved, intents
  <1>4. SoleHolder'
    BY <1>1 DEF OnDisk, SoleHolder, WorkspacesIn, Exists
  <1>5. KeptInPlace'
    <2>1. \A c \in Batches : ~Closed(c)' \/ Complete(c)' => ~Closed(c) \/ Complete(c)
      BY <1>1 DEF Closed, Complete, Moves, Moved, intents
    <2>2. \A w \in Workspaces : Exists(w) => Exists(w)'
      BY <1>1 DEF Exists
    <2>3. \A c \in Batches : record[c].kept \subseteq Workspaces
      BY DEF DiskType, TrashRecord
    <2> QED
      BY <2>1, <2>2, <2>3 DEF OnDisk, KeptInPlace, intents
  <1>6. Movable'
    <2>1. \A c \in Batches : c \in tx' \/ action'[c] = "restore" => c = b
      BY <1>2 DEF Closed, intents
    <2>2. ASSUME NEW k \in Moves(b), k # i
          PROVE  OneCopy(b, k)' /\ (AtHome(k)' => Unchanged(b, k)')
      <3>1. OneCopy(b, k) /\ (AtHome(k) => Unchanged(b, k)) /\ (k \in Jobs \/ k \in Workspaces)
        BY DEF OnDisk, Movable, Moves, Moved, DiskType, TrashRecord
      <3>2. AtHome(k)' <=> AtHome(k)
        BY <1>1, <2>2, <3>1 DEF AtHome, Exists
      <3>3. Unchanged(b, k)' <=> Unchanged(b, k)
        BY <1>1, <2>2, <3>1 DEF Unchanged, intents
      <3> QED
        BY <1>1, <2>2, <3>1, <3>2, <3>3 DEF OneCopy
    <2>3. OneCopy(b, i)' /\ Unchanged(b, i)'
      BY <1>1 DEF OneCopy, AtHome, Exists, Unchanged, intents
    <2>4. Moves(b)' = Moves(b)
      BY DEF Moves, Moved, intents
    <2> QED
      BY <2>1, <2>2, <2>3, <2>4 DEF Movable
  <1>7. Forward'
    BY <1>1, <1>2 DEF OnDisk, Forward, ForwardOf, Closed, Moves, Moved, intents, DiskInv, OneIntent
  <1>8. Renamed'
    BY DEF OnDisk, Renamed, RenamedOf, Moved, intents
  <1> QED
    BY <1>3, <1>4, <1>5, <1>6, <1>7, <1>8 DEF OnDisk

\* A directory the plan measured leaves for the batch in hand.
LEMMA AwayKeepsDisk ==
    ASSUME OnDisk, DiskType, DiskInv, PrivateWorkspaces, NEW b \in tx, b \notin records,
           NEW i \in Moves(b), AtHome(i),
           TakeAway(b, i), UNCHANGED <<life, fresh, intents, sdir, wdir, roots, records>>
    PROVE  OnDisk'
  <1> USE NamesAreDistinct
  <1>0. b \in Batches /\ ~Closed(b) /\ record[b].jobs # {} /\ action[b] = "none"
    BY DEF DiskType, Closed, DiskInv, OneIntent
  <1>1. /\ held'[b] = held[b] \cup {i}
        /\ \A c \in Batches : c # b => held'[c] = held[c]
        /\ \A w \in Workspaces : w # i => version'[w] = version[w]
        /\ \A j \in Jobs : j # i => (j \in live' <=> j \in live)
        /\ i \in Jobs \/ i \in Workspaces
        /\ i \in Jobs => i \notin Workspaces /\ i \notin live' /\ version' = version
        /\ i \in Workspaces =>
              i \notin Jobs /\ live' = live /\ version'[i] = 0 /\ version[i] # 0 /\ i \in Moved(b)
    BY <1>0 DEF TakeAway, AtHome, Exists, DiskType, Moves, Moved, Items, TrashRecord
  <1>2. \A c \in Batches : ~Closed(c) => c = b
    BY <1>0 DEF OnDisk, OneOpen
  <1>3. OneOpen' /\ OwnWorkspaces'
    BY DEF OnDisk, OneOpen, Closed, OwnWorkspaces, Moved, intents
  <1>4. SoleHolder'
    BY <1>0, <1>1 DEF OnDisk, SoleHolder, WorkspacesIn, Exists
  <1>5. ASSUME NEW c \in Batches, ~Closed(c)' \/ Complete(c)', NEW w \in record[c].kept
        PROVE  Exists(w)'
    <2>1. w \in Workspaces /\ (~Closed(c) \/ Complete(c) \/ c = b)
      BY <1>1, <1>5 DEF Closed, Complete, Moves, Moved, intents, DiskType, TrashRecord
    <2>2. Exists(w)
      BY <1>0, <1>5, <2>1 DEF OnDisk, KeptInPlace
    <2>3. CASE w # i
      BY <1>1, <2>1, <2>2, <2>3 DEF Exists
    <2>4. CASE w = i
      <3>1. c # b /\ Complete(c)
        BY <1>0, <1>1, <1>2, <1>5, <2>1, <2>4 DEF DiskInv, HoldsRecorded
      <3>2. PICK j \in record[c].jobs : WorkspaceOf[j] = w
        BY <1>5 DEF OnDisk, OwnWorkspaces
      <3>3. PICK k \in record[b].jobs : WorkspaceOf[k] = w
        BY <1>0, <1>1, <2>1, <2>4 DEF OnDisk, OwnWorkspaces
      <3>4. j \in Jobs /\ j = k
        BY <1>0, <3>2, <3>3 DEF PrivateWorkspaces, DiskType, TrashRecord
      <3>5. j \in held[c] /\ life[j] # "absent"
        BY <3>1, <3>2, <1>0 DEF Complete, Moves, OnDisk, OwnWorkspaces
      <3>6. j \notin live /\ j \notin held[b]
        BY <1>0, <3>1, <3>4, <3>5 DEF DiskInv, NothingLost
      <3>7. OneCopy(b, j)
        BY <1>0, <3>3, <3>4 DEF OnDisk, Movable, Moves
      <3> QED
        BY <3>4, <3>6, <3>7 DEF OneCopy, AtHome
    <2> QED
      BY <2>3, <2>4
  <1>6. KeptInPlace'
    BY <1>5 DEF KeptInPlace, intents
  <1>7. Movable'
    <2>1. \A c \in Batches : c \in tx' \/ action'[c] = "restore" => c = b
      BY <1>2 DEF Closed, intents
    <2>2. ASSUME NEW k \in Moves(b), k # i
          PROVE  OneCopy(b, k)' /\ (AtHome(k)' => Unchanged(b, k)')
      <3>1. OneCopy(b, k) /\ (AtHome(k) => Unchanged(b, k)) /\ (k \in Jobs \/ k \in Workspaces)
        BY <1>0 DEF OnDisk, Movable, Moves, Moved, DiskType, TrashRecord
      <3>2. AtHome(k)' <=> AtHome(k)
        BY <1>1, <2>2, <3>1 DEF AtHome, Exists
      <3>3. Unchanged(b, k)' <=> Unchanged(b, k)
        BY <1>1, <2>2, <3>1 DEF Unchanged, intents
      <3> QED
        BY <1>1, <2>2, <3>1, <3>2, <3>3 DEF OneCopy
    <2>3. OneCopy(b, i)' /\ ~AtHome(i)'
      BY <1>1 DEF OneCopy, AtHome, Exists
    <2>4. Moves(b)' = Moves(b)
      BY DEF Moves, Moved, intents
    <2> QED
      BY <2>1, <2>2, <2>3, <2>4 DEF Movable
  <1>8. Forward'
    BY <1>0, <1>1, <1>2 DEF OnDisk, Forward, ForwardOf, Closed, Moves, Moved, intents
  <1>9. Renamed'
    BY DEF OnDisk, Renamed, RenamedOf, Moved, intents
  <1> QED
    BY <1>3, <1>4, <1>6, <1>7, <1>8, <1>9 DEF OnDisk

\* A purge removes an entry.
LEMMA EntryKeepsDisk ==
    ASSUME OnDisk, DiskType, DiskInv, cur \in Batches, Erasing(cur), NEW e, RemoveEntry(e),
           UNCHANGED <<clients, intents>>
    PROVE  OnDisk'
  <1>0. ~Closed(cur) /\ cur \notin tx /\ action[cur] = "purge" /\ phase[cur] = "finalizing"
    BY DEF Erasing, Closed, DiskInv, OneIntent
  <1>1. /\ held'[cur] = held[cur] \ {e}
        /\ \A c \in Batches : c # cur =>
            /\ held'[c] = held[c] /\ sdir'[c] = sdir[c] /\ wdir'[c] = wdir[c]
            /\ c \in roots' <=> c \in roots
            /\ c \in records' <=> c \in records
        /\ wdir'[cur] \in {"none", wdir[cur]} /\ sdir'[cur] \in {"none", sdir[cur]}
    BY DEF RemoveEntry, DiskType
  <1>2. \A c \in Batches : ~Closed(c) => c = cur
    BY <1>0 DEF OnDisk, OneOpen
  <1>3. OneOpen' /\ OwnWorkspaces'
    BY DEF OnDisk, OneOpen, Closed, OwnWorkspaces, Moved, intents, clients
  <1>4. SoleHolder'
    BY <1>1 DEF OnDisk, SoleHolder, WorkspacesIn, Exists, clients
  <1>5. KeptInPlace'
    BY <1>0, <1>1 DEF OnDisk, KeptInPlace, Closed, Complete, Moves, Moved, Exists, clients, intents
  <1>6. \A c \in Batches : c \notin tx' /\ action'[c] # "restore"
    BY <1>0, <1>2 DEF Closed, intents
  <1>7. Movable' /\ Forward'
    BY <1>6 DEF Movable, Forward, ForwardOf
  <1>8. Renamed'
    BY <1>0, <1>1 DEF OnDisk, Renamed, RenamedOf, Moved, intents
  <1> QED
    BY <1>3, <1>4, <1>5, <1>7, <1>8 DEF OnDisk

-----------------------------------------------------------------------------
(* What the steps do to the control *)

\* A step of a request is no step of the manager.
LEMMA GoServes ==
    ASSUME Serving, pc # "idle", NEW step, step # "idle", NEW loop, Go(step, loop)
    PROVE  Serving'
BY DEF Serving, Go

\* Nothing is in hand when the lock is free.
LEMMA IdleInHand ==
    ASSUME pc' = "idle", Serving' PROVE InHand'
BY DEF InHand, DeleteInHand, TrashActionInHand, ApplySteps, RollbackSteps

\* A request or a recovery that returns leaves no intent.
LEMMA ReturnInHand ==
    ASSUME Serving, pc # "idle", Return, \A c \in Batches : Closed(c)' PROVE InHand'
BY IdleInHand DEF Serving, Return

-----------------------------------------------------------------------------
(* The steps of a delete *)

\* The staging directories are made before anything is moved.
LEMMA StagingRecovers ==
    ASSUME Faults = {}, Inductive, RecoveryInv, CreateStaging PROVE RecoveryInv'
  <1>1. /\ cur \in Batches /\ pc # "idle" /\ cur \in tx
        /\ action[cur] = "none" /\ audit[cur] = "none" /\ ~Closed(cur)
    BY TransactionInHand DEF CreateStaging, ApplySteps
  <1>2. TypeOK /\ DiskType /\ ControlType /\ DiskInv /\ ControlInv
    BY Parts
  <1>3. cur \notin records
    BY DEF RecoveryInv, InHand, DeleteInHand, CreateStaging, ApplySteps
  <1>4. /\ UNCHANGED <<clients, intents, records, held>>
        /\ \/ /\ pc = "stage" /\ UNCHANGED <<roots, wdir>>
              /\ sdir' = [sdir EXCEPT ![cur] = "creating"] /\ Go("stage-jobs", {})
           \/ /\ pc = "stage-jobs" /\ UNCHANGED <<sdir, wdir>> /\ roots' = roots \cup {cur}
              /\ \/ Moved(cur) # {} /\ Go("stage-workspaces", {})
                 \/ Moved(cur) = {} /\ Go("move-out", Moves(cur))
           \/ /\ pc = "stage-workspaces" /\ UNCHANGED <<sdir, roots>>
              /\ wdir' = [wdir EXCEPT ![cur] = "creating"] /\ Go("move-out", Moves(cur))
    BY OneEffect DEF CreateStaging, Then
  <1>5. ASSUME NEW b \in Batches, b = cur PROVE OnDisk'
    <2>1. Elsewhere(b)
      BY <1>2, <1>4, <1>5 DEF Elsewhere, DiskType
    <2>2. ForwardOf(b)' /\ RenamedOf(b)'
      BY <1>1, <1>3, <1>4, <1>5 DEF ForwardOf, RenamedOf, intents
    <2> QED
      BY <1>1, <1>2, <1>4, <1>5, <2>1, <2>2, DirsKeepDisk DEF RecoveryInv
  <1>6. InHand'
    <2>1. Serving'
      BY <1>1, <1>4, GoServes DEF RecoveryInv, InHand
    <2>2. cur' = cur /\ Moved(cur)' = Moved(cur) /\ Moves(cur)' = Moves(cur)
      BY <1>4 DEF Go, Moved, Moves, intents
    <2>3. DeleteInHand'
      BY <1>1, <1>2, <1>3, <1>4, <2>2 DEF RecoveryInv, InHand, DeleteInHand, DiskType, Go,
         ApplySteps, RollbackSteps, ControlInv, BatchInHand
    <2>4. TrashActionInHand'
      BY <1>4 DEF TrashActionInHand, Go
    <2> QED
      BY <2>1, <2>3, <2>4 DEF InHand
  <1> QED
    BY <1>1, <1>5, <1>6 DEF RecoveryInv

\* A move takes one directory to the batch, which nothing else holds.
LEMMA MoveOutRecovers ==
    ASSUME Faults = {}, PrivateWorkspaces, Inductive, RecoveryInv, MoveOut PROVE RecoveryInv'
  <1>1. /\ cur \in Batches /\ pc # "idle" /\ cur \in tx
        /\ action[cur] = "none" /\ audit[cur] = "none" /\ ~Closed(cur)
    BY TransactionInHand DEF MoveOut, GuardedSteps
  <1>2. TypeOK /\ DiskType /\ ControlType /\ DiskInv /\ ControlInv
    BY Parts
  <1>3. /\ cur \notin records /\ sdir[cur] = "creating" /\ cur \in roots
        /\ Moved(cur) # {} => wdir[cur] = "creating"
        /\ Moves(cur) \subseteq held[cur] \cup todo
    BY DEF RecoveryInv, InHand, DeleteInHand, MoveOut
  <1>4. todo \subseteq Moves(cur) /\ held[cur] \cap todo = {} /\ held[cur] \subseteq Moves(cur)
        /\ NextItems \subseteq todo
    BY <1>1, <1>2 DEF ControlInv, BatchInHand, MoveOut, DiskInv, HoldsRecorded, NextItems
  <1>5. \A i \in todo : AtHome(i) /\ Unchanged(cur, i)
    BY <1>1, <1>4 DEF RecoveryInv, OnDisk, Movable, OneCopy
  <1>6. /\ UNCHANGED <<life, fresh, intents, sdir, wdir, roots, records>>
        /\ \/ todo = {} /\ LeaveItems /\ Go("write-record", {})
           \/ \E i \in todo : TakeAway(cur, i) /\ Go("move-out", todo \ {i})
    BY <1>4, <1>5, OneEffect DEF MoveOut, Then
  <1>7. OnDisk'
    <2>1. CASE LeaveItems
      <3>1. ASSUME NEW b \in Batches, b = cur PROVE OnDisk'
        BY <1>1, <1>6, <2>1, <3>1, IntentsKeepDisk
           DEF RecoveryInv, OnDisk, Renamed, RenamedOf, LeaveItems, clients, intents, dirs
      <3> QED
        BY <1>1, <3>1
    <2>2. ASSUME NEW i \in todo, TakeAway(cur, i) PROVE OnDisk'
      BY <1>1, <1>2, <1>3, <1>4, <1>5, <1>6, <2>2, AwayKeepsDisk DEF RecoveryInv
    <2> QED
      BY <1>6, <2>1, <2>2
  <1>8. InHand'
    <2>1. Serving'
      BY <1>1, <1>6, GoServes DEF RecoveryInv, InHand
    <2>2. cur' = cur /\ Moved(cur)' = Moved(cur) /\ Moves(cur)' = Moves(cur)
      BY <1>6 DEF Go, Moved, Moves, intents
    <2>3. CASE todo = {} /\ LeaveItems /\ Go("write-record", {})
      <3>1. held[cur] = Moves(cur)
        BY <1>3, <1>4, <2>3
      <3> QED
        BY <1>3, <1>6, <2>1, <2>2, <2>3, <3>1
           DEF InHand, DeleteInHand, TrashActionInHand, Go, LeaveItems, ApplySteps, RollbackSteps
    <2>4. ASSUME NEW i \in todo, TakeAway(cur, i), Go("move-out", todo \ {i}) PROVE InHand'
      <3>1. held'[cur] = held[cur] \cup {i}
        BY <1>1, <1>2, <2>4 DEF TakeAway, DiskType
      <3> QED
        BY <1>1, <1>3, <1>4, <1>6, <2>1, <2>2, <2>4, <3>1
           DEF InHand, DeleteInHand, TrashActionInHand, Go, ApplySteps, RollbackSteps
    <2> QED
      BY <1>6, <2>3, <2>4
  <1> QED
    BY <1>7, <1>8 DEF RecoveryInv

\* trash.json is written when everything was moved.
LEMMA RecordRecovers ==
    ASSUME Faults = {}, Inductive, RecoveryInv, WriteTrashRecord PROVE RecoveryInv'
  <1>1. /\ cur \in Batches /\ pc # "idle" /\ cur \in tx
        /\ action[cur] = "none" /\ audit[cur] = "none" /\ ~Closed(cur)
    BY TransactionInHand DEF WriteTrashRecord, GuardedSteps
  <1>2. TypeOK /\ DiskType /\ ControlType /\ DiskInv /\ ControlInv
    BY Parts
  <1>3. /\ sdir[cur] = "creating" /\ cur \in roots /\ held[cur] = Moves(cur)
        /\ Moved(cur) # {} => wdir[cur] = "creating"
    BY DEF RecoveryInv, InHand, DeleteInHand, WriteTrashRecord
  <1>4. /\ UNCHANGED <<clients, intents, sdir, wdir, roots, held>>
        /\ records' = records \cup {cur} /\ Go("publish", {})
    BY OneEffect DEF WriteTrashRecord, Then
  <1>5. ASSUME NEW b \in Batches, b = cur PROVE OnDisk'
    <2>1. Elsewhere(b)
      BY <1>2, <1>4, <1>5 DEF Elsewhere, DiskType
    <2>2. ForwardOf(b)' /\ RenamedOf(b)'
      BY <1>1, <1>3, <1>4, <1>5 DEF ForwardOf, RenamedOf, intents, Moves, Moved
    <2> QED
      BY <1>1, <1>2, <1>4, <1>5, <2>1, <2>2, DirsKeepDisk DEF RecoveryInv
  <1>6. InHand'
    <2>1. Serving'
      BY <1>1, <1>4, GoServes DEF RecoveryInv, InHand
    <2> QED
      BY <1>4, <2>1 DEF InHand, DeleteInHand, TrashActionInHand, Go, ApplySteps, RollbackSteps
  <1> QED
    BY <1>1, <1>5, <1>6 DEF RecoveryInv

\* The publication begins with a batch that is whole.
LEMMA BeginPublishRecovers ==
    ASSUME Faults = {}, Inductive, RecoveryInv, BeginPublish PROVE RecoveryInv'
  <1>1. /\ cur \in Batches /\ pc # "idle" /\ cur \in tx
        /\ action[cur] = "none" /\ audit[cur] = "none" /\ ~Closed(cur)
    BY TransactionInHand DEF BeginPublish, GuardedSteps
  <1>2. cur \in records
    BY DEF RecoveryInv, InHand, DeleteInHand, BeginPublish
  <1>3. /\ sdir[cur] \in {"creating", "batch"}
        /\ \A i \in Moves(cur) : OneCopy(cur, i) /\ (AtHome(i) => Unchanged(cur, i))
    BY <1>1, <1>2 DEF RecoveryInv, OnDisk, Forward, ForwardOf, Movable
  <1>4. \/ sdir[cur] = "batch" /\ Go("verify", {})
        \/ sdir[cur] = "creating" /\ Moved(cur) # {} /\ Go("publish-workspaces", {})
        \/ sdir[cur] = "creating" /\ Moved(cur) = {} /\ Go("publish-state", {})
    BY <1>2, <1>3 DEF BeginPublish
  <1>5. UNCHANGED <<clients, intents, dirs>>
    BY DEF BeginPublish
  <1>6. ASSUME NEW b \in Batches PROVE OnDisk'
    BY <1>5, <1>6, IntentsKeepDisk DEF RecoveryInv, OnDisk, Renamed, RenamedOf, intents, dirs, Moved
  <1>7. InHand'
    <2>1. Serving'
      BY <1>1, <1>4, GoServes DEF RecoveryInv, InHand
    <2>2. cur' = cur /\ Moved(cur)' = Moved(cur)
      BY <1>4, <1>5 DEF Go, Moved, intents
    <2> QED
      BY <1>2, <1>4, <1>5, <2>1, <2>2
         DEF InHand, DeleteInHand, TrashActionInHand, Go, ApplySteps, RollbackSteps, dirs
  <1> QED
    BY <1>1, <1>6, <1>7 DEF RecoveryInv

\* The renames publish what was moved, its workspaces first.
LEMMA PublishRecovers ==
    ASSUME Faults = {}, Inductive, RecoveryInv, PublishWorkspaces \/ PublishState
    PROVE  RecoveryInv'
  <1>1. /\ cur \in Batches /\ pc # "idle" /\ cur \in tx
        /\ action[cur] = "none" /\ audit[cur] = "none" /\ ~Closed(cur)
    BY TransactionInHand DEF PublishWorkspaces, PublishState, GuardedSteps
  <1>2. TypeOK /\ DiskType /\ ControlType /\ DiskInv /\ ControlInv
    BY Parts
  <1>3. /\ cur \in records /\ sdir[cur] = "creating"
        /\ pc = "publish-workspaces" => Moved(cur) # {}
        /\ pc = "publish-state" /\ Moved(cur) # {} => wdir[cur] = "batch"
    BY DEF RecoveryInv, InHand, DeleteInHand, PublishWorkspaces, PublishState
  <1>4. ForwardOf(cur)
    BY <1>1 DEF RecoveryInv, OnDisk, Forward
  <1>5. /\ UNCHANGED <<clients, intents, roots, records, held>>
        /\ \/ /\ pc = "publish-workspaces" /\ sdir' = sdir /\ Go("publish-state", {})
              /\ wdir' = [wdir EXCEPT ![cur] = "batch"]
           \/ /\ pc = "publish-state" /\ wdir' = wdir /\ Go("verify", {})
              /\ sdir' = [sdir EXCEPT ![cur] = "batch"]
    BY <1>1, <1>3, <1>4, OneEffect DEF PublishWorkspaces, PublishState, Then, ForwardOf
  <1>6. ASSUME NEW b \in Batches, b = cur PROVE OnDisk'
    <2>1. Elsewhere(b)
      BY <1>2, <1>5, <1>6 DEF Elsewhere, DiskType
    <2>2. ForwardOf(b)' /\ RenamedOf(b)'
      BY <1>1, <1>2, <1>3, <1>4, <1>5, <1>6 DEF ForwardOf, RenamedOf, intents, Moves, Moved, DiskType
    <2> QED
      BY <1>1, <1>2, <1>5, <1>6, <2>1, <2>2, DirsKeepDisk DEF RecoveryInv
  <1>7. InHand'
    <2>1. Serving'
      BY <1>1, <1>5, GoServes DEF RecoveryInv, InHand
    <2> QED
      BY <1>1, <1>2, <1>3, <1>5, <2>1 DEF InHand, DeleteInHand, TrashActionInHand, Go, ApplySteps,
         RollbackSteps, DiskType
  <1> QED
    BY <1>1, <1>6, <1>7 DEF RecoveryInv

\* The published batch is found as it was recorded.
LEMMA VerifyRecovers ==
    ASSUME Faults = {}, Inductive, RecoveryInv, VerifyPublished PROVE RecoveryInv'
  <1>1. /\ cur \in Batches /\ pc # "idle" /\ cur \in tx
        /\ action[cur] = "none" /\ audit[cur] = "none" /\ ~Closed(cur)
    BY TransactionInHand DEF VerifyPublished, GuardedSteps
  <1>2. TypeOK /\ DiskType /\ ControlType /\ DiskInv /\ ControlInv
    BY Parts
  <1>3. cur \in records /\ sdir[cur] = "batch"
    BY DEF RecoveryInv, InHand, DeleteInHand, VerifyPublished
  <1>4. ForwardOf(cur)
    BY <1>1 DEF RecoveryInv, OnDisk, Forward
  <1>5. Verified(cur)
    <2>1. held[cur] = Moves(cur) /\ cur \in roots /\ (Moved(cur) # {} => wdir[cur] = "batch")
      BY <1>1, <1>3, <1>4 DEF ForwardOf
    <2>2. wdir[cur] = "batch" => Moved(cur) # {}
      BY <1>1, <1>2 DEF DiskInv, HoldsRecorded
    <2>3. JobsIn(cur) = record[cur].jobs /\ WorkspacesIn(cur) = Moved(cur)
      BY <1>1, <1>2, <2>1, MovesAreItems, NamesAreDistinct DEF JobsIn, WorkspacesIn, Moves
    <2>4. \A w \in Moved(cur) : ~Exists(w)
      BY <1>1, <2>3 DEF RecoveryInv, OnDisk, SoleHolder
    <2> QED
      BY <1>3, <2>1, <2>2, <2>3, <2>4 DEF Verified
  <1>6. UNCHANGED <<clients, intents, dirs>> /\ Go("commit", {})
    BY <1>5 DEF VerifyPublished
  <1>7. ASSUME NEW b \in Batches PROVE OnDisk'
    BY <1>6, <1>7, IntentsKeepDisk DEF RecoveryInv, OnDisk, Renamed, RenamedOf, intents, dirs, Moved
  <1>8. InHand'
    <2>1. Serving'
      BY <1>1, <1>6, GoServes DEF RecoveryInv, InHand
    <2> QED
      BY <1>3, <1>6, <2>1
         DEF InHand, DeleteInHand, TrashActionInHand, Go, ApplySteps, RollbackSteps, dirs
  <1> QED
    BY <1>1, <1>7, <1>8 DEF RecoveryInv

\* With transaction.json the intent of the delete goes.
LEMMA TransactionRemovedRecovers ==
    ASSUME Faults = {}, Inductive, RecoveryInv, RemoveTransaction PROVE RecoveryInv'
  <1>1. /\ cur \in Batches /\ pc # "idle" /\ cur \in tx
        /\ action[cur] = "none" /\ audit[cur] = "none" /\ ~Closed(cur)
    BY TransactionInHand DEF RemoveTransaction, GuardedSteps, RollbackSteps
  <1>2. /\ UNCHANGED <<clients, record, action, phase, manifest, audit, dirs>>
        /\ tx' = tx \ {cur} /\ Return
    BY OneEffect DEF RemoveTransaction
  <1>3. ASSUME NEW b \in Batches PROVE OnDisk'
    BY <1>2, <1>3, IntentsKeepDisk DEF RecoveryInv, OnDisk, Renamed, RenamedOf, dirs, Moved
  <1>4. \A c \in Batches : Closed(c)'
    BY <1>1, <1>2 DEF RecoveryInv, OnDisk, OneOpen, Closed
  <1>5. InHand'
    BY <1>1, <1>2, <1>4, ReturnInHand DEF RecoveryInv, InHand
  <1> QED
    BY <1>1, <1>3, <1>5 DEF RecoveryInv

-----------------------------------------------------------------------------
(* The rollback *)

\* A rollback moves a directory to its place, which is free.
LEMMA MoveBackRecovers ==
    ASSUME Faults = {}, Inductive, RecoveryInv, MoveBack PROVE RecoveryInv'
  <1>1. /\ cur \in Batches /\ pc # "idle" /\ cur \in tx
        /\ action[cur] = "none" /\ audit[cur] = "none" /\ ~Closed(cur)
    BY TransactionInHand DEF MoveBack, RollbackSteps
  <1>2. TypeOK /\ DiskType /\ ControlType /\ DiskInv /\ ControlInv
    BY Parts
  <1>3. cur \notin records
    BY DEF RecoveryInv, InHand, DeleteInHand, MoveBack, RollbackSteps
  <1>4. todo \subseteq Moves(cur) /\ NextItems \subseteq todo
    BY <1>1, <1>2 DEF ControlInv, BatchInHand, MoveBack, NextItems
  <1>5. \A i \in todo : OneCopy(cur, i)
    BY <1>1, <1>4 DEF RecoveryInv, OnDisk, Movable
  <1>6. /\ UNCHANGED <<life, fresh, intents, sdir, wdir, roots, records>>
        /\ LeaveItems \/ \E i \in held[cur] : TakeHome(cur, i)
        /\ Go("drop-record", {}) \/ \E loop : Go("move-back", loop)
    BY <1>4, <1>5, OneEffect DEF MoveBack, Then, OneCopy
  <1>7. OnDisk'
    <2>1. CASE LeaveItems
      <3>1. ASSUME NEW b \in Batches, b = cur PROVE OnDisk'
        BY <1>1, <1>6, <2>1, <3>1, IntentsKeepDisk
           DEF RecoveryInv, OnDisk, Renamed, RenamedOf, LeaveItems, clients, intents, dirs, Moved
      <3> QED
        BY <1>1, <3>1
    <2>2. ASSUME NEW i \in held[cur], TakeHome(cur, i) PROVE OnDisk'
      BY <1>1, <1>2, <1>3, <1>6, <2>2, HomeKeepsDisk DEF RecoveryInv
    <2> QED
      BY <1>6, <2>1, <2>2
  <1>8. InHand'
    <2>1. Serving'
      BY <1>1, <1>6, GoServes DEF RecoveryInv, InHand
    <2> QED
      BY <1>3, <1>6, <2>1
         DEF InHand, DeleteInHand, TrashActionInHand, Go, ApplySteps, RollbackSteps
  <1> QED
    BY <1>7, <1>8 DEF RecoveryInv

\* What is removed of a batch that holds nothing raises no check.
LEMMA RemovalKeepsDisk ==
    ASSUME Faults = {}, Inductive, RecoveryInv, pc # "idle",
           NEW b \in Batches, b = cur, ~Closed(b), held[b] = {}, action[b] # "purge", b \in tx => b \notin records,
           NEW at, NEW next, next # "idle",
           \/ RemoveRecordFile(at, next)
           \/ RemoveJobsRoot(at, next)
           \/ RemoveStateDir(at, next) /\ b \notin roots \cup records
           \/ RemoveWorkspaceDir(at, next)
    PROVE  OnDisk' /\ Serving' /\ Go(next, {}) /\ records' \subseteq records
  <1>1. DiskType /\ Serving /\ OnDisk
    BY Parts DEF RecoveryInv, InHand
  <1>2. JobsIn(b) = {} /\ WorkspacesIn(b) = {}
    BY DEF JobsIn, WorkspacesIn
  <1>3. /\ UNCHANGED <<clients, intents, held>> /\ Go(next, {})
        /\ records' \in {records, records \ {b}} /\ roots' \in {roots, roots \ {b}}
        /\ sdir' \in {sdir, [sdir EXCEPT ![b] = "none"]}
        /\ wdir' \in {wdir, [wdir EXCEPT ![b] = "none"]}
    BY <1>2, OneEffect DEF RemoveRecordFile, RemoveJobsRoot, RemoveStateDir, RemoveWorkspaceDir, Then
  <1>4. Elsewhere(b)
    BY <1>1, <1>3 DEF Elsewhere, DiskType
  <1>5. ForwardOf(b)' /\ RenamedOf(b)'
    BY <1>3 DEF ForwardOf, RenamedOf, intents
  <1>6. OnDisk'
    BY <1>1, <1>3, <1>4, <1>5, DirsKeepDisk
  <1> QED
    BY <1>1, <1>3, <1>6, GoServes

\* A rollback removes the directories of a batch that holds nothing.
LEMMA DropRecovers ==
    ASSUME Faults = {}, Inductive, RecoveryInv, DropBatch PROVE RecoveryInv'
  <1>1. /\ cur \in Batches /\ pc # "idle" /\ cur \in tx
        /\ action[cur] = "none" /\ audit[cur] = "none" /\ ~Closed(cur)
    BY TransactionInHand DEF DropBatch, RemoveRecordFile, RemoveJobsRoot, RemoveStateDir,
       RemoveWorkspaceDir, RollbackSteps
  <1>2. TypeOK /\ DiskType /\ ControlType /\ DiskInv /\ ControlInv
    BY Parts
  <1>3. cur \notin records
    BY DEF RecoveryInv, InHand, DeleteInHand, DropBatch, RemoveRecordFile, RemoveJobsRoot,
       RemoveStateDir, RemoveWorkspaceDir, RollbackSteps
  <1>4. held[cur] = {}
    BY <1>2 DEF ControlInv, BatchInHand, DropBatch, RemoveRecordFile, RemoveJobsRoot,
       RemoveStateDir, RemoveWorkspaceDir, RollbackSteps
  <1>5. RemoveStateDir("drop-state", "drop-workspaces") => cur \notin roots
    BY <1>2 DEF ControlInv, BatchInHand, RemoveStateDir
  <1>6. PICK next \in RollbackSteps \ {"move-back"} : OnDisk' /\ Serving' /\ Go(next, {}) /\ records' \subseteq records
    <2>1. ASSUME NEW b \in Batches, b = cur
          PROVE  \E next \in RollbackSteps \ {"move-back"} :
                    OnDisk' /\ Serving' /\ Go(next, {}) /\ records' \subseteq records
      <3>1. CASE RemoveRecordFile("drop-record", "drop-jobs")
        BY <1>1, <1>3, <1>4, <2>1, <3>1, RemovalKeepsDisk DEF RollbackSteps
      <3>2. CASE RemoveJobsRoot("drop-jobs", "drop-state")
        BY <1>1, <1>3, <1>4, <2>1, <3>2, RemovalKeepsDisk DEF RollbackSteps
      <3>3. CASE RemoveStateDir("drop-state", "drop-workspaces")
        BY <1>1, <1>3, <1>4, <1>5, <2>1, <3>3, RemovalKeepsDisk DEF RollbackSteps
      <3>4. CASE RemoveWorkspaceDir("drop-workspaces", "withdraw")
        BY <1>1, <1>3, <1>4, <2>1, <3>4, RemovalKeepsDisk DEF RollbackSteps
      <3> QED
        BY <3>1, <3>2, <3>3, <3>4 DEF DropBatch
    <2> QED
      BY <1>1, <2>1
  <1>7. InHand'
    BY <1>3, <1>6 DEF InHand, DeleteInHand, TrashActionInHand, Go, ApplySteps, RollbackSteps
  <1> QED
    BY <1>6, <1>7 DEF RecoveryInv

-----------------------------------------------------------------------------
(* The steps of a restore *)

\* A restore moves a directory to its place, which is free.
LEMMA RestoreItemsRecovers ==
    ASSUME Faults = {}, Inductive, RecoveryInv, RestoreItems PROVE RecoveryInv'
  <1>1. /\ cur \in Batches /\ pc # "idle" /\ ~Closed(cur) /\ action[cur] = "restore"
    BY ActionInHand DEF RestoreItems, RestoreSteps
  <1>2. TypeOK /\ DiskType /\ ControlType /\ DiskInv /\ ControlInv
    BY Parts
  <1>3. todo \subseteq Moves(cur) \cup record[cur].kept /\ NextItems \subseteq todo
    BY DEF RecoveryInv, InHand, TrashActionInHand, RestoreItems, NextItems
  <1>4. \A i \in todo :
            /\ i \in record[cur].kept => Exists(i)
            /\ i \notin record[cur].kept => OneCopy(cur, i) /\ (AtHome(i) => Unchanged(cur, i))
    BY <1>1, <1>3 DEF RecoveryInv, OnDisk, Movable, KeptInPlace
  <1>5. /\ UNCHANGED <<life, fresh, intents, sdir, wdir, roots, records>>
        /\ LeaveItems \/ \E i \in held[cur] : TakeHome(cur, i)
        /\ Go("restore-final", {}) \/ \E loop \in SUBSET todo : Go("restore-items", loop)
    <2>1. UNCHANGED <<life, fresh, intents, sdir, wdir, roots, records>> /\ pc = "restore-items"
      BY DEF RestoreItems
    <2>2. CASE todo = {} /\ LeaveItems /\ Go("restore-final", {})
      BY <2>1, <2>2
    <2>3. ASSUME NEW i \in NextItems, i \in record[cur].kept,
                 LeaveItems /\ IF Exists(i) THEN Go(pc, todo \ {i}) ELSE Raise("check")
          PROVE  LeaveItems /\ Go("restore-items", todo \ {i})
      BY <1>3, <1>4, <2>1, <2>3
    <2>4. ASSUME NEW i \in NextItems, i \notin record[cur].kept,
                 IF ~OneCopy(cur, i) \/ (AtHome(i) /\ ~Unchanged(cur, i))
                 THEN LeaveItems /\ Raise("check")
                 ELSE IF AtHome(i) THEN LeaveItems /\ Go(pc, todo \ {i})
                 ELSE \E out \in Outcomes("move") :
                        /\ IF out = "raised" THEN LeaveItems ELSE TakeHome(cur, i)
                        /\ Then(out, pc, todo \ {i})
          PROVE  /\ LeaveItems \/ (i \in held[cur] /\ TakeHome(cur, i))
                 /\ Go("restore-items", todo \ {i})
      BY <1>3, <1>4, <2>1, <2>4, OneEffect DEF OneCopy, Then
    <2>5. \/ todo = {} /\ LeaveItems /\ Go("restore-final", {})
          \/ \E i \in NextItems :
                /\ LeaveItems \/ (i \in held[cur] /\ TakeHome(cur, i))
                /\ Go("restore-items", todo \ {i})
      BY <2>2, <2>3, <2>4 DEF RestoreItems
    <2> QED
      BY <2>1, <2>5
  <1>6. OnDisk'
    <2>1. CASE LeaveItems
      <3>1. ASSUME NEW b \in Batches, b = cur PROVE OnDisk'
        BY <1>1, <1>5, <2>1, <3>1, IntentsKeepDisk
           DEF RecoveryInv, OnDisk, Renamed, RenamedOf, LeaveItems, clients, intents, dirs, Moved
      <3> QED
        BY <1>1, <3>1
    <2>2. ASSUME NEW i \in held[cur], TakeHome(cur, i) PROVE OnDisk'
      BY <1>1, <1>2, <1>5, <2>2, HomeKeepsDisk DEF RecoveryInv
    <2> QED
      BY <1>5, <2>1, <2>2
  <1>7. InHand'
    <2>1. Serving'
      BY <1>1, <1>5, GoServes DEF RecoveryInv, InHand
    <2>2. cur' = cur /\ Moves(cur)' = Moves(cur) /\ record' = record
      BY <1>5 DEF Go, Moves, Moved, intents
    <2> QED
      BY <1>3, <1>5, <2>1, <2>2
         DEF InHand, DeleteInHand, TrashActionInHand, Go, ApplySteps, RollbackSteps
  <1> QED
    BY <1>6, <1>7 DEF RecoveryInv

\* Entering a phase keeps the disk in order: FINALIZING follows the renames.
LEMMA PhaseKeepsDisk ==
    ASSUME Faults = {}, DiskType, RecoveryInv, NEW b \in Batches, b = cur, pc # "idle",
           NEW at, NEW p, NEW next, next # "idle", NEW loop, SetPhase(at, p, next, loop),
           action[b] = "purge" /\ p = "finalizing" => sdir[b] # "batch" /\ wdir[b] # "batch",
           action[b] = "purge" /\ p # "finalizing" => phase[b] # "finalizing"
    PROVE  /\ OnDisk' /\ Serving' /\ Go(next, loop) /\ phase' = [phase EXCEPT ![b] = p]
           /\ UNCHANGED <<clients, record, tx, action, dirs>>
  <1>1. /\ UNCHANGED <<clients, record, tx, action, dirs>> /\ Go(next, loop)
        /\ phase' = [phase EXCEPT ![b] = p]
    BY OneEffect DEF SetPhase, Then
  <1>2. RenamedOf(b)'
    BY <1>1 DEF RecoveryInv, OnDisk, Renamed, RenamedOf, dirs, Moved, DiskType
  <1>3. OnDisk'
    BY <1>1, <1>2, IntentsKeepDisk DEF RecoveryInv, DiskType
  <1> QED
    BY <1>1, <1>3, GoServes DEF RecoveryInv, InHand

\* An audit record is no part of it.
LEMMA AuditKeepsDisk ==
    ASSUME Faults = {}, RecoveryInv, NEW b \in Batches, pc # "idle",
           NEW at, NEW label, NEW next, next # "idle", WriteAudit(at, label, next)
    PROVE  OnDisk' /\ Serving' /\ Go(next, {})
  <1>1. /\ UNCHANGED <<clients, record, tx, action, phase, dirs>> /\ Go(next, {})
    BY OneEffect DEF WriteAudit, Then
  <1>2. RenamedOf(b)'
    BY <1>1 DEF RecoveryInv, OnDisk, Renamed, RenamedOf, dirs, Moved
  <1>3. OnDisk'
    BY <1>1, <1>2, IntentsKeepDisk DEF RecoveryInv
  <1> QED
    BY <1>1, <1>3, GoServes DEF RecoveryInv, InHand

\* The later steps of a restore and of a purge rely on nothing else.
LEMMA LateInHand ==
    ASSUME Serving', pc' \in {"restore-final", "empty-workspaces", "empty-record", "empty-jobs",
                              "empty-state", "restore-audit", "restore-end", "purge-entry",
                              "purge-cursor", "purge-audit", "purge-end"}
    PROVE  InHand'
BY DEF InHand, DeleteInHand, TrashActionInHand, ApplySteps, RollbackSteps

\* A restore ends with the directories of the empty batch.
LEMMA FinishRestoreRecovers ==
    ASSUME Faults = {}, Inductive, RecoveryInv, FinishRestore PROVE RecoveryInv'
  <1>1. /\ cur \in Batches /\ pc # "idle" /\ ~Closed(cur) /\ action[cur] = "restore"
        /\ cur \notin tx
    BY ActionInHand DEF FinishRestore, SetPhase, RemoveWorkspaceDir, RemoveRecordFile,
       RemoveJobsRoot, RemoveStateDir, WriteAudit, RestoreSteps
  <1>2. TypeOK /\ DiskType /\ ControlType /\ DiskInv /\ ControlInv
    BY Parts
  <1>3. pc \notin {"restore", "restore-final"} => held[cur] = {}
    BY <1>2 DEF ControlInv, BatchInHand, FinishRestore, SetPhase, RemoveWorkspaceDir,
       RemoveRecordFile, RemoveJobsRoot, RemoveStateDir, WriteAudit, RestoreSteps
  <1>4. pc = "empty-state" => cur \notin roots \cup records
    BY <1>2 DEF ControlInv, BatchInHand
  <1> SUFFICES ASSUME NEW b \in Batches, b = cur PROVE RecoveryInv'
    BY <1>1
  <1>5. CASE SetPhase("restore", "moving", "restore-items", Moves(cur) \cup record[cur].kept)
    <2>1. /\ OnDisk' /\ Serving' /\ record' = record
          /\ Go("restore-items", Moves(cur) \cup record[cur].kept)
      BY <1>1, <1>2, <1>5, PhaseKeepsDisk
    <2>2. cur' = cur /\ Moves(cur)' = Moves(cur)
      BY <2>1 DEF Go, Moves, Moved
    <2>3. InHand'
      BY <2>1, <2>2
         DEF InHand, DeleteInHand, TrashActionInHand, Go, ApplySteps, RollbackSteps
    <2> QED
      BY <2>1, <2>3 DEF RecoveryInv
  <1>6. CASE SetPhase("restore-final", "finalizing", "empty-workspaces", {})
    <2>1. OnDisk' /\ Serving' /\ Go("empty-workspaces", {})
      BY <1>1, <1>2, <1>6, PhaseKeepsDisk
    <2> QED
      BY <2>1, LateInHand DEF RecoveryInv, Go
  <1>7. CASE WriteAudit("restore-audit", "restored", "restore-end")
    <2>1. OnDisk' /\ Serving' /\ Go("restore-end", {})
      BY <1>1, <1>7, AuditKeepsDisk
    <2> QED
      BY <2>1, LateInHand DEF RecoveryInv, Go
  <1>8. CASE RemoveWorkspaceDir("empty-workspaces", "empty-record")
    <2>1. OnDisk' /\ Serving' /\ Go("empty-record", {})
      BY <1>1, <1>3, <1>8, RemovalKeepsDisk DEF RemoveWorkspaceDir
    <2> QED
      BY <2>1, LateInHand DEF RecoveryInv, Go
  <1>9. CASE RemoveRecordFile("empty-record", "empty-jobs")
    <2>1. OnDisk' /\ Serving' /\ Go("empty-jobs", {})
      BY <1>1, <1>3, <1>9, RemovalKeepsDisk DEF RemoveRecordFile
    <2> QED
      BY <2>1, LateInHand DEF RecoveryInv, Go
  <1>10. CASE RemoveJobsRoot("empty-jobs", "empty-state")
    <2>1. OnDisk' /\ Serving' /\ Go("empty-state", {})
      BY <1>1, <1>3, <1>10, RemovalKeepsDisk DEF RemoveJobsRoot
    <2> QED
      BY <2>1, LateInHand DEF RecoveryInv, Go
  <1>11. CASE RemoveStateDir("empty-state", "restore-audit")
    <2>1. pc = "empty-state"
      BY <1>11 DEF RemoveStateDir
    <2>2. OnDisk' /\ Serving' /\ Go("restore-audit", {})
      BY <1>1, <1>3, <1>4, <1>11, <2>1, RemovalKeepsDisk
    <2> QED
      BY <2>2, LateInHand DEF RecoveryInv, Go
  <1> QED
    BY <1>5, <1>6, <1>7, <1>8, <1>9, <1>10, <1>11 DEF FinishRestore

\* With its file the intent of a restore or a purge goes.
LEMMA ActionRemovedRecovers ==
    ASSUME Faults = {}, Inductive, RecoveryInv, RemoveAction PROVE RecoveryInv'
  <1>1. /\ cur \in Batches /\ pc # "idle" /\ ~Closed(cur) /\ cur \notin tx
    BY ActionInHand DEF RemoveAction, RestoreSteps, PurgeSteps
  <1>2. DiskType
    BY Parts
  <1>3. /\ UNCHANGED <<clients, record, tx, audit, dirs>> /\ Return
        /\ action' = [action EXCEPT ![cur] = "none"]
        /\ phase' = [phase EXCEPT ![cur] = "prepared"]
    BY OneEffect DEF RemoveAction
  <1>4. ASSUME NEW b \in Batches, b = cur PROVE OnDisk'
    <2>1. RenamedOf(b)'
      BY <1>2, <1>3, <1>4 DEF RenamedOf, DiskType
    <2> QED
      BY <1>2, <1>3, <1>4, <2>1, IntentsKeepDisk DEF RecoveryInv, DiskType
  <1>5. \A c \in Batches : Closed(c)'
    BY <1>1, <1>2, <1>3 DEF RecoveryInv, OnDisk, OneOpen, Closed, DiskType
  <1>6. InHand'
    BY <1>1, <1>3, <1>5, ReturnInHand DEF RecoveryInv, InHand
  <1> QED
    BY <1>1, <1>4, <1>6 DEF RecoveryInv

-----------------------------------------------------------------------------
(* The steps of a purge *)

\* A purge renames the directories of its batch before it erases anything.
LEMMA PurgeDirsRecover ==
    ASSUME Faults = {}, Inductive, RecoveryInv, PurgeWorkspaceDir \/ PurgeStateDir
    PROVE  RecoveryInv'
  <1>1. /\ cur \in Batches /\ pc # "idle" /\ ~Closed(cur) /\ action[cur] = "purge"
        /\ cur \notin tx
    BY ActionInHand DEF PurgeWorkspaceDir, PurgeStateDir, PurgeSteps
  <1>2. TypeOK /\ DiskType /\ ControlType /\ DiskInv /\ ControlInv
    BY Parts
  <1>3. phase[cur] # "finalizing" /\ (pc = "purge-state" => wdir[cur] # "batch")
    BY DEF RecoveryInv, InHand, TrashActionInHand, PurgeWorkspaceDir, PurgeStateDir
  <1>4. /\ sdir[cur] \in {"batch", "purging"}
        /\ Moved(cur) # {} <=> wdir[cur] \in {"batch", "purging"}
    BY <1>1, <1>2, <1>3 DEF RecoveryInv, OnDisk, Renamed, RenamedOf, DiskInv, HoldsRecorded
  <1>5. /\ UNCHANGED <<clients, intents, roots, records, held>>
        /\ \/ /\ sdir' = sdir /\ Go("purge-state", {})
              /\ wdir' = IF wdir[cur] = "batch" THEN [wdir EXCEPT ![cur] = "purging"] ELSE wdir
           \/ /\ wdir' = wdir /\ Go("purge-final", {}) /\ wdir[cur] # "batch"
              /\ sdir' = [sdir EXCEPT ![cur] = "purging"]
    BY <1>3, <1>4, OneEffect DEF PurgeWorkspaceDir, PurgeStateDir, Then
  <1>6. ASSUME NEW b \in Batches, b = cur PROVE OnDisk'
    <2>1. Elsewhere(b)
      BY <1>2, <1>5, <1>6 DEF Elsewhere, DiskType
    <2>2. ForwardOf(b)' /\ RenamedOf(b)'
      BY <1>1, <1>2, <1>3, <1>4, <1>5, <1>6 DEF ForwardOf, RenamedOf, intents, Moved, DiskType
    <2> QED
      BY <1>1, <1>2, <1>5, <1>6, <2>1, <2>2, DirsKeepDisk DEF RecoveryInv
  <1>7. InHand'
    <2>1. Serving'
      BY <1>1, <1>5, GoServes DEF RecoveryInv, InHand
    <2>2. cur' = cur /\ wdir'[cur] # "batch" /\ (pc' = "purge-final" => sdir'[cur] # "batch")
          /\ phase' = phase
      BY <1>1, <1>2, <1>5 DEF Go, DiskType, intents
    <2> QED
      BY <1>3, <1>5, <2>1, <2>2
         DEF InHand, DeleteInHand, TrashActionInHand, Go, ApplySteps, RollbackSteps
  <1> QED
    BY <1>1, <1>6, <1>7 DEF RecoveryInv

\* A purge finds its next entry unused, and everything gone in the end.
LEMMA PurgeEntryRecovers ==
    ASSUME Faults = {}, Inductive, RecoveryInv, PurgeEntry PROVE RecoveryInv'
  <1> USE NamesAreDistinct
  <1>1. /\ cur \in Batches /\ pc # "idle" /\ ~Closed(cur) /\ action[cur] = "purge"
        /\ cur \notin tx
    BY ActionInHand DEF PurgeEntry, PurgeSteps
  <1>2. TypeOK /\ DiskType /\ ControlType /\ DiskInv /\ ControlInv
    BY Parts
  <1>3. phase[cur] = "finalizing" /\ Erasing(cur)
    BY <1>1, <1>2 DEF ControlInv, OwnsIntent, PurgeEntry, Erasing
  <1>4. sdir[cur] # "batch" /\ wdir[cur] # "batch"
    BY <1>1, <1>3 DEF RecoveryInv, OnDisk, Renamed, RenamedOf
  <1>5. /\ held[cur] \subseteq manifest[cur]
        /\ cur \in records => "trash.json" \in manifest[cur]
        /\ cur \in roots => "jobs/" \in manifest[cur]
        /\ sdir[cur] # "none" => "batch/" \in manifest[cur]
        /\ wdir[cur] # "none" => "workspaces/" \in manifest[cur]
    BY <1>1, <1>2 DEF DiskInv, ManifestCovers
  <1>6. ASSUME NEW e \in NextEntries(cur) PROVE ~EntryInUse(e)
    <2>1. "workspaces/" \notin Jobs \cup Workspaces /\ "jobs/" \notin Jobs \cup Workspaces
          /\ "batch/" \notin Jobs \cup Workspaces
      BY DEF DirEntries
    <2>2. CASE manifest[cur] \cap Workspaces # {}
      BY <1>6, <2>1, <2>2 DEF NextEntries, EntryInUse
    <2>3. CASE manifest[cur] \cap Workspaces = {} /\ manifest[cur] \cap {"workspaces/"} # {}
      BY <1>5, <1>6, <2>1, <2>3 DEF NextEntries, EntryInUse, WorkspacesIn
    <2>4. CASE /\ manifest[cur] \cap Workspaces = {} /\ manifest[cur] \cap {"workspaces/"} = {}
               /\ manifest[cur] \cap Jobs # {}
      BY <1>6, <2>1, <2>4 DEF NextEntries, EntryInUse
    <2>5. CASE /\ manifest[cur] \cap Workspaces = {} /\ manifest[cur] \cap {"workspaces/"} = {}
               /\ manifest[cur] \cap Jobs = {}
      <3>1. JobsIn(cur) = {} /\ e # "workspaces/"
        BY <1>5, <1>6, <2>5 DEF JobsIn, NextEntries
      <3>2. e = "batch/" => cur \notin roots /\ cur \notin records
        BY <1>5, <1>6, <2>5 DEF NextEntries
      <3> QED
        BY <3>1, <3>2 DEF EntryInUse
    <2> QED
      BY <2>2, <2>3, <2>4, <2>5
  <1>7. manifest[cur] = {} => sdir[cur] = "none" /\ wdir[cur] = "none"
    BY <1>5
  <1>8. /\ UNCHANGED <<clients, intents>>
        /\ \/ UNCHANGED dirs /\ Go("purge-audit", {})
           \/ \E e : RemoveEntry(e) /\ Go("purge-cursor", {e})
    <2>1. UNCHANGED <<clients, intents>>
      BY DEF PurgeEntry
    <2>2. CASE manifest[cur] = {}
      BY <1>7, <2>1, <2>2 DEF PurgeEntry
    <2>3. CASE manifest[cur] # {}
      <3>1. PICK e \in NextEntries(cur) :
              IF EntryInUse(e) THEN UNCHANGED dirs /\ Raise("check")
              ELSE \E out \in Outcomes("remove") :
                     /\ IF out = "raised" THEN UNCHANGED dirs ELSE RemoveEntry(e)
                     /\ Then(out, "purge-cursor", {e})
        BY <1>4, <2>3 DEF PurgeEntry
      <3> QED
        BY <1>6, <2>1, <3>1, OneEffect DEF Then
    <2> QED
      BY <2>2, <2>3
  <1>9. OnDisk'
    <2>1. CASE UNCHANGED dirs
      <3>1. ASSUME NEW b \in Batches, b = cur PROVE OnDisk'
        BY <1>1, <1>8, <2>1, <3>1, IntentsKeepDisk
           DEF RecoveryInv, OnDisk, Renamed, RenamedOf, intents, dirs, Moved
      <3> QED
        BY <1>1, <3>1
    <2>2. ASSUME NEW e, RemoveEntry(e) PROVE OnDisk'
      BY <1>1, <1>2, <1>3, <1>8, <2>2, EntryKeepsDisk DEF RecoveryInv
    <2> QED
      BY <1>8, <2>1, <2>2
  <1>10. Serving' /\ pc' \in {"purge-audit", "purge-cursor"}
    BY <1>1, <1>8, GoServes DEF RecoveryInv, InHand, Go
  <1> QED
    BY <1>9, <1>10, LateInHand DEF RecoveryInv

\* The cursor of a purge is no part of it.
LEMMA CursorRecovers ==
    ASSUME Faults = {}, Inductive, RecoveryInv, AdvanceCursor PROVE RecoveryInv'
  <1>1. cur \in Batches /\ pc # "idle"
    BY ActionInHand DEF AdvanceCursor, PurgeSteps
  <1>2. UNCHANGED <<clients, record, tx, action, phase, dirs>> /\ Go("purge-entry", {})
    BY OneEffect DEF AdvanceCursor, Then
  <1>3. ASSUME NEW b \in Batches PROVE OnDisk'
    BY <1>2, <1>3, IntentsKeepDisk DEF RecoveryInv, OnDisk, Renamed, RenamedOf, dirs, Moved
  <1>4. Serving' /\ pc' = "purge-entry"
    BY <1>1, <1>2, GoServes DEF RecoveryInv, InHand, Go
  <1> QED
    BY <1>1, <1>3, <1>4, LateInHand DEF RecoveryInv

\* A purge ends when everything it lists is gone.
LEMMA FinishPurgeRecovers ==
    ASSUME Faults = {}, Inductive, RecoveryInv, FinishPurge PROVE RecoveryInv'
  <1>1. /\ cur \in Batches /\ pc # "idle" /\ ~Closed(cur) /\ action[cur] = "purge"
    BY ActionInHand DEF FinishPurge, SetPhase, WriteAudit, PurgeWorkspaceDir, PurgeStateDir,
       PurgeEntry, AdvanceCursor, PurgeSteps
  <1>2. TypeOK /\ DiskType /\ ControlType /\ DiskInv /\ ControlInv
    BY Parts
  <1> SUFFICES ASSUME NEW b \in Batches, b = cur PROVE RecoveryInv'
    BY <1>1
  <1>3. CASE SetPhase("purge", "moving", "purge-workspaces", {})
    <2>1. pc = "purge"
      BY <1>3 DEF SetPhase
    <2>2. phase[b] # "finalizing"
      BY <2>1 DEF RecoveryInv, InHand, TrashActionInHand
    <2>3. /\ OnDisk' /\ Serving' /\ Go("purge-workspaces", {})
          /\ phase' = [phase EXCEPT ![b] = "moving"]
      BY <1>1, <1>2, <1>3, <2>2, PhaseKeepsDisk
    <2>4. cur' = b /\ phase'[b] = "moving"
      BY <1>2, <2>3 DEF Go, DiskType
    <2>5. InHand'
      BY <2>3, <2>4 DEF InHand, DeleteInHand, TrashActionInHand, Go, ApplySteps, RollbackSteps
    <2> QED
      BY <2>3, <2>5 DEF RecoveryInv
  <1>4. CASE SetPhase("purge-final", "finalizing", "purge-entry", {})
    <2>1. pc = "purge-final"
      BY <1>4 DEF SetPhase
    <2>2. sdir[b] # "batch" /\ wdir[b] # "batch"
      BY <2>1 DEF RecoveryInv, InHand, TrashActionInHand
    <2>3. OnDisk' /\ Serving' /\ Go("purge-entry", {})
      BY <1>1, <1>2, <1>4, <2>2, PhaseKeepsDisk
    <2> QED
      BY <2>3, LateInHand DEF RecoveryInv, Go
  <1>5. CASE WriteAudit("purge-audit", "purged", "purge-end")
    <2>1. OnDisk' /\ Serving' /\ Go("purge-end", {})
      BY <1>1, <1>5, AuditKeepsDisk
    <2> QED
      BY <2>1, LateInHand DEF RecoveryInv, Go
  <1>6. CASE PurgeWorkspaceDir \/ PurgeStateDir
    BY <1>6, PurgeDirsRecover
  <1>7. CASE PurgeEntry
    BY <1>7, PurgeEntryRecovers
  <1>8. CASE AdvanceCursor
    BY <1>8, CursorRecovers
  <1> QED
    BY <1>3, <1>4, <1>5, <1>6, <1>7, <1>8 DEF FinishPurge

-----------------------------------------------------------------------------
(* Requests, start() and the clients *)

\* A delete begins: plan and transaction.json agree with the disk.
LEMMA DeleteRecovers ==
    ASSUME Faults = {}, Inductive, RecoveryInv,
           NEW b \in Batches, NEW S \in SUBSET Jobs, NEW mode, ApplyBatchDelete(b, S, mode)
    PROVE  RecoveryInv'
  <1> USE NamesAreDistinct
  <1> DEFINE existing == {w \in {WorkspaceOf[j] : j \in S} : Exists(w)}
             taken    == IF mode = "quarantine" THEN existing ELSE {}
             new      == [jobs  |-> S,
                          moved |-> [w \in Workspaces |-> IF w \in taken THEN version[w] ELSE 0],
                          kept  |-> existing \ taken]
  <1>1. TypeOK /\ DiskType /\ ControlType /\ DiskInv /\ ControlInv
    BY Parts
  <1>2. /\ UNCHANGED <<clients, action, phase, manifest, audit, dirs>>
        /\ record' = [record EXCEPT ![b] = new] /\ tx' = tx \cup {b}
        /\ pc' = "stage" /\ cur' = b /\ mgr' = mgr
    BY OneEffect DEF ApplyBatchDelete
  <1>3. /\ S \subseteq live /\ \A j \in S : life[j] = "terminal"
        /\ record[b].jobs = {} /\ mgr = "up" /\ pc = "idle"
    BY DEF ApplyBatchDelete, Eligible, CanServe
  <1>4. \A c \in Batches : Closed(c)
    BY <1>3 DEF RecoveryInv, InHand, Serving
  <1>5. held[b] = {} /\ b \notin records
    BY <1>1, <1>3 DEF DiskInv, OneIntent, Empty
  <1>6. /\ record'[b].jobs = S /\ record'[b].kept = existing \ taken
        /\ \A w \in Workspaces : record'[b].moved[w] = IF w \in taken THEN version[w] ELSE 0
        /\ \A c \in Batches : c # b => record'[c] = record[c]
    BY <1>1, <1>2 DEF DiskType
  <1>7. existing \subseteq Workspaces /\ taken \subseteq existing
        /\ (\A w \in existing : Exists(w) /\ \E j \in S : WorkspaceOf[j] = w)
    BY WorkspaceAssumption
  <1> HIDE DEF existing, taken, new
  <1>8. Moved(b)' = taken /\ Moves(b)' = S \cup taken
    BY <1>6, <1>7 DEF Moved, Moves, Exists
  <1>9. \A c \in Batches : c # b => Moved(c)' = Moved(c) /\ Moves(c)' = Moves(c)
    BY <1>6 DEF Moved, Moves
  <1>10. OneOpen'
    BY <1>1, <1>2, <1>4 DEF OneOpen, Closed, DiskType
  <1>11. OwnWorkspaces'
    <2>1. ASSUME NEW c \in Batches, c # b
          PROVE  /\ \A j \in record'[c].jobs : life'[j] = "terminal"
                 /\ \A w \in Moved(c)' \cup record'[c].kept :
                       \E j \in record'[c].jobs : WorkspaceOf[j] = w
      BY <1>2, <1>6, <1>9, <2>1 DEF RecoveryInv, OnDisk, OwnWorkspaces, clients
    <2>2. /\ \A j \in record'[b].jobs : life'[j] = "terminal"
          /\ \A w \in Moved(b)' \cup record'[b].kept :
                \E j \in record'[b].jobs : WorkspaceOf[j] = w
      BY <1>2, <1>3, <1>6, <1>7, <1>8 DEF clients
    <2> QED
      BY <2>1, <2>2 DEF OwnWorkspaces
  <1>12. SoleHolder'
    BY <1>2 DEF RecoveryInv, OnDisk, SoleHolder, WorkspacesIn, Exists, clients, dirs
  <1>13. KeptInPlace'
    <2>1. ASSUME NEW c \in Batches, c # b, ~Closed(c)' \/ Complete(c)', NEW w \in record'[c].kept
          PROVE  Exists(w)'
      <3>1. Complete(c)' => Complete(c)
        BY <1>2, <1>6, <1>9, <2>1 DEF Complete, dirs
      <3>2. Closed(c)'
        BY <1>1, <1>2, <1>4, <2>1 DEF Closed, DiskType
      <3> QED
        BY <1>2, <1>6, <2>1, <3>1, <3>2
           DEF RecoveryInv, OnDisk, KeptInPlace, Exists, clients
    <2>2. \A w \in record'[b].kept : Exists(w)'
      BY <1>2, <1>6, <1>7 DEF Exists, clients
    <2> QED
      BY <2>1, <2>2 DEF KeptInPlace
  <1>14. Movable'
    <2>1. \A c \in Batches : c \in tx' \/ action'[c] = "restore" => c = b
      BY <1>1, <1>2, <1>4 DEF Closed, DiskType
    <2>2. \A i \in S \cup taken : i \notin held'[b] /\ AtHome(i)' /\ Unchanged(b, i)'
      BY <1>2, <1>3, <1>5, <1>6, <1>7 DEF AtHome, Unchanged, Exists, clients, dirs
    <2> QED
      BY <1>8, <2>1, <2>2 DEF Movable, OneCopy
  <1>15. Forward' /\ Renamed'
    BY <1>1, <1>2, <1>4, <1>5 DEF Forward, ForwardOf, Renamed, RenamedOf, Closed, DiskType, dirs
  <1>16. InHand'
    BY <1>2, <1>3, <1>5 DEF InHand, Serving, DeleteInHand, TrashActionInHand, ApplySteps,
       RollbackSteps, dirs
  <1> QED
    BY <1>10, <1>11, <1>12, <1>13, <1>14, <1>15, <1>16 DEF RecoveryInv, OnDisk

\* A restore or purge begins on a batch that is complete.
LEMMA ActionRecovers ==
    ASSUME Faults = {}, Inductive, RecoveryInv,
           NEW b \in Batches, NEW kind \in {"restore", "purge"}, BeginTrashAction(b, kind)
    PROVE  RecoveryInv'
  <1> USE NamesAreDistinct
  <1>1. TypeOK /\ DiskType /\ ControlType /\ DiskInv /\ ControlInv
    BY Parts
  <1>2. /\ UNCHANGED <<clients, record, tx, audit, dirs>>
        /\ action' = [action EXCEPT ![b] = kind] /\ phase' = [phase EXCEPT ![b] = "prepared"]
        /\ pc' = kind /\ cur' = b /\ mgr' = mgr
    BY OneEffect DEF BeginTrashAction
  <1>3. mgr = "up" /\ pc = "idle" /\ Verified(b)
    BY DEF BeginTrashAction, CanServe
  <1>4. \A c \in Batches : Closed(c)
    BY <1>3 DEF RecoveryInv, InHand, Serving
  <1>5. Complete(b)
    BY <1>1, <1>3, <1>4 DEF DiskInv, WholeBatch, Verified, Empty
  <1>6. OneOpen'
    BY <1>1, <1>2, <1>4 DEF OneOpen, Closed, DiskType
  <1>7. OwnWorkspaces' /\ SoleHolder'
    BY <1>2 DEF RecoveryInv, OnDisk, OwnWorkspaces, SoleHolder, Moved, WorkspacesIn, Exists,
       clients, dirs
  <1>8. KeptInPlace'
    BY <1>1, <1>2, <1>4, <1>5 DEF RecoveryInv, OnDisk, KeptInPlace, Closed, Complete, Moved, Moves,
       Exists, clients, dirs, DiskType
  <1>9. Movable'
    <2>1. \A c \in Batches : c \in tx' \/ action'[c] = "restore" => c = b
      BY <1>1, <1>2, <1>4 DEF Closed, DiskType
    <2>2. ASSUME NEW i \in Moves(b) PROVE i \in held[b] /\ ~AtHome(i)
      <3>1. i \in held[b]
        BY <1>5, <2>2 DEF Complete
      <3>2. CASE i \in Jobs
        <4>1. life[i] # "absent"
          BY <1>1, <2>2, <3>2, MovesAreItems DEF DiskInv, OnlySubmitted, Moves
        <4> QED
          BY <1>1, <3>1, <3>2, <4>1 DEF DiskInv, NothingLost, AtHome
      <3>3. CASE i \in Workspaces
        BY <3>1, <3>3 DEF RecoveryInv, OnDisk, SoleHolder, WorkspacesIn, AtHome
      <3> QED
        BY <1>1, <2>2, <3>1, <3>2, <3>3, MovesAreItems DEF Items
    <2>3. Moves(b)' = Moves(b)
      BY <1>2 DEF Moves, Moved
    <2>4. \A i \in Moves(b) : i \in held'[b] /\ ~AtHome(i)'
      BY <1>2, <2>2 DEF AtHome, Exists, clients, dirs
    <2> QED
      BY <2>1, <2>3, <2>4 DEF Movable, OneCopy
  <1>10. Forward'
    BY <1>2, <1>4 DEF Forward, ForwardOf, Closed
  <1>11. Renamed'
    BY <1>1, <1>2, <1>4, <1>5 DEF Renamed, RenamedOf, Closed, Complete, Moved, dirs, DiskType
  <1>12. InHand'
    BY <1>1, <1>2, <1>3 DEF InHand, Serving, DeleteInHand, TrashActionInHand, ApplySteps,
       RollbackSteps, DiskType
  <1> QED
    BY <1>6, <1>7, <1>8, <1>9, <1>10, <1>11, <1>12 DEF RecoveryInv, OnDisk

\* Where nothing on the disk changes, it stays in order.
LEMMA DiskKept ==
    ASSUME OnDisk, UNCHANGED <<clients, intents, dirs>> PROVE OnDisk'
BY DEF OnDisk, OneOpen, Closed, OwnWorkspaces, SoleHolder, WorkspacesIn, KeptInPlace, Complete,
   Movable, OneCopy, AtHome, Unchanged, Forward, ForwardOf, Renamed, RenamedOf, Moves, Moved,
   Exists, clients, intents, dirs

\* start() takes up the one pending intent where it was left, or serves.
LEMMA RecoverRecovers ==
    ASSUME Faults = {}, Inductive, RecoveryInv, Recover PROVE RecoveryInv'
  <1>1. UNCHANGED <<clients, intents, dirs>>
    BY DEF Recover, Serve, RecoverTransaction, RecoverAction
  <1>2. OnDisk'
    BY <1>1, DiskKept DEF RecoveryInv
  <1>3. ASSUME NEW b \in Batches, RecoverTransaction(b) PROVE InHand'
    BY <1>1, <1>3 DEF RecoverTransaction, InHand, Serving, DeleteInHand, TrashActionInHand,
       ApplySteps, RollbackSteps, dirs
  <1>4. ASSUME NEW b \in Batches, RecoverAction(b) PROVE InHand'
    <2>1. action[b] \in {"restore", "purge"} /\ phase[b] \in {"prepared", "moving", "finalizing"}
          /\ mgr' = "starting"
      BY <1>4, Parts DEF RecoverAction, DiskType
    <2>2. /\ cur' = b
          /\ \/ pc' = "restore" /\ todo' = {}
             \/ pc' = "restore-items" /\ todo' = Moves(b) \cup record[b].kept
             \/ pc' = "purge" /\ phase[b] = "prepared"
             \/ pc' = "purge-workspaces" /\ phase[b] = "moving"
             \/ pc' = "purge-entry"
      BY <1>4, <2>1 DEF RecoverAction, ResumeAction
    <2>3. Moves(b)' = Moves(b) /\ record' = record /\ phase' = phase
      BY <1>1 DEF Moves, Moved, intents
    <2> QED
      BY <2>1, <2>2, <2>3 DEF InHand, Serving, DeleteInHand, TrashActionInHand, ApplySteps,
         RollbackSteps
  <1>5. CASE Serve
    <2>1. Serving'
      BY <1>1, <1>5 DEF Serve, Serving, Closed, intents
    <2> QED
      BY <1>2, <1>5, <2>1, IdleInHand DEF Serve, RecoveryInv
  <1> QED
    BY <1>2, <1>3, <1>4, <1>5 DEF Recover, RecoveryInv

\* The manager starts, closes or dies.
LEMMA ManagerRecovers ==
    ASSUME RecoveryInv, Start \/ Close \/ Crash PROVE RecoveryInv'
  <1>1. UNCHANGED <<clients, intents, dirs>>
    BY DEF Start, Close, Crash
  <1>2. OnDisk'
    BY <1>1, DiskKept DEF RecoveryInv
  <1>3. pc' = "idle" /\ Serving'
    BY DEF Start, Close, Crash, CanServe, RecoveryInv, InHand, Serving
  <1> QED
    BY <1>2, <1>3, IdleInHand DEF RecoveryInv

\* Nobody but its own job's worker writes to a workspace, and that job is over
\* when a batch lists it.
LEMMA ClientRecovers ==
    ASSUME PrivateWorkspaces, Inductive, RecoveryInv,
           \/ \E j \in Jobs : Submit(j) \/ Settle(j)
           \/ \E w \in Workspaces : WriteWorkspace(w)
    PROVE  RecoveryInv'
  <1> USE NamesAreDistinct
  <1>1. TypeOK /\ DiskType /\ ControlType /\ DiskInv /\ ControlInv
    BY Parts
  <1>2. UNCHANGED <<intents, dirs, control>>
    BY DEF Submit, Settle, WriteWorkspace
  <1>3. InHand'
    BY <1>2 DEF RecoveryInv, InHand, Serving, DeleteInHand, TrashActionInHand, Closed, Moves, Moved,
       intents, dirs, control
  <1>4. OneOpen' /\ Forward' /\ Renamed'
    BY <1>2 DEF RecoveryInv, OnDisk, OneOpen, Closed, Forward, ForwardOf, Renamed, RenamedOf,
       Moves, Moved, intents, dirs
  <1>5. \A c \in Batches : (Closed(c)' <=> Closed(c)) /\ (Complete(c)' <=> Complete(c))
    BY <1>2 DEF Closed, Complete, Moves, Moved, intents, dirs
  <1>6. ASSUME NEW j \in Jobs, Submit(j) \/ Settle(j)
        PROVE  OwnWorkspaces' /\ SoleHolder' /\ KeptInPlace' /\ Movable'
    <2>1. version' = version /\ (\A k \in Jobs : k # j => life'[k] = life[k])
          /\ mgr = "up" /\ pc = "idle"
      BY <1>1, <1>6 DEF Submit, Settle, CanServe, DiskType
    <2>2. \A b \in Batches : \A k \in record[b].jobs : life'[k] = "terminal"
      <3>1. ASSUME NEW b \in Batches, NEW k \in record[b].jobs PROVE life'[k] = "terminal"
        <4>1. k \in Jobs /\ life[k] = "terminal"
          BY <1>1, <3>1 DEF RecoveryInv, OnDisk, OwnWorkspaces, DiskType, TrashRecord
        <4> QED
          BY <1>6, <2>1, <4>1 DEF Submit, Settle
      <3> QED
        BY <3>1
    <2>3. OwnWorkspaces'
      BY <1>2, <2>2 DEF RecoveryInv, OnDisk, OwnWorkspaces, Moved, intents
    <2>4. SoleHolder' /\ KeptInPlace'
      BY <1>2, <1>5, <2>1 DEF RecoveryInv, OnDisk, SoleHolder, WorkspacesIn, KeptInPlace, Exists,
         intents, dirs
    <2>5. \A b \in Batches : b \notin tx' /\ action'[b] # "restore"
      BY <1>2, <2>1 DEF RecoveryInv, InHand, Serving, Closed, intents
    <2> QED
      BY <2>3, <2>4, <2>5 DEF Movable
  <1>7. ASSUME NEW w \in Workspaces, WriteWorkspace(w)
        PROVE  OwnWorkspaces' /\ SoleHolder' /\ KeptInPlace' /\ Movable'
    <2>1. PICK j \in Jobs : WorkspaceOf[j] = w /\ life[j] = "active"
      BY <1>1, <1>7 DEF WriteWorkspace, References, DiskType
    <2>2. ASSUME NEW b \in Batches PROVE w \notin Moved(b)
      <3>1. SUFFICES ASSUME w \in Moved(b) PROVE FALSE
        OBVIOUS
      <3>2. PICK k \in record[b].jobs : WorkspaceOf[k] = w /\ life[k] = "terminal"
        BY <3>1 DEF RecoveryInv, OnDisk, OwnWorkspaces
      <3>3. k \in Jobs
        BY <1>1 DEF DiskType, TrashRecord
      <3> QED
        BY <2>1, <3>2, <3>3 DEF PrivateWorkspaces
    <2>3. /\ UNCHANGED <<life, live>> /\ \A v \in Workspaces : v # w => version'[v] = version[v]
          /\ version'[w] # 0
      BY <1>1, <1>7 DEF WriteWorkspace, DiskType
    <2>4. OwnWorkspaces'
      BY <1>2, <2>3 DEF RecoveryInv, OnDisk, OwnWorkspaces, Moved, intents
    <2>5. SoleHolder'
      <3>1. ASSUME NEW b \in Batches, NEW v \in WorkspacesIn(b)
            PROVE  v # w /\ v \in Workspaces
        <4>1. v \in Moves(b) /\ v \in Workspaces
          BY <1>1, <3>1 DEF DiskInv, HoldsRecorded, WorkspacesIn
        <4>2. v \in Moved(b)
          BY <1>1, <4>1, MovesAreItems DEF Moves
        <4> QED
          BY <2>2, <4>1, <4>2
      <3> QED
        BY <1>2, <2>3, <3>1 DEF RecoveryInv, OnDisk, SoleHolder, WorkspacesIn, Exists, dirs
    <2>6. KeptInPlace'
      <3>1. \A v \in Workspaces : Exists(v) => Exists(v)'
        BY <2>3 DEF Exists
      <3>2. \A b \in Batches : record[b].kept \subseteq Workspaces
        BY <1>1, MovesAreItems
      <3> QED
        BY <1>2, <1>5, <3>1, <3>2 DEF RecoveryInv, OnDisk, KeptInPlace, intents
    <2>7. Movable'
      <3>1. ASSUME NEW b \in Batches, NEW i \in Moves(b)
            PROVE  (AtHome(i)' <=> AtHome(i)) /\ (Unchanged(b, i)' <=> Unchanged(b, i))
        <4>1. i \in Jobs \/ (i \in Workspaces /\ i \notin Jobs /\ i # w)
          BY <1>1, <2>2, <3>1, MovesAreItems DEF Moves
        <4> QED
          BY <1>2, <2>3, <4>1 DEF AtHome, Exists, Unchanged, intents
      <3> QED
        BY <1>2, <3>1 DEF RecoveryInv, OnDisk, Movable, OneCopy, Moves, Moved, intents, dirs
    <2> QED
      BY <2>4, <2>5, <2>6, <2>7
  <1> QED
    BY <1>3, <1>4, <1>6, <1>7 DEF RecoveryInv, OnDisk

\* An empty trash and no manager.
LEMMA RecoveryInit == Init => RecoveryInv
  <1> SUFFICES ASSUME Init PROVE RecoveryInv
    OBVIOUS
  <1>1. \A b \in Batches : Closed(b) /\ Moved(b) = {} /\ record[b].jobs = {} /\ record[b].kept = {}
                           /\ held[b] = {} /\ action[b] = "none" /\ b \notin tx
    BY DEF Init, Closed, Moved
  <1>2. OneOpen /\ OwnWorkspaces /\ SoleHolder /\ KeptInPlace /\ Movable /\ Forward /\ Renamed
    BY <1>1 DEF OneOpen, OwnWorkspaces, SoleHolder, WorkspacesIn, KeptInPlace, Movable, Forward,
       ForwardOf, Renamed, RenamedOf
  <1>3. InHand
    BY DEF Init, InHand, Serving, DeleteInHand, TrashActionInHand, ApplySteps, RollbackSteps
  <1> QED
    BY <1>2, <1>3 DEF RecoveryInv, OnDisk

\* Every step keeps every intent recoverable.
LEMMA RecoveryNext ==
    ASSUME Faults = {}, PrivateWorkspaces, Inductive, RecoveryInv, [Next]_vars
    PROVE  RecoveryInv'
  <1>1. CASE Proceed
    BY <1>1, StagingRecovers, MoveOutRecovers, RecordRecovers, BeginPublishRecovers,
       PublishRecovers, VerifyRecovers, TransactionRemovedRecovers, MoveBackRecovers, DropRecovers,
       RestoreItemsRecovers, FinishRestoreRecovers, FinishPurgeRecovers, ActionRemovedRecovers
       DEF Proceed
  <1>2. CASE Request
    <2>1. ASSUME NEW b \in Batches, RepeatAction(b) PROVE FALSE
      BY <2>1 DEF RepeatAction, CanServe, RecoveryInv, InHand, Serving, Closed
    <2> QED
      BY <1>2, <2>1, DeleteRecovers, ActionRecovers DEF Request
  <1>3. CASE Recover
    BY <1>3, RecoverRecovers
  <1>4. CASE Start \/ Close \/ Crash
    BY <1>4, ManagerRecovers
  <1>5. CASE \/ \E j \in Jobs : Submit(j) \/ Settle(j)
             \/ \E w \in Workspaces : WriteWorkspace(w)
    BY <1>5, ClientRecovers
  <1>6. CASE UNCHANGED vars
    <2>1. OnDisk'
      BY <1>6, DiskKept DEF RecoveryInv, vars, clients, intents, dirs
    <2>2. InHand'
      BY <1>6 DEF RecoveryInv, InHand, Serving, DeleteInHand, TrashActionInHand, Closed, Moves,
         Moved, vars
    <2> QED
      BY <2>1, <2>2 DEF RecoveryInv
  <1> QED
    BY <1>1, <1>2, <1>3, <1>4, <1>5, <1>6 DEF Next

\* Where every job has a workspace of its own and no effect on the disk fails,
\* the manager may die between any two effects of a delete, restore or purge,
\* any number of times, also while start() recovers: no check of
\* _recover_trash_transactions and _recover_trash_action_transactions makes
\* start() give up.
THEOREM RecoveryNeverRefusesHolds ==
    ASSUME Faults = {}, PrivateWorkspaces
    PROVE  Spec => []RecoveryNeverRefuses
  <1>1. Inductive /\ RecoveryInv /\ [Next]_vars => RecoveryInv'
    BY RecoveryNext
  <1>2. RecoveryInv => RecoveryNeverRefuses
    BY DEF RecoveryInv, InHand, Serving, RecoveryNeverRefuses
  <1> QED
    BY <1>1, <1>2, RecoveryInit, InductiveInvariant, PTL DEF Spec

-----------------------------------------------------------------------------
(*****************************************************************************)
(* Why operations end and recoveries get on.                                 *)
(*                                                                           *)
(* What EveryIntentEnds rests on besides fairness: the steps of an operation *)
(* go one way, its loops get shorter, and start() has one intent fewer with  *)
(* every operation that it finishes.                                         *)
(*****************************************************************************)

\* How many steps an operation has before it, counting a loop once.
StepsLeft(step) ==
    CASE step \in {"withdraw", "restore-end", "purge-end"}            -> 1
      [] step \in {"drop-workspaces", "restore-audit", "purge-audit"} -> 2
      [] step \in {"drop-state", "empty-state", "purge-entry", "purge-cursor"} -> 3
      [] step \in {"drop-jobs", "empty-jobs", "purge-final"}          -> 4
      [] step \in {"drop-record", "empty-record", "purge-state"}      -> 5
      [] step \in {"move-back", "empty-workspaces", "purge-workspaces"} -> 6
      [] step \in {"commit", "restore-final", "purge"}                -> 7
      [] step \in {"verify", "restore-items"}                         -> 8
      [] step \in {"publish-state", "restore"}                        -> 9
      [] step = "publish-workspaces" -> 10
      [] step = "publish"            -> 11
      [] step = "write-record"       -> 12
      [] step = "move-out"           -> 13
      [] step = "stage-workspaces"   -> 14
      [] step = "stage-jobs"         -> 15
      [] step = "stage"              -> 16
      [] OTHER                       -> 0

\* A later step; or the same step with less of its loop to visit; or, in the loop
\* of a purge, which takes two steps, a shorter manifest or the second step.
OperationShrinks ==
    \/ StepsLeft(pc') < StepsLeft(pc)
    \/ /\ StepsLeft(pc') = StepsLeft(pc) /\ cur' = cur
       /\ \/ manifest'[cur] \subseteq manifest[cur] /\ manifest'[cur] # manifest[cur]
          \/ /\ manifest' = manifest
             /\ \/ pc = "purge-entry" /\ pc' = "purge-cursor"
                \/ pc' = pc /\ todo' \subseteq todo /\ todo' # todo

\* Batches with an intent on the disk.
Pending == {b \in Batches : ~ Closed(b)}

\* A step of the operation in hand shrinks what is left of it, whether its effect
\* raises or not; and no step of anybody else lengthens it.
OperationsEnd ==
    [][/\ Proceed => OperationShrinks
       /\ pc # "idle" => OperationShrinks \/ UNCHANGED <<cur, pc, todo, manifest>>]_vars

\* start() begins nothing, each operation it finishes closes an intent, and it
\* serves when none is left.
RecoveryAdvances ==
    [][mgr = "starting" =>
         /\ Pending' \subseteq Pending
         /\ mgr' = "starting" /\ pc # "idle" /\ pc' = "idle" => Pending' # Pending
         /\ mgr' = "up" => Pending' = {}]_vars

\* The loop of a purge has an entry in hand that its manifest still lists; and a
\* manager that has stopped has no operation in hand.
EndInv ==
    /\ pc = "purge-cursor" => todo # {} /\ todo \subseteq manifest[cur]
    /\ mgr \in {"down", "refused"} => pc = "idle"

Ends == OperationShrinks /\ EndInv'

\* What StepsLeft says of each step.
LEMMA StepCount ==
    /\ \A s \in {"withdraw", "restore-end", "purge-end"} : StepsLeft(s) = 1
    /\ \A s \in {"drop-workspaces", "restore-audit", "purge-audit"} : StepsLeft(s) = 2
    /\ \A s \in {"drop-state", "empty-state", "purge-entry", "purge-cursor"} : StepsLeft(s) = 3
    /\ \A s \in {"drop-jobs", "empty-jobs", "purge-final"} : StepsLeft(s) = 4
    /\ \A s \in {"drop-record", "empty-record", "purge-state"} : StepsLeft(s) = 5
    /\ \A s \in {"move-back", "empty-workspaces", "purge-workspaces"} : StepsLeft(s) = 6
    /\ \A s \in {"commit", "restore-final", "purge"} : StepsLeft(s) = 7
    /\ \A s \in {"verify", "restore-items"} : StepsLeft(s) = 8
    /\ \A s \in {"publish-state", "restore"} : StepsLeft(s) = 9
    /\ StepsLeft("publish-workspaces") = 10 /\ StepsLeft("publish") = 11
    /\ StepsLeft("write-record") = 12 /\ StepsLeft("move-out") = 13
    /\ StepsLeft("stage-workspaces") = 14 /\ StepsLeft("stage-jobs") = 15
    /\ StepsLeft("stage") = 16 /\ StepsLeft("idle") = 0
  BY DEF StepsLeft

\* Every step but "idle" has something before it, and those that an exception
\* turns into a rollback come before the rollback.
LEMMA StepsCounted ==
    /\ \A s \in Steps \ {"idle"} : StepsLeft(s) \in 1..16
    /\ \A s \in GuardedSteps : StepsLeft(s) > 6
  BY StepCount DEF Steps, ApplySteps, GuardedSteps, RollbackSteps, RestoreSteps, PurgeSteps

\* A return is the end of the operation.
LEMMA ReturnEnds == ASSUME Inductive, pc # "idle", Return PROVE Ends
  BY StepsCounted, StepCount DEF Inductive, TypeOK, Return, Ends, OperationShrinks, EndInv

\* A later step is a step nearer to the end.
LEMMA GoEnds ==
    ASSUME Inductive, EndInv, pc # "idle", NEW step, NEW loop, Go(step, loop),
           step # "purge-cursor", StepsLeft(step) < StepsLeft(pc)
    PROVE  Ends
  BY DEF Go, Ends, OperationShrinks, EndInv

\* A raise ends the operation, or turns it into its rollback.
LEMMA RaiseEnds == ASSUME Inductive, EndInv, pc # "idle", NEW cause, Raise(cause) PROVE Ends
  <1>1. CASE mgr = "starting"
    <2>1. pc' = "idle"
      BY <1>1 DEF Raise
    <2> QED
      BY <2>1, StepsCounted, StepCount DEF Inductive, TypeOK, Ends, OperationShrinks, EndInv
  <1>2. CASE mgr # "starting" /\ pc \in GuardedSteps /\ cur \in tx'
    <2>1. Go("move-back", Moves(cur))
      BY <1>2 DEF Raise
    <2>2. StepsLeft("move-back") < StepsLeft(pc)
      BY <1>2, StepsCounted, StepCount DEF Inductive, TypeOK
    <2> QED
      BY <2>1, <2>2, GoEnds
  <1>3. CASE mgr # "starting" /\ ~ (pc \in GuardedSteps /\ cur \in tx')
    <2>1. Return
      BY <1>3 DEF Raise
    <2> QED
      BY <2>1, ReturnEnds
  <1> QED
    BY <1>1, <1>2, <1>3

\* An effect is followed by a later step, or raises.
LEMMA ThenEnds ==
    ASSUME Inductive, EndInv, pc # "idle", NEW out, NEW step, NEW loop, Then(out, step, loop),
           step # "purge-cursor", StepsLeft(step) < StepsLeft(pc)
    PROVE  Ends
  BY GoEnds, RaiseEnds DEF Then

\* The loop goes on without the item it has visited.
LEMMA LoopEnds ==
    ASSUME Inductive, EndInv, pc \notin {"idle", "purge-cursor"}, NEW i \in todo,
           Go(pc, todo \ {i}), manifest' = manifest
    PROVE  Ends
  BY DEF Go, Ends, OperationShrinks, EndInv

\* An effect on an item is followed by the rest of the loop, or raises.
LEMMA LoopThenEnds ==
    ASSUME Inductive, EndInv, pc \notin {"idle", "purge-cursor"}, NEW i \in todo, NEW out,
           Then(out, pc, todo \ {i}), manifest' = manifest
    PROVE  Ends
  BY LoopEnds, RaiseEnds DEF Then

\* The item visited next is one of the loop's.
LEMMA NextItemsTodo == NextItems \subseteq todo
  BY DEF NextItems

\* The three directories of a staging area, one after the other.
LEMMA CreateStagingEnds == ASSUME Inductive, EndInv, CreateStaging PROVE Ends
  <1>1. PICK out : \/ pc = "stage" /\ Then(out, "stage-jobs", {})
                   \/ pc = "stage-jobs" /\ (Then(out, "stage-workspaces", {}) \/ Then(out, "move-out", Moves(cur)))
                   \/ pc = "stage-workspaces" /\ Then(out, "move-out", Moves(cur))
    BY DEF CreateStaging
  <1> QED
    BY <1>1, ThenEnds, StepCount

\* The jobs and workspaces of a delete, one after the other.
LEMMA MoveOutEnds == ASSUME Inductive, EndInv, MoveOut PROVE Ends
  <1>1. pc = "move-out" /\ manifest' = manifest
    BY DEF MoveOut, intents
  <1>2. CASE Go("write-record", {})
    BY <1>1, <1>2, GoEnds, StepCount
  <1>3. ASSUME NEW i \in NextItems, NEW out, Raise("check") \/ Then(out, pc, todo \ {i})
        PROVE  Ends
    BY <1>1, <1>3, RaiseEnds, LoopThenEnds, NextItemsTodo
  <1> QED
    BY <1>1, <1>2, <1>3 DEF MoveOut

\* The steps between the last move and the verification of a batch.
LEMMA PublishEnds ==
    ASSUME Inductive, EndInv,
           WriteTrashRecord \/ BeginPublish \/ PublishWorkspaces \/ PublishState \/ VerifyPublished
    PROVE  Ends
  <1>1. CASE WriteTrashRecord
    BY <1>1, ThenEnds, StepCount DEF WriteTrashRecord
  <1>2. CASE BeginPublish
    <2>1. pc = "publish" /\ \/ Raise("check")
                            \/ Go("verify", {}) \/ Go("publish-workspaces", {}) \/ Go("publish-state", {})
      BY <1>2 DEF BeginPublish
    <2> QED
      BY <2>1, GoEnds, RaiseEnds, StepCount
  <1>3. CASE PublishWorkspaces
    BY <1>3, ThenEnds, RaiseEnds, StepCount DEF PublishWorkspaces
  <1>4. CASE PublishState
    BY <1>4, ThenEnds, StepCount DEF PublishState
  <1>5. CASE VerifyPublished
    BY <1>5, GoEnds, RaiseEnds, StepCount DEF VerifyPublished
  <1> QED
    BY <1>1, <1>2, <1>3, <1>4, <1>5

\* The removal of its intent is the end of an operation.
LEMMA RemoveTransactionEnds ==
    ASSUME Inductive, EndInv, RemoveTransaction \/ RemoveAction PROVE Ends
  <1>1. pc # "idle" /\ (Return \/ Raise("io"))
    BY DEF RemoveTransaction, RemoveAction
  <1> QED
    BY <1>1, ReturnEnds, RaiseEnds

\* The items of a rollback, one after the other.
LEMMA MoveBackEnds == ASSUME Inductive, EndInv, MoveBack PROVE Ends
  <1>1. pc = "move-back" /\ manifest' = manifest
    BY DEF MoveBack, intents
  <1>2. CASE Go("drop-record", {})
    BY <1>1, <1>2, GoEnds, StepCount
  <1>3. ASSUME NEW i \in NextItems, NEW out,
               Raise("check") \/ Go(pc, todo \ {i}) \/ Then(out, pc, todo \ {i})
        PROVE  Ends
    BY <1>1, <1>3, RaiseEnds, LoopEnds, LoopThenEnds, NextItemsTodo
  <1> QED
    BY <1>1, <1>2, <1>3 DEF MoveBack

\* The items of a restore, one after the other.
LEMMA RestoreItemsEnds == ASSUME Inductive, EndInv, RestoreItems PROVE Ends
  <1>1. pc = "restore-items" /\ manifest' = manifest
    BY DEF RestoreItems, intents
  <1>2. CASE Go("restore-final", {})
    BY <1>1, <1>2, GoEnds, StepCount
  <1>3. ASSUME NEW i \in NextItems, NEW out,
               Raise("check") \/ Go(pc, todo \ {i}) \/ Then(out, pc, todo \ {i})
        PROVE  Ends
    BY <1>1, <1>3, RaiseEnds, LoopEnds, LoopThenEnds, NextItemsTodo
  <1> QED
    BY <1>1, <1>2, <1>3 DEF RestoreItems

\* The steps that remove a part of the batch, or raise because it is in use.
LEMMA RemovalEnds ==
    ASSUME Inductive, EndInv, NEW at, NEW next, at # "idle", next # "purge-cursor",
           StepsLeft(next) < StepsLeft(at),
           \/ RemoveRecordFile(at, next) \/ RemoveJobsRoot(at, next)
           \/ RemoveStateDir(at, next) \/ RemoveWorkspaceDir(at, next)
    PROVE  Ends
  <1>1. pc = at /\ (Raise("check") \/ \E out : Then(out, next, {}))
    BY DEF RemoveRecordFile, RemoveJobsRoot, RemoveStateDir, RemoveWorkspaceDir
  <1> QED
    BY <1>1, RaiseEnds, ThenEnds

\* The next phase of a restore or a purge is written.
LEMMA PhaseEnds ==
    ASSUME Inductive, EndInv, NEW at, NEW next, NEW value, NEW loop, at # "idle",
           next # "purge-cursor", StepsLeft(next) < StepsLeft(at), SetPhase(at, value, next, loop)
    PROVE  Ends
  <1>1. pc = at /\ \E out : Then(out, next, loop)
    BY DEF SetPhase
  <1> QED
    BY <1>1, ThenEnds

\* The audit line of a restore or a purge is written.
LEMMA AuditEnds ==
    ASSUME Inductive, EndInv, NEW at, NEW next, NEW label, at # "idle", next # "purge-cursor",
           StepsLeft(next) < StepsLeft(at), WriteAudit(at, label, next)
    PROVE  Ends
  <1>1. pc = at /\ \E out : Then(out, next, {})
    BY DEF WriteAudit
  <1> QED
    BY <1>1, ThenEnds

\* The parts of a batch that a rollback removes.
LEMMA DropBatchEnds == ASSUME Inductive, EndInv, DropBatch PROVE Ends
  BY RemovalEnds, StepCount DEF DropBatch

\* The steps of a restore that are not its moves.
LEMMA FinishRestoreEnds == ASSUME Inductive, EndInv, FinishRestore PROVE Ends
  <1>1. CASE SetPhase("restore", "moving", "restore-items", Moves(cur) \cup record[cur].kept)
    BY <1>1, PhaseEnds, StepCount
  <1>2. CASE SetPhase("restore-final", "finalizing", "empty-workspaces", {})
    BY <1>2, PhaseEnds, StepCount
  <1>3. CASE WriteAudit("restore-audit", "restored", "restore-end")
    BY <1>3, AuditEnds, StepCount
  <1>4. CASE \/ RemoveWorkspaceDir("empty-workspaces", "empty-record")
             \/ RemoveRecordFile("empty-record", "empty-jobs")
             \/ RemoveJobsRoot("empty-jobs", "empty-state")
             \/ RemoveStateDir("empty-state", "restore-audit")
    BY <1>4, RemovalEnds, StepCount
  <1> QED
    BY <1>1, <1>2, <1>3, <1>4 DEF FinishRestore

\* The two directories of a purge.
LEMMA PurgeDirsEnd ==
    ASSUME Inductive, EndInv, PurgeWorkspaceDir \/ PurgeStateDir PROVE Ends
  <1>1. \/ pc = "purge-workspaces" /\ (Raise("check") \/ \E out : Then(out, "purge-state", {}))
        \/ pc = "purge-state" /\ (Raise("check") \/ \E out : Then(out, "purge-final", {}))
    BY DEF PurgeWorkspaceDir, PurgeStateDir
  <1> QED
    BY <1>1, RaiseEnds, ThenEnds, StepCount

\* An entry of the manifest is taken in hand.
LEMMA PurgeEntryEnds == ASSUME Inductive, EndInv, PurgeEntry PROVE Ends
  <1>1. pc = "purge-entry" /\ manifest' = manifest
    BY DEF PurgeEntry, intents
  <1>2. CASE Raise("check") \/ Go("purge-audit", {})
    BY <1>1, <1>2, RaiseEnds, GoEnds, StepCount
  <1>3. ASSUME NEW e \in NextEntries(cur), NEW out, Then(out, "purge-cursor", {e})
        PROVE  Ends
    <2>1. CASE out = "done"
      <3>1. Go("purge-cursor", {e})
        BY <1>3, <2>1 DEF Then
      <3>2. e \in manifest[cur]
        BY <1>3 DEF NextEntries
      <3> QED
        BY <1>1, <3>1, <3>2, StepCount DEF Go, Ends, OperationShrinks, EndInv
    <2>2. CASE out # "done"
      BY <1>1, <1>3, <2>2, RaiseEnds DEF Then
    <2> QED
      BY <2>1, <2>2
  <1> QED
    BY <1>1, <1>2, <1>3 DEF PurgeEntry

\* The manifest gets shorter by the entry in hand.
LEMMA AdvanceCursorEnds == ASSUME Inductive, EndInv, AdvanceCursor PROVE Ends
  <1>1. pc = "purge-cursor"
    BY DEF AdvanceCursor
  <1>2. PICK out : /\ manifest' = (IF out = "raised" THEN manifest
                                   ELSE [manifest EXCEPT ![cur] = @ \ todo])
                   /\ Then(out, "purge-entry", {})
    BY DEF AdvanceCursor
  <1>3. CASE out = "done"
    <2>1. Go("purge-entry", {}) /\ manifest' = [manifest EXCEPT ![cur] = @ \ todo]
      BY <1>2, <1>3 DEF Then
    <2>2. cur \in Batches /\ manifest'[cur] = manifest[cur] \ todo
      BY <1>1, <2>1 DEF Inductive, TypeOK
    <2>3. manifest'[cur] \subseteq manifest[cur] /\ manifest'[cur] # manifest[cur]
      BY <1>1, <2>2 DEF EndInv
    <2> QED
      BY <1>1, <2>1, <2>3, StepCount DEF Go, Ends, OperationShrinks, EndInv
  <1>4. CASE out # "done"
    BY <1>1, <1>2, <1>4, RaiseEnds DEF Then
  <1> QED
    BY <1>3, <1>4

\* The steps of a purge.
LEMMA FinishPurgeEnds == ASSUME Inductive, EndInv, FinishPurge PROVE Ends
  <1>1. CASE SetPhase("purge", "moving", "purge-workspaces", {})
    BY <1>1, PhaseEnds, StepCount
  <1>2. CASE SetPhase("purge-final", "finalizing", "purge-entry", {})
    BY <1>2, PhaseEnds, StepCount
  <1>3. CASE WriteAudit("purge-audit", "purged", "purge-end")
    BY <1>3, AuditEnds, StepCount
  <1> QED
    BY <1>1, <1>2, <1>3, PurgeDirsEnd, PurgeEntryEnds, AdvanceCursorEnds DEF FinishPurge

\* Every step of an operation.
LEMMA ProceedEnds == ASSUME Inductive, EndInv, Proceed PROVE Ends
  BY CreateStagingEnds, MoveOutEnds, PublishEnds, RemoveTransactionEnds, MoveBackEnds,
     DropBatchEnds, RestoreItemsEnds, FinishRestoreEnds, FinishPurgeEnds DEF Proceed

\* While an operation is in hand only a death and a worker come between.
LEMMA OthersWait ==
    ASSUME Inductive, EndInv, [Next]_vars, ~ Proceed
    PROVE  /\ EndInv'
           /\ pc # "idle" => pc' = "idle" \/ UNCHANGED <<cur, pc, todo, manifest>>
  <1>1. CASE pc # "idle"
    <2>1. CASE Crash
      BY <2>1 DEF Crash, EndInv
    <2>2. ASSUME NEW w \in Workspaces, WriteWorkspace(w)
          PROVE  UNCHANGED <<control, manifest>>
      BY <2>2 DEF WriteWorkspace, intents
    <2>3. CASE UNCHANGED vars
      BY <2>3 DEF vars, EndInv
    <2>4. ~ Recover /\ ~ Request /\ ~ Start /\ ~ Close
      BY <1>1 DEF Recover, Serve, RecoverTransaction, RecoverAction, Request, ApplyBatchDelete,
                  BeginTrashAction, RepeatAction, Start, Close, CanServe, EndInv
    <2>5. \A j \in Jobs : ~ Submit(j) /\ ~ Settle(j)
      BY <1>1 DEF Submit, Settle, CanServe
    <2>6. UNCHANGED <<control, manifest>> => EndInv' /\ UNCHANGED <<cur, pc, todo, manifest>>
      BY DEF control, EndInv
    <2> QED
      BY <2>1, <2>2, <2>3, <2>4, <2>5, <2>6 DEF Next
  <1>2. CASE pc = "idle"
    <2>1. pc' # "purge-cursor"
      BY <1>2 DEF Next, Recover, Serve, RecoverTransaction, RecoverAction, ResumeAction, Request,
                  ApplyBatchDelete, BeginTrashAction, RepeatAction, Start, Close, Crash, Submit,
                  Settle, WriteWorkspace, control, vars
    <2>2. mgr' \in {"down", "refused"} => pc' = "idle"
      BY <1>2 DEF Next, Recover, Serve, RecoverTransaction, RecoverAction, ResumeAction, Request,
                  ApplyBatchDelete, BeginTrashAction, RepeatAction, Start, Close, Crash, Submit,
                  Settle, WriteWorkspace, control, vars, CanServe
    <2> QED
      BY <1>2, <2>1, <2>2 DEF EndInv
  <1> QED
    BY <1>1, <1>2

\* What a step of the manager, of a worker or of the machine does to the operation in
\* hand.
LEMMA EndNext ==
    ASSUME Inductive, EndInv, [Next]_vars
    PROVE  /\ EndInv'
           /\ Proceed => OperationShrinks
           /\ pc # "idle" => OperationShrinks \/ UNCHANGED <<cur, pc, todo, manifest>>
  <1>1. pc # "idle" /\ pc' = "idle" => OperationShrinks
    BY StepsCounted, StepCount DEF Inductive, TypeOK, OperationShrinks
  <1> QED
    BY <1>1, ProceedEnds, OthersWait DEF Ends

\* EndInv holds in every state.
LEMMA EndInvariant == Spec => []EndInv
  <1>1. Init => EndInv
    BY DEF Init, EndInv
  <1>2. Inductive /\ EndInv /\ [Next]_vars => EndInv'
    BY EndNext
  <1> QED
    BY <1>1, <1>2, InductiveInvariant, PTL DEF Spec

\* Whatever an operation of the trash is at and whichever of its effects raise, it
\* comes to an end.
THEOREM OperationsEndHolds == Spec => OperationsEnd
  <1>1. Inductive /\ EndInv /\ [Next]_vars
          => [/\ Proceed => OperationShrinks
              /\ pc # "idle" => OperationShrinks \/ UNCHANGED <<cur, pc, todo, manifest>>]_vars
    BY EndNext
  <1> QED
    BY <1>1, EndInvariant, InductiveInvariant, PTL DEF Spec, OperationsEnd

\* RemoveTransaction or RemoveAction, when it returns, closes its batch.
LEMMA RemovalCloses ==
    ASSUME Inductive, RemoveTransaction \/ RemoveAction, mgr = "starting"
    PROVE  /\ Pending' \subseteq Pending
           /\ mgr' = "starting" => Pending' # Pending
  <1> USE DEF Pending, Closed
  <1>1. CASE RemoveTransaction
    <2>1. cur \in tx /\ action[cur] = "none" /\ cur \in Batches
      BY <1>1 DEF RemoveTransaction, Inductive, TypeOK, OwnsIntent, GuardedSteps, RollbackSteps, OneIntent
    <2>2. action' = action /\ tx' \subseteq tx
      BY <1>1 DEF RemoveTransaction
    <2>3. ASSUME mgr' = "starting" PROVE cur \notin tx'
      BY <1>1, <2>3 DEF RemoveTransaction, Raise
    <2> QED
      BY <2>1, <2>2, <2>3
  <1>2. CASE RemoveAction
    <2>1. action[cur] # "none" /\ cur \notin tx /\ cur \in Batches
      BY <1>2 DEF RemoveAction, Inductive, TypeOK, OwnsIntent, RestoreSteps, PurgeSteps, OneIntent
    <2>2. tx' = tx /\ (action' = action \/ action' = [action EXCEPT ![cur] = "none"])
      BY <1>2 DEF RemoveAction
    <2>3. ASSUME mgr' = "starting" PROVE action' = [action EXCEPT ![cur] = "none"]
      BY <1>2, <2>3 DEF RemoveAction, Raise
    <2> QED
      BY <2>1, <2>2, <2>3 DEF Inductive, TypeOK
  <1> QED
    BY <1>1, <1>2

\* Every other step of an operation leaves the intents and, unless it raises, has
\* a step after it.
LEMMA OthersKeepIntents ==
    ASSUME Inductive, Proceed, ~ RemoveTransaction, ~ RemoveAction, mgr = "starting"
    PROVE  /\ tx' = tx /\ action' = action
           /\ mgr' = "starting" => pc' # "idle"
  <1> USE DEF Then, Go, Raise
  <1>1. CASE CreateStaging \/ MoveOut \/ MoveBack \/ RestoreItems
    <2>1. tx' = tx /\ action' = action
      BY <1>1 DEF CreateStaging, MoveOut, MoveBack, RestoreItems, intents
    <2> QED
      BY <1>1, <2>1 DEF CreateStaging, MoveOut, MoveBack, RestoreItems
  <1>2. CASE WriteTrashRecord \/ BeginPublish \/ PublishWorkspaces \/ PublishState \/ VerifyPublished
    BY <1>2 DEF WriteTrashRecord, BeginPublish, PublishWorkspaces, PublishState, VerifyPublished, intents
  <1>3. CASE DropBatch
    BY <1>3 DEF DropBatch, RemoveRecordFile, RemoveJobsRoot, RemoveStateDir, RemoveWorkspaceDir, intents
  <1>4. CASE FinishRestore
    BY <1>4 DEF FinishRestore, SetPhase, WriteAudit, RemoveRecordFile, RemoveJobsRoot, RemoveStateDir,
                RemoveWorkspaceDir, intents
  <1>5. CASE FinishPurge
    BY <1>5 DEF FinishPurge, SetPhase, WriteAudit, PurgeWorkspaceDir, PurgeStateDir, PurgeEntry,
                AdvanceCursor, intents
  <1> QED
    BY <1>1, <1>2, <1>3, <1>4, <1>5 DEF Proceed

\* What a step during start() does to the intents.
LEMMA AdvanceNext ==
    ASSUME Inductive, [Next]_vars, mgr = "starting"
    PROVE  /\ Pending' \subseteq Pending
           /\ mgr' = "starting" /\ pc # "idle" /\ pc' = "idle" => Pending' # Pending
           /\ mgr' = "up" => Pending' = {}
  <1>1. CASE RemoveTransaction \/ RemoveAction
    <2>1. mgr' # "up"
      BY <1>1 DEF RemoveTransaction, RemoveAction, Raise, Return
    <2> QED
      BY <1>1, <2>1, RemovalCloses
  <1>2. CASE Proceed /\ ~ RemoveTransaction /\ ~ RemoveAction
    <2>1. Pending' = Pending
      BY <1>2, OthersKeepIntents DEF Pending, Closed
    <2>2. mgr' # "up"
      BY <1>2 DEF Proceed, CreateStaging, MoveOut, WriteTrashRecord, BeginPublish, PublishWorkspaces, PublishState,
         VerifyPublished, MoveBack, DropBatch, RestoreItems, FinishRestore, FinishPurge,
         SetPhase, WriteAudit, RemoveRecordFile, RemoveJobsRoot, RemoveStateDir, RemoveWorkspaceDir,
         PurgeWorkspaceDir, PurgeStateDir, PurgeEntry, AdvanceCursor, Then, Go, Raise
    <2> QED
      BY <1>2, <2>1, <2>2, OthersKeepIntents
  <1>3. CASE Serve
    <2>1. tx = {} /\ (\A b \in Batches : action[b] = "none") /\ tx' = tx /\ action' = action /\ pc' = pc
      BY <1>3 DEF Serve, intents
    <2> QED
      BY <2>1 DEF Pending, Closed
  <1>4. CASE UNCHANGED <<tx, action>> /\ mgr' # "up" /\ (mgr' # "starting" \/ pc = "idle" \/ pc' # "idle")
    BY <1>4 DEF Pending, Closed
  <1>5. ASSUME NEW b \in Batches, RecoverTransaction(b) \/ RecoverAction(b)
        PROVE  UNCHANGED <<tx, action>> /\ mgr' = mgr /\ pc = "idle"
    BY <1>5 DEF RecoverTransaction, RecoverAction, intents
  <1>6. CASE Crash
    <2>1. UNCHANGED <<tx, action>> /\ mgr' = "down"
      BY <1>6 DEF Crash, intents
    <2> QED
      BY <1>4, <2>1
  <1>7. ~ Request /\ ~ Start /\ ~ Close
    BY DEF Request, ApplyBatchDelete, BeginTrashAction, RepeatAction, Start, Close, CanServe
  <1>8. \A j \in Jobs : ~ Submit(j) /\ ~ Settle(j)
    BY DEF Submit, Settle, CanServe
  <1>9. ASSUME NEW w \in Workspaces, WriteWorkspace(w)
        PROVE  UNCHANGED <<tx, action>> /\ mgr' = mgr /\ pc' = pc
    BY <1>9 DEF WriteWorkspace, intents, control
  <1>10. CASE UNCHANGED vars
    <2>1. UNCHANGED <<tx, action>> /\ mgr' = mgr /\ pc' = pc
      BY <1>10 DEF vars
    <2> QED
      BY <1>4, <2>1
  <1>11. CASE Recover
    BY <1>3, <1>4, <1>5, <1>11 DEF Recover
  <1>12. CASE \E w \in Workspaces : WriteWorkspace(w)
    BY <1>4, <1>9, <1>12
  <1> QED
    BY <1>1, <1>2, <1>6, <1>7, <1>8, <1>10, <1>11, <1>12 DEF Next

\* A recovery of any number of intents, cut short by any number of deaths, has
\* fewer of them to go with every operation that it finishes, and serves with none.
THEOREM RecoveryAdvancesHolds == Spec => RecoveryAdvances
  <1>1. Inductive /\ [Next]_vars
          => [mgr = "starting" =>
                /\ Pending' \subseteq Pending
                /\ mgr' = "starting" /\ pc # "idle" /\ pc' = "idle" => Pending' # Pending
                /\ mgr' = "up" => Pending' = {}]_vars
    BY AdvanceNext
  <1> QED
    BY <1>1, InductiveInvariant, PTL DEF Spec, RecoveryAdvances

===============================================================================
