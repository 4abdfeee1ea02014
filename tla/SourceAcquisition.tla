-------------------------- MODULE SourceAcquisition --------------------------
(***************************************************************************)
(* How a workflow acquires its elevation source: providers are evaluated   *)
(* and ranked (providers/selection.py), the first that can fetches raster, *)
(* masks and manifest into a private drop (providers/copernicus_aws.py),   *)
(* and the drop is copied, verified and removed (workflow/acquisition.py). *)
(* Fetches fail half way; files of the drop change under the program.      *)
(***************************************************************************)
EXTENDS Naturals, FiniteSets, Sequences, SequencesExt

CONSTANTS
    Ranking,       \* the registered providers, in the order of their rank tuples
    Masks,         \* roles of quality masks
    MaxAcqFaults   \* bound: failed writes and files changed from outside

ASSUME AcquisitionAssumption ==
    /\ Ranking \in Seq(STRING) /\ IsInjective(Ranking)
    /\ ToSet(Ranking) \cap {"user", "nobody"} = {}
    /\ IsFiniteSet(Masks) /\ Masks \cap {"raster", "manifest"} = {} /\ MaxAcqFaults \in Nat

VARIABLES
    ranked,      \* the eligible providers, best first
    apc,         \* next effect, or how the acquisition ended
    attempts,    \* fetches so far: [provider, status], the last one is running
    plan,        \* files the running fetch still has to write, in order
    drop,        \* files of the drop: who wrote them, and whether they are whole
    written,     \* files the running fetch has completed
    before,      \* files that were in the drop when the fetch began
    seal,        \* the content the manifest's hashes are of
    entries,     \* files of the drop that were copied, as they were then
    snapshot,    \* the private copy
    acqFaults

acquisitionVars == <<ranked, apc, attempts, plan, drop, written, before, seal, entries,
                     snapshot, acqFaults>>

Providers == ToSet(Ranking)
Files     == Masks \cup {"raster", "manifest"}
NoFile    == [by |-> "nobody", whole |-> FALSE]
Empty     == [f \in Files |-> NoFile]
Content   == [by : Providers \cup {"user", "nobody"}, whole : BOOLEAN]
Exists(d) == {f \in Files : d[f] # NoFile}
Statuses  == {"running", "failed", "failed_retained", "unrecorded", "selected"}
Ended     == {"acquired", "none_eligible", "all_failed", "retained", "failed"}

SourceAcquisitionTypeOK ==
    /\ ranked \in Seq(Providers) /\ attempts \in Seq([provider : Providers, status : Statuses])
    /\ apc \in {"evaluating", "fetching", "writing", "unlinking", "judging", "tracing",
                "copying", "verifying", "cleaning"} \cup Ended
    /\ plan \in Seq(Files) /\ written \subseteq Files /\ before \subseteq Files
    /\ drop \in [Files -> Content] /\ seal \in [Files -> Content]
    /\ entries \in [Files -> Content] /\ snapshot \in [Files -> Content]
    /\ acqFaults \in 0..MaxAcqFaults

AcquisitionInit ==
    /\ ranked = <<>> /\ apc = "evaluating" /\ attempts = <<>> /\ plan = <<>>
    /\ drop = Empty /\ written = {} /\ before = {} /\ seal = Empty
    /\ entries = Empty /\ snapshot = Empty /\ acqFaults = 0

AcqFault == acqFaults < MaxAcqFaults /\ acqFaults' = acqFaults + 1

\* The provider whose fetch is running or succeeded.
Current == Last(attempts).provider
Marked(status) == [attempts EXCEPT ![Len(attempts)].status = status]

Rank(p) == CHOOSE i \in DOMAIN Ranking : Ranking[i] = p
SortedByRank(order) == \A i, j \in DOMAIN order : i < j => Rank(order[i]) < Rank(order[j])

\* Some providers are not implemented, not available, fail their metadata or
\* probe, or fail a hard requirement; the others are sorted by rank.
Evaluate ==
    /\ apc = "evaluating"
    /\ \E eligible \in SUBSET Providers : \E order \in SeqOf(eligible, Len(Ranking)) :
          /\ ToSet(order) = eligible /\ SortedByRank(order) /\ ranked' = order
          /\ apc' = IF eligible = {} THEN "none_eligible" ELSE "fetching"
    /\ UNCHANGED <<attempts, plan, drop, written, before, seal, entries, snapshot, acqFaults>>

\* A fetch refuses a destination at which any of its files exists; it writes the
\* raster, the masks every source tile offers, and the manifest.
BeginFetch ==
    /\ apc = "fetching"
    /\ attempts' = Append(attempts, [provider |-> ranked[Len(attempts) + 1],
                                     status |-> "running"])
    /\ before' = Exists(drop) /\ written' = {} /\ seal' = Empty
    /\ \/ /\ Exists(drop) = {} /\ apc' = "writing"
          /\ \E offered \in SUBSET Masks :
                plan' = <<"raster">> \o SetToSeq(offered) \o <<"manifest">>
          /\ UNCHANGED acqFaults
       \/ Exists(drop) # {} /\ apc' = "judging" /\ plan' = <<>> /\ UNCHANGED acqFaults
       \/ AcqFault /\ apc' = "judging" /\ plan' = <<>>
    /\ UNCHANGED <<ranked, drop, entries, snapshot>>

\* A file is published once it is whole.  One that cannot be completed stays, in
\* part, and is not among those the failure removes.  The manifest holds the
\* hashes of the files as they are then.
WriteFile ==
    /\ apc = "writing" /\ plan # <<>>
    /\ LET f == Head(plan) IN
       \/ /\ drop' = [drop EXCEPT ![f] = [by |-> Current, whole |-> TRUE]]
          /\ written' = written \cup {f} /\ plan' = Tail(plan)
          /\ seal' = IF f = "raster" THEN seal
                     ELSE IF f = "manifest" THEN [seal EXCEPT !["raster"] = drop["raster"]]
                     ELSE [seal EXCEPT ![f] = drop'[f]]
          /\ apc' = IF plan' = <<>> THEN "tracing" ELSE "writing"
          /\ UNCHANGED acqFaults
       \/ /\ AcqFault /\ apc' = "unlinking"
          /\ \E left \in {drop[f], [by |-> Current, whole |-> FALSE]} :
                drop' = [drop EXCEPT ![f] = left]
          /\ UNCHANGED <<written, plan, seal>>
    /\ UNCHANGED <<ranked, attempts, before, entries, snapshot>>

\* The failed fetch unlinks what it published; an unlink may fail as well.
RemovePublished ==
    /\ apc = "unlinking" /\ apc' = "judging"
    /\ \/ drop' = [f \in Files |-> IF f \in written THEN NoFile ELSE drop[f]]
          /\ UNCHANGED acqFaults
       \/ AcqFault /\ UNCHANGED drop
    /\ UNCHANGED <<ranked, attempts, plan, written, before, seal, entries, snapshot>>

NextProvider == IF Len(attempts) < Len(ranked) THEN "fetching" ELSE "all_failed"

\* Mutant: the next provider is tried whatever the last one left.
FallBackAlways ==
    /\ apc = "judging"
    /\ attempts' = Marked("failed") /\ apc' = NextProvider
    /\ UNCHANGED <<ranked, plan, drop, written, before, seal, entries, snapshot, acqFaults>>

\* Only a failure that left no new file lets the next provider try.
FallBack ==
    /\ apc = "judging"
    /\ IF Exists(drop) \ before # {}
       THEN attempts' = Marked("failed_retained") /\ apc' = "retained"
       ELSE attempts' = Marked("failed") /\ apc' = NextProvider
    /\ UNCHANGED <<ranked, plan, drop, written, before, seal, entries, snapshot, acqFaults>>

\* The manifest is read and replaced by one with the trace.  Another manifest that
\* was put there names the hashes of other files.
RecordTrace ==
    /\ apc = "tracing"
    /\ \/ /\ drop["manifest"].whole
          /\ seal' = IF drop["manifest"].by = Current
                     THEN [seal EXCEPT !["manifest"] = drop["manifest"]] ELSE Empty
          /\ attempts' = Marked("selected") /\ apc' = "copying" /\ UNCHANGED acqFaults
       \/ /\ ~ drop["manifest"].whole
          /\ attempts' = Marked("unrecorded") /\ apc' = "retained"
          /\ UNCHANGED <<seal, acqFaults>>
       \/ /\ AcqFault /\ attempts' = Marked("unrecorded") /\ apc' = "retained"
          /\ UNCHANGED seal
    /\ UNCHANGED <<ranked, plan, drop, written, before, entries, snapshot>>

\* The drop holds exactly the files the manifest names; they are copied.
SnapshotDrop ==
    /\ apc = "copying"
    /\ \/ /\ Exists(drop) = Exists(seal) /\ drop["manifest"].whole
          /\ entries' = drop /\ snapshot' = drop
          /\ apc' = "verifying" /\ UNCHANGED acqFaults
       \/ /\ Exists(drop) # Exists(seal) \/ ~ drop["manifest"].whole
          /\ apc' = "failed" /\ UNCHANGED <<entries, snapshot, acqFaults>>
       \/ AcqFault /\ apc' = "failed" /\ UNCHANGED <<entries, snapshot>>
    /\ UNCHANGED <<ranked, attempts, plan, drop, written, before, seal>>

\* verify_global_source on the copy alone: the hashes of the manifest, and a
\* manifest whose trace is the one this process wrote (nobody forges that).
VerifySnapshot ==
    /\ apc = "verifying"
    /\ apc' = IF snapshot = seal THEN "cleaning" ELSE "failed"
    /\ UNCHANGED <<ranked, attempts, plan, drop, written, before, seal, entries, snapshot,
                   acqFaults>>

\* The drop is removed, but only the files that were copied from it.
CleanDrop ==
    /\ apc = "cleaning"
    /\ \/ /\ drop = entries
          /\ drop' = Empty /\ apc' = "acquired" /\ UNCHANGED acqFaults
       \/ drop # entries /\ apc' = "failed" /\ UNCHANGED <<drop, acqFaults>>
       \/ AcqFault /\ apc' = "failed" /\ UNCHANGED drop
    /\ UNCHANGED <<ranked, attempts, plan, written, before, seal, entries, snapshot>>

\* Somebody replaces, adds or deletes a file of the drop before or after a fetch;
\* while one runs its manifest is made of what it finds in the drop.
ChangeDrop(f) ==
    /\ apc \in {"fetching", "tracing", "copying", "verifying", "cleaning"} /\ AcqFault
    /\ \E now \in {NoFile, [by |-> "user", whole |-> TRUE]} : drop' = [drop EXCEPT ![f] = now]
    /\ UNCHANGED <<ranked, apc, attempts, plan, written, before, seal, entries, snapshot>>

AcquisitionNext ==
    \/ Evaluate \/ BeginFetch \/ WriteFile \/ RemovePublished \/ FallBack \/ RecordTrace
    \/ SnapshotDrop \/ VerifySnapshot \/ CleanDrop
    \/ \E f \in Files : ChangeDrop(f)
AcquisitionSpec == AcquisitionInit /\ [][AcquisitionNext]_acquisitionVars

-----------------------------------------------------------------------------
(* Properties *)

\* What an acquisition reports is so.  A source it acquired is whole and the work
\* of the one provider the trace names, the best one that did not fail before it
\* left a trace of itself; where all fetches failed, no provider left a file.
AcquisitionIsTrue ==
    /\ apc = "acquired" =>
         /\ {"raster", "manifest"} \subseteq Exists(snapshot)
         /\ \A f \in Exists(snapshot) : snapshot[f] = [by |-> Current, whole |-> TRUE]
         /\ \A i \in 1..Len(attempts) :
               /\ attempts[i].provider = ranked[i]
               /\ attempts[i].status = IF i = Len(attempts) THEN "selected" ELSE "failed"
    /\ apc = "all_failed" => \A f \in Files : drop[f].by \notin Providers

=============================================================================
