---------------------------- MODULE WorkerLaunch ----------------------------
(***************************************************************************)
(* The worker launch protocol of LocalJobManager (web/jobs.py), the gated  *)
(* worker it spawns (web/worker.py) and the process-containment questions  *)
(* both ask of the operating system (web/processes.py).                    *)
(*                                                                         *)
(* A manager holds one re-entrant lock through every API call, every       *)
(* refresh of the monitor thread and every termination thread.  What can   *)
(* interleave is therefore: the steps of the one lock holder, the workers, *)
(* termination threads waiting for the lock, the clock, and the death of   *)
(* the manager process.  job.json, worker-ready.json, launch-gate.json and *)
(* worker-result.json survive that death; the Popen table and the          *)
(* termination threads do not.                                             *)
(***************************************************************************)
EXTENDS Naturals, FiniteSets

CONSTANTS
    Jobs,           \* job identifiers the clients may submit
    MaxConcurrent,  \* config.max_concurrent_jobs
    MaxCrashes,     \* bound: how often the manager process may die
    Faults          \* the faults the environment may inject

\* "io": a durable write or an OS inspection raises; "unkillable": a process
\* outlives SIGKILL; "stray": a worker dies and leaves members in its group.
FaultKinds == {"io", "unkillable", "stray"}

ASSUME JobsFinite == IsFiniteSet(Jobs)
ASSUME LimitsAssumption ==
    /\ MaxConcurrent \in Nat \ {0}
    /\ MaxCrashes \in Nat
ASSUME FaultsAssumption == Faults \subseteq FaultKinds

VARIABLES
    rec,      \* job -> the durable JobRecord
    arrival,  \* job -> rank of created_at, 0 before submission
    ready,    \* jobs with a worker-ready.json
    gate,     \* jobs with a launch-gate.json
    result,   \* job -> the content of worker-result.json
    worker,   \* job -> what the spawned worker process is doing
    strays,   \* jobs whose process group outlives its leader
    expired,  \* jobs whose launch_gate_deadline has passed
    orphans,  \* jobs whose launching manager process is gone
    handle,   \* jobs with a Popen in LocalJobManager._processes
    killers,  \* jobs with a termination thread waiting for the lock
    mgr,      \* "down", "closed", "opening" (inside start()) or "open"
    todo,     \* records the current refresh has yet to reconcile
    batch,    \* queued records the current pass is about to start
    step,     \* where _start_job or _finish_job stands
    crashes   \* how often the manager process has died

files  == <<ready, gate, result>>
procs  == <<worker, strays, expired, orphans>>
pass   == <<mgr, todo, batch, step>>
vars   == <<rec, arrival, ready, gate, result, worker, strays, expired,
            orphans, handle, killers, mgr, todo, batch, step, crashes>>

Terminal   == {"completed", "failed", "cancelled"}
SlotStates == {"starting", "running", "cancelling"}
States     == {"absent", "queued"} \cup SlotStates \cup Terminal

JobRecord == [state  : States,
              ident  : {"none", "pid", "full"},  \* pid, and identity + group
              cancel : BOOLEAN]                  \* cancellation_requested

WorkerStates == {"none", "booting", "waiting", "refusing", "executing",
                 "reported", "exited"}

StartSteps == {"spawn", "ready", "identify", "release", "publish", "expose",
               "cleanup", "cleanup-known"}

\* Every variable has its type, and a record that holds no slot names no process.
TypeOK ==
    /\ rec \in [Jobs -> JobRecord]
    /\ arrival \in [Jobs -> Nat]
    /\ ready \subseteq Jobs
    /\ gate \subseteq Jobs
    /\ result \in [Jobs -> {"none", "ok", "failed"}]
    /\ worker \in [Jobs -> WorkerStates]
    /\ strays \subseteq Jobs
    /\ expired \subseteq Jobs
    /\ orphans \subseteq Jobs
    /\ handle \subseteq Jobs
    /\ killers \subseteq Jobs
    /\ mgr \in {"down", "closed", "opening", "open"}
    /\ todo \subseteq Jobs
    /\ batch \subseteq Jobs
    /\ step \in StartSteps \cup {"idle", "unfinished"}
    /\ crashes \in 0..MaxCrashes
    /\ \A j \in Jobs : rec[j].ident # "none" => rec[j].state \in SlotStates

Init ==
    /\ rec = [j \in Jobs |-> [state |-> "absent", ident |-> "none", cancel |-> FALSE]]
    /\ arrival = [j \in Jobs |-> 0]
    /\ ready = {} /\ gate = {} /\ result = [j \in Jobs |-> "none"]
    /\ worker = [j \in Jobs |-> "none"]
    /\ strays = {} /\ expired = {} /\ orphans = {}
    /\ handle = {} /\ killers = {}
    /\ mgr = "down" /\ todo = {} /\ batch = {} /\ step = "idle"
    /\ crashes = 0

-----------------------------------------------------------------------------
(* Queries *)

Slots      == {j \in Jobs : rec[j].state \in SlotStates}
Queued     == {j \in Jobs : rec[j].state = "queued"}
LeaderAlive(j) == worker[j] \notin {"none", "exited"}
LockFree   == todo = {} /\ batch = {} /\ step = "idle"
CanServe   == mgr = "open" /\ LockFree
Launched(j) == rec[j].state \notin {"absent", "queued"}

\* Mutant: only the leader is looked at.
ContainmentOfLeader(j) ==
    {IF LeaderAlive(j) THEN "live" ELSE "dead"} \cup (IF "io" \in Faults THEN {"unknown"} ELSE {})

\* process_containment_is_alive: the leader with its recorded identity is
\* alive; nobody is; or the answer is an exception (an inspection failed, or
\* the leader is gone and its group is not).
Containment(j) ==
    {IF LeaderAlive(j) THEN "live" ELSE IF j \in strays THEN "unknown" ELSE "dead"}
        \cup (IF "io" \in Faults THEN {"unknown"} ELSE {})

\* terminate_process_tree refuses a live process whose identity it was not
\* given and a group whose leader is gone; otherwise SIGTERM, then SIGKILL.
TerminateOutcomes(j, known) ==
    IF ~LeaderAlive(j) THEN {IF j \in strays THEN "stray" ELSE "stopped"}
    ELSE IF ~known THEN {"alive"}
    ELSE {"stopped"} \cup (IF "unkillable" \in Faults THEN {"alive", "stray"} ELSE {})

ApplyTermination(j, out) ==
    /\ worker' = IF out = "alive" \/ worker[j] = "none" THEN worker
                 ELSE [worker EXCEPT ![j] = "exited"]
    /\ strays' = IF out = "stray" THEN strays \cup {j} ELSE strays \ {j}

\* Every record write that leaves a slot state clears pid, identity and group.
Settled(r, s) == [r EXCEPT !.state = s, !.ident = "none"]
Cancelling(r) == [r EXCEPT !.state = "cancelling", !.cancel = TRUE]

-----------------------------------------------------------------------------
(* The lock holder's pass: refresh the active records, then start a batch *)

\* Mutant: a job being cancelled no longer counts.
BatchesForgetCancelling(r, a) ==
    LET slots  == {j \in Jobs : r[j].state \in {"starting", "running"}}
        queued == {j \in Jobs : r[j].state = "queued"}
    IN  {b \in SUBSET queued :
            /\ b # {} => Cardinality(slots) + Cardinality(b) <= MaxConcurrent
            /\ b # queued => Cardinality(slots) + Cardinality(b) >= MaxConcurrent
            /\ \A i \in b, k \in queued \ b : a[i] < a[k]}

\* Mutant: any queued records fill the slots, not the oldest.
BatchesUnordered(r, a) ==
    LET slots  == {j \in Jobs : r[j].state \in SlotStates}
        queued == {j \in Jobs : r[j].state = "queued"}
    IN  {b \in SUBSET queued :
            /\ b # {} => Cardinality(slots) + Cardinality(b) <= MaxConcurrent
            /\ b # queued => Cardinality(slots) + Cardinality(b) >= MaxConcurrent}

\* Mutant: a failed job keeps its slot.
BatchesLeakSlots(r, a) ==
    LET slots  == {j \in Jobs : r[j].state \in SlotStates \cup {"failed"}}
        queued == {j \in Jobs : r[j].state = "queued"}
    IN  {b \in SUBSET queued :
            /\ b # {} => Cardinality(slots) + Cardinality(b) <= MaxConcurrent
            /\ b # queued => Cardinality(slots) + Cardinality(b) >= MaxConcurrent
            /\ \A i \in b, k \in queued \ b : a[i] < a[k]}

\* _start_queued_jobs: the oldest queued records, as many as slots are free.
Batches(r, a) ==
    LET slots  == {j \in Jobs : r[j].state \in SlotStates}
        queued == {j \in Jobs : r[j].state = "queued"}
    IN  {b \in SUBSET queued :
            /\ b # {} => Cardinality(slots) + Cardinality(b) <= MaxConcurrent
            /\ b # queued => Cardinality(slots) + Cardinality(b) >= MaxConcurrent
            /\ \A i \in b, k \in queued \ b : a[i] < a[k]}

PassDone ==
    mgr' = IF mgr = "opening" /\ todo' = {} /\ batch' = {} THEN "open" ELSE mgr

\* An exception leaves refresh or submit with the rest of the pass undone;
\* raised inside start() it also gives the manager lease back.
AbortPass ==
    /\ todo' = {} /\ batch' = {} /\ step' = "idle"
    /\ mgr' = IF mgr = "opening" THEN "closed" ELSE mgr

Io == "io" \in Faults

\* The record is dealt with and the records are r; after the last one the
\* queue is looked at.
NextRecord(j, r) ==
    /\ todo' = todo \ {j}
    /\ step' = "idle"
    /\ IF todo' = {} THEN batch' \in Batches(r, arrival) ELSE batch' = {}
    /\ PassDone

Head(j) == j \in batch /\ \A i \in batch : arrival[j] <= arrival[i]
At(j, s) == todo = {} /\ step = s /\ Head(j)

JobDone(j) == batch' = batch \ {j} /\ step' = "idle" /\ UNCHANGED todo /\ PassDone

Goto(s) == step' = s /\ UNCHANGED <<mgr, todo, batch>>

-----------------------------------------------------------------------------
(* submit *)

Submit(j) ==
    /\ CanServe /\ rec[j].state = "absent"
    /\ rec' = [rec EXCEPT ![j].state = "queued"]
    /\ arrival' = [arrival EXCEPT ![j] = 1 + Cardinality(Jobs \ {i \in Jobs : rec[i].state = "absent"})]
    /\ \/ batch' \in Batches(rec', arrival') /\ UNCHANGED <<mgr, todo, step>>
       \/ Io /\ AbortPass        \* job.json is durable, job-events.jsonl is not
    /\ UNCHANGED <<files, procs, handle, killers, crashes>>

-----------------------------------------------------------------------------
(* _start_job, one step per durable or visible effect *)

\* The STARTING record: written before the try block, so an error escapes.
BeginStart(j) ==
    /\ At(j, "idle")
    /\ \/ /\ rec' = [rec EXCEPT ![j].state = "starting", ![j].ident = "none"]
          /\ Goto("spawn")
       \/ /\ Io
          /\ \/ rec' = [rec EXCEPT ![j].state = "starting", ![j].ident = "none"]
             \/ UNCHANGED rec
          /\ AbortPass
    /\ UNCHANGED <<arrival, files, procs, handle, killers, crashes>>

\* No authorization, evidence or result of an earlier launch may exist.
Spawn(j) ==
    /\ At(j, "spawn")
    /\ \/ /\ j \notin gate /\ j \notin ready /\ result[j] = "none"
          /\ worker' = [worker EXCEPT ![j] = "booting"]
          /\ handle' = handle \cup {j}
          /\ Goto("ready")
       \/ /\ Io \/ j \in gate \/ j \in ready \/ result[j] # "none"
          /\ Goto("cleanup")
          /\ UNCHANGED <<worker, handle>>
    /\ UNCHANGED <<rec, arrival, files, strays, expired, orphans, killers, crashes>>

\* _wait_for_worker_ready: a live worker's ready record, or an exception when
\* it exited or 30 seconds passed without one.
AwaitReady(j) ==
    /\ At(j, "ready")
    /\ \/ j \in ready /\ "live" \in Containment(j) /\ Goto("identify")
       \/ (j \notin ready \/ Containment(j) # {"live"}) /\ Goto("cleanup")
    /\ UNCHANGED <<rec, arrival, files, procs, handle, killers, crashes>>

\* The pid, identity and group become durable while the record is STARTING.
BindIdentity(j) ==
    /\ At(j, "identify")
    /\ \/ rec' = [rec EXCEPT ![j].ident = "full"] /\ Goto("release")
       \/ /\ Io
          /\ rec' \in {rec, [rec EXCEPT ![j].ident = "full"]}
          /\ Goto("cleanup-known")
    /\ UNCHANGED <<arrival, files, procs, handle, killers, crashes>>

\* The liveness recheck, then the RUNNING record that binds the gate's hash.
RecordRunning(j) ==
    /\ At(j, "release")
    /\ \/ /\ "live" \in Containment(j)
          /\ rec' = [rec EXCEPT ![j].state = "running"]
          /\ \/ Goto("publish")
             \/ Io /\ Goto("cleanup-known")
       \/ Containment(j) # {"live"} /\ UNCHANGED rec /\ Goto("cleanup-known")
    /\ UNCHANGED <<arrival, files, procs, handle, killers, crashes>>

\* _publish_launch_gate: too late, or go on to write the gate.
CheckDeadline(j) ==
    /\ At(j, "publish")
    /\ Goto(IF j \in expired THEN "cleanup-known" ELSE "expose")
    /\ UNCHANGED <<rec, arrival, files, procs, handle, killers, crashes>>

\* The no-replace write of launch-gate.json.  Its parent fsync or the reread
\* after it may raise although a worker can already read the gate.
ExposeGate(j) ==
    /\ At(j, "expose")
    /\ \/ j \notin gate /\ gate' = gate \cup {j} /\ JobDone(j)
       \/ /\ Io \/ j \in gate
          /\ gate' \in {gate, gate \cup {j}}
          /\ Goto("cleanup-known")
    /\ UNCHANGED <<rec, arrival, ready, result, procs, handle, killers, crashes>>

\* Mutant: the slot is freed without looking at the process.
CleanupStartBlindly(j) ==
    /\ At(j, "cleanup") \/ At(j, "cleanup-known")
    /\ rec' = [rec EXCEPT ![j] = Settled(@, "failed")] /\ JobDone(j)
    /\ UNCHANGED <<arrival, files, procs, handle, killers, crashes>>

\* The except branch: terminate, kill a worker of unknown identity through its
\* Popen, reap it, and free the slot when the leader is gone.
CleanupStart(j) ==
    /\ At(j, "cleanup") \/ At(j, "cleanup-known")
    /\ \E out \in TerminateOutcomes(j, step = "cleanup-known"), stuck \in BOOLEAN :
         LET left  == IF step = "cleanup" /\ ~stuck /\ out = "alive" THEN "stopped" ELSE out
             ident == IF rec[j].ident # "none" THEN rec[j].ident
                      ELSE IF step = "cleanup-known" THEN "full" ELSE "pid"
             ended == [rec EXCEPT ![j] = IF left = "alive"
                                      THEN [Cancelling(@) EXCEPT !.ident = ident]
                                      ELSE Settled(@, "failed")]
         IN /\ stuck => "unkillable" \in Faults
            /\ ApplyTermination(j, left)
            /\ handle' = IF left = "alive" THEN handle ELSE handle \ {j}
            /\ \/ rec' = ended /\ JobDone(j)
               \/ Io /\ rec' \in {rec, ended} /\ AbortPass
    /\ UNCHANGED <<arrival, files, expired, orphans, killers, crashes>>

-----------------------------------------------------------------------------
(* refresh: reconcile one record after the other, then start a batch *)

Refresh ==
    /\ CanServe
    /\ todo' = Slots
    /\ IF Slots = {} THEN batch' \in Batches(rec, arrival) ELSE batch' = {}
    /\ UNCHANGED <<rec, arrival, files, procs, handle, killers, mgr, step, crashes>>

\* Evidence that contradicts STARTING: only a worker known to be dead frees the
\* slot; otherwise the record stays as it is, for somebody to look at.
ProtocolFailure(r, seen) ==
    IF seen = "dead" /\ r.ident = "full" THEN Settled(r, "failed") ELSE r

\* What _reconcile_starting makes of a record the launching manager left in
\* STARTING, for one answer of the containment inspection: it never spawns
\* and never publishes a gate.  A slip is an exception out of _finish_job,
\* which turns the outcome into FAILED.
StartingVerdict(j, seen, slip) ==
    LET r     == rec[j]
        bound == [r EXCEPT !.ident = "full"]
    IN  IF j \in gate \/ (j \notin ready /\ r.ident # "none")
        THEN ProtocolFailure(IF j \in ready THEN bound ELSE r, seen)
        ELSE IF j \in ready /\ result[j] # "none"
        THEN IF seen = "live" THEN r
             ELSE IF seen = "unknown" /\ j \notin handle THEN bound
             ELSE Settled(r, IF r.cancel /\ result[j] = "failed" /\ ~slip
                             THEN "cancelled" ELSE "failed")
        ELSE IF j \in ready
        THEN IF seen = "live" /\ r.cancel THEN Cancelling(bound)   \* and a thread, see below
             ELSE IF seen = "dead" THEN Settled(r, "failed") ELSE bound
        ELSE IF j \notin expired /\ (j \notin orphans \/ seen = "unknown") THEN r
        ELSE Settled(r, "failed")

\* The Popen is forgotten with a settled record; CANCELLING starts a thread.
PopenAfter(j, r)  == IF r.state \in Terminal THEN handle \ {j} ELSE handle
ThreadAfter(j, r) == IF r.state = "cancelling" THEN killers \cup {j} ELSE killers

ReconcileStarting(j) ==
    /\ j \in todo /\ step = "idle" /\ rec[j].state = "starting"
    /\ \E seen \in Containment(j), slip \in {FALSE, Io} :
         LET r == StartingVerdict(j, seen, slip)
         IN /\ handle' = PopenAfter(j, r)
            /\ \/ /\ rec' = [rec EXCEPT ![j] = r]
                  /\ killers' = ThreadAfter(j, r)
                  /\ NextRecord(j, rec')
               \/ /\ Io /\ rec' \in {rec, [rec EXCEPT ![j] = r]}
                  /\ UNCHANGED killers /\ AbortPass
    /\ UNCHANGED <<arrival, files, procs, crashes>>

\* The parts of refresh that leave a RUNNING or CANCELLING record alone: its
\* worker is alive, or nothing proves that it is not.
StillRunning(j) ==
    /\ j \in todo /\ step = "idle" /\ rec[j].state \in {"running", "cancelling"}
    /\ IF rec[j].ident = "full" THEN Containment(j) # {"dead"} ELSE LeaderAlive(j) \/ Io
    /\ NextRecord(j, rec)
    /\ UNCHANGED <<rec, arrival, files, procs, handle, killers, crashes>>

\* _finish_job: what the exited worker left behind decides the outcome.
Outcome(j) ==
    IF rec[j].state = "cancelling" \/ rec[j].cancel THEN "cancelled"
    ELSE IF result[j] = "ok" THEN "completed" ELSE "failed"

\* Mutant: a worker without a Popen in this process counts as gone.
FinishUnknownJob(j) ==
    /\ j \in todo /\ step = "idle" /\ rec[j].state \in {"running", "cancelling"}
    /\ j \notin handle
    /\ rec' = [rec EXCEPT ![j] = Settled(@, Outcome(j))] /\ NextRecord(j, rec')
    /\ UNCHANGED <<arrival, files, procs, handle, killers, crashes>>

FinishJob(j) ==
    /\ j \in todo /\ step = "idle" /\ rec[j].state \in {"running", "cancelling"}
    /\ IF rec[j].ident = "full" THEN "dead" \in Containment(j) ELSE ~LeaderAlive(j)
    /\ handle' = handle \ {j}
    /\ \/ rec' = [rec EXCEPT ![j] = Settled(@, Outcome(j))] /\ NextRecord(j, rec')
       \/ /\ Io   \* the outcome is written, its event is not, and an exception follows
          /\ rec' = [rec EXCEPT ![j] = Settled(@, Outcome(j))]
          /\ Goto("unfinished")
       \/ /\ Io   \* the result or the workspace is not verified, or the write fails once
          /\ rec' = [rec EXCEPT ![j] = Settled(@, "failed")]
          /\ NextRecord(j, rec') \/ AbortPass
       \/ Io /\ UNCHANGED rec /\ AbortPass
    /\ UNCHANGED <<arrival, files, procs, killers, crashes>>

\* refresh catches whatever _finish_job raises and writes FAILED over it; if the
\* event of this record cannot be appended either, refresh itself raises.
FinishReconciliationFailure(j) ==
    /\ j \in todo /\ step = "unfinished" /\ rec[j].state \in Terminal
    /\ \/ /\ rec' = [rec EXCEPT ![j].state = "failed"]
          /\ NextRecord(j, rec') \/ (Io /\ AbortPass)
       \/ Io /\ UNCHANGED rec /\ AbortPass
    /\ UNCHANGED <<arrival, files, procs, handle, killers, crashes>>

-----------------------------------------------------------------------------
(* cancel and the termination thread it starts *)

\* The record is durable before the thread exists.
RequestTermination(j, r) ==
    /\ rec' = [rec EXCEPT ![j] = r]
    /\ \/ killers' = IF r.ident = "full" THEN killers \cup {j} ELSE killers
       \/ Io /\ UNCHANGED killers

CancelQueued(j) ==
    /\ CanServe /\ rec[j].state = "queued"
    /\ rec' = [rec EXCEPT ![j].state = "cancelled", ![j].cancel = TRUE]
    /\ UNCHANGED <<arrival, files, procs, handle, killers, pass, crashes>>

CancelStarting(j) ==
    /\ CanServe /\ rec[j].state = "starting"
    /\ \E seen \in Containment(j), slip \in {FALSE, Io} :
         LET r == StartingVerdict(j, seen, slip)
         IN /\ handle' = PopenAfter(j, r)
            /\ \/ /\ r.state # "starting"
                  /\ rec' = [rec EXCEPT ![j] = r] /\ killers' = ThreadAfter(j, r)
               \/ /\ r.state = "starting" /\ r.ident = "full"
                  /\ RequestTermination(j, Cancelling(r))
               \/ /\ r.state = "starting" /\ r.ident # "full"   \* nothing to signal yet
                  /\ rec' = [rec EXCEPT ![j].cancel = TRUE] /\ UNCHANGED killers
               \/ /\ Io /\ rec' \in {rec, [rec EXCEPT ![j] = r]}      \* an exception
                  /\ UNCHANGED killers
    /\ UNCHANGED <<arrival, files, procs, pass, crashes>>

\* Mutant: a finished job may be cancelled too.
CancelAny(j) ==
    /\ CanServe /\ Launched(j) /\ rec[j].state # "starting"
    /\ RequestTermination(j, Cancelling(rec[j]))
    /\ UNCHANGED <<arrival, files, procs, handle, pass, crashes>>

CancelActive(j) ==
    /\ CanServe /\ rec[j].state \in {"running", "cancelling"}
    /\ RequestTermination(j, Cancelling(rec[j]))
    /\ UNCHANGED <<arrival, files, procs, handle, pass, crashes>>

\* Mutant: the recorded identity is not handed to terminate_process_tree.
TerminateAnonymously(j) ==
    /\ j \in killers /\ LockFree
    /\ killers' = killers \ {j}
    /\ \E out \in TerminateOutcomes(j, FALSE) : ApplyTermination(j, out)
    /\ UNCHANGED <<rec, arrival, files, expired, orphans, handle, pass, crashes>>

\* _terminate_process: a thread that finds the manager closed does nothing.
TerminateProcess(j) ==
    /\ j \in killers /\ LockFree
    /\ killers' = killers \ {j}
    /\ IF mgr = "open"
       THEN \E out \in TerminateOutcomes(j, TRUE) : ApplyTermination(j, out)
       ELSE UNCHANGED <<worker, strays>>
    /\ UNCHANGED <<rec, arrival, files, expired, orphans, handle, pass, crashes>>

-----------------------------------------------------------------------------
(* The manager process *)

\* start(): the lease, then a refresh that must succeed.
Start ==
    /\ mgr \in {"down", "closed"} /\ LockFree
    /\ todo' = Slots
    /\ IF Slots = {} THEN batch' \in Batches(rec, arrival) ELSE batch' = {}
    /\ mgr' = IF todo' = {} /\ batch' = {} THEN "open" ELSE "opening"
    /\ UNCHANGED <<rec, arrival, files, procs, handle, killers, step, crashes>>

Close ==
    /\ CanServe /\ mgr' = "closed"
    /\ UNCHANGED <<rec, arrival, files, procs, handle, killers, todo, batch, step, crashes>>

Crash ==
    /\ mgr # "down" /\ crashes < MaxCrashes
    /\ crashes' = crashes + 1
    /\ mgr' = "down" /\ todo' = {} /\ batch' = {} /\ step' = "idle"
    /\ handle' = {} /\ killers' = {}
    /\ orphans' = {j \in Jobs : Launched(j)}
    /\ UNCHANGED <<rec, arrival, files, worker, strays, expired>>

-----------------------------------------------------------------------------
(* The gated worker *)

Become(j, s) == worker' = [worker EXCEPT ![j] = s]

\* Containment is established and worker-ready.json written before any wait.
PublishReady(j) ==
    /\ worker[j] = "booting" /\ Become(j, "waiting")
    /\ ready' = ready \cup {j}
    /\ UNCHANGED <<rec, arrival, gate, result, strays, expired, orphans, handle, killers, pass, crashes>>

\* Mutant: the worker does not wait for its gate.
SkipGate(j) ==
    /\ worker[j] = "waiting" /\ Become(j, "executing")
    /\ UNCHANGED <<rec, arrival, files, strays, expired, orphans, handle, killers, pass, crashes>>

\* The gate is looked at before the parent and the clock are.
SeeGate(j) ==
    /\ worker[j] = "waiting" /\ j \in gate /\ Become(j, "executing")
    /\ UNCHANGED <<rec, arrival, files, strays, expired, orphans, handle, killers, pass, crashes>>

RefuseToWait(j) ==
    /\ worker[j] = "waiting" /\ j \notin gate /\ j \in orphans \cup expired
    /\ Become(j, "refusing")
    /\ UNCHANGED <<rec, arrival, files, strays, expired, orphans, handle, killers, pass, crashes>>

\* A gate published from here on finds nobody waiting.
ReportRefusal(j) ==
    /\ worker[j] = "refusing" /\ Become(j, "reported")
    /\ result' = [result EXCEPT ![j] = "failed"]
    /\ UNCHANGED <<rec, arrival, ready, gate, strays, expired, orphans, handle, killers, pass, crashes>>

ReportExecution(j) ==
    /\ worker[j] = "executing" /\ Become(j, "reported")
    /\ \E r \in {"ok", "failed"} : result' = [result EXCEPT ![j] = r]
    /\ UNCHANGED <<rec, arrival, ready, gate, strays, expired, orphans, handle, killers, pass, crashes>>

WorkerExits(j) ==
    /\ worker[j] = "reported" /\ Become(j, "exited")
    /\ UNCHANGED <<rec, arrival, files, strays, expired, orphans, handle, killers, pass, crashes>>

\* It dies without a result, and may leave members of its group behind.
WorkerDies(j) ==
    /\ LeaderAlive(j) /\ Become(j, "exited")
    /\ \/ UNCHANGED strays
       \/ "stray" \in Faults /\ worker[j] = "executing" /\ strays' = strays \cup {j}
    /\ UNCHANGED <<rec, arrival, files, expired, orphans, handle, killers, pass, crashes>>

StrayExits(j) ==
    /\ j \in strays /\ ~LeaderAlive(j) /\ strays' = strays \ {j}
    /\ UNCHANGED <<rec, arrival, files, worker, expired, orphans, handle, killers, pass, crashes>>

DeadlinePasses(j) ==
    /\ Launched(j) /\ j \notin expired /\ expired' = expired \cup {j}
    /\ UNCHANGED <<rec, arrival, files, worker, strays, orphans, handle, killers, pass, crashes>>

-----------------------------------------------------------------------------

StartJob(j) ==
    \/ BeginStart(j) \/ Spawn(j) \/ AwaitReady(j) \/ BindIdentity(j)
    \/ RecordRunning(j) \/ CheckDeadline(j) \/ ExposeGate(j) \/ CleanupStart(j)

Reconcile(j) ==
    \/ ReconcileStarting(j) \/ StillRunning(j) \/ FinishJob(j)
    \/ FinishReconciliationFailure(j)

Cancel(j) == CancelQueued(j) \/ CancelStarting(j) \/ CancelActive(j)

Worker(j) ==
    \/ PublishReady(j) \/ SeeGate(j) \/ RefuseToWait(j) \/ ReportRefusal(j)
    \/ ReportExecution(j) \/ WorkerExits(j) \/ WorkerDies(j) \/ StrayExits(j)

Next ==
    \/ Refresh \/ Start \/ Close \/ Crash
    \/ \E j \in Jobs : \/ Submit(j) \/ StartJob(j) \/ Reconcile(j) \/ Cancel(j)
                        \/ TerminateProcess(j) \/ Worker(j) \/ DeadlinePasses(j)

Spec == Init /\ [][Next]_vars

\* Scheduling: the lock holder and the workers run, the monitor thread polls,
\* the clock advances, an operator restarts a stopped manager, and a thread
\* waiting for the lock gets it in the end.
ManagerFairness ==
    /\ WF_vars(Refresh) /\ WF_vars(Start)
    /\ \A j \in Jobs : /\ WF_vars(StartJob(j)) /\ WF_vars(Reconcile(j))
                       /\ SF_vars(TerminateProcess(j)) /\ WF_vars(DeadlinePasses(j))

GateFairness ==
    \A j \in Jobs : /\ WF_vars(PublishReady(j)) /\ WF_vars(SeeGate(j))
                   /\ WF_vars(RefuseToWait(j)) /\ WF_vars(ReportRefusal(j))
                   /\ WF_vars(WorkerExits(j)) /\ WF_vars(StrayExits(j))

\* A workflow may run for ever: WorkflowsEnd is assumed only where it is named.
HangSpec == Spec /\ ManagerFairness /\ GateFairness
WorkflowsEnd == \A j \in Jobs : WF_vars(ReportExecution(j))

-----------------------------------------------------------------------------
(* Safety *)

\* A workflow executes only for a record that is RUNNING or CANCELLING, holds
\* a slot and names the process: no crash, failed start or cancellation leaves
\* an executing worker the manager has written off.
WorkflowHoldsSlot ==
    \A j \in Jobs : worker[j] = "executing" =>
        /\ rec[j].state \in {"running", "cancelling"}
        /\ rec[j].ident = "full"

\* Never more slots in use, counting the launches under way, than
\* max_concurrent_jobs, although a batch is sized before its jobs start.
SlotBound == Cardinality(Slots) <= MaxConcurrent

\* A worker still at the gate of a job that has been written off will never be
\* let through, however late it looks.
NoLateRelease ==
    \A j \in Jobs : rec[j].state \in Terminal /\ worker[j] = "waiting" => j \notin gate

\* COMPLETED means a result with ok, from a containment that is gone, of a job
\* nobody asked to cancel.
CompletedIsGenuine ==
    \A j \in Jobs : rec[j].state = "completed" =>
        /\ result[j] = "ok" /\ ~LeaderAlive(j) /\ j \notin strays
        /\ ~rec[j].cancel

\* A queued job is never overtaken by a younger one.
StartsInOrder ==
    [][\A i, j \in Jobs :
          /\ rec[i].state = "queued" /\ rec[j].state = "queued"
          /\ arrival[i] < arrival[j]
          => rec'[j].state # "starting"]_vars

\* refresh and cancel free the slot of a released workflow only when neither
\* its process nor its process group is left.
ReconciliationFreesDeadContainment ==
    [][\A j \in Jobs :
          /\ j \in gate /\ j \in Slots /\ rec'[j].state \in Terminal
          /\ step \notin {"cleanup", "cleanup-known"}
          => ~LeaderAlive(j) /\ j \notin strays]_vars

\* Once a job has an outcome no later refresh, cancel, crash or late worker
\* changes it.
OutcomeIsFinal ==
    [][\A j \in Jobs : rec[j].state \in Terminal => rec'[j] = rec[j]]_vars

\* docs/architecture.md: a "persistent completed/failed/cancelled state"; docs/web.md:
\* a cancellation "records cancelling followed by cancelled".  A job whose record
\* is CANCELLED stays cancelled, also when the event of that record is lost.
CancelledStaysCancelled ==
    [][\A j \in Jobs : rec[j].state = "cancelled" => rec'[j].state = "cancelled"]_vars

(* The inductive invariant behind them, proved in WorkerLaunchProof *)

Submitted == {j \in Jobs : rec[j].state # "absent"}

\* created_at orders the submitted jobs.
ArrivalOrder ==
    /\ \A j \in Submitted : arrival[j] <= Cardinality(Submitted)
    /\ \A i, j \in Submitted : arrival[i] = arrival[j] => i = j

\* The pass is refreshing or starting, and the record of the job at the head
\* of the batch says how far its launch has come.
PassShape ==
    /\ todo # {} => batch = {} /\ step \in {"idle", "unfinished"}
    /\ step = "unfinished" => todo # {}
    /\ step \in StartSteps => \E j \in batch : Head(j)
    /\ \A j \in batch : step = "idle" \/ ~Head(j) => rec[j].state = "queued"
    /\ \A j \in batch : Head(j) =>
          /\ step \in {"spawn", "ready", "identify", "release"} => rec[j].state = "starting"
          /\ step = "spawn" => worker[j] = "none"
          /\ step \in {"release", "publish", "expose"} => rec[j].ident = "full"
          /\ step \in {"publish", "expose"} => rec[j].state = "running"
          /\ step \in {"cleanup", "cleanup-known"} => rec[j].state \in {"starting", "running"}

\* What the files say about the record and about the worker.
Evidence ==
    \A j \in Jobs :
        /\ ~Launched(j) => worker[j] = "none"
        /\ worker[j] = "none" => result[j] = "none"
        /\ result[j] # "none" => worker[j] \in {"reported", "exited"}
        /\ j \in gate => Launched(j) /\ rec[j].state # "starting"
        /\ rec[j].state = "running" \/ (j \in gate /\ rec[j].state = "cancelling")
              => rec[j].ident = "full"
        /\ worker[j] = "executing" => j \in gate
        /\ j \in gate /\ worker[j] \in {"booting", "waiting", "executing"}
              => rec[j].state \in {"running", "cancelling"}

\* The jobs about to start already count against the limit.
Reserved == Cardinality(Slots \cup batch) <= MaxConcurrent

\* No queued job older than one about to start is left out of the batch.
OldestInBatch ==
    \A j \in batch, i \in Queued : arrival[i] < arrival[j] => i \in batch

\* Every reachable state satisfies the conjunction.
Inductive ==
    /\ TypeOK /\ ArrivalOrder /\ PassShape /\ OldestInBatch
    /\ Evidence /\ Reserved /\ CompletedIsGenuine

(* Liveness *)

\* If workflows end, every submitted job gets an outcome, across a crash at any
\* point.
EveryJobSettles ==
    WorkflowsEnd => \A j \in Jobs : rec[j].state = "queued" ~> rec[j].state \in Terminal

\* A termination thread ends its job even when the workflow would not end by
\* itself, unless the manager stops before the thread has the lock.
CancelSettles ==
    \A j \in Jobs : j \in killers ~> rec[j].state \in Terminal \/ mgr \in {"closed", "down"}

\* docs/web.md: cancellation sends a termination signal and records cancelling
\* followed by cancelled.
CancellingEndsCancelled ==
    \A j \in Jobs : rec[j].state = "cancelling" ~> rec[j].state = "cancelled"

(* Refinement *)

PhaseOf(r) == IF r.state = "queued" THEN "waiting"
              ELSE IF r.state \in SlotStates THEN "admitted" ELSE r.state
RunOf(w)   == IF w \in {"none", "booting", "waiting"} THEN "idle"
              ELSE IF w = "executing" THEN "running" ELSE "over"

Phase    == [j \in Jobs |-> PhaseOf(rec[j])]
Run      == [j \in Jobs |-> RunOf(worker[j])]
Produced == {j \in Jobs : result[j] = "ok"}

Service == INSTANCE WorkflowService WITH phase <- Phase, run <- Run, produced <- Produced

\* The protocol implements the service.
ImplementsService == Service!Spec
=============================================================================
