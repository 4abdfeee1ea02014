------------------------------ MODULE JobProgress ------------------------------
(***************************************************************************)
(* What clients are told of one job (web/jobs.py, web/api.py): the worker  *)
(* rewrites its status file, the manager takes it over into the record,    *)
(* writes the record first and then appends an event to the log, and       *)
(* stream_events reads the log without the manager's lock, asks for the    *)
(* record with it and sends what is new.  Writes may raise, the log may be *)
(* full, the manager may die, and clients come back for the rest.          *)
(***************************************************************************)
EXTENDS Naturals, Sequences

CONSTANTS
    StreamClients,     \* readers of the job's event stream
    StageCount,        \* stages the workflow is expected to make
    MaxEvents,         \* bound: events the log has room for
    MaxProgressFaults  \* bound: writes that raise, deaths of the manager

ASSUME ProgressAssumption ==
    StageCount \in Nat /\ MaxEvents \in Nat \ {0} /\ MaxProgressFaults \in Nat

VARIABLES
    statusReady,  \* stages the workspace's status file calls ready
    job,          \* the durable record: its state and the ready stages
    log,          \* the events of events.jsonl, oldest first
    holder,       \* what the manager, holding its lock, does next
    stream,       \* each client's stream: its next step, its last sequence
                  \* number, whether its last reading brought anything
    told,         \* the events each client was sent, over all its streams
    progressFaults

jobVars      == <<statusReady, job, log, holder>>
streamVars   == <<stream, told>>
progressVars == <<jobVars, streamVars, progressFaults>>

Outcomes == {"completed", "failed", "cancelled"}
JobEvent == [state : {"queued", "running"} \cup Outcomes, ready : 0..StageCount]
Sequence == 0..MaxEvents

JobProgressTypeOK ==
    /\ statusReady \in 0..StageCount /\ job \in JobEvent
    /\ log \in Seq(JobEvent) /\ Len(log) \in Sequence
    /\ holder \in {"free", "event", "outcome_event", "reconcile"}
    /\ stream \in [StreamClients -> [next : {"closed", "read", "check", "ended"}, after : Sequence,
                               news : BOOLEAN]]
    /\ told \in [StreamClients -> Seq(JobEvent)]
    /\ progressFaults \in 0..MaxProgressFaults

\* A workspace that is taken up again has the status of an earlier run.
ProgressInit ==
    /\ statusReady \in 0..StageCount
    /\ job = [state |-> "queued", ready |-> 0] /\ log = <<job>> /\ holder = "free"
    /\ stream = [c \in StreamClients |-> [next |-> "closed", after |-> 0, news |-> FALSE]]
    /\ told = [c \in StreamClients |-> <<>>]
    /\ progressFaults = 0

ProgressFault == progressFaults < MaxProgressFaults /\ progressFaults' = progressFaults + 1

-----------------------------------------------------------------------------
(* The worker and the manager *)

\* A run starts its status over, then adds stage by stage.
WriteStatus ==
    /\ job.state = "running"
    /\ statusReady' \in {0, statusReady + 1} \ {StageCount + 1}
    /\ UNCHANGED <<job, log, holder, streamVars, progressFaults>>

\* The record is replaced; its event comes next.  The write may raise before or
\* after it took effect, and nothing is appended then.
WriteRecord(record) ==
    \/ job' = record /\ holder' = "event" /\ UNCHANGED progressFaults
    \/ ProgressFault /\ job' \in {job, record} /\ UNCHANGED holder

RunJob ==
    /\ holder = "free" /\ job.state = "queued"
    /\ WriteRecord([job EXCEPT !.state = "running"])
    /\ UNCHANGED <<statusReady, log, streamVars>>

\* Nothing is written when nothing changed.
StatusUpdate ==
    /\ holder = "free" /\ job.state = "running" /\ job.ready # statusReady
    /\ WriteRecord([job EXCEPT !.ready = statusReady])
    /\ UNCHANGED <<statusReady, log, streamVars>>

\* _finish_job; a summary tells the stages of a completed workflow.  refresh
\* catches whatever it raises.
EndJob(outcome) ==
    /\ holder = "free" /\ job.state = "running"
    /\ LET record == [state |-> outcome,
                      ready |-> IF outcome = "completed" THEN StageCount ELSE job.ready] IN
       \/ job' = record /\ holder' = "outcome_event" /\ UNCHANGED progressFaults
       \/ ProgressFault /\ job' \in {job, record} /\ holder' = "reconcile"
    /\ UNCHANGED <<statusReady, log, streamVars>>

\* Any other exception ends the pass.
AfterEvent(raised) ==
    holder' = IF raised /\ holder = "outcome_event" THEN "reconcile" ELSE "free"

\* Mutant: the log is not read before it is written.
AppendAfresh ==
    /\ holder \in {"event", "outcome_event"}
    /\ log' = <<job>> /\ AfterEvent(FALSE)
    /\ UNCHANGED <<statusReady, job, streamVars, progressFaults>>

\* The log is read and written again with one event more; it has a bounded size.
AppendEvent ==
    /\ holder \in {"event", "outcome_event"}
    /\ \/ /\ Len(log) < MaxEvents /\ log' = Append(log, job)
          /\ \/ AfterEvent(FALSE) /\ UNCHANGED progressFaults
             \/ ProgressFault /\ AfterEvent(TRUE)
       \/ Len(log) = MaxEvents /\ AfterEvent(TRUE) /\ UNCHANGED <<log, progressFaults>>
       \/ ProgressFault /\ AfterEvent(TRUE) /\ UNCHANGED log
    /\ UNCHANGED <<statusReady, job, streamVars>>

\* What was the outcome is FAILED from now on.
ReconciliationFailure ==
    /\ holder = "reconcile"
    /\ \/ job' = [job EXCEPT !.state = "failed"] /\ holder' = "event" /\ UNCHANGED progressFaults
       \/ ProgressFault /\ job' \in {job, [job EXCEPT !.state = "failed"]} /\ holder' = "free"
    /\ UNCHANGED <<statusReady, log, streamVars>>

\* The manager dies and starts again; every stream is cut off.
ManagerRestarts ==
    /\ ProgressFault /\ holder' = "free"
    /\ stream' = [c \in StreamClients |-> [stream[c] EXCEPT !.next = "closed"]]
    /\ UNCHANGED <<statusReady, job, log, told>>

-----------------------------------------------------------------------------
(* stream_events *)

\* A client asks for what came after the last event it has.
Connect(c) ==
    /\ stream[c].next = "closed"
    /\ stream' = [stream EXCEPT ![c] = [next |-> "read", after |-> Len(told[c]), news |-> FALSE]]
    /\ UNCHANGED <<jobVars, told, progressFaults>>

\* The connection is lost.
Disconnect(c) ==
    /\ stream[c].next \in {"read", "check"} /\ ProgressFault
    /\ stream' = [stream EXCEPT ![c].next = "closed"]
    /\ UNCHANGED <<jobVars, told>>

\* read_events: the events after a sequence number; the log is replaced as a whole.
EventsAfter(n) == SubSeq(log, n + 1, Len(log))

\* The number of the last event sent is the next request's.
SendEvents(c) ==
    /\ stream[c].next = "read"
    /\ LET events == EventsAfter(stream[c].after) IN
       /\ told' = [told EXCEPT ![c] = @ \o events]
       /\ stream' = [stream EXCEPT ![c] = [next |-> "check", after |-> @.after + Len(events),
                                           news |-> events # <<>>]]
    /\ UNCHANGED <<jobVars, progressFaults>>

\* get takes the lock, so that a reconciliation that is on its way comes first.
CheckJob(c) ==
    /\ stream[c].next = "check" /\ holder = "free"
    /\ stream' = [stream EXCEPT ![c].next =
                     IF job.state \in Outcomes /\ ~ stream[c].news THEN "ended" ELSE "read"]
    /\ UNCHANGED <<jobVars, told, progressFaults>>

JobProgressNext ==
    \/ WriteStatus \/ RunJob \/ StatusUpdate \/ \E o \in Outcomes : EndJob(o)
    \/ AppendEvent \/ ReconciliationFailure \/ ManagerRestarts
    \/ \E c \in StreamClients : Connect(c) \/ Disconnect(c) \/ SendEvents(c) \/ CheckJob(c)
JobProgressSpec == ProgressInit /\ [][JobProgressNext]_progressVars

-----------------------------------------------------------------------------
(* Properties *)

\* Over all its streams a client was sent a beginning of the log, every event once
\* and in order, whatever raised, died or was appended meanwhile; a stream ends
\* only when the job has; and after an outcome the log tells no other than FAILED.
\* (A stream may end without the last events: they are read before the record is.)
StreamTellsTheJob ==
    /\ \A c \in StreamClients :
          /\ told[c] = SubSeq(log, 1, Len(told[c]))
          /\ stream[c].next = "ended" => job.state \in Outcomes
    /\ \A i, k \in DOMAIN log :
          i < k /\ log[i].state \in Outcomes => log[k].state = "failed"

=============================================================================
