--------------------------- MODULE ContainedCommand ---------------------------
(***************************************************************************)
(* run_contained_command (process_containment.py, POSIX): a caller runs a  *)
(* slicer under a supervisor that leads a process group.  A watcher in the *)
(* group reads a pipe only the caller can write to, and kills the group    *)
(* when that pipe closes.  The caller waits until the captured streams     *)
(* close or the time is up, and kills the group either way; it may die.    *)
(***************************************************************************)
EXTENDS Naturals, FiniteSets

CONSTANT Children    \* processes the command may leave behind

ASSUME ChildrenAssumption ==
    Children \cap {"supervisor", "watcher", "command"} = {}

VARIABLES
    caller,      \* what the caller does, or how the call ended
    supervisor,  \* what the supervisor does next
    group,       \* live processes of the supervisor's group
    outside,     \* live descendants that left the group
    streams,     \* processes that hold the captured streams
    doomed,      \* processes that were sent SIGKILL
    watching     \* the watcher is reading the pipe

commandVars == <<caller, supervisor, group, outside, streams, doomed, watching>>

Processes == {"supervisor", "watcher", "command"} \cup Children
Alive     == group \cup outside
CallPc    == {"idle", "waiting", "draining", "returned", "timed_out", "unsettled",
              "interrupted", "dead"}

ContainedCommandTypeOK ==
    /\ caller \in CallPc
    /\ supervisor \in {"none", "starting", "watched", "running", "ended"}
    /\ group \subseteq Processes /\ outside \subseteq Children /\ group \cap outside = {}
    /\ streams \subseteq Alive /\ doomed \subseteq Processes
    /\ watching \in BOOLEAN

CommandInit ==
    /\ caller = "idle" /\ supervisor = "none" /\ group = {} /\ outside = {}
    /\ streams = {} /\ doomed = {} /\ watching = FALSE

\* The caller holds the only write end of the pipe, until the call has ended.
PipeOpen == caller \in {"waiting", "draining"}

\* killpg(SIGKILL): every process of the group, and none that left it.
KillGroup == doomed' = doomed \cup group

Launch ==
    /\ caller = "idle" /\ caller' = "waiting"
    /\ supervisor' = "starting"
    /\ group' = {"supervisor"} /\ streams' = {"supervisor"}
    /\ UNCHANGED <<outside, doomed, watching>>

\* The watcher is forked before the command; it closes its streams.
ForkWatcher ==
    /\ supervisor = "starting" /\ "supervisor" \in group \ doomed
    /\ \/ /\ supervisor' = "watched"
          /\ group' = group \cup {"watcher"} /\ streams' = streams \cup {"watcher"}
       \/ /\ supervisor' = "ended"
          /\ group' = group \ {"supervisor"} /\ streams' = streams \ {"supervisor"}
    /\ UNCHANGED <<caller, outside, doomed, watching>>

Watch ==
    /\ "watcher" \in group \ doomed /\ ~ watching
    /\ watching' = TRUE /\ streams' = streams \ {"watcher"}
    /\ UNCHANGED <<caller, supervisor, group, outside, doomed>>

\* Mutant: the end of the pipe ends the watcher alone.
WatcherLeaves ==
    /\ "watcher" \in group \ doomed /\ watching /\ ~ PipeOpen
    /\ doomed' = doomed \cup {"watcher"}
    /\ UNCHANGED <<caller, supervisor, group, outside, streams, watching>>

\* The pipe has closed: the watcher kills its group, itself included.
WatcherKills ==
    /\ "watcher" \in group \ doomed /\ watching /\ ~ PipeOpen
    /\ KillGroup
    /\ UNCHANGED <<caller, supervisor, group, outside, streams, watching>>

RunCommand ==
    /\ supervisor = "watched" /\ "supervisor" \in group \ doomed
    /\ supervisor' = "running"
    /\ group' = group \cup {"command"} /\ streams' = streams \cup {"command"}
    /\ UNCHANGED <<caller, outside, doomed, watching>>

\* A child may keep the streams or not, and stay in the group or leave it.
ForkChild(c) ==
    /\ "command" \in group \ doomed /\ c \notin Alive \cup doomed
    /\ \/ group' = group \cup {c} /\ UNCHANGED outside
       \/ outside' = outside \cup {c} /\ UNCHANGED group
    /\ streams' \in {streams, streams \cup {c}}
    /\ UNCHANGED <<caller, supervisor, doomed, watching>>

Exit(p) ==
    /\ group' = group \ {p} /\ outside' = outside \ {p} /\ streams' = streams \ {p}
    /\ UNCHANGED <<caller, doomed, watching>>

\* The command or a child of it ends by itself, or of a signal.
EndProcess(p) ==
    /\ p \in Alive /\ p \notin {"supervisor", "watcher"}
    /\ Exit(p) /\ UNCHANGED supervisor

\* The supervisor ends after the command.
EndSupervisor ==
    /\ supervisor = "running" /\ "supervisor" \in group /\ "command" \notin group
    /\ supervisor' = "ended" /\ Exit("supervisor")

\* What was sent SIGKILL dies, though perhaps not at once.
DieKilled(p) ==
    /\ p \in Alive \cap doomed
    /\ supervisor' = (IF p = "supervisor" THEN "ended" ELSE supervisor)
    /\ Exit(p)

\* communicate() returns when every holder of the streams is gone and the
\* supervisor has been reaped; the group is killed all the same.
Return ==
    /\ caller = "waiting" /\ streams = {} /\ supervisor = "ended"
    /\ KillGroup /\ caller' = "returned"
    /\ UNCHANGED <<supervisor, group, outside, streams, watching>>

\* The time is up, or another exception arrives.
TimeOut ==
    /\ caller = "waiting" /\ KillGroup /\ caller' = "draining"
    /\ UNCHANGED <<supervisor, group, outside, streams, watching>>

Interrupt ==
    /\ caller = "waiting" /\ KillGroup /\ caller' = "interrupted"
    /\ UNCHANGED <<supervisor, group, outside, streams, watching>>

\* Five seconds more: the streams close, or the call says that they did not.
Drain ==
    /\ caller = "draining"
    /\ caller' = IF streams = {} /\ supervisor = "ended" THEN "timed_out" ELSE "unsettled"
    /\ UNCHANGED <<supervisor, group, outside, streams, doomed, watching>>

CallerDies ==
    /\ PipeOpen /\ caller' = "dead"
    /\ UNCHANGED <<supervisor, group, outside, streams, doomed, watching>>

CommandNext ==
    \/ Launch \/ ForkWatcher \/ Watch \/ WatcherKills \/ RunCommand \/ EndSupervisor
    \/ Return \/ TimeOut \/ Interrupt \/ Drain \/ CallerDies
    \/ \E c \in Children : ForkChild(c)
    \/ \E p \in Processes : EndProcess(p) \/ DieKilled(p)

CommandSpec == CommandInit /\ [][CommandNext]_commandVars

\* The system runs processes and delivers signals; whether the command ends by
\* itself, and when the caller's time is up, is left open.
ProcessesRun ==
    /\ WF_commandVars(ForkWatcher) /\ WF_commandVars(Watch) /\ WF_commandVars(WatcherKills)
    /\ \A p \in Processes : WF_commandVars(DieKilled(p))

-----------------------------------------------------------------------------
(* Properties *)

\* However the call ends, and though the caller may have died at any moment,
\* the whole process group ends.
NothingOutlivesItsCall ==
    ProcessesRun => (caller \notin {"idle", "waiting", "draining"} ~> group = {})

=============================================================================
