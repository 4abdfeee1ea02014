-------------------------- MODULE WorkerLaunchProof ---------------------------
(*****************************************************************************)
(* Types, the inductive invariant of WorkerLaunch's safety and its theorems, *)
(* and the implementation of WorkflowService, and why its passes end, for    *)
(* any set of jobs, any number of deaths and any set of faults.              *)
(*****************************************************************************)
EXTENDS WorkerLaunch, FiniteSetTheorems, TLAPS

-----------------------------------------------------------------------------
(*****************************************************************************)
(* Types.                                                                    *)
(*****************************************************************************)

LEMMA BatchTypes ==
    ASSUME NEW r, NEW a, NEW b \in Batches(r, a)
    PROVE  /\ b \subseteq Jobs
           /\ \A j \in b : r[j].state = "queued"
           /\ b # {} => Cardinality({j \in Jobs : r[j].state \in SlotStates})
                          + Cardinality(b) <= MaxConcurrent
BY DEF Batches

LEMMA CountType ==
    ASSUME NEW S, S \subseteq Jobs
    PROVE  IsFiniteSet(S) /\ Cardinality(S) \in Nat
BY JobsFinite, FS_Subset, FS_CardinalityType

LEMMA TypeInit == Init => TypeOK
BY LimitsAssumption DEF Init, TypeOK, JobRecord, States, WorkerStates

LEMMA SettledType ==
    ASSUME NEW r \in JobRecord, NEW s \in Terminal
    PROVE  Settled(r, s) \in JobRecord /\ Settled(r, s).ident = "none" /\ Settled(r, s).state = s /\ Settled(r,s).cancel = r.cancel
BY DEF Settled, JobRecord, States, Terminal

LEMMA CancellingType ==
    ASSUME NEW r \in JobRecord
    PROVE  Cancelling(r) \in JobRecord /\ Cancelling(r).ident = r.ident /\ Cancelling(r).state = "cancelling" /\ Cancelling(r).cancel
BY DEF Cancelling, JobRecord, States, SlotStates

\* _reconcile_starting keeps a record in STARTING, hands it to a termination
\* thread with its identity, or settles it without one.
LEMMA VerdictShape ==
    ASSUME TypeOK, NEW j \in Jobs, rec[j].state = "starting", NEW seen, NEW slip
    PROVE  LET r == StartingVerdict(j, seen, slip) IN
           /\ r \in JobRecord
           /\ r.state \in {"starting", "cancelling", "failed", "cancelled"}
           /\ r.state \in Terminal => r.ident = "none"
           /\ r.state = "cancelling" => r.ident = "full"
<1> DEFINE r == rec[j]
           bound == [r EXCEPT !.ident = "full"]
<1>1. r \in JobRecord /\ r.state = "starting"
  BY DEF TypeOK
<1>2. bound \in JobRecord /\ bound.state = "starting" /\ bound.ident = "full"
  BY <1>1 DEF JobRecord
<1>3. StartingVerdict(j, seen, slip) \in {r, bound, Settled(r, "failed"), Settled(r, "cancelled"), Cancelling(bound),
                                      Settled(bound, "failed")}
  BY DEF StartingVerdict, ProtocolFailure
<1> HIDE DEF r, bound
<1>4. Settled(r, "failed") \in JobRecord /\ Settled(r, "failed").ident = "none" /\ Settled(r, "failed").state = "failed"
  BY <1>1, SettledType DEF Terminal
<1>5. Settled(r, "cancelled") \in JobRecord /\ Settled(r, "cancelled").ident = "none" /\ Settled(r, "cancelled").state = "cancelled"
  BY <1>1, SettledType DEF Terminal
<1>6. Cancelling(bound) \in JobRecord /\ Cancelling(bound).ident = "full" /\ Cancelling(bound).state = "cancelling"
  BY <1>2, CancellingType
<1>7. Settled(bound, "failed") \in JobRecord /\ Settled(bound, "failed").ident = "none" /\ Settled(bound, "failed").state = "failed"
  BY <1>2, SettledType DEF Terminal
<1> QED
  BY <1>1, <1>2, <1>3, <1>4, <1>5, <1>6, <1>7 DEF Terminal

LEMMA TerminationShape ==
    ASSUME NEW j \in Jobs, NEW known, NEW out \in TerminateOutcomes(j, known)
    PROVE  /\ out \in {"stopped", "stray", "alive"}
           /\ out = "alive" => LeaderAlive(j)
           /\ out = "stray" => LeaderAlive(j) \/ j \in strays
BY DEF TerminateOutcomes

\* The except branch of _start_job: it settles the record as failed, or keeps
\* the slot of a process that is still there.
LEMMA CleanupEffect ==
    ASSUME TypeOK, NEW j \in Jobs, CleanupStart(j)
    PROVE  \E left \in {"stopped", "stray", "alive"}, new \in JobRecord :
             /\ ApplyTermination(j, left)
             /\ handle' \subseteq Jobs
             /\ rec' \in {rec, [rec EXCEPT ![j] = new]}
             /\ JobDone(j) \/ AbortPass
             /\ left = "alive" => /\ LeaderAlive(j)
                                  /\ new.state = "cancelling" /\ new.cancel
                                  /\ rec[j].ident # "none" => new.ident = rec[j].ident
             /\ left # "alive" => new.state = "failed" /\ new.ident = "none"
<1>1. PICK out \in TerminateOutcomes(j, step = "cleanup-known"), stuck \in BOOLEAN :
       LET left  == IF step = "cleanup" /\ ~stuck /\ out = "alive" THEN "stopped" ELSE out
           ident == IF rec[j].ident # "none" THEN rec[j].ident
                    ELSE IF step = "cleanup-known" THEN "full" ELSE "pid"
           ended == [rec EXCEPT ![j] = IF left = "alive"
                                    THEN [Cancelling(@) EXCEPT !.ident = ident]
                                    ELSE Settled(@, "failed")]
        IN /\ ApplyTermination(j, left)
           /\ handle' = IF left = "alive" THEN handle ELSE handle \ {j}
           /\ \/ rec' = ended /\ JobDone(j)
              \/ rec' \in {rec, ended} /\ AbortPass
  BY DEF CleanupStart
<1> DEFINE left  == IF step = "cleanup" /\ ~stuck /\ out = "alive" THEN "stopped" ELSE out
           ident == IF rec[j].ident # "none" THEN rec[j].ident
                    ELSE IF step = "cleanup-known" THEN "full" ELSE "pid"
           kept  == [Cancelling(rec[j]) EXCEPT !.ident = ident]
           new   == IF left = "alive" THEN kept ELSE Settled(rec[j], "failed")
<1>2. left \in {"stopped", "stray", "alive"} /\ (left = "alive" => LeaderAlive(j))
  BY TerminationShape
<1>3. /\ kept \in JobRecord /\ kept.state = "cancelling" /\ kept.cancel
      /\ rec[j].ident # "none" => kept.ident = rec[j].ident
  BY CancellingType DEF TypeOK, JobRecord
<1>4. Settled(rec[j], "failed") \in JobRecord /\ Settled(rec[j], "failed").state = "failed"
      /\ Settled(rec[j], "failed").ident = "none"
  BY SettledType DEF TypeOK, Terminal
<1>5. /\ ApplyTermination(j, left) /\ handle' \subseteq Jobs
      /\ rec' \in {rec, [rec EXCEPT ![j] = new]} /\ (JobDone(j) \/ AbortPass)
  BY <1>1 DEF TypeOK
<1> HIDE DEF left, kept
<1> QED
  BY <1>2, <1>3, <1>4, <1>5

\* What refresh makes of a STARTING record it finds.
LEMMA ReconcileStartingEffect ==
    ASSUME TypeOK, NEW j \in Jobs, ReconcileStarting(j)
    PROVE  \E r \in JobRecord :
             /\ rec' \in {rec, [rec EXCEPT ![j] = r]}
             /\ r.state \in {"starting", "cancelling", "failed", "cancelled"}
             /\ r.state \in Terminal => r.ident = "none"
             /\ r.state = "cancelling" => r.ident = "full"
             /\ NextRecord(j, rec') \/ AbortPass
             /\ handle' \subseteq Jobs /\ killers' \subseteq Jobs
<1>1. PICK seen \in Containment(j), slip \in {FALSE, Io} :
        LET r == StartingVerdict(j, seen, slip) IN
        /\ handle' = PopenAfter(j, r)
        /\ \/ /\ rec' = [rec EXCEPT ![j] = r]
              /\ killers' = ThreadAfter(j, r)
              /\ NextRecord(j, rec')
           \/ /\ rec' \in {rec, [rec EXCEPT ![j] = r]}
              /\ UNCHANGED killers /\ AbortPass
  BY DEF ReconcileStarting
<1> DEFINE r == StartingVerdict(j, seen, slip)
<1>2. /\ r \in JobRecord /\ r.state \in {"starting", "cancelling", "failed", "cancelled"}
      /\ r.state \in Terminal => r.ident = "none"
      /\ r.state = "cancelling" => r.ident = "full"
  BY VerdictShape DEF ReconcileStarting
<1>3. rec' \in {rec, [rec EXCEPT ![j] = r]} /\ (NextRecord(j, rec') \/ AbortPass)
      /\ handle' \subseteq Jobs /\ killers' \subseteq Jobs
  BY <1>1 DEF PopenAfter, ThreadAfter, TypeOK
<1> HIDE DEF r
<1> QED
  BY <1>2, <1>3

\* What cancel makes of one.
LEMMA CancelStartingEffect ==
    ASSUME TypeOK, NEW j \in Jobs, CancelStarting(j)
    PROVE  \E new \in JobRecord :
             /\ rec' = [rec EXCEPT ![j] = new]
             /\ new.state \in {"starting", "cancelling", "failed", "cancelled"}
             /\ new.state \in Terminal => new.ident = "none"
             /\ new.state = "cancelling" => new.ident = "full"
             /\ handle' \subseteq Jobs /\ killers' \subseteq Jobs
<1>1. PICK seen \in Containment(j), slip \in {FALSE, Io} :
        LET r == StartingVerdict(j, seen, slip) IN
        /\ handle' = PopenAfter(j, r)
        /\ \/ r.state # "starting" /\ rec' = [rec EXCEPT ![j] = r]
           \/ r.state = "starting" /\ r.ident = "full" /\ rec' = [rec EXCEPT ![j] = Cancelling(r)]
           \/ rec' = [rec EXCEPT ![j].cancel = TRUE]
           \/ rec' \in {rec, [rec EXCEPT ![j] = r]}
        /\ killers' \in {killers, killers \cup {j}}
  BY DEF CancelStarting, RequestTermination, ThreadAfter
<1> DEFINE r == StartingVerdict(j, seen, slip)
<1>2. /\ r \in JobRecord /\ r.state \in {"starting", "cancelling", "failed", "cancelled"}
      /\ r.state \in Terminal => r.ident = "none"
      /\ r.state = "cancelling" => r.ident = "full"
  BY VerdictShape DEF CancelStarting
<1>3. handle' \subseteq Jobs /\ killers' \subseteq Jobs
  BY <1>1 DEF PopenAfter, TypeOK
<1>4. Cancelling(r) \in JobRecord /\ Cancelling(r).state = "cancelling" /\ Cancelling(r).ident = r.ident
  BY <1>2, CancellingType
<1>5. /\ [rec[j] EXCEPT !.cancel = TRUE] \in JobRecord
      /\ [rec[j] EXCEPT !.cancel = TRUE].state = "starting"
  <2>1. rec[j] \in JobRecord /\ rec[j].state = "starting"
    BY DEF CancelStarting, TypeOK
  <2> QED
    BY <2>1 DEF JobRecord
<1>6. \/ rec' \in {rec, [rec EXCEPT ![j] = r]}
      \/ r.state = "starting" /\ r.ident = "full" /\ rec' = [rec EXCEPT ![j] = Cancelling(r)]
      \/ rec' = [rec EXCEPT ![j] = [rec[j] EXCEPT !.cancel = TRUE]]
  BY <1>1
<1> HIDE DEF r
<1>7. CASE rec' = [rec EXCEPT ![j] = r]
  BY <1>2, <1>3, <1>7
<1>10. CASE rec' = rec
  <2>1. rec' = [rec EXCEPT ![j] = rec[j]] /\ rec[j] \in JobRecord /\ rec[j].state = "starting"
    BY <1>10 DEF CancelStarting, TypeOK
  <2> QED
    BY <1>3, <2>1 DEF Terminal
<1>8. CASE r.state = "starting" /\ r.ident = "full" /\ rec' = [rec EXCEPT ![j] = Cancelling(r)]
  BY <1>3, <1>4, <1>8 DEF Terminal
<1>9. CASE rec' = [rec EXCEPT ![j] = [rec[j] EXCEPT !.cancel = TRUE]]
  BY <1>3, <1>5, <1>9 DEF Terminal
<1> QED
  BY <1>6, <1>7, <1>8, <1>9, <1>10

\* refresh settles a record only when no process of its worker is alive, and
\* as completed only for a result that says so.
LEMMA FinishEffect ==
    ASSUME TypeOK, NEW j \in Jobs, FinishJob(j)
    PROVE  /\ ~LeaderAlive(j)
           /\ rec[j].ident = "full" => j \notin strays
           /\ \E new \in JobRecord :
                /\ rec' \in {rec, [rec EXCEPT ![j] = new]}
                /\ new.state \in Terminal /\ new.ident = "none" /\ new.cancel = rec[j].cancel
                /\ new.state = "completed" =>
                     result[j] = "ok" /\ rec[j].state = "running" /\ ~rec[j].cancel
<1>1. ~LeaderAlive(j) /\ (rec[j].ident = "full" => j \notin strays)
  BY DEF FinishJob, Containment
<1>2. PICK s \in {Outcome(j), "failed"} : rec' \in {rec, [rec EXCEPT ![j] = Settled(rec[j], s)]}
  BY DEF FinishJob
<1>3. s \in Terminal /\ (s = "completed" => result[j] = "ok" /\ rec[j].state # "cancelling" /\ ~rec[j].cancel)
  BY <1>2 DEF Outcome, Terminal
<1>4. rec[j].state \in {"running", "cancelling"} /\ rec[j] \in JobRecord
  BY DEF FinishJob, TypeOK
<1>5. Settled(rec[j], s) \in JobRecord /\ Settled(rec[j], s).state = s
      /\ Settled(rec[j], s).ident = "none" /\ Settled(rec[j], s).cancel = rec[j].cancel
  BY <1>3, <1>4, SettledType
<1> QED
  BY <1>1, <1>2, <1>3, <1>4, <1>5

LEMMA TypeNext == TypeOK /\ PassShape /\ [Next]_vars => TypeOK'
<1> SUFFICES ASSUME TypeOK, PassShape, [Next]_vars PROVE TypeOK'
    OBVIOUS
<1> USE LimitsAssumption DEF TypeOK
<1>1. CASE Refresh
    BY <1>1, BatchTypes DEF Refresh, Slots, files, procs
<1>2. CASE Start
    BY <1>2, BatchTypes DEF Start, Slots, files, procs
<1>3. CASE Close
    BY <1>3 DEF Close, files, procs
<1>4. CASE Crash
    BY <1>4 DEF Crash, files
<1>5. ASSUME NEW j \in Jobs, Submit(j) PROVE TypeOK'
  <2>1. 1 + Cardinality(Jobs \ {i \in Jobs : rec[i].state = "absent"}) \in Nat
    BY CountType
  <2>2. arrival' \in [Jobs -> Nat]
    BY <1>5, <2>1 DEF Submit
  <2>3. rec' \in [Jobs -> JobRecord] /\ \A i \in Jobs : rec'[i].ident # "none" => rec'[i].state \in SlotStates
    BY <1>5 DEF Submit, JobRecord, States, SlotStates
  <2>4. batch' \subseteq Jobs /\ step' \in {step, "idle"} /\ todo' \in {todo, {}}
        /\ mgr' \in {mgr, "closed"}
    BY <1>5 DEF Submit, AbortPass, Batches
  <2> QED
    BY <1>5, <2>2, <2>3, <2>4 DEF Submit, files, procs
<1>6. ASSUME NEW j \in Jobs, BeginStart(j) PROVE TypeOK'
    BY <1>6 DEF BeginStart, files, procs, JobRecord, States, AbortPass, Goto, SlotStates, StartSteps
<1>7. ASSUME NEW j \in Jobs, Spawn(j) PROVE TypeOK'
    BY <1>7 DEF Spawn, files, procs, Goto, StartSteps, WorkerStates
<1>8. ASSUME NEW j \in Jobs, AwaitReady(j) PROVE TypeOK'
    BY <1>8 DEF AwaitReady, files, procs, Goto, StartSteps
<1>9. ASSUME NEW j \in Jobs, CleanupStart(j) PROVE TypeOK'
  <2>1. PICK left \in {"stopped", "stray", "alive"}, new \in JobRecord :
          /\ ApplyTermination(j, left) /\ handle' \subseteq Jobs
          /\ rec' \in {rec, [rec EXCEPT ![j] = new]}
          /\ JobDone(j) \/ AbortPass
          /\ new.ident # "none" => new.state \in SlotStates
    BY <1>9, CleanupEffect DEF SlotStates
  <2>2. worker' \in [Jobs -> WorkerStates] /\ strays' \subseteq Jobs
    BY <2>1 DEF ApplyTermination, WorkerStates
  <2>3. batch' \subseteq Jobs /\ step' = "idle" /\ todo' \in {todo, {}}
        /\ mgr' \in {mgr, "open", "closed"}
    BY <2>1 DEF JobDone, AbortPass, PassDone
  <2> QED
    BY <1>9, <2>1, <2>2, <2>3 DEF CleanupStart, files
<1>10. ASSUME NEW j \in Jobs, BindIdentity(j) PROVE TypeOK'
  <2>1. rec[j].state \in SlotStates
    BY <1>10 DEF BindIdentity, At, Head, PassShape, SlotStates
  <2> QED
    BY <1>10, <2>1 DEF BindIdentity, files, procs, Goto, StartSteps, JobRecord
<1>11. ASSUME NEW j \in Jobs, RecordRunning(j) PROVE TypeOK'
  <2>1. rec' \in {rec, [rec EXCEPT ![j].state = "running"]}
        /\ step' \in {"publish", "cleanup-known"} /\ UNCHANGED <<mgr, todo, batch>>
    BY <1>11 DEF RecordRunning, Goto
  <2>2. rec' \in [Jobs -> JobRecord] /\ \A i \in Jobs : rec'[i].ident # "none" => rec'[i].state \in SlotStates
    BY <2>1 DEF JobRecord, States, SlotStates
  <2> QED
    BY <1>11, <2>1, <2>2 DEF RecordRunning, files, procs, StartSteps
<1>12. ASSUME NEW j \in Jobs, CheckDeadline(j) PROVE TypeOK'
    BY <1>12 DEF CheckDeadline, files, procs, Goto, StartSteps
<1>13. ASSUME NEW j \in Jobs, ExposeGate(j) PROVE TypeOK'
    BY <1>13 DEF ExposeGate, procs, Goto, StartSteps, JobDone, PassDone
<1>14. ASSUME NEW j \in Jobs, ReconcileStarting(j) PROVE TypeOK'
  <2>1. PICK r \in JobRecord :
          /\ rec' \in {rec, [rec EXCEPT ![j] = r]}
          /\ r.ident # "none" => r.state \in SlotStates
          /\ NextRecord(j, rec') \/ AbortPass
          /\ handle' \subseteq Jobs /\ killers' \subseteq Jobs
    BY <1>14, ReconcileStartingEffect DEF SlotStates, Terminal
  <2>2. batch' \subseteq Jobs /\ step' = "idle" /\ todo' \subseteq Jobs
        /\ mgr' \in {mgr, "open", "closed"}
    BY <2>1 DEF NextRecord, PassDone, AbortPass, Batches
  <2> QED
    BY <1>14, <2>1, <2>2 DEF ReconcileStarting, files, procs
<1>15. ASSUME NEW j \in Jobs, StillRunning(j) PROVE TypeOK'
    BY <1>15 DEF StillRunning, NextRecord, PassDone, Batches, files, procs
<1>16. ASSUME NEW j \in Jobs, FinishJob(j) PROVE TypeOK'
  <2>1. Outcome(j) \in Terminal
    BY DEF Outcome, Terminal
  <2>2. rec' \in [Jobs -> JobRecord] /\ \A i \in Jobs : rec'[i].ident # "none" => rec'[i].state \in SlotStates
    BY <1>16, <2>1, SettledType DEF FinishJob, Terminal
  <2>3. batch' \subseteq Jobs /\ step' \in {"unfinished", "idle"} /\ todo' \subseteq Jobs
        /\ mgr' \in {mgr, "open", "closed"}
    BY <1>16 DEF FinishJob, NextRecord, PassDone, AbortPass, Goto, Batches
  <2> QED
    BY <1>16, <2>2, <2>3 DEF FinishJob, files, procs
<1>17. ASSUME NEW j \in Jobs, FinishReconciliationFailure(j) PROVE TypeOK'
  <2>1. rec[j] \in JobRecord /\ rec[j].ident = "none"
    BY <1>17 DEF FinishReconciliationFailure, Terminal, SlotStates
  <2>2. rec' \in [Jobs -> JobRecord] /\ \A i \in Jobs : rec'[i].ident # "none" => rec'[i].state \in SlotStates
    <3>1. rec' \in {rec, [rec EXCEPT ![j].state = "failed"]}
      BY <1>17 DEF FinishReconciliationFailure
    <3>2. [rec[j] EXCEPT !.state = "failed"] \in JobRecord /\ [rec[j] EXCEPT !.state = "failed"].ident = "none"
      BY <2>1 DEF JobRecord, States, Terminal
    <3> QED
      BY <2>1, <3>1, <3>2
  <2>3. batch' \subseteq Jobs /\ step' = "idle" /\ todo' \subseteq Jobs
        /\ mgr' \in {mgr, "open", "closed"}
    BY <1>17 DEF FinishReconciliationFailure, NextRecord, PassDone, AbortPass, Batches
  <2> QED
    BY <1>17, <2>2, <2>3 DEF FinishReconciliationFailure, files, procs
<1>18. ASSUME NEW j \in Jobs, CancelQueued(j) PROVE TypeOK'
  <2>1. rec[j] \in JobRecord /\ rec[j].ident = "none"
    BY <1>18 DEF CancelQueued, SlotStates
  <2>2. rec' \in [Jobs -> JobRecord] /\ \A i \in Jobs : rec'[i].ident # "none" => rec'[i].state \in SlotStates
    BY <1>18, <2>1 DEF CancelQueued, JobRecord, States, Terminal
  <2> QED
    BY <1>18, <2>2 DEF CancelQueued, files, procs, pass
<1>19. ASSUME NEW j \in Jobs, CancelStarting(j) PROVE TypeOK'
  <2>1. PICK new \in JobRecord :
          /\ rec' = [rec EXCEPT ![j] = new]
          /\ new.ident # "none" => new.state \in SlotStates
          /\ handle' \subseteq Jobs /\ killers' \subseteq Jobs
    BY <1>19, CancelStartingEffect DEF SlotStates, Terminal
  <2> QED
    BY <1>19, <2>1 DEF CancelStarting, files, procs, pass
<1>20. ASSUME NEW j \in Jobs, CancelActive(j) PROVE TypeOK'
    BY <1>20, CancellingType DEF CancelActive, RequestTermination, files, procs, pass, SlotStates
<1>21. ASSUME NEW j \in Jobs, TerminateProcess(j) PROVE TypeOK'
  <2>1. worker' \in [Jobs -> WorkerStates] /\ strays' \subseteq Jobs
    BY <1>21, TerminationShape DEF TerminateProcess, ApplyTermination, WorkerStates
  <2> QED
    BY <1>21, <2>1 DEF TerminateProcess, files, pass
<1>22. ASSUME NEW j \in Jobs, Worker(j) PROVE TypeOK'
  <2>1. worker' \in [Jobs -> WorkerStates] /\ strays' \subseteq Jobs
    BY <1>22 DEF Worker, PublishReady, SeeGate, RefuseToWait, ReportRefusal, ReportExecution, WorkerExits, WorkerDies, StrayExits, Become, WorkerStates
  <2>2. ready' \subseteq Jobs /\ gate' = gate /\ result' \in [Jobs -> {"none", "ok", "failed"}]
    BY <1>22 DEF Worker, PublishReady, SeeGate, RefuseToWait, ReportRefusal, ReportExecution, WorkerExits, WorkerDies, StrayExits, files
  <2> QED
    BY <1>22, <2>1, <2>2 DEF Worker, PublishReady, SeeGate, RefuseToWait, ReportRefusal, ReportExecution, WorkerExits, WorkerDies, StrayExits, pass
<1>23. ASSUME NEW j \in Jobs, DeadlinePasses(j) PROVE TypeOK'
    BY <1>23 DEF DeadlinePasses, files, pass
<1>24. CASE UNCHANGED vars
    BY <1>24 DEF vars
<1> QED
    BY <1>1, <1>2, <1>3, <1>4, <1>5, <1>6, <1>7, <1>8, <1>9, <1>10, <1>11, <1>12, <1>13, <1>14,
       <1>15, <1>16, <1>17, <1>18, <1>19, <1>20, <1>21, <1>22, <1>23, <1>24
    DEF Next, StartJob, Reconcile, Cancel

-----------------------------------------------------------------------------
\* What a step that is not a submission may do to one record, and to the batch.
Ages(i) ==
    \/ rec'[i] = rec[i]
    \/ /\ rec[i].state # "absent"
       /\ rec'[i].state \notin {"absent", "queued"}
       /\ rec'[i].state \in SlotStates => i \in Slots \cup batch

Refills ==
    \/ batch' \subseteq batch
    \/ batch' \in Batches(rec', arrival')

LEMMA BatchSubmitted ==
    ASSUME TypeOK, PassShape, NEW i \in batch
    PROVE  rec[i].state # "absent" /\ todo = {} /\ step # "unfinished"
BY DEF TypeOK, PassShape, StartSteps

LEMMA HeadUnique ==
    ASSUME TypeOK, PassShape, ArrivalOrder, NEW i, NEW j, Head(i), Head(j)
    PROVE  i = j
<1>1. i \in batch /\ j \in batch /\ arrival[i] <= arrival[j] /\ arrival[j] <= arrival[i]
  BY DEF Head
<1>2. i \in Submitted /\ j \in Submitted
  BY <1>1, BatchSubmitted DEF TypeOK, Submitted
<1>3. arrival[i] = arrival[j]
  BY <1>1, <1>2 DEF TypeOK, Submitted
<1> QED
  BY <1>2, <1>3 DEF ArrivalOrder

LEMMA RecordSteps ==
    ASSUME TypeOK, PassShape, TypeOK', Next, \A j \in Jobs : ~Submit(j)
    PROVE  arrival' = arrival /\ (\A i \in Jobs : Ages(i)) /\ Refills
<1> USE DEF TypeOK
<1>1. CASE Refresh \/ Start
  BY <1>1 DEF Refresh, Start, Ages, Refills
<1>2. CASE Close \/ Crash
  BY <1>2 DEF Close, Crash, Ages, Refills
<1>3. ASSUME NEW j \in Jobs, Worker(j) \/ DeadlinePasses(j) \/ TerminateProcess(j)
      PROVE  arrival' = arrival /\ rec' = rec /\ batch' = batch
  BY <1>3 DEF Worker, PublishReady, SeeGate, RefuseToWait, ReportRefusal, ReportExecution,
     WorkerExits, WorkerDies, StrayExits, DeadlinePasses, TerminateProcess, pass
<1>4. ASSUME NEW j \in Jobs, StartJob(j)
      PROVE  arrival' = arrival /\ (\A i \in Jobs : Ages(i)) /\ Refills
  <2>1. j \in batch /\ Head(j)
    BY <1>4 DEF StartJob, BeginStart, Spawn, AwaitReady, BindIdentity, RecordRunning,
       CheckDeadline, ExposeGate, CleanupStart, At, Head
  <2>2. batch' \subseteq batch /\ arrival' = arrival
    BY <1>4 DEF StartJob, BeginStart, Spawn, AwaitReady, BindIdentity, RecordRunning,
       CheckDeadline, ExposeGate, CleanupStart, Goto, JobDone, AbortPass
  <2>3. rec[j].state # "absent"
    BY <2>1, BatchSubmitted
  <2>4. \A i \in Jobs \ {j} : rec'[i] = rec[i]
    BY <1>4 DEF StartJob, BeginStart, Spawn, AwaitReady, BindIdentity, RecordRunning,
       CheckDeadline, ExposeGate, CleanupStart
  <2>5. rec'[j] = rec[j] \/ rec'[j].state \notin {"absent", "queued"}
    <3>1. CASE BeginStart(j) \/ RecordRunning(j)
      BY <3>1 DEF BeginStart, RecordRunning, JobRecord
    <3>2. CASE BindIdentity(j)
      <4>1. rec[j].state = "starting"
        BY <3>2, <2>1 DEF BindIdentity, At, PassShape
      <4> QED
        BY <3>2, <4>1 DEF BindIdentity, JobRecord
    <3>3. CASE Spawn(j) \/ AwaitReady(j) \/ CheckDeadline(j) \/ ExposeGate(j)
      BY <3>3 DEF Spawn, AwaitReady, CheckDeadline, ExposeGate
    <3>4. CASE CleanupStart(j)
      <4>1. PICK new \in JobRecord : rec' \in {rec, [rec EXCEPT ![j] = new]}
                                     /\ new.state \in {"cancelling", "failed"}
        BY <3>4, CleanupEffect
      <4> QED
        BY <4>1
    <3> QED
      BY <1>4, <3>1, <3>2, <3>3, <3>4 DEF StartJob
  <2> QED
    BY <2>1, <2>2, <2>3, <2>4, <2>5 DEF Ages, Refills
<1>5. ASSUME NEW j \in Jobs, Reconcile(j)
      PROVE  arrival' = arrival /\ (\A i \in Jobs : Ages(i)) /\ Refills
  <2>1. batch' \in Batches(rec', arrival') \/ batch' = {} \/ batch' = batch
    BY <1>5 DEF Reconcile, ReconcileStarting, StillRunning, FinishJob,
       FinishReconciliationFailure, NextRecord, AbortPass, Goto
  <2>2. \A i \in Jobs \ {j} : rec'[i] = rec[i]
    BY <1>5 DEF Reconcile, ReconcileStarting, StillRunning, FinishJob, FinishReconciliationFailure
  <2>3. arrival' = arrival
    BY <1>5 DEF Reconcile, ReconcileStarting, StillRunning, FinishJob, FinishReconciliationFailure
  <2>4. \/ rec'[j] = rec[j]
        \/ rec[j].state # "absent" /\ rec'[j].state \in Terminal
        \/ rec[j].state = "starting" /\ rec'[j].state \in Terminal \cup {"starting", "cancelling"}
    <3>1. CASE ReconcileStarting(j)
      <4>1. PICK r \in JobRecord : rec' \in {rec, [rec EXCEPT ![j] = r]}
               /\ r.state \in {"starting", "cancelling", "failed", "cancelled"}
        BY <3>1, ReconcileStartingEffect
      <4> QED
        BY <3>1, <4>1 DEF ReconcileStarting, Terminal
    <3>2. CASE StillRunning(j)
      BY <3>2 DEF StillRunning
    <3>3. CASE FinishJob(j)
      <4>1. rec[j].state # "absent"
        BY <3>3 DEF FinishJob
      <4>2. rec'[j] = rec[j] \/ rec'[j].state \in Terminal
        BY <3>3, FinishEffect
      <4> QED
        BY <4>1, <4>2
    <3>4. CASE FinishReconciliationFailure(j)
      BY <3>4 DEF FinishReconciliationFailure, Terminal, JobRecord
    <3> QED
      BY <1>5, <3>1, <3>2, <3>3, <3>4 DEF Reconcile
  <2> QED
    BY <2>1, <2>2, <2>3, <2>4 DEF Ages, Refills, Terminal, Slots, SlotStates
<1>6. ASSUME NEW j \in Jobs, Cancel(j)
      PROVE  arrival' = arrival /\ (\A i \in Jobs : Ages(i)) /\ Refills
  <2>1. batch' = batch /\ arrival' = arrival
    BY <1>6 DEF Cancel, CancelQueued, CancelStarting, CancelActive, pass
  <2>2. \A i \in Jobs \ {j} : rec'[i] = rec[i]
    BY <1>6 DEF Cancel, CancelQueued, CancelStarting, CancelActive, RequestTermination
  <2>3. \/ rec[j].state = "queued" /\ rec'[j].state = "cancelled"
        \/ rec[j].state \in SlotStates /\ rec'[j].state \in Terminal \cup {"starting", "cancelling"}
    <3>1. CASE CancelQueued(j)
      BY <3>1 DEF CancelQueued, JobRecord
    <3>2. CASE CancelStarting(j)
      <4>1. PICK new \in JobRecord : rec' = [rec EXCEPT ![j] = new]
               /\ new.state \in {"starting", "cancelling", "failed", "cancelled"}
        BY <3>2, CancelStartingEffect
      <4>2. rec[j].state = "starting"
        BY <3>2 DEF CancelStarting
      <4> QED
        BY <4>1, <4>2 DEF SlotStates, Terminal
    <3>3. CASE CancelActive(j)
      BY <3>3 DEF CancelActive, RequestTermination, Cancelling, SlotStates, JobRecord
    <3> QED
      BY <1>6, <3>1, <3>2, <3>3 DEF Cancel
  <2> QED
    BY <2>1, <2>2, <2>3 DEF Ages, Refills, Terminal, Slots, SlotStates
<1> QED
  BY <1>1, <1>2, <1>3, <1>4, <1>5, <1>6 DEF Next, Ages, Refills

LEMMA ArrivalNext == TypeOK /\ ArrivalOrder /\ PassShape /\ TypeOK' /\ Next => ArrivalOrder'
<1> SUFFICES ASSUME TypeOK, ArrivalOrder, PassShape, TypeOK', Next PROVE ArrivalOrder'
  OBVIOUS
<1>1. CASE \A j \in Jobs : ~Submit(j)
  <2>1. arrival' = arrival /\ \A i \in Jobs : Ages(i)
    BY <1>1, RecordSteps
  <2>2. Submitted' = Submitted
    BY <2>1 DEF Ages, Submitted
  <2> QED
    BY <2>1, <2>2 DEF ArrivalOrder
<1>2. ASSUME NEW j \in Jobs, Submit(j) PROVE ArrivalOrder'
  <2>1. rec[j].state = "absent" /\ j \notin Submitted
    BY <1>2 DEF Submit, Submitted
  <2>2. Submitted' = Submitted \cup {j}
    BY <1>2 DEF Submit, Submitted, TypeOK, JobRecord
  <2>3. IsFiniteSet(Submitted) /\ Cardinality(Submitted) \in Nat
    BY CountType DEF Submitted
  <2>4. Cardinality(Submitted') = Cardinality(Submitted) + 1
    BY <2>1, <2>2, <2>3, FS_AddElement
  <2>5. Jobs \ {i \in Jobs : rec[i].state = "absent"} = Submitted
    BY DEF Submitted
  <2>6. arrival' = [arrival EXCEPT ![j] = 1 + Cardinality(Submitted)]
    BY <1>2, <2>5 DEF Submit
  <2>7. /\ arrival'[j] = 1 + Cardinality(Submitted)
        /\ \A i \in Submitted : arrival'[i] = arrival[i] /\ arrival[i] \in Nat
    BY <2>1, <2>6 DEF TypeOK, Submitted
  <2>8. \A i \in Submitted : arrival[i] <= Cardinality(Submitted)
    BY DEF ArrivalOrder
  <2>9. \A i \in Submitted' : arrival'[i] <= Cardinality(Submitted)'
    BY <2>2, <2>3, <2>4, <2>7, <2>8
  <2>10. \A i, k \in Submitted' : arrival'[i] = arrival'[k] => i = k
    BY <2>2, <2>3, <2>7, <2>8 DEF ArrivalOrder
  <2> QED
    BY <2>9, <2>10 DEF ArrivalOrder
<1> QED
  BY <1>1, <1>2

LEMMA ReservedNext == TypeOK /\ PassShape /\ Reserved /\ TypeOK' /\ Next => Reserved'
<1> SUFFICES ASSUME TypeOK, PassShape, Reserved, TypeOK', Next PROVE Reserved'
  OBVIOUS
<1>1. \/ batch' \subseteq batch
      \/ batch' \in Batches(rec', arrival')
  <2>1. CASE \A j \in Jobs : ~Submit(j)
    BY <2>1, RecordSteps DEF Refills
  <2>2. ASSUME NEW j \in Jobs, Submit(j) PROVE Refills
    BY <2>2 DEF Submit, AbortPass, Refills
  <2> QED
    BY <2>1, <2>2 DEF Refills
<1>2. Slots' \subseteq Slots \cup batch
  <2>1. CASE \A j \in Jobs : ~Submit(j)
    BY <2>1, RecordSteps DEF Ages, Slots
  <2>2. ASSUME NEW j \in Jobs, Submit(j) PROVE Slots' \subseteq Slots
    BY <2>2 DEF Submit, Slots, SlotStates, TypeOK, JobRecord
  <2> QED
    BY <2>1, <2>2
<1>3. ASSUME NEW S, S \subseteq Slots \cup batch PROVE Cardinality(S) <= MaxConcurrent
  <2>1. IsFiniteSet(Slots \cup batch)
    BY CountType DEF Slots, TypeOK
  <2>2. Cardinality(S) <= Cardinality(Slots \cup batch) /\ Cardinality(S) \in Nat
        /\ Cardinality(Slots \cup batch) \in Nat
    BY <1>3, <2>1, FS_Subset, FS_CardinalityType
  <2> QED
    BY <2>2, LimitsAssumption DEF Reserved
<1>4. CASE batch' \subseteq batch
  BY <1>2, <1>3, <1>4 DEF Reserved
<1>5. CASE batch' \in Batches(rec', arrival') /\ batch' # {}
  <2>1. Cardinality(Slots') + Cardinality(batch') <= MaxConcurrent
    BY <1>5 DEF Batches, Slots
  <2>2. IsFiniteSet(Slots') /\ IsFiniteSet(batch') /\ IsFiniteSet(Slots' \cap batch')
    BY CountType DEF Slots, TypeOK
  <2>3. Cardinality(Slots' \cup batch') =
          Cardinality(Slots') + Cardinality(batch') - Cardinality(Slots' \cap batch')
    BY <2>2, FS_Union
  <2>4. /\ Cardinality(Slots') \in Nat /\ Cardinality(batch') \in Nat
        /\ Cardinality(Slots' \cap batch') \in Nat
    BY <2>2, FS_CardinalityType
  <2> QED
    BY <2>1, <2>3, <2>4, LimitsAssumption DEF Reserved
<1>6. CASE batch' = {}
  BY <1>2, <1>3, <1>6 DEF Reserved
<1> QED
  BY <1>1, <1>4, <1>5, <1>6

-----------------------------------------------------------------------------
(*****************************************************************************)
(* The strengthening of the safety invariants to an inductive one.           *)
(*****************************************************************************)

-----------------------------------------------------------------------------
(* PassShape: the lock holder's bookkeeping *)

LEMMA IdlePass ==
    ASSUME step' = "idle", todo' = {} \/ batch' = {},
           \A i \in batch' : rec'[i].state = "queued"
    PROVE  PassShape'
BY DEF PassShape, StartSteps

LEMMA AbortedPass == ASSUME AbortPass PROVE PassShape'
BY IdlePass DEF AbortPass

LEMMA NextRecordPass ==
    ASSUME NEW j, NextRecord(j, rec') PROVE PassShape'
<1>1. step' = "idle"
  BY DEF NextRecord
<1>2. CASE todo' = {}
  <2>1. batch' \in Batches(rec', arrival)
    BY <1>2 DEF NextRecord
  <2>2. \A i \in batch' : rec'[i].state = "queued"
    BY <2>1 DEF Batches
  <2> QED
    BY <1>1, <1>2, <2>2, IdlePass
<1>3. CASE todo' # {}
  BY <1>1, <1>3, IdlePass DEF NextRecord
<1> QED
  BY <1>2, <1>3

\* The jobs of a batch other than the one being started are still queued.
LEMMA Waiting ==
    ASSUME TypeOK, PassShape, ArrivalOrder, NEW j, Head(j), NEW i \in batch, i # j
    PROVE  rec[i].state = "queued" /\ ~Head(i)
BY HeadUnique DEF PassShape

LEMMA JobDonePass ==
    ASSUME TypeOK, PassShape, ArrivalOrder, NEW j \in Jobs, Head(j), todo = {}, JobDone(j),
           \A i \in Jobs \ {j} : rec'[i] = rec[i]
    PROVE  PassShape'
<1>1. step' = "idle" /\ todo' = {} /\ batch' = batch \ {j}
  BY DEF JobDone
<1>2. \A i \in batch' : rec'[i].state = "queued"
  BY <1>1, Waiting DEF TypeOK
<1> QED
  BY <1>1, <1>2, IdlePass

LEMMA GotoPass ==
    ASSUME TypeOK, PassShape, ArrivalOrder, NEW j \in Jobs, Head(j), todo = {},
           NEW s \in StartSteps, Goto(s), arrival' = arrival,
           \A i \in Jobs \ {j} : rec'[i] = rec[i],
           s \in {"spawn", "ready", "identify", "release"} => rec'[j].state = "starting",
           s = "spawn" => worker'[j] = "none",
           s \in {"release", "publish", "expose"} => rec'[j].ident = "full",
           s \in {"publish", "expose"} => rec'[j].state = "running",
           s \in {"cleanup", "cleanup-known"} => rec'[j].state \in {"starting", "running"}
    PROVE  PassShape'
<1>1. step' = s /\ todo' = {} /\ batch' = batch /\ s \notin {"idle", "unfinished"}
  BY DEF Goto, StartSteps
<1>2. \A i : Head(i)' <=> Head(i)
  BY <1>1 DEF Head
<1>3. \A i \in batch : i # j => rec'[i].state = "queued" /\ ~Head(i)
  BY Waiting DEF TypeOK
<1> QED
  BY <1>1, <1>2, <1>3 DEF PassShape, Head

LEMMA StartJobPass ==
    ASSUME TypeOK, PassShape, ArrivalOrder, Evidence, NEW j \in Jobs, StartJob(j)
    PROVE  PassShape'
<1> USE DEF StartSteps
<1>1. Head(j) /\ todo = {} /\ j \in batch /\ rec[j] \in JobRecord
  BY DEF StartJob, BeginStart, Spawn, AwaitReady, BindIdentity, RecordRunning,
     CheckDeadline, ExposeGate, CleanupStart, At, Head, TypeOK
<1>2. arrival' = arrival /\ \A i \in Jobs \ {j} : rec'[i] = rec[i]
  BY DEF StartJob, BeginStart, Spawn, AwaitReady, BindIdentity, RecordRunning,
     CheckDeadline, ExposeGate, CleanupStart, TypeOK
<1>3. CASE BeginStart(j)
  <2>1. CASE AbortPass
    BY <2>1, AbortedPass
  <2>2. CASE Goto("spawn") /\ rec' = [rec EXCEPT ![j].state = "starting", ![j].ident = "none"]
    <3>1. rec'[j].state = "starting"
      BY <1>1, <2>2 DEF TypeOK, JobRecord
    <3>2. worker'[j] = "none"
      BY <1>1, <1>3 DEF BeginStart, At, PassShape, Evidence, Launched, procs
    <3> QED
      BY <1>1, <1>2, <2>2, <3>1, <3>2, GotoPass
  <2> QED
    BY <1>3, <2>1, <2>2 DEF BeginStart
<1>4. CASE Spawn(j)
  <2>1. rec' = rec /\ rec[j].state = "starting" /\ (Goto("ready") \/ Goto("cleanup"))
    BY <1>1, <1>4 DEF Spawn, At, PassShape
  <2> QED
    BY <1>1, <1>2, <2>1, GotoPass
<1>5. CASE AwaitReady(j)
  <2>1. rec' = rec /\ rec[j].state = "starting" /\ (Goto("identify") \/ Goto("cleanup"))
    BY <1>1, <1>5 DEF AwaitReady, At, PassShape
  <2> QED
    BY <1>1, <1>2, <2>1, GotoPass
<1>6. CASE BindIdentity(j)
  <2>1. rec[j].state = "starting"
    BY <1>1, <1>6 DEF BindIdentity, At, PassShape
  <2>2. /\ rec'[j].state = "starting"
        /\ \/ Goto("release") /\ rec'[j].ident = "full"
           \/ Goto("cleanup-known")
    BY <1>1, <1>6, <2>1 DEF BindIdentity, TypeOK, JobRecord
  <2> QED
    BY <1>1, <1>2, <2>2, GotoPass
<1>7. CASE RecordRunning(j)
  <2>1. rec[j].state = "starting" /\ rec[j].ident = "full"
    BY <1>1, <1>7 DEF RecordRunning, At, PassShape
  <2>2. \/ rec' = [rec EXCEPT ![j].state = "running"] /\ (Goto("publish") \/ Goto("cleanup-known"))
        \/ rec' = rec /\ Goto("cleanup-known")
    BY <1>7 DEF RecordRunning
  <2>3. \/ /\ rec'[j].state = "running" /\ rec'[j].ident = "full"
           /\ Goto("publish") \/ Goto("cleanup-known")
        \/ rec'[j].state = "starting" /\ Goto("cleanup-known")
    BY <1>1, <2>1, <2>2 DEF TypeOK, JobRecord
  <2> QED
    BY <1>1, <1>2, <2>3, GotoPass
<1>8. CASE CheckDeadline(j)
  <2>1. rec[j].state = "running" /\ rec[j].ident = "full"
    BY <1>1, <1>8 DEF CheckDeadline, At, PassShape
  <2>2. rec' = rec /\ (Goto("expose") \/ Goto("cleanup-known"))
    BY <1>8 DEF CheckDeadline
  <2> QED
    BY <1>1, <1>2, <2>1, <2>2, GotoPass
<1>9. CASE ExposeGate(j)
  <2>1. rec' = rec /\ rec[j].state = "running" /\ (JobDone(j) \/ Goto("cleanup-known"))
    BY <1>1, <1>9 DEF ExposeGate, At, PassShape
  <2>2. CASE JobDone(j)
    BY <1>1, <1>2, <2>2, JobDonePass
  <2>3. CASE Goto("cleanup-known")
    BY <1>1, <1>2, <2>1, <2>3, GotoPass
  <2> QED
    BY <2>1, <2>2, <2>3
<1>10. CASE CleanupStart(j)
  <2>1. JobDone(j) \/ AbortPass
    BY <1>10, CleanupEffect
  <2> QED
    BY <1>1, <1>2, <2>1, JobDonePass, AbortedPass
<1> QED
  BY <1>3, <1>4, <1>5, <1>6, <1>7, <1>8, <1>9, <1>10 DEF StartJob

LEMMA PassShapeNext ==
    TypeOK /\ PassShape /\ ArrivalOrder /\ Evidence /\ TypeOK' /\ Next => PassShape'
<1> SUFFICES ASSUME TypeOK, PassShape, ArrivalOrder, Evidence, TypeOK', Next PROVE PassShape'
  OBVIOUS
<1>1. CASE Refresh \/ Start
  <2>1. /\ step' = "idle" /\ todo' = Slots
        /\ IF Slots = {} THEN batch' \in Batches(rec, arrival) ELSE batch' = {}
    BY <1>1 DEF Refresh, Start, CanServe, LockFree
  <2>2. \A i \in batch' : rec[i].state = "queued"
    BY <2>1 DEF Batches
  <2>3. rec' = rec
    BY <1>1 DEF Refresh, Start
  <2> QED
    BY <2>1, <2>2, <2>3, IdlePass
<1>2. CASE Close \/ Crash
  BY <1>2, IdlePass DEF Close, Crash, CanServe, LockFree
<1>3. ASSUME NEW j \in Jobs, Submit(j) PROVE PassShape'
  <2>1. CASE AbortPass
    BY <2>1, AbortedPass
  <2>2. CASE batch' \in Batches(rec', arrival') /\ UNCHANGED <<mgr, todo, step>>
    <3>1. \A i \in batch' : rec'[i].state = "queued"
      BY <2>2 DEF Batches
    <3> QED
      BY <1>3, <2>2, <3>1, IdlePass DEF Submit, CanServe, LockFree
  <2> QED
    BY <1>3, <2>1, <2>2 DEF Submit
<1>4. ASSUME NEW j \in Jobs, StartJob(j) PROVE PassShape'
  BY <1>4, StartJobPass
<1>5. ASSUME NEW j \in Jobs, Reconcile(j) PROVE PassShape'
  <2>1. CASE NextRecord(j, rec')
    BY <2>1, NextRecordPass
  <2>2. CASE AbortPass
    BY <2>2, AbortedPass
  <2>3. CASE j \in todo /\ Goto("unfinished")
    BY <2>3 DEF Goto, PassShape, StartSteps
  <2> QED
    BY <1>5, <2>1, <2>2, <2>3 DEF Reconcile, ReconcileStarting, StillRunning, FinishJob,
       FinishReconciliationFailure
<1>6. ASSUME NEW j \in Jobs, Cancel(j) \/ TerminateProcess(j) PROVE PassShape'
  BY <1>6, IdlePass DEF Cancel, CancelQueued, CancelStarting, CancelActive, TerminateProcess,
     CanServe, LockFree, pass
<1>7. ASSUME NEW j \in Jobs, Worker(j) \/ DeadlinePasses(j) PROVE PassShape'
  <2>1. UNCHANGED <<rec, arrival, todo, batch, step>>
    BY <1>7 DEF Worker, PublishReady, SeeGate, RefuseToWait, ReportRefusal, ReportExecution,
       WorkerExits, WorkerDies, StrayExits, DeadlinePasses, pass
  <2>2. \A i \in Jobs : worker[i] = "none" => worker'[i] = "none"
    BY <1>7 DEF Worker, PublishReady, SeeGate, RefuseToWait, ReportRefusal, ReportExecution,
       WorkerExits, WorkerDies, StrayExits, DeadlinePasses, Become, LeaderAlive, TypeOK
  <2>3. \A i : Head(i)' <=> Head(i)
    BY <2>1 DEF Head
  <2> QED
    BY <2>1, <2>2, <2>3 DEF PassShape, TypeOK
<1> QED
  BY <1>1, <1>2, <1>3, <1>4, <1>5, <1>6, <1>7 DEF Next

-----------------------------------------------------------------------------
(* Evidence: the files, the record and the process of one job *)

EvidenceOf(k) ==
    /\ ~Launched(k) => worker[k] = "none"
    /\ worker[k] = "none" => result[k] = "none"
    /\ result[k] # "none" => worker[k] \in {"reported", "exited"}
    /\ k \in gate => Launched(k) /\ rec[k].state # "starting"
    /\ rec[k].state = "running" \/ (k \in gate /\ rec[k].state = "cancelling")
          => rec[k].ident = "full"
    /\ worker[k] = "executing" => k \in gate
    /\ k \in gate /\ worker[k] \in {"booting", "waiting", "executing"}
          => rec[k].state \in {"running", "cancelling"}

LEMMA EvidenceSplit == Evidence <=> \A k \in Jobs : EvidenceOf(k)
BY DEF Evidence, EvidenceOf

\* A job that a step does not touch keeps its evidence.
LEMMA Untouched ==
    ASSUME NEW k, EvidenceOf(k), rec'[k] = rec[k], worker'[k] = worker[k],
           result'[k] = result[k], k \in gate' <=> k \in gate
    PROVE  EvidenceOf(k)'
BY DEF EvidenceOf, Launched

LEMMA StartJobEvidence ==
    ASSUME TypeOK, PassShape, ArrivalOrder, Evidence, NEW j \in Jobs, StartJob(j)
    PROVE  EvidenceOf(j)'
<1> USE DEF EvidenceOf, Launched
<1>1. j \in batch /\ Head(j) /\ rec[j] \in JobRecord /\ EvidenceOf(j)
  BY EvidenceSplit DEF StartJob, BeginStart, Spawn, AwaitReady, BindIdentity, RecordRunning,
     CheckDeadline, ExposeGate, CleanupStart, At, Head, TypeOK
<1>2. CASE BeginStart(j)
  <2>1. rec[j].state = "queued"
    BY <1>1, <1>2 DEF BeginStart, At, PassShape
  <2>2. rec' = rec \/ rec'[j].state = "starting"
    BY <1>1, <1>2 DEF BeginStart, TypeOK, JobRecord
  <2> QED
    BY <1>1, <1>2, <2>1, <2>2 DEF BeginStart, files, procs
<1>3. CASE Spawn(j)
  <2>1. rec[j].state = "starting" /\ worker[j] = "none" /\ rec' = rec
    BY <1>1, <1>3 DEF Spawn, At, PassShape
  <2>2. worker'[j] \in {"none", "booting"} /\ result' = result /\ gate' = gate
    BY <1>3, <2>1 DEF Spawn, files, TypeOK
  <2> QED
    BY <1>1, <2>1, <2>2
<1>4. CASE AwaitReady(j) \/ CheckDeadline(j)
  BY <1>1, <1>4 DEF AwaitReady, CheckDeadline, files, procs
<1>5. CASE BindIdentity(j)
  <2>1. rec[j].state = "starting"
    BY <1>1, <1>5 DEF BindIdentity, At, PassShape
  <2>2. rec'[j].state = "starting"
    BY <1>1, <1>5, <2>1 DEF BindIdentity, TypeOK, JobRecord
  <2> QED
    BY <1>1, <1>5, <2>1, <2>2 DEF BindIdentity, files, procs
<1>6. CASE RecordRunning(j)
  <2>1. rec[j].state = "starting" /\ rec[j].ident = "full"
    BY <1>1, <1>6 DEF RecordRunning, At, PassShape
  <2>2. rec'[j].state \in {"starting", "running"} /\ rec'[j].ident = "full"
        /\ (rec'[j].state = "starting" => rec' = rec)
    BY <1>1, <1>6, <2>1 DEF RecordRunning, TypeOK, JobRecord
  <2> QED
    BY <1>1, <1>6, <2>1, <2>2 DEF RecordRunning, files, procs
<1>7. CASE ExposeGate(j)
  <2>1. rec[j].state = "running" /\ rec[j].ident = "full" /\ rec' = rec
    BY <1>1, <1>7 DEF ExposeGate, At, PassShape
  <2> QED
    BY <1>1, <1>7, <2>1 DEF ExposeGate, procs
<1>8. CASE CleanupStart(j)
  <2>1. rec[j].state \in {"starting", "running"}
    BY <1>1, <1>8 DEF CleanupStart, At, PassShape
  <2>2. gate' = gate /\ result' = result
    BY <1>8 DEF CleanupStart, files
  <2>3. PICK left \in {"stopped", "stray", "alive"}, new \in JobRecord :
          /\ ApplyTermination(j, left)
          /\ rec' \in {rec, [rec EXCEPT ![j] = new]}
          /\ left = "alive" => /\ LeaderAlive(j) /\ new.state = "cancelling"
                               /\ rec[j].ident # "none" => new.ident = rec[j].ident
          /\ left # "alive" => new.state = "failed" /\ new.ident = "none"
    BY <1>8, CleanupEffect
  <2>4. rec'[j] = rec[j] \/ rec'[j] = new
    BY <2>3 DEF TypeOK
  <2>5. CASE left = "alive"
    <3>1. worker' = worker
      BY <2>3, <2>5 DEF ApplyTermination
    <3> QED
      BY <1>1, <2>1, <2>2, <2>3, <2>4, <2>5, <3>1
  <2>6. CASE left # "alive"
    <3>1. worker'[j] = IF worker[j] = "none" THEN "none" ELSE "exited"
      BY <2>3, <2>6 DEF ApplyTermination, TypeOK
    <3>2. new.state = "failed"
      BY <2>3, <2>6
    <3> HIDE DEF EvidenceOf
    <3>3. CASE rec'[j] = rec[j]
      BY <1>1, <2>1, <2>2, <3>1, <3>3 DEF EvidenceOf
    <3>4. CASE rec'[j] = new
      BY <1>1, <2>1, <2>2, <3>1, <3>2, <3>4 DEF EvidenceOf
    <3> QED
      BY <2>4, <3>3, <3>4
  <2> QED
    BY <2>5, <2>6
<1> QED
  BY <1>2, <1>3, <1>4, <1>5, <1>6, <1>7, <1>8 DEF StartJob

LEMMA RecordEvidence ==
    ASSUME TypeOK, Evidence, NEW j \in Jobs, Reconcile(j) \/ Cancel(j)
    PROVE  EvidenceOf(j)'
<1> USE DEF EvidenceOf, Launched
<1>1. EvidenceOf(j) /\ rec[j] \in JobRecord
  BY EvidenceSplit DEF TypeOK
<1>2. worker' = worker /\ result' = result /\ gate' = gate
  BY DEF Reconcile, ReconcileStarting, StillRunning, FinishJob, FinishReconciliationFailure,
     Cancel, CancelQueued, CancelStarting, CancelActive, files, procs
<1>3. CASE ReconcileStarting(j)
  <2>1. PICK r \in JobRecord :
          /\ rec' \in {rec, [rec EXCEPT ![j] = r]}
          /\ r.state \in {"starting", "cancelling", "failed", "cancelled"}
    BY <1>3, ReconcileStartingEffect
  <2>2. rec'[j] = rec[j] \/ rec'[j].state \in {"starting", "cancelling", "failed", "cancelled"}
    BY <2>1 DEF TypeOK
  <2> QED
    BY <1>1, <1>2, <1>3, <2>2 DEF ReconcileStarting
<1>4. CASE CancelStarting(j)
  <2>1. PICK new \in JobRecord :
          /\ rec' = [rec EXCEPT ![j] = new]
          /\ new.state \in {"starting", "cancelling", "failed", "cancelled"}
    BY <1>4, CancelStartingEffect
  <2>2. rec'[j].state \in {"starting", "cancelling", "failed", "cancelled"}
    BY <2>1 DEF TypeOK
  <2> QED
    BY <1>1, <1>2, <1>4, <2>2 DEF CancelStarting
<1>5. CASE StillRunning(j)
  BY <1>1, <1>2, <1>5 DEF StillRunning
<1>6. CASE FinishJob(j)
  <2>1. ~LeaderAlive(j) /\ (rec'[j] = rec[j] \/ rec'[j].state \in Terminal)
    BY <1>6, FinishEffect DEF TypeOK
  <2> QED
    BY <1>1, <1>2, <1>6, <2>1 DEF FinishJob, LeaderAlive, Terminal
<1>7. CASE FinishReconciliationFailure(j)
  <2>1. rec[j].state \in Terminal /\ rec'[j].state \in Terminal
    BY <1>1, <1>7 DEF FinishReconciliationFailure, TypeOK, JobRecord, Terminal
  <2> QED
    BY <1>1, <1>2, <2>1 DEF Terminal
<1>8. CASE CancelQueued(j)
  <2>1. rec[j].state = "queued" /\ rec'[j].state = "cancelled"
    BY <1>1, <1>8 DEF CancelQueued, TypeOK, JobRecord
  <2> QED
    BY <1>1, <1>2, <2>1
<1>9. CASE CancelActive(j)
  <2>1. /\ rec[j].state \in {"running", "cancelling"}
        /\ rec'[j].state = "cancelling" /\ rec'[j].ident = rec[j].ident
    BY <1>1, <1>9, CancellingType DEF CancelActive, RequestTermination, TypeOK
  <2> QED
    BY <1>1, <1>2, <2>1
<1> QED
  BY <1>3, <1>4, <1>5, <1>6, <1>7, <1>8, <1>9 DEF Reconcile, Cancel

\* A job other than the one a lock-holder step works on is not touched by it.
LEMMA OthersUntouched ==
    ASSUME TypeOK, NEW j \in Jobs, NEW k \in Jobs \ {j},
           \/ Submit(j) \/ StartJob(j) \/ Reconcile(j) \/ Cancel(j)
           \/ TerminateProcess(j) \/ Worker(j) \/ DeadlinePasses(j)
    PROVE  /\ rec'[k] = rec[k] /\ worker'[k] = worker[k] /\ result'[k] = result[k]
           /\ k \in gate' <=> k \in gate
           /\ k \in strays' <=> k \in strays
<1> USE DEF TypeOK, files, procs, pass
<1>1. CASE Submit(j)
  BY <1>1 DEF Submit
<1>2. CASE StartJob(j)
  BY <1>2 DEF StartJob, BeginStart, Spawn, AwaitReady, BindIdentity, RecordRunning,
     CheckDeadline, ExposeGate, CleanupStart, ApplyTermination
<1>3. CASE Reconcile(j)
  BY <1>3 DEF Reconcile, ReconcileStarting, StillRunning, FinishJob, FinishReconciliationFailure
<1>4. CASE Cancel(j)
  BY <1>4 DEF Cancel, CancelQueued, CancelStarting, CancelActive, RequestTermination
<1>5. CASE TerminateProcess(j)
  BY <1>5 DEF TerminateProcess, ApplyTermination
<1>6. CASE Worker(j) \/ DeadlinePasses(j)
  BY <1>6 DEF Worker, PublishReady, SeeGate, RefuseToWait, ReportRefusal, ReportExecution,
     WorkerExits, WorkerDies, StrayExits, DeadlinePasses, Become
<1> QED
  BY <1>1, <1>2, <1>3, <1>4, <1>5, <1>6

LEMMA EvidenceNext ==
    TypeOK /\ PassShape /\ ArrivalOrder /\ Evidence /\ TypeOK' /\ Next => Evidence'
<1> SUFFICES ASSUME TypeOK, PassShape, ArrivalOrder, Evidence, TypeOK', Next,
                    NEW k \in Jobs
             PROVE  EvidenceOf(k)'
  BY DEF Evidence, EvidenceOf
<1>1. EvidenceOf(k)
  BY EvidenceSplit
<1>2. CASE Refresh \/ Start \/ Close \/ Crash
  BY <1>1, <1>2, Untouched DEF Refresh, Start, Close, Crash, files, procs
<1>3. ASSUME NEW j \in Jobs,
             \/ Submit(j) \/ StartJob(j) \/ Reconcile(j) \/ Cancel(j)
             \/ TerminateProcess(j) \/ Worker(j) \/ DeadlinePasses(j)
      PROVE  EvidenceOf(k)'
  <2>1. CASE k # j
    BY <1>1, <1>3, <2>1, OthersUntouched, Untouched
  <2>2. CASE k = j /\ (StartJob(j) \/ Reconcile(j) \/ Cancel(j))
    BY <2>2, StartJobEvidence, RecordEvidence
  <2>3. CASE k = j /\ DeadlinePasses(j)
    BY <1>1, <2>3, Untouched DEF DeadlinePasses, files
  <2>4. CASE k = j /\ Submit(j)
    <3>1. rec[j].state = "absent" /\ rec'[j].state = "queued"
      BY <2>4 DEF Submit, TypeOK, JobRecord
    <3>2. worker' = worker /\ result' = result /\ gate' = gate
      BY <2>4 DEF Submit, files, procs
    <3> QED
      BY <1>1, <2>4, <3>1, <3>2 DEF EvidenceOf, Launched
  <2>5. CASE k = j /\ TerminateProcess(j)
    <3>1. rec' = rec /\ result' = result /\ gate' = gate
      BY <2>5 DEF TerminateProcess, files
    <3>2. worker'[j] = worker[j] \/ (worker[j] # "none" /\ worker'[j] = "exited")
      BY <2>5 DEF TerminateProcess, ApplyTermination, TypeOK
    <3> QED
      BY <1>1, <2>5, <3>1, <3>2 DEF EvidenceOf, Launched
  <2>6. CASE k = j /\ Worker(j)
    <3>1. rec' = rec /\ gate' = gate
      BY <2>6 DEF Worker, PublishReady, SeeGate, RefuseToWait, ReportRefusal, ReportExecution,
         WorkerExits, WorkerDies, StrayExits, files
    <3>2. \/ worker'[j] = worker[j] /\ result' = result
          \/ worker[j] = "booting" /\ worker'[j] = "waiting" /\ result' = result
          \/ worker[j] = "waiting" /\ j \in gate /\ worker'[j] = "executing" /\ result' = result
          \/ worker[j] = "waiting" /\ worker'[j] = "refusing" /\ result' = result
          \/ worker[j] \in {"refusing", "executing"} /\ worker'[j] = "reported"
          \/ worker[j] # "none" /\ worker'[j] = "exited" /\ result' = result
      BY <2>6 DEF Worker, PublishReady, SeeGate, RefuseToWait, ReportRefusal, ReportExecution,
         WorkerExits, WorkerDies, StrayExits, files, Become, LeaderAlive, TypeOK
    <3> QED
      BY <1>1, <2>6, <3>1, <3>2 DEF EvidenceOf, Launched
  <2> QED
    BY <1>3, <2>1, <2>2, <2>3, <2>4, <2>5, <2>6
<1> QED
  BY <1>2, <1>3 DEF Next

-----------------------------------------------------------------------------
(* CompletedIsGenuine *)

Genuine(k) ==
    rec[k].state = "completed" =>
        result[k] = "ok" /\ ~LeaderAlive(k) /\ k \notin strays /\ ~rec[k].cancel

\* A record becomes COMPLETED only in _finish_job.
LEMMA OnlyFinishCompletes ==
    ASSUME TypeOK, PassShape, TypeOK', NEW j \in Jobs,
           Submit(j) \/ StartJob(j) \/ Reconcile(j) \/ Cancel(j),
           rec'[j].state = "completed", rec'[j] # rec[j]
    PROVE  FinishJob(j)
<1>1. CASE Submit(j)
  BY <1>1 DEF Submit, TypeOK, JobRecord
<1>2. CASE StartJob(j)
  <2>1. CASE CleanupStart(j)
    <3>1. PICK new \in JobRecord : rec' \in {rec, [rec EXCEPT ![j] = new]}
                                   /\ new.state \in {"cancelling", "failed"}
      BY <2>1, CleanupEffect
    <3> QED
      BY <3>1 DEF TypeOK
  <2>2. CASE BindIdentity(j)
    <3>1. rec[j].state = "starting"
      BY <2>2 DEF BindIdentity, At, Head, PassShape
    <3> QED
      BY <2>2, <3>1 DEF BindIdentity, TypeOK, JobRecord
  <2> QED
    BY <1>2, <2>1, <2>2 DEF StartJob, BeginStart, Spawn, AwaitReady, RecordRunning,
       CheckDeadline, ExposeGate, TypeOK, JobRecord
<1>3. CASE Reconcile(j)
  <2>1. CASE ReconcileStarting(j)
    <3>1. PICK r \in JobRecord : rec' \in {rec, [rec EXCEPT ![j] = r]} /\ r.state # "completed"
      BY <2>1, ReconcileStartingEffect
    <3> QED
      BY <3>1 DEF TypeOK
  <2>2. CASE FinishReconciliationFailure(j)
    BY <2>2 DEF FinishReconciliationFailure, TypeOK, JobRecord
  <2> QED
    BY <1>3, <2>1, <2>2 DEF Reconcile, StillRunning
<1>4. CASE Cancel(j)
  <2>1. CASE CancelStarting(j)
    <3>1. PICK new \in JobRecord : rec' = [rec EXCEPT ![j] = new] /\ new.state # "completed"
      BY <2>1, CancelStartingEffect
    <3> QED
      BY <3>1 DEF TypeOK
  <2>2. CASE CancelQueued(j)
    BY <2>2 DEF CancelQueued, TypeOK, JobRecord
  <2>3. CASE CancelActive(j)
    BY <2>3, CancellingType DEF CancelActive, RequestTermination, TypeOK
  <2> QED
    BY <1>4, <2>1, <2>2, <2>3 DEF Cancel
<1> QED
  BY <1>1, <1>2, <1>3, <1>4

LEMMA CompletedNext ==
    TypeOK /\ PassShape /\ Evidence /\ CompletedIsGenuine /\ TypeOK' /\ Next
        => CompletedIsGenuine'
<1> SUFFICES ASSUME TypeOK, PassShape, Evidence, CompletedIsGenuine, TypeOK', Next,
                    NEW k \in Jobs
             PROVE  Genuine(k)'
  BY DEF CompletedIsGenuine, Genuine
<1>1. Genuine(k)
  BY DEF CompletedIsGenuine, Genuine
<1>2. CASE Refresh \/ Start \/ Close \/ Crash
  BY <1>1, <1>2 DEF Refresh, Start, Close, Crash, files, procs, Genuine, LeaderAlive
<1>3. ASSUME NEW j \in Jobs,
             \/ Submit(j) \/ StartJob(j) \/ Reconcile(j) \/ Cancel(j)
             \/ TerminateProcess(j) \/ Worker(j) \/ DeadlinePasses(j)
      PROVE  Genuine(k)'
  <2>1. CASE k # j
    BY <1>1, <1>3, <2>1, OthersUntouched DEF Genuine, LeaderAlive
  <2>2. CASE k = j /\ (Submit(j) \/ StartJob(j) \/ Reconcile(j) \/ Cancel(j))
    <3> SUFFICES ASSUME rec'[j].state = "completed" PROVE Genuine(k)'
      BY <2>2 DEF Genuine
    <3>1. CASE rec'[j] = rec[j]
      <4>1. ~StartJob(j)
        BY <2>2, <3>1 DEF StartJob, BeginStart, Spawn, AwaitReady, BindIdentity, RecordRunning,
           CheckDeadline, ExposeGate, CleanupStart, At, Head, PassShape
      <4>2. worker' = worker /\ result' = result /\ strays' = strays
        BY <2>2, <4>1 DEF Submit, Reconcile, ReconcileStarting, StillRunning, FinishJob,
           FinishReconciliationFailure, Cancel, CancelQueued, CancelStarting, CancelActive,
           files, procs
      <4> QED
        BY <1>1, <2>2, <3>1, <4>2 DEF Genuine, LeaderAlive
    <3>2. CASE rec'[j] # rec[j]
      <4>1. FinishJob(j)
        BY <2>2, <3>2, OnlyFinishCompletes
      <4>2. worker' = worker /\ result' = result /\ strays' = strays
        BY <4>1 DEF FinishJob, files, procs
      <4>3. PICK new \in JobRecord :
              /\ rec'[j] = new /\ new.cancel = rec[j].cancel
              /\ new.state = "completed" =>
                   result[j] = "ok" /\ rec[j].state = "running" /\ ~rec[j].cancel
        BY <3>2, <4>1, FinishEffect DEF TypeOK
      <4>4. ~LeaderAlive(j) /\ j \notin strays
        BY <4>1, <4>3, FinishEffect DEF Evidence
      <4> QED
        BY <2>2, <4>2, <4>3, <4>4 DEF Genuine, LeaderAlive
    <3> QED
      BY <3>1, <3>2
  <2>3. CASE k = j /\ TerminateProcess(j)
    <3>1. rec' = rec /\ result' = result
      BY <2>3 DEF TerminateProcess, files
    <3>2. ~LeaderAlive(j) /\ j \notin strays => ~LeaderAlive(j)' /\ j \notin strays'
      BY <2>3, TerminationShape DEF TerminateProcess, ApplyTermination, LeaderAlive, TypeOK
    <3> QED
      BY <1>1, <2>3, <3>1, <3>2 DEF Genuine
  <2>4. CASE k = j /\ (Worker(j) \/ DeadlinePasses(j))
    <3>1. rec' = rec
      BY <2>4 DEF Worker, PublishReady, SeeGate, RefuseToWait, ReportRefusal, ReportExecution,
         WorkerExits, WorkerDies, StrayExits, DeadlinePasses
    <3>2. ~LeaderAlive(j) /\ j \notin strays =>
            ~LeaderAlive(j)' /\ j \notin strays' /\ result'[j] = result[j]
      BY <2>4 DEF Worker, PublishReady, SeeGate, RefuseToWait, ReportRefusal, ReportExecution,
         WorkerExits, WorkerDies, StrayExits, DeadlinePasses, Become, files, LeaderAlive, TypeOK
    <3> QED
      BY <1>1, <2>4, <3>1, <3>2 DEF Genuine
  <2> QED
    BY <1>3, <2>1, <2>2, <2>3, <2>4
<1> QED
  BY <1>2, <1>3 DEF Next

-----------------------------------------------------------------------------
(* OldestInBatch *)

\* A job leaves a batch that goes on only when it is no longer queued.
LEMMA BatchShrinks ==
    ASSUME TypeOK, PassShape, TypeOK', Next, \A j \in Jobs : ~Submit(j)
    PROVE  \/ batch' = {} \/ batch' \in Batches(rec', arrival')
           \/ batch' \subseteq batch /\ \A i \in batch \ batch' : rec'[i].state # "queued"
<1>1. CASE Refresh \/ Start \/ Close \/ Crash
  BY <1>1 DEF Refresh, Start, Close, Crash
<1>2. ASSUME NEW j \in Jobs, StartJob(j)
      PROVE  \/ batch' = {}
             \/ batch' \subseteq batch /\ \A i \in batch \ batch' : rec'[i].state # "queued"
  <2>1. CASE batch' = {} \/ batch' = batch
    BY <2>1
  <2>2. CASE JobDone(j) /\ (ExposeGate(j) \/ CleanupStart(j))
    <3>1. rec[j].state \in {"starting", "running"} /\ batch' = batch \ {j}
      BY <2>2 DEF ExposeGate, CleanupStart, At, Head, PassShape, JobDone
    <3>2. Ages(j)
      BY RecordSteps
    <3> QED
      BY <3>1, <3>2 DEF Ages
  <2>3. \/ batch' = {} \/ batch' = batch
        \/ JobDone(j) /\ (ExposeGate(j) \/ CleanupStart(j))
    <3>1. CASE CleanupStart(j)
      BY <3>1, CleanupEffect DEF AbortPass
    <3> QED
      BY <1>2, <3>1 DEF StartJob, BeginStart, Spawn, AwaitReady, BindIdentity, RecordRunning,
         CheckDeadline, ExposeGate, Goto, AbortPass
  <2> QED
    BY <2>1, <2>2, <2>3
<1>3. ASSUME NEW j \in Jobs, Reconcile(j)
      PROVE  batch' = batch \/ batch' = {} \/ batch' \in Batches(rec', arrival')
  BY <1>3 DEF Reconcile, ReconcileStarting, StillRunning, FinishJob,
     FinishReconciliationFailure, NextRecord, AbortPass, Goto
<1>4. ASSUME NEW j \in Jobs,
             Cancel(j) \/ TerminateProcess(j) \/ Worker(j) \/ DeadlinePasses(j)
      PROVE  batch' = batch
  BY <1>4 DEF Cancel, CancelQueued, CancelStarting, CancelActive, TerminateProcess, Worker,
     PublishReady, SeeGate, RefuseToWait, ReportRefusal, ReportExecution, WorkerExits,
     WorkerDies, StrayExits, DeadlinePasses, pass
<1> QED
  BY <1>1, <1>2, <1>3, <1>4 DEF Next

LEMMA OldestNext ==
    TypeOK /\ PassShape /\ OldestInBatch /\ TypeOK' /\ Next => OldestInBatch'
<1> SUFFICES ASSUME TypeOK, PassShape, OldestInBatch, TypeOK', Next,
                    NEW j \in batch', NEW i \in Queued', arrival'[i] < arrival'[j]
             PROVE  i \in batch'
  BY DEF OldestInBatch
<1>1. i \in Jobs /\ j \in Jobs /\ arrival'[i] \in Nat /\ arrival'[j] \in Nat
  BY DEF Queued, TypeOK
<1>2. CASE batch' \in Batches(rec', arrival')
  <2>1. \A b \in batch', k \in Queued' \ batch' : arrival'[b] < arrival'[k]
    BY <1>2 DEF Batches, Queued
  <2> QED
    BY <1>1, <2>1
<1>3. CASE \E k \in Jobs : Submit(k)
  <2>1. batch' = {} \/ batch' \in Batches(rec', arrival')
    BY <1>3 DEF Submit, AbortPass
  <2> QED
    BY <1>2, <2>1
<1>4. CASE /\ \A k \in Jobs : ~Submit(k)
           /\ batch' \subseteq batch /\ \A k \in batch \ batch' : rec'[k].state # "queued"
  <2>1. arrival' = arrival /\ rec'[i] = rec[i]
    BY <1>1, <1>4, RecordSteps DEF Ages, Queued
  <2>2. i \in Queued /\ rec'[i].state = "queued"
    BY <2>1 DEF Queued
  <2>3. i \in batch
    BY <1>4, <2>1, <2>2 DEF OldestInBatch
  <2> QED
    BY <1>4, <2>2, <2>3
<1> QED
  BY <1>2, <1>3, <1>4, BatchShrinks

-----------------------------------------------------------------------------
(* The theorems *)

LEMMA InductiveInit == Init => Inductive
<1> SUFFICES ASSUME Init PROVE Inductive
  OBVIOUS
<1>1. TypeOK
  BY TypeInit
<1>2. ArrivalOrder
  BY DEF Init, ArrivalOrder, Submitted
<1>3. PassShape
  BY DEF Init, PassShape, StartSteps
<1>4. Evidence
  BY DEF Init, Evidence, Launched
<1>5. Slots \cup batch = {}
  BY DEF Init, Slots, SlotStates
<1>6. Reserved
  BY <1>5, FS_EmptySet, LimitsAssumption DEF Reserved
<1>7. CompletedIsGenuine
  BY DEF Init, CompletedIsGenuine
<1>8. OldestInBatch
  BY DEF Init, OldestInBatch
<1> QED
  BY <1>1, <1>2, <1>3, <1>4, <1>6, <1>7, <1>8 DEF Inductive

LEMMA InductiveNext == Inductive /\ [Next]_vars => Inductive'
<1> SUFFICES ASSUME Inductive, [Next]_vars PROVE Inductive'
  OBVIOUS
<1> USE DEF Inductive
<1>1. TypeOK'
  BY TypeNext
<1>2. CASE Next
  BY <1>1, <1>2, ArrivalNext, PassShapeNext, OldestNext, EvidenceNext, ReservedNext,
     CompletedNext
<1>3. CASE UNCHANGED vars
  BY <1>1, <1>3 DEF vars, ArrivalOrder, Submitted, PassShape, Head, Evidence, Launched,
     Reserved, Slots, CompletedIsGenuine, LeaderAlive, OldestInBatch, Queued
<1> QED
  BY <1>2, <1>3

\* Whatever the jobs, the limit and the faults: the launch protocol keeps the
\* record, the files and the process of every job consistent (_start_job,
\* _reconcile_starting, refresh, cancel and run_worker together).
THEOREM InductiveInvariant == Spec => []Inductive
BY InductiveInit, InductiveNext, PTL DEF Spec

\* The records and process tables keep their types, and only a record in a
\* slot state names a process (_write_record after every transition).
THEOREM TypeCorrect == Spec => []TypeOK
BY InductiveInvariant, PTL DEF Inductive

\* max_concurrent_jobs bounds the slots in use although _start_queued_jobs
\* sizes a batch once, before any of its launches.
THEOREM SlotBoundHolds == Spec => []SlotBound
<1>1. Inductive => SlotBound
  <2> SUFFICES ASSUME Inductive PROVE SlotBound
    OBVIOUS
  <2>1. IsFiniteSet(Slots \cup batch) /\ Cardinality(Slots) \in Nat
        /\ Cardinality(Slots \cup batch) \in Nat
    BY CountType DEF Inductive, TypeOK, Slots
  <2>2. Cardinality(Slots) <= Cardinality(Slots \cup batch)
    BY <2>1, FS_Subset
  <2> QED
    BY <2>1, <2>2, LimitsAssumption DEF Inductive, Reserved, SlotBound
<1> QED
  BY <1>1, InductiveInvariant, PTL

\* A worker past its gate always belongs to a record that holds a slot and
\* knows the process: what refresh and cancel need in order to reach it.
THEOREM WorkflowHoldsSlotAlways == Spec => []WorkflowHoldsSlot
<1>1. Inductive => WorkflowHoldsSlot
  BY DEF Inductive, Evidence, WorkflowHoldsSlot
<1> QED
  BY <1>1, InductiveInvariant, PTL

\* No gate file is left, or published later, for the waiting worker of a job
\* that _start_job or _reconcile_starting has given up.
THEOREM NoLateReleaseEver == Spec => []NoLateRelease
<1>1. Inductive => NoLateRelease
  BY DEF Inductive, Evidence, NoLateRelease, Terminal
<1> QED
  BY <1>1, InductiveInvariant, PTL

\* _finish_job reports COMPLETED only for a successful result of a worker
\* whose process group is gone and that nobody cancelled.
THEOREM CompletedIsGenuineAlways == Spec => []CompletedIsGenuine
BY InductiveInvariant, PTL DEF Inductive

\* _start_queued_jobs and _start_job never let a younger job pass an older one.
THEOREM StartsInOrderAlways == Spec => StartsInOrder
<1>1. ASSUME Inductive, Inductive', [Next]_vars, NEW i \in Jobs, NEW j \in Jobs,
             rec[i].state = "queued", rec[j].state = "queued", arrival[i] < arrival[j]
      PROVE  rec'[j].state # "starting"
  <2> SUFFICES ASSUME rec'[j].state = "starting" PROVE FALSE
    OBVIOUS
  <2> USE DEF Inductive
  <2>1. Next /\ (\A k \in Jobs : ~Submit(k)) /\ rec'[j] # rec[j]
    <3>1. rec'[j] # rec[j]
      BY <1>1
    <3>2. ASSUME NEW k \in Jobs, Submit(k) PROVE FALSE
      BY <1>1, <3>2 DEF Submit, TypeOK
    <3> QED
      BY <1>1, <3>1, <3>2 DEF vars
  <2>2. j \in batch /\ todo = {}
    <3>1. j \in Slots \cup batch
      BY <2>1, RecordSteps, <1>1 DEF Ages, SlotStates
    <3> QED
      BY <1>1, <3>1, BatchSubmitted DEF Slots, SlotStates
  <2>3. i \in batch
    BY <1>1, <2>2 DEF OldestInBatch, Queued
  <2>4. ~Head(j)
    BY <1>1, <2>3 DEF Head, TypeOK
  <2>5. PICK k \in Jobs : \/ StartJob(k) \/ Reconcile(k) \/ Cancel(k) \/ TerminateProcess(k)
                          \/ Worker(k) \/ DeadlinePasses(k)
    BY <2>1 DEF Next, Refresh, Start, Close, Crash
  <2>6. k = j
    BY <1>1, <2>1, <2>5, OthersUntouched
  <2>7. ~StartJob(j) /\ ~Reconcile(j)
    BY <2>2, <2>4 DEF StartJob, BeginStart, Spawn, AwaitReady, BindIdentity, RecordRunning,
       CheckDeadline, ExposeGate, CleanupStart, At, Reconcile, ReconcileStarting, StillRunning,
       FinishJob, FinishReconciliationFailure
  <2>8. ~Cancel(j) /\ ~TerminateProcess(j)
    BY <2>2 DEF Cancel, CancelQueued, CancelStarting, CancelActive, TerminateProcess,
       CanServe, LockFree
  <2>9. ~Worker(j) /\ ~DeadlinePasses(j)
    BY <2>1 DEF Worker, PublishReady, SeeGate, RefuseToWait, ReportRefusal, ReportExecution,
       WorkerExits, WorkerDies, StrayExits, DeadlinePasses
  <2> QED
    BY <2>5, <2>6, <2>7, <2>8, <2>9
<1>2. Inductive /\ Inductive' /\ [Next]_vars =>
        [\A i, j \in Jobs : /\ rec[i].state = "queued" /\ rec[j].state = "queued"
                            /\ arrival[i] < arrival[j]
                            => rec'[j].state # "starting"]_vars
  BY <1>1
<1> QED
  BY <1>2, InductiveInvariant, PTL DEF Spec, StartsInOrder

\* refresh and cancel settle a released job only when process_containment_is_alive
\* said that nobody of its containment is left.
THEOREM ReconciliationFreesDeadContainmentAlways == Spec => ReconciliationFreesDeadContainment
<1>1. ASSUME Inductive, Inductive', Next, NEW j \in Jobs,
             j \in gate, j \in Slots, rec'[j].state \in Terminal,
             step \notin {"cleanup", "cleanup-known"}
      PROVE  ~LeaderAlive(j) /\ j \notin strays
  <2> USE DEF Inductive
  <2>1. rec[j].state \in {"running", "cancelling"} /\ rec[j].ident = "full" /\ rec'[j] # rec[j]
    BY <1>1 DEF Evidence, Slots, SlotStates, Terminal
  <2>2. PICK k \in Jobs : \/ Submit(k) \/ StartJob(k) \/ Reconcile(k) \/ Cancel(k)
                          \/ TerminateProcess(k) \/ Worker(k) \/ DeadlinePasses(k)
    BY <1>1, <2>1 DEF Next, Refresh, Start, Close, Crash
  <2>3. k = j
    BY <1>1, <2>1, <2>2, OthersUntouched
  <2>4. ~Submit(j) /\ ~TerminateProcess(j) /\ ~Worker(j) /\ ~DeadlinePasses(j)
    BY <2>1 DEF Submit, TerminateProcess, Worker, PublishReady, SeeGate, RefuseToWait,
       ReportRefusal, ReportExecution, WorkerExits, WorkerDies, StrayExits, DeadlinePasses
  <2>5. ~StartJob(j)
    <3>1. ~CleanupStart(j) /\ ~BeginStart(j)
      BY <1>1, <2>1 DEF CleanupStart, BeginStart, At, Head, PassShape
    <3>2. ~BindIdentity(j) /\ ~RecordRunning(j)
      BY <2>1, <1>1 DEF BindIdentity, RecordRunning, At, Head, PassShape, Evidence
    <3> QED
      BY <2>1, <3>1, <3>2 DEF StartJob, Spawn, AwaitReady, CheckDeadline, ExposeGate
  <2>6. ~Cancel(j)
    <3>1. ~CancelActive(j)
      BY <1>1, CancellingType DEF CancelActive, RequestTermination, TypeOK, Terminal
    <3> QED
      BY <2>1, <3>1 DEF Cancel, CancelQueued, CancelStarting
  <2>7. FinishJob(j)
    BY <2>1, <2>2, <2>3, <2>4, <2>5, <2>6 DEF Reconcile, ReconcileStarting, StillRunning,
       FinishReconciliationFailure, Terminal
  <2> QED
    BY <1>1, <2>1, <2>7, FinishEffect
<1>2. Inductive /\ Inductive' /\ [Next]_vars =>
        [\A j \in Jobs : /\ j \in gate /\ j \in Slots /\ rec'[j].state \in Terminal
                         /\ step \notin {"cleanup", "cleanup-known"}
                         => ~LeaderAlive(j) /\ j \notin strays]_vars
  BY <1>1
<1> QED
  BY <1>2, InductiveInvariant, PTL DEF Spec, ReconciliationFreesDeadContainment

-----------------------------------------------------------------------------
(*****************************************************************************)
(* The outcome of a job.                                                     *)
(*****************************************************************************)

\* Only the exception handler of refresh rewrites a record that has an outcome,
\* and it makes FAILED of it.
LEMMA OutcomeSteps ==
    ASSUME Inductive, [Next]_vars, NEW j \in Jobs, rec[j].state \in Terminal
    PROVE  \/ rec'[j] = rec[j]
           \/ step = "unfinished" /\ rec'[j] = [rec[j] EXCEPT !.state = "failed"]
<1> SUFFICES ASSUME rec'[j] # rec[j]
             PROVE  step = "unfinished" /\ rec'[j] = [rec[j] EXCEPT !.state = "failed"]
  OBVIOUS
<1> USE DEF Inductive
<1>1. Next /\ rec[j].state \notin SlotStates \cup {"absent", "queued"}
  BY DEF vars, Terminal, SlotStates
<1>2. PICK k \in Jobs : \/ Submit(k) \/ StartJob(k) \/ Reconcile(k) \/ Cancel(k)
                        \/ TerminateProcess(k) \/ Worker(k) \/ DeadlinePasses(k)
  BY <1>1 DEF Next, Refresh, Start, Close, Crash
<1>3. k = j
  BY <1>1, <1>2, OthersUntouched
<1>4. ~Submit(j) /\ ~TerminateProcess(j) /\ ~Worker(j) /\ ~DeadlinePasses(j)
  BY <1>1 DEF Submit, TerminateProcess, Worker, PublishReady, SeeGate, RefuseToWait,
     ReportRefusal, ReportExecution, WorkerExits, WorkerDies, StrayExits, DeadlinePasses
<1>5. ~StartJob(j)
  <2>1. ~CleanupStart(j) /\ ~BeginStart(j)
    BY <1>1 DEF CleanupStart, BeginStart, At, Head, PassShape, SlotStates
  <2>2. ~RecordRunning(j)
    BY <1>1 DEF RecordRunning, At, Head, PassShape, SlotStates
  <2>3. ~BindIdentity(j)
    BY <1>1 DEF BindIdentity, At, Head, PassShape, SlotStates
  <2> QED
    BY <2>1, <2>2, <2>3 DEF StartJob, Spawn, AwaitReady, CheckDeadline, ExposeGate
<1>6. ~Cancel(j)
  BY <1>1 DEF Cancel, CancelQueued, CancelStarting, CancelActive, SlotStates
<1>7. FinishReconciliationFailure(j)
  BY <1>1, <1>2, <1>3, <1>4, <1>5, <1>6 DEF Reconcile, ReconcileStarting, StillRunning,
     FinishJob, SlotStates
<1> QED
  BY <1>7 DEF FinishReconciliationFailure, TypeOK

\* Without failing writes _finish_job never raises after its outcome is durable.
LEMMA FinishesWhole ==
    ASSUME "io" \notin Faults, step # "unfinished", [Next]_vars
    PROVE  step' # "unfinished"
<1>1. CASE UNCHANGED vars \/ Refresh \/ Start \/ Close \/ Crash
  BY <1>1 DEF vars, Refresh, Start, Close, Crash
<1>2. ASSUME NEW j \in Jobs, Submit(j) \/ Cancel(j) \/ TerminateProcess(j) \/ Worker(j)
                             \/ DeadlinePasses(j)
      PROVE  step' # "unfinished"
  BY <1>2 DEF Submit, AbortPass, Cancel, CancelQueued, CancelStarting, CancelActive,
     TerminateProcess, Worker, PublishReady, SeeGate, RefuseToWait, ReportRefusal,
     ReportExecution, WorkerExits, WorkerDies, StrayExits, DeadlinePasses, pass
<1>3. ASSUME NEW j \in Jobs, StartJob(j) PROVE step' # "unfinished"
  BY <1>3 DEF StartJob, BeginStart, Spawn, AwaitReady, BindIdentity, RecordRunning,
     CheckDeadline, ExposeGate, CleanupStart, Goto, JobDone, AbortPass
<1>4. ASSUME NEW j \in Jobs, Reconcile(j) PROVE step' # "unfinished"
  BY <1>4 DEF Reconcile, ReconcileStarting, StillRunning, FinishJob,
     FinishReconciliationFailure, NextRecord, AbortPass, Io
<1> QED
  BY <1>1, <1>2, <1>3, <1>4 DEF Next

\* With any faults: an outcome is never taken back, no job is queued again or
\* holds a slot again, and the one thing that may still happen to the record is
\* that the exception handler of refresh makes FAILED of it.
THEOREM OutcomeIsAnOutcome ==
    Spec => [][\A j \in Jobs : rec[j].state \in Terminal =>
                  \/ rec'[j] = rec[j]
                  \/ step = "unfinished" /\ rec'[j] = [rec[j] EXCEPT !.state = "failed"]]_vars
<1>1. Inductive /\ [Next]_vars =>
        [\A j \in Jobs : rec[j].state \in Terminal =>
            \/ rec'[j] = rec[j]
            \/ step = "unfinished" /\ rec'[j] = [rec[j] EXCEPT !.state = "failed"]]_vars
  BY OutcomeSteps
<1> QED
  BY <1>1, InductiveInvariant, PTL DEF Spec

\* Where durable writes succeed, the outcome _finish_job, cancel or the cleanup
\* of a failed start records is final: no later refresh, cancellation, crash of
\* the manager or late worker changes the record.
THEOREM OutcomeIsFinalHolds ==
    ASSUME "io" \notin Faults
    PROVE  Spec => OutcomeIsFinal
<1>1. Init => step # "unfinished"
  BY DEF Init
<1>2. step # "unfinished" /\ [Next]_vars => (step # "unfinished")'
  BY FinishesWhole
<1>3. Inductive /\ step # "unfinished" /\ [Next]_vars =>
        [\A j \in Jobs : rec[j].state \in Terminal => rec'[j] = rec[j]]_vars
  BY OutcomeSteps
<1> QED
  BY <1>1, <1>2, <1>3, InductiveInvariant, PTL DEF Spec, OutcomeIsFinal

-----------------------------------------------------------------------------
(*****************************************************************************)
(* WorkerLaunch implements WorkflowService: every step of the launch         *)
(* protocol is a step of the service or leaves it as it is.                  *)
(*****************************************************************************)

\* What a step on the record, process and result of one job does to the
\* abstract state.
LEMMA AbstractEffect ==
    ASSUME TypeOK, TypeOK', NEW j \in Jobs,
           \A k \in Jobs \ {j} : /\ rec'[k] = rec[k] /\ worker'[k] = worker[k]
                                 /\ result'[k] = result[k]
    PROVE  /\ Phase' = [Phase EXCEPT ![j] = PhaseOf(rec'[j])]
           /\ Run' = [Run EXCEPT ![j] = RunOf(worker'[j])]
           /\ Produced' = IF result'[j] = "ok" THEN Produced \cup {j} ELSE Produced \ {j}
           /\ Phase[j] = PhaseOf(rec[j]) /\ Run[j] = RunOf(worker[j])
           /\ j \in Produced <=> result[j] = "ok"
           /\ PhaseOf(rec'[j]) = PhaseOf(rec[j]) => Phase' = Phase
           /\ RunOf(worker'[j]) = RunOf(worker[j]) => Run' = Run
           /\ (result'[j] = "ok" <=> result[j] = "ok") => Produced' = Produced
<1>1. Phase' = [Phase EXCEPT ![j] = PhaseOf(rec'[j])]
  BY DEF Phase
<1>2. Run' = [Run EXCEPT ![j] = RunOf(worker'[j])]
  BY DEF Run
<1>3. Produced' = IF result'[j] = "ok" THEN Produced \cup {j} ELSE Produced \ {j}
  BY DEF Produced
<1>4. Phase[j] = PhaseOf(rec[j]) /\ Run[j] = RunOf(worker[j]) /\ (j \in Produced <=> result[j] = "ok")
  BY DEF Phase, Run, Produced
<1>5. PhaseOf(rec'[j]) = PhaseOf(rec[j]) => Phase' = Phase
  BY <1>1, <1>4 DEF Phase
<1>6. RunOf(worker'[j]) = RunOf(worker[j]) => Run' = Run
  BY <1>2, <1>4 DEF Run
<1>7. (result'[j] = "ok" <=> result[j] = "ok") => Produced' = Produced
  BY <1>3, <1>4
<1> QED
  BY <1>1, <1>2, <1>3, <1>4, <1>5, <1>6, <1>7

LEMMA AdmittedSlots == ASSUME TypeOK PROVE Service!Admitted = Slots
BY DEF Service!Admitted, Slots, Phase, PhaseOf, SlotStates, TypeOK, JobRecord, States, Terminal

LEMMA SameCardinality == ASSUME NEW S PROVE Service!Cardinality(S) = Cardinality(S)
BY DEF Service!Cardinality, Cardinality

LEMMA SlotPhase ==
    ASSUME NEW j
    PROVE  /\ rec[j].state \in SlotStates => PhaseOf(rec[j]) = "admitted"
           /\ rec[j].state = "queued" => PhaseOf(rec[j]) = "waiting"
           /\ rec[j].state \in Terminal \cup {"absent"} => PhaseOf(rec[j]) = rec[j].state
           /\ rec'[j].state \in SlotStates => PhaseOf(rec'[j]) = "admitted"
           /\ rec'[j].state = "queued" => PhaseOf(rec'[j]) = "waiting"
           /\ rec'[j].state \in Terminal \cup {"absent"} => PhaseOf(rec'[j]) = rec'[j].state
BY DEF PhaseOf, SlotStates, Terminal

LEMMA SubmitAccepts ==
    ASSUME TypeOK, TypeOK', NEW j \in Jobs, Submit(j) PROVE Service!Accept(j)
<1>1. rec[j].state = "absent" /\ rec'[j].state = "queued"
  BY DEF Submit, TypeOK, JobRecord
<1>2. worker' = worker /\ result' = result
  BY DEF Submit, files, procs
<1>3. Phase[j] = "absent" /\ Phase' = [Phase EXCEPT ![j] = "waiting"]
      /\ Run' = Run /\ Produced' = Produced
  BY <1>1, <1>2, OthersUntouched, AbstractEffect, SlotPhase
<1> QED
  BY <1>3 DEF Service!Accept

LEMMA BeginAdmits ==
    ASSUME Inductive, TypeOK', NEW j \in Jobs, BeginStart(j)
    PROVE  Service!Admit(j) \/ UNCHANGED Service!vars
<1> USE DEF Inductive
<1>1. worker' = worker /\ result' = result /\ rec[j].state = "queued" /\ j \in batch
  BY DEF BeginStart, At, Head, PassShape, files, procs
<1>2. rec'[j] = rec[j] \/ rec'[j].state = "starting"
  BY DEF BeginStart, TypeOK, JobRecord
<1>3. Run' = Run /\ Produced' = Produced /\ Phase[j] = "waiting"
      /\ (rec'[j] = rec[j] => Phase' = Phase)
      /\ (rec'[j].state = "starting" => Phase' = [Phase EXCEPT ![j] = "admitted"])
  BY <1>1, OthersUntouched, AbstractEffect, SlotPhase DEF StartJob, SlotStates
<1>4. Cardinality(Slots) < MaxConcurrent
  <2>1. IsFiniteSet(Slots) /\ IsFiniteSet(Slots \cup batch) /\ Cardinality(Slots) \in Nat
        /\ Cardinality(Slots \cup batch) \in Nat
    BY CountType DEF TypeOK, Slots
  <2>2. j \notin Slots
    BY <1>1 DEF Slots, SlotStates
  <2>3. Slots \cup {j} \subseteq Slots \cup batch
    BY <1>1
  <2>4. Cardinality(Slots \cup {j}) = Cardinality(Slots) + 1
    BY <2>1, <2>2, FS_AddElement
  <2>5. Cardinality(Slots \cup {j}) <= Cardinality(Slots \cup batch)
    BY <2>1, <2>3, FS_Subset
  <2> QED
    BY <2>1, <2>4, <2>5, LimitsAssumption DEF Reserved
<1>5. CASE rec'[j] = rec[j]
  BY <1>3, <1>5 DEF Service!vars
<1>6. CASE rec'[j].state = "starting"
  BY <1>3, <1>4, <1>6, AdmittedSlots, SameCardinality DEF Service!Admit
<1> QED
  BY <1>2, <1>5, <1>6

\* A failed start stops the worker, gives its slot up, or does both.
LEMMA CleanupStops ==
    ASSUME Inductive, TypeOK', NEW j \in Jobs, CleanupStart(j)
    PROVE  Service!Next \/ UNCHANGED Service!vars
<1> USE DEF Inductive
<1>1. rec[j].state \in {"starting", "running"} /\ result' = result
  BY DEF CleanupStart, At, Head, PassShape, files
<1>2. PICK left \in {"stopped", "stray", "alive"}, new \in JobRecord :
        /\ ApplyTermination(j, left)
        /\ rec' \in {rec, [rec EXCEPT ![j] = new]}
        /\ left = "alive" => new.state = "cancelling"
        /\ left # "alive" => new.state = "failed"
  BY CleanupEffect
<1>3. /\ rec'[j] = rec[j] \/ rec'[j] = new
      /\ left = "alive" => worker' = worker
      /\ left # "alive" => worker'[j] = IF worker[j] = "none" THEN "none" ELSE "exited"
  BY <1>2 DEF ApplyTermination, TypeOK
<1>4. /\ Phase[j] = "admitted" /\ Run[j] = RunOf(worker[j]) /\ Produced' = Produced
      /\ Phase' = [Phase EXCEPT ![j] = PhaseOf(rec'[j])]
      /\ Run' = [Run EXCEPT ![j] = RunOf(worker'[j])]
      /\ PhaseOf(rec'[j]) = PhaseOf(rec[j]) => Phase' = Phase
      /\ RunOf(worker'[j]) = RunOf(worker[j]) => Run' = Run
      /\ PhaseOf(rec[j]) = "admitted"
  BY <1>1, OthersUntouched, AbstractEffect, SlotPhase DEF StartJob, SlotStates
<1>5. CASE left = "alive"
  <2>1. Phase' = Phase
    BY <1>2, <1>3, <1>4, <1>5, SlotPhase DEF SlotStates
  <2> QED
    BY <1>3, <1>4, <1>5, <2>1 DEF Service!vars
<1>6. CASE left # "alive" /\ RunOf(worker[j]) = "over"
  <2>1. Run' = Run
    BY <1>3, <1>4, <1>6 DEF RunOf
  <2>2. Phase' = Phase \/ Phase' = [Phase EXCEPT ![j] = "failed"]
    BY <1>2, <1>3, <1>4, <1>6, SlotPhase DEF Terminal
  <2>3. CASE Phase' = Phase
    BY <1>4, <2>1, <2>3 DEF Service!vars
  <2>4. CASE Phase' = [Phase EXCEPT ![j] = "failed"]
    <3>1. Service!Close(j)
      BY <1>4, <1>6, <2>1, <2>4 DEF Service!Close, Service!Outcomes
    <3> QED
      BY <3>1 DEF Service!Next
  <2> QED
    BY <2>2, <2>3, <2>4
<1>7. CASE left # "alive" /\ worker[j] = "none"
  <2>1. Run' = Run /\ Run[j] # "running"
    BY <1>3, <1>4, <1>7 DEF RunOf
  <2>2. Phase' = Phase \/ Phase' = [Phase EXCEPT ![j] = "failed"]
    BY <1>2, <1>3, <1>4, <1>7, SlotPhase DEF Terminal
  <2>3. CASE Phase' = Phase
    BY <1>4, <2>1, <2>3 DEF Service!vars
  <2>4. CASE Phase' = [Phase EXCEPT ![j] = "failed"]
    <3>1. Service!Close(j)
      BY <1>4, <2>1, <2>4 DEF Service!Close, Service!Outcomes
    <3> QED
      BY <3>1 DEF Service!Next
  <2> QED
    BY <2>2, <2>3, <2>4
<1>8. CASE left # "alive" /\ RunOf(worker[j]) # "over" /\ worker[j] # "none"
  <2>1. Run[j] # "over" /\ Run' = [Run EXCEPT ![j] = "over"]
    BY <1>3, <1>4, <1>8 DEF RunOf
  <2>2. Phase' = Phase \/ Phase' = [Phase EXCEPT ![j] = "failed"]
    BY <1>2, <1>3, <1>4, <1>8, SlotPhase DEF Terminal
  <2>3. CASE Phase' = Phase
    <3>1. Service!End(j)
      BY <1>4, <2>1, <2>3 DEF Service!End
    <3> QED
      BY <3>1 DEF Service!Next
  <2>4. CASE Phase' = [Phase EXCEPT ![j] = "failed"]
    <3>1. Service!StopAndClose(j)
      BY <1>4, <2>1, <2>4 DEF Service!StopAndClose
    <3> QED
      BY <3>1 DEF Service!Next
  <2> QED
    BY <2>2, <2>3, <2>4
<1> QED
  BY <1>5, <1>6, <1>7, <1>8

LEMMA StartJobSimulates ==
    ASSUME Inductive, TypeOK', NEW j \in Jobs, StartJob(j)
    PROVE  Service!Next \/ UNCHANGED Service!vars
<1> USE DEF Inductive
<1>1. CASE BeginStart(j)
  BY <1>1, BeginAdmits DEF Service!Next
<1>2. CASE CleanupStart(j)
  BY <1>2, CleanupStops
<1>3. CASE Spawn(j) \/ AwaitReady(j) \/ BindIdentity(j) \/ RecordRunning(j)
           \/ CheckDeadline(j) \/ ExposeGate(j)
  <2>1. result' = result
    BY <1>3 DEF Spawn, AwaitReady, BindIdentity, RecordRunning, CheckDeadline, ExposeGate,
       files, procs
  <2>2. RunOf(worker'[j]) = RunOf(worker[j])
    <3>1. worker' = worker \/ (worker[j] = "none" /\ worker' = [worker EXCEPT ![j] = "booting"])
      BY <1>3 DEF Spawn, AwaitReady, BindIdentity, RecordRunning, CheckDeadline, ExposeGate,
         procs, At, Head, PassShape
    <3> QED
      BY <3>1 DEF RunOf, TypeOK
  <2>3. rec'[j] = rec[j] \/ (rec[j].state = "starting" /\ rec'[j].state \in {"starting", "running"})
    <3>1. CASE BindIdentity(j) \/ RecordRunning(j)
      <4>1. rec[j].state = "starting"
        BY <3>1 DEF BindIdentity, RecordRunning, At, Head, PassShape
      <4> QED
        BY <3>1, <4>1 DEF BindIdentity, RecordRunning, TypeOK, JobRecord
    <3> QED
      BY <1>3, <3>1 DEF Spawn, AwaitReady, CheckDeadline, ExposeGate
  <2>4. PhaseOf(rec'[j]) = PhaseOf(rec[j])
    BY <2>3, SlotPhase DEF SlotStates
  <2> QED
    BY <1>3, <2>1, <2>2, <2>4, OthersUntouched, AbstractEffect DEF Service!vars
<1> QED
  BY <1>1, <1>2, <1>3 DEF StartJob

LEMMA RecordSimulates ==
    ASSUME Inductive, TypeOK', NEW j \in Jobs, Reconcile(j) \/ Cancel(j)
    PROVE  Service!Next \/ UNCHANGED Service!vars
<1> USE DEF Inductive
<1>1. worker' = worker /\ result' = result
  BY DEF Reconcile, ReconcileStarting, StillRunning, FinishJob, FinishReconciliationFailure,
     Cancel, CancelQueued, CancelStarting, CancelActive, files, procs
<1>2. /\ Run' = Run /\ Produced' = Produced
      /\ Phase[j] = PhaseOf(rec[j]) /\ Run[j] = RunOf(worker[j])
      /\ j \in Produced <=> result[j] = "ok"
      /\ Phase' = [Phase EXCEPT ![j] = PhaseOf(rec'[j])]
      /\ PhaseOf(rec'[j]) = PhaseOf(rec[j]) => Phase' = Phase
  BY <1>1, OthersUntouched, AbstractEffect
<1>3. CASE PhaseOf(rec'[j]) = PhaseOf(rec[j])
  BY <1>2, <1>3 DEF Service!vars
<1>4. ASSUME rec[j].state \in SlotStates \cup {"queued"}, rec'[j].state \in Terminal,
             rec'[j].state = "completed" => result[j] = "ok",
             worker[j] # "executing"
      PROVE  Service!Next
  <2>1. Phase[j] \in {"waiting", "admitted"} /\ Phase' = [Phase EXCEPT ![j] = rec'[j].state]
    BY <1>2, <1>4, SlotPhase
  <2>2. Run[j] # "running"
    BY <1>2, <1>4 DEF RunOf
  <2>3. Service!Close(j)
    BY <1>2, <1>4, <2>1, <2>2 DEF Service!Close, Service!Outcomes, Terminal
  <2> QED
    BY <2>3 DEF Service!Next
<1>5. CASE ReconcileStarting(j) \/ CancelStarting(j)
  <2>1. rec[j].state = "starting" /\ worker[j] # "executing"
    BY <1>5 DEF ReconcileStarting, CancelStarting, Evidence
  <2>2. \/ rec'[j] = rec[j]
        \/ rec'[j].state \in {"starting", "cancelling", "failed", "cancelled"}
    BY <1>5, ReconcileStartingEffect, CancelStartingEffect DEF TypeOK
  <2>3. CASE rec'[j].state \in {"failed", "cancelled"}
    BY <1>4, <2>1, <2>3 DEF SlotStates, Terminal
  <2>4. CASE rec'[j] = rec[j] \/ rec'[j].state \in {"starting", "cancelling"}
    BY <1>3, <2>1, <2>4, SlotPhase DEF SlotStates
  <2> QED
    BY <2>2, <2>3, <2>4
<1>6. CASE StillRunning(j)
  BY <1>3, <1>6 DEF StillRunning
<1>7. CASE FinishJob(j)
  <2>1. PICK new \in JobRecord :
          /\ rec' \in {rec, [rec EXCEPT ![j] = new]} /\ new.state \in Terminal
          /\ new.state = "completed" => result[j] = "ok"
    BY <1>7, FinishEffect
  <2>2. rec'[j] = rec[j] \/ rec'[j] = new
    BY <2>1 DEF TypeOK
  <2>3. rec[j].state \in SlotStates /\ worker[j] # "executing"
    BY <1>7, FinishEffect DEF FinishJob, LeaderAlive, SlotStates
  <2> QED
    BY <1>3, <1>4, <2>1, <2>2, <2>3
<1>8. CASE FinishReconciliationFailure(j)
  <2>1. rec[j].state \in Terminal /\ (rec'[j] = rec[j] \/ rec'[j].state = "failed")
    BY <1>8 DEF FinishReconciliationFailure, TypeOK, JobRecord
  <2>2. CASE rec'[j].state = "failed"
    <3>1. Phase[j] \in Terminal /\ Phase' = [Phase EXCEPT ![j] = "failed"]
      BY <1>2, <2>1, <2>2, SlotPhase DEF Terminal
    <3>2. Service!Retract(j)
      BY <1>2, <3>1 DEF Service!Retract, Service!Outcomes, Terminal
    <3> QED
      BY <3>2 DEF Service!Next
  <2> QED
    BY <1>3, <2>1, <2>2
<1>9. CASE CancelQueued(j)
  <2>1. rec[j].state = "queued" /\ rec'[j].state = "cancelled"
    BY <1>9 DEF CancelQueued, TypeOK, JobRecord
  <2>2. worker[j] = "none"
    BY <2>1 DEF Evidence, Launched
  <2> QED
    BY <1>4, <2>1, <2>2 DEF Terminal
<1>10. CASE CancelActive(j)
  <2>1. rec[j].state \in {"running", "cancelling"} /\ rec'[j].state = "cancelling"
    BY <1>10, CancellingType DEF CancelActive, RequestTermination, TypeOK
  <2> QED
    BY <1>3, <2>1, SlotPhase DEF SlotStates
<1> QED
  BY <1>5, <1>6, <1>7, <1>8, <1>9, <1>10 DEF Reconcile, Cancel

LEMMA ProcessSimulates ==
    ASSUME Inductive, TypeOK', NEW j \in Jobs,
           TerminateProcess(j) \/ Worker(j) \/ DeadlinePasses(j)
    PROVE  Service!Next \/ UNCHANGED Service!vars
<1> USE DEF Inductive
<1>1. rec' = rec /\ gate' = gate
  BY DEF TerminateProcess, Worker, PublishReady, SeeGate, RefuseToWait, ReportRefusal,
     ReportExecution, WorkerExits, WorkerDies, StrayExits, DeadlinePasses, files
<1>2. /\ Phase' = Phase
      /\ Phase[j] = PhaseOf(rec[j]) /\ Run[j] = RunOf(worker[j])
      /\ j \in Produced <=> result[j] = "ok"
      /\ Run' = [Run EXCEPT ![j] = RunOf(worker'[j])]
      /\ Produced' = IF result'[j] = "ok" THEN Produced \cup {j} ELSE Produced \ {j}
      /\ RunOf(worker'[j]) = RunOf(worker[j]) => Run' = Run
      /\ (result'[j] = "ok" <=> result[j] = "ok") => Produced' = Produced
  BY <1>1, OthersUntouched, AbstractEffect
<1>3. \/ RunOf(worker'[j]) = RunOf(worker[j]) /\ (result'[j] = "ok" <=> result[j] = "ok")
      \/ worker[j] = "waiting" /\ j \in gate /\ worker'[j] = "executing" /\ result' = result
      \/ RunOf(worker[j]) # "over" /\ RunOf(worker'[j]) = "over" /\ result' = result
      \/ worker[j] = "executing" /\ RunOf(worker'[j]) = "over"
  <2>1. CASE TerminateProcess(j)
    BY <2>1 DEF TerminateProcess, ApplyTermination, RunOf, files, TypeOK
  <2>2. CASE DeadlinePasses(j)
    BY <2>2 DEF DeadlinePasses, files
  <2>3. CASE ReportRefusal(j)
    BY <2>3 DEF ReportRefusal, Become, RunOf, TypeOK, Evidence
  <2>4. CASE Worker(j) /\ ~ReportRefusal(j)
    BY <2>4 DEF Worker, PublishReady, SeeGate, RefuseToWait, ReportExecution, WorkerExits,
       WorkerDies, StrayExits, Become, LeaderAlive, RunOf, files, TypeOK
  <2> QED
    BY <2>1, <2>2, <2>3, <2>4
<1>4. CASE RunOf(worker'[j]) = RunOf(worker[j]) /\ (result'[j] = "ok" <=> result[j] = "ok")
  BY <1>2, <1>4 DEF Service!vars
<1>5. CASE worker[j] = "waiting" /\ j \in gate /\ worker'[j] = "executing" /\ result' = result
  <2>1. Phase[j] = "admitted"
    BY <1>2, <1>5, SlotPhase DEF Evidence, SlotStates
  <2>2. Run[j] = "idle" /\ Run' = [Run EXCEPT ![j] = "running"] /\ Produced' = Produced
    BY <1>2, <1>5 DEF RunOf
  <2>3. Service!Begin(j)
    BY <1>2, <2>1, <2>2 DEF Service!Begin
  <2> QED
    BY <2>3 DEF Service!Next
<1>6. CASE RunOf(worker[j]) # "over" /\ RunOf(worker'[j]) = "over" /\ result' = result
  <2>1. Service!End(j)
    BY <1>2, <1>6 DEF Service!End
  <2> QED
    BY <2>1 DEF Service!Next
<1>7. CASE worker[j] = "executing" /\ RunOf(worker'[j]) = "over"
  <2>1. Run[j] = "running" /\ Run' = [Run EXCEPT ![j] = "over"] /\ j \notin Produced
    BY <1>2, <1>7 DEF RunOf, Evidence
  <2>2. Produced' = Produced \/ Produced' = Produced \cup {j}
    BY <1>2, <2>1
  <2>3. Service!End(j)
    BY <1>2, <2>1, <2>2 DEF Service!End
  <2> QED
    BY <2>3 DEF Service!Next
<1> QED
  BY <1>3, <1>4, <1>5, <1>6, <1>7

LEMMA StepSimulates ==
    Inductive /\ Inductive' /\ [Next]_vars => [Service!Next]_(Service!vars)
<1> SUFFICES ASSUME Inductive, Inductive', [Next]_vars
             PROVE  Service!Next \/ UNCHANGED Service!vars
  OBVIOUS
<1>1. CASE Refresh \/ Start \/ Close \/ Crash \/ UNCHANGED vars
  <2>1. rec' = rec /\ worker' = worker /\ result' = result
    BY <1>1 DEF Refresh, Start, Close, Crash, vars, files, procs
  <2> QED
    BY <2>1 DEF Service!vars, Phase, Run, Produced
<1>2. ASSUME NEW j \in Jobs, Submit(j) PROVE Service!Next
  BY <1>2, SubmitAccepts DEF Service!Next, Inductive
<1>3. ASSUME NEW j \in Jobs,
             \/ StartJob(j) \/ Reconcile(j) \/ Cancel(j)
             \/ TerminateProcess(j) \/ Worker(j) \/ DeadlinePasses(j)
      PROVE  Service!Next \/ UNCHANGED Service!vars
  BY <1>3, StartJobSimulates, RecordSimulates, ProcessSimulates DEF Inductive
<1> QED
  BY <1>1, <1>2, <1>3 DEF Next

LEMMA InitSimulates == Init => Service!Init
BY DEF Init, Service!Init, Phase, Run, Produced, PhaseOf, RunOf, SlotStates

\* The launch protocol of LocalJobManager keeps the promise of the service: a
\* workflow runs at most once, only in an admitted slot, and is closed only
\* when it no longer runs, across crashes, refusals and failed writes.
THEOREM Implementation == Spec => ImplementsService
BY InitSimulates, StepSimulates, InductiveInvariant, PTL DEF Spec, ImplementsService, Service!Spec

-----------------------------------------------------------------------------
(*****************************************************************************)
(* Why passes end and jobs move on.                                          *)
(*                                                                           *)
(* What EveryJobSettles and CancelSettles rest on besides fairness: a pass   *)
(* of the lock holder gets shorter with each of its steps, whatever fails,   *)
(* and no step takes a job, its worker or its files back.                    *)
(*****************************************************************************)

\* How far a pass is with one record; "idle" comes first.
StepsLeft(s) ==
    CASE s = "idle"     -> 8
      [] s = "spawn"    -> 7
      [] s = "ready"    -> 6
      [] s = "identify" -> 5
      [] s = "release"  -> 4
      [] s = "publish"  -> 3
      [] s = "expose"   -> 2
      [] OTHER          -> 1

\* Fewer records to reconcile; or as many, and fewer jobs to start; or a later
\* step with the same record.
PassShrinks ==
    \/ todo' \subseteq todo /\ todo' # todo
    \/ /\ todo' = todo
       /\ \/ batch' \subseteq batch /\ batch' # batch
          \/ batch' = batch /\ StepsLeft(step') < StepsLeft(step)

\* A refresh or a pass of launches that has begun gets shorter with every step of
\* the lock holder, whatever fails, and nobody else makes it longer.
PassesEnd ==
    [][/\ \A j \in Jobs : StartJob(j) \/ Reconcile(j) => PassShrinks
       /\ ~ LockFree => PassShrinks \/ UNCHANGED <<todo, batch, step>>]_vars

StateRank(s) ==
    CASE s = "absent"     -> 0
      [] s = "queued"     -> 1
      [] s = "starting"   -> 2
      [] s = "running"    -> 3
      [] s = "cancelling" -> 4
      [] OTHER            -> 5

WorkerRank(w) ==
    CASE w = "none"    -> 0
      [] w = "booting" -> 1
      [] w = "waiting" -> 2
      [] w \in {"refusing", "executing"} -> 3
      [] w = "reported" -> 4
      [] OTHER -> 5

\* A job or its worker is never taken back: a worker is spawned once, its gate is
\* read once, and its result is written once.
MovesOn(j) ==
    /\ StateRank(rec[j].state) <= StateRank(rec'[j].state)
    /\ worker'[j] = worker[j] \/ WorkerRank(worker[j]) < WorkerRank(worker'[j])
    /\ result[j] # "none" => result'[j] = result[j]

\* Nor is an authorization or a ready record ever withdrawn, by any step of anybody.
EverythingMovesOn ==
    /\ gate \subseteq gate' /\ ready \subseteq ready'
    /\ \A j \in Jobs : MovesOn(j)

JobsMoveOn == [][EverythingMovesOn]_vars

\* What StateRank says of each state.
LEMMA Ranks ==
    /\ StateRank("absent") = 0 /\ StateRank("queued") = 1 /\ StateRank("starting") = 2
    /\ StateRank("running") = 3 /\ StateRank("cancelling") = 4
    /\ \A s \in Terminal : StateRank(s) = 5
    /\ \A s \in States : StateRank(s) \in 0..5
BY DEF StateRank, Terminal, SlotStates, States

\* What WorkerRank says of each state of a worker.
LEMMA WorkerRanks ==
    /\ WorkerRank("none") = 0 /\ WorkerRank("booting") = 1 /\ WorkerRank("waiting") = 2
    /\ WorkerRank("refusing") = 3 /\ WorkerRank("executing") = 3
    /\ WorkerRank("reported") = 4 /\ WorkerRank("exited") = 5
BY DEF WorkerRank

\* What StepsLeft says of each step.
LEMMA Steps ==
    /\ StepsLeft("idle") = 8 /\ StepsLeft("spawn") = 7 /\ StepsLeft("ready") = 6
    /\ StepsLeft("identify") = 5 /\ StepsLeft("release") = 4 /\ StepsLeft("publish") = 3
    /\ StepsLeft("expose") = 2 /\ StepsLeft("cleanup") = 1
    /\ StepsLeft("cleanup-known") = 1 /\ StepsLeft("unfinished") = 1
BY DEF StepsLeft

\* A pass that is given up was not empty.
LEMMA AbortShrinks ==
    ASSUME TypeOK, PassShape, ~LockFree, todo' = {}, batch' = {}, step' = "idle"
    PROVE  PassShrinks
<1>1. CASE todo # {}
  BY <1>1 DEF PassShrinks
<1>2. CASE todo = {} /\ batch # {}
  BY <1>2 DEF PassShrinks
<1>3. CASE todo = {} /\ batch = {}
  BY <1>3 DEF LockFree, PassShape, TypeOK
<1> QED BY <1>1, <1>2, <1>3

\* A step of _start_job.
LEMMA StartShrinks ==
    ASSUME TypeOK, PassShape, NEW j \in Jobs, StartJob(j)
    PROVE  PassShrinks
<1>1. todo = {} /\ j \in batch /\ ~LockFree
  BY DEF StartJob, BeginStart, Spawn, AwaitReady, BindIdentity, RecordRunning, CheckDeadline,
         ExposeGate, CleanupStart, At, Head, LockFree
<1>2. ASSUME JobDone(j) PROVE PassShrinks
  BY <1>1, <1>2 DEF JobDone, PassShrinks
<1>3. ASSUME AbortPass PROVE PassShrinks
  BY <1>1, <1>3, AbortShrinks DEF AbortPass
<1>4. ASSUME NEW s, Goto(s), StepsLeft(s) < StepsLeft(step) PROVE PassShrinks
  BY <1>4 DEF Goto, PassShrinks
<1>5. CASE BeginStart(j)
  BY <1>5, <1>3, <1>4, Steps DEF BeginStart, At
<1>6. CASE Spawn(j)
  BY <1>6, <1>4, Steps DEF Spawn, At
<1>7. CASE AwaitReady(j)
  BY <1>7, <1>4, Steps DEF AwaitReady, At
<1>8. CASE BindIdentity(j)
  BY <1>8, <1>4, Steps DEF BindIdentity, At
<1>9. CASE RecordRunning(j)
  BY <1>9, <1>4, Steps DEF RecordRunning, At
<1>10. CASE CheckDeadline(j)
  BY <1>10, <1>4, Steps DEF CheckDeadline, At
<1>11. CASE ExposeGate(j)
  BY <1>11, <1>2, <1>4, Steps DEF ExposeGate, At
<1>12. CASE CleanupStart(j)
  BY <1>12, <1>2, <1>3 DEF CleanupStart
<1> QED BY <1>5, <1>6, <1>7, <1>8, <1>9, <1>10, <1>11, <1>12 DEF StartJob

\* A step of refresh.
LEMMA ReconcileShrinks ==
    ASSUME TypeOK, PassShape, NEW j \in Jobs, Reconcile(j)
    PROVE  PassShrinks
<1>1. j \in todo /\ ~LockFree
  BY DEF Reconcile, ReconcileStarting, StillRunning, FinishJob, FinishReconciliationFailure, LockFree
<1>2. ASSUME NEW r, NextRecord(j, r) PROVE PassShrinks
  BY <1>1, <1>2 DEF NextRecord, PassShrinks
<1>3. ASSUME AbortPass PROVE PassShrinks
  BY <1>1, <1>3, AbortShrinks DEF AbortPass
<1>4. CASE ReconcileStarting(j)
  BY <1>4, <1>2, <1>3, ReconcileStartingEffect
<1>5. CASE StillRunning(j)
  BY <1>5, <1>2 DEF StillRunning
<1>6. CASE FinishJob(j)
  BY <1>6, <1>2, <1>3, Steps DEF FinishJob, Goto, PassShrinks
<1>7. CASE FinishReconciliationFailure(j)
  BY <1>7, <1>2, <1>3 DEF FinishReconciliationFailure
<1> QED BY <1>4, <1>5, <1>6, <1>7 DEF Reconcile

\* What any step does to the pass.
LEMMA PassSteps ==
    ASSUME Inductive, [Next]_vars
    PROVE  /\ \A j \in Jobs : StartJob(j) \/ Reconcile(j) => PassShrinks
           /\ ~ LockFree => PassShrinks \/ UNCHANGED <<todo, batch, step>>
<1> USE DEF Inductive
<1>1. \A j \in Jobs : StartJob(j) \/ Reconcile(j) => PassShrinks
  BY StartShrinks, ReconcileShrinks
<1>2. ASSUME ~LockFree PROVE PassShrinks \/ UNCHANGED <<todo, batch, step>>
  <2>1. CASE Refresh \/ Start \/ Close
    BY <1>2, <2>1 DEF Refresh, Start, Close, CanServe
  <2>2. CASE Crash
    BY <1>2, <2>2, AbortShrinks DEF Crash
  <2>3. ASSUME NEW j \in Jobs, Submit(j) \/ Cancel(j) \/ TerminateProcess(j) PROVE FALSE
    BY <1>2, <2>3 DEF Submit, Cancel, CancelQueued, CancelStarting, CancelActive, TerminateProcess, CanServe
  <2>4. ASSUME NEW j \in Jobs, Worker(j) \/ DeadlinePasses(j) PROVE UNCHANGED <<todo, batch, step>>
    BY <2>4 DEF Worker, PublishReady, SeeGate, RefuseToWait, ReportRefusal, ReportExecution,
                WorkerExits, WorkerDies, StrayExits, DeadlinePasses, pass
  <2>5. CASE UNCHANGED vars
    BY <2>5 DEF vars
  <2> QED BY <1>1, <2>1, <2>2, <2>3, <2>4, <2>5 DEF Next
<1> QED BY <1>1, <1>2

\* Whatever fails in a pass of refresh or of _start_queued_jobs, it comes to an end:
\* half of why EveryJobSettles, the fairness of its lock holder being the other.
THEOREM PassesEndHolds == Spec => PassesEnd
<1>1. Inductive /\ [Next]_vars
        => [/\ \A j \in Jobs : StartJob(j) \/ Reconcile(j) => PassShrinks
            /\ ~ LockFree => PassShrinks \/ UNCHANGED <<todo, batch, step>>]_vars
  BY PassSteps
<1> QED BY <1>1, InductiveInvariant, PTL DEF Spec, PassesEnd

\* A termination leaves a worker as it is, or ends it.
LEMMA TerminationMoves ==
    ASSUME TypeOK, NEW j \in Jobs, NEW out, ApplyTermination(j, out)
    PROVE  worker'[j] = worker[j] \/ WorkerRank(worker[j]) < WorkerRank(worker'[j])
BY WorkerRanks DEF ApplyTermination, TypeOK, WorkerStates

\* A step of _start_job takes neither its job nor its worker back.
LEMMA StartMoves ==
    ASSUME Inductive, TypeOK', NEW j \in Jobs, StartJob(j)
    PROVE  MovesOn(j) /\ gate \subseteq gate' /\ ready \subseteq ready'
<1> USE DEF Inductive
<1>0. j \in batch /\ Head(j)
  BY DEF StartJob, BeginStart, Spawn, AwaitReady, BindIdentity, RecordRunning, CheckDeadline,
         ExposeGate, CleanupStart, At, Head
<1>1. rec[j].state \in States /\ StateRank(rec[j].state) \in 0..5
  BY Ranks DEF TypeOK, JobRecord
<1>2. CASE BeginStart(j)
  <2>1. rec[j].state = "queued"
    BY <1>2, <1>0 DEF BeginStart, At, PassShape
  <2> QED BY <2>1, <1>1, <1>2, Ranks DEF BeginStart, MovesOn, files, procs, TypeOK, JobRecord
<1>3. CASE Spawn(j)
  <2>1. worker[j] = "none"
    BY <1>3, <1>0 DEF Spawn, At, PassShape
  <2>2. worker'[j] = worker[j] \/ WorkerRank(worker[j]) < WorkerRank(worker'[j])
    BY <2>1, <1>3, WorkerRanks DEF Spawn, TypeOK
  <2> QED BY <2>2, <1>1, <1>3 DEF Spawn, MovesOn, files
<1>4. CASE AwaitReady(j)
  BY <1>1, <1>4 DEF AwaitReady, MovesOn, files, procs
<1>5. CASE BindIdentity(j)
  <2>1. rec'[j].state = rec[j].state
    BY <1>5 DEF BindIdentity, TypeOK, JobRecord
  <2> QED BY <2>1, <1>1, <1>5 DEF BindIdentity, MovesOn, files, procs
<1>6. CASE RecordRunning(j)
  <2>1. rec[j].state = "starting" /\ rec'[j].state \in {"starting", "running"}
    BY <1>6, <1>0 DEF RecordRunning, At, PassShape, TypeOK, JobRecord
  <2> QED BY <2>1, <1>6, Ranks DEF RecordRunning, MovesOn, files, procs
<1>7. CASE CheckDeadline(j)
  BY <1>1, <1>7 DEF CheckDeadline, MovesOn, files, procs
<1>8. CASE ExposeGate(j)
  BY <1>1, <1>8 DEF ExposeGate, MovesOn, procs
<1>9. CASE CleanupStart(j)
  <2>1. rec[j].state \in {"starting", "running"}
    BY <1>9, <1>0 DEF CleanupStart, At, PassShape
  <2>2. PICK left \in {"stopped", "stray", "alive"}, new \in JobRecord :
             /\ ApplyTermination(j, left)
             /\ rec' \in {rec, [rec EXCEPT ![j] = new]}
             /\ new.state \in {"cancelling", "failed"}
    BY <1>9, CleanupEffect
  <2>3. StateRank(rec[j].state) <= StateRank(rec'[j].state)
    BY <2>1, <2>2, Ranks DEF TypeOK, Terminal
  <2> QED BY <2>2, <2>3, <1>9, TerminationMoves DEF CleanupStart, MovesOn, files
<1> QED BY <1>2, <1>3, <1>4, <1>5, <1>6, <1>7, <1>8, <1>9 DEF StartJob

\* Nor does one of submit, refresh or cancel.
LEMMA RecordMoves ==
    ASSUME Inductive, TypeOK', NEW j \in Jobs, Submit(j) \/ Reconcile(j) \/ Cancel(j)
    PROVE  MovesOn(j) /\ gate \subseteq gate' /\ ready \subseteq ready'
<1> USE DEF Inductive
<1>1. rec[j].state \in States /\ StateRank(rec[j].state) \in 0..5
  BY Ranks DEF TypeOK, JobRecord
<1>2. UNCHANGED <<gate, ready, result, worker>>
  BY DEF Submit, Reconcile, ReconcileStarting, StillRunning, FinishJob, FinishReconciliationFailure,
         Cancel, CancelQueued, CancelStarting, CancelActive, files, procs
<1>3. StateRank(rec[j].state) <= StateRank(rec'[j].state)
  <2>1. CASE Submit(j)
    BY <2>1, Ranks DEF Submit, TypeOK, JobRecord
  <2>2. CASE ReconcileStarting(j)
    <3>1. PICK r \in JobRecord : /\ rec' \in {rec, [rec EXCEPT ![j] = r]}
                                 /\ r.state \in {"starting", "cancelling", "failed", "cancelled"}
      BY <2>2, ReconcileStartingEffect
    <3> QED BY <3>1, <2>2, Ranks DEF ReconcileStarting, TypeOK, Terminal
  <2>3. CASE StillRunning(j)
    BY <2>3, <1>1 DEF StillRunning
  <2>4. CASE FinishJob(j)
    <3>1. PICK new \in JobRecord : rec' \in {rec, [rec EXCEPT ![j] = new]} /\ new.state \in Terminal
      BY <2>4, FinishEffect
    <3> QED BY <3>1, <1>1, Ranks DEF TypeOK
  <2>5. CASE FinishReconciliationFailure(j)
    <3>1. rec'[j].state \in Terminal /\ rec[j].state \in Terminal
      BY <2>5 DEF FinishReconciliationFailure, Terminal, TypeOK, JobRecord
    <3> QED BY <3>1, Ranks
  <2>6. CASE CancelQueued(j)
    BY <2>6, Ranks DEF CancelQueued, TypeOK, JobRecord, Terminal
  <2>7. CASE CancelStarting(j)
    <3>1. PICK new \in JobRecord : /\ rec' = [rec EXCEPT ![j] = new]
                                   /\ new.state \in {"starting", "cancelling", "failed", "cancelled"}
      BY <2>7, CancelStartingEffect
    <3> QED BY <3>1, <2>7, Ranks DEF CancelStarting, TypeOK, Terminal
  <2>8. CASE CancelActive(j)
    <3>1. rec[j].state \in {"running", "cancelling"} /\ rec'[j].state = "cancelling"
      BY <2>8, CancellingType DEF CancelActive, RequestTermination, TypeOK
    <3> QED BY <3>1, Ranks
  <2> QED BY <2>1, <2>2, <2>3, <2>4, <2>5, <2>6, <2>7, <2>8 DEF Reconcile, Cancel
<1> QED BY <1>2, <1>3 DEF MovesOn

\* Nor does one of a worker, a termination thread or the clock.
LEMMA ProcessMoves ==
    ASSUME Inductive, TypeOK', NEW j \in Jobs, TerminateProcess(j) \/ Worker(j) \/ DeadlinePasses(j)
    PROVE  MovesOn(j) /\ gate \subseteq gate' /\ ready \subseteq ready'
<1> USE DEF Inductive
<1>1. rec'[j].state = rec[j].state /\ StateRank(rec[j].state) \in 0..5 /\ gate' = gate /\ ready \subseteq ready'
  <2>1. rec' = rec /\ gate' = gate /\ ready \subseteq ready'
    BY DEF TerminateProcess, Worker, PublishReady, SeeGate, RefuseToWait, ReportRefusal,
           ReportExecution, WorkerExits, WorkerDies, StrayExits, DeadlinePasses, files
  <2> QED BY <2>1, Ranks DEF TypeOK, JobRecord
<1>2. worker'[j] = worker[j] \/ WorkerRank(worker[j]) < WorkerRank(worker'[j])
  <2>1. CASE TerminateProcess(j)
    BY <2>1, TerminationMoves DEF TerminateProcess
  <2>2. CASE DeadlinePasses(j) \/ StrayExits(j)
    BY <2>2 DEF DeadlinePasses, StrayExits
  <2>3. CASE PublishReady(j) \/ SeeGate(j) \/ RefuseToWait(j) \/ ReportRefusal(j)
             \/ ReportExecution(j) \/ WorkerExits(j)
    BY <2>3, WorkerRanks DEF PublishReady, SeeGate, RefuseToWait, ReportRefusal, ReportExecution,
         WorkerExits, Become, TypeOK
  <2>4. CASE WorkerDies(j)
    BY <2>4, WorkerRanks DEF WorkerDies, Become, LeaderAlive, TypeOK, WorkerStates
  <2> QED BY <2>1, <2>2, <2>3, <2>4 DEF Worker
<1>3. result[j] # "none" => result'[j] = result[j]
  <2>1. CASE ReportRefusal(j) \/ ReportExecution(j)
    BY <2>1 DEF ReportRefusal, ReportExecution, Evidence
  <2>2. CASE ~ReportRefusal(j) /\ ~ReportExecution(j)
    BY <2>2 DEF TerminateProcess, Worker, PublishReady, SeeGate, RefuseToWait,
           WorkerExits, WorkerDies, StrayExits, DeadlinePasses, files
  <2> QED BY <2>1, <2>2
<1> QED BY <1>1, <1>2, <1>3 DEF MovesOn

\* What any step does to the jobs.
LEMMA JobSteps ==
    ASSUME Inductive, TypeOK', [Next]_vars
    PROVE  gate \subseteq gate' /\ ready \subseteq ready' /\ \A k \in Jobs : MovesOn(k)
<1> USE DEF Inductive
<1>1. ASSUME NEW k \in Jobs, rec'[k] = rec[k], worker'[k] = worker[k], result'[k] = result[k]
      PROVE  MovesOn(k)
  <2>1. StateRank(rec[k].state) \in 0..5
    BY Ranks DEF TypeOK, JobRecord
  <2> QED BY <1>1, <2>1 DEF MovesOn
<1>2. CASE Refresh \/ Start \/ Close \/ Crash \/ UNCHANGED vars
  <2>1. UNCHANGED <<rec, worker, result, gate, ready>>
    BY <1>2 DEF Refresh, Start, Close, Crash, vars, files, procs
  <2> QED BY <2>1, <1>1
<1>3. ASSUME NEW j \in Jobs,
             \/ Submit(j) \/ StartJob(j) \/ Reconcile(j) \/ Cancel(j)
             \/ TerminateProcess(j) \/ Worker(j) \/ DeadlinePasses(j)
      PROVE  gate \subseteq gate' /\ ready \subseteq ready' /\ \A k \in Jobs : MovesOn(k)
  <2>1. MovesOn(j) /\ gate \subseteq gate' /\ ready \subseteq ready'
    BY <1>3, StartMoves, RecordMoves, ProcessMoves
  <2>2. \A k \in Jobs \ {j} : MovesOn(k)
    BY <1>1, <1>3, OthersUntouched
  <2> QED BY <2>1, <2>2
<1> QED BY <1>2, <1>3 DEF Next

\* No refresh, cancellation, crash, restart or late worker takes a job back to an
\* earlier state, spawns a second worker for it, or withdraws or rewrites its gate, its
\* ready record or its result (_start_job, _publish_launch_gate, worker.py).
THEOREM JobsMoveOnHolds == Spec => JobsMoveOn
<1>1. Inductive /\ Inductive' /\ [Next]_vars => [EverythingMovesOn]_vars
  BY JobSteps DEF Inductive, EverythingMovesOn
<1> QED BY <1>1, InductiveInvariant, PTL DEF Spec, JobsMoveOn

===============================================================================
