--------------------- MODULE ScheduledExecutionsProofs ---------------------
(***************************************************************************)
(* What holds of ScheduledExecutions for any number of schedules,          *)
(* executions, workers and hosts.                                          *)
(***************************************************************************)
EXTENDS ScheduledExecutions, TLAPS

(***************************************************************************)
(* Type correctness.  A worker that is not idle has an execution: without  *)
(* this, what it reads through job[w] would have no type.                  *)
(***************************************************************************)
\* A worker between poll and release works on an execution.
BusyHasJob == \A w \in Workers : pc[w] # "idle" => job[w] \in Executions

\* TypeOK alone is not inductive: a busy worker indexes the tables by its job.
TypeInv == TypeOK /\ BusyHasJob

\* The part of TypeInv about the workers.
WorkersTyped ==
    /\ pc \in [Workers -> Pcs]
    /\ job \in [Workers -> Executions \cup {NoExec}]
    /\ claim \in [Workers -> Nat]
    /\ mem \in [Workers -> Memory]
    /\ BusyHasJob

\* A worker that moves on with well-typed memory stays well typed.
LEMMA GotoType ==
    ASSUME TypeInv, NEW w \in Workers, NEW label \in Pcs, NEW m \in Memory,
           pc[w] # "idle", Goto(w, label, m)
    PROVE  WorkersTyped'
BY DEF TypeInv, TypeOK, WorkersTyped, BusyHasJob, Goto

\* So does one that is released.
LEMMA ReleaseType ==
    ASSUME TypeInv, NEW w \in Workers, Release(w)
    PROVE  WorkersTyped'
<1>1. NoMemory \in Memory
  BY DEF NoMemory, Memory, RunStatus, Ended, Errors, TaskStatus
<1> QED
  BY <1>1 DEF TypeInv, TypeOK, WorkersTyped, BusyHasJob, Release, Pcs

\* And one whose engine returns.
LEMMA ReturnsType ==
    ASSUME TypeInv, NEW w \in Workers, NEW m \in Memory, pc[w] # "idle",
           EngineReturns(w, m)
    PROVE  WorkersTyped'
<1>1. "task" \in Pcs
  BY DEF Pcs
<1> QED
  BY <1>1, GotoType, ReleaseType DEF EngineReturns

\* The assignments the worker makes to its memory keep it well typed.
LEMMA MemoryUpdate ==
    ASSUME NEW m \in Memory
    PROVE  /\ \A x \in RunStatus : [m EXCEPT !.run = x] \in Memory
           /\ \A x \in Errors : [m EXCEPT !.err = x] \in Memory
           /\ \A x \in {"none", "pause", "cancel"} : [m EXCEPT !.ctl = x] \in Memory
           /\ \A x \in RunStatus, y \in Errors :
                 [m EXCEPT !.run = x, !.err = y] \in Memory
           /\ \A x \in BOOLEAN, y \in BOOLEAN :
                 [m EXCEPT !.blocked = x, !.awaiting = y] \in Memory
           /\ \A x \in SUBSET {"work", "gate"}, y \in BOOLEAN :
                 [m EXCEPT !.wave = x, !.awaiting = y] \in Memory
           /\ \A x \in SUBSET {"work", "gate"}, y \in BOOLEAN :
                 [m EXCEPT !.wave = x, !.failed = y] \in Memory
           /\ \A x \in TaskStatus, y, z \in BOOLEAN, c \in {"none", "pause", "cancel"} :
                 [m EXCEPT !.seen = x, !.awaiting = y, !.approval = z, !.ctl = c]
                     \in Memory
BY DEF Memory

\* What a save may return, and that a commit has passed the fence.
LEMMA SaveResultType ==
    ASSUME NEW w
    PROVE  /\ SaveResults(w) \subseteq {"ok", "file", "error", "lost"}
           /\ \A steps : SaveStep(w, steps) \subseteq {"ok", "file", "error", "lost"}
           /\ \A r \in SaveResults(w) : Committed(r) => SaveFence(w)
           /\ \A steps : \A r \in SaveStep(w, steps) : Committed(r) => SaveFence(w)
BY DEF SaveResults, SaveStep, Committed

\* What a failed save tells the engine is an error the worker knows.
LEMMA ErrorType ==
    ASSUME NEW r \in {"ok", "file", "error", "lost"}
    PROVE  ErrorOf(r) \in Errors
BY DEF ErrorOf, Errors

\* The outcome of an engine closes or pauses a claimed or running execution.
LEMMA OutcomeType ==
    ASSUME NEW m \in Memory
    PROVE  /\ Outcome(m) \in Closed \cup {"paused_for_approval", "paused_operator"}
           /\ AllowedFrom(m) \subseteq {"claimed", "running"}
BY DEF Outcome, AllowedFrom, Closed

\* Every plan of the recovery pass is one of these.
LEMMA PlanCases ==
    ASSUME NEW e
    PROVE  \/ ClassifyStaleLineage(e) = Plan("interrupted", "failed", "failed", TRUE)
           \/ /\ status[e] = "claimed"
              /\ ClassifyStaleLineage(e) = Plan("pending", "keep", "keep", FALSE)
           \/ ClassifyStaleLineage(e) = Plan("interrupted", "failed", "keep", FALSE)
           \/ ClassifyStaleLineage(e) = Plan("approval_rejected", "failed", "keep", FALSE)
           \/ ClassifyStaleLineage(e) = Plan("paused_for_approval", "paused", "paused", FALSE)
           \/ ClassifyStaleLineage(e) = Plan("paused_operator", "paused", "keep", FALSE)
           \/ /\ run[e] \in Ended
              /\ ClassifyStaleLineage(e) = Plan(run[e], run[e], "keep", FALSE)
BY DEF ClassifyStaleLineage, Inconsistent

\* The recovery pass never leaves an execution claimed or running, and puts
\* it back into the queue only if it was merely claimed.
LEMMA PlanType ==
    ASSUME NEW e
    PROVE  /\ ClassifyStaleLineage(e).status \in Status \ {"absent", "claimed", "running"}
           /\ ClassifyStaleLineage(e).status = "pending" => status[e] = "claimed"
           /\ ClassifyStaleLineage(e).task \in TaskStatus \cup {"keep"}
           /\ ClassifyStaleLineage(e).run \in RunStatus \cup {"keep"}
BY PlanCases DEF Plan, Status, Open, Live, Closed, TaskStatus, RunStatus, Ended

\* The last save of an engine keeps the types.
LEMMA ExitType ==
    ASSUME TypeInv, NEW w \in Workers, pc[w] # "idle",
           NEW s \in RunStatus, NEW complete \in BOOLEAN, NEW swallow,
           NEW keep \in Errors, Exit(w, s, complete, swallow, keep)
    PROVE  TypeInv'
<1> DEFINE e == job[w]
<1>1. PICK r \in SaveResults(w) :
        /\ run' = SetIf(run, e, Committed(r), s)
        /\ done' = SetIf(done, e, Committed(r), complete)
        /\ EngineReturns(w, [mem[w] EXCEPT !.run = s,
              !.err = IF swallow \/ r = "ok" THEN keep ELSE ErrorOf(r)])
  BY DEF Exit
<1>2. ErrorOf(r) \in Errors
  BY <1>1, SaveResultType, ErrorType
<1>3. mem[w] \in Memory
  BY DEF TypeInv, TypeOK
<1>4. [mem[w] EXCEPT !.run = s, !.err = IF swallow \/ r = "ok" THEN keep ELSE ErrorOf(r)]
        \in Memory
  BY <1>2, <1>3, MemoryUpdate
<1>5. WorkersTyped'
  BY <1>1, <1>4, ReturnsType
<1>6. run' \in [Executions -> RunStatus] /\ done' \in [Executions -> BOOLEAN]
  BY <1>1 DEF SetIf, TypeInv, TypeOK
<1> QED
  BY <1>5, <1>6 DEF Exit, TypeInv, TypeOK, WorkersTyped, row

\* Every transaction of a worker keeps the types.
LEMMA WorkerStepType ==
    ASSUME TypeInv, NEW w \in Workers, WorkerStep(w)
    PROVE  TypeInv'
<1> DEFINE e == job[w]
<1> USE DEF TypeInv
<1>l. Pcs = {"idle", "claimed", "settask", "save", "engine", "wave", "task", "mark"}
  BY DEF Pcs
<1>m. mem[w] \in Memory
  BY DEF TypeOK
<1>e. pc[w] # "idle" => e \in Executions
  BY DEF BusyHasJob
<1>r. {"paused", "completed", "failed", "cancelled"} \subseteq RunStatus /\ {"none", "other"} \subseteq Errors
  BY DEF RunStatus, Ended, Errors
<1>1. CASE RunRefused(w)
  <2>1. PICK err \in Errors : Goto(w, "mark", [mem[w] EXCEPT !.err = err])
    BY <1>1 DEF RunRefused, Errors
  <2>2. [mem[w] EXCEPT !.err = err] \in Memory
    BY <1>m, MemoryUpdate
  <2>3. WorkersTyped'
    BY <1>1, <1>l, <2>1, <2>2, GotoType DEF RunRefused
  <2> QED
    BY <1>1, <2>3 DEF RunRefused, row, run_, TypeOK, WorkersTyped
<1>2. CASE CreateTask(w)
  <2>1. [mem[w] EXCEPT !.err = "other"] \in Memory
    BY <1>m, MemoryUpdate DEF Errors
  <2>2. PICK label \in Pcs, m \in Memory : Goto(w, label, m)
    BY <1>2, <1>l, <1>m, <2>1 DEF CreateTask
  <2>3. task' \in [Executions -> TaskStatus]
    BY <1>2 DEF CreateTask, TypeOK, SetIf, TaskStatus
  <2>4. WorkersTyped'
    BY <1>2, <2>2, GotoType DEF CreateTask
  <2> QED
    BY <1>2, <2>3, <2>4 DEF CreateTask, row, TypeOK, WorkersTyped
<1>3. CASE LoadRun(w)
  <2>1. task[e] \in TaskStatus
    BY <1>3, <1>e DEF LoadRun, TypeOK
  <2>2. [mem[w] EXCEPT !.seen = task[e], !.awaiting = (gate[e] = "awaiting"),
                       !.approval = ApprovedByRecord(e),
                       !.ctl = IF task[e] = "cancelled" THEN "cancel" ELSE "none"]
          \in Memory
    <3> DEFINE waits == gate[e] = "awaiting"
               consent == ApprovedByRecord(e)
               control == IF task[e] = "cancelled" THEN "cancel" ELSE "none"
    <3>1. waits \in BOOLEAN /\ consent \in BOOLEAN
      BY Zenon DEF ApprovedByRecord
    <3>2. control \in {"none", "pause", "cancel"}
      OBVIOUS
    <3>3. [mem[w] EXCEPT !.seen = task[e], !.awaiting = waits, !.approval = consent,
                         !.ctl = control] \in Memory
      <4> HIDE DEF waits, consent, control
      <4> QED
        BY <1>m, <2>1, <3>1, <3>2, MemoryUpdate
    <3> QED
      BY <3>3, Zenon
  <2>3. PICK label \in Pcs, m \in Memory : Goto(w, label, m)
    BY <1>3, <1>l, <2>2 DEF LoadRun
  <2>4. WorkersTyped'
    BY <1>3, <2>3, GotoType DEF LoadRun
  <2> QED
    BY <1>3, <2>4 DEF LoadRun, row, run_, TypeOK, WorkersTyped
<1>4. CASE ResumeTask(w)
  <2>1. task' \in [Executions -> TaskStatus]
    BY <1>4 DEF ResumeTask, TypeOK, TaskStatus
  <2>2. WorkersTyped'
    BY <1>4, <1>l, <1>m, GotoType DEF ResumeTask
  <2> QED
    BY <1>4, <2>1, <2>2 DEF ResumeTask, row, TypeOK, WorkersTyped
<1>5. CASE InitialSave(w)
  <2> DEFINE m0 == [mem[w] EXCEPT !.run = "running"]
             recoverable == run[e] # "none" \/ task[e] \in {"pending", "running"}
  <2>1. PICK r \in SaveResults(w) :
          LET c == Committed(r) /\ recoverable IN
          /\ task' = SetIf(task, e, c /\ run[e] = "none", "running")
          /\ run' = SetIf(run, e, c, "running")
          /\ done' = SetIf(done, e, c, FALSE)
          /\ status' = SetIf(status, e, c, "running")
          /\ IF r = "ok" /\ c
             THEN Goto(w, "engine", m0)
             ELSE EngineReturns(w, [m0 EXCEPT !.err =
                      IF Committed(r) /\ ~c THEN "other" ELSE ErrorOf(r)])
    BY <1>5 DEF InitialSave
  <2>2. m0 \in Memory
    BY <1>m, MemoryUpdate DEF RunStatus
  <2>3. ErrorOf(r) \in Errors /\ "other" \in Errors
    BY <2>1, SaveResultType, ErrorType DEF Errors
  <2>4. \A x \in Errors : [m0 EXCEPT !.err = x] \in Memory
    BY <2>2, MemoryUpdate
  <2>5. \/ Goto(w, "engine", m0)
        \/ \E x \in Errors : EngineReturns(w, [m0 EXCEPT !.err = x])
    BY <2>1, <2>3
  <2>6. WorkersTyped'
    BY <1>5, <1>l, <2>2, <2>4, <2>5, GotoType, ReturnsType DEF InitialSave
  <2>7. /\ task' \in [Executions -> TaskStatus] /\ run' \in [Executions -> RunStatus]
        /\ done' \in [Executions -> BOOLEAN] /\ status' \in [Executions -> Status]
    BY <2>1 DEF SetIf, TypeOK, TaskStatus, RunStatus, Status, Open, Live
  <2> QED
    BY <1>5, <2>6, <2>7 DEF InitialSave, TypeOK, WorkersTyped
<1>6. CASE PlanGate(w)
  <2>1. PICK r \in SaveStep(w, {"gate"}), wait \in BOOLEAN :
          /\ gate' = SetIf(gate, e, Committed(r), IF wait THEN "awaiting" ELSE "skipped")
          /\ decision' = SetIf(decision, e,
                  Committed(r) /\ wait /\ decision[e] \notin {"approved", "rejected"}, "pending")
          /\ IF r = "ok" THEN Goto(w, "engine", [mem[w] EXCEPT !.blocked = wait, !.awaiting = wait])
             ELSE EngineReturns(w, [[mem[w] EXCEPT !.blocked = wait, !.awaiting = wait]
                                        EXCEPT !.err = ErrorOf(r)])
    BY <1>6 DEF PlanGate
  <2>2. [mem[w] EXCEPT !.blocked = wait, !.awaiting = wait] \in Memory
    BY <1>m, MemoryUpdate
  <2>3. [[mem[w] EXCEPT !.blocked = wait, !.awaiting = wait] EXCEPT !.err = ErrorOf(r)] \in Memory
    BY <2>1, <2>2, MemoryUpdate, SaveResultType, ErrorType
  <2>4. WorkersTyped'
    BY <1>6, <1>l, <2>1, <2>2, <2>3, GotoType, ReturnsType DEF PlanGate
  <2>5. gate' \in [Executions -> GateStatus] /\ decision' \in [Executions -> Decisions]
    BY <2>1 DEF SetIf, TypeOK, GateStatus, Decisions
  <2> QED
    BY <1>6, <2>4, <2>5 DEF PlanGate, row, TypeOK, WorkersTyped
<1>7. CASE StartWave(w)
  <2>0. PICK steps \in SUBSET {"work", "gate"} : \E r \in SaveStep(w, steps) :
          /\ work' = SetIf(work, e, Committed(r) /\ "work" \in steps,
                 IF work[e] \in {"partial", "finishing"} THEN "finishing" ELSE "active")
          /\ gate' = SetIf(gate, e, Committed(r) /\ "gate" \in steps, "running")
          /\ LET m == [mem[w] EXCEPT !.wave = steps, !.awaiting = @ /\ "gate" \notin steps] IN
             IF r = "ok" THEN Goto(w, "wave", m)
             ELSE EngineReturns(w, [m EXCEPT !.err = ErrorOf(r)])
    BY <1>7 DEF StartWave, Ready
  <2>1. PICK r \in SaveStep(w, steps) :
          /\ work' = SetIf(work, e, Committed(r) /\ "work" \in steps,
                 IF work[e] \in {"partial", "finishing"} THEN "finishing" ELSE "active")
          /\ gate' = SetIf(gate, e, Committed(r) /\ "gate" \in steps, "running")
          /\ LET m == [mem[w] EXCEPT !.wave = steps, !.awaiting = @ /\ "gate" \notin steps] IN
             IF r = "ok" THEN Goto(w, "wave", m)
             ELSE EngineReturns(w, [m EXCEPT !.err = ErrorOf(r)])
    BY <2>0
  <2> DEFINE m1 == [mem[w] EXCEPT !.wave = steps, !.awaiting = @ /\ "gate" \notin steps]
  <2>2. m1 \in Memory
    <3>1. mem[w].awaiting \in BOOLEAN
      BY <1>m DEF Memory
    <3>2. (mem[w].awaiting /\ "gate" \notin steps) \in BOOLEAN
      OBVIOUS
    <3> QED
      BY <1>m, <3>2, MemoryUpdate
  <2>3. [m1 EXCEPT !.err = ErrorOf(r)] \in Memory
    BY <2>1, <2>2, MemoryUpdate, SaveResultType, ErrorType
  <2>4. WorkersTyped'
    BY <1>7, <1>l, <2>1, <2>2, <2>3, GotoType, ReturnsType DEF StartWave
  <2>5. work' \in [Executions -> WorkStatus] /\ gate' \in [Executions -> GateStatus]
    BY <2>1 DEF SetIf, TypeOK, GateStatus, WorkStatus, InFlight
  <2> QED
    BY <1>7, <2>4, <2>5 DEF StartWave, row, TypeOK, WorkersTyped
<1>8. CASE EndWave(w)
  <2>0. PICK workOut \in {"succeeded", "failed"} \cup (IF work[e] = "finishing" THEN {} ELSE {"partial"}),
             gateOut \in {"succeeded", "failed"},
             r \in SaveResults(w), stored \in BOOLEAN :
          LET c == Committed(r) \/ (r = "error" /\ stored)
              ran == mem[w].wave
              m == [mem[w] EXCEPT !.wave = {},
                      !.failed = \/ "work" \in ran /\ workOut = "failed"
                                 \/ "gate" \in ran /\ gateOut = "failed"] IN
          /\ work' = SetIf(work, e, c /\ "work" \in ran, workOut)
          /\ gate' = SetIf(gate, e, c /\ "gate" \in ran, gateOut)
          /\ IF r = "ok" THEN Goto(w, "engine", m)
             ELSE EngineReturns(w, [m EXCEPT !.err = ErrorOf(r)])
    BY <1>8 DEF EndWave
  <2> DEFINE bad == \/ "work" \in mem[w].wave /\ workOut = "failed"
                    \/ "gate" \in mem[w].wave /\ gateOut = "failed"
             c == Committed(r) \/ (r = "error" /\ stored)
  <2> DEFINE m1 == [mem[w] EXCEPT !.wave = {}, !.failed = bad]
  <2>1. /\ workOut \in WorkStatus
        /\ work' = SetIf(work, e, c /\ "work" \in mem[w].wave, workOut)
        /\ gate' = SetIf(gate, e, c /\ "gate" \in mem[w].wave, gateOut)
        /\ IF r = "ok" THEN Goto(w, "engine", m1)
           ELSE EngineReturns(w, [m1 EXCEPT !.err = ErrorOf(r)])
    BY <2>0 DEF WorkStatus
  <2>2. m1 \in Memory
    BY <1>m, MemoryUpdate
  <2>3. [m1 EXCEPT !.err = ErrorOf(r)] \in Memory
    BY <2>2, MemoryUpdate, SaveResultType, ErrorType
  <2> HIDE DEF m1
  <2>4. WorkersTyped'
    BY <1>8, <1>l, <2>1, <2>2, <2>3, GotoType, ReturnsType DEF EndWave
  <2>5. work' \in [Executions -> WorkStatus] /\ gate' \in [Executions -> GateStatus]
    BY <2>1 DEF SetIf, TypeOK, GateStatus, WorkStatus
  <2> QED
    BY <1>8, <2>4, <2>5 DEF EndWave, row, TypeOK, WorkersTyped
<1>9. CASE EngineCancel(w) \/ EnginePause(w) \/ EngineFail(w) \/ EngineComplete(w)
  BY <1>9, <1>r, ExitType DEF EngineCancel, EnginePause, EngineFail, EngineComplete
<1>10. CASE EngineAbandon(w)
  <2>1. WorkersTyped'
    BY <1>10, ReleaseType DEF EngineAbandon
  <2> QED
    BY <1>10, <2>1 DEF EngineAbandon, row, run_, TypeOK, WorkersTyped
<1>11. CASE SetTaskStatusFromWorkflow(w)
  <2>1. mem[w].run \in TaskStatus
    BY <1>m DEF Memory, RunStatus, TaskStatus
  <2>2. task' \in [Executions -> TaskStatus]
    BY <1>11, <2>1 DEF SetTaskStatusFromWorkflow, SetIf, TypeOK
  <2>3. WorkersTyped'
    BY <1>11, <1>l, <1>m, GotoType DEF SetTaskStatusFromWorkflow
  <2> QED
    BY <1>11, <2>2, <2>3 DEF SetTaskStatusFromWorkflow, row, TypeOK, WorkersTyped
<1>12. CASE MarkScheduledExecution(w)
  <2>1. Outcome(mem[w]) \in Status
    BY <1>m, OutcomeType DEF Status, Open, Live
  <2>2. 0 \in 0 .. LeaseTicks
    BY ConstantsAssumption
  <2>3. /\ status' \in [Executions -> Status]
        /\ owner' \in [Executions -> Hosts \cup {NoOwner}]
        /\ lease' \in [Executions -> 0 .. LeaseTicks]
    BY <1>12, <2>1, <2>2 DEF MarkScheduledExecution, SetIf, TypeOK
  <2>4. WorkersTyped'
    BY <1>12, ReleaseType DEF MarkScheduledExecution
  <2> QED
    BY <1>12, <2>3, <2>4 DEF MarkScheduledExecution, run_, TypeOK, WorkersTyped
<1> QED
  BY <1>1, <1>2, <1>3, <1>4, <1>5, <1>6, <1>7, <1>8, <1>9, <1>10, <1>11, <1>12 DEF WorkerStep

\* Every step of the system keeps the types.
LEMMA NextType ==
    ASSUME TypeInv, [Next]_vars
    PROVE  TypeInv'
<1> USE DEF TypeInv
<1>l. Pcs = {"idle", "claimed", "settask", "save", "engine", "wave", "task", "mark"}
  BY DEF Pcs
<1>t. {0, LeaseTicks} \subseteq 0 .. LeaseTicks
  BY ConstantsAssumption
<1>1. ASSUME NEW w \in Workers, NEW e \in Executions, Claim(w, e)
      PROVE  TypeInv'
  <2>1. status' \in [Executions -> Status]
    BY <1>1 DEF Claim, TypeOK, Status, Open, Live, Closed
  <2>2. attempt[e] + 1 \in Nat /\ Host[w] \in Hosts
    BY ConstantsAssumption DEF TypeOK
  <2>3. /\ attempt' \in [Executions -> Nat]
        /\ owner' \in [Executions -> Hosts \cup {NoOwner}]
        /\ lease' \in [Executions -> 0 .. LeaseTicks]
    BY <1>1, <1>t, <2>2 DEF Claim, TypeOK
  <2>4. WorkersTyped'
    BY <1>1, <1>l, <2>2 DEF Claim, TypeOK, WorkersTyped, BusyHasJob
  <2> QED
    BY <1>1, <2>1, <2>3, <2>4 DEF Claim, run_, TypeOK, WorkersTyped
<1>2. ASSUME NEW w \in Workers, Heartbeat(w)
      PROVE  TypeInv'
  BY <1>2, <1>t DEF Heartbeat, run_, worker, TypeOK, BusyHasJob
<1>3. ASSUME NEW w \in Workers, WatchTaskControls(w) \/ Shutdown(w)
      PROVE  TypeInv'
  <2>1. mem[w] \in Memory /\ pc[w] \in Pcs
    BY DEF TypeOK
  <2>2. PICK c \in {"none", "pause", "cancel"} : Goto(w, pc[w], [mem[w] EXCEPT !.ctl = c])
    BY <1>3 DEF WatchTaskControls, Shutdown
  <2>3. WorkersTyped'
    BY <1>3, <2>1, <2>2, MemoryUpdate, GotoType DEF WatchTaskControls, Shutdown
  <2> QED
    BY <1>3, <2>3 DEF WatchTaskControls, Shutdown, row, run_, TypeOK, WorkersTyped
<1>4. ASSUME NEW w \in Workers, Crash(w)
      PROVE  TypeInv'
  <2>1. WorkersTyped'
    BY <1>4, ReleaseType DEF Crash
  <2> QED
    BY <1>4, <2>1 DEF Crash, row, run_, TypeOK, WorkersTyped
<1>5. ASSUME NEW e \in Executions, EnqueueRunNow(e) \/ MaterializeDueSchedule(e)
      PROVE  TypeInv'
  <2>1. status' \in [Executions -> Status]
    BY <1>5 DEF EnqueueRunNow, MaterializeDueSchedule, TypeOK, Status, Open, Closed
  <2> QED
    BY <1>5, <2>1 DEF EnqueueRunNow, MaterializeDueSchedule, run_, worker, TypeOK, BusyHasJob
<1>6. ASSUME NEW e \in Executions, RequestScheduledExecutionResume(e)
      PROVE  TypeInv'
  <2>1. status' \in [Executions -> Status]
    BY <1>6 DEF RequestScheduledExecutionResume, TypeOK, Status, Open, Closed
  <2> QED
    BY <1>6, <2>1 DEF RequestScheduledExecutionResume, run_, worker, TypeOK, BusyHasJob
<1>7. ASSUME NEW e \in Executions, ApproveStep(e)
      PROVE  TypeInv'
  BY <1>7 DEF ApproveStep, row, worker, TypeOK, BusyHasJob, Decisions
<1>8. ASSUME NEW e \in Executions, RejectStep(e)
      PROVE  TypeInv'
  <2>1. /\ status' \in [Executions -> Status]
        /\ owner' \in [Executions -> Hosts \cup {NoOwner}]
        /\ lease' \in [Executions -> 0 .. LeaseTicks]
    BY <1>8, <1>t DEF RejectStep, TypeOK, Status, Closed
  <2>2. /\ decision' \in [Executions -> Decisions]
        /\ gate' \in [Executions -> GateStatus]
        /\ run' \in [Executions -> RunStatus]
        /\ done' \in [Executions -> BOOLEAN]
        /\ task' \in [Executions -> TaskStatus]
    BY <1>8 DEF RejectStep, TypeOK, Decisions, GateStatus, RunStatus, TaskStatus, Ended
  <2> QED
    BY <1>8, <2>1, <2>2 DEF RejectStep, worker, TypeOK, BusyHasJob
<1>9. ASSUME NEW e \in Executions, SetTaskStatus(e)
      PROVE  TypeInv'
  BY <1>9 DEF SetTaskStatus, row, worker, TypeOK, BusyHasJob, TaskStatus, Ended
<1>10. ASSUME NEW e \in Executions, Tick(e)
       PROVE  TypeInv'
  <2>1. lease[e] - 1 \in 0 .. LeaseTicks
    BY <1>10, ConstantsAssumption DEF Tick, TypeOK
  <2> QED
    BY <1>10, <2>1 DEF Tick, run_, worker, TypeOK, BusyHasJob
<1>11. ASSUME NEW e \in Executions, ReconcileStale(e)
       PROVE  TypeInv'
  <2> DEFINE p == ClassifyStaleLineage(e)
  <2>1. /\ p.status \in Status
        /\ p.task \in TaskStatus \cup {"keep"}
        /\ p.run \in RunStatus \cup {"keep"}
    BY PlanType
  <2> HIDE DEF p
  <2>2. /\ status' = [status EXCEPT ![e] = p.status]
        /\ owner' = [owner EXCEPT ![e] = NoOwner]
        /\ UNCHANGED <<attempt, lease, worker>>
    BY <1>11 DEF ReconcileStale, p
  <2>3. /\ task' \in [Executions -> TaskStatus]
        /\ run' \in [Executions -> RunStatus]
    <3>1. PICK c : task' = [task EXCEPT ![e] = IF p.task # "keep" /\ c THEN p.task ELSE @]
      BY <1>11 DEF ReconcileStale, SetIf, p
    <3>2. PICK d : run' = [run EXCEPT ![e] = IF d /\ p.run # "keep" THEN p.run ELSE @]
      BY <1>11 DEF ReconcileStale, SetIf, p
    <3> QED
      BY <2>1, <3>1, <3>2 DEF TypeOK
  <2>4. /\ done' \in [Executions -> BOOLEAN]
        /\ work' \in [Executions -> WorkStatus]
        /\ gate' \in [Executions -> GateStatus]
        /\ decision' \in [Executions -> Decisions]
    <3>1. PICK c1, c2, c3, c4 :
            /\ done' = [done EXCEPT ![e] = IF c1 THEN p.run \in Ended ELSE @]
            /\ work' = [work EXCEPT ![e] = IF c2 THEN "failed" ELSE @]
            /\ gate' = [gate EXCEPT ![e] = IF c3 THEN "failed" ELSE @]
            /\ decision' = [decision EXCEPT ![e] = IF c4 THEN "expired" ELSE @]
      BY <1>11 DEF ReconcileStale, SetIf, p
    <3>2. (p.run \in Ended) \in BOOLEAN
      OBVIOUS
    <3> QED
      BY <3>1, <3>2 DEF TypeOK, WorkStatus, GateStatus, Decisions
  <2> QED
    BY <2>1, <2>2, <2>3, <2>4 DEF worker, TypeOK, BusyHasJob
<1>12. CASE UNCHANGED vars
  BY <1>12 DEF vars, row, run_, worker, TypeOK, BusyHasJob
<1> QED
  BY <1>1, <1>2, <1>3, <1>4, <1>5, <1>6, <1>7, <1>8, <1>9, <1>10, <1>11, <1>12,
     WorkerStepType DEF Next, OperatorStep

\* The empty tables and idle workers are well typed.
LEMMA InitType == Init => TypeInv
<1>1. 0 \in 0 .. LeaseTicks
  BY ConstantsAssumption
<1>2. NoMemory \in Memory
  BY DEF NoMemory, Memory, RunStatus, Ended, Errors, TaskStatus
<1> QED
  BY <1>1, <1>2 DEF Init, TypeInv, TypeOK, BusyHasJob, Status, TaskStatus, RunStatus,
     WorkStatus, GateStatus, Decisions, Pcs

\* TypeOK holds in every reachable state: the worker writes only statuses
\* the tables allow, on every path of errors, crashes and recoveries.
THEOREM TypeCorrect == Spec => []TypeOK
<1>1. TypeInv /\ [Next]_vars => TypeInv'
  BY NextType
<1>2. TypeInv => TypeOK
  BY DEF TypeInv
<1> QED
  BY <1>1, <1>2, InitType, PTL DEF Spec

(***************************************************************************)
(* The fence.  Attempt numbers only grow and a claim takes a new one, so   *)
(* no two workers hold the same number of the same execution; the host     *)
(* name in lease_owner is not needed for that.                             *)
(***************************************************************************)
\* Claim numbers are unique per execution and never ahead of attempt_count.
ClaimsDistinct ==
    /\ \A w \in Workers : job[w] \in Executions => claim[w] <= attempt[job[w]]
    /\ \A w, v \in Workers :
          job[w] \in Executions /\ job[w] = job[v] /\ claim[w] = claim[v] => w = v

\* Every step but a claim leaves the claims alone or gives one up.
LEMMA FenceStep ==
    ASSUME [Next]_vars
    PROVE  \/ UNCHANGED <<job, claim, attempt>>
           \/ \E w \in Workers : Release(w) /\ UNCHANGED attempt
           \/ \E w \in Workers, e \in Executions : Claim(w, e)
<1>1. ASSUME NEW w \in Workers, NEW m, EngineReturns(w, m)
      PROVE  Release(w) \/ UNCHANGED <<job, claim>>
  BY <1>1 DEF EngineReturns, Goto
<1>2. ASSUME NEW w \in Workers, WorkerStep(w)
      PROVE  UNCHANGED attempt /\ (Release(w) \/ UNCHANGED <<job, claim>>)
  <2>1. CASE RunRefused(w) \/ CreateTask(w) \/ LoadRun(w) \/ ResumeTask(w)
             \/ SetTaskStatusFromWorkflow(w) \/ MarkScheduledExecution(w) \/ EngineAbandon(w)
    BY <2>1 DEF RunRefused, CreateTask, LoadRun, ResumeTask, SetTaskStatusFromWorkflow,
                MarkScheduledExecution, EngineAbandon, Goto, row
  <2>2. CASE InitialSave(w)
    BY <2>2, <1>1 DEF InitialSave, Goto
  <2>3. CASE PlanGate(w)
    BY <2>3, <1>1 DEF PlanGate, Goto, row
  <2>4. CASE StartWave(w)
    BY <2>4, <1>1 DEF StartWave, Goto, row
  <2>5. CASE EndWave(w)
    BY <2>5, <1>1 DEF EndWave, Goto, row
  <2>6. CASE EngineCancel(w) \/ EnginePause(w) \/ EngineFail(w) \/ EngineComplete(w)
    BY <2>6, <1>1 DEF EngineCancel, EnginePause, EngineFail, EngineComplete, Exit, row
  <2> QED
    BY <1>2, <2>1, <2>2, <2>3, <2>4, <2>5, <2>6 DEF WorkerStep
<1>3. ASSUME NEW w \in Workers,
             Heartbeat(w) \/ WatchTaskControls(w) \/ Crash(w) \/ Shutdown(w)
      PROVE  UNCHANGED attempt /\ (Release(w) \/ UNCHANGED <<job, claim>>)
  BY <1>3 DEF Heartbeat, WatchTaskControls, Crash, Shutdown, Goto, row, worker
<1>4. ASSUME NEW e \in Executions,
             OperatorStep(e) \/ MaterializeDueSchedule(e) \/ Tick(e) \/ ReconcileStale(e)
      PROVE  UNCHANGED <<job, claim, attempt>>
  BY <1>4 DEF OperatorStep, EnqueueRunNow, RequestScheduledExecutionResume, ApproveStep,
     RejectStep, SetTaskStatus, MaterializeDueSchedule, Tick, ReconcileStale, row, worker
<1>5. CASE UNCHANGED vars
  BY <1>5 DEF vars, row, worker
<1> QED
  BY <1>2, <1>3, <1>4, <1>5 DEF Next

\* A claim takes a number nobody has; the other steps leave the numbers alone.
LEMMA ClaimsStep ==
    ASSUME TypeInv, ClaimsDistinct, [Next]_vars
    PROVE  ClaimsDistinct'
<1> USE DEF TypeInv, TypeOK
<1>1. CASE UNCHANGED <<job, claim, attempt>>
  BY <1>1 DEF ClaimsDistinct
<1>2. ASSUME NEW w \in Workers, Release(w), UNCHANGED attempt
      PROVE  ClaimsDistinct'
  BY <1>2, ConstantsAssumption DEF ClaimsDistinct, Release
<1>3. ASSUME NEW w \in Workers, NEW e \in Executions, Claim(w, e)
      PROVE  ClaimsDistinct'
  <2>1. \A v \in Workers : v # w => job'[v] = job[v] /\ claim'[v] = claim[v]
    BY <1>3 DEF Claim
  <2>2. job'[w] = e /\ claim'[w] = attempt[e] + 1 /\ attempt'[e] = attempt[e] + 1
    BY <1>3 DEF Claim
  <2>3. \A f \in Executions : attempt[f] \in Nat /\ attempt'[f] \in Nat /\ attempt[f] <= attempt'[f]
    BY <1>3 DEF Claim
  <2>4. \A v \in Workers : v # w /\ job[v] = e => claim'[v] < claim'[w]
    BY <2>1, <2>2 DEF ClaimsDistinct
  <2>5. ASSUME NEW v \in Workers, job'[v] \in Executions
        PROVE  claim'[v] <= attempt'[job'[v]]
    BY <2>1, <2>2, <2>3, <2>5 DEF ClaimsDistinct
  <2>6. ASSUME NEW u \in Workers, NEW v \in Workers,
               job'[u] \in Executions, job'[u] = job'[v], claim'[u] = claim'[v]
        PROVE  u = v
    <3>1. \A x \in Workers : claim[x] \in Nat /\ claim'[x] \in Nat
      BY <2>1, <2>2, <2>3
    <3> QED
      BY <2>1, <2>2, <2>4, <2>6, <3>1 DEF ClaimsDistinct
  <2> QED
    BY <2>5, <2>6 DEF ClaimsDistinct
<1> QED
  BY <1>1, <1>2, <1>3, FenceStep

\* FencesExclusive for any number of workers and hosts: of the workers that
\* believe they run an execution, at most one passes lockedSchedulerLeaseValid.
THEOREM FencesAreExclusive == Spec => []FencesExclusive
<1> DEFINE IInv == TypeInv /\ ClaimsDistinct
<1>1. Init => ClaimsDistinct
  BY ConstantsAssumption DEF Init, ClaimsDistinct
<1>2. TypeInv /\ ClaimsDistinct /\ [Next]_vars => ClaimsDistinct'
  BY ClaimsStep
<1>3. IInv /\ [Next]_vars => IInv'
  BY <1>2, NextType
<1>4. IInv => FencesExclusive
  BY DEF ClaimsDistinct, FencesExclusive, LeaseValid
<1> QED
  BY <1>1, <1>3, <1>4, InitType, PTL DEF Spec

(***************************************************************************)
(* How the status of an execution moves.  All but planning and claiming is *)
(* one of these moves; the slot of a schedule, the finality of closed      *)
(* executions and the refinement of ScheduleSlot follow from them.         *)
(***************************************************************************)
\* One execution leaves a live status: it is closed, paused, started or
\* requeued; a running one is requeued only after a pause.
StatusMove(e, s) ==
    /\ status' = [status EXCEPT ![e] = s]
    /\ \/ status[e] \in Live /\ s \in Closed
       \/ status[e] \in {"claimed", "running"}
            /\ s \in {"paused_for_approval", "paused_operator", "running"}
       \/ status[e] \in {"claimed", "paused_for_approval", "paused_operator"} /\ s = "pending"

\* Every step of the system moves each execution by a StatusMove.
LEMMA StatusStep ==
    ASSUME TypeInv, [Next]_vars
    PROVE  \/ UNCHANGED status
           \/ \E w \in Workers, e \in Executions : Claim(w, e)
           \/ \E e \in Executions : EnqueueRunNow(e) \/ MaterializeDueSchedule(e)
           \/ \E e \in Executions, s \in Status : StatusMove(e, s)
<1> USE DEF TypeInv
<1>1. ASSUME NEW w \in Workers, WorkerStep(w)
      PROVE  UNCHANGED status \/ \E e \in Executions, s \in Status : StatusMove(e, s)
  <2> DEFINE e == job[w]
  <2>1. CASE InitialSave(w)
    <3>1. e \in Executions
      BY <2>1 DEF InitialSave, BusyHasJob
    <3>2. PICK r \in SaveResults(w), c \in BOOLEAN : status' = SetIf(status, e, Committed(r) /\ c, "running")
      BY <2>1 DEF InitialSave
    <3>3. UNCHANGED status \/ (SaveFence(w) /\ status' = [status EXCEPT ![e] = "running"])
      BY <3>2, SaveResultType DEF SetIf, TypeOK
    <3>4. SaveFence(w) => status[e] \in {"claimed", "running"}
      BY DEF SaveFence
    <3> QED
      BY <3>1, <3>3, <3>4 DEF StatusMove, Status, Open, Live
  <2>2. CASE MarkScheduledExecution(w)
    <3>1. e \in Executions /\ mem[w] \in Memory
      BY <2>2 DEF MarkScheduledExecution, BusyHasJob, TypeOK
    <3>2. \/ UNCHANGED status
          \/ /\ status[e] \in AllowedFrom(mem[w])
             /\ status' = [status EXCEPT ![e] = Outcome(mem[w])]
      BY <2>2 DEF MarkScheduledExecution, SetIf, TypeOK
    <3> QED
      BY <3>1, <3>2, OutcomeType DEF StatusMove, Status, Open, Live
  <2>3. CASE ~InitialSave(w) /\ ~MarkScheduledExecution(w)
    <3>1. UNCHANGED status
      BY <1>1, <2>3 DEF WorkerStep, RunRefused, CreateTask, LoadRun, ResumeTask, PlanGate,
         StartWave, EndWave, EngineCancel, EnginePause, EngineFail, EngineComplete,
         EngineAbandon, Exit, SetTaskStatusFromWorkflow, row
    <3> QED
      BY <3>1
  <2> QED
    BY <2>1, <2>2, <2>3
<1>2. ASSUME NEW w \in Workers,
             Heartbeat(w) \/ WatchTaskControls(w) \/ Crash(w) \/ Shutdown(w)
      PROVE  UNCHANGED status
  BY <1>2 DEF Heartbeat, WatchTaskControls, Crash, Shutdown, row
<1>3. ASSUME NEW e \in Executions, ApproveStep(e) \/ SetTaskStatus(e) \/ Tick(e)
      PROVE  UNCHANGED status
  BY <1>3 DEF ApproveStep, SetTaskStatus, Tick, row
<1>4. ASSUME NEW e \in Executions, RequestScheduledExecutionResume(e)
      PROVE  \E s \in Status : StatusMove(e, s)
  <2>1. PICK s \in {"approval_rejected", "pending"} : status' = [status EXCEPT ![e] = s]
    BY <1>4 DEF RequestScheduledExecutionResume
  <2>2. StatusMove(e, s)
    BY <1>4, <2>1 DEF RequestScheduledExecutionResume, StatusMove, Live, Closed
  <2> QED
    BY <2>2 DEF Status, Open, Closed
<1>5. ASSUME NEW e \in Executions, RejectStep(e)
      PROVE  \E s \in Status : StatusMove(e, s)
  <2>1. StatusMove(e, "approval_rejected")
    BY <1>5 DEF RejectStep, CanReject, StatusMove, Live, Closed
  <2> QED
    BY <2>1 DEF Status, Closed
<1>6. ASSUME NEW e \in Executions, ReconcileStale(e)
      PROVE  \E s \in Status : StatusMove(e, s)
  <2> DEFINE s == ClassifyStaleLineage(e).status
  <2>1. status' = [status EXCEPT ![e] = s] /\ status[e] \in {"claimed", "running"}
    BY <1>6 DEF ReconcileStale, Stale
  <2>2. s \in Status \ {"absent", "claimed", "running"} /\ (s = "pending" => status[e] = "claimed")
    BY PlanType
  <2> HIDE DEF s
  <2> QED
    BY <2>1, <2>2 DEF StatusMove, Status, Open, Live
<1>7. CASE UNCHANGED vars
  BY <1>7 DEF vars, row
<1> QED
  BY <1>1, <1>2, <1>3, <1>4, <1>5, <1>6, <1>7 DEF Next, OperatorStep

\* A claim changes the status of the claimed execution only: the pending
\* executions it would skip cannot exist while the slot is exclusive.
LEMMA ClaimMovesOne ==
    ASSUME TypeInv, OneOpenPerSchedule, NEW w \in Workers, NEW e \in Executions, Claim(w, e)
    PROVE  status[e] = "pending" /\ status' = [status EXCEPT ![e] = "claimed"]
<1>1. ASSUME NEW f \in Executions, status[f] = "pending"
      PROVE  ~OtherLive(f)
  BY <1>1 DEF OneOpenPerSchedule, OtherLive, SameSchedule, Open, Live
<1> QED
  BY <1>1 DEF Claim, TypeInv, TypeOK

\* No step opens a second execution of a schedule.
LEMMA OneOpenStep ==
    ASSUME TypeInv, OneOpenPerSchedule, [Next]_vars
    PROVE  OneOpenPerSchedule'
<1>1. CASE UNCHANGED status
  BY <1>1 DEF OneOpenPerSchedule
<1>2. ASSUME NEW w \in Workers, NEW e \in Executions, Claim(w, e)
      PROVE  OneOpenPerSchedule'
  BY <1>2, ClaimMovesOne DEF OneOpenPerSchedule, TypeInv, TypeOK, Open
<1>3. ASSUME NEW e \in Executions, EnqueueRunNow(e) \/ MaterializeDueSchedule(e)
      PROVE  OneOpenPerSchedule'
  BY <1>3 DEF EnqueueRunNow, MaterializeDueSchedule, HasOpenExecution, SameSchedule,
     OneOpenPerSchedule, TypeInv, TypeOK, Open, Live
<1>4. ASSUME NEW e \in Executions, NEW s \in Status, StatusMove(e, s)
      PROVE  OneOpenPerSchedule'
  BY <1>4 DEF StatusMove, OneOpenPerSchedule, TypeInv, TypeOK, Open, Live, Closed
<1> QED
  BY <1>1, <1>2, <1>3, <1>4, StatusStep

\* OneOpenPerSchedule for any number of schedules and executions: no mix of
\* run-now, cron, resume and recovery opens a second execution of a schedule.
THEOREM OneOpenExecution == Spec => []OneOpenPerSchedule
<1>1. Init => OneOpenPerSchedule
  BY DEF Init, OneOpenPerSchedule, Open, Live
<1>2. TypeInv /\ OneOpenPerSchedule /\ [Next]_vars => TypeInv' /\ OneOpenPerSchedule'
  BY NextType, OneOpenStep
<1> QED
  BY <1>1, <1>2, InitType, PTL DEF Spec

(***************************************************************************)
(* Closed executions and ended runs are final.                             *)
(***************************************************************************)
\* A step changes the run of at most one execution, and only one that has
\* not ended: every write of workflow_runs checks it first.
LEMMA RunStep ==
    ASSUME TypeInv, [Next]_vars
    PROVE  \/ UNCHANGED <<run, done>>
           \/ \E e \in Executions : /\ run[e] \notin Ended
                                    /\ \A f \in Executions \ {e} :
                                          run'[f] = run[f] /\ done'[f] = done[f]
<1> USE DEF TypeInv
<1> DEFINE OnlyOpen(e) == /\ run[e] \notin Ended
                          /\ \A f \in Executions \ {e} : run'[f] = run[f] /\ done'[f] = done[f]
<1>1. ASSUME NEW w \in Workers, WorkerStep(w)
      PROVE  UNCHANGED <<run, done>> \/ \E e \in Executions : OnlyOpen(e)
  <2> DEFINE e == job[w]
  <2>1. SaveFence(w) => run[e] \notin Ended
    BY DEF SaveFence
  <2>2. CASE InitialSave(w)
    <3>1. e \in Executions
      BY <2>2 DEF InitialSave, BusyHasJob
    <3>2. PICK r \in SaveResults(w), c \in BOOLEAN : /\ run' = SetIf(run, e, Committed(r) /\ c, "running")
                                        /\ done' = SetIf(done, e, Committed(r) /\ c, FALSE)
      BY <2>2 DEF InitialSave
    <3> QED
      BY <2>1, <3>1, <3>2, SaveResultType DEF SetIf, TypeOK
  <2>3. ASSUME pc[w] # "idle", NEW s, NEW complete, NEW swallow, NEW keep,
               Exit(w, s, complete, swallow, keep)
        PROVE  UNCHANGED <<run, done>> \/ \E x \in Executions : OnlyOpen(x)
    <3>1. e \in Executions
      BY <2>3 DEF BusyHasJob
    <3>2. PICK r \in SaveResults(w) : /\ run' = SetIf(run, e, Committed(r), s)
                                     /\ done' = SetIf(done, e, Committed(r), complete)
      BY <2>3 DEF Exit
    <3> QED
      BY <2>1, <3>1, <3>2, SaveResultType DEF SetIf, TypeOK
  <2>4. CASE EngineCancel(w) \/ EnginePause(w) \/ EngineFail(w) \/ EngineComplete(w)
    BY <2>3, <2>4 DEF EngineCancel, EnginePause, EngineFail, EngineComplete
  <2>5. CASE RunRefused(w) \/ CreateTask(w) \/ LoadRun(w) \/ ResumeTask(w) \/ PlanGate(w)
             \/ StartWave(w) \/ EndWave(w) \/ EngineAbandon(w)
             \/ SetTaskStatusFromWorkflow(w) \/ MarkScheduledExecution(w)
    BY <2>5 DEF RunRefused, CreateTask, LoadRun, ResumeTask, PlanGate, StartWave, EndWave,
       EngineAbandon, SetTaskStatusFromWorkflow, MarkScheduledExecution, run_
  <2> QED
    BY <1>1, <2>2, <2>4, <2>5 DEF WorkerStep
<1>2. ASSUME NEW w \in Workers,
             Heartbeat(w) \/ WatchTaskControls(w) \/ Crash(w) \/ Shutdown(w)
                 \/ \E e \in Executions : Claim(w, e)
      PROVE  UNCHANGED <<run, done>>
  BY <1>2 DEF Heartbeat, WatchTaskControls, Crash, Shutdown, Claim, run_
<1>3. ASSUME NEW e \in Executions,
             EnqueueRunNow(e) \/ RequestScheduledExecutionResume(e) \/ ApproveStep(e)
                 \/ SetTaskStatus(e) \/ MaterializeDueSchedule(e) \/ Tick(e)
      PROVE  UNCHANGED <<run, done>>
  BY <1>3 DEF EnqueueRunNow, RequestScheduledExecutionResume, ApproveStep, SetTaskStatus,
     MaterializeDueSchedule, Tick, run_
<1>4. ASSUME NEW e \in Executions, RejectStep(e)
      PROVE  OnlyOpen(e)
  BY <1>4 DEF RejectStep, CanReject, TypeOK, Ended
<1>5. ASSUME NEW e \in Executions, ReconcileStale(e)
      PROVE  UNCHANGED <<run, done>> \/ OnlyOpen(e)
  BY <1>5 DEF ReconcileStale, SetIf, TypeOK
<1>6. CASE UNCHANGED vars
  BY <1>6 DEF vars, run_
<1> QED
  BY <1>1, <1>2, <1>3, <1>4, <1>5, <1>6 DEF Next, OperatorStep

\* HistoryIsFinal for any constants: a late worker, a resume, a rejection or
\* the recovery pass never rewrites a closed execution or an ended run.
THEOREM HistoryStaysFinal == Spec => HistoryIsFinal
<1> DEFINE Final == \A e \in Executions :
              /\ status[e] \in Closed => status'[e] = status[e]
              /\ run[e] \in Ended => run'[e] = run[e] /\ done'[e] = done[e]
<1>1. ASSUME TypeInv, OneOpenPerSchedule, [Next]_vars
      PROVE  Final
  <2>1. ASSUME NEW f \in Executions, status[f] \in Closed
        PROVE  status'[f] = status[f]
    <3>1. ASSUME NEW w \in Workers, NEW e \in Executions, Claim(w, e)
          PROVE  status'[f] = status[f]
      BY <1>1, <2>1, <3>1, ClaimMovesOne DEF TypeInv, TypeOK, Closed
    <3>2. ASSUME NEW e \in Executions, EnqueueRunNow(e) \/ MaterializeDueSchedule(e)
          PROVE  status'[f] = status[f]
      BY <1>1, <2>1, <3>2 DEF EnqueueRunNow, MaterializeDueSchedule, TypeInv, TypeOK, Closed
    <3>3. ASSUME NEW e \in Executions, NEW s \in Status, StatusMove(e, s)
          PROVE  status'[f] = status[f]
      BY <1>1, <2>1, <3>3 DEF StatusMove, TypeInv, TypeOK, Closed, Live
    <3> QED
      BY <1>1, <3>1, <3>2, <3>3, StatusStep
  <2>2. ASSUME NEW f \in Executions, run[f] \in Ended
        PROVE  run'[f] = run[f] /\ done'[f] = done[f]
    BY <1>1, <2>2, RunStep
  <2> QED
    BY <2>1, <2>2
<1>2. Spec => []TypeInv
  <2>1. TypeInv /\ [Next]_vars => TypeInv'
    BY NextType
  <2> QED
    BY <2>1, InitType, PTL DEF Spec
<1>3. TypeInv /\ OneOpenPerSchedule /\ [Next]_vars => [Final]_vars
  BY <1>1
<1> QED
  BY <1>2, <1>3, OneOpenExecution, PTL DEF Spec, HistoryIsFinal

(***************************************************************************)
(* Refinement.                                                             *)
(***************************************************************************)
\* The scheduler implements ScheduleSlot: with leases, crashes, recovery,
\* pauses and approvals it still moves executions only along the steps of
\* the slot, and so never starts again behind the operator's back what has
\* already run.
THEOREM SchedulerImplementsSlot == Spec => ImplementsSlot
<1> DEFINE ph == [e \in Executions |-> PhaseOf(status[e])]
<1>1. Init => Slot!SlotInit
  BY DEF Init, Slot!SlotInit, PhaseOf
<1>2. ASSUME TypeInv, OneOpenPerSchedule, [Next]_vars
      PROVE  Slot!SlotNext \/ ph' = ph
  <2> USE DEF TypeInv, TypeOK
  <2>f. \A e \in Executions : Slot!Free(e) <=> ~HasOpenExecution(e)
    BY <1>2 DEF Slot!Free, Slot!Occupying, HasOpenExecution, SameSchedule, PhaseOf, Status,
       Open, Live, Closed
  <2>m. ASSUME NEW e \in Executions, NEW s, status' = [status EXCEPT ![e] = s]
        PROVE  ph' = [ph EXCEPT ![e] = PhaseOf(s)] /\ ph[e] = PhaseOf(status[e])
    BY <1>2, <2>m
  <2>1. CASE UNCHANGED status
    BY <2>1
  <2>2. ASSUME NEW w \in Workers, NEW e \in Executions, Claim(w, e)
        PROVE  Slot!SlotNext
    <3>1. status[e] = "pending" /\ status' = [status EXCEPT ![e] = "claimed"]
      BY <1>2, <2>2, ClaimMovesOne
    <3>2. Slot!Take(e)
      BY <2>m, <3>1 DEF Slot!Take, Slot!Move, PhaseOf
    <3> QED
      BY <3>2 DEF Slot!SlotNext
  <2>3. ASSUME NEW e \in Executions, EnqueueRunNow(e) \/ MaterializeDueSchedule(e)
        PROVE  Slot!SlotNext
    <3>1. \/ ~HasOpenExecution(e) /\ status' = [status EXCEPT ![e] = "pending"]
          \/ HasOpenExecution(e) /\ status' = [status EXCEPT ![e] = "skipped_overlap"]
      BY <2>3 DEF EnqueueRunNow, MaterializeDueSchedule
    <3>2. status[e] = "absent"
      BY <2>3 DEF EnqueueRunNow, MaterializeDueSchedule
    <3>3. Slot!Plan(e) \/ Slot!Skip(e)
      <4>1. /\ PhaseOf("absent") = "new"
            /\ PhaseOf("pending") = "queued"
            /\ PhaseOf("skipped_overlap") = "closed"
        BY DEF PhaseOf
      <4>2. ph[e] = "new"
        BY <3>2, <4>1
      <4>3. CASE ~HasOpenExecution(e) /\ status' = [status EXCEPT ![e] = "pending"]
        <5>1. ph' = [ph EXCEPT ![e] = "queued"]
          BY <1>2, <4>1, <4>3
        <5> QED
          BY <2>f, <4>2, <4>3, <5>1 DEF Slot!Plan, Slot!Move
      <4>4. CASE HasOpenExecution(e) /\ status' = [status EXCEPT ![e] = "skipped_overlap"]
        <5>1. ph' = [ph EXCEPT ![e] = "closed"]
          BY <1>2, <4>1, <4>4
        <5> QED
          BY <2>f, <4>2, <4>4, <5>1 DEF Slot!Skip, Slot!Move
      <4> QED
        BY <3>1, <4>3, <4>4
    <3> QED
      BY <3>3 DEF Slot!SlotNext
  <2>4. ASSUME NEW e \in Executions, NEW s \in Status, StatusMove(e, s)
        PROVE  Slot!SlotNext \/ ph' = ph
    <3>1. ph' = [ph EXCEPT ![e] = PhaseOf(s)] /\ ph[e] = PhaseOf(status[e])
      BY <2>4, <2>m DEF StatusMove
    <3>2. \/ ph[e] \in {"claimed", "running", "paused"} /\ PhaseOf(s) = "closed"
          \/ ph[e] \in {"claimed", "running"} /\ PhaseOf(s) = "paused"
          \/ ph[e] = "claimed" /\ PhaseOf(s) = "running"
          \/ ph[e] = "running" /\ PhaseOf(s) = "running"
          \/ ph[e] \in {"claimed", "paused"} /\ PhaseOf(s) = "queued"
      <4>1. \A x : /\ x \in Closed => PhaseOf(x) = "closed"
                   /\ x \in {"paused_for_approval", "paused_operator"} => PhaseOf(x) = "paused"
                   /\ x = "claimed" => PhaseOf(x) = "claimed"
                   /\ x = "running" => PhaseOf(x) = "running"
                   /\ x = "pending" => PhaseOf(x) = "queued"
        BY DEF PhaseOf, Closed
      <4> QED
        BY <2>4, <3>1, <4>1 DEF StatusMove, Live
    <3>3. \/ Slot!Close(e) \/ Slot!Pause(e) \/ Slot!Start(e) \/ Slot!GiveBack(e) \/ Slot!Resume(e)
          \/ ph' = ph
      BY <3>1, <3>2 DEF Slot!Close, Slot!Pause, Slot!Start, Slot!GiveBack, Slot!Resume, Slot!Move
    <3> QED
      BY <3>3 DEF Slot!SlotNext
  <2> QED
    BY <1>2, <2>1, <2>2, <2>3, <2>4, StatusStep
<1>3. Spec => []TypeInv
  <2>1. TypeInv /\ [Next]_vars => TypeInv'
    BY NextType
  <2> QED
    BY <2>1, InitType, PTL DEF Spec
<1>4. TypeInv /\ OneOpenPerSchedule /\ [Next]_vars => [Slot!SlotNext]_ph
  BY <1>2
<1> QED
  BY <1>1, <1>3, <1>4, OneOpenExecution, PTL DEF Spec, ImplementsSlot, Slot!SlotSpec

(***************************************************************************)
(* The approval gate.  GateNeedsApproval is not inductive: a worker sets   *)
(* the gated step running on the strength of what it holds in memory.      *)
(* What it holds (an Approval callback, or the step in its current wave)   *)
(* is backed by a recorded approval, and a recorded approval is never      *)
(* withdrawn.                                                              *)
(***************************************************************************)
\* A worker's memory holds consent for the gated step.
HoldsConsent(m) == m.approval \/ "gate" \in m.wave

\* Consent in a worker's memory was read from a recorded approval (GateNeedsApproval
\* is about the tables only, so this is its strengthening).
ConsentIsRecorded ==
    /\ \A w \in Workers :
          job[w] \in Executions /\ HoldsConsent(mem[w]) => decision[job[w]] = "approved"
    /\ \A w \in Workers : pc[w] = "idle" => ~HoldsConsent(mem[w])

\* No step withdraws an approval.
ApprovalsKept ==
    \A e \in Executions : decision[e] = "approved" => decision'[e] = "approved"

\* A worker that starts over holds no consent.
LEMMA NoConsent == ~HoldsConsent(NoMemory)
BY DEF HoldsConsent, NoMemory

\* Releasing a worker adds no consent.
LEMMA ReleaseConsent ==
    ASSUME TypeInv, ConsentIsRecorded, ApprovalsKept, NEW w \in Workers, Release(w)
    PROVE  ConsentIsRecorded'
BY NoConsent, ConstantsAssumption
   DEF TypeInv, TypeOK, ConsentIsRecorded, ApprovalsKept, Release

\* Moving on with memory m adds at most the consent m holds.
LEMMA GotoConsent ==
    ASSUME TypeInv, ConsentIsRecorded, ApprovalsKept, NEW w \in Workers,
           NEW label \in Pcs \ {"idle"}, NEW m \in Memory, Goto(w, label, m),
           HoldsConsent(m) => decision[job[w]] = "approved"
    PROVE  ConsentIsRecorded'
BY DEF TypeInv, TypeOK, ConsentIsRecorded, ApprovalsKept, Goto

\* Neither does the return of the engine add any.
LEMMA ReturnsConsent ==
    ASSUME TypeInv, ConsentIsRecorded, ApprovalsKept, NEW w \in Workers,
           NEW m \in Memory, EngineReturns(w, m),
           HoldsConsent(m) => decision[job[w]] = "approved"
    PROVE  ConsentIsRecorded'
<1>1. "task" \in Pcs \ {"idle"}
  BY DEF Pcs
<1> QED
  BY <1>1, GotoConsent, ReleaseConsent DEF EngineReturns

\* Every step of the system keeps the recorded approvals.
LEMMA ApprovalStep ==
    ASSUME TypeInv, [Next]_vars
    PROVE  ApprovalsKept
<1> USE DEF TypeInv
<1>1. ASSUME NEW w \in Workers, WorkerStep(w)
      PROVE  ApprovalsKept
  <2>1. CASE PlanGate(w)
    BY <2>1 DEF PlanGate, SetIf, TypeOK, ApprovalsKept
  <2>2. CASE ~PlanGate(w)
    <3>1. UNCHANGED decision
      BY <1>1, <2>2 DEF WorkerStep, RunRefused, CreateTask, LoadRun, ResumeTask, InitialSave,
         StartWave, EndWave, EngineCancel, EnginePause, EngineFail, EngineComplete,
         EngineAbandon, Exit, SetTaskStatusFromWorkflow, MarkScheduledExecution, run_
    <3> QED
      BY <3>1 DEF ApprovalsKept
  <2> QED
    BY <2>1, <2>2
<1>2. ASSUME NEW w \in Workers,
             Heartbeat(w) \/ WatchTaskControls(w) \/ Crash(w) \/ Shutdown(w)
                 \/ \E e \in Executions : Claim(w, e)
      PROVE  ApprovalsKept
  BY <1>2 DEF Heartbeat, WatchTaskControls, Crash, Shutdown, Claim, run_, ApprovalsKept
<1>3. ASSUME NEW e \in Executions,
             OperatorStep(e) \/ MaterializeDueSchedule(e) \/ Tick(e)
      PROVE  ApprovalsKept
  BY <1>3 DEF OperatorStep, EnqueueRunNow, RequestScheduledExecutionResume, ApproveStep,
     RejectStep, CanReject, SetTaskStatus, MaterializeDueSchedule, Tick, run_, TypeOK, ApprovalsKept
<1>4. ASSUME NEW e \in Executions, ReconcileStale(e)
      PROVE  ApprovalsKept
  BY <1>4 DEF ReconcileStale, SetIf, TypeOK, ApprovalsKept
<1>5. CASE UNCHANGED vars
  BY <1>5 DEF vars, run_, ApprovalsKept
<1> QED
  BY <1>1, <1>2, <1>3, <1>4, <1>5 DEF Next

\* The gate after a step in which only execution e may change, and only to g.
LEMMA GateMove ==
    ASSUME TypeInv, GateNeedsApproval, ApprovalsKept, NEW e \in Executions, NEW c, NEW g,
           gate' = SetIf(gate, e, c, g),
           c /\ g \in {"running", "succeeded"} => decision[e] = "approved"
    PROVE  GateNeedsApproval'
BY DEF TypeInv, TypeOK, SetIf, GateNeedsApproval, ApprovalsKept

\* A transaction of a worker starts the gated step only with recorded consent.
LEMMA GateWorkerStep ==
    ASSUME TypeInv, GateNeedsApproval, ConsentIsRecorded, ApprovalsKept,
           NEW w \in Workers, WorkerStep(w)
    PROVE  GateNeedsApproval' /\ ConsentIsRecorded'
<1> DEFINE e == job[w]
<1>l. Pcs = {"idle", "claimed", "settask", "save", "engine", "wave", "task", "mark"}
  BY DEF Pcs
<1>m. mem[w] \in Memory
  BY DEF TypeInv, TypeOK
<1>e. pc[w] # "idle" => e \in Executions
  BY DEF TypeInv, BusyHasJob
<1>c. e \in Executions /\ HoldsConsent(mem[w]) => decision[e] = "approved"
  BY DEF ConsentIsRecorded
<1>s. ASSUME UNCHANGED gate
      PROVE  GateNeedsApproval'
  BY <1>s DEF GateNeedsApproval, ApprovalsKept
<1>1. CASE RunRefused(w)
  <2>1. PICK err \in Errors : Goto(w, "mark", [mem[w] EXCEPT !.err = err])
    BY <1>1 DEF RunRefused, Errors
  <2>2. [mem[w] EXCEPT !.err = err] \in Memory
    BY <1>m, MemoryUpdate
  <2>3. HoldsConsent([mem[w] EXCEPT !.err = err]) => HoldsConsent(mem[w])
    BY <1>m DEF HoldsConsent, Memory
  <2> QED
    BY <1>1, <1>s, <1>l, <1>e, <1>c, <2>1, <2>2, <2>3, GotoConsent DEF RunRefused, run_
<1>2. CASE CreateTask(w)
  <2>1. [mem[w] EXCEPT !.err = "other"] \in Memory
    BY <1>m, MemoryUpdate DEF Errors
  <2>2. HoldsConsent([mem[w] EXCEPT !.err = "other"]) => HoldsConsent(mem[w])
    BY <1>m DEF HoldsConsent, Memory
  <2> QED
    BY <1>2, <1>s, <1>l, <1>e, <1>c, <1>m, <2>1, <2>2, GotoConsent DEF CreateTask
<1>3. CASE LoadRun(w)
  <2> DEFINE m == [mem[w] EXCEPT !.seen = task[e], !.awaiting = (gate[e] = "awaiting"),
                       !.approval = ApprovedByRecord(e),
                       !.ctl = IF task[e] = "cancelled" THEN "cancel" ELSE "none"]
  <2>1. task[e] \in TaskStatus
    BY <1>3, <1>e DEF LoadRun, TypeInv, TypeOK
  <2>2. m \in Memory
    <3> DEFINE waits == gate[e] = "awaiting"
               consent == ApprovedByRecord(e)
               control == IF task[e] = "cancelled" THEN "cancel" ELSE "none"
    <3>1. waits \in BOOLEAN /\ consent \in BOOLEAN
      BY Zenon DEF ApprovedByRecord
    <3>2. control \in {"none", "pause", "cancel"}
      OBVIOUS
    <3>3. [mem[w] EXCEPT !.seen = task[e], !.awaiting = waits, !.approval = consent,
                         !.ctl = control] \in Memory
      <4> HIDE DEF waits, consent, control
      <4> QED
        BY <1>m, <2>1, <3>1, <3>2, MemoryUpdate
    <3> QED
      BY <3>3, Zenon
  <2>3. HoldsConsent(m) => HoldsConsent(mem[w]) \/ decision[e] = "approved"
    BY <1>m DEF HoldsConsent, Memory, ApprovedByRecord
  <2>4. Goto(w, IF task[e] = "paused" THEN "settask" ELSE "save", m)
    BY <1>3 DEF LoadRun
  <2> HIDE DEF m
  <2> QED
    BY <1>3, <1>s, <1>l, <1>e, <1>c, <2>2, <2>3, <2>4, GotoConsent DEF LoadRun, run_
<1>4. CASE ResumeTask(w) \/ SetTaskStatusFromWorkflow(w)
  BY <1>4, <1>s, <1>l, <1>e, <1>c, <1>m, GotoConsent DEF ResumeTask, SetTaskStatusFromWorkflow
<1>5. CASE EngineAbandon(w) \/ MarkScheduledExecution(w)
  BY <1>5, <1>s, ReleaseConsent DEF EngineAbandon, MarkScheduledExecution, run_
<1>6. CASE InitialSave(w)
  <2> DEFINE m0 == [mem[w] EXCEPT !.run = "running"]
  <2>1. PICK x \in Errors : \/ Goto(w, "engine", m0)
                            \/ EngineReturns(w, [m0 EXCEPT !.err = x])
    BY <1>6, SaveResultType, ErrorType DEF InitialSave, Errors
  <2>2. m0 \in Memory /\ [m0 EXCEPT !.err = x] \in Memory
    BY <1>m, MemoryUpdate DEF RunStatus
  <2>3. HoldsConsent(m0) \/ HoldsConsent([m0 EXCEPT !.err = x]) => HoldsConsent(mem[w])
    BY <1>m DEF HoldsConsent, Memory
  <2> QED
    BY <1>6, <1>s, <1>l, <1>e, <1>c, <2>1, <2>2, <2>3, GotoConsent, ReturnsConsent DEF InitialSave
<1>7. CASE PlanGate(w)
  <2> DEFINE m1(wait) == [mem[w] EXCEPT !.blocked = wait, !.awaiting = wait]
  <2>1. PICK r \in SaveStep(w, {"gate"}), wait \in BOOLEAN :
          /\ gate' = SetIf(gate, e, Committed(r), IF wait THEN "awaiting" ELSE "skipped")
          /\ IF r = "ok" THEN Goto(w, "engine", m1(wait))
             ELSE EngineReturns(w, [m1(wait) EXCEPT !.err = ErrorOf(r)])
    BY <1>7 DEF PlanGate
  <2>2. m1(wait) \in Memory /\ [m1(wait) EXCEPT !.err = ErrorOf(r)] \in Memory
    BY <1>m, MemoryUpdate, SaveResultType, ErrorType
  <2>3. HoldsConsent(m1(wait)) \/ HoldsConsent([m1(wait) EXCEPT !.err = ErrorOf(r)])
          => HoldsConsent(mem[w])
    BY <1>m DEF HoldsConsent, Memory
  <2>4. e \in Executions
    BY <1>7, <1>e DEF PlanGate
  <2> HIDE DEF m1
  <2> QED
    BY <1>l, <1>c, <2>1, <2>2, <2>3, <2>4, GateMove, GotoConsent, ReturnsConsent
<1>8. CASE StartWave(w)
  <2> DEFINE m1(steps) == [mem[w] EXCEPT !.wave = steps, !.awaiting = @ /\ "gate" \notin steps]
  <2>0. PICK steps \in SUBSET {"work", "gate"} : \E r \in SaveStep(w, steps) :
          /\ "gate" \in steps => mem[w].approval
          /\ gate' = SetIf(gate, e, Committed(r) /\ "gate" \in steps, "running")
          /\ IF r = "ok" THEN Goto(w, "wave", m1(steps))
             ELSE EngineReturns(w, [m1(steps) EXCEPT !.err = ErrorOf(r)])
    BY <1>8 DEF StartWave, Ready
  <2>1. PICK r \in SaveStep(w, steps) :
          /\ "gate" \in steps => mem[w].approval
          /\ gate' = SetIf(gate, e, Committed(r) /\ "gate" \in steps, "running")
          /\ IF r = "ok" THEN Goto(w, "wave", m1(steps))
             ELSE EngineReturns(w, [m1(steps) EXCEPT !.err = ErrorOf(r)])
    BY <2>0
  <2>2. m1(steps) \in Memory
    <3>1. (mem[w].awaiting /\ "gate" \notin steps) \in BOOLEAN
      OBVIOUS
    <3> QED
      BY <1>m, <3>1, MemoryUpdate
  <2>3. [m1(steps) EXCEPT !.err = ErrorOf(r)] \in Memory
    BY <2>2, MemoryUpdate, SaveResultType, ErrorType
  <2>4. HoldsConsent(m1(steps)) \/ HoldsConsent([m1(steps) EXCEPT !.err = ErrorOf(r)])
          => HoldsConsent(mem[w])
    BY <1>m, <2>1 DEF HoldsConsent, Memory
  <2>5. e \in Executions
    BY <1>8, <1>e DEF StartWave
  <2>6. "gate" \in steps => decision[e] = "approved"
    BY <1>c, <2>1, <2>5 DEF HoldsConsent
  <2> HIDE DEF m1
  <2> QED
    BY <1>l, <1>c, <2>1, <2>2, <2>3, <2>4, <2>5, <2>6, GateMove, GotoConsent, ReturnsConsent
<1>9. CASE EndWave(w)
  <2>0. PICK workOut \in {"succeeded", "failed"} \cup (IF work[e] = "finishing" THEN {} ELSE {"partial"}),
             gateOut \in {"succeeded", "failed"},
             r \in SaveResults(w), stored \in BOOLEAN :
          LET c == Committed(r) \/ (r = "error" /\ stored)
              ran == mem[w].wave
              m == [mem[w] EXCEPT !.wave = {},
                      !.failed = \/ "work" \in ran /\ workOut = "failed"
                                 \/ "gate" \in ran /\ gateOut = "failed"] IN
          /\ work' = SetIf(work, e, c /\ "work" \in ran, workOut)
          /\ gate' = SetIf(gate, e, c /\ "gate" \in ran, gateOut)
          /\ IF r = "ok" THEN Goto(w, "engine", m)
             ELSE EngineReturns(w, [m EXCEPT !.err = ErrorOf(r)])
    BY <1>9 DEF EndWave
  <2> DEFINE bad == \/ "work" \in mem[w].wave /\ workOut = "failed"
                    \/ "gate" \in mem[w].wave /\ gateOut = "failed"
             c == Committed(r) \/ (r = "error" /\ stored)
             m1 == [mem[w] EXCEPT !.wave = {}, !.failed = bad]
  <2>1. /\ gate' = SetIf(gate, e, c /\ "gate" \in mem[w].wave, gateOut)
        /\ IF r = "ok" THEN Goto(w, "engine", m1)
           ELSE EngineReturns(w, [m1 EXCEPT !.err = ErrorOf(r)])
    BY <2>0
  <2>2. m1 \in Memory
    BY <1>m, MemoryUpdate
  <2>3. [m1 EXCEPT !.err = ErrorOf(r)] \in Memory
    BY <2>2, MemoryUpdate, SaveResultType, ErrorType
  <2>4. HoldsConsent(m1) \/ HoldsConsent([m1 EXCEPT !.err = ErrorOf(r)])
          => HoldsConsent(mem[w])
    BY <1>m DEF HoldsConsent, Memory
  <2>5. e \in Executions
    BY <1>9, <1>e DEF EndWave
  <2>6. "gate" \in mem[w].wave => decision[e] = "approved"
    BY <1>c, <2>5 DEF HoldsConsent
  <2> HIDE DEF m1
  <2> QED
    BY <1>l, <1>c, <2>1, <2>2, <2>3, <2>4, <2>5, <2>6, GateMove, GotoConsent, ReturnsConsent
<1>10. ASSUME pc[w] # "idle", NEW s \in RunStatus, NEW complete, NEW swallow, NEW keep \in Errors,
              Exit(w, s, complete, swallow, keep)
       PROVE  GateNeedsApproval' /\ ConsentIsRecorded'
  <2>1. PICK r \in SaveResults(w) :
          EngineReturns(w, [mem[w] EXCEPT !.run = s,
              !.err = IF swallow \/ r = "ok" THEN keep ELSE ErrorOf(r)])
    BY <1>10 DEF Exit
  <2> DEFINE err == IF swallow \/ r = "ok" THEN keep ELSE ErrorOf(r)
  <2>2. err \in Errors
    BY SaveResultType, ErrorType
  <2> HIDE DEF err
  <2>3. [mem[w] EXCEPT !.run = s, !.err = err] \in Memory
    BY <1>m, <2>2, <1>10, MemoryUpdate
  <2>4. HoldsConsent([mem[w] EXCEPT !.run = s, !.err = err]) => HoldsConsent(mem[w])
    BY <1>m DEF HoldsConsent, Memory
  <2>5. EngineReturns(w, [mem[w] EXCEPT !.run = s, !.err = err])
    BY <2>1 DEF err
  <2>6. UNCHANGED gate
    BY <1>10 DEF Exit
  <2> QED
    BY <1>10, <1>e, <1>s, <1>c, <2>3, <2>4, <2>5, <2>6, ReturnsConsent
<1>11. CASE EngineCancel(w) \/ EnginePause(w) \/ EngineFail(w) \/ EngineComplete(w)
  <2>1. {"paused", "completed", "failed", "cancelled"} \subseteq RunStatus /\ {"none", "other"} \subseteq Errors
    BY DEF RunStatus, Ended, Errors
  <2> QED
    BY <1>10, <1>11, <2>1 DEF EngineCancel, EnginePause, EngineFail, EngineComplete
<1> QED
  BY <1>1, <1>2, <1>3, <1>4, <1>5, <1>6, <1>7, <1>8, <1>9, <1>11 DEF WorkerStep

\* No step starts the gated step, or lets a worker believe it may, without
\* a recorded approval.
LEMMA GateStep ==
    ASSUME TypeInv, GateNeedsApproval, ConsentIsRecorded, [Next]_vars
    PROVE  GateNeedsApproval' /\ ConsentIsRecorded'
<1>0. TypeInv /\ ApprovalsKept
  BY ApprovalStep
<1>s. ASSUME UNCHANGED gate
      PROVE  GateNeedsApproval'
  BY <1>0, <1>s DEF GateNeedsApproval, ApprovalsKept
<1>w. ASSUME UNCHANGED worker
      PROVE  ConsentIsRecorded'
  BY <1>0, <1>w DEF TypeInv, TypeOK, ConsentIsRecorded, ApprovalsKept, worker
<1>1. ASSUME NEW w \in Workers, WorkerStep(w)
      PROVE  GateNeedsApproval' /\ ConsentIsRecorded'
  BY <1>0, <1>1, GateWorkerStep
<1>2. ASSUME NEW w \in Workers, NEW e \in Executions, Claim(w, e)
      PROVE  GateNeedsApproval' /\ ConsentIsRecorded'
  <2>1. ~HoldsConsent(mem[w])
    BY <1>2 DEF Claim, ConsentIsRecorded
  <2>2. ConsentIsRecorded'
    BY <1>0, <1>2, <2>1 DEF Claim, ConsentIsRecorded, ApprovalsKept, TypeInv, TypeOK
  <2> QED
    BY <1>2, <1>s, <2>2 DEF Claim, run_
<1>3. ASSUME NEW w \in Workers, WatchTaskControls(w) \/ Shutdown(w)
      PROVE  GateNeedsApproval' /\ ConsentIsRecorded'
  <2>1. mem[w] \in Memory /\ pc[w] \in Pcs \ {"idle"} /\ job[w] \in Executions
    BY <1>0, <1>3 DEF TypeInv, TypeOK, BusyHasJob, WatchTaskControls, Shutdown
  <2>2. PICK c \in {"none", "pause", "cancel"} : Goto(w, pc[w], [mem[w] EXCEPT !.ctl = c])
    BY <1>3 DEF WatchTaskControls, Shutdown
  <2>3. [mem[w] EXCEPT !.ctl = c] \in Memory
    BY <2>1, MemoryUpdate
  <2>4. HoldsConsent([mem[w] EXCEPT !.ctl = c]) => decision[job[w]] = "approved"
    BY <2>1 DEF ConsentIsRecorded, HoldsConsent, Memory
  <2>5. ConsentIsRecorded'
    BY <1>0, <2>1, <2>2, <2>3, <2>4, GotoConsent
  <2> QED
    BY <1>3, <1>s, <2>5 DEF WatchTaskControls, Shutdown, run_
<1>4. ASSUME NEW w \in Workers, Crash(w)
      PROVE  GateNeedsApproval' /\ ConsentIsRecorded'
  BY <1>0, <1>4, <1>s, ReleaseConsent DEF Crash, run_
<1>5. ASSUME NEW w \in Workers, Heartbeat(w)
      PROVE  GateNeedsApproval' /\ ConsentIsRecorded'
  BY <1>5, <1>s, <1>w DEF Heartbeat, run_
<1>6. ASSUME NEW e \in Executions,
             EnqueueRunNow(e) \/ RequestScheduledExecutionResume(e) \/ ApproveStep(e)
                 \/ SetTaskStatus(e) \/ MaterializeDueSchedule(e) \/ Tick(e)
      PROVE  GateNeedsApproval' /\ ConsentIsRecorded'
  BY <1>6, <1>s, <1>w DEF EnqueueRunNow, RequestScheduledExecutionResume, ApproveStep,
     SetTaskStatus, MaterializeDueSchedule, Tick, run_
<1>7. ASSUME NEW e \in Executions, RejectStep(e)
      PROVE  GateNeedsApproval' /\ ConsentIsRecorded'
  <2>1. GateNeedsApproval'
    BY <1>0, <1>7 DEF RejectStep, GateNeedsApproval, ApprovalsKept, TypeInv, TypeOK
  <2> QED
    BY <1>7, <1>w, <2>1 DEF RejectStep
<1>8. ASSUME NEW e \in Executions, ReconcileStale(e)
      PROVE  GateNeedsApproval' /\ ConsentIsRecorded'
  <2>1. PICK c : gate' = SetIf(gate, e, c, "failed")
    BY <1>8 DEF ReconcileStale
  <2>2. GateNeedsApproval'
    BY <1>0, <2>1, GateMove
  <2> QED
    BY <1>8, <1>w, <2>2 DEF ReconcileStale
<1>9. CASE UNCHANGED vars
  BY <1>9, <1>s, <1>w DEF vars, run_
<1> QED
  BY <1>1, <1>2, <1>3, <1>4, <1>5, <1>6, <1>7, <1>8, <1>9 DEF Next, OperatorStep

\* GateNeedsApproval for any constants: the gated step is in flight or done
\* only with a recorded approval, whoever pauses, crashes, resumes or decides.
THEOREM GateIsApproved == Spec => []GateNeedsApproval
<1> DEFINE IInv == TypeInv /\ GateNeedsApproval /\ ConsentIsRecorded
<1>1. Init => GateNeedsApproval /\ ConsentIsRecorded
  BY NoConsent, ConstantsAssumption DEF Init, GateNeedsApproval, ConsentIsRecorded
<1>2. TypeInv /\ GateNeedsApproval /\ ConsentIsRecorded /\ [Next]_vars
          => GateNeedsApproval' /\ ConsentIsRecorded'
  BY GateStep
<1>3. IInv /\ [Next]_vars => IInv'
  BY <1>2, NextType
<1> QED
  BY <1>1, <1>3, InitType, PTL DEF Spec

(***************************************************************************)
(* The lineage of an execution.  ClosedAgrees and WaitingIsUsable relate   *)
(* the execution to its task, run, steps and approval.  They rest on what  *)
(* a worker remembers of its execution while its fence is valid, and on    *)
(* the rows never losing a task, a run or a completion.                    *)
(***************************************************************************)
\* The columns of one execution and its lineage.
RowFits(e) ==
    /\ status[e] = "absent" => task[e] = "none" /\ run[e] = "none"
    /\ run[e] # "none" => task[e] # "none"
    /\ run[e] = "none" => work[e] = "none" /\ gate[e] = "unreached" /\ decision[e] = "none"
    /\ run[e] = "completed" => done[e] /\ AllFinished(e)
    /\ gate[e] = "awaiting" => decision[e] \in {"pending", "approved"}
    /\ decision[e] = "pending" => gate[e] = "awaiting"
    /\ decision[e] = "rejected" => gate[e] = "rejected"
    /\ gate[e] = "rejected" => run[e] = "failed" /\ done[e]
    /\ gate[e] = "rejected" <=> status[e] = "approval_rejected"
    /\ status[e] = "completed" => run[e] = "completed"
    /\ status[e] = "interrupted" =>
          run[e] \in Ended \cup {"none"} /\ ~ActiveStep(e) /\ decision[e] # "pending"
    /\ status[e] = "paused_for_approval" => gate[e] = "awaiting"
    /\ status[e] = "paused_operator" => run[e] # "none"
    /\ status[e] = "pending" => (task[e] = "none" <=> run[e] = "none")

\* The worker may still write its execution.
Current(w) == status[job[w]] \in {"claimed", "running"} /\ LeaseValid(w)

\* The engine is at work, or has returned without an error.
Trusted(w) == pc[w] \in {"settask", "save", "engine", "wave"} \/ (pc[w] \in {"task", "mark"} /\ mem[w].err = "none")

\* What a worker remembers is so; that a step awaits approval, while its
\* fence is valid.
RemembersRow(w) ==
    LET e == job[w] IN
    /\ pc[w] \in {"settask", "save", "engine", "wave", "task"} => task[e] # "none"
    /\ pc[w] \in {"engine", "wave"} => run[e] # "none"
    /\ pc[w] \in {"engine", "wave", "task"} => mem[w].run # "none"
    /\ pc[w] \in {"task", "mark"} =>
          /\ mem[w].err = "checkpoint" \/ (mem[w].err = "none" /\ mem[w].run = "paused") => run[e] # "none"
          /\ mem[w].err = "none" /\ mem[w].run = "completed" => run[e] = "completed"
    /\ pc[w] \in {"idle", "claimed"} => ~mem[w].awaiting
    /\ pc[w] = "wave" /\ "gate" \in mem[w].wave => ~mem[w].awaiting
    /\ Trusted(w) /\ mem[w].awaiting /\ Current(w) => gate[e] = "awaiting"

\* The inductive invariant of the lineage.
LineageInv ==
    /\ TypeInv /\ OneOpenPerSchedule /\ ClaimsDistinct /\ GateNeedsApproval /\ ConsentIsRecorded
    /\ \A e \in Executions : RowFits(e)
    /\ \A w \in Workers : RemembersRow(w)

\* At most the row of e changes.
OnlyRow(e) ==
    \A f \in Executions \ {e} :
        /\ status'[f] = status[f] /\ attempt'[f] = attempt[f]
        /\ owner'[f] = owner[f] /\ lease'[f] = lease[f]
        /\ task'[f] = task[f] /\ run'[f] = run[f] /\ done'[f] = done[f]
        /\ work'[f] = work[f] /\ gate'[f] = gate[f] /\ decision'[f] = decision[f]

\* The row of e loses neither its task, its run nor its completion.
Grows(e) ==
    /\ task[e] # "none" => task'[e] # "none"
    /\ run[e] # "none" => run'[e] # "none"
    /\ run[e] = "completed" => run'[e] = "completed"

\* No step gives a worker back its fence, or takes the awaiting step from it.
FenceKept(w) == Current(w)' => Current(w) /\ (gate[job[w]] = "awaiting" => gate'[job[w]] = "awaiting")

\* The worker stays where it is.
Stays(w) == pc'[w] = pc[w] /\ job'[w] = job[w] /\ claim'[w] = claim[w] /\ mem'[w] = mem[w]

\* A worker that stays where it is remembers rightly.
LEMMA StillRemembers ==
    ASSUME TypeInv, NEW w \in Workers, RemembersRow(w), Stays(w),
           pc[w] # "idle" => Grows(job[w]) /\ FenceKept(w)
    PROVE  RemembersRow(w)'
<1>1. CASE pc[w] = "idle"
  BY <1>1 DEF RemembersRow, Stays, Trusted
<1>2. CASE pc[w] # "idle"
  <2>1. Trusted(w)' = Trusted(w)
    BY DEF Trusted, Stays
  <2> QED
    BY <1>2, <2>1 DEF RemembersRow, Stays, Grows, FenceKept
<1> QED
  BY <1>1, <1>2

\* A step that touches one row and moves the workers in A, one or none.
LEMMA LineageStep ==
    ASSUME LineageInv, NEW e \in Executions, NEW A \in SUBSET Workers, OnlyRow(e), Grows(e),
           RowFits(e)', \A v \in A : RemembersRow(v)',
           \A v \in Workers \ A : Stays(v) /\ (job[v] = e => FenceKept(v))
    PROVE  (\A f \in Executions : RowFits(f)') /\ (\A v \in Workers : RemembersRow(v)')
<1>1. ASSUME NEW f \in Executions \ {e} PROVE RowFits(f)'
  <2>1. RowFits(f)
    BY DEF LineageInv
  <2> QED
    BY <2>1 DEF OnlyRow, RowFits, AllFinished, ActiveStep
<1>2. ASSUME NEW v \in Workers \ A PROVE RemembersRow(v)'
  <2>1. TypeInv /\ RemembersRow(v) /\ Stays(v)
    BY DEF LineageInv
  <2>2. pc[v] # "idle" => job[v] \in Executions
    BY DEF LineageInv, TypeInv, BusyHasJob
  <2>3. ASSUME job[v] \in Executions \ {e} PROVE Grows(job[v]) /\ FenceKept(v)
    <3>1. Grows(job[v])
      BY <2>3 DEF OnlyRow, Grows
    <3>2. FenceKept(v)
      BY <2>1, <2>3 DEF OnlyRow, FenceKept, Current, LeaseValid, Stays
    <3> QED
      BY <3>1, <3>2
  <2> QED
    BY <2>1, <2>2, <2>3, StillRemembers
<1> QED
  BY <1>1, <1>2

\* The part of the lineage invariant the earlier theorems do not preserve.
LineageFits == (\A e \in Executions : RowFits(e)) /\ (\A w \in Workers : RemembersRow(w))

\* A step in which no worker moves.
LEMMA RowStep ==
    ASSUME LineageInv, NEW e \in Executions, UNCHANGED worker, OnlyRow(e), Grows(e), RowFits(e)',
           \A v \in Workers : job[v] = e => FenceKept(v)
    PROVE  LineageFits'
<1>1. \A v \in Workers : Stays(v)
  BY DEF Stays, worker
<1> DEFINE A == {}
<1>2. A \in SUBSET Workers /\ \A v \in A : RemembersRow(v)'
  OBVIOUS
<1>3. \A v \in Workers \ A : Stays(v) /\ (job[v] = e => FenceKept(v))
  BY <1>1
<1> HIDE DEF A
<1>4. (\A f \in Executions : RowFits(f)') /\ (\A v \in Workers : RemembersRow(v)')
  BY <1>2, <1>3, LineageStep
<1> QED
  BY <1>4 DEF LineageFits

\* Planning an execution.
LEMMA PlanningLineage ==
    ASSUME LineageInv, NEW e \in Executions, EnqueueRunNow(e) \/ MaterializeDueSchedule(e)
    PROVE  LineageFits'
<1>1. /\ status[e] = "absent" /\ UNCHANGED <<attempt, owner, lease, run_, worker>>
      /\ \E s \in {"pending", "skipped_overlap"} : status' = [status EXCEPT ![e] = s]
  BY DEF EnqueueRunNow, MaterializeDueSchedule
<1>2. UNCHANGED <<task, run, done, work, gate, decision>>
  BY <1>1 DEF run_
<1>3. OnlyRow(e) /\ Grows(e) /\ status'[e] \in {"pending", "skipped_overlap"}
  BY <1>1, <1>2 DEF OnlyRow, Grows, LineageInv, TypeInv, TypeOK
<1>4. RowFits(e)
  BY DEF LineageInv
<1>5. RowFits(e)'
  BY <1>1, <1>2, <1>3, <1>4 DEF RowFits, AllFinished
<1>6. \A v \in Workers : job[v] = e => FenceKept(v)
  BY <1>1, <1>3 DEF FenceKept, Current, worker
<1> QED
  BY <1>1, <1>3, <1>5, <1>6, RowStep

\* Resuming a paused execution.
LEMMA ResumeLineage ==
    ASSUME LineageInv, NEW e \in Executions, RequestScheduledExecutionResume(e)
    PROVE  LineageFits'
<1>1. RowFits(e)
  BY DEF LineageInv
<1>2. /\ status[e] \in {"paused_for_approval", "paused_operator"}
      /\ UNCHANGED <<attempt, owner, lease, task, run, done, work, gate, decision, worker>>
      /\ status' = [status EXCEPT ![e] = IF status[e] = "paused_for_approval" /\ decision[e] = "rejected"
                                         THEN "approval_rejected" ELSE "pending"]
  BY DEF RequestScheduledExecutionResume, run_
<1>3. status' = [status EXCEPT ![e] = "pending"]
  BY <1>1, <1>2 DEF RowFits
<1>4. OnlyRow(e) /\ Grows(e) /\ status'[e] = "pending"
  BY <1>2, <1>3 DEF OnlyRow, Grows, LineageInv, TypeInv, TypeOK
<1>5. RowFits(e)'
  BY <1>1, <1>2, <1>4 DEF RowFits, AllFinished
<1>6. \A v \in Workers : job[v] = e => FenceKept(v)
  BY <1>2, <1>4 DEF FenceKept, Current, worker
<1> QED
  BY <1>2, <1>4, <1>5, <1>6, RowStep

\* Approving the step.
LEMMA ApproveLineage ==
    ASSUME LineageInv, NEW e \in Executions, ApproveStep(e)
    PROVE  LineageFits'
<1>1. RowFits(e)
  BY DEF LineageInv
<1>2. /\ decision[e] = "pending" /\ decision' = [decision EXCEPT ![e] = "approved"]
      /\ UNCHANGED <<status, attempt, owner, lease, task, run, done, work, gate, worker>>
  BY DEF ApproveStep, row
<1>3. OnlyRow(e) /\ Grows(e) /\ decision'[e] = "approved"
  BY <1>2 DEF OnlyRow, Grows, LineageInv, TypeInv, TypeOK
<1>4. RowFits(e)'
  BY <1>1, <1>2, <1>3 DEF RowFits, AllFinished, ActiveStep
<1>5. \A v \in Workers : job[v] = e => FenceKept(v)
  BY <1>2 DEF FenceKept, Current, LeaseValid, worker
<1> QED
  BY <1>2, <1>3, <1>4, <1>5, RowStep

\* Rejecting it closes the row.
LEMMA RejectLineage ==
    ASSUME LineageInv, NEW e \in Executions, RejectStep(e)
    PROVE  LineageFits'
<1>1. RowFits(e)
  BY DEF LineageInv
<1>2. CanReject(e) /\ UNCHANGED <<attempt, work, worker>>
  BY DEF RejectStep
<1>3. OnlyRow(e)
  BY DEF RejectStep, OnlyRow, LineageInv, TypeInv, TypeOK
<1>4. /\ decision'[e] = "rejected" /\ gate'[e] = "rejected" /\ run'[e] = "failed" /\ done'[e] = TRUE
      /\ task'[e] = "failed" /\ status'[e] = "approval_rejected"
  BY DEF RejectStep, LineageInv, TypeInv, TypeOK
<1>5. Grows(e) /\ RowFits(e)'
  BY <1>1, <1>2, <1>4 DEF CanReject, Grows, RowFits, AllFinished
<1>6. \A v \in Workers : job[v] = e => FenceKept(v)
  BY <1>2, <1>4 DEF FenceKept, Current, worker
<1> QED
  BY <1>2, <1>3, <1>5, <1>6, RowStep

\* The operator sets the status of the task.
LEMMA SetTaskLineage ==
    ASSUME LineageInv, NEW e \in Executions, SetTaskStatus(e)
    PROVE  LineageFits'
<1>1. RowFits(e)
  BY DEF LineageInv
<1>2. /\ task[e] # "none" /\ \E s \in {"paused", "running", "cancelled"} : task' = [task EXCEPT ![e] = s]
      /\ UNCHANGED <<status, attempt, owner, lease, run, done, work, gate, decision, worker>>
  BY DEF SetTaskStatus, row
<1>3. OnlyRow(e) /\ Grows(e) /\ task'[e] # "none"
  BY <1>2 DEF OnlyRow, Grows, LineageInv, TypeInv, TypeOK
<1>4. RowFits(e)'
  BY <1>1, <1>2, <1>3 DEF RowFits, AllFinished, ActiveStep
<1>5. \A v \in Workers : job[v] = e => FenceKept(v)
  BY <1>2 DEF FenceKept, Current, LeaseValid, worker
<1> QED
  BY <1>2, <1>3, <1>4, <1>5, RowStep

\* Time passes, or the holder of the fence renews its lease.
LEMMA LeaseLineage ==
    ASSUME LineageInv, NEW e \in Executions, Tick(e) \/ \E w \in Workers : job[w] = e /\ Heartbeat(w)
    PROVE  LineageFits'
<1>1. RowFits(e)
  BY DEF LineageInv
<1>2. /\ UNCHANGED <<status, attempt, owner, task, run, done, work, gate, decision, worker>>
      /\ \E n : lease' = [lease EXCEPT ![e] = n]
  BY DEF Tick, Heartbeat, run_
<1>3. OnlyRow(e) /\ Grows(e)
  BY <1>2 DEF OnlyRow, Grows, LineageInv, TypeInv, TypeOK
<1>4. RowFits(e)'
  BY <1>1, <1>2 DEF RowFits, AllFinished, ActiveStep
<1>5. ASSUME NEW v \in Workers, job[v] = e, Current(v)' PROVE Current(v)
  <2>1. CASE Tick(e)
    <3>1. lease'[e] = lease[e] - 1 /\ lease[e] \in Nat /\ lease[e] > 0
      BY <2>1, ConstantsAssumption DEF Tick, LineageInv, TypeInv, TypeOK
    <3> QED
      BY <1>2, <1>5, <3>1 DEF Current, LeaseValid, worker
  <2>2. ASSUME NEW w \in Workers, job[w] = e, Heartbeat(w) PROVE Current(v)
    <3>1. Current(w) /\ claim[w] = attempt[e]
      BY <2>2 DEF Heartbeat, Current, LeaseValid
    <3>2. claim[v] = attempt[e]
      BY <1>2, <1>5 DEF Current, LeaseValid, worker
    <3>3. v = w
      BY <1>5, <2>2, <3>1, <3>2 DEF LineageInv, ClaimsDistinct
    <3> QED
      BY <3>1, <3>3
  <2> QED
    BY <2>1, <2>2
<1>6. \A v \in Workers : job[v] = e => FenceKept(v)
  BY <1>2, <1>5 DEF FenceKept, worker
<1> QED
  BY <1>2, <1>3, <1>4, <1>6, RowStep

\* When the recovery pass has which plan; a rejected gate is never stale.
LEMMA StalePlan ==
    ASSUME NEW e \in Executions, RowFits(e), Stale(e)
    PROVE  \/ ClassifyStaleLineage(e) = Plan("interrupted", "failed", "failed", TRUE)
           \/ /\ run[e] = "none" /\ task[e] = "none"
              /\ ClassifyStaleLineage(e) = Plan("pending", "keep", "keep", FALSE)
           \/ /\ run[e] = "none"
              /\ ClassifyStaleLineage(e) = Plan("interrupted", "failed", "keep", FALSE)
           \/ /\ gate[e] = "awaiting" /\ run[e] \notin Ended
              /\ ClassifyStaleLineage(e) = Plan("paused_for_approval", "paused", "paused", FALSE)
           \/ /\ run[e] \in Ended
              /\ ClassifyStaleLineage(e) = Plan(run[e], run[e], "keep", FALSE)
           \/ /\ run[e] = "paused"
              /\ ClassifyStaleLineage(e) = Plan("paused_operator", "paused", "keep", FALSE)
<1>1. ~RejectedGate(e)
  BY DEF RejectedGate, RowFits, Stale
<1> QED
  BY <1>1 DEF ClassifyStaleLineage, Conflicting, ActiveStep, Inconsistent, NoTask

\* The recovery pass closes, pauses or requeues the lineage as a whole.
LEMMA ReconcileLineage ==
    ASSUME LineageInv, NEW e \in Executions, ReconcileStale(e)
    PROVE  LineageFits'
<1> DEFINE p == ClassifyStaleLineage(e)
           moves == run[e] \notin Ended \cup {"none"} /\ p.run # "keep"
<1>1. RowFits(e) /\ Stale(e) /\ TypeOK
  BY DEF LineageInv, TypeInv, ReconcileStale
<1>2. UNCHANGED <<attempt, lease, worker>> /\ OnlyRow(e)
  BY DEF ReconcileStale, OnlyRow, SetIf, LineageInv, TypeInv, TypeOK
<1>3. /\ status'[e] = p.status /\ owner'[e] = NoOwner
      /\ task'[e] = IF p.task # "keep" /\ task[e] \notin Ended \cup {"none"} THEN p.task ELSE task[e]
      /\ run'[e] = IF moves THEN p.run ELSE run[e]
      /\ done'[e] = IF moves /\ run[e] # p.run THEN p.run \in Ended ELSE done[e]
      /\ work'[e] = IF p.close /\ work[e] \in InFlight THEN "failed" ELSE work[e]
      /\ gate'[e] = IF p.close /\ gate[e] \in {"awaiting", "running"} THEN "failed" ELSE gate[e]
      /\ decision'[e] = IF p.close /\ decision[e] = "pending" THEN "expired" ELSE decision[e]
  BY <1>1 DEF ReconcileStale, SetIf, TypeOK
<1>4. \A v \in Workers : job[v] = e => FenceKept(v)
  BY <1>2, <1>3, ConstantsAssumption DEF FenceKept, Current, LeaseValid, worker
<1>5. run[e] \in RunStatus /\ run[e] # "keep" /\ gate[e] # "rejected"
  BY <1>1 DEF TypeOK, RunStatus, Ended, RowFits, Stale
<1>6. Grows(e) /\ RowFits(e)'
  <2>1. CASE p = Plan("interrupted", "failed", "failed", TRUE)
    <3>1. p.status = "interrupted" /\ p.task = "failed" /\ p.run = "failed" /\ p.close = TRUE
      BY <2>1 DEF Plan
    <3> HIDE DEF p
    <3> QED
      BY <1>1, <1>3, <1>5, <3>1 DEF Grows, RowFits, AllFinished, ActiveStep, Ended, InFlight
  <2>2. CASE p = Plan("pending", "keep", "keep", FALSE) /\ run[e] = "none" /\ task[e] = "none"
    <3>1. p.status = "pending" /\ p.task = "keep" /\ p.run = "keep" /\ p.close = FALSE
      BY <2>2 DEF Plan
    <3> HIDE DEF p
    <3> QED
      BY <1>1, <1>3, <1>5, <2>2, <3>1 DEF Grows, RowFits, AllFinished
  <2>3. CASE p = Plan("interrupted", "failed", "keep", FALSE) /\ run[e] = "none"
    <3>1. p.status = "interrupted" /\ p.task = "failed" /\ p.run = "keep" /\ p.close = FALSE
      BY <2>3 DEF Plan
    <3> HIDE DEF p
    <3> QED
      BY <1>1, <1>3, <1>5, <2>3, <3>1 DEF Grows, RowFits, AllFinished, ActiveStep, InFlight
  <2>4. CASE /\ p = Plan("paused_for_approval", "paused", "paused", FALSE)
             /\ gate[e] = "awaiting" /\ run[e] \notin Ended
    <3>1. /\ p.status = "paused_for_approval" /\ p.task = "paused" /\ p.run = "paused"
          /\ p.close = FALSE
      BY <2>4 DEF Plan
    <3> HIDE DEF p
    <3> QED
      BY <1>1, <1>3, <1>5, <2>4, <3>1 DEF Grows, RowFits, AllFinished, Ended
  <2>5. CASE p = Plan(run[e], run[e], "keep", FALSE) /\ run[e] \in Ended
    <3>1. p.status = run[e] /\ p.task = run[e] /\ p.run = "keep" /\ p.close = FALSE
      BY <2>5 DEF Plan
    <3> HIDE DEF p
    <3> QED
      BY <1>1, <1>3, <1>5, <2>5, <3>1 DEF Grows, RowFits, AllFinished, Ended
  <2>6. CASE p = Plan("paused_operator", "paused", "keep", FALSE) /\ run[e] = "paused"
    <3>1. p.status = "paused_operator" /\ p.task = "paused" /\ p.run = "keep" /\ p.close = FALSE
      BY <2>6 DEF Plan
    <3> HIDE DEF p
    <3> QED
      BY <1>1, <1>3, <1>5, <2>6, <3>1 DEF Grows, RowFits, AllFinished
  <2> QED
    BY <1>1, <2>1, <2>2, <2>3, <2>4, <2>5, <2>6, StalePlan
<1> QED
  BY <1>2, <1>4, <1>6, RowStep

\* A step of worker w, which touches the row of its execution or none.
LEMMA WorkerLineage ==
    ASSUME LineageInv, NEW w \in Workers, NEW e \in Executions, OnlyRow(e), Grows(e),
           RowFits(e)', RemembersRow(w)',
           \A v \in Workers \ {w} : Stays(v) /\ (job[v] = e => FenceKept(v))
    PROVE  LineageFits'
<1> DEFINE A == {w}
<1>1. A \in SUBSET Workers /\ \A v \in A : RemembersRow(v)'
  OBVIOUS
<1>2. \A v \in Workers \ A : Stays(v) /\ (job[v] = e => FenceKept(v))
  OBVIOUS
<1> HIDE DEF A
<1>3. (\A f \in Executions : RowFits(f)') /\ (\A v \in Workers : RemembersRow(v)')
  BY <1>1, <1>2, LineageStep
<1> QED
  BY <1>3 DEF LineageFits

\* A worker that moves on leaves the others alone.
LEMMA GotoMoves ==
    ASSUME TypeInv, NEW w \in Workers, NEW label, NEW m, Goto(w, label, m)
    PROVE  /\ pc'[w] = label /\ mem'[w] = m /\ job'[w] = job[w] /\ claim'[w] = claim[w]
           /\ \A v \in Workers \ {w} : Stays(v)
BY DEF TypeInv, TypeOK, Goto, Stays

\* A released worker remembers nothing.
LEMMA ReleaseMoves ==
    ASSUME TypeInv, NEW w \in Workers, Release(w)
    PROVE  RemembersRow(w)' /\ \A v \in Workers \ {w} : Stays(v)
<1>1. pc'[w] = "idle" /\ mem'[w] = NoMemory /\ \A v \in Workers \ {w} : Stays(v)
  BY DEF TypeInv, TypeOK, Release, Stays
<1>2. ~NoMemory.awaiting
  BY DEF NoMemory
<1> QED
  BY <1>1, <1>2 DEF RemembersRow, Trusted

\* The claim, the lease and the status of the row stay, or w alone may write it.
LEMMA RivalsKept ==
    ASSUME LineageInv, NEW w \in Workers, job[w] \in Executions, UNCHANGED <<attempt, owner, lease>>,
           UNCHANGED <<status, gate>> \/ Current(w), \A v \in Workers \ {w} : Stays(v)
    PROVE  \A v \in Workers \ {w} : job[v] = job[w] => FenceKept(v)
<1> SUFFICES ASSUME NEW v \in Workers \ {w}, job[v] = job[w], Current(v)'
             PROVE  Current(v) /\ (gate[job[v]] = "awaiting" => gate'[job[v]] = "awaiting")
  BY DEF FenceKept
<1>1. LeaseValid(v)' = LeaseValid(v)
  BY DEF LeaseValid, Stays
<1>2. CASE UNCHANGED <<status, gate>>
  BY <1>1, <1>2 DEF Current, Stays
<1>3. CASE Current(w)
  <2>1. claim[w] = attempt[job[w]] /\ claim[v] = attempt[job[w]]
    BY <1>1, <1>3 DEF Current, LeaseValid
  <2>2. v = w
    BY <2>1 DEF LineageInv, ClaimsDistinct
  <2> QED
    BY <2>2
<1> QED
  BY <1>2, <1>3

\* A step of worker w that touches no row.
LEMMA QuietLineage ==
    ASSUME LineageInv, NEW w \in Workers, job[w] \in Executions, UNCHANGED <<row, run_>>,
           RemembersRow(w)', \A v \in Workers \ {w} : Stays(v)
    PROVE  LineageFits'
<1>1. UNCHANGED <<status, attempt, owner, lease, task, run, done, work, gate, decision>>
  BY DEF row, run_
<1>2. PICK e \in Executions : e = job[w]
  OBVIOUS
<1>3. OnlyRow(e) /\ Grows(e)
  BY <1>1 DEF OnlyRow, Grows
<1>4. RowFits(e)'
  BY <1>1 DEF LineageInv, RowFits, AllFinished, ActiveStep
<1>5. \A v \in Workers \ {w} : job[v] = e => FenceKept(v)
  BY <1>1, <1>2, RivalsKept
<1> QED
  BY <1>3, <1>4, <1>5, WorkerLineage

\* What a save reports; it writes, at most, under the fence.
LEMMA SaveFacts ==
    ASSUME NEW w, NEW steps, NEW r \in SaveResults(w) \cup SaveStep(w, steps)
    PROVE  /\ r \in {"ok", "file", "error", "lost"}
           /\ Committed(r) => SaveFence(w) /\ r \in {"ok", "file"}
           /\ r \in SaveResults(w) /\ r = "error" => SaveFence(w)
           /\ r # "ok" => ErrorOf(r) # "none"
           /\ r = "ok" => ErrorOf(r) = "none" /\ Committed(r)
           /\ ErrorOf(r) = "checkpoint" => Committed(r)
BY DEF SaveResults, SaveStep, Committed, ErrorOf

\* What the fence says of the row.
LEMMA FenceFacts ==
    ASSUME LineageInv, NEW w \in Workers, NEW e \in Executions, job[w] = e, SaveFence(w)
    PROVE  /\ Current(w) /\ status[e] \in {"claimed", "running"} /\ task[e] # "none"
           /\ run[e] \notin Ended /\ gate[e] # "rejected" /\ decision[e] # "rejected"
<1>1. RowFits(e)
  BY DEF LineageInv
<1> QED
  BY <1>1 DEF SaveFence, Current, RowFits

\* An engine that returns with an error, of a run that exists, knows nothing more.
LEMMA ErrorRemembers ==
    ASSUME TypeInv, NEW w \in Workers, NEW e \in Executions, NEW m, job[w] = e, EngineReturns(w, m),
           m.err # "none", m.run # "none", task'[e] # "none",
           m.err = "checkpoint" => run'[e] # "none"
    PROVE  RemembersRow(w)' /\ \A v \in Workers \ {w} : Stays(v)
<1>1. CASE Release(w)
  BY <1>1, ReleaseMoves
<1>2. CASE Goto(w, "task", m)
  <2>1. /\ pc'[w] = "task" /\ mem'[w] = m /\ job'[w] = e
        /\ \A v \in Workers \ {w} : Stays(v)
    BY <1>2, GotoMoves
  <2> QED
    BY <2>1 DEF RemembersRow, Trusted
<1> QED
  BY <1>1, <1>2 DEF EngineReturns

\* The run is refused before anything is written.
LEMMA RunRefusedLineage ==
    ASSUME LineageInv, NEW w \in Workers, RunRefused(w)
    PROVE  LineageFits'
<1>1. PICK err \in {"other", "cancelled", "scope", "checkpoint"} :
        /\ err = "checkpoint" => run[job[w]] # "none"
        /\ Goto(w, "mark", [mem[w] EXCEPT !.err = err])
  BY DEF RunRefused
<1>2. pc[w] = "claimed" /\ UNCHANGED <<row, run_>> /\ job[w] \in Executions /\ TypeInv /\ mem[w] \in Memory
  BY DEF RunRefused, LineageInv, TypeInv, TypeOK, BusyHasJob
<1> DEFINE m == [mem[w] EXCEPT !.err = err]
<1>3. m.err = err
  BY <1>2 DEF Memory
<1> HIDE DEF m
<1>4. /\ pc'[w] = "mark" /\ mem'[w] = m /\ job'[w] = job[w]
      /\ \A v \in Workers \ {w} : Stays(v)
  BY <1>1, <1>2, GotoMoves DEF m
<1>5. RemembersRow(w)'
  BY <1>1, <1>2, <1>3, <1>4 DEF RemembersRow, Trusted, run_
<1> QED
  BY <1>2, <1>4, <1>5, QuietLineage

\* The task is created under the fence, once.
LEMMA CreateTaskLineage ==
    ASSUME LineageInv, NEW w \in Workers, CreateTask(w)
    PROVE  LineageFits'
<1>1. PICK e \in Executions : e = job[w]
  BY DEF CreateTask, LineageInv, TypeInv, BusyHasJob
<1> DEFINE ok == task[e] # "none" \/ (status[e] = "claimed" /\ LeaseValid(w))
           m == [mem[w] EXCEPT !.err = "other"]
<1>2. /\ pc[w] = "claimed" /\ run[e] = "none" /\ task' = SetIf(task, e, ok /\ task[e] = "none", "pending")
      /\ UNCHANGED <<status, attempt, owner, lease, run, done, work, gate, decision>>
      /\ IF ok THEN Goto(w, "save", mem[w]) ELSE Goto(w, "mark", m)
  BY <1>1 DEF CreateTask, row
<1>3. RowFits(e) /\ RemembersRow(w) /\ TypeInv /\ mem[w] \in Memory
  BY DEF LineageInv, TypeInv, TypeOK
<1>4. m.err = "other"
  BY <1>3 DEF Memory
<1> HIDE DEF m
<1>5. /\ OnlyRow(e) /\ Grows(e) /\ (ok => task'[e] # "none")
      /\ task'[e] = task[e] \/ status[e] = "claimed"
  BY <1>2, <1>3 DEF OnlyRow, Grows, SetIf, TypeInv, TypeOK
<1>6. RowFits(e)'
  BY <1>2, <1>3, <1>5 DEF RowFits, AllFinished, ActiveStep
<1>7. /\ job'[w] = e /\ \A v \in Workers \ {w} : Stays(v)
      /\ \/ ok /\ pc'[w] = "save" /\ mem'[w] = mem[w]
         \/ pc'[w] = "mark" /\ mem'[w] = m
  BY <1>1, <1>2, <1>3, GotoMoves
<1>8. RemembersRow(w)'
  BY <1>2, <1>3, <1>4, <1>5, <1>7 DEF RemembersRow, Trusted
<1>9. \A v \in Workers \ {w} : job[v] = e => FenceKept(v)
  BY <1>1, <1>2, <1>7, RivalsKept
<1> QED
  BY <1>5, <1>6, <1>7, <1>8, <1>9, WorkerLineage

\* The worker reads whether the gated step awaits an approval.
LEMMA LoadRunLineage ==
    ASSUME LineageInv, NEW w \in Workers, LoadRun(w)
    PROVE  LineageFits'
<1>1. PICK e \in Executions : e = job[w]
  BY DEF LoadRun, LineageInv, TypeInv, BusyHasJob
<1> DEFINE waits == gate[e] = "awaiting"
           m == [mem[w] EXCEPT !.seen = task[e], !.awaiting = waits, !.approval = ApprovedByRecord(e),
                               !.ctl = IF task[e] = "cancelled" THEN "cancel" ELSE "none"]
<1>2. /\ pc[w] = "claimed" /\ run[e] # "none" /\ UNCHANGED <<row, run_>>
      /\ \E label \in {"settask", "save"} : Goto(w, label, m)
  BY <1>1 DEF LoadRun
<1>3. RowFits(e) /\ TypeInv /\ mem[w] \in Memory
  BY DEF LineageInv, TypeInv, TypeOK
<1>4. m.awaiting => gate[e] = "awaiting"
  BY <1>3 DEF Memory
<1> HIDE DEF m
<1>5. /\ job'[w] = e /\ \A v \in Workers \ {w} : Stays(v)
      /\ pc'[w] \in {"settask", "save"} /\ mem'[w] = m
  BY <1>1, <1>2, <1>3, GotoMoves
<1>6. task[e] # "none" /\ UNCHANGED <<task, gate>>
  BY <1>2, <1>3 DEF RowFits, run_
<1>7. RemembersRow(w)'
  BY <1>4, <1>5, <1>6 DEF RemembersRow
<1> QED
  BY <1>1, <1>2, <1>5, <1>7, QuietLineage

\* The worker writes the task of an execution that has one.
LEMMA WriteTaskLineage ==
    ASSUME LineageInv, NEW w \in Workers, ResumeTask(w) \/ SetTaskStatusFromWorkflow(w)
    PROVE  LineageFits'
<1>1. PICK e \in Executions : e = job[w]
  BY DEF ResumeTask, SetTaskStatusFromWorkflow, LineageInv, TypeInv, BusyHasJob
<1>2. RowFits(e) /\ RemembersRow(w) /\ TypeInv
  BY DEF LineageInv
<1>3. /\ pc[w] \in {"settask", "task"}
      /\ UNCHANGED <<status, attempt, owner, lease, run, done, work, gate, decision>>
      /\ \/ pc[w] = "settask" /\ Goto(w, "save", mem[w])
         \/ pc[w] = "task" /\ Goto(w, "mark", mem[w])
  BY DEF ResumeTask, SetTaskStatusFromWorkflow, row
<1>4. task[e] # "none" /\ (pc[w] = "task" => mem[w].run # "none")
  BY <1>1, <1>2, <1>3 DEF RemembersRow
<1>5. OnlyRow(e) /\ Grows(e) /\ task'[e] # "none"
  <2>1. \E s : s # "none" /\ task' = [task EXCEPT ![e] = s]
    <3>1. CASE ResumeTask(w)
      BY <1>1, <3>1 DEF ResumeTask
    <3>2. CASE SetTaskStatusFromWorkflow(w)
      <4>1. /\ pc[w] = "task"
            /\ task' = [task EXCEPT ![e] = IF mem[w].run # "running" /\ task[e] \notin Ended
                                           THEN mem[w].run ELSE task[e]]
        BY <1>1, <3>2 DEF SetTaskStatusFromWorkflow, SetIf
      <4> QED
        BY <1>4, <4>1
    <3> QED
      BY <3>1, <3>2
  <2> QED
    BY <1>2, <1>3, <2>1 DEF OnlyRow, Grows, TypeInv, TypeOK
<1>6. RowFits(e)'
  BY <1>2, <1>3, <1>4, <1>5 DEF RowFits, AllFinished, ActiveStep
<1>7. /\ job'[w] = e /\ claim'[w] = claim[w] /\ mem'[w] = mem[w] /\ \A v \in Workers \ {w} : Stays(v)
      /\ \/ pc[w] = "settask" /\ pc'[w] = "save"
         \/ pc[w] = "task" /\ pc'[w] = "mark"
  BY <1>1, <1>2, <1>3, GotoMoves
<1>8. Current(w)' = Current(w) /\ Trusted(w)' = Trusted(w)
  BY <1>1, <1>3, <1>7 DEF Current, LeaseValid, Trusted
<1>9. RemembersRow(w)'
  BY <1>1, <1>2, <1>3, <1>5, <1>7, <1>8 DEF RemembersRow
<1>10. \A v \in Workers \ {w} : job[v] = e => FenceKept(v)
  BY <1>1, <1>3, <1>7, RivalsKept
<1> QED
  BY <1>5, <1>6, <1>7, <1>9, <1>10, WorkerLineage

\* The first save starts the run under the fence, or leaves it.
LEMMA InitialSaveLineage ==
    ASSUME LineageInv, NEW w \in Workers, InitialSave(w)
    PROVE  LineageFits'
<1>1. PICK e \in Executions : e = job[w]
  BY DEF InitialSave, LineageInv, TypeInv, BusyHasJob
<1> DEFINE m == [mem[w] EXCEPT !.run = "running"]
           recoverable == run[e] # "none" \/ task[e] \in {"pending", "running"}
<1>2. PICK r \in SaveResults(w) :
        LET c == Committed(r) /\ recoverable IN
        /\ task' = SetIf(task, e, c /\ run[e] = "none", "running")
        /\ run' = SetIf(run, e, c, "running")
        /\ done' = SetIf(done, e, c, FALSE)
        /\ status' = SetIf(status, e, c, "running")
        /\ IF r = "ok" /\ c
           THEN Goto(w, "engine", m)
           ELSE EngineReturns(w, [m EXCEPT !.err = IF Committed(r) /\ ~c THEN "other" ELSE ErrorOf(r)])
  BY <1>1, Zenon DEF InitialSave
<1> DEFINE c == Committed(r) /\ recoverable
           err == IF Committed(r) /\ ~c THEN "other" ELSE ErrorOf(r)
           n == [m EXCEPT !.err = err]
<1>3. /\ pc[w] = "save" /\ UNCHANGED <<attempt, owner, lease, work, gate, decision>>
      /\ (r = "ok" /\ c /\ Goto(w, "engine", m)) \/ (~(r = "ok" /\ c) /\ EngineReturns(w, n))
  BY <1>2 DEF InitialSave
<1>4. /\ RowFits(e) /\ RemembersRow(w) /\ TypeInv /\ mem[w] \in Memory /\ task[e] # "none"
      /\ pc[w] # "idle"
  BY <1>1, <1>3 DEF LineageInv, TypeInv, TypeOK, RemembersRow
<1>5. /\ m.run = "running" /\ m.awaiting = mem[w].awaiting
      /\ n.run = "running" /\ n.err = err
  BY <1>4 DEF Memory
<1>6. /\ Committed(r) => SaveFence(w)
      /\ ~(r = "ok" /\ c) => err # "none" /\ (err = "checkpoint" => c)
  BY SaveFacts
<1> HIDE DEF m, n, err
<1>7. CASE c
  <2>1. /\ Current(w) /\ status[e] \in {"claimed", "running"}
        /\ run[e] \notin Ended /\ gate[e] # "rejected" /\ decision[e] # "rejected"
    BY <1>1, <1>6, <1>7, FenceFacts
  <2>2. /\ OnlyRow(e) /\ status'[e] = "running" /\ run'[e] = "running"
        /\ task'[e] # "none"
    BY <1>2, <1>3, <1>4, <1>7 DEF OnlyRow, SetIf, TypeInv, TypeOK
  <2>3. Grows(e) /\ RowFits(e)'
    BY <1>3, <1>4, <2>1, <2>2 DEF Grows, RowFits, AllFinished, Ended
  <2>4. RemembersRow(w)' /\ \A v \in Workers \ {w} : Stays(v)
    <3>1. CASE Goto(w, "engine", m)
      <4>1. /\ pc'[w] = "engine" /\ mem'[w] = m /\ job'[w] = e
            /\ \A v \in Workers \ {w} : Stays(v)
        BY <1>1, <1>4, <3>1, GotoMoves
      <4>2. mem[w].awaiting => gate[e] = "awaiting"
        BY <1>1, <1>3, <1>4, <2>1 DEF RemembersRow, Trusted
      <4> QED
        BY <1>3, <1>5, <2>2, <4>1, <4>2 DEF RemembersRow
    <3>2. CASE ~(r = "ok" /\ c) /\ EngineReturns(w, n)
      BY <1>1, <1>4, <1>5, <1>6, <2>2, <3>2, ErrorRemembers
    <3> QED
      BY <1>3, <3>1, <3>2
  <2>5. \A v \in Workers \ {w} : job[v] = e => FenceKept(v)
    BY <1>1, <1>3, <2>1, <2>4, RivalsKept
  <2> QED
    BY <2>2, <2>3, <2>4, <2>5, WorkerLineage
<1>8. CASE ~c
  <2>1. UNCHANGED <<status, task, run, done>>
    BY <1>2, <1>8 DEF SetIf, LineageInv, TypeInv, TypeOK
  <2>2. RemembersRow(w)' /\ \A v \in Workers \ {w} : Stays(v)
    BY <1>1, <1>3, <1>4, <1>5, <1>6, <1>8, <2>1, ErrorRemembers
  <2>3. UNCHANGED <<row, run_>>
    BY <1>3, <2>1 DEF row, run_
  <2> QED
    BY <1>1, <2>2, <2>3, QuietLineage
<1> QED
  BY <1>7, <1>8

\* An engine at work: what its worker knows of the row.
LEMMA EngineKnows ==
    ASSUME LineageInv, NEW w \in Workers, NEW e \in Executions, job[w] = e, pc[w] \in {"engine", "wave"}
    PROVE  /\ RowFits(e) /\ TypeInv /\ mem[w] \in Memory
           /\ task[e] # "none" /\ run[e] # "none" /\ mem[w].run # "none"
           /\ mem[w].awaiting /\ Current(w) => gate[e] = "awaiting"
           /\ pc[w] = "wave" /\ "gate" \in mem[w].wave => ~mem[w].awaiting
           /\ mem[w].approval \/ "gate" \in mem[w].wave => decision[e] = "approved"
<1>1. RowFits(e) /\ TypeInv /\ mem[w] \in Memory /\ RemembersRow(w)
  BY DEF LineageInv, TypeInv, TypeOK
<1>2. mem[w].approval \/ "gate" \in mem[w].wave => decision[e] = "approved"
  BY DEF LineageInv, ConsentIsRecorded, HoldsConsent
<1>3. Trusted(w)
  BY DEF Trusted
<1> QED
  BY <1>1, <1>2, <1>3 DEF RemembersRow

\* Steps and approval change under the fence of a running execution.
LEMMA StepsLineage ==
    ASSUME LineageInv, NEW w \in Workers, NEW e \in Executions, job[w] = e, pc[w] \in {"engine", "wave"},
           UNCHANGED <<row, task, run, done>>, OnlyRow(e),
           RemembersRow(w)', \A v \in Workers \ {w} : Stays(v),
           \/ UNCHANGED <<work, gate, decision>>
           \/ /\ SaveFence(w) /\ gate'[e] # "rejected" /\ decision'[e] # "rejected"
              /\ gate'[e] = "awaiting" => decision'[e] \in {"pending", "approved"}
              /\ decision'[e] = "pending" => gate'[e] = "awaiting"
    PROVE  LineageFits'
<1>1. CASE UNCHANGED <<work, gate, decision>>
  BY <1>1, QuietLineage DEF run_
<1>2. CASE /\ SaveFence(w) /\ gate'[e] # "rejected" /\ decision'[e] # "rejected"
           /\ gate'[e] = "awaiting" => decision'[e] \in {"pending", "approved"}
           /\ decision'[e] = "pending" => gate'[e] = "awaiting"
  <2>1. /\ Current(w) /\ status[e] \in {"claimed", "running"} /\ run[e] \notin Ended
        /\ RowFits(e) /\ task[e] # "none" /\ run[e] # "none"
    BY <1>2, FenceFacts, EngineKnows
  <2>2. UNCHANGED <<status, attempt, owner, lease, task, run, done>>
    BY DEF row
  <2>3. Grows(e)
    BY <2>2 DEF Grows
  <2>4. RowFits(e)'
    BY <1>2, <2>1, <2>2 DEF RowFits, Ended
  <2>5. \A v \in Workers \ {w} : job[v] = e => FenceKept(v)
    BY <2>1, <2>2, RivalsKept
  <2> QED
    BY <2>3, <2>4, <2>5, WorkerLineage
<1> QED
  BY <1>1, <1>2

\* An engine that goes on, or returns with an error.
LEMMA EngineGoesOn ==
    ASSUME LineageInv, NEW w \in Workers, NEW e \in Executions, job[w] = e, pc[w] \in {"engine", "wave"},
           UNCHANGED <<row, task, run>>,
           NEW label \in {"engine", "wave"}, NEW m, NEW n, NEW go \in BOOLEAN,
           IF go THEN Goto(w, label, m) ELSE EngineReturns(w, n),
           ~go => n.err # "none" /\ n.run = mem[w].run,
           go => /\ m.run = mem[w].run
                 /\ label = "wave" /\ "gate" \in m.wave => ~m.awaiting
                 /\ Current(w) /\ m.awaiting => gate'[e] = "awaiting"
    PROVE  RemembersRow(w)' /\ \A v \in Workers \ {w} : Stays(v)
<1>1. TypeInv /\ task[e] # "none" /\ run[e] # "none" /\ mem[w].run # "none"
  BY EngineKnows
<1>2. UNCHANGED <<status, attempt, owner, lease, task, run>>
  BY DEF row
<1>3. CASE go
  <2>1. /\ pc'[w] = label /\ mem'[w] = m /\ job'[w] = e /\ claim'[w] = claim[w]
        /\ \A v \in Workers \ {w} : Stays(v)
    BY <1>1, <1>3, GotoMoves
  <2>2. Current(w)' = Current(w)
    BY <1>2, <2>1 DEF Current, LeaseValid
  <2> QED
    BY <1>1, <1>2, <1>3, <2>1, <2>2 DEF RemembersRow
<1>4. CASE ~go
  BY <1>1, <1>2, <1>4, ErrorRemembers
<1> QED
  BY <1>3, <1>4

\* The gated step comes to wait, or is skipped.
LEMMA PlanGateLineage ==
    ASSUME LineageInv, NEW w \in Workers, PlanGate(w)
    PROVE  LineageFits'
<1>1. PICK e \in Executions : e = job[w]
  BY DEF PlanGate, LineageInv, TypeInv, BusyHasJob
<1> DEFINE m(wait) == [mem[w] EXCEPT !.blocked = wait, !.awaiting = wait]
           n(wait, r) == [m(wait) EXCEPT !.err = ErrorOf(r)]
<1>2. PICK r \in SaveStep(w, {"gate"}), wait \in BOOLEAN :
        /\ ~wait => gate[e] = "unreached"
        /\ gate' = SetIf(gate, e, Committed(r), IF wait THEN "awaiting" ELSE "skipped")
        /\ decision' = SetIf(decision, e,
              Committed(r) /\ wait /\ decision[e] \notin {"approved", "rejected"}, "pending")
        /\ IF r = "ok" THEN Goto(w, "engine", m(wait)) ELSE EngineReturns(w, n(wait, r))
  BY <1>1, Zenon DEF PlanGate
<1>3. pc[w] = "engine" /\ UNCHANGED <<row, task, run, done, work>>
  BY DEF PlanGate
<1>4. RowFits(e) /\ TypeInv /\ mem[w] \in Memory
  BY <1>1, <1>3, EngineKnows
<1>5. m(wait).awaiting = wait /\ m(wait).run = mem[w].run /\ n(wait, r).err = ErrorOf(r) /\ n(wait, r).run = mem[w].run
  BY <1>4 DEF Memory
<1>6. /\ Committed(r) => SaveFence(w)
      /\ r # "ok" => ErrorOf(r) # "none"
      /\ r = "ok" => Committed(r)
  BY SaveFacts
<1> HIDE DEF m, n
<1>7. OnlyRow(e)
  BY <1>2, <1>3, <1>4 DEF OnlyRow, SetIf, row, TypeInv, TypeOK
<1>8. CASE Committed(r)
  <2>1. /\ gate'[e] = IF wait THEN "awaiting" ELSE "skipped"
        /\ decision'[e] = IF wait /\ decision[e] \notin {"approved", "rejected"} THEN "pending" ELSE decision[e]
    BY <1>2, <1>4, <1>8 DEF SetIf, TypeInv, TypeOK
  <2>2. decision[e] # "rejected" /\ SaveFence(w)
    BY <1>1, <1>6, <1>8, FenceFacts
  <2>3. /\ gate'[e] # "rejected" /\ decision'[e] # "rejected"
        /\ gate'[e] = "awaiting" => decision'[e] \in {"pending", "approved"}
        /\ decision'[e] = "pending" => gate'[e] = "awaiting"
    BY <1>2, <1>4, <2>1, <2>2 DEF RowFits
  <2>4. RemembersRow(w)' /\ \A v \in Workers \ {w} : Stays(v)
    <3>1. PICK go \in BOOLEAN : go <=> r = "ok"
      OBVIOUS
    <3>2. IF go THEN Goto(w, "engine", m(wait)) ELSE EngineReturns(w, n(wait, r))
      BY <1>2, <3>1
    <3>3. wait => gate'[e] = "awaiting"
      BY <2>1
    <3> QED
      BY <1>1, <1>3, <1>5, <1>6, <3>1, <3>2, <3>3, EngineGoesOn
  <2> QED
    BY <1>1, <1>3, <1>7, <2>2, <2>3, <2>4, StepsLineage
<1>9. CASE ~Committed(r)
  <2>1. UNCHANGED <<gate, decision>>
    BY <1>2, <1>4, <1>9 DEF SetIf, TypeInv, TypeOK
  <2>2. EngineReturns(w, n(wait, r)) /\ ErrorOf(r) # "none"
    BY <1>2, <1>6, <1>9
  <2>3. RemembersRow(w)' /\ \A v \in Workers \ {w} : Stays(v)
    <3>1. IF FALSE THEN Goto(w, "engine", m(wait)) ELSE EngineReturns(w, n(wait, r))
      BY <2>2
    <3> QED
      BY <1>1, <1>3, <1>5, <2>2, <3>1, EngineGoesOn
  <2> QED
    BY <1>1, <1>3, <1>7, <2>1, <2>3, StepsLineage
<1> QED
  BY <1>8, <1>9

\* A wave starts; with the gated step in it only if the approval is recorded.
LEMMA StartWaveLineage ==
    ASSUME LineageInv, NEW w \in Workers, StartWave(w)
    PROVE  LineageFits'
<1>1. PICK e \in Executions : e = job[w]
  BY DEF StartWave, LineageInv, TypeInv, BusyHasJob
<1> DEFINE m(steps) == [mem[w] EXCEPT !.wave = steps, !.awaiting = @ /\ "gate" \notin steps]
           n(steps, r) == [m(steps) EXCEPT !.err = ErrorOf(r)]
<1>2. PICK steps \in SUBSET {"work", "gate"} : \E r \in SaveStep(w, steps) :
        /\ "gate" \in steps => mem[w].approval
        /\ \E v : work' = SetIf(work, e, Committed(r) /\ "work" \in steps, v)
        /\ gate' = SetIf(gate, e, Committed(r) /\ "gate" \in steps, "running")
        /\ IF r = "ok" THEN Goto(w, "wave", m(steps)) ELSE EngineReturns(w, n(steps, r))
  <2>1. PICK steps \in SUBSET Ready(w) \ {{}} : \E r \in SaveStep(w, steps) :
          /\ \E v : work' = SetIf(work, e, Committed(r) /\ "work" \in steps, v)
          /\ gate' = SetIf(gate, e, Committed(r) /\ "gate" \in steps, "running")
          /\ IF r = "ok" THEN Goto(w, "wave", m(steps)) ELSE EngineReturns(w, n(steps, r))
    BY <1>1, Zenon DEF StartWave
  <2>2. steps \in SUBSET {"work", "gate"} /\ ("gate" \in steps => mem[w].approval)
    BY <2>1 DEF Ready
  <2> HIDE DEF m, n
  <2> QED
    BY <2>1, <2>2
<1>3. PICK r \in SaveStep(w, steps) :
        /\ "gate" \in steps => mem[w].approval
        /\ \E v : work' = SetIf(work, e, Committed(r) /\ "work" \in steps, v)
        /\ gate' = SetIf(gate, e, Committed(r) /\ "gate" \in steps, "running")
        /\ IF r = "ok" THEN Goto(w, "wave", m(steps)) ELSE EngineReturns(w, n(steps, r))
  BY <1>2, Zenon
<1>4. pc[w] = "engine" /\ UNCHANGED <<row, task, run, done, decision>>
  BY DEF StartWave
<1>5. /\ RowFits(e) /\ TypeInv /\ mem[w] \in Memory
      /\ "gate" \in steps => decision[e] = "approved"
      /\ mem[w].awaiting /\ Current(w) => gate[e] = "awaiting"
  BY <1>1, <1>3, <1>4, EngineKnows
<1>6. /\ m(steps).awaiting => mem[w].awaiting /\ "gate" \notin steps
      /\ m(steps).wave = steps /\ m(steps).run = mem[w].run
      /\ n(steps, r).err = ErrorOf(r) /\ n(steps, r).run = mem[w].run
  BY <1>5 DEF Memory
<1>7. /\ Committed(r) => SaveFence(w)
      /\ r # "ok" => ErrorOf(r) # "none"
      /\ r = "ok" => Committed(r)
  BY SaveFacts
<1> HIDE DEF m, n
<1>8. OnlyRow(e)
  BY <1>3, <1>4, <1>5 DEF OnlyRow, SetIf, row, TypeInv, TypeOK
<1>9. /\ ~("gate" \in steps /\ Committed(r)) => gate' = gate
      /\ "gate" \in steps /\ Committed(r) => gate'[e] = "running"
      /\ ~Committed(r) => work' = work
  BY <1>3, <1>5 DEF SetIf, TypeInv, TypeOK
<1>10. RemembersRow(w)' /\ \A v \in Workers \ {w} : Stays(v)
  <2>1. PICK go \in BOOLEAN : go <=> r = "ok"
    OBVIOUS
  <2>2. IF go THEN Goto(w, "wave", m(steps)) ELSE EngineReturns(w, n(steps, r))
    BY <1>3, <2>1
  <2>3. Current(w) /\ m(steps).awaiting => gate'[e] = "awaiting"
    BY <1>5, <1>6, <1>9
  <2>4. "gate" \in m(steps).wave => ~m(steps).awaiting
    BY <1>6
  <2> QED
    BY <1>1, <1>4, <1>6, <1>7, <2>1, <2>2, <2>3, <2>4, EngineGoesOn
<1>11. \/ UNCHANGED <<work, gate, decision>>
       \/ /\ SaveFence(w) /\ gate'[e] # "rejected" /\ decision'[e] # "rejected"
          /\ gate'[e] = "awaiting" => decision'[e] \in {"pending", "approved"}
          /\ decision'[e] = "pending" => gate'[e] = "awaiting"
  <2>1. CASE Committed(r)
    <3>1. SaveFence(w) /\ gate[e] # "rejected" /\ decision[e] # "rejected"
      BY <1>1, <1>7, <2>1, FenceFacts
    <3> QED
      BY <1>4, <1>5, <1>9, <2>1, <3>1 DEF RowFits
  <2> QED
    BY <1>4, <1>9, <2>1
<1> QED
  BY <1>1, <1>4, <1>8, <1>10, <1>11, StepsLineage

\* A wave ends; its results are stored, at most, under the fence.
LEMMA EndWaveLineage ==
    ASSUME LineageInv, NEW w \in Workers, EndWave(w)
    PROVE  LineageFits'
<1>1. PICK e \in Executions : e = job[w]
  BY DEF EndWave, LineageInv, TypeInv, BusyHasJob
<1> DEFINE bad(workOut, gateOut) == \/ "work" \in mem[w].wave /\ workOut = "failed"
                                    \/ "gate" \in mem[w].wave /\ gateOut = "failed"
           m(b) == [mem[w] EXCEPT !.wave = {}, !.failed = b]
           n(b, r) == [m(b) EXCEPT !.err = ErrorOf(r)]
           c(r, stored) == Committed(r) \/ (r = "error" /\ stored)
<1>2. \E workOut, gateOut \in {"succeeded", "failed", "partial"}, r \in SaveResults(w), stored \in BOOLEAN :
        /\ gateOut # "partial"
        /\ work' = SetIf(work, e, c(r, stored) /\ "work" \in mem[w].wave, workOut)
        /\ gate' = SetIf(gate, e, c(r, stored) /\ "gate" \in mem[w].wave, gateOut)
        /\ IF r = "ok" THEN Goto(w, "engine", m(bad(workOut, gateOut)))
           ELSE EngineReturns(w, n(bad(workOut, gateOut), r))
  <2>0. PICK workOut \in {"succeeded", "failed"} \cup (IF work[job[w]] = "finishing" THEN {} ELSE {"partial"}),
             gateOut \in {"succeeded", "failed"}, r \in SaveResults(w), stored \in BOOLEAN :
          LET d == Committed(r) \/ (r = "error" /\ stored)
              ran == mem[w].wave
              after == [mem[w] EXCEPT !.wave = {},
                          !.failed = \/ "work" \in ran /\ workOut = "failed"
                                     \/ "gate" \in ran /\ gateOut = "failed"] IN
          /\ work' = SetIf(work, job[w], d /\ "work" \in ran, workOut)
          /\ gate' = SetIf(gate, job[w], d /\ "gate" \in ran, gateOut)
          /\ IF r = "ok" THEN Goto(w, "engine", after)
             ELSE EngineReturns(w, [after EXCEPT !.err = ErrorOf(r)])
    BY Zenon DEF EndWave
  <2>1. /\ work' = SetIf(work, job[w], c(r, stored) /\ "work" \in mem[w].wave, workOut)
        /\ gate' = SetIf(gate, job[w], c(r, stored) /\ "gate" \in mem[w].wave, gateOut)
        /\ IF r = "ok" THEN Goto(w, "engine", m(bad(workOut, gateOut)))
           ELSE EngineReturns(w, n(bad(workOut, gateOut), r))
    BY <2>0
  <2>2. workOut \in {"succeeded", "failed", "partial"} /\ gateOut \in {"succeeded", "failed"}
    BY <2>0
  <2> HIDE DEF m, n, bad, c
  <2> QED
    BY <1>1, <2>1, <2>2
<1>2a. PICK workOut \in {"succeeded", "failed", "partial"}, gateOut \in {"succeeded", "failed", "partial"},
            r \in SaveResults(w), stored \in BOOLEAN :
        /\ gateOut # "partial"
        /\ work' = SetIf(work, e, c(r, stored) /\ "work" \in mem[w].wave, workOut)
        /\ gate' = SetIf(gate, e, c(r, stored) /\ "gate" \in mem[w].wave, gateOut)
        /\ IF r = "ok" THEN Goto(w, "engine", m(bad(workOut, gateOut)))
           ELSE EngineReturns(w, n(bad(workOut, gateOut), r))
  BY <1>2, Zenon
<1>3. PICK b : b = bad(workOut, gateOut)
  OBVIOUS
<1>4. pc[w] = "wave" /\ UNCHANGED <<row, task, run, done, decision>>
  BY DEF EndWave
<1>5. /\ RowFits(e) /\ TypeInv /\ mem[w] \in Memory
      /\ "gate" \in mem[w].wave => decision[e] = "approved" /\ ~mem[w].awaiting
      /\ mem[w].awaiting /\ Current(w) => gate[e] = "awaiting"
  BY <1>1, <1>4, EngineKnows
<1>6. /\ m(b).awaiting = mem[w].awaiting /\ m(b).run = mem[w].run
      /\ n(b, r).err = ErrorOf(r) /\ n(b, r).run = mem[w].run
  BY <1>5 DEF Memory
<1>7. /\ c(r, stored) => SaveFence(w)
      /\ r # "ok" => ErrorOf(r) # "none"
      /\ r = "ok" => Committed(r)
  BY SaveFacts
<1>8. IF r = "ok" THEN Goto(w, "engine", m(b)) ELSE EngineReturns(w, n(b, r))
  BY <1>2a, <1>3
<1> HIDE DEF m, n, bad, c
<1>9. OnlyRow(e)
  BY <1>2a, <1>4, <1>5 DEF OnlyRow, SetIf, row, TypeInv, TypeOK
<1>10. /\ ~("gate" \in mem[w].wave /\ c(r, stored)) => gate' = gate
       /\ "gate" \in mem[w].wave /\ c(r, stored) => gate'[e] \in {"succeeded", "failed"}
       /\ ~c(r, stored) => work' = work
  BY <1>2a, <1>5 DEF SetIf, TypeInv, TypeOK
<1>11. RemembersRow(w)' /\ \A v \in Workers \ {w} : Stays(v)
  <2>1. PICK go \in BOOLEAN : go <=> r = "ok"
    OBVIOUS
  <2>2. IF go THEN Goto(w, "engine", m(b)) ELSE EngineReturns(w, n(b, r))
    BY <1>8, <2>1
  <2>3. Current(w) /\ m(b).awaiting => gate'[e] = "awaiting"
    BY <1>5, <1>6, <1>10
  <2> QED
    BY <1>1, <1>4, <1>6, <1>7, <2>1, <2>2, <2>3, EngineGoesOn
<1>12. \/ UNCHANGED <<work, gate, decision>>
       \/ /\ SaveFence(w) /\ gate'[e] # "rejected" /\ decision'[e] # "rejected"
          /\ gate'[e] = "awaiting" => decision'[e] \in {"pending", "approved"}
          /\ decision'[e] = "pending" => gate'[e] = "awaiting"
  <2>1. CASE c(r, stored)
    <3>1. SaveFence(w) /\ gate[e] # "rejected" /\ decision[e] # "rejected"
      BY <1>1, <1>7, <2>1, FenceFacts
    <3> QED
      BY <1>4, <1>5, <1>10, <2>1, <3>1 DEF RowFits
  <2> QED
    BY <1>4, <1>10, <2>1
<1> QED
  BY <1>1, <1>4, <1>9, <1>11, <1>12, StepsLineage

\* The last save of an engine: a run it reports completed is completed.
LEMMA ExitLineage ==
    ASSUME LineageInv, NEW w \in Workers, pc[w] = "engine", NEW s \in {"paused", "cancelled", "failed", "completed"},
           NEW complete \in BOOLEAN, NEW swallow \in BOOLEAN, NEW keep, Exit(w, s, complete, swallow, keep),
           s = "completed" => complete /\ AllFinished(job[w]) /\ ~swallow
    PROVE  LineageFits'
<1>1. PICK e \in Executions : e = job[w]
  BY DEF LineageInv, TypeInv, BusyHasJob
<1> DEFINE err(r) == IF swallow \/ r = "ok" THEN keep ELSE ErrorOf(r)
           n(r) == [mem[w] EXCEPT !.run = s, !.err = err(r)]
<1>2. PICK r \in SaveResults(w) :
        /\ run' = SetIf(run, e, Committed(r), s)
        /\ done' = SetIf(done, e, Committed(r), complete)
        /\ EngineReturns(w, n(r))
  BY <1>1, Zenon DEF Exit
<1>3. UNCHANGED <<status, attempt, owner, lease, task, work, gate, decision>>
  BY DEF Exit, row
<1>4. /\ RowFits(e) /\ TypeInv /\ mem[w] \in Memory /\ task[e] # "none" /\ run[e] # "none"
      /\ mem[w].awaiting /\ Current(w) => gate[e] = "awaiting"
  BY <1>1, EngineKnows
<1>5. n(r).run = s /\ n(r).err = err(r) /\ n(r).awaiting = mem[w].awaiting
  BY <1>4 DEF Memory
<1>6. /\ Committed(r) => SaveFence(w)
      /\ err(r) = "none" /\ ~swallow => Committed(r)
  BY SaveFacts
<1> HIDE DEF n, err
<1>7. /\ OnlyRow(e)
      /\ Committed(r) => run'[e] = s /\ done'[e] = complete
      /\ ~Committed(r) => run' = run /\ done' = done
  BY <1>2, <1>3, <1>4 DEF OnlyRow, SetIf, TypeInv, TypeOK
<1>8. run'[e] # "none"
  BY <1>4, <1>7
<1>9. RemembersRow(w)' /\ \A v \in Workers \ {w} : Stays(v)
  <2>1. CASE Release(w)
    BY <1>4, <2>1, ReleaseMoves
  <2>2. CASE Goto(w, "task", n(r))
    <3>1. /\ pc'[w] = "task" /\ mem'[w] = n(r) /\ job'[w] = e /\ claim'[w] = claim[w]
          /\ \A v \in Workers \ {w} : Stays(v)
      BY <1>1, <1>4, <2>2, GotoMoves
    <3>2. Current(w)' = Current(w)
      BY <1>1, <1>3, <3>1 DEF Current, LeaseValid
    <3>3. err(r) = "none" /\ s = "completed" => run'[e] = "completed"
      BY <1>6, <1>7
    <3> QED
      BY <1>3, <1>4, <1>5, <1>8, <3>1, <3>2, <3>3 DEF RemembersRow
  <2> QED
    BY <1>2, <2>1, <2>2 DEF EngineReturns
<1>10. CASE Committed(r)
  <2>1. /\ Current(w) /\ status[e] \in {"claimed", "running"}
        /\ run[e] \notin Ended /\ gate[e] # "rejected" /\ decision[e] # "rejected"
    BY <1>1, <1>6, <1>10, FenceFacts
  <2>2. Grows(e) /\ RowFits(e)'
    BY <1>1, <1>3, <1>4, <1>7, <1>10, <2>1 DEF Grows, RowFits, AllFinished, Ended
  <2>3. \A v \in Workers \ {w} : job[v] = e => FenceKept(v)
    BY <1>1, <1>3, <1>9, <2>1, RivalsKept
  <2> QED
    BY <1>7, <1>9, <2>2, <2>3, WorkerLineage
<1>11. CASE ~Committed(r)
  <2>1. UNCHANGED <<row, run_>>
    BY <1>3, <1>7, <1>11 DEF row, run_
  <2> QED
    BY <1>1, <1>9, <2>1, QuietLineage
<1> QED
  BY <1>10, <1>11

\* The engine leaves the loop.
LEMMA EngineExitLineage ==
    ASSUME LineageInv, NEW w \in Workers,
           EngineCancel(w) \/ EnginePause(w) \/ EngineFail(w) \/ EngineComplete(w)
    PROVE  LineageFits'
BY ExitLineage DEF EngineCancel, EnginePause, EngineFail, EngineComplete

\* The worker gives its execution up.
LEMMA AbandonLineage ==
    ASSUME LineageInv, NEW w \in Workers, EngineAbandon(w) \/ Crash(w)
    PROVE  LineageFits'
<1>1. job[w] \in Executions /\ TypeInv /\ Release(w) /\ UNCHANGED <<row, run_>>
  BY DEF EngineAbandon, Crash, LineageInv, TypeInv, BusyHasJob
<1> QED
  BY <1>1, ReleaseMoves, QuietLineage

\* The engine learns that it is to pause or to stop.
LEMMA ControlLineage ==
    ASSUME LineageInv, NEW w \in Workers, WatchTaskControls(w) \/ Shutdown(w)
    PROVE  LineageFits'
<1>1. PICK e \in Executions : e = job[w]
  BY DEF WatchTaskControls, Shutdown, LineageInv, TypeInv, BusyHasJob
<1> DEFINE m(c) == [mem[w] EXCEPT !.ctl = c]
<1>2. PICK c : Goto(w, pc[w], m(c))
  BY DEF WatchTaskControls, Shutdown
<1>3. pc[w] \in {"engine", "wave"} /\ UNCHANGED <<row, run_>>
  BY DEF WatchTaskControls, Shutdown
<1>4. TypeInv /\ mem[w] \in Memory /\ RemembersRow(w)
  BY DEF LineageInv, TypeInv, TypeOK
<1>5. m(c).run = mem[w].run /\ m(c).awaiting = mem[w].awaiting /\ m(c).wave = mem[w].wave
  BY <1>4 DEF Memory
<1> HIDE DEF m
<1>6. /\ pc'[w] = pc[w] /\ mem'[w] = m(c) /\ job'[w] = e /\ claim'[w] = claim[w]
      /\ \A v \in Workers \ {w} : Stays(v)
  BY <1>1, <1>2, <1>4, GotoMoves
<1>7. UNCHANGED <<status, attempt, owner, lease, task, run, gate>>
  BY <1>3 DEF row, run_
<1>8. Current(w)' = Current(w) /\ Trusted(w)' = Trusted(w)
  BY <1>1, <1>3, <1>6, <1>7 DEF Current, LeaseValid, Trusted
<1>9. RemembersRow(w)'
  BY <1>1, <1>3, <1>4, <1>5, <1>6, <1>7, <1>8 DEF RemembersRow
<1> QED
  BY <1>1, <1>3, <1>6, <1>9, QuietLineage

\* The outcome the scheduler writes is that of the lineage it closes or pauses.
LEMMA OutcomeFacts ==
    ASSUME NEW m \in Memory
    PROVE  /\ Outcome(m) \notin {"absent", "pending", "interrupted", "approval_rejected"}
           /\ Outcome(m) = "completed" => m.err = "none" /\ m.run = "completed"
           /\ Outcome(m) = "paused_for_approval" => m.err = "none" /\ m.run = "paused" /\ m.awaiting
           /\ Outcome(m) = "paused_operator" => m.err = "checkpoint" \/ (m.err = "none" /\ m.run = "paused")
<1>1. m.err \in Errors
  BY DEF Memory
<1> QED
  BY <1>1 DEF Outcome, Errors

\* The scheduler marks the execution, under the fence.
LEMMA MarkLineage ==
    ASSUME LineageInv, NEW w \in Workers, MarkScheduledExecution(w)
    PROVE  LineageFits'
<1>1. PICK e \in Executions : e = job[w]
  BY DEF MarkScheduledExecution, LineageInv, TypeInv, BusyHasJob
<1> DEFINE ok == status[e] \in AllowedFrom(mem[w]) /\ LeaseValid(w)
<1>2. /\ pc[w] = "mark" /\ UNCHANGED <<attempt, task, run, done, work, gate, decision>> /\ Release(w)
      /\ status' = SetIf(status, e, ok, Outcome(mem[w]))
      /\ owner' = SetIf(owner, e, ok, NoOwner)
      /\ lease' = SetIf(lease, e, ok, 0)
  BY <1>1 DEF MarkScheduledExecution, run_
<1>3. RowFits(e) /\ RemembersRow(w) /\ TypeInv /\ mem[w] \in Memory
  BY DEF LineageInv, TypeInv, TypeOK
<1>4. RemembersRow(w)' /\ \A v \in Workers \ {w} : Stays(v)
  BY <1>2, <1>3, ReleaseMoves
<1>5. CASE ok
  <2>1. Current(w) /\ status[e] \in {"claimed", "running"} /\ gate[e] # "rejected"
    BY <1>1, <1>3, <1>5, OutcomeType DEF Current, RowFits
  <2>2. /\ OnlyRow(e) /\ status'[e] = Outcome(mem[w]) /\ owner'[e] = NoOwner
    BY <1>2, <1>3, <1>5 DEF OnlyRow, SetIf, TypeInv, TypeOK
  <2>3. Grows(e)
    BY <1>2 DEF Grows
  <2>4. /\ status'[e] \notin {"absent", "pending", "interrupted", "approval_rejected"}
        /\ status'[e] = "completed" => run[e] = "completed"
        /\ status'[e] = "paused_for_approval" => gate[e] = "awaiting"
        /\ status'[e] = "paused_operator" => run[e] # "none"
    BY <1>1, <1>2, <1>3, <2>1, <2>2, OutcomeFacts DEF RemembersRow, Trusted
  <2>5. RowFits(e)'
    BY <1>2, <1>3, <2>1, <2>4 DEF RowFits, AllFinished
  <2>6. \A v \in Workers \ {w} : job[v] = e => FenceKept(v)
    BY <1>4, <2>2, ConstantsAssumption DEF FenceKept, Current, LeaseValid, Stays
  <2> QED
    BY <1>4, <2>2, <2>3, <2>5, <2>6, WorkerLineage
<1>6. CASE ~ok
  <2>1. UNCHANGED <<status, owner, lease>>
    BY <1>2, <1>3, <1>6 DEF SetIf, TypeInv, TypeOK
  <2>2. UNCHANGED <<row, run_>>
    BY <1>2, <2>1 DEF row, run_
  <2> QED
    BY <1>1, <1>4, <2>2, QuietLineage
<1> QED
  BY <1>5, <1>6

\* A claim is the first to know its attempt.
LEMMA ClaimLineage ==
    ASSUME LineageInv, NEW w \in Workers, NEW e \in Executions, Claim(w, e)
    PROVE  LineageFits'
<1>1. RowFits(e) /\ RemembersRow(w) /\ TypeInv /\ TypeOK
  BY DEF LineageInv, TypeInv
<1>2. status[e] = "pending" /\ status' = [status EXCEPT ![e] = "claimed"]
  BY ClaimMovesOne DEF LineageInv
<1>3. /\ pc[w] = "idle" /\ UNCHANGED <<task, run, done, work, gate, decision, mem>>
      /\ attempt' = [attempt EXCEPT ![e] = attempt[e] + 1]
      /\ owner' = [owner EXCEPT ![e] = Host[w]]
      /\ lease' = [lease EXCEPT ![e] = LeaseTicks]
      /\ pc' = [pc EXCEPT ![w] = "claimed"]
      /\ job' = [job EXCEPT ![w] = e]
      /\ claim' = [claim EXCEPT ![w] = attempt[e] + 1]
  BY DEF Claim, run_
<1>4. /\ OnlyRow(e) /\ Grows(e) /\ status'[e] = "claimed" /\ attempt'[e] = attempt[e] + 1
      /\ pc'[w] = "claimed" /\ mem'[w] = mem[w]
      /\ \A v \in Workers \ {w} : Stays(v)
  BY <1>1, <1>2, <1>3 DEF OnlyRow, Grows, Stays, TypeOK
<1>5. RowFits(e)'
  BY <1>1, <1>2, <1>3, <1>4 DEF RowFits, AllFinished
<1>6. RemembersRow(w)'
  BY <1>1, <1>3, <1>4 DEF RemembersRow, Trusted
<1>7. ASSUME NEW v \in Workers \ {w}, job[v] = e PROVE FenceKept(v)
  <2>1. claim[v] <= attempt[e] /\ claim[v] \in Nat /\ attempt[e] \in Nat
    BY <1>1, <1>7 DEF LineageInv, ClaimsDistinct, TypeOK
  <2>2. claim[v] # attempt'[e]
    BY <1>4, <2>1
  <2>3. job'[v] = e /\ claim'[v] = claim[v]
    BY <1>4, <1>7 DEF Stays
  <2> QED
    BY <2>2, <2>3 DEF FenceKept, Current, LeaseValid
<1> QED
  BY <1>4, <1>5, <1>6, <1>7, WorkerLineage

\* Nothing is planned and nobody remembers anything at the start.
LEMMA LineageInit ==
    ASSUME Init
    PROVE  LineageInv
<1>1. OneOpenPerSchedule /\ ClaimsDistinct /\ GateNeedsApproval /\ ConsentIsRecorded
  BY NoConsent, ConstantsAssumption DEF Init, OneOpenPerSchedule, Open, Live, ClaimsDistinct,
     GateNeedsApproval, ConsentIsRecorded
<1>2. ASSUME NEW e \in Executions PROVE RowFits(e)
  BY DEF Init, RowFits
<1>3. ASSUME NEW w \in Workers PROVE RemembersRow(w)
  <2>1. pc[w] = "idle" /\ mem[w] = NoMemory /\ ~NoMemory.awaiting
    BY DEF Init, NoMemory
  <2> QED
    BY <2>1 DEF RemembersRow, Trusted
<1> QED
  BY <1>1, <1>2, <1>3, InitType DEF LineageInv

\* No step breaks the lineage of an execution.
LEMMA LineageNext ==
    ASSUME LineageInv, [Next]_vars
    PROVE  LineageInv'
<1>1. TypeInv' /\ OneOpenPerSchedule' /\ ClaimsDistinct' /\ GateNeedsApproval' /\ ConsentIsRecorded'
  BY NextType, OneOpenStep, ClaimsStep, GateStep DEF LineageInv
<1>2. LineageFits'
  <2>1. ASSUME NEW w \in Workers, WorkerStep(w) PROVE LineageFits'
    BY <2>1, RunRefusedLineage, CreateTaskLineage, LoadRunLineage, WriteTaskLineage, InitialSaveLineage,
       PlanGateLineage, StartWaveLineage, EndWaveLineage, EngineExitLineage, AbandonLineage, MarkLineage
       DEF WorkerStep
  <2>2. ASSUME NEW w \in Workers, Heartbeat(w) PROVE LineageFits'
    <3>1. job[w] \in Executions
      BY <2>2 DEF Heartbeat, LineageInv, TypeInv, BusyHasJob
    <3> QED
      BY <2>2, <3>1, LeaseLineage
  <2>3. ASSUME NEW w \in Workers, WatchTaskControls(w) \/ Crash(w) \/ Shutdown(w) PROVE LineageFits'
    BY <2>3, ControlLineage, AbandonLineage
  <2>4. ASSUME NEW e \in Executions,
               OperatorStep(e) \/ MaterializeDueSchedule(e) \/ Tick(e) \/ ReconcileStale(e)
        PROVE  LineageFits'
    BY <2>4, PlanningLineage, ResumeLineage, ApproveLineage, RejectLineage, SetTaskLineage, LeaseLineage,
       ReconcileLineage DEF OperatorStep
  <2>5. CASE UNCHANGED vars
    <3>1. /\ UNCHANGED <<status, attempt, owner, lease, task, run, done, work, gate, decision>>
          /\ UNCHANGED <<pc, job, claim, mem>>
      BY <2>5 DEF vars, row, run_, worker
    <3>2. ASSUME NEW e \in Executions PROVE RowFits(e)'
      BY <3>1 DEF LineageInv, RowFits, AllFinished, ActiveStep
    <3>3. ASSUME NEW w \in Workers PROVE RemembersRow(w)'
      BY <3>1 DEF LineageInv, RemembersRow, Trusted, Current, LeaseValid
    <3> QED
      BY <3>2, <3>3 DEF LineageFits
  <2> QED
    BY <2>1, <2>2, <2>3, <2>4, <2>5, ClaimLineage DEF Next
<1> QED
  BY <1>1, <1>2 DEF LineageInv, LineageFits

\* The lineage invariant for any constants.
THEOREM LineageHolds == Spec => []LineageInv
<1>1. Init => LineageInv
  BY LineageInit
<1>2. LineageInv /\ [Next]_vars => LineageInv'
  BY LineageNext
<1> QED
  BY <1>1, <1>2, PTL DEF Spec

\* ClosedAgrees for any constants: whoever closes an execution - its worker,
\* the operator's rejection or the recovery pass - closes run, steps and
\* approval with it and to the same effect.
THEOREM ClosedLineageAgrees == Spec => []ClosedAgrees
<1>1. LineageInv => ClosedAgrees
  BY DEF LineageInv, RowFits, ClosedAgrees, CompletedMeansDone, RejectionIsTotal, InterruptedIsClosed,
     AllFinished
<1> QED
  BY <1>1, LineageHolds, PTL

\* WaitingIsUsable for any constants: an execution that waits for the operator
\* has the step and the approval to decide, and one that waits for a worker has
\* a run to continue or nothing at all.
THEOREM WaitingCanBeTakenUp == Spec => []WaitingIsUsable
<1>1. LineageInv => WaitingIsUsable
  BY DEF LineageInv, RowFits, WaitingIsUsable, PausedIsDecidable, PendingIsRestartable
<1> QED
  BY <1>1, LineageHolds, PTL
=============================================================================
