------------------------ MODULE ScheduledExecutions ------------------------
(***************************************************************************)
(* The life of the rows of the table scheduled_executions: how the        *)
(* scheduler plans, claims, runs, pauses, resumes, closes and, after a     *)
(* crash, reconciles them.  Every database transaction of                  *)
(* internal/database that touches such a row is one action; the worker     *)
(* goroutine of internal/scheduler that drives a claimed row through       *)
(* internal/orchestration and internal/workflow is a process with a        *)
(* program counter, so that its transactions interleave with those of the  *)
(* operator, of other workers and of the recovery pass.                    *)
(*                                                                         *)
(* An execution owns at most one task and one workflow run (the links are  *)
(* written once), so the status columns of those rows are functions of the *)
(* execution.  The steps of the run are abstracted to two: `work', all the *)
(* ordinary steps, and `gate', the one step that needs a moderate-risk     *)
(* approval.  The ordinary steps run in up to two waves, with `partial'    *)
(* between them: those the gated step depends on, then the rest.           *)
(* WorkflowEngine models the individual steps.                             *)
(***************************************************************************)
EXTENDS Naturals

CONSTANTS
    Schedules,    \* rows of the table schedules
    Executions,   \* identifiers available for rows of scheduled_executions
    ScheduleOf,   \* the schedule_id each identifier is inserted with
    Workers,      \* dispatch goroutines, over all scheduler processes
    Host,         \* the lease owner (hostname) each worker writes
    Hosts,
    NoOwner,      \* lease_owner = ''
    NoExec,       \* an idle worker has no execution
    LeaseTicks,   \* length of a lease in clock ticks
    MaxAttempts   \* bound: claims of one execution explored by TLC

ASSUME ConstantsAssumption ==
    /\ ScheduleOf \in [Executions -> Schedules]
    /\ Host \in [Workers -> Hosts]
    /\ NoOwner \notin Hosts
    /\ NoExec \notin Executions
    /\ LeaseTicks \in Nat \ {0}
    /\ MaxAttempts \in Nat \ {0}

VARIABLES
    status,    \* scheduled_executions.status, "absent" before the insert
    attempt,   \* scheduled_executions.attempt_count
    owner,     \* scheduled_executions.lease_owner
    lease,     \* ticks left until lease_expires_at; 0 is expired or NULL
    task,      \* tasks.status of the linked task
    run,       \* workflow_runs.status of the linked run
    done,      \* workflow_runs.completed_at IS NOT NULL
    work,      \* step_runs.status of the ordinary steps
    gate,      \* step_runs.status of the approval-gated step
    decision,  \* approvals.decision for the gated step
    pc,        \* where each worker is in scheduler.execute
    job,       \* the execution a worker claimed
    claim,     \* the attempt number it was given (its fence)
    mem        \* what it holds in memory

row    == <<status, attempt, owner, lease>>
run_   == <<task, run, done, work, gate, decision>>
worker == <<pc, job, claim, mem>>
vars   == <<row, run_, worker>>

Live     == {"claimed", "running", "paused_for_approval", "paused_operator"}
Open     == Live \cup {"pending"}
Closed   == {"completed", "failed", "cancelled", "approval_rejected",
             "interrupted", "blocked_scope_change", "skipped_overlap"}
Status   == {"absent"} \cup Open \cup Closed
Ended    == {"completed", "failed", "cancelled"}   \* of a task or a run
TaskStatus == {"none", "pending", "running", "paused"} \cup Ended
RunStatus  == {"none", "running", "paused"} \cup Ended
InFlight   == {"active", "finishing"}
WorkStatus == {"none", "partial", "succeeded", "failed"} \cup InFlight
GateStatus == {"unreached", "awaiting", "running", "succeeded", "skipped",
               "failed", "rejected"}
Decisions  == {"none", "pending", "approved", "rejected", "expired"}
Errors     == {"none", "fence", "scope", "checkpoint", "cancelled", "other"}
Pcs        == {"idle", "claimed", "settask", "save", "engine", "wave",
               "task", "mark"}
Memory     == [run : RunStatus, err : Errors, seen : TaskStatus,
               ctl : {"none", "pause", "cancel"},
               approval : BOOLEAN,          \* engine.Approval is set
               blocked  : BOOLEAN,          \* blockedApprovals is not empty
               awaiting : BOOLEAN,          \* a step is awaiting_approval
               failed   : BOOLEAN,          \* primaryFailure
               wave : SUBSET {"work", "gate"}]
NoMemory   == [run |-> "none", err |-> "none", seen |-> "none",
               ctl |-> "none", approval |-> FALSE, blocked |-> FALSE,
               awaiting |-> FALSE, failed |-> FALSE, wave |-> {}]

TypeOK ==
    /\ status \in [Executions -> Status]
    /\ attempt \in [Executions -> Nat]
    /\ owner \in [Executions -> Hosts \cup {NoOwner}]
    /\ lease \in [Executions -> 0 .. LeaseTicks]
    /\ task \in [Executions -> TaskStatus]
    /\ run \in [Executions -> RunStatus]
    /\ done \in [Executions -> BOOLEAN]
    /\ work \in [Executions -> WorkStatus]
    /\ gate \in [Executions -> GateStatus]
    /\ decision \in [Executions -> Decisions]
    /\ pc \in [Workers -> Pcs]
    /\ job \in [Workers -> Executions \cup {NoExec}]
    /\ claim \in [Workers -> Nat]
    /\ mem \in [Workers -> Memory]

Init ==
    /\ status = [e \in Executions |-> "absent"]
    /\ attempt = [e \in Executions |-> 0]
    /\ owner = [e \in Executions |-> NoOwner]
    /\ lease = [e \in Executions |-> 0]
    /\ task = [e \in Executions |-> "none"]
    /\ run = [e \in Executions |-> "none"]
    /\ done = [e \in Executions |-> FALSE]
    /\ work = [e \in Executions |-> "none"]
    /\ gate = [e \in Executions |-> "unreached"]
    /\ decision = [e \in Executions |-> "none"]
    /\ pc = [w \in Workers |-> "idle"]
    /\ job = [w \in Workers |-> NoExec]
    /\ claim = [w \in Workers |-> 0]
    /\ mem = [w \in Workers |-> NoMemory]

\* The column f of row e becomes v if the condition c holds.
SetIf(f, e, c, v) == [f EXCEPT ![e] = IF c THEN v ELSE @]

SameSchedule(e) == {f \in Executions : ScheduleOf[f] = ScheduleOf[e]}

(***************************************************************************)
(* Planning.  Both inserts hold the lock on the schedules row while they   *)
(* look for an open execution of the schedule.                             *)
(***************************************************************************)
\* Mutant: the overlap query forgets executions an operator paused.
HasOpenExecutionUnlessPaused(e) ==
    \E f \in SameSchedule(e) : status[f] \in Open \ {"paused_operator"}

HasOpenExecution(e) == \E f \in SameSchedule(e) : status[f] \in Open

EnqueueRunNow(e) ==
    /\ status[e] = "absent"
    /\ ~HasOpenExecution(e)
    /\ status' = [status EXCEPT ![e] = "pending"]
    /\ UNCHANGED <<attempt, owner, lease, run_, worker>>

\* When an occurrence is due is left out: any schedule may be due at any time.
MaterializeDueSchedule(e) ==
    /\ status[e] = "absent"
    /\ status' = [status EXCEPT
                    ![e] = IF HasOpenExecution(e) THEN "skipped_overlap"
                                                  ELSE "pending"]
    /\ UNCHANGED <<attempt, owner, lease, run_, worker>>

(***************************************************************************)
(* Claiming.  skipOverlappingPendingExecutions runs in the transaction of  *)
(* the claim.                                                              *)
(***************************************************************************)
OtherLive(e) == \E f \in SameSchedule(e) \ {e} : status[f] \in Live

Claim(w, e) ==
    /\ pc[w] = "idle"
    /\ status[e] = "pending"
    /\ ~OtherLive(e)
    /\ attempt[e] < MaxAttempts
    /\ status' = [f \in Executions |->
                    CASE f = e -> "claimed"
                      [] f # e /\ status[f] = "pending" /\ OtherLive(f)
                           -> "skipped_overlap"
                      [] OTHER -> status[f]]
    /\ attempt' = [attempt EXCEPT ![e] = @ + 1]
    /\ owner' = [owner EXCEPT ![e] = Host[w]]
    /\ lease' = [lease EXCEPT ![e] = LeaseTicks]
    /\ pc' = [pc EXCEPT ![w] = "claimed"]
    /\ job' = [job EXCEPT ![w] = e]
    /\ claim' = [claim EXCEPT ![w] = attempt[e] + 1]
    /\ UNCHANGED <<run_, mem>>

\* Mutant: the fence compares the owner and the clock, not the attempt.
LeaseValidAnyAttempt(w) == owner[job[w]] = Host[w] /\ lease[job[w]] > 0

\* lockedSchedulerLeaseValid: the row still carries this worker's claim.
LeaseValid(w) ==
    LET e == job[w] IN
    /\ owner[e] = Host[w]
    /\ attempt[e] = claim[w]
    /\ lease[e] > 0

Release(w) ==
    /\ pc' = [pc EXCEPT ![w] = "idle"]
    /\ job' = [job EXCEPT ![w] = NoExec]
    /\ claim' = [claim EXCEPT ![w] = 0]
    /\ mem' = [mem EXCEPT ![w] = NoMemory]

Goto(w, label, m) ==
    /\ pc' = [pc EXCEPT ![w] = label]
    /\ mem' = [mem EXCEPT ![w] = m]
    /\ UNCHANGED <<job, claim>>

Heartbeat(w) ==
    /\ pc[w] # "idle"
    /\ status[job[w]] \in {"claimed", "running"} /\ LeaseValid(w)
    /\ lease' = [lease EXCEPT ![job[w]] = LeaseTicks]
    /\ UNCHANGED <<status, attempt, owner, run_, worker>>

(***************************************************************************)
(* orchestration.Service.Run up to the engine: an error, a scope expansion *)
(* or an unavailable checkpoint ends it before anything is written.        *)
(***************************************************************************)
RunRefused(w) ==
    /\ pc[w] = "claimed"
    /\ \E err \in {"other", "cancelled", "scope"}
                  \cup (IF run[job[w]] # "none" THEN {"checkpoint"} ELSE {}) :
         Goto(w, "mark", [mem[w] EXCEPT !.err = err])
    /\ UNCHANGED <<row, run_>>

\* A fresh execution: the task and its link are one fenced transaction; a
\* refusal is a plain error, not a fence error.
CreateTask(w) ==
    LET e  == job[w]
        ok == task[e] # "none" \/ (status[e] = "claimed" /\ LeaseValid(w)) IN
    /\ pc[w] = "claimed"
    /\ run[e] = "none"
    /\ task' = SetIf(task, e, ok /\ task[e] = "none", "pending")
    /\ IF ok THEN Goto(w, "save", mem[w])
             ELSE Goto(w, "mark", [mem[w] EXCEPT !.err = "other"])
    /\ UNCHANGED <<row, run, done, work, gate, decision>>

\* Mutant: a pending approval counts as one.
ApprovedOrPending(e) ==
    gate[e] = "awaiting" /\ decision[e] \in {"approved", "pending"}

\* resumeApproval: the engine gets its Approval callback only from a
\* recorded approval of the awaiting step.
ApprovedByRecord(e) == gate[e] = "awaiting" /\ decision[e] = "approved"

\* A continued execution reads its run, its task and the approval.
LoadRun(w) ==
    LET e == job[w]
        m == [mem[w] EXCEPT !.seen = task[e],
                            !.awaiting = gate[e] = "awaiting",
                            !.approval = ApprovedByRecord(e),
                            !.ctl = IF task[e] = "cancelled" THEN "cancel"
                                                             ELSE "none"] IN
    /\ pc[w] = "claimed"
    /\ run[e] # "none"
    /\ Goto(w, IF task[e] = "paused" THEN "settask" ELSE "save", m)
    /\ UNCHANGED <<row, run_>>

\* SetTaskStatus(running), unconditional, on the strength of the earlier read.
ResumeTask(w) ==
    /\ pc[w] = "settask"
    /\ task' = [task EXCEPT ![job[w]] = "running"]
    /\ Goto(w, "save", mem[w])
    /\ UNCHANGED <<row, run, done, work, gate, decision>>

(***************************************************************************)
(* Saving.  saveWorkflowState validates the fence and writes run, steps,   *)
(* approvals and lifecycle in one transaction; the checkpoint file is      *)
(* written after the commit.                                               *)
(***************************************************************************)
\* Mutant: a save checks that the task is linked, not the claim or the run.
SaveFenceByLink(w) == task[job[w]] # "none"

SaveFence(w) ==
    LET e == job[w] IN
    /\ status[e] \in {"claimed", "running"}
    /\ LeaseValid(w)
    /\ task[e] # "none"
    /\ run[e] \notin Ended
    /\ run[e] = "paused" => status[e] = "claimed"

\* "file" is a commit whose checkpoint write failed, "error" a transaction
\* that failed for a reason other than the fence.
SaveResults(w) ==
    IF SaveFence(w) THEN {"ok", "file", "error"} ELSE {"lost"}

Committed(r) == r \in {"ok", "file"}
ErrorOf(r)   == [ok |-> "none", file |-> "checkpoint",
                 error |-> "other", lost |-> "fence"][r]

\* The engine returns: a fence error ends the worker without another write.
EngineReturns(w, m) ==
    IF m.err = "fence" THEN Release(w) ELSE Goto(w, "task", m)

\* The first save of engine.Run creates the run or continues it, and moves
\* the execution to running.
InitialSave(w) ==
    LET e == job[w]
        m == [mem[w] EXCEPT !.run = "running"]
        recoverable == run[e] # "none" \/ task[e] \in {"pending", "running"} IN
    /\ pc[w] = "save"
    /\ \E r \in SaveResults(w) :
         LET c == Committed(r) /\ recoverable IN
         /\ task' = SetIf(task, e, c /\ run[e] = "none", "running")
         /\ run' = SetIf(run, e, c, "running")
         /\ done' = SetIf(done, e, c, FALSE)
         /\ status' = SetIf(status, e, c, "running")
         /\ IF r = "ok" /\ c
            THEN Goto(w, "engine", m)
            ELSE EngineReturns(w, [m EXCEPT !.err =
                     IF Committed(r) /\ ~c THEN "other" ELSE ErrorOf(r)])
    /\ UNCHANGED <<attempt, owner, lease, work, gate, decision>>

(***************************************************************************)
(* The engine loop.                                                        *)
(***************************************************************************)
\* A step whose stored result is a failure cannot be transitioned again.
SaveStep(w, steps) ==
    LET e == job[w]
        rewrites == \/ "work" \in steps /\ work[e] = "failed"
                    \/ "gate" \in steps /\ gate[e] = "failed" IN
    IF SaveFence(w) /\ rewrites THEN {"error"} ELSE SaveResults(w)

\* The gated step becomes ready without an Approval callback (it blocks the
\* gate), or its condition is false (it is skipped).  A step that an earlier
\* engine left in flight waits for its approval again.
PlanGate(w) ==
    LET e == job[w] IN
    /\ pc[w] = "engine" /\ mem[w].ctl = "none" /\ ~mem[w].failed
    /\ gate[e] \in {"unreached", "awaiting", "running", "failed"}
    /\ gate[e] = "unreached" => work[e] \in {"partial", "succeeded"}
    /\ ~mem[w].approval /\ ~mem[w].blocked
    /\ \E r \in SaveStep(w, {"gate"}),
          wait \in IF gate[e] = "unreached" THEN BOOLEAN ELSE {TRUE} :
         LET c == Committed(r)
             m == [mem[w] EXCEPT !.blocked = wait, !.awaiting = wait] IN
         /\ gate' = SetIf(gate, e, c, IF wait THEN "awaiting" ELSE "skipped")
         /\ decision' = SetIf(decision, e,
                              c /\ wait /\ decision[e] \notin {"approved", "rejected"},
                              "pending")
         /\ IF r = "ok" THEN Goto(w, "engine", m)
            ELSE EngineReturns(w, [m EXCEPT !.err = ErrorOf(r)])
    /\ UNCHANGED <<row, task, run, done, work>>

\* A step the loop finds ready: one that has not succeeded and is not gated.
Ready(w) ==
    LET e == job[w] IN
    {s \in {"work", "gate"} :
        \/ s = "work" /\ work[e] # "succeeded"
        \/ s = "gate" /\ gate[e] \in {"awaiting", "running", "failed"} /\ mem[w].approval}

\* The save records an approval for the gated step, but only an engine that
\* read a recorded one gets here, so `decision' does not change.
StartWave(w) ==
    LET e == job[w] IN
    /\ pc[w] = "engine" /\ mem[w].ctl = "none" /\ ~mem[w].failed
    /\ \E steps \in SUBSET Ready(w) \ {{}} :
       \E r \in SaveStep(w, steps) :
         LET c == Committed(r)
             m == [mem[w] EXCEPT !.wave = steps,
                     !.awaiting = @ /\ "gate" \notin steps] IN
         /\ work' = SetIf(work, e, c /\ "work" \in steps,
                          IF work[e] \in {"partial", "finishing"} THEN "finishing"
                                                                   ELSE "active")
         /\ gate' = SetIf(gate, e, c /\ "gate" \in steps, "running")
         /\ IF r = "ok" THEN Goto(w, "wave", m)
            ELSE EngineReturns(w, [m EXCEPT !.err = ErrorOf(r)])
    /\ UNCHANGED <<row, task, run, done, decision>>

\* The providers return; their results are stored, then the outcomes saved.
\* A save that fails may leave the results of the providers behind.
EndWave(w) ==
    LET e == job[w] IN
    /\ pc[w] = "wave"
    /\ \E workOut \in {"succeeded", "failed"}
                      \cup (IF work[e] = "finishing" THEN {} ELSE {"partial"}),
          gateOut \in {"succeeded", "failed"},
          r \in SaveResults(w), stored \in BOOLEAN :
         LET c == Committed(r) \/ (r = "error" /\ stored)
             ran == mem[w].wave
             m == [mem[w] EXCEPT !.wave = {},
                     !.failed = \/ "work" \in ran /\ workOut = "failed"
                                \/ "gate" \in ran /\ gateOut = "failed"] IN
         /\ work' = SetIf(work, e, c /\ "work" \in ran, workOut)
         /\ gate' = SetIf(gate, e, c /\ "gate" \in ran, gateOut)
         /\ IF r = "ok" THEN Goto(w, "engine", m)
            ELSE EngineReturns(w, [m EXCEPT !.err = ErrorOf(r)])
    /\ UNCHANGED <<row, task, run, done, decision>>

\* The engine leaves the loop with the run in status s.  A swallowed save
\* error is lost; `keep' is the error returned when the save itself succeeds.
Exit(w, s, complete, swallow, keep) ==
    LET e == job[w] IN
    /\ \E r \in SaveResults(w) :
         LET c   == Committed(r)
             err == IF swallow \/ r = "ok" THEN keep ELSE ErrorOf(r) IN
         /\ run' = SetIf(run, e, c, s)
         /\ done' = SetIf(done, e, c, complete)
         /\ EngineReturns(w, [mem[w] EXCEPT !.run = s, !.err = err])
    /\ UNCHANGED <<row, task, work, gate, decision>>

\* terminal(RunCancelled)
EngineCancel(w) ==
    /\ pc[w] = "engine" /\ mem[w].ctl = "cancel"
    /\ Exit(w, "cancelled", TRUE, FALSE, "none")

\* The operator's pause, or nothing is ready and an approval is outstanding.
EnginePause(w) ==
    /\ pc[w] = "engine" /\ mem[w].ctl # "cancel" /\ ~mem[w].failed
    /\ mem[w].ctl = "pause" \/ (mem[w].blocked /\ Ready(w) = {})
    /\ Exit(w, "paused", FALSE, TRUE, "none")

\* Engine.fail: completed_at stays NULL and the save error is dropped.
EngineFail(w) ==
    /\ pc[w] = "engine" /\ mem[w].ctl # "cancel"
    /\ Exit(w, "failed", FALSE, TRUE, "other")

AllFinished(e) == work[e] = "succeeded" /\ gate[e] \in {"succeeded", "skipped"}

EngineComplete(w) ==
    /\ pc[w] = "engine"
    /\ AllFinished(job[w])
    /\ Exit(w, "completed", TRUE, FALSE, "none")

\* The heartbeat goroutine found the lease lost and cancelled the run: the
\* engine's last save is refused by the fence.
EngineAbandon(w) ==
    /\ pc[w] \in {"engine", "wave"}
    /\ ~(status[job[w]] \in {"claimed", "running"} /\ LeaseValid(w))
    /\ Release(w)
    /\ UNCHANGED <<row, run_>>

\* WatchTaskControls, every 500 ms.
WatchTaskControls(w) ==
    LET t == task[job[w]] IN
    /\ pc[w] \in {"engine", "wave"}
    /\ \/ t = "cancelled" /\ mem[w].ctl # "cancel"
       \/ t = "paused" /\ mem[w].ctl = "none"
    /\ Goto(w, pc[w], [mem[w] EXCEPT !.ctl = IF t = "paused" THEN "pause"
                                                             ELSE "cancel"])
    /\ UNCHANGED <<row, run_>>

\* SetTaskStatusFromWorkflow: not fenced, but only from a status that is not
\* terminal; there is nothing to write while the run is still running.
SetTaskStatusFromWorkflow(w) ==
    LET e == job[w]
        s == mem[w].run IN
    /\ pc[w] = "task"
    /\ task' = SetIf(task, e, s # "running" /\ task[e] \notin Ended, s)
    /\ Goto(w, "mark", mem[w])
    /\ UNCHANGED <<row, run, done, work, gate, decision>>

(***************************************************************************)
(* scheduler.execute classifies the outcome; the row moves only from the   *)
(* allowed statuses and only under a valid lease.                          *)
(***************************************************************************)
\* Mutant: the status of the run is written as it is.
OutcomeRaw(m) == IF m.err = "none" THEN m.run ELSE "failed"

Outcome(m) ==
    CASE m.err = "scope"      -> "blocked_scope_change"
      [] m.err = "checkpoint" -> "paused_operator"
      [] m.err \notin {"scope", "checkpoint"}
           /\ (m.run = "cancelled" \/ m.err = "cancelled") -> "cancelled"
      [] m.err = "other" /\ m.run # "cancelled" -> "failed"
      [] m.err = "none" /\ m.run = "completed"  -> "completed"
      [] m.err = "none" /\ m.run = "paused" ->
           IF m.awaiting THEN "paused_for_approval" ELSE "paused_operator"
      [] OTHER -> "failed"

AllowedFrom(m) ==
    CASE m.err = "scope" -> {"claimed"}
      [] m.err = "none" /\ m.run \in {"completed", "paused"} -> {"running"}
      [] OTHER -> {"claimed", "running"}

MarkScheduledExecution(w) ==
    LET e  == job[w]
        ok == status[e] \in AllowedFrom(mem[w]) /\ LeaseValid(w) IN
    /\ pc[w] = "mark"
    /\ status' = SetIf(status, e, ok, Outcome(mem[w]))
    /\ owner' = SetIf(owner, e, ok, NoOwner)
    /\ lease' = SetIf(lease, e, ok, 0)
    /\ Release(w)
    /\ UNCHANGED <<attempt, run_>>

(***************************************************************************)
(* Time, crashes and shutdown.                                             *)
(***************************************************************************)
Tick(e) ==
    /\ lease[e] > 0
    /\ lease' = [lease EXCEPT ![e] = @ - 1]
    /\ UNCHANGED <<status, attempt, owner, run_, worker>>

Crash(w) ==
    /\ pc[w] # "idle"
    /\ Release(w)
    /\ UNCHANGED <<row, run_>>

\* The process is asked to stop: the engine's context is cancelled.
Shutdown(w) ==
    /\ pc[w] \in {"engine", "wave"} /\ mem[w].ctl # "cancel"
    /\ Goto(w, pc[w], [mem[w] EXCEPT !.ctl = "cancel"])
    /\ UNCHANGED <<row, run_>>

(***************************************************************************)
(* Recovery of a stale execution: classifyStaleLineage reads the lineage,  *)
(* applyStaleLineageReconciliation writes task, run, steps, approvals and  *)
(* the execution in one transaction.  Conflicts that need links to missing *)
(* or foreign rows, and incomplete tool runs, cannot arise here.           *)
(***************************************************************************)
\* Mutant: a claim that never started is not stale.
StaleRunning(e) == status[e] = "running" /\ lease[e] = 0

Stale(e) == status[e] \in {"claimed", "running"} /\ lease[e] = 0

ActiveStep(e)   == gate[e] \in {"awaiting", "running"} \/ work[e] \in InFlight
RejectedGate(e) == decision[e] = "rejected" /\ gate[e] = "rejected"

Conflicting(e) ==
    \/ gate[e] = "awaiting" /\ decision[e] \notin {"pending", "approved"}
    \/ gate[e] # "awaiting" /\ decision[e] = "pending"
    \/ run[e] \in Ended /\ (~done[e] \/ ActiveStep(e))
    \/ run[e] \notin Ended /\ task[e] \in Ended
    \/ run[e] \in Ended /\ task[e] \in Ended /\ task[e] # run[e]
    \/ RejectedGate(e) /\ run[e] # "failed"

\* What the reconciliation writes; "keep" leaves a column alone, `close' ends
\* the active steps and expires the pending approvals.
Plan(s, t, r, close) == [status |-> s, task |-> t, run |-> r, close |-> close]

\* Mutant: an interrupted execution is started again.
InconsistentRequeued == Plan("pending", "keep", "keep", FALSE)

Inconsistent == Plan("interrupted", "failed", "failed", TRUE)

\* Mutant: a task that never started is as good as none.
NoTaskOrPending(e) == task[e] \in {"none", "pending"}

NoTask(e) == task[e] = "none"

\* The order of the returns of classifyStaleLineage.
ClassifyStaleLineage(e) ==
    IF Conflicting(e) THEN Inconsistent
    ELSE IF run[e] = "none" /\ NoTask(e) THEN
         IF status[e] = "claimed" THEN Plan("pending", "keep", "keep", FALSE)
                                  ELSE Inconsistent
    ELSE IF run[e] = "none" THEN Plan("interrupted", "failed", "keep", FALSE)
    ELSE IF RejectedGate(e) THEN Plan("approval_rejected", "failed", "keep", FALSE)
    ELSE IF gate[e] = "awaiting" THEN
         Plan("paused_for_approval", "paused", "paused", FALSE)
    ELSE IF run[e] \in Ended THEN Plan(run[e], run[e], "keep", FALSE)
    ELSE IF run[e] = "paused" /\ ~ActiveStep(e) THEN
         Plan("paused_operator", "paused", "keep", FALSE)
    ELSE Inconsistent

ReconcileStale(e) ==
    LET p == ClassifyStaleLineage(e)
        moves == run[e] \notin Ended \cup {"none"} /\ p.run # "keep" IN
    /\ Stale(e)
    /\ status' = [status EXCEPT ![e] = p.status]
    /\ owner' = [owner EXCEPT ![e] = NoOwner]
    /\ task' = SetIf(task, e, p.task # "keep" /\ task[e] \notin Ended \cup {"none"}, p.task)
    /\ run' = SetIf(run, e, moves, p.run)
    /\ done' = SetIf(done, e, moves /\ run[e] # p.run, p.run \in Ended)
    /\ work' = SetIf(work, e, p.close /\ work[e] \in InFlight, "failed")
    /\ gate' = SetIf(gate, e, p.close /\ gate[e] \in {"awaiting", "running"}, "failed")
    /\ decision' = SetIf(decision, e, p.close /\ decision[e] = "pending", "expired")
    /\ UNCHANGED <<attempt, lease, worker>>

(***************************************************************************)
(* The operator.                                                           *)
(***************************************************************************)
RequestScheduledExecutionResume(e) ==
    /\ status[e] \in {"paused_for_approval", "paused_operator"}
    /\ status[e] = "paused_for_approval" =>
         gate[e] = "awaiting" /\ decision[e] \in {"approved", "rejected"}
    /\ ~OtherLive(e)
    /\ status' = [status EXCEPT
                    ![e] = IF @ = "paused_for_approval" /\ decision[e] = "rejected"
                           THEN "approval_rejected" ELSE "pending"]
    /\ UNCHANGED <<attempt, owner, lease, run_, worker>>

ApproveStep(e) ==
    /\ decision[e] = "pending"
    /\ decision' = [decision EXCEPT ![e] = "approved"]
    /\ UNCHANGED <<row, task, run, done, work, gate, worker>>

\* Mutant: the status of the execution is not looked at.
CanRejectAnyExecution(e) ==
    /\ decision[e] = "pending" /\ gate[e] = "awaiting"
    /\ run[e] \in {"running", "paused"}
    /\ task[e] \in {"pending", "running", "paused"}

\* Every row the rejection closes must be in a status it can be closed from,
\* or the whole transaction is rolled back.
CanReject(e) ==
    /\ decision[e] = "pending"
    /\ gate[e] = "awaiting"
    /\ run[e] \in {"running", "paused"}
    /\ task[e] \in {"pending", "running", "paused"}
    /\ status[e] \in {"paused_for_approval", "running"}

RejectStep(e) ==
    /\ CanReject(e)
    /\ decision' = [decision EXCEPT ![e] = "rejected"]
    /\ gate' = [gate EXCEPT ![e] = "rejected"]
    /\ run' = [run EXCEPT ![e] = "failed"]
    /\ done' = [done EXCEPT ![e] = TRUE]
    /\ task' = [task EXCEPT ![e] = "failed"]
    /\ status' = [status EXCEPT ![e] = "approval_rejected"]
    /\ owner' = [owner EXCEPT ![e] = NoOwner]
    /\ lease' = [lease EXCEPT ![e] = 0]
    /\ UNCHANGED <<attempt, work, worker>>

\* platform task pause | resume | cancel: an unconditional update.
SetTaskStatus(e) ==
    /\ task[e] # "none"
    /\ \E s \in {"paused", "running", "cancelled"} : task' = [task EXCEPT ![e] = s]
    /\ UNCHANGED <<row, run, done, work, gate, decision, worker>>

(***************************************************************************)
(* The specification.                                                      *)
(***************************************************************************)
WorkerStep(w) ==
    \/ RunRefused(w) \/ CreateTask(w) \/ LoadRun(w) \/ ResumeTask(w)
    \/ InitialSave(w) \/ PlanGate(w) \/ StartWave(w) \/ EndWave(w)
    \/ EngineCancel(w) \/ EnginePause(w) \/ EngineFail(w) \/ EngineComplete(w)
    \/ EngineAbandon(w) \/ SetTaskStatusFromWorkflow(w)
    \/ MarkScheduledExecution(w)

OperatorStep(e) ==
    \/ EnqueueRunNow(e) \/ RequestScheduledExecutionResume(e)
    \/ ApproveStep(e) \/ RejectStep(e) \/ SetTaskStatus(e)

Next ==
    \/ \E w \in Workers, e \in Executions : Claim(w, e)
    \/ \E w \in Workers : \/ WorkerStep(w) \/ Heartbeat(w)
                          \/ WatchTaskControls(w) \/ Crash(w) \/ Shutdown(w)
    \/ \E e \in Executions : \/ OperatorStep(e) \/ MaterializeDueSchedule(e)
                             \/ Tick(e) \/ ReconcileStale(e)

Spec == Init /\ [][Next]_vars

\* Workers make progress, stale rows are reconciled by the next claim pass,
\* pending rows are claimed, and a lease nobody renews runs out.
Fairness ==
    /\ \A w \in Workers : WF_vars(WorkerStep(w))
    /\ \A w \in Workers, e \in Executions : WF_vars(Claim(w, e))
    /\ \A e \in Executions : WF_vars(ReconcileStale(e))
    /\ \A e \in Executions :
         WF_vars((\A w \in Workers : job[w] # e) /\ Tick(e))

FairSpec == Spec /\ Fairness

(***************************************************************************)
(* Properties.                                                             *)
(***************************************************************************)
\* A schedule never has two executions that are planned, claimed, running or
\* paused at once, although run-now, cron, resume and recovery all create
\* open executions and only the first two hold the lock on the schedule.
OneOpenPerSchedule ==
    \A e, f \in Executions :
        ScheduleOf[e] = ScheduleOf[f] /\ status[e] \in Open /\ status[f] \in Open
            => e = f

\* Two workers never hold a valid fence on the same execution, even when they
\* run on one host and so write the same lease owner.
FencesExclusive ==
    \A w, v \in Workers :
        (job[w] \in Executions /\ job[w] = job[v] /\ LeaseValid(w) /\ LeaseValid(v))
            => w = v

\* The gated scan is never in flight or done without a recorded approval, on
\* any path of pauses, crashes, recoveries, resumes and late decisions.
GateNeedsApproval ==
    \A e \in Executions :
        gate[e] \in {"running", "succeeded"} => decision[e] = "approved"

\* An execution reported completed has a completed run whose steps are done.
CompletedMeansDone ==
    \A e \in Executions :
        status[e] = "completed" =>
            /\ run[e] = "completed" /\ done[e]
            /\ work[e] = "succeeded"
            /\ gate[e] \in {"succeeded", "skipped"}

\* A rejection closes step, run and execution together, and no late write of
\* the worker that was running the execution reopens any of them.
RejectionIsTotal ==
    \A e \in Executions :
        /\ gate[e] = "rejected" <=> status[e] = "approval_rejected"
        /\ gate[e] = "rejected" => run[e] = "failed" /\ done[e]

\* An execution paused for approval always has the step and the approval the
\* operator needs to resume or reject it.
PausedIsDecidable ==
    \A e \in Executions :
        status[e] = "paused_for_approval" =>
            /\ gate[e] = "awaiting"
            /\ decision[e] \in {"pending", "approved"}

\* What goes back to the queue either left nothing behind or has a run to
\* continue: a task without a run is never requeued.
PendingIsRestartable ==
    \A e \in Executions :
        status[e] = "pending" => (task[e] = "none" <=> run[e] = "none")

\* A reconciled interruption leaves no step active, no run open and no
\* approval that could still be decided.
InterruptedIsClosed ==
    \A e \in Executions :
        status[e] = "interrupted" =>
            /\ run[e] \in Ended \cup {"none"}
            /\ ~ActiveStep(e)
            /\ decision[e] # "pending"

\* However an execution was closed, its lineage was closed with it and to the
\* same effect.
ClosedAgrees == CompletedMeansDone /\ RejectionIsTotal /\ InterruptedIsClosed

\* Whatever waits, for an operator or for a worker, can be taken up by one.
WaitingIsUsable == PausedIsDecidable /\ PendingIsRestartable

\* A closed execution stays as it is, and so does a run that has ended:
\* neither a late worker nor the recovery pass rewrites history.
HistoryIsFinal ==
    [][\A e \in Executions :
          /\ status[e] \in Closed => status'[e] = status[e]
          /\ run[e] \in Ended => run'[e] = run[e] /\ done'[e] = done[e]]_vars

\* The scheduler implements the slot of ScheduleSlot: whatever crashes and
\* whoever decides, executions of a schedule move only along its steps.
PhaseOf(s) ==
    CASE s = "absent"  -> "new"
      [] s = "pending" -> "queued"
      [] s \in {"claimed", "running"} -> s
      [] s \in {"paused_for_approval", "paused_operator"} -> "paused"
      [] OTHER -> "closed"

Slot == INSTANCE ScheduleSlot WITH phase <- [e \in Executions |-> PhaseOf(status[e])]

ImplementsSlot == Slot!SlotSpec

\* Every claim ends: whatever crashes, no execution stays claimed or running
\* for ever and so keeps its schedule blocked.
ClaimsEnd ==
    \A e \in Executions :
        status[e] \in {"claimed", "running"} ~> status[e] \notin {"claimed", "running"}

\* A planned execution is eventually claimed.
PendingIsClaimed ==
    \A e \in Executions :
        status[e] = "pending" /\ attempt[e] < MaxAttempts ~> status[e] # "pending"

\* No execution gets stuck: planned ones are claimed and claims end.
ExecutionsProgress == ClaimsEnd /\ PendingIsClaimed
=============================================================================
