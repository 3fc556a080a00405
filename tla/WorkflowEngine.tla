--------------------------- MODULE WorkflowEngine ---------------------------
(***************************************************************************)
(* workflow.Engine on one workflow run: waves of steps, the attempts each  *)
(* step makes, what is saved before and after them, and how a later engine *)
(* resumes from the database and the checkpoint file.  Several engines may *)
(* run at once (two operators resume the same run from the command line);  *)
(* only the database keeps them apart.  ScheduledExecutions models the     *)
(* lease that keeps scheduled engines apart.                               *)
(*                                                                         *)
(* The input of a step is a function of the results of its dependencies,   *)
(* so a step has one step_runs row; inputs and outputs are left out.       *)
(***************************************************************************)
EXTENDS Integers, FiniteSets

CONSTANTS
    Steps,        \* the steps of the materialised definition
    DependsOn,    \* their dependencies
    Rank,         \* the stable topological order
    Gated,        \* steps with ApprovalRequired: at most one in a release
    Conditional,  \* steps with a Condition
    MaxTries,     \* Retry.MaxAttempts of each step
    MaxParallel,  \* policy.ProgramParallelism
    Engines,
    MaxStarts     \* bound: engine starts explored by TLC

ASSUME DefinitionAssumption ==
    /\ DependsOn \in [Steps -> SUBSET Steps]
    /\ Rank \in [Steps -> Nat]
    /\ \A s, t \in Steps : Rank[s] = Rank[t] => s = t
    /\ \A s \in Steps : \A t \in DependsOn[s] : Rank[t] < Rank[s]
    /\ Gated \subseteq Steps /\ \A s, t \in Gated : s = t
    /\ Conditional \subseteq Steps
    /\ MaxTries \in [Steps -> Nat \ {0}]
    /\ MaxParallel \in Nat \ {0}
    /\ MaxStarts \in Nat

VARIABLES
    run,       \* workflow_runs.status
    rows,      \* step_runs: status and attempt_count
    decision,  \* approvals.decision of the gated step
    written,   \* the checkpoint file exists
    file,      \* the steps it holds
    holds,     \* the conditional steps whose condition is true
    calls,     \* provider invocations, per step
    pc,        \* where each engine is in Engine.Run
    mem,       \* its State and its local variables
    ex,        \* its executeStep goroutines
    starts,    \* engines started so far
    consent    \* an operator has approved the gated step

db   == <<run, rows, decision>>
disk == <<written, file>>
vars == <<db, disk, holds, calls, pc, mem, ex, starts, consent>>

Ended    == {"completed", "failed", "cancelled"}
RunStatus == {"none", "running", "paused"} \cup Ended
Final    == {"succeeded", "failed", "skipped", "cancelled"}
StepStatus == {"none", "running", "awaiting_approval", "retryable"} \cup Final
Row      == [status : StepStatus, attempt : Nat]
NoRow    == [status |-> "none", attempt |-> 0]
Pcs      == {"idle", "start", "loop", "wave", "commit", "after", "file"}
Memory   == [run : RunStatus, steps : [Steps -> Row],
             finished : SUBSET Steps, blocked : SUBSET Steps,
             approval : BOOLEAN, ctl : {"none", "pause", "cancel"},
             wave : SUBSET Steps,     \* outcomes not committed yet
             failed : BOOLEAN,        \* primaryFailure
             next : Pcs]              \* where the engine goes after a save
NoMemory == [run |-> "none", steps |-> [s \in Steps |-> NoRow],
             finished |-> {}, blocked |-> {}, approval |-> FALSE,
             ctl |-> "none", wave |-> {}, failed |-> FALSE, next |-> "idle"]
Stages   == {"off", "ready", "called", "ended"}
Outcomes == {"none", "succeeded", "failed", "cancelled", "lost"}
Exec     == [stage : Stages, attempt : Nat, outcome : Outcomes]
NoExec   == [stage |-> "off", attempt |-> 0, outcome |-> "none"]

TypeOK ==
    /\ run \in RunStatus
    /\ rows \in [Steps -> Row]
    /\ decision \in {"none", "pending", "approved", "rejected"}
    /\ written \in BOOLEAN
    /\ file \in SUBSET Steps
    /\ holds \in SUBSET Conditional
    /\ calls \in [Steps -> Nat]
    /\ pc \in [Engines -> Pcs]
    /\ mem \in [Engines -> Memory]
    /\ ex \in [Engines -> [Steps -> Exec]]
    /\ starts \in Nat
    /\ consent \in BOOLEAN

Init ==
    /\ run = "none"
    /\ rows = [s \in Steps |-> NoRow]
    /\ decision = "none"
    /\ written = FALSE
    /\ file = {}
    /\ holds \in SUBSET Conditional
    /\ calls = [s \in Steps |-> 0]
    /\ pc = [g \in Engines |-> "idle"]
    /\ mem = [g \in Engines |-> NoMemory]
    /\ ex = [g \in Engines |-> [s \in Steps |-> NoExec]]
    /\ starts = 0
    /\ consent = FALSE

Known(steps) == {s \in Steps : steps[s].status # "none"}

Goto(g, label, m) ==
    /\ pc' = [pc EXCEPT ![g] = label]
    /\ mem' = [mem EXCEPT ![g] = m]

\* Engine.Run returns, or its process dies.
Return(g) ==
    /\ Goto(g, "idle", NoMemory)
    /\ ex' = [ex EXCEPT ![g] = [s \in Steps |-> NoExec]]

(***************************************************************************)
(* Starting and resuming.                                                  *)
(***************************************************************************)
\* A new run; the row appears with the first save.  The operator may start an
\* engine with --approve-moderate.
StartRun(g) ==
    /\ pc[g] = "idle" /\ run = "none" /\ starts < MaxStarts
    /\ \A h \in Engines : pc[h] = "idle"
    /\ \E yes \in BOOLEAN :
         /\ Goto(g, "start", [NoMemory EXCEPT !.run = "running", !.approval = yes])
         /\ consent' = (consent \/ yes)
    /\ starts' = starts + 1
    /\ UNCHANGED <<db, disk, holds, calls, ex>>

\* reconcileCheckpoint: the file must hold exactly the steps of the database;
\* a missing one is rebuilt only for a run that has no steps yet.
CheckpointState ==
    CASE written /\ file = Known(rows) -> "ok"
      [] written /\ file # Known(rows) -> "conflict"
      [] ~written /\ run \notin Ended /\ Known(rows) = {} -> "rebuilt"
      [] OTHER -> "unavailable"

\* Mutant: any recorded request is taken for an approval.
ApprovedOrRequested(s) ==
    rows[s].status = "awaiting_approval" /\ decision \in {"pending", "approved"}

\* resumeApproval
ApprovedByRecord(s) == rows[s].status = "awaiting_approval" /\ decision = "approved"

ResumeRun(g) ==
    /\ pc[g] = "idle" /\ run # "none" /\ starts < MaxStarts
    /\ CheckpointState \in {"ok", "rebuilt"}
    /\ \A s \in Gated : rows[s].status = "awaiting_approval" => decision # "rejected"
    /\ written' = TRUE
    /\ \E yes \in BOOLEAN :
         /\ Goto(g, "start", [NoMemory EXCEPT
                !.run = "running", !.steps = rows,
                !.approval = yes \/ \E s \in Gated : ApprovedByRecord(s)])
         /\ consent' = (consent \/ yes)
    /\ starts' = starts + 1
    /\ UNCHANGED <<db, file, holds, calls, ex>>

(***************************************************************************)
(* Saving: saveWorkflowState validates the lifecycle of the run and the    *)
(* attempts of its steps, writes everything in one transaction, and then   *)
(* the checkpoint file.                                                    *)
(***************************************************************************)
\* lockAndValidateAuthoritativeStepAttempts
AttemptsMatch(m) ==
    \A s \in Known(m.steps) :
        LET mine == m.steps[s] IN
        /\ mine.attempt = rows[s].attempt
        /\ rows[s].status \in Final => mine.status = rows[s].status
        /\ rows[s].status = "retryable" => mine.status \in {"retryable", "failed"}

\* Mutant: an ended run may be written again.
LifecycleMatchesAny(m) == TRUE

\* validateAuthoritativeWorkflowLifecycle
LifecycleMatches(m) == run \in Ended => m.run = run

\* A step that is new in memory gets a new identifier: the unique key of
\* step_runs refuses it if another engine has inserted the step meanwhile.
NoDuplicate(g, m) ==
    \A s \in Known(m.steps) \ Known(mem[g].steps) : rows[s].status = "none"

CanSave(g, m) == LifecycleMatches(m) /\ AttemptsMatch(m) /\ NoDuplicate(g, m)

\* The save of the state m, after which the engine goes to `next'; a refused
\* save makes Engine.Run return.
Save(g, m, next) ==
    IF CanSave(g, m)
    THEN /\ run' = m.run
         /\ rows' = [s \in Steps |-> IF s \in Known(m.steps) THEN m.steps[s] ELSE rows[s]]
         /\ decision' =
              IF decision \in {"approved", "rejected"} THEN decision
              ELSE IF \E s \in Gated : m.steps[s].status = "awaiting_approval"
                   THEN "pending"
              ELSE IF \E s \in Gated : m.approval
                        /\ m.steps[s].status \notin {"none", "skipped"}
                   THEN "approved" ELSE decision
         /\ Goto(g, "file", [m EXCEPT !.next = next])
         /\ UNCHANGED ex
    ELSE /\ Return(g)
         /\ UNCHANGED db

\* FileStore.Save; a crash before it leaves the old file.
FileSave(g) ==
    /\ pc[g] = "file"
    /\ written' = TRUE
    /\ file' = Known(mem[g].steps)
    /\ IF mem[g].next = "idle" THEN Return(g)
       ELSE Goto(g, mem[g].next, mem[g]) /\ UNCHANGED ex
    /\ UNCHANGED <<db, holds, calls, starts, consent>>

\* The file system refuses the file, or the process dies, at any point.
Crash(g) ==
    /\ pc[g] # "idle"
    /\ Return(g)
    /\ UNCHANGED <<db, disk, holds, calls, starts, consent>>

Retained(steps) == {s \in Steps : steps[s].status = "succeeded"}

\* The first save of Engine.Run; then the retained steps are finished.
InitialSave(g) ==
    /\ pc[g] = "start"
    /\ Save(g, [mem[g] EXCEPT !.finished = Retained(mem[g].steps)], "loop")
    /\ UNCHANGED <<disk, holds, calls, starts, consent>>

(***************************************************************************)
(* Planning a wave.                                                        *)
(***************************************************************************)
\* Mutant: a dependency that has started is good enough.
DependenciesStarted(s, steps) ==
    \A d \in DependsOn[s] : steps[d].status \in {"running", "succeeded", "skipped"}

DependenciesSucceeded(s, steps) ==
    \A d \in DependsOn[s] : steps[d].status \in {"succeeded", "skipped"}

Ready(m) ==
    {s \in Steps \ (m.finished \cup m.blocked) : DependenciesSucceeded(s, m.steps)}

Condition(s) == s \in Conditional => s \in holds

Launches(m, s) == Condition(s) /\ (s \in Gated => m.approval)

\* The loop over the ready steps stops once the wave is full.
Considered(m) ==
    {s \in Ready(m) :
        Cardinality({t \in Ready(m) : Rank[t] < Rank[s] /\ Launches(m, t)}) < MaxParallel}

\* transitionStep: attempts already made are kept, and a retryable step stays
\* retryable while it runs again.
Transition(row, status) ==
    [status  |-> IF row.attempt > 0 /\ row.status = "retryable" /\ status = "running"
                 THEN "retryable" ELSE status,
     attempt |-> row.attempt]

PlanWave(g) ==
    LET m == mem[g]
        seen    == Considered(m)
        skipped == {s \in seen : ~Condition(s)}
        waiting == {s \in seen : Condition(s) /\ ~Launches(m, s)}
        wave    == {s \in seen : Launches(m, s)}
        steps == [s \in Steps |->
                    CASE s \in skipped -> Transition(m.steps[s], "skipped")
                      [] s \in waiting -> Transition(m.steps[s], "awaiting_approval")
                      [] s \in wave    -> Transition(m.steps[s], "running")
                      [] OTHER         -> m.steps[s]] IN
    /\ pc[g] \in {"loop", "after"} /\ m.ctl = "none" /\ ~m.failed
    /\ m.finished # Steps
    /\ seen # {}
    /\ Save(g, [m EXCEPT !.steps = steps, !.finished = @ \cup skipped,
                         !.blocked = @ \cup waiting, !.wave = wave],
            IF wave = {} THEN "loop" ELSE "wave")
    /\ UNCHANGED <<disk, holds, calls, starts, consent>>

(***************************************************************************)
(* executeWave: one goroutine per step of the wave.                        *)
(***************************************************************************)
SetExec(g, s, stage, attempt, outcome) ==
    ex' = [ex EXCEPT ![g][s] =
             [stage |-> stage, attempt |-> attempt, outcome |-> outcome]]

\* The context of the wave is done: whatever fails counts as cancelled.
Fails(g) == IF mem[g].ctl = "cancel" THEN "cancelled" ELSE "failed"

\* executeStep begins: it has an attempt left, or it has not, or the wait for
\* its budget is cancelled.
BeginStep(g, s) ==
    LET first == mem[g].steps[s].attempt + 1 IN
    /\ pc[g] = "wave" /\ s \in mem[g].wave /\ ex[g][s].stage = "off"
    /\ \/ first <= MaxTries[s] /\ SetExec(g, s, "ready", first, "none")
       \/ /\ first > MaxTries[s] \/ mem[g].ctl = "cancel"
          /\ SetExec(g, s, "ended", mem[g].steps[s].attempt, Fails(g))
    /\ UNCHANGED <<db, disk, holds, calls, pc, mem, starts, consent>>

\* Mutant: an attempt another engine has taken is taken again.
OwnsAttemptAgain(s, attempt) == attempt >= rows[s].attempt

\* PersistEffectiveStepInput allocates exactly the next attempt.
OwnsAttempt(s, attempt) == attempt = rows[s].attempt + 1

\* LoadEffectiveStepInput and PersistEffectiveStepInput, and the call of the
\* provider; a cancelled context stops the goroutine before either.
CallProvider(g, s) ==
    LET a == ex[g][s].attempt IN
    /\ ex[g][s].stage = "ready"
    /\ \/ /\ run = "running" /\ OwnsAttempt(s, a)
          /\ rows' = [rows EXCEPT ![s].attempt = a]
          /\ calls' = [calls EXCEPT ![s] = @ + 1]
          /\ SetExec(g, s, "called", a, "none")
       \/ /\ ~(run = "running" /\ OwnsAttempt(s, a)) \/ mem[g].ctl = "cancel"
          /\ SetExec(g, s, "ended", a,
                     IF run = "running" /\ mem[g].ctl # "cancel" THEN "lost" ELSE Fails(g))
          /\ UNCHANGED <<rows, calls>>
    /\ UNCHANGED <<run, decision, disk, holds, pc, mem, starts, consent>>

\* persistResultTransaction: the run is running, the step admits a result,
\* and no later attempt has begun.
AcceptsResult(s, attempt) ==
    /\ run = "running"
    /\ rows[s].status \in {"running", "retryable"}
    /\ attempt >= rows[s].attempt

\* The provider returns and its result is stored, or refused; a retryable
\* failure is tried again after a delay.
StoreResult(g, s) ==
    LET a == ex[g][s].attempt IN
    /\ ex[g][s].stage = "called"
    /\ \E r \in IF mem[g].ctl = "cancel" THEN {"succeeded", "cancelled"}
                ELSE {"succeeded", "failed", "retryable"} :
         LET ok == AcceptsResult(s, a) IN
         /\ rows' = IF ok THEN [rows EXCEPT ![s].status = r] ELSE rows
         /\ \/ /\ r = "retryable" /\ a < MaxTries[s]
               /\ SetExec(g, s, "ready", a + 1, "none")
            \/ /\ r # "retryable" \/ a = MaxTries[s]
               /\ SetExec(g, s, "ended", a,
                          IF r = "succeeded" /\ ok THEN "succeeded" ELSE Fails(g))
    /\ UNCHANGED <<run, decision, disk, holds, calls, pc, mem, starts, consent>>

\* The wait between two attempts is cancelled.
CancelWait(g, s) ==
    LET a == ex[g][s].attempt IN
    /\ ex[g][s].stage = "ready" /\ mem[g].ctl = "cancel"
    /\ a > mem[g].steps[s].attempt + 1
    /\ SetExec(g, s, "ended", a - 1, "cancelled")
    /\ UNCHANGED <<db, disk, holds, calls, pc, mem, starts, consent>>

\* Every goroutine is done; an engine that lost an attempt gives up.
EndWave(g) ==
    /\ pc[g] = "wave"
    /\ \A s \in mem[g].wave : ex[g][s].stage = "ended"
    /\ IF \E s \in mem[g].wave : ex[g][s].outcome = "lost"
       THEN Return(g)
       ELSE Goto(g, "commit", mem[g]) /\ UNCHANGED ex
    /\ UNCHANGED <<db, disk, holds, calls, starts, consent>>

\* The state after the outcome of the step of the wave that is first in rank.
First(m) == CHOOSE s \in m.wave : \A t \in m.wave : Rank[s] <= Rank[t]

\* Mutant: the attempts a retry made are not carried back.
CommittedFirst(o) == [status |-> o.outcome, attempt |-> 1]

Committed(o) == [status |-> o.outcome, attempt |-> o.attempt]

Outcome(g) ==
    LET m == mem[g]
        s == First(m)
        o == ex[g][s] IN
    [m EXCEPT !.steps[s] = Committed(o),
              !.finished = IF o.outcome = "succeeded" THEN @ \cup {s} ELSE @,
              !.failed = @ \/ o.outcome = "failed",
              !.wave = @ \ {s}]

CommitOutcome(g) ==
    /\ pc[g] = "commit"
    /\ Save(g, Outcome(g), IF Outcome(g).wave = {} THEN "after" ELSE "commit")
    /\ UNCHANGED <<disk, holds, calls, starts, consent>>

(***************************************************************************)
(* Leaving the loop.  Every exit saves the run and returns.                *)
(***************************************************************************)
Exit(g, status) ==
    /\ Save(g, [mem[g] EXCEPT !.run = status], "idle")
    /\ UNCHANGED <<disk, holds, calls, starts, consent>>

EngineCancel(g) ==
    /\ \/ pc[g] = "after"
       \/ pc[g] = "loop" /\ mem[g].finished # Steps
    /\ mem[g].ctl = "cancel"
    /\ Exit(g, "cancelled")

EngineFail(g) ==
    LET m == mem[g] IN
    /\ \/ pc[g] = "after" /\ m.failed /\ m.ctl # "cancel"
       \/ /\ pc[g] \in {"loop", "after"} /\ m.ctl = "none" /\ m.finished # Steps
          /\ Ready(m) = {} /\ m.blocked = {}
    /\ Exit(g, "failed")

\* Mutant: the loop goes on while an approval is outstanding.
AwaitsNothing(m) == FALSE

AwaitsApproval(m) == Ready(m) = {} /\ m.blocked # {}

EnginePause(g) ==
    LET m == mem[g] IN
    /\ pc[g] \in {"loop", "after"} /\ ~m.failed /\ m.finished # Steps
    /\ m.ctl = "pause" \/ (m.ctl = "none" /\ AwaitsApproval(m))
    /\ Exit(g, "paused")

EngineComplete(g) ==
    LET m == mem[g] IN
    /\ m.finished = Steps
    /\ pc[g] = "loop" \/ (pc[g] = "after" /\ m.ctl # "cancel" /\ ~m.failed)
    /\ Exit(g, "completed")

(***************************************************************************)
(* The operator: pause, cancel, approve, reject.                           *)
(***************************************************************************)
Control(g) ==
    /\ pc[g] \in {"loop", "wave", "commit", "after"}
    /\ \E c \in {"pause", "cancel"} :
         /\ mem[g].ctl \notin {c, "cancel"}
         /\ mem' = [mem EXCEPT ![g].ctl = c]
    /\ UNCHANGED <<db, disk, holds, calls, pc, ex, starts, consent>>

Approve ==
    /\ decision = "pending"
    /\ decision' = "approved"
    /\ consent' = TRUE
    /\ UNCHANGED <<run, rows, disk, holds, calls, pc, mem, ex, starts>>

Reject ==
    /\ decision = "pending" /\ run \in {"running", "paused"}
    /\ \E s \in Gated :
         /\ rows[s].status = "awaiting_approval"
         /\ rows' = [rows EXCEPT ![s].status = "failed"]
    /\ decision' = "rejected"
    /\ run' = "failed"
    /\ UNCHANGED <<disk, holds, calls, pc, mem, ex, starts, consent>>

EngineStep(g) ==
    \/ InitialSave(g) \/ FileSave(g) \/ PlanWave(g) \/ EndWave(g) \/ CommitOutcome(g)
    \/ EngineCancel(g) \/ EngineFail(g) \/ EnginePause(g) \/ EngineComplete(g)
    \/ \E s \in Steps : BeginStep(g, s) \/ CallProvider(g, s) \/ StoreResult(g, s)
                        \/ CancelWait(g, s)

Next ==
    \/ \E g \in Engines : \/ StartRun(g) \/ ResumeRun(g) \/ EngineStep(g)
                          \/ Crash(g) \/ Control(g)
    \/ Approve \/ Reject

Spec == Init /\ [][Next]_vars

\* An engine that runs keeps running: a provider call ends by its timeout.
FairSpec == Spec /\ \A g \in Engines : WF_vars(EngineStep(g))

(***************************************************************************)
(* Properties.                                                             *)
(***************************************************************************)
\* The attempts of a step are never more than its retry policy allows, and the
\* calls of its provider never more than the attempts.
CallsWithinTries ==
    \A s \in Steps : calls[s] <= rows[s].attempt /\ rows[s].attempt <= MaxTries[s]

\* Two engines that wait for the provider of the same step hold different
\* attempts: each call has an attempt of its own, which the row has counted.
AttemptsAreOwned ==
    \A s \in Steps, g, h \in Engines :
        ex[g][s].stage = "called" =>
            /\ ex[g][s].attempt <= rows[s].attempt
            /\ ex[h][s].stage = "called" /\ ex[h][s].attempt = ex[g][s].attempt => g = h

\* Every call of a provider has a durable attempt of its own, and there are
\* never more than the retry policy allows, over all crashes, resumes and
\* engines that run at once.
CallsAreBudgeted == CallsWithinTries /\ AttemptsAreOwned

\* No step is attempted before all its dependencies are done in the database.
DependenciesFirst ==
    \A s \in Steps : rows[s].attempt > 0 => DependenciesSucceeded(s, rows)

\* The gated step is called only after an operator has approved it, although
\* a save turns a pending request into an approval whenever an engine launches
\* the step.
GateNeedsApproval == \A s \in Gated : calls[s] > 0 => consent

\* A run reported completed has no step that did not succeed or was skipped.
CompletedMeansDone ==
    run = "completed" => \A s \in Steps : rows[s].status \in {"succeeded", "skipped"}

\* Every row is of its type, and neither the gate nor the end of the run is
\* passed without what it takes.
RunIsSound == TypeOK /\ GateNeedsApproval /\ CompletedMeansDone

\* A final step keeps its status, and an ended run its own: no late save or
\* result of another engine rewrites them.
HistoryIsFinal ==
    [][/\ \A s \in Steps : rows[s].status \in Final => rows'[s].status = rows[s].status
       /\ run \in Ended => run' = run]_vars

\* A lone engine that nobody cancelled can always commit the outcomes of its
\* wave: "their completion transitions are committed in stable topological
\* order".
CommitAccepted ==
    \A g \in Engines :
        (pc[g] = "commit" /\ run = "running" /\ mem[g].ctl # "cancel"
            /\ (\A h \in Engines \ {g} : pc[h] = "idle"))
                => CanSave(g, Outcome(g))

\* What CommitAccepted leaves true: a wave that is down to its last outcome,
\* with every retry it took, is never refused to a lone engine.
LastCommitAccepted ==
    \A g \in Engines :
        (pc[g] = "commit" /\ run = "running" /\ mem[g].ctl # "cancel"
            /\ (\A h \in Engines \ {g} : pc[h] = "idle")
            /\ mem[g].wave = {First(mem[g])})
                => CanSave(g, Outcome(g))

\* An engine that started returns.
EnginesReturn == \A g \in Engines : pc[g] # "idle" ~> pc[g] = "idle"
=============================================================================
