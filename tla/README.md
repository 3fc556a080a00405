# Verification of Reconductor

Reconductor plans reconnaissance workflows, runs their steps through external
providers, and keeps everything it does in PostgreSQL: schedules and their
executions, tasks, workflow runs, step runs, approvals, results.  Several
processes work on those rows at once (scheduler processes with a goroutine per
execution, operators with the `platform` command, the console), any of them may
die between two transactions, and an approval of a human is needed before some
steps may run, or before a run may reach further than the last one.  The TLA+
modules in this directory model that core from the source, TLC checks them on small
instances, and TLAPS proves almost all of their safety properties for any number of
schedules, executions, workers, engines, steps, jobs, callers, scopes, runs and cleanup
commands.

## The system's parts

| Part | State it keeps | Operations | Talks to | What is hard, what makes it correct |
|---|---|---|---|---|
| Scheduled executions (`database/scheduler.go`, `scheduler/service.go`) | `scheduled_executions`: status, attempt_count, lease owner and expiry | run-now, cron insert, claim, heartbeat, mark, resume | orchestration (call), recovery (called by every claim), operators (rows) | workers lose their lease and write late; one open execution per schedule, one valid fence per execution |
| Stale lineage recovery (`database/scheduler_recovery.go`) | none of its own | reconcile one expired execution with its task, run, steps, approvals | all rows of a lineage | a crash between any two transactions; the lineage is closed as a whole or continued as a whole |
| Lineage fences (`database/result_fence.go`) | none of its own | save fence, step attempt check, result fence | every save of an engine, every result | late saves and late results; history is final |
| Orchestration (`orchestration/service.go`) | none between calls | run, resume, checkpoint reconciliation, task controls | engine, store, checkpoint file | values read before the engine starts and used after it |
| Workflow engine (`workflow/workflow.go`) | `State`: run, steps; the checkpoint file | waves, attempts, retries, saves, pause, cancel, complete, fail | providers, store, file | parallel waves, retries after crashes; budgeted attempts, dependencies first |
| Approvals, task controls (`database/store.go`, `cmd/platform`) | `approvals`, `tasks.status` | approve, reject, pause, cancel, resume | engine (polls the task), scheduler rows | decisions that race pauses, resumes and recovery; no gated step without consent |
| Step execution and results (`execution/service.go`) | `tool_runs`, results | allocate an attempt, call the provider, store its result | engine, artifact store | a result that arrives after its attempt has been superseded |
| Schedule occurrences (`scheduler/cron.go`, `scheduler/service.go`, `database/scheduler.go`, console, `platform schedule`) | `schedules`: expression, enabled, next_run_at | list, due test, materialise, dispatch; create, update, enable, disable, run-now, resume | scheduled executions (inserts), operators (rows) | several scheduler processes on lists read earlier, missed occurrences after an outage, whole-row updates; each occurrence once, one for all that were missed, none forgotten |
| Scope versions (`database/store.go`, `orchestration/service.go`) | `scope_versions`, the scope columns of `programs` | check and record, acknowledge, repair a reference | every run and resume, operators | a base that is stale when the result is recorded; no run beyond what a person accepted |
| Targeting (`scope`, `targeting`, `targeting.prepare`) | none | evaluate, plan, admit discovery roots, filter | scope versions, providers | patterns that match less or more than they list, plans of one scope used under another |
| Budget limiter (`budget/limiter.go`, `policy/policy.go`) | slots in use per program, provider and host; the channel waiters sleep on | acquire, wait, cancel, release | engine waves, worker pool | lost wake-ups, double release, several limits at once; within the limits, nobody left waiting |
| Job stream (`queue`, `worker`) | a Redis stream with its pending deliveries, the retry schedule, dead letters | enqueue, read, take over, refresh, acknowledge, schedule a retry, pump, dead-letter, retry a dead letter | step rows | redelivery beside the first worker, two pumps on one retry, a crash between two commands; no job lost, none run twice |
| Artifact publication and cleanup (`artifact`, `database/artifact_cleanup.go`) | files; the `cleanup_*` columns of `artifacts` | publish, commit, claim, delete, finalize, retry, quarantine | result transaction | files and rows commit separately, power is lost between them, a command outlives its claim, some platforms cannot sync directories; rows are true of the disk, as durably as the platform allows |
| Artifact store identity (`artifact/store.go`) | marker file, registration row | initialise, register, open | every command that touches files | two halves of one identity |
| Change tracking (`compare.assets`, `classify.endpoint`, `report.changes`, `changes`, `database/store.go`) | `asset_observations`, stored step inputs, `endpoints`, `change_items`, `change_reviews` | probe, compare, crawl, classify, two briefs, review | workflow engine, history of the program | overlapping, failed and restarted runs with one past each; the inbox is the exact difference to a completed run |
| Findings (`findings/lifecycle.go`, `database/store.go`) | `candidate_findings`, `verification_results`, `verified_findings` | scan, verify, promote | change tracking | verifications recorded during a promotion; a finding has its evidence |
| Policy decisions, providers, parsing, normalisation, redaction | none | external processes, string functions | engine | not modelled |
| Console projections, read models, configuration, migrations, doctor | none | read-only projections, start-up | all | not modelled |

`PROJECT.json` lists them with their source files, and the hazards of the code at
the line where each of them bites.

## Modules

| Module | Models |
|---|---|
| `ScheduledExecutions` | the scheduler, its workers, recovery, approvals and task controls, with the workflow of an execution reduced to its ordinary steps and one approval-gated step |
| `ScheduleSlot` | the abstract specification: a schedule is a slot one execution occupies, and started work returns to the queue only through a pause |
| `ScheduledExecutionsProofs` | the theorems about `ScheduledExecutions` and their proofs |
| `WorkflowEngine` | `Engine.Run` on one run in detail: waves, attempts, retries, saves, checkpoint file, resume; several engines on the same run |
| `WorkflowEngineProofs` | the theorems about `WorkflowEngine` and their proofs |
| `ArtifactCleanup` | results publishing files and committing rows, and rival cleanup commands, on a disk that may lose what was not synced |
| `ArtifactCleanupProofs` | the theorems about `ArtifactCleanup` and their proofs |
| `JobStream` | the job stream, its workers, retry pumps and dead letters against the step rows |
| `JobLedger` | the abstract specification of the queue: one attempt, one call, one result per job |
| `JobStreamProofs` | the theorems about `JobStream` and their proofs |
| `BudgetLimiter` | the limiter between the steps of a wave, or the handlers of a worker |
| `BudgetLimiterProofs` | the theorems about `BudgetLimiter` and their proofs |
| `TargetPlanning` | scope evaluation, target plans, discovery roots and filters as operators |
| `ScopeVersions` | the scope versions of a program under requests, resumes, acknowledgements and repairs; extends `TargetPlanning` |
| `ScopeVersionsProofs` | the theorems about `ScopeVersions` and the operators of `TargetPlanning` |
| `ScheduleOccurrences` | schedules, the processes that materialise them and the operators that edit them |
| `ScheduleOccurrencesProofs` | the theorems about `ScheduleOccurrences` and their proofs |
| `AssetChanges` | what the runs of a program compare, report, scan and promote |
| `AssetChangesProofs` | the theorems about `AssetChanges` and their proofs |
| `MC...` | small instances of each for TLC |

How they compose: `ScheduleOccurrences` plans the executions whose life is
`ScheduledExecutions`, whose engine is `WorkflowEngine` in detail; `BudgetLimiter` is the
wait at the start of its `executeStep` (and of `JobStream`'s `handle`), `ScopeVersions` is what
comes before the engine in `Service.Run`, and `AssetChanges` is what the steps' results
contain.  Each abstracts the others to what they promise it: a slot per schedule,
a step that succeeds, fails or starts again, an attempt taken once.

### ScheduledExecutions

An execution is a row of `scheduled_executions` (`status`, `attempt`, `owner`,
`lease`) with the lineage it links to: the status of its task, its run (and
whether `completed_at` is set), its steps, and the decision on its approval.  A
worker is a goroutine of `Dispatch` at a place (`pc`) of `scheduler.execute` and
the functions it calls; `mem` is what it has read and not written yet, `claim`
the attempt number it fences its writes with.

One action is one database transaction, because the transaction is what other
actors can come between.  `Claim` includes the pass that skips overlapping pending
executions.  `InitialSave`, `PlanGate`, `StartWave`, `EndWave` and the four `Engine…` actions
are the saves of an engine; each of them has the results `SaveResults` lists: it
is committed, it is committed and the checkpoint file could not be written, it
fails, or the fence refuses it.  `SetTaskStatusFromWorkflow` and
`MarkScheduledExecution` are the two transactions after the engine returned.
`ReconcileStale` is recovery of one expired execution: `ClassifyStaleLineage`
chooses the plan in the order of the code, and the action writes all of it.
`Tick` is the clock of a lease, `Crash` loses a worker with its memory, and
`Shutdown` cancels its context.  A lease of a worker may run out while the worker
goes on; that is how late writes come about.

What the data is reduced to: the ordinary steps are one column (`work`), since
their order is the subject of `WorkflowEngine`; time is the number of ticks a lease
has left; conflicts recovery reports for missing or foreign rows need states the
other transactions cannot create, and are left out.  Any schedule may be due at
any time.

### WorkflowEngine

`rows` are the step runs (status, attempt count), `file` the steps in the
checkpoint.  Each engine has its `State` in `mem`, and one `executeStep` per step in
`ex`.  `PlanWave` is the part of the loop that picks ready steps, evaluates
conditions, asks for approval and saves the launched wave; `BeginStep`,
`CallProvider`, `StoreResult` and `CancelWait` are what the goroutines of
`executeWave` do; `CommitOutcome` saves one outcome, in rank order, as the loop
after the wave does.  `Save` is the commit and `FileSave` the checkpoint after it,
so that `Crash` can fall between them.  `ResumeRun` is everything
`Service.Run` does before the engine: the terminal check, checkpoint
reconciliation and the recorded approval.

Not in the model: the contents of inputs, outputs and results; validation and
materialisation of definitions (the `ASSUME` states what they guarantee);
durations.  Engine runs are started by operators here, without a lease; the lease
is the other module's subject.

### ArtifactCleanup

A file is what a process sees at the storage key (`file`) and the set of what a
power loss may leave there (`onDisk`).  Creating, writing and unlinking widen that
set; only `SyncContent`, `SyncPath` and `SyncRemoval`, the syncs of the file and of
its directory chain, narrow it.  `platformSyncDirectory` does nothing on Windows and reports
`directorySyncUnsupported`, which `syncDirectoryChain` takes for success (`durability.go:45`;
`docs/artifact-storage.md:64` says "where supported by the operating system").  The variable
`directorySync`, chosen in `Init` and never changed, says which kind of platform the store is on, so that
one run covers both; on the second kind `SyncPath` and `SyncRemoval` narrow nothing.  A result's writer goes through the steps of
`Local.Put` for each of its files and commits all rows in one transaction
(`CommitResult`) or none (`AbortResult`, which leaves the files).  A cleanup command
claims a batch (`ClaimExpiredArtifacts`), inspects, unlinks and syncs each file, and
settles its row under its claim token (`FinalizeArtifactCleanup`,
`RecordArtifactCleanupRetry`, `QuarantineArtifactCleanup`).  A token is modelled by
the command that drew it, since a command claims once.  `Elapse` ends a claim's
fifteen minutes or a retry's five; if the command is still working, that counts as
a fault, like a failing call, a killed command and a power loss.  `Replace` puts something else at a
storage key, or a link in place of a directory of its path, from outside; both are
`ErrUnexpectedEntryType` to the code (`local.go:196`).  A regular file in place of a directory, for which
Unix reports an error that is retried, is not modelled.

What is claimed depends on the platform.  `ContentIsKept`: the file of a committed
artifact is whole until it expires, and no power loss can leave it cut short; where directories are
synced, none can make it vanish either.  `SettledIsTrue`: a quarantine mark is true of the disk and a tombstone's file is
gone; where directories are synced, it stays gone after a power loss.  Where they are not, a file
may be missing after a power loss although its row is committed, and a deleted
one may be back under its tombstone: there the two properties say of what is visible only that it is
right until such a loss (`Stands`).

The rows are kept: `FinalizeArtifactCleanup` writes a tombstone.
`docs/data-model.md:15` speaks of deleted rows; the model follows the code.

### JobStream

Redis is modelled by its commands, and a pipeline takes effect as a whole (it is a
`MULTI`).  An entry of the stream is `new`, `pending` or gone; `idle` says that nobody has
touched a pending one for the lease timeout.  A worker is at a place of
`Service.handle`: `CheckDuplicate`, `AllocateAttempt`, `CallProvider`, `StoreResult`, then `Ack` or
`Fail`.  `ClaimStale` brings several deliveries at once, of which only the one in hand
is refreshed.  A pump reads due retries and moves each in a pipeline of its own
(`PumpRead`, `PumpMove`); an operator's retry of a dead letter is two commands
(`Revive`, `DeleteLetter`).  A job keeps the step attempt it was made for through all of
it, and the step row takes an attempt once.  Faults are crashes, lost
connections to Redis or the database (after which a write may or may not have been
made), and missed refreshes.

`JobLedger` is what all this amounts to for a job: `Claim`, `Call` or `Cancel`, `Record`,
`Announce`, each once.

Not in the model: the events stream, which nothing reads, and what jobs contain.  A job that
cannot be decoded, or whose scope does not compile, is dead-lettered at once by the code; neither comes
from `Dispatcher.Dispatch`, which compiles the same scope before it enqueues (`queue/dispatcher.go:25`) and
encodes the job itself, so both would need an entry written past it, and are left out.

### BudgetLimiter

What `Acquire` and `release` do under the mutex is one action.  The channel `changed` is the
set `sleeping` of callers that wait on its current value; closing it empties the set,
and a woken caller takes the lock again (`Wake`, then `Acquire` or `Block`).  An input is
a set of candidates, each with the key it stands under, its place and its form, so
that `HostsFromInput` is what the walk over the JSON finds: lists of objects are not
entered, and free text names no host.  A provider is never empty (the engine and the
worker fall back to the capability's name).  An IPv6 address spelled out in a URL
and the same address compressed are two hosts to the code; the model has one
spelling of each.

### TargetPlanning and ScopeVersions

A pattern is kept by what the code tells apart: alternatives that can be listed, with or
without anchors (Go's leftmost-first match makes `http|https` miss `https`), the host
forms `exactHost`, `narrowWildcardBase` and `optionalWildcardBase` recognise, and the
rest.  `Evaluate`, `Plan`, `AllowsDiscoveryRoot`, `authorizeHost` and
`executeTargetingPrepare` are the functions of that name.

A scope version is identified by its plan digest, hence by the scope and the manual
roots.  `Submit` is the part of `Service.Run` up to the plan, `SelectBase` the query of
`CheckAndRecordScopeSnapshot`, `Unchanged` and `Record` the rest of its transaction; they
are two steps because a `SELECT ... FOR UPDATE` that has waited keeps the row it found.
A blocked request may be submitted again with an acknowledgement, or the version may be
acknowledged from the console.  A resumed run keeps the version it was started with and
gets the scope of now.  `scopeUpdateCommand` and `RepairProgramScopeReference` are the two
halves of `platform scope update`.  The newest row has the newest `created_at`: clocks of
different hosts are not modelled.

### ScheduleOccurrences

A scheduler process lists the schedules, reads the clock, walks over the list (`LockDue` and
`MaterializeDueSchedule` are the transaction, `Pass` everything that skips a schedule),
claims what is pending, one execution per transaction up to `MaxConcurrentRuns`
(`ClaimPendingScheduledExecution`, `EndClaims`), and waits for what it claimed; an execution may
settle while others are still being claimed.  The clock counts cron minutes; `CronNext` is
the cron library, external, and may return the zero time when an expression has no
occurrence.  Operators' updates are three steps, because the row is read, validated
against the clock, and written back whole.  An execution is the state of its schedule's
slot.

### AssetChanges

A run goes through the steps of `webReconDefinition` that carry results.  The past is
read by `LoadEffectiveStepInput` and stored by `PersistEffectiveStepInput`; a restarted step uses
what is stored.  A record of a URL is its status and technology, enough for the
fingerprint, the routes and the classifier's history to differ; the status may be `Unknown`, since
the parser accepts a record without one: to the comparison it is a different record, but the classifier
compares known statuses only, and `BriefsAgree` speaks of those.  A URL stands for its endpoint: the
code keys endpoints by a digest of origin, route, method, content type and parameters, under which several URLs
may fall together, and they are one URL here; an endpoint's own signals are a constant weight.  The completion time of a classification is taken
before its transaction (`ClassifyEndpoint`, `persistEndpoints`), so they commit out of
order.  A probe has one record per target.

## Runs

Every bound is a constant: `MaxAttempts` (claims of an execution), `MaxStarts`
(engine starts), `MaxFaults`, `MaxRevivals` (dead letters an operator retries), `MaxEntries`
(stream entries: six hold a job, its retry moved by both pumps, a dead letter of each,
and a revival; longer chains of duplicates are cut, and `JobSettles` holds in spite of the
cut, since a job has settled by then), `MaxCalls` (calls of the limiter), `MaxEdits`, `MaxVersions`,
`MaxRuns` (edits of scope files, versions, requests), `Horizon` and `MaxEvents` (clock, commands and
crashes), `MaxReviews`, `MaxVerifications`, `MaxStamps` (classifications).  When a bound is used up nothing may be left to do,
so the runs do not check for deadlock.

| Run | Instance | Shows |
|---|---|---|
| `ScheduledExecutions` | one execution, two workers on one host, two claims, leases of one tick | a worker that lost its lease meets the worker that claimed after it. The fence holds (`FencesExclusive`), the gate is not passed without an approval, `completed` means done, a rejection closes everything for good, whatever is paused can be decided, whatever is queued can be restarted, recovery leaves nothing open, history is final |
| `ScheduleOverlap` | two executions of one schedule, one worker, one claim each | `OneOpenPerSchedule`, and the refinement of `ScheduleSlot`. The view drops the lineage of closed executions no worker holds, which no action reads |
| `ScheduledExecutionsLive` | one execution, one worker, two claims, with fairness | every claim ends and every planned execution is claimed |
| `WorkflowEngine` | three steps (two, then a gated and conditional one), two retries, one engine at a time, three starts, waves of up to two, with fairness | the gate, completion, that a lone engine can commit the last outcome of a wave, and that an engine returns |
| `WorkflowRivals` | two steps in a row, two engines at once, three starts | provider calls stay within the retry budget across crashes and rivals and no two in flight share an attempt, dependencies come first, history is final |
| `ArtifactCleanup` | two results with two and one files, two of the three files expiring, two commands, three faults, platforms with and without a sync of directories, with fairness | committed content is whole until it expires and, where directories are synced, survives a power loss; tombstones and quarantine marks are true (durably so where directories are synced) and final, what has expired is settled in the end |
| `JobStream` | one job, one retry, two workers, two pumps, one fault, one revival, with fairness | no job is lost, an acknowledged job has its result stored, a job succeeds or becomes a dead letter; and the refinement of `JobLedger`, by which an attempt is claimed once, a provider called once, and no result written over |
| `BudgetLimiter` | three callers, two programs, two hosts, three calls, three policies (budgets unset; a rate below the concurrency; two calls of a provider and one per host), with fairness | counters exact under double releases and cancels, limits kept for every form in which an input names a host, no caller asleep beside a free slot, a wave's shares within the policy, everyone served |
| `ScopeVersions` | two requests, two references, four contents, one edit, three versions, two requests in all, one manual root | no run contacts what nobody accepted, resumed ones included; the programs row is in force; references name the file the scope was loaded from; a root that may be queried leads to hosts that may be contacted |
| `ScheduleOccurrences` | two schedules, two processes, one operator, an expression due every minute, one never and one invalid, clock of three, two events, up to two executions claimed per tick, with fairness | an occurrence is planned once, one execution stands for all that were missed, what is due is planned and what is pending is dispatched unless a row blocks the walk (below) |
| `AssetChanges` | two runs, a URL, a crawled page, three contents (one of them without a status), one review, two verifications, three classifications | the inbox replays the difference to a completed run, what completed runs saw has been announced, asset and endpoint items agree, endpoint times are right in any commit order, promoted findings have their evidence, items are immutable |

Invariants that say one thing of different rows are checked together, under the name of what
they say: `ClosedAgrees` (`CompletedMeansDone`, `RejectionIsTotal`, `InterruptedIsClosed`),
`WaitingIsUsable` (`PausedIsDecidable`, `PendingIsRestartable`), `ExecutionsProgress` (`ClaimsEnd`,
`PendingIsClaimed`), `CallsAreBudgeted` (`CallsWithinTries`, `AttemptsAreOwned`), `RunIsSound` (`TypeOK`, `GateNeedsApproval`, `CompletedMeansDone` of the engine),
`JobsAreKept` (`TypeOK`, `AckMeansStored`, `NoJobLost`), `AccountsAgree` (`TypeOK`, `CountersExact`),
`VersionsAgree` (`TypeOK`, `ProgramIsInForce`), `OccurrencesAgree` (`TypeOK`, `OccurrenceOnce`),
`NothingIsForgotten` (`DueIsPlanned`, `PendingIsDispatched`), `RowsAgree` (`TypeOK`, `EndpointSpan`,
`PromotedOnEvidence`).

Two claims are enough for the late writer and the new owner to meet, and two
workers on one host are the worst case for the fence, because they write the same
owner.  One tick is enough because a lease only distinguishes valid from expired,
and a heartbeat renews it.  Two executions of one schedule are enough for overlap,
since the property is about pairs; the theorems remove the bounds altogether.
Three starts let an engine crash, a second one resume it, and a rival run beside.
Three faults let a command lose its claim, a rival die and the power fail.  In the
job stream duplicates come from the two pumps and from batches without any fault,
and the fault adds a crash or a lost lease on top.  Three callers let one hold, one
wait and one be cancelled.  Three versions are one in force, one narrowed and one
expanded; two requests let one record what the other has compared with, or resume
the other's run.  Three minutes let one process hold a list from before another's
materialisation, and an edit come between.  Two runs overlap in every way a
baseline can be taken; three runs (without operators, 1,733,273 states) and three
requests (without manual roots, 2.36 million states) were checked once with the same
result.

Fairness.  A worker takes its next step (goroutines run, and every transaction and
provider call has a timeout); the dispatch loop polls for ever, so stale rows are
reconciled and pending rows claimed; and a lease that no worker renews expires.
Stream workers and pumps loop until they are stopped; a delivery nobody touches ages.
The cleanup command handles one batch and exits, and the operator keeps running it
(`docs/artifact-storage.md`); its claims time out.  Callers of the limiter are scheduled and a
provider call ends, since it has a timeout; a release wakes everyone.  The limiter has no
queue, so what `EveryoneServed` shows is that nobody waits once no more calls arrive: a
stream of later callers may go first for as long as it lasts.  Scheduler processes poll for ever, executions end or
pause, and recovery takes up what a dead process had claimed.  Nothing else is assumed of operators, nor of
heartbeats, crashes, or of the lease of a row a worker still holds.

## Where the code and its documents disagree

`WorkflowParallel` is a run that TLC refutes: `docs/workflows.md` says that the outcomes of a
wave are committed in topological order, but the first save of a wave of two is refused,
since the sibling still has the attempt count from before the wave.  The theorem
`SiblingsRefuseCommits` says exactly when: if some other step of the wave whose outcome is still to be
committed has made an attempt.

Met while modelling, and without a run of their own:

* A rejection closes step, run, task and execution "immediately" (`README.md:82`).  If the
  checkpoint file could not be written when the run paused at the gate, the execution
  is `paused_operator` with its approval pending, and the rejection is rolled back
  (`database/scheduler.go:517`).
* A cancel "is observed by an active local workflow runner" (`docs/workflows.md:19`).  A resume
  that read a paused task writes `running` over a cancel made in between
  (`orchestration/service.go:205`), and it is never observed.
* "Ambiguous or unavailable checkpoints pause the scheduled occurrence"
  (`docs/scheduler.md:29`).  A crash between the commit and the file write leaves a file
  with fewer steps than the database, which is a conflict and fails it
  (`orchestration/service.go:294`).
* Temporary failures move through the retry schedule before they are dead letters
  (`README.md:410`).  A job keeps its step attempt, which its first execution has taken,
  so the first retry is dead-lettered with retries left (`database/store.go:1710`).
* `MaterializeDueSchedule` (`database/scheduler.go:183`) inserts with `ON CONFLICT DO NOTHING` and then
  writes an audit event that refers to the new execution.  If the occurrence has one
  already, that violates the event's foreign key, all is rolled back, `next_run_at` stays,
  and `Tick` returns without dispatching, at every poll, for this schedule and those after
  it, until it is edited.  It takes an update validated before an occurrence and written
  after it was planned, or an expression without occurrences (`0 0 30 2 *`), for which
  `NextRun` returns the zero time.  `docs/scheduler.md:19` says that the schedule
  "advances to the first valid occurrence after the current time".  `DueIsPlanned` and
  `PendingIsDispatched` exclude exactly this case (`Stuck`).
* An update written from an earlier read undoes an enable or disable made in between;
  a stale list makes `next_run_at` an occurrence of the expression that was replaced;
  and a schedule that is enabled again runs one occurrence from while it was disabled.
* A version that was narrowed away and returns is blocked as an expansion, but its row
  is acknowledged already, so neither the console nor the list of pending expansions shows
  it (`docs/scheduler.md:23`); only `--acknowledge-scope-expansion` lets it run.
* The baseline is the run completed last, not the one that observed last: with overlapping
  runs a change and its reversal may both go unreported by the later one.  The
  baseline workflow compares with continuous runs of the same program, and reports hosts
  it never probed as removed (`docs/workflows.md:37`: "a failed or incomplete scan never marks
  an asset removed").  Endpoints only a crawl or an archive found are not in the history
  and are reported as new by every run.
* Comparison and classification read the past in separate transactions and may use different
  runs; `BriefsAgree` speaks of the briefs where they used the same.
* `Engine.fail` (`workflow/workflow.go:750`) writes no `completed_at`, which recovery counts as a
  conflict (`scheduler_recovery.go:447`): the execution of a worker that died
  after its run failed becomes `interrupted`, where scenario G of the recovery test,
  which sets the column itself, expects `failed`.
* A step cancelled before its attempt was allocated, or while its row is retryable, is
  saved with an attempt count or status the authoritative check refuses
  (`workflow/workflow.go:698`), so the cancelled state `docs/workflows.md:19` speaks of is not stored.
* `CheckAndRecordScopeSnapshot` compares with the approved scope version created
  last, and a plan that returns keeps its old `created_at` (`database/store.go:164`), so
  narrowing to an earlier plan does not make it the base of the next comparison,
  and the expansion back is not asked about (`docs/policies.md:26`).

## Proofs

`ScheduledExecutionsProofs` proves, from `ConstantsAssumption` alone (the
functions are total on their sets, `NoOwner` and `NoExec` are outside them, the
two bounds are positive):

* `TypeCorrect`: `Spec => []TypeOK`.  `TypeOK` is not inductive: a worker indexes the tables
  by its job, so `TypeInv` adds that a busy worker has one (`BusyHasJob`).  There
  is one lemma per group of transactions, and lemmas for what the helpers
  (`Goto`, `Release`, `EngineReturns`, `Outcome`, `ClassifyStaleLineage`) return.
* `FencesAreExclusive`: `Spec => []FencesExclusive`.  The lease check compares the
  owner and the attempt number.  Owners are shared by the workers of a host, so the
  proof rests on `ClaimsDistinct`: two workers on one execution have different
  claim numbers, none ahead of `attempt_count`.  Only `Claim` writes them
  (`FenceStep`).
* `OneOpenExecution`: `Spec => []OneOpenPerSchedule`.  `StatusStep` shows that every step
  of the system moves a status along `StatusMove`, in which only the two inserts open an
  execution, and they look first.
* `HistoryStaysFinal`: `Spec => HistoryIsFinal`, from `StatusStep` and the same kind of
  footprint for runs (`RunStep`).
* `SchedulerImplementsSlot`: `Spec => ImplementsSlot`.  The mapping sends a status to its
  phase; a step of the system is a step of `ScheduleSlot` or a stutter.
  `ClaimMovesOne` uses `OneOpenPerSchedule`: a claim that skipped another
  execution would move two at once.
* `GateIsApproved`: `Spec => []GateNeedsApproval`.  The gated step starts from what the
  worker remembers, not from the table, so the invariant is strengthened with
  `ConsentIsRecorded`: consent in a worker's memory stands for a recorded approval, and no
  step withdraws one (`ApprovalStep`).
* `ClosedLineageAgrees`: `Spec => []ClosedAgrees`, and `WaitingCanBeTakenUp`: `Spec => []WaitingIsUsable`.
  Both follow from `LineageInv`: the invariants above, `RowFits` for every execution (how status, task, run, steps and
  approval of a row go together) and `RemembersRow` for every worker.  A worker
  decides from memory how its execution ends, so what it remembers must be true of the row: of task and
  run always, since no step takes them away (`Grows`); of a step that awaits approval only
  while its fence is valid, since after that recovery or an operator may have moved
  the row.  Then its late writes are refused, and that is all that is needed.  There is one lemma per action
  (`...Lineage`).

`WorkflowEngineProofs` proves, from `DefinitionAssumption` (what the validation of a
definition guarantees: ranks order the dependencies, one gated step, at least one try), for any
definition and any number of engines on one run:

* `RunsAreSound`: `Spec => []RunIsSound`; `CallsKeepTheBudget`: `Spec => []CallsAreBudgeted`;
  `AttemptsFollowDependencies`: `Spec => []DependenciesFirst`; `FinalStaysFinal`: `Spec => HistoryIsFinal`.

Their invariant `IInv` (`EngineInvariant`) has to hold while a rival writes the same rows.  So it says what
an engine may believe (`MemoryFits`: a step it retained is done, an approval stands for
consent), what a goroutine may do (`ExecFits`: an attempt within the policy, consent for the gate), and
that the dependencies of whatever is in its wave are done in the database, where no
step undoes them.  The second half of `CallsAreBudgeted`, that calls in flight have attempts of their own, is inductive once the
first is known: a step enters a call only by taking the row's next attempt (`CallsTakeAttempts`).

Two more theorems are about a run whose engines do not run beside each other (`Lone`; crashes and
resumes included):

* `SiblingsRefuseCommits`: `Spec => [](Lone => CommitsUnlessSiblingsTried)`.  While the run goes on and is not
  cancelled, the save of an outcome is accepted if and only if no other step of the wave that is still to be
  committed has made an attempt.
* `LastOutcomeIsAccepted`: `Spec => [](Lone => LastCommitAccepted)`, which follows: the last outcome of a wave
  has no such sibling.

They need the engine's memory, its goroutines and the rows to be related: in `LoneInv` the rows are what the engine remembers, but
for the steps of its wave, and those are where their goroutines left them (`Tracks`): as launched until an
attempt is made, ahead of the engine's memory after it.  With a rival in the system both are
false, since the rival may have moved the rows before it stopped.

`JobStreamProofs` proves, from `JobStreamAssumption` (the bounds are numbers,
`None` is neither an ID nor a payload), for any number of jobs, workers, pumps and faults:

* `JobsAreCalledOnce`: `Spec => []CalledOnce`, and `NoJobIsLost`: `Spec => []JobsAreKept`.
* `QueueImplementsLedger`: `Spec => ImplementsLedger`.  The mapping reads a job's phase from the step row and the
  calls made.  Five actions write what the ledger sees, and each is one of its steps, or none
  when a database error left the row as it was: `AllocateIsClaim`, `CallIsCall`, `ShutdownIsCancel`,
  `StoreIsRecord`, `AckIsAnnounce`.

The attempt in the step row is the fence: `OneOwner` says that one worker at most has taken it and not yet stored
a result, `WorkerFits` what each worker knows of its job at each place of `handle`, and `CallsFit` that a provider call needs
the attempt.  `NoneLost` is stronger than the property: a dead letter that the
operator's command has revived and is about to delete does not count.

`BudgetLimiterProofs` proves, from `BudgetAssumption` (finitely many callers, inputs and policies have their
type), for any callers, programs, providers, hosts, inputs and policies:

* `CountersAreExact`: `Spec => []AccountsAgree`; `LimitsAreKept`: `Spec => []WithinLimits`;
  `NoWakeupIsLost`: `Spec => []NoLostWakeup`; `SharesFitBudget`: `Spec => []WaveWithinBudget`.

The counters are shown to be the cardinalities of the sets of holders, and to stay
below their limits (`CountersBounded`); `WithinLimits` speaks of the hosts that an input names and follows with
`HostsAreNamed`, that `HostsFromInput` finds every one of them.  The shares need that a wave
is no wider than the policy's parallelism (`WaveFits`).

`ScopeVersionsProofs` proves, from `PlanningAssumption`, `ScopeAssumption` (patterns are parsed and scopes compiled, a scope has an
inclusion) and `NoneIsNoRow`, for any rules, hosts, scope files, references and requests:

* `VersionsAlwaysAgree`: `Spec => []VersionsAgree`; `ReferencesAreTrue`: `Spec => []ReferencesLocate`;
  `RunsStayAuthorized`: `Spec => []RunsAreAuthorized`; `RootsStayUseful`: `Spec => []RootsAreUseful`.

The invariant `ScopeInv` says that whatever is in force narrows a scope a person has
accepted (`ForceIsAccepted`), that the base a request compares with is in force and stays so after the request
has let go of the row (`RequestsStand`), and the same of running engines and of the repair command.  That a narrower
scope allows less (`NarrowerAllowsLess`) carries this from patterns to the targets a run
contacts.  `RootsStayUseful` is about the operators of `TargetPlanning`: an exclusion that leaves a root
standing leaves a host right below it (`ExclusionCovers`, `BasisLeadsToHosts`).  It alone needs `HostsAssumption`, that every
domain a rule names has a name below it that no rule names: DNS names are unlimited and rules are
few.

`ScheduleOccurrencesProofs` proves, from `OccurrencesAssumption` (a cron library returns a later time or the zero
time) and `NoneIsNoRow`, for any schedules, processes and operators:

* `PlannedOnce`: `Spec => []OccurrencesAgree`, and `CatchesUpOnce`: `Spec => []OneCatchUp`.

The invariant adds what was validated before it is used (`TodoIsValid`, `WriteIsValid`), that only a process
in `Dispatch` holds claims (`ClaimsAreAwaited`), and that a locked
row is still due at the time its process has read (`LockedIsDue`), because the row was read again under
the lock.

`AssetChangesProofs` proves, from `ChangesAssumption` (URLs and pages are apart, `Absent` and `None` are no
values), for any number of runs that overlap, fail and restart:

* `RowsAlwaysAgree`: `Spec => []RowsAgree`; `CompletedRunsAreAnnounced`: `Spec => []SeenIsAnnounced`;
  `BriefsReplayTheInbox`: `Spec => []InboxReplays`; `RulesAgreeOnChanges`: `Spec => []BriefsAgree`;
  `ItemsStay`: `Spec => ItemsAreImmutable`.

The invariant says that a past that was read or stored is nothing or what a completed run saw (`RunFits`, `Pasts`), that
inputs are stored by the time a brief is made, and that the inbox holds of each run exactly what its stored inputs imply
(`InboxFits`), which makes a brief that is generated twice harmless.

`ArtifactCleanupProofs` proves, from `CleanupAssumption` alone (an artifact has one
place in one result, batches are not empty), for any number of results, files,
commands and faults:

* `CleanupTypeCorrect`: `Spec => []TypeOK`, with the shape of a row: a claim token exactly while
  it is claimed.
* `CommittedContentIsKept`: `Spec => []ContentIsKept`, and `TombstonesAreTrue`: `Spec => []SettledIsTrue`, on
  both kinds of platform, with the durable half of each under `directorySync = "performed"`.
* `SettledStaysFinal`: `Spec => SettledIsFinal`.

They share one inductive invariant, `IInv`.  The properties speak of rows, and are
inductive only together with what the processes know: how far each writer has made its
files durable (`WriterInv`, needed when the rows are committed), that a row
belongs to a result that has committed (`RowOwner`, so that no writer touches a file with a
row), what a command knows of its current file at each step while
rivals delete the same file (`CleanerInv`, needed when it settles the row), and that an entry from
outside is durable (`OtherInv`).  What a sync leaves open where it is unsupported is in
`Unsynced` (a finished path may still be absent) and `IsGone` (an unlinked file may come back).  There is one lemma per action.

Only model-checked:

* Liveness (`ExecutionsProgress`, `EnginesReturn`, `ExpiredIsSettled`, `JobSettles`, `EveryoneServed`,
  `NothingIsForgotten`), which is out of the prover's reach, as `ENABLED` is.
* What cron, parsers and other libraries compute: they are constants of the modules.

## Not modelled

* Artifact store identity (`artifact/store.go`): the marker file and the registration row.
* `domain/large_result_foundation.go`: validation of records that no code writes yet.
* Policy decisions (`policy.EvaluateAt`): a pure function of one request, covered by its tests.
* External tools, the parsing of their output, normalisation, redaction, canonical JSON:
  string functions without state.
* Read models, the console's projections, configuration, migrations, doctor: they change
  nothing the modules speak of.
* `assets/changes.go`, `findings.Transition`, and callers of `RecordVerification` and
  `PromoteVerifiedFinding`: only tests call them; the two store operations are modelled.

## Plan

The modules above are done, and all of their safety properties are proved; `LastCommitAccepted` under the
hypothesis that engines do not run beside each other, without which it is false.  What is left is the identity
of an artifact store, and liveness, which stays with TLC.

## Running

    tlc -config ScheduledExecutions.cfg MCScheduledExecutions
    tlapm ScheduledExecutionsProofs.tla

`PROJECT.json` names the module and the configuration of every run; each of the eight `...Proofs` modules is
checked like the one above.
