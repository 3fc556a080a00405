----------------------------- MODULE JobStream -----------------------------
(***************************************************************************)
(* Capability jobs on the Redis job stream and the workers that consume    *)
(* them: delivery through a consumer group, takeover of idle deliveries,   *)
(* the retry schedule and its pumps, the dead-letter stream and the        *)
(* operator's retry of a dead letter, each against the step row in the     *)
(* database that a job is to execute.                                      *)
(*                                                                         *)
(* A job carries the step attempt it was made for (Action.StepAttempt, 1)  *)
(* and keeps it through every redelivery and retry.                        *)
(*                                                                         *)
(* Redis is modelled by its commands: each pipeline is a MULTI and takes   *)
(* effect as a whole.  Entries of the job stream and of the dead-letter    *)
(* stream draw their identity from one counter.                            *)
(***************************************************************************)
EXTENDS Integers, FiniteSets

CONSTANTS
  Jobs,        \* one job per step to execute
  Workers,     \* the consuming goroutines of all worker processes
  Pumps,       \* the retry pumps, one per worker process
  MaxRetries,  \* Worker.MaxRetries
  MaxEntries,  \* bound: entries ever added to the two streams
  MaxFaults,   \* bound: crashes, lost connections, missed lease refreshes
  MaxRevivals, \* bound: dead letters the operator retries
  None         \* no entry

ASSUME JobStreamAssumption ==
  /\ MaxRetries \in Nat
  /\ MaxEntries \in Nat
  /\ MaxFaults \in Nat
  /\ MaxRevivals \in Nat
  /\ None \notin Nat \cup [job : Jobs, attempt : Nat]

VARIABLES
  step,      \* status of the job's step row
  allocated, \* the row's attempt_count: the attempt some worker has taken
  calls,     \* provider calls made for the job
  last,      \* the newest entry ID
  payload,   \* the job stream: what was added under each ID
  state,     \* what became of it
  idle,      \* it is pending and nobody has touched it for LeaseTimeout
  retry,     \* the retry schedule: a set of [job, attempt]
  dead,      \* the dead-letter stream: a set of [id, job, attempt, cause]
  results,   \* jobs with an entry in the results stream
  pc,        \* where each worker is
  batch,     \* the deliveries it has yet to handle
  hand,      \* the delivery it is handling
  outcome,   \* what came of it
  pumping,   \* retries a pump has read and not moved yet
  revived,   \* the dead letter the operator's command has enqueued again
  revivals,
  faults

database == <<step, allocated, calls>>
entries == <<last, payload, state, idle>>
redis == <<entries, retry, dead, results>>
worker == <<pc, batch, hand, outcome>>
operator == <<revived, revivals>>
vars == <<database, redis, worker, pumping, operator, faults>>

Entries == 1..MaxEntries
StepStatus == {"running", "retryable", "succeeded", "failed", "cancelled"}
Payload == [job : Jobs, attempt : 0..MaxRetries]
Retry == [job : Jobs, attempt : 1..MaxRetries]
Letter == [id : Entries, job : Jobs, attempt : 1..(MaxRetries + 1),
           cause : {"ownership", "permanent", "temporary", "persistence"}]
Outcomes == {"none", "ok", "temporary", "permanent", "ownership", "persistence"}

\* Types; a worker has a delivery in hand, and keeps its lease refreshed,
\* exactly while it is inside handle.
TypeOK ==
  /\ step \in [Jobs -> StepStatus]
  /\ allocated \in [Jobs -> 0..1]
  /\ calls \in [Jobs -> Nat]
  /\ last \in 0..MaxEntries
  /\ payload \in [Entries -> Payload \cup {None}]
  /\ state \in [Entries -> {"unused", "new", "pending", "gone"}]
  /\ idle \in [Entries -> BOOLEAN]
  /\ retry \subseteq Retry
  /\ dead \subseteq Letter
  /\ results \subseteq Jobs
  /\ pc \in [Workers -> {"idle", "next", "check", "alloc", "call", "store", "ack", "fail"}]
  /\ batch \in [Workers -> SUBSET Entries]
  /\ hand \in [Workers -> Entries \cup {None}]
  /\ outcome \in [Workers -> Outcomes]
  /\ pumping \in [Pumps -> SUBSET Retry]
  /\ revived \in Entries \cup {None}
  /\ revivals \in 0..MaxRevivals
  /\ faults \in 0..MaxFaults
  /\ \A w \in Workers : hand[w] = None <=> pc[w] \in {"idle", "next"}

Init ==
  /\ step = [j \in Jobs |-> "running"]
  /\ allocated = [j \in Jobs |-> 0]
  /\ calls = [j \in Jobs |-> 0]
  /\ last = 0
  /\ payload = [m \in Entries |-> None]
  /\ state = [m \in Entries |-> "unused"]
  /\ idle = [m \in Entries |-> FALSE]
  /\ retry = {}
  /\ dead = {}
  /\ results = {}
  /\ pc = [w \in Workers |-> "idle"]
  /\ batch = [w \in Workers |-> {}]
  /\ hand = [w \in Workers |-> None]
  /\ outcome = [w \in Workers |-> "none"]
  /\ pumping = [p \in Pumps |-> {}]
  /\ revived = None
  /\ revivals = 0
  /\ faults = 0

-----------------------------------------------------------------------------
(* The job stream.                                                         *)

\* XADD of a job.
Add(j, n) ==
  /\ last < MaxEntries
  /\ last' = last + 1
  /\ payload' = [payload EXCEPT ![last + 1] = [job |-> j, attempt |-> n]]
  /\ state' = [state EXCEPT ![last + 1] = "new"]
  /\ UNCHANGED idle

\* XACK and XDEL of a delivery; both do nothing if a rival came first.
Drop(m) ==
  /\ state' = [state EXCEPT ![m] = "gone"]
  /\ idle' = [idle EXCEPT ![m] = FALSE]

\* Dispatcher.Dispatch, once for each job.
Enqueue(j) ==
  /\ \A m \in Entries : payload[m] # None => payload[m].job # j
  /\ Add(j, 0)
  /\ UNCHANGED <<database, retry, dead, results, worker, pumping, operator, faults>>

\* XREADGROUP delivers the oldest entry that no consumer has seen.
Read(w) ==
  /\ pc[w] = "idle"
  /\ \E m \in Entries :
       /\ state[m] = "new"
       /\ \A k \in Entries : state[k] = "new" => m <= k
       /\ state' = [state EXCEPT ![m] = "pending"]
       /\ batch' = [batch EXCEPT ![w] = {m}]
  /\ pc' = [pc EXCEPT ![w] = "next"]
  /\ UNCHANGED <<database, last, payload, idle, retry, dead, results, hand, outcome, pumping,
                 operator, faults>>

\* Mutant: the worker looks for stale deliveries only when there is news.
ClaimStaleAfterRead(w) ==
  /\ pc[w] = "idle"
  /\ \E k \in Entries : state[k] = "new"
  /\ \E stale \in SUBSET {m \in Entries : state[m] = "pending" /\ idle[m]} :
       /\ stale # {}
       /\ idle' = [m \in Entries |-> idle[m] /\ m \notin stale]
       /\ batch' = [batch EXCEPT ![w] = stale]
  /\ pc' = [pc EXCEPT ![w] = "next"]
  /\ UNCHANGED <<database, last, payload, state, retry, dead, results, hand, outcome, pumping,
                 operator, faults>>

\* XAUTOCLAIM takes over what has been idle for LeaseTimeout, several
\* deliveries at once.
ClaimStale(w) ==
  /\ pc[w] = "idle"
  /\ \E stale \in SUBSET {m \in Entries : state[m] = "pending" /\ idle[m]} :
       /\ stale # {}
       /\ idle' = [m \in Entries |-> idle[m] /\ m \notin stale]
       /\ batch' = [batch EXCEPT ![w] = stale]
  /\ pc' = [pc EXCEPT ![w] = "next"]
  /\ UNCHANGED <<database, last, payload, state, retry, dead, results, hand, outcome, pumping,
                 operator, faults>>

\* A live worker touches the delivery it is handling, and that one only.
Touched(m) == \E w \in Workers : hand[w] = m

\* LeaseTimeout passes over a pending delivery.  For a delivery in a
\* worker's hand it takes failing refreshes, one of the faults.
Age(m) ==
  /\ state[m] = "pending"
  /\ ~idle[m]
  /\ idle' = [idle EXCEPT ![m] = TRUE]
  /\ IF Touched(m) THEN faults < MaxFaults /\ faults' = faults + 1 ELSE UNCHANGED faults
  /\ UNCHANGED <<database, last, payload, state, retry, dead, results, worker, pumping, operator>>

-----------------------------------------------------------------------------
(* Service.handle.                                                         *)

Job(w) == payload[hand[w]].job

Goto(w, label, out) ==
  /\ pc' = [pc EXCEPT ![w] = label]
  /\ outcome' = [outcome EXCEPT ![w] = out]
  /\ UNCHANGED <<batch, hand>>

\* The worker turns to the next delivery of its batch.
Take(w) ==
  /\ pc[w] = "next"
  /\ \E m \in batch[w] :
       /\ hand' = [hand EXCEPT ![w] = m]
       /\ batch' = [batch EXCEPT ![w] = @ \ {m}]
  /\ pc' = [pc EXCEPT ![w] = "check"]
  /\ outcome' = [outcome EXCEPT ![w] = "none"]
  /\ UNCHANGED <<database, redis, pumping, operator, faults>>

\* handle returns; consume goes on with the batch or reads again.
Return(w) ==
  /\ hand' = [hand EXCEPT ![w] = None]
  /\ pc' = [pc EXCEPT ![w] = IF batch[w] = {} THEN "idle" ELSE "next"]
  /\ outcome' = [outcome EXCEPT ![w] = "none"]
  /\ UNCHANGED batch

\* AlreadySucceeded: a duplicate of a finished job is acknowledged.  The scope
\* compiles: Dispatch enqueues no job whose scope does not.
CheckDuplicate(w) ==
  /\ pc[w] = "check"
  /\ IF step[Job(w)] = "succeeded" THEN Goto(w, "ack", "ok") ELSE Goto(w, "alloc", "none")
  /\ UNCHANGED <<database, redis, pumping, operator, faults>>

\* Mutant: a redelivery may take the attempt it already has.
OwnsAttemptAgain(j) == allocated[j] <= 1

\* The attempt of the job, 1, is the next one of the row.
OwnsAttempt(j) == allocated[j] = 0

\* PersistEffectiveStepInput takes the attempt; without it the error is not
\* a retryable one.  Nor is an error of the database, after which the
\* attempt may have been taken or not.
AllocateAttempt(w) ==
  /\ pc[w] = "alloc"
  /\ \/ /\ OwnsAttempt(Job(w))
        /\ allocated' = [allocated EXCEPT ![Job(w)] = 1]
        /\ Goto(w, "call", "none")
        /\ UNCHANGED faults
     \/ /\ ~OwnsAttempt(Job(w))
        /\ Goto(w, "fail", "ownership")
        /\ UNCHANGED <<allocated, faults>>
     \/ /\ faults < MaxFaults
        /\ faults' = faults + 1
        /\ allocated' \in {allocated, [allocated EXCEPT ![Job(w)] = 1]}
        /\ Goto(w, "fail", "persistence")
  /\ UNCHANGED <<step, calls, redis, pumping, operator>>

\* The provider runs and succeeds or fails, for now or for good.
CallProvider(w) ==
  /\ pc[w] = "call"
  /\ calls' = [calls EXCEPT ![Job(w)] = @ + 1]
  /\ \E out \in {"ok", "temporary", "permanent"} : Goto(w, "store", out)
  /\ UNCHANGED <<step, allocated, redis, pumping, operator, faults>>

StatusOf(out) ==
  CASE out = "ok" -> "succeeded"
    [] out = "temporary" -> "retryable"
    [] OTHER -> "failed"

\* What handle does when the result could not be persisted.
AfterStoreFailure(out) == "fail"

\* PersistResultWithArtifactPublication, whose fence admits a result while
\* the row is running or retryable.  After an error of the database the
\* result may have been stored or not, and a result that carries no
\* retryable error makes the failure a permanent one.
StoreResult(w) ==
  /\ pc[w] = "store"
  /\ LET stored == [step EXCEPT ![Job(w)] = StatusOf(outcome[w])] IN
     \/ /\ step[Job(w)] \in {"running", "retryable"}
        /\ step' = stored
        /\ Goto(w, IF outcome[w] = "ok" THEN "ack" ELSE "fail", outcome[w])
        /\ UNCHANGED faults
     \/ /\ faults < MaxFaults
        /\ faults' = faults + 1
        /\ step' \in {step, stored}
        /\ Goto(w, AfterStoreFailure(outcome[w]),
                IF outcome[w] = "ok" THEN "persistence" ELSE outcome[w])
  /\ UNCHANGED <<allocated, calls, redis, pumping, operator>>

Ack(w) ==
  /\ pc[w] = "ack"
  /\ results' = results \cup {Job(w)}
  /\ Drop(hand[w])
  /\ Return(w)
  /\ UNCHANGED <<database, last, payload, retry, dead, pumping, operator, faults>>

\* A retryable failure whose next attempt is within the bound.
RetriesLeft(w) == outcome[w] = "temporary" /\ payload[hand[w]].attempt + 1 <= MaxRetries

\* Streams.Fail: the job moves to the retry schedule or to the dead-letter
\* stream in the pipeline that drops its delivery.
Fail(w) ==
  /\ pc[w] = "fail"
  /\ LET j == Job(w)
         n == payload[hand[w]].attempt + 1
     IN \/ /\ RetriesLeft(w)
           /\ retry' = retry \cup {[job |-> j, attempt |-> n]}
           /\ UNCHANGED <<last, dead>>
        \/ /\ ~RetriesLeft(w)
           /\ last < MaxEntries
           /\ last' = last + 1
           /\ dead' = dead \cup {[id |-> last + 1, job |-> j, attempt |-> n, cause |-> outcome[w]]}
           /\ UNCHANGED retry
  /\ Drop(hand[w])
  /\ Return(w)
  /\ UNCHANGED <<database, payload, results, pumping, operator, faults>>

\* The database or Redis does not answer, or the budget is not granted:
\* handle returns and leaves the delivery pending.
HandleFails(w) ==
  /\ pc[w] \in {"check", "alloc", "ack", "fail"}
  /\ faults < MaxFaults
  /\ faults' = faults + 1
  /\ Return(w)
  /\ UNCHANGED <<database, redis, pumping, operator>>

\* The worker is gone with its batch; a new one takes its place.
Restart(w) ==
  /\ faults < MaxFaults
  /\ faults' = faults + 1
  /\ pc' = [pc EXCEPT ![w] = "idle"]
  /\ batch' = [batch EXCEPT ![w] = {}]
  /\ hand' = [hand EXCEPT ![w] = None]
  /\ outcome' = [outcome EXCEPT ![w] = "none"]
  /\ UNCHANGED <<redis, pumping, operator>>

\* SIGTERM cancels the provider call.  The cancelled result is persisted
\* under a context of its own; the Fail after it runs under the cancelled
\* one and does nothing.
Shutdown(w) ==
  /\ pc[w] = "call"
  /\ step[Job(w)] \in {"running", "retryable"}
  /\ step' = [step EXCEPT ![Job(w)] = "cancelled"]
  /\ calls' = [calls EXCEPT ![Job(w)] = @ + 1]
  /\ UNCHANGED allocated
  /\ Restart(w)

\* The process ends in the middle of anything.
Crash(w) ==
  /\ pc[w] # "idle"
  /\ Restart(w)
  /\ UNCHANGED database

-----------------------------------------------------------------------------
(* The retry pumps and the operator.                                       *)

\* ZRANGEBYSCORE: the retries whose delay is over.
PumpRead(p) ==
  /\ pumping[p] = {}
  /\ \E due \in SUBSET retry :
       /\ due # {}
       /\ pumping' = [pumping EXCEPT ![p] = due]
  /\ UNCHANGED <<database, redis, worker, operator, faults>>

\* One pipeline per retry: XADD and ZREM, whether or not a rival pump has
\* moved the same retry since it was read.
PumpMove(p) ==
  /\ \E r \in pumping[p] :
       /\ Add(r.job, r.attempt)
       /\ retry' = retry \ {r}
       /\ pumping' = [pumping EXCEPT ![p] = @ \ {r}]
  /\ UNCHANGED <<database, dead, results, worker, operator, faults>>

\* Mutant: the dead letter is deleted before the job is enqueued again.
ReviveAfterDelete ==
  /\ revived = None
  /\ revivals < MaxRevivals
  /\ \E d \in dead :
       /\ dead' = dead \ {d}
       /\ revived' = d.id
  /\ revivals' = revivals + 1
  /\ UNCHANGED <<database, entries, retry, results, worker, pumping, faults>>

\* RetryDeadLetter enqueues the job with a fresh retry count ...
Revive ==
  /\ revived = None
  /\ revivals < MaxRevivals
  /\ \E d \in dead :
       /\ Add(d.job, 0)
       /\ revived' = d.id
  /\ revivals' = revivals + 1
  /\ UNCHANGED <<database, retry, dead, results, worker, pumping, faults>>

\* ... and then deletes the dead letter, unless the command died.
DeleteLetter ==
  /\ revived # None
  /\ \/ dead' = {d \in dead : d.id # revived}
     \/ UNCHANGED dead
  /\ revived' = None
  /\ UNCHANGED <<database, entries, retry, results, worker, pumping, revivals, faults>>

WorkerStep(w) ==
  \/ Read(w)
  \/ ClaimStale(w)
  \/ Take(w)
  \/ CheckDuplicate(w)
  \/ AllocateAttempt(w)
  \/ CallProvider(w)
  \/ StoreResult(w)
  \/ Ack(w)
  \/ Fail(w)

PumpStep(p) == PumpRead(p) \/ PumpMove(p)

Next ==
  \/ \E j \in Jobs : Enqueue(j)
  \/ \E m \in Entries : Age(m)
  \/ \E w \in Workers : WorkerStep(w) \/ HandleFails(w) \/ Shutdown(w) \/ Crash(w)
  \/ \E p \in Pumps : PumpStep(p)
  \/ Revive
  \/ DeleteLetter

Spec == Init /\ [][Next]_vars

\* Workers and pumps run for as long as they have something to do, and
\* time passes over what nobody touches.
Fairness ==
  /\ \A w \in Workers : WF_vars(WorkerStep(w))
  /\ \A p \in Pumps : WF_vars(PumpStep(p))
  /\ \A m \in Entries : WF_vars(Age(m) /\ ~Touched(m))

LiveSpec == Spec /\ Fairness

-----------------------------------------------------------------------------
(* Properties.                                                             *)

Dispatched(j) == \E m \in Entries : payload[m] # None /\ payload[m].job = j

InStream(j) ==
  \E m \in Entries : state[m] \in {"new", "pending"} /\ payload[m].job = j

IsDead(j) == \E d \in dead : d.job = j

\* No job is lost: until its step has succeeded it is an entry of the
\* stream, a scheduled retry or a dead letter, through crashes between any
\* two commands, rival pumps, takeovers and retried dead letters.
NoJobLost ==
  \A j \in Jobs : Dispatched(j) =>
    \/ step[j] = "succeeded"
    \/ InStream(j)
    \/ \E r \in retry : r.job = j
    \/ IsDead(j)

\* However often a job is delivered, its provider runs at most once: the
\* attempt in the step row is taken once.
CalledOnce == \A j \in Jobs : calls[j] <= 1

\* A worker acknowledges only after the result is persisted.
AckMeansStored == \A j \in results : step[j] = "succeeded"

\* Redis and the step rows agree on every job.
JobsAreKept == TypeOK /\ AckMeansStored /\ NoJobLost

\* Where a job is in the ledger, as the step row and the calls made tell.
PhaseOf(j) ==
  CASE step[j] # "running" -> step[j]
    [] step[j] = "running" /\ calls[j] > 0 -> "called"
    [] step[j] = "running" /\ calls[j] = 0 -> IF allocated[j] = 0 THEN "waiting" ELSE "claimed"

Ledger == INSTANCE JobLedger WITH phase <- [j \in Jobs |-> PhaseOf(j)]

\* The queue implements the ledger of JobLedger: however often a job is
\* delivered, taken over, retried or revived, the row, the provider calls and
\* the results stream move only along its steps, so no late worker claims an
\* attempt again, repeats a call or writes over a result.
ImplementsLedger == Ledger!LedgerSpec

\* Every dispatched job succeeds or becomes a dead letter.
JobSettles ==
  \A j \in Jobs : Dispatched(j) ~> step[j] = "succeeded" \/ IsDead(j)
=============================================================================
