------------------------ MODULE ScheduleOccurrences ------------------------
(***************************************************************************)
(* When schedules are due.  Scheduler processes list the schedules, read   *)
(* the clock and walk over what they have read; every due schedule gets    *)
(* one execution and its next_run_at in a transaction of its own, and      *)
(* after the walk the process claims pending executions one by one and     *)
(* waits for them.  Operators create, edit, enable, disable and run        *)
(* schedules at the same time; an edit writes back the row it has read.    *)
(*                                                                         *)
(* The life of an execution is the subject of ScheduledExecutions; here a  *)
(* schedule has a slot that is free or holds one that is pending, active   *)
(* or paused.  All processes read one clock, in units of a cron minute.    *)
(***************************************************************************)
EXTENDS Naturals, Sequences, FiniteSets

CONSTANTS
  Schedules,
  Order,        \* the schedules as ListSchedules returns them
  Schedulers,   \* scheduler processes
  Operators,
  Expressions,  \* cron expressions with their time zone, invalid ones too
  CronNext,     \* for the valid ones, the next activation after a time
  MaxConcurrentRuns,
  Horizon,      \* bound: the clock stops here
  MaxEvents,    \* bound: operator commands and crashes
  None

Zero == 0  \* the zero time, before every clock reading

\* The cron library promises a later time, or the zero time if there is none.
ASSUME OccurrencesAssumption ==
  /\ Order \in Seq(Schedules) /\ Schedules = {Order[i] : i \in DOMAIN Order}
  /\ \A i, j \in DOMAIN Order : Order[i] = Order[j] => i = j
  /\ DOMAIN CronNext \subseteq Expressions
  /\ CronNext \in [DOMAIN CronNext -> [0..Horizon -> Nat]]
  /\ \A e \in DOMAIN CronNext, t \in 0..Horizon : CronNext[e][t] > t \/ CronNext[e][t] = Zero
  /\ MaxConcurrentRuns \in Nat \ {0}
  /\ Horizon \in Nat \ {0} /\ MaxEvents \in Nat
  /\ None \notin Schedules \cup Schedulers

-----------------------------------------------------------------------------
(* Cron.                                                                   *)

ValidateCron(e) == e \in DOMAIN CronNext

\* The search starts at the given time itself.
MutNextRun(e, after) == CronNext[e][after - 1]

NextRun(e, after) == CronNext[e][after]

-----------------------------------------------------------------------------
VARIABLES
  clock,
  rows,      \* the schedules rows
  plans,     \* how many executions each occurrence of a schedule has
  last,      \* history: when an occurrence was planned last, since the last edit
  slot,      \* the open execution of each schedule
  lock,      \* the process in whose transaction a schedules row is locked
  proc,      \* the scheduler processes
  oper,      \* the operators' commands under way
  events     \* operator commands and crashes so far

vars == <<clock, rows, plans, last, slot, lock, proc, oper, events>>

Row == [cron : Expressions, enabled : BOOLEAN, next : Nat]
Slot == {"free", "pending", "active", "paused"}
Proc == [pc : {"idle", "listed", "walk", "locked", "claim", "wait"},
         list : [Schedules -> Row \cup {None}],         \* what was listed,
         todo : [Schedules -> Expressions \cup {None}], \* what of it was due,
         now : Nat, cursor : Nat,
         claims : Nat,                                  \* how many were claimed,
         mine : SUBSET Schedules]                       \* and which still run
Oper == [pc : {"idle", "read", "create", "update"}, id : Schedules \cup {None},
         row : Row \cup {None}]

\* None stands for SQL's no row.
ASSUME NoneIsNoRow == None \notin Row

NoRows == [s \in Schedules |-> None]
NoProc == [pc |-> "idle", list |-> NoRows, todo |-> NoRows, now |-> 1, cursor |-> 1,
           claims |-> 0, mine |-> {}]
NoOper == [pc |-> "idle", id |-> None, row |-> None]

\* Types; a stored expression is valid, a clock reading is past, a locked row
\* is the one its holder's cursor is at, and has been listed.
TypeOK ==
  /\ clock \in 1..Horizon
  /\ rows \in [Schedules -> Row \cup {None}]
  /\ plans \in [Schedules -> [0..Horizon -> Nat]]
  /\ last \in [Schedules -> 0..Horizon]
  /\ slot \in [Schedules -> Slot]
  /\ lock \in [Schedules -> Schedulers \cup {None}]
  /\ proc \in [Schedulers -> Proc]
  /\ oper \in [Operators -> Oper]
  /\ events \in Nat
  /\ \A s \in Schedules : rows[s] # None => ValidateCron(rows[s].cron)
  /\ \A p \in Schedulers :
       /\ proc[p].now \in 1..clock
       /\ proc[p].pc = "locked" =>
            /\ proc[p].cursor \in DOMAIN Order
            /\ lock[Order[proc[p].cursor]] = p
            /\ rows[Order[proc[p].cursor]] # None
            /\ proc[p].todo[Order[proc[p].cursor]] # None
  /\ \A o \in Operators :
       oper[o].pc # "idle" => oper[o].id # None /\ oper[o].row # None

Created(e, now) == [cron |-> e, enabled |-> TRUE, next |-> NextRun(e, now)]

Init ==
  /\ clock = 1
  /\ rows = NoRows
  /\ plans = [s \in Schedules |-> [t \in 0..Horizon |-> 0]]
  /\ last = [s \in Schedules |-> 0]
  /\ slot = [s \in Schedules |-> "free"]
  /\ lock = [s \in Schedules |-> None]
  /\ proc = [p \in Schedulers |-> NoProc]
  /\ oper = [o \in Operators |-> NoOper]
  /\ events = 0

Event == events < MaxEvents /\ events' = events + 1

Elapse ==
  /\ clock < Horizon
  /\ clock' = clock + 1
  /\ UNCHANGED <<rows, plans, last, slot, lock, proc, oper, events>>

-----------------------------------------------------------------------------
(* Service.Tick: Materialize ...                                           *)

ListSchedules(p) ==
  /\ proc[p].pc = "idle"
  /\ proc' = [proc EXCEPT ![p] = [NoProc EXCEPT !.pc = "listed", !.list = rows]]
  /\ UNCHANGED <<clock, rows, plans, last, slot, lock, oper, events>>

DueOccurrence(row, now) == ValidateCron(row.cron) /\ row.next <= now

\* With the time it reads, the process decides which schedules are due.
ReadClock(p) ==
  LET due(row) == row # None /\ row.enabled /\ DueOccurrence(row, clock) IN
  /\ proc[p].pc = "listed"
  /\ proc' = [proc EXCEPT ![p] = [NoProc EXCEPT
       !.pc = "walk", !.now = clock,
       !.todo = [s \in Schedules |->
                   IF due(proc[p].list[s]) THEN proc[p].list[s].cron ELSE None]]]
  /\ UNCHANGED <<clock, rows, plans, last, slot, lock, oper, events>>

Current(p) == Order[proc[p].cursor]
Wanted(p) == proc[p].todo[Current(p)] # None

\* SELECT ... FOR UPDATE SKIP LOCKED returns the row.
Found(p) ==
  LET row == rows[Current(p)]
  IN row # None /\ row.enabled /\ row.next <= proc[p].now /\ lock[Current(p)] = None

Walking(p) == proc[p].pc = "walk" /\ proc[p].cursor \in DOMAIN Order

\* The loop does not come back to a schedule.
Advance(x) == [x EXCEPT !.pc = "walk", !.todo[Order[x.cursor]] = None, !.cursor = @ + 1]

\* The walk ends at the first schedule that is not due.
MutPass(p) ==
  /\ Walking(p)
  /\ ~ (Wanted(p) /\ Found(p))
  /\ proc' = [proc EXCEPT ![p].cursor = Len(Order) + 1]
  /\ UNCHANGED <<clock, rows, plans, last, slot, lock, oper, events>>

Pass(p) ==
  /\ Walking(p)
  /\ ~ (Wanted(p) /\ Found(p))
  /\ proc' = [proc EXCEPT ![p] = Advance(@)]
  /\ UNCHANGED <<clock, rows, plans, last, slot, lock, oper, events>>

LockDue(p) ==
  /\ Walking(p)
  /\ Wanted(p) /\ Found(p)
  /\ lock' = [lock EXCEPT ![Current(p)] = p]
  /\ proc' = [proc EXCEPT ![p].pc = "locked"]
  /\ UNCHANGED <<clock, rows, plans, last, slot, oper, events>>

Planned(s, t) == plans[s][t] > 0

\* One execution for the time the row holds, pending or, beside an open one,
\* skipped; and the next occurrence after the clock reading, of the expression
\* that was listed.
Plan(p) ==
  LET s == Current(p) IN
  /\ plans' = [plans EXCEPT ![s][rows[s].next] = @ + 1]
  /\ last' = [last EXCEPT ![s] = proc[p].now]
  /\ slot' = [slot EXCEPT ![s] = IF @ = "free" THEN "pending" ELSE @]
  /\ rows' = [rows EXCEPT ![s].next = NextRun(proc[p].todo[s], proc[p].now)]
  /\ proc' = [proc EXCEPT ![p] = Advance(@)]

\* The index is not unique.
MutMaterialize(p) ==
  /\ proc[p].pc = "locked"
  /\ lock' = [lock EXCEPT ![Current(p)] = None]
  /\ Plan(p)
  /\ UNCHANGED <<clock, oper, events>>

\* If the occurrence has its execution already, the INSERT does nothing, and
\* the audit event, which refers to the execution, violates its foreign key:
\* all is rolled back and Tick returns the error without dispatching.
MaterializeDueSchedule(p) ==
  LET s == Current(p) IN
  /\ proc[p].pc = "locked"
  /\ lock' = [lock EXCEPT ![s] = None]
  /\ IF Planned(s, rows[s].next)
     THEN proc' = [proc EXCEPT ![p] = NoProc] /\ UNCHANGED <<rows, plans, last, slot>>
     ELSE Plan(p)
  /\ UNCHANGED <<clock, oper, events>>

-----------------------------------------------------------------------------
(* ... and Dispatch, which waits for what it has claimed.                  *)

Pending == {s \in Schedules : slot[s] = "pending"}

Dispatching(p) ==
  \/ proc[p].pc = "walk" /\ proc[p].cursor \notin DOMAIN Order
  \/ proc[p].pc = "claim"

\* The loop of Dispatch: one execution per transaction, each run by a
\* goroutine from then on, up to the limit.
ClaimPendingScheduledExecution(p) ==
  /\ Dispatching(p)
  /\ \E s \in Pending :
       /\ slot' = [slot EXCEPT ![s] = "active"]
       /\ LET n == proc[p].claims + 1 IN
          proc' = [proc EXCEPT ![p] = [NoProc EXCEPT
            !.pc = IF n < MaxConcurrentRuns THEN "claim" ELSE "wait",
            !.claims = n, !.mine = proc[p].mine \cup {s}]]
  /\ UNCHANGED <<clock, rows, plans, last, lock, oper, events>>

\* Nothing is left to claim.
EndClaims(p) ==
  /\ Dispatching(p) /\ Pending = {}
  /\ proc' = [proc EXCEPT ![p] =
       IF proc[p].mine = {} THEN NoProc ELSE [proc[p] EXCEPT !.pc = "wait"]]
  /\ UNCHANGED <<clock, rows, plans, last, slot, lock, oper, events>>

\* An execution pauses or ends, while others are still being claimed or
\* after that, and Tick returns after the last.
Settle(p, s, to) ==
  /\ s \in proc[p].mine
  /\ to \in {"free", "paused"}
  /\ slot' = [slot EXCEPT ![s] = to]
  /\ proc' = [proc EXCEPT ![p] =
       IF proc[p].pc = "wait" /\ proc[p].mine = {s} THEN NoProc
       ELSE [proc[p] EXCEPT !.mine = @ \ {s}]]
  /\ UNCHANGED <<clock, rows, plans, last, lock, oper, events>>

\* The process dies, or a statement of Tick fails; its transaction is rolled
\* back, its executions stay active until they end or their leases expire.
Crash(p) ==
  /\ proc[p].pc # "idle"
  /\ Event
  /\ lock' = [s \in Schedules |-> IF lock[s] = p THEN None ELSE lock[s]]
  /\ proc' = [proc EXCEPT ![p] = NoProc]
  /\ UNCHANGED <<clock, rows, plans, last, slot, oper>>

\* Recovery closes, pauses or queues again what a dead process had claimed,
\* or a goroutine that Tick did not wait for ends it.
Reconcile(s, to) ==
  /\ slot[s] = "active" /\ \A p \in Schedulers : s \notin proc[p].mine
  /\ to \in {"free", "paused", "pending"}
  /\ slot' = [slot EXCEPT ![s] = to]
  /\ UNCHANGED <<clock, rows, plans, last, lock, proc, oper, events>>

-----------------------------------------------------------------------------
(* Operators, with the platform command or the console.                    *)

\* Validated against the clock, to be inserted later.
CreateBegin(o, s, e) ==
  /\ oper[o].pc = "idle" /\ Event
  /\ ValidateCron(e)
  /\ oper' = [oper EXCEPT ![o] = [pc |-> "create", id |-> s,
       row |-> Created(e, clock)]]
  /\ UNCHANGED <<clock, rows, plans, last, slot, lock, proc>>

\* A program has one schedule of a name.
CreateSchedule(o) ==
  LET s == oper[o].id IN
  /\ oper[o].pc = "create"
  /\ IF rows[s] = None
     THEN /\ rows' = [rows EXCEPT ![s] = oper[o].row]
          /\ last' = [last EXCEPT ![s] = 0]
     ELSE UNCHANGED <<rows, last>>
  /\ oper' = [oper EXCEPT ![o] = NoOper]
  /\ UNCHANGED <<clock, plans, slot, lock, proc, events>>

GetSchedule(o, s) ==
  /\ oper[o].pc = "idle" /\ Event
  /\ rows[s] # None
  /\ oper' = [oper EXCEPT ![o] = [pc |-> "read", id |-> s, row |-> rows[s]]]
  /\ UNCHANGED <<clock, rows, plans, last, slot, lock, proc>>

\* The patched row is validated, which computes its next run from the clock;
\* a row whose expression, scope or workflow does not pass is not written.
Validate(o, e, enabled) ==
  /\ oper[o].pc = "read"
  /\ oper' = [oper EXCEPT ![o] =
       IF ValidateCron(e)
       THEN [@ EXCEPT !.pc = "update",
               !.row = [cron |-> e, enabled |-> enabled, next |-> NextRun(e, clock)]]
       ELSE NoOper]
  /\ UNCHANGED <<clock, rows, plans, last, slot, lock, proc, events>>

\* The whole row, whatever it holds by now.
UpdateSchedule(o) ==
  LET s == oper[o].id IN
  /\ oper[o].pc = "update"
  /\ lock[s] = None
  /\ rows' = [rows EXCEPT ![s] = oper[o].row]
  /\ last' = [last EXCEPT ![s] = 0]
  /\ oper' = [oper EXCEPT ![o] = NoOper]
  /\ UNCHANGED <<clock, plans, slot, lock, proc, events>>

Ask(s) == lock[s] = None /\ rows[s] # None /\ Event

SetScheduleEnabled(s, enabled) ==
  /\ Ask(s)
  /\ rows' = [rows EXCEPT ![s].enabled = enabled]
  /\ UNCHANGED <<clock, plans, last, slot, lock, proc, oper>>

EnqueueRunNow(s) ==
  /\ Ask(s)
  /\ slot[s] = "free"
  /\ slot' = [slot EXCEPT ![s] = "pending"]
  /\ UNCHANGED <<clock, rows, plans, last, lock, proc, oper>>

\* A paused execution is resumed, or closed by a rejection or a cancel.
DecidePaused(s, to) ==
  /\ Event
  /\ slot[s] = "paused" /\ to \in {"pending", "free"}
  /\ slot' = [slot EXCEPT ![s] = to]
  /\ UNCHANGED <<clock, rows, plans, last, lock, proc, oper>>

SchedulerStep(p) ==
  \/ ListSchedules(p) \/ ReadClock(p) \/ Pass(p) \/ LockDue(p) \/ MaterializeDueSchedule(p)
  \/ ClaimPendingScheduledExecution(p) \/ EndClaims(p)
  \/ \E s \in Schedules, to \in Slot : Settle(p, s, to)

Next ==
  \/ Elapse
  \/ \E p \in Schedulers : SchedulerStep(p) \/ Crash(p)
  \/ \E s \in Schedules, to \in Slot : Reconcile(s, to) \/ DecidePaused(s, to)
  \/ \E o \in Operators :
       \/ \E s \in Schedules : GetSchedule(o, s) \/ \E e \in Expressions : CreateBegin(o, s, e)
       \/ \E e \in Expressions, enabled \in BOOLEAN : Validate(o, e, enabled)
       \/ CreateSchedule(o) \/ UpdateSchedule(o)
  \/ \E s \in Schedules : EnqueueRunNow(s) \/ \E b \in BOOLEAN : SetScheduleEnabled(s, b)

Spec == Init /\ [][Next]_vars

\* Scheduler processes poll for ever, executions end or pause, and leases of
\* dead processes expire.  Nothing is assumed of operators or of the clock.
Fairness ==
  /\ \A p \in Schedulers : WF_vars(SchedulerStep(p))
  /\ \A s \in Schedules : WF_vars(\E to \in Slot : Reconcile(s, to))

LiveSpec == Spec /\ Fairness

-----------------------------------------------------------------------------
(* Properties.                                                             *)

\* An occurrence is planned once, whichever processes find it due and however
\* often an edit puts next_run_at back on it.
OccurrenceOnce == \A s \in Schedules, t \in 0..Horizon : plans[s][t] <= 1

\* Locks, lists and rows are consistent, and no occurrence is planned twice.
OccurrencesAgree == TypeOK /\ OccurrenceOnce

\* However many occurrences were missed, one execution stands for all of them:
\* once it is planned, next_run_at lies after that moment, whatever other
\* processes had read, until an edit.  An expression without occurrences is
\* the exception: it yields the zero time, and an execution for that.
OneCatchUp ==
  \A s \in Schedules : last[s] > 0 /\ ~ Planned(s, Zero) => rows[s].next > last[s] \/ rows[s].next = Zero

\* A schedule in front of which, or at which, every walk fails.
Due(s) == rows[s] # None /\ rows[s].enabled /\ rows[s].next <= clock
Stuck(s) == Due(s) /\ Planned(s, rows[s].next)
StuckBefore(s) == \E i, j \in DOMAIN Order : i <= j /\ Order[j] = s /\ Stuck(Order[i])

\* No schedule stays due, if none up to it in the list is stuck.
DueIsPlanned == \A s \in Schedules : []<>(~ Due(s) \/ StuckBefore(s))

\* No execution stays pending, if no schedule at all is stuck.
PendingIsDispatched ==
  \A s \in Schedules : []<>(slot[s] # "pending" \/ \E t \in Schedules : Stuck(t))

\* Nothing that is due or pending is forgotten.
NothingIsForgotten == DueIsPlanned /\ PendingIsDispatched
=============================================================================
