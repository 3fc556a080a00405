--------------------- MODULE ScheduleOccurrencesProofs ---------------------
(***************************************************************************)
(* What materialization promises for every list of schedules, number of    *)
(* scheduler processes and operators, and every cron library.              *)
(***************************************************************************)
EXTENDS ScheduleOccurrences, TLAPS

\* What a process found due has a valid expression, although the row may
\* have been edited since.
TodoIsValid ==
  \A p \in Schedulers, s \in Schedules :
    proc[p].todo[s] # None => ValidateCron(proc[p].todo[s])

\* The row a process has locked is still due at the time the process has read.
LockedIsDue ==
  \A p \in Schedulers : proc[p].pc = "locked" => rows[Current(p)].next <= proc[p].now

\* What an operator is about to write has passed the validation.
WriteIsValid ==
  \A o \in Operators : oper[o].pc \in {"create", "update"} => ValidateCron(oper[o].row.cron)

\* Only a process that is in Dispatch has claimed executions.
ClaimsAreAwaited == \A p \in Schedulers : proc[p].mine # {} => proc[p].pc \in {"claim", "wait"}

IInv ==
  /\ TypeOK
  /\ ClaimsAreAwaited
  /\ TodoIsValid
  /\ LockedIsDue
  /\ WriteIsValid
  /\ OccurrenceOnce
  /\ OneCatchUp

-----------------------------------------------------------------------------
(* The operators.                                                          *)

\* The next run after a time is later, or the zero time.
LEMMA NextRunIsLater ==
  ASSUME NEW e, ValidateCron(e), NEW t \in 1..Horizon
  PROVE  e \in Expressions /\ NextRun(e, t) \in Nat /\ (NextRun(e, t) > t \/ NextRun(e, t) = Zero)
<1>1. t \in 0..Horizon /\ e \in DOMAIN CronNext
  BY OccurrencesAssumption DEF ValidateCron
<1> QED
  BY <1>1, OccurrencesAssumption DEF NextRun

\* The list holds schedules.
LEMMA OrderHoldsSchedules == \A i \in DOMAIN Order : Order[i] \in Schedules
BY OccurrencesAssumption

\* Planning an occurrence that has no execution gives it one, and changes no
\* other count.
LEMMA PlanOnce ==
  ASSUME NEW f \in [Schedules -> [0..Horizon -> Nat]],
         NEW s \in Schedules, NEW n \in 0..Horizon, ~ (f[s][n] > 0)
  PROVE  LET g == [f EXCEPT ![s][n] = @ + 1]
         IN /\ g \in [Schedules -> [0..Horizon -> Nat]]
            /\ g[s][n] = 1
            /\ \A t \in Schedules, u \in 0..Horizon : t # s \/ u # n => g[t][u] = f[t][u]
<1> DEFINE row == [f[s] EXCEPT ![n] = f[s][n] + 1]
           g == [f EXCEPT ![s] = row]
<1>1. f[s] \in [0..Horizon -> Nat] /\ f[s][n] = 0
  <2>1. f[s] \in [0..Horizon -> Nat]
    OBVIOUS
  <2>2. f[s][n] \in Nat
    BY <2>1
  <2> QED
    BY <2>1, <2>2
<1>2. row \in [0..Horizon -> Nat] /\ row[n] = 1 /\ \A u \in 0..Horizon : u # n => row[u] = f[s][u]
  BY <1>1
<1> HIDE DEF row
<1>3. /\ g \in [Schedules -> [0..Horizon -> Nat]] /\ g[s] = row
      /\ \A t \in Schedules : t # s => g[t] = f[t]
  BY <1>2
<1>4. g = [f EXCEPT ![s][n] = @ + 1]
  BY DEF row
<1> HIDE DEF g
<1> QED
  BY <1>2, <1>3, <1>4

\* A process that has just started, or has given up its tick.
LEMMA NoProcIsIdle ==
  /\ NoProc \in Proc
  /\ NoProc.pc = "idle" /\ NoProc.now = 1 /\ NoProc.cursor = 1 /\ NoProc.claims = 0 /\ NoProc.mine = {}
  /\ NoProc.list = NoRows /\ NoProc.todo = NoRows
BY DEF NoProc, NoRows, Proc

\* Advance gives up the place in the list and nothing else.
LEMMA AdvanceMoves ==
  ASSUME NEW x \in Proc
  PROVE  /\ Advance(x) \in Proc
         /\ Advance(x).pc = "walk" /\ Advance(x).now = x.now /\ Advance(x).mine = x.mine
         /\ \A s \in Schedules : Advance(x).todo[s] \in {x.todo[s], None}
<1>1. /\ x.list \in [Schedules -> Row \cup {None}] /\ x.now \in Nat /\ x.cursor \in Nat /\ x.claims \in Nat
      /\ x.todo \in [Schedules -> Expressions \cup {None}] /\ x.mine \in SUBSET Schedules
  BY DEF Proc
<1> DEFINE a == [x EXCEPT !.pc = "walk"]
           b == [a EXCEPT !.todo[Order[x.cursor]] = None]
<1>2. Advance(x) = [pc |-> "walk", list |-> x.list,
                    todo |-> [x.todo EXCEPT ![Order[x.cursor]] = None],
                    now |-> x.now, cursor |-> x.cursor + 1,
                    claims |-> x.claims, mine |-> x.mine]
  <2>1. a = [pc |-> "walk", list |-> x.list, todo |-> x.todo,
             now |-> x.now, cursor |-> x.cursor,
             claims |-> x.claims, mine |-> x.mine]
    BY DEF Proc
  <2>2. b = [pc |-> "walk", list |-> x.list,
             todo |-> [x.todo EXCEPT ![Order[x.cursor]] = None],
             now |-> x.now, cursor |-> x.cursor,
             claims |-> x.claims, mine |-> x.mine]
    <3>1. b = [a EXCEPT !.todo = [a.todo EXCEPT ![Order[x.cursor]] = None]]
      OBVIOUS
    <3> HIDE DEF a
    <3> QED
      BY <2>1, <3>1
  <2>3. Advance(x) = [b EXCEPT !.cursor = @ + 1]
    BY DEF Advance
  <2> HIDE DEF b
  <2> QED
    BY <2>2, <2>3
<1>3. [x.todo EXCEPT ![Order[x.cursor]] = None] \in [Schedules -> Expressions \cup {None}]
  BY <1>1
<1>4. Advance(x) \in Proc
  BY <1>1, <1>2, <1>3 DEF Proc
<1>5. ASSUME NEW s \in Schedules PROVE Advance(x).todo[s] \in {x.todo[s], None}
  BY <1>1, <1>2
<1> QED
  BY <1>2, <1>4, <1>5

-----------------------------------------------------------------------------
(* The inductive invariant.                                                *)

\* The invariant holds before the first schedule is created.
LEMMA InitInv == Init => IInv
<1> SUFFICES ASSUME Init PROVE IInv
  OBVIOUS
<1>1. rows \in [Schedules -> Row \cup {None}] /\ \A s \in Schedules : rows[s] = None
  BY DEF Init, NoRows
<1>2. /\ proc \in [Schedulers -> Proc]
      /\ \A p \in Schedulers : proc[p].pc = "idle" /\ proc[p].now = 1 /\ proc[p].todo = NoRows
                                /\ proc[p].mine = {}
  BY NoProcIsIdle DEF Init
<1>3. oper \in [Operators -> Oper] /\ \A o \in Operators : oper[o].pc = "idle"
  BY DEF Init, NoOper, Oper
<1>4. clock \in 1..Horizon /\ clock = 1
  BY OccurrencesAssumption DEF Init
<1>5. TypeOK
  BY <1>1, <1>2, <1>3, <1>4, OccurrencesAssumption DEF Init, TypeOK, Slot
<1>6. TodoIsValid /\ LockedIsDue /\ WriteIsValid /\ ClaimsAreAwaited
  BY <1>2, <1>3 DEF TodoIsValid, LockedIsDue, WriteIsValid, ClaimsAreAwaited, NoRows
<1>7. OccurrenceOnce /\ OneCatchUp
  BY DEF Init, OccurrenceOnce, OneCatchUp
<1> QED
  BY <1>5, <1>6, <1>7 DEF IInv

\* A step of one process that does not hold a row after it, and changes no
\* row: it may claim, settle, and drop its own lock.
LEMMA ProcessStep ==
  ASSUME IInv, NEW p \in Schedulers, NEW y \in Proc,
         proc' = [proc EXCEPT ![p] = y],
         y.pc # "locked", y.now \in 1..clock, y.mine # {} => y.pc \in {"claim", "wait"},
         \A s \in Schedules : y.todo[s] # None => ValidateCron(y.todo[s]),
         lock' \in [Schedules -> Schedulers \cup {None}],
         \A s \in Schedules : lock[s] # p => lock'[s] = lock[s],
         slot' \in [Schedules -> Slot], events' \in Nat,
         UNCHANGED <<clock, rows, plans, last, oper>>
  PROVE  IInv'
<1>1. proc' \in [Schedulers -> Proc] /\ proc'[p] = y /\ \A q \in Schedulers \ {p} : proc'[q] = proc[q]
  BY DEF IInv, TypeOK
<1>2. ASSUME NEW q \in Schedulers, proc'[q].pc = "locked"
      PROVE  /\ q # p /\ proc'[q] = proc[q] /\ Current(q)' = Current(q)
             /\ Current(q) \in Schedules /\ lock'[Current(q)] = q
  BY <1>1, <1>2, OrderHoldsSchedules DEF IInv, TypeOK, Current
<1>3. TypeOK'
  BY <1>1, <1>2 DEF IInv, TypeOK, Current
<1>4. TodoIsValid' /\ ClaimsAreAwaited'
  BY <1>1 DEF IInv, TodoIsValid, ClaimsAreAwaited
<1>5. LockedIsDue'
  BY <1>1, <1>2 DEF IInv, LockedIsDue
<1>6. WriteIsValid' /\ OccurrenceOnce' /\ OneCatchUp'
  BY DEF IInv, WriteIsValid, OccurrenceOnce, OneCatchUp, Planned
<1> QED
  BY <1>3, <1>4, <1>5, <1>6 DEF IInv

\* Listing the schedules.
LEMMA ListInv ==
  ASSUME IInv, NEW p \in Schedulers, ListSchedules(p)
  PROVE  IInv'
<1> DEFINE a == [NoProc EXCEPT !.pc = "listed"]
           y == [a EXCEPT !.list = rows]
<1>1. a = [pc |-> "listed", list |-> NoRows, todo |-> NoRows, now |-> 1, cursor |-> 1,
       claims |-> 0, mine |-> {}]
  BY DEF NoProc
<1>2. y = [pc |-> "listed", list |-> rows, todo |-> NoRows, now |-> 1, cursor |-> 1,
       claims |-> 0, mine |-> {}]
  <2> HIDE DEF a
  <2> QED
    BY <1>1
<1>3. proc' = [proc EXCEPT ![p] = y]
  BY DEF ListSchedules
<1> HIDE DEF y
<1>4. /\ y \in Proc /\ y.pc # "locked" /\ y.now \in 1..clock /\ y.mine = {}
      /\ \A s \in Schedules : y.todo[s] = None
  BY <1>2 DEF IInv, TypeOK, Proc, NoRows
<1>5. /\ lock' \in [Schedules -> Schedulers \cup {None}] /\ lock' = lock
      /\ slot' \in [Schedules -> Slot] /\ events' \in Nat
      /\ UNCHANGED <<clock, rows, plans, last, oper>>
  BY DEF ListSchedules, IInv, TypeOK
<1> QED
  BY <1>3, <1>4, <1>5, ProcessStep

\* Deciding what is due.
LEMMA ReadClockInv ==
  ASSUME IInv, NEW p \in Schedulers, ReadClock(p)
  PROVE  IInv'
<1> DEFINE due(row) == row # None /\ row.enabled /\ DueOccurrence(row, clock)
           l == proc[p].list
           todo == [s \in Schedules |-> IF due(l[s]) THEN l[s].cron ELSE None]
           a == [NoProc EXCEPT !.pc = "walk"]
           b == [a EXCEPT !.now = clock]
           y == [b EXCEPT !.todo = todo]
<1>1. a = [pc |-> "walk", list |-> NoRows, todo |-> NoRows, now |-> 1, cursor |-> 1,
       claims |-> 0, mine |-> {}]
  BY DEF NoProc
<1>2. b = [pc |-> "walk", list |-> NoRows, todo |-> NoRows, now |-> clock, cursor |-> 1,
       claims |-> 0, mine |-> {}]
  <2> HIDE DEF a
  <2> QED
    BY <1>1
<1>3. y = [pc |-> "walk", list |-> NoRows, todo |-> todo, now |-> clock, cursor |-> 1,
       claims |-> 0, mine |-> {}]
  <2> HIDE DEF b, todo
  <2> QED
    BY <1>2
<1>4. proc' = [proc EXCEPT ![p] = y]
  BY DEF ReadClock
<1> HIDE DEF y
<1>5. l \in [Schedules -> Row \cup {None}]
  BY DEF IInv, TypeOK, Proc
<1>6. todo \in [Schedules -> Expressions \cup {None}]
  BY <1>5 DEF Row
<1>7. \A s \in Schedules : todo[s] # None => ValidateCron(todo[s])
  BY DEF DueOccurrence
<1> HIDE DEF todo
<1>8. y \in Proc /\ y.pc # "locked" /\ y.now \in 1..clock /\ y.todo = todo /\ y.mine = {}
  BY <1>3, <1>6, OccurrencesAssumption DEF IInv, TypeOK, Proc, NoRows
<1> QED
  BY <1>4, <1>7, <1>8, ProcessStep DEF ReadClock, IInv, TypeOK

\* A schedule that is not due, or locked by a rival, is passed over.
LEMMA PassInv ==
  ASSUME IInv, NEW p \in Schedulers, Pass(p)
  PROVE  IInv'
<1>1. proc[p] \in Proc /\ proc' = [proc EXCEPT ![p] = Advance(proc[p])]
  BY DEF IInv, TypeOK, Pass
<1>2. /\ Advance(proc[p]) \in Proc /\ Advance(proc[p]).pc = "walk"
      /\ Advance(proc[p]).now \in 1..clock /\ Advance(proc[p]).mine = {}
  <2>1. proc[p].mine = {} /\ proc[p].now \in 1..clock
    BY DEF IInv, TypeOK, ClaimsAreAwaited, Pass, Walking
  <2> QED
    BY <1>1, <2>1, AdvanceMoves
<1>3. ASSUME NEW s \in Schedules, Advance(proc[p]).todo[s] # None
      PROVE  ValidateCron(Advance(proc[p]).todo[s])
  BY <1>1, <1>3, AdvanceMoves DEF IInv, TodoIsValid
<1> QED
  BY <1>1, <1>2, <1>3, ProcessStep DEF Pass, IInv, TypeOK

\* Claiming one execution, by a process that is under the limit.
LEMMA ClaimInv ==
  ASSUME IInv, NEW p \in Schedulers, ClaimPendingScheduledExecution(p)
  PROVE  IInv'
<1> DEFINE n == proc[p].claims + 1
           pc == IF n < MaxConcurrentRuns THEN "claim" ELSE "wait"
           m(s) == proc[p].mine \cup {s}
<1>1. PICK s \in Pending :
        /\ slot' = [slot EXCEPT ![s] = "active"]
        /\ proc' = [proc EXCEPT ![p] = [NoProc EXCEPT !.pc = pc, !.claims = n, !.mine = m(s)]]
  BY DEF ClaimPendingScheduledExecution
<1>2. n \in Nat /\ m(s) \in SUBSET Schedules /\ pc \in {"claim", "wait"}
  BY <1>1 DEF IInv, TypeOK, Proc, Pending
<1> DEFINE mine == m(s)
<1> HIDE DEF pc, n, m
<1> DEFINE a == [NoProc EXCEPT !.pc = pc]
           b == [a EXCEPT !.claims = n]
           y == [b EXCEPT !.mine = mine]
<1>3. a = [pc |-> pc, list |-> NoRows, todo |-> NoRows, now |-> 1, cursor |-> 1,
           claims |-> 0, mine |-> {}]
  BY DEF NoProc
<1>4. b = [pc |-> pc, list |-> NoRows, todo |-> NoRows, now |-> 1, cursor |-> 1,
           claims |-> n, mine |-> {}]
  <2> HIDE DEF a
  <2> QED
    BY <1>3
<1>5. y = [pc |-> pc, list |-> NoRows, todo |-> NoRows, now |-> 1, cursor |-> 1,
           claims |-> n, mine |-> mine]
  <2> HIDE DEF b, mine
  <2> QED
    BY <1>4
<1>6. proc' = [proc EXCEPT ![p] = y]
  BY <1>1
<1> HIDE DEF y
<1>7. y \in Proc /\ y.pc \in {"claim", "wait"} /\ y.now \in 1..clock /\ y.todo = NoRows
  BY <1>2, <1>5 DEF IInv, TypeOK, Proc, NoRows
<1>8. slot' \in [Schedules -> Slot]
  BY <1>1 DEF IInv, TypeOK, Slot
<1>9. /\ lock' \in [Schedules -> Schedulers \cup {None}] /\ lock' = lock /\ events' \in Nat
      /\ UNCHANGED <<clock, rows, plans, last, oper>>
  BY DEF ClaimPendingScheduledExecution, IInv, TypeOK
<1>10. y.pc # "locked" /\ \A t \in Schedules : y.todo[t] = None
  BY <1>7 DEF NoRows
<1> QED
  BY <1>6, <1>7, <1>8, <1>9, <1>10, ProcessStep

\* Nothing is left to claim.
LEMMA EndClaimsInv ==
  ASSUME IInv, NEW p \in Schedulers, EndClaims(p)
  PROVE  IInv'
<1> DEFINE x == proc[p]
           b == [x EXCEPT !.pc = "wait"]
           y == IF x.mine = {} THEN NoProc ELSE b
<1>1. x \in Proc /\ proc' = [proc EXCEPT ![p] = y]
  BY DEF EndClaims, IInv, TypeOK
<1>2. b \in Proc /\ b.pc = "wait" /\ b.now = x.now /\ b.todo = x.todo
  BY <1>1 DEF Proc
<1>3. /\ y \in Proc /\ y.pc # "locked" /\ y.now \in 1..clock /\ (y.mine # {} => y.pc = "wait")
      /\ \A t \in Schedules : y.todo[t] # None => ValidateCron(y.todo[t])
  <2> HIDE DEF b
  <2>1. CASE y = NoProc
    BY <2>1, NoProcIsIdle DEF IInv, TypeOK, NoRows
  <2>2. CASE y = b
    BY <2>2, <1>2 DEF IInv, TypeOK, TodoIsValid
  <2> QED
    BY <2>1, <2>2
<1> HIDE DEF y
<1> QED
  BY <1>1, <1>3, ProcessStep DEF EndClaims, IInv, TypeOK

\* An execution settles.
LEMMA SettleInv ==
  ASSUME IInv, NEW p \in Schedulers, NEW s \in Schedules, NEW to \in Slot, Settle(p, s, to)
  PROVE  IInv'
<1> DEFINE x == proc[p]
           b == [x EXCEPT !.mine = @ \ {s}]
           y == IF x.pc = "wait" /\ x.mine = {s} THEN NoProc ELSE b
<1>1. x \in Proc /\ proc' = [proc EXCEPT ![p] = y]
  <2>1. x \in Proc
    BY DEF IInv, TypeOK
  <2>2. proc' = [proc EXCEPT ![p] = y]
    BY DEF Settle
  <2> QED
    BY <2>1, <2>2
<1>2. b \in Proc /\ b.pc = x.pc /\ b.now = x.now /\ b.todo = x.todo
  BY <1>1 DEF Proc
<1>3. x.pc \in {"claim", "wait"}
  BY DEF Settle, IInv, ClaimsAreAwaited
<1>4. /\ y \in Proc /\ y.pc # "locked" /\ y.now \in 1..clock /\ (y.mine # {} => y.pc \in {"claim", "wait"})
      /\ \A t \in Schedules : y.todo[t] # None => ValidateCron(y.todo[t])
  <2> HIDE DEF b
  <2>1. CASE y = NoProc
    BY <2>1, NoProcIsIdle DEF IInv, TypeOK, NoRows
  <2>2. CASE y = b
    BY <2>2, <1>2, <1>3 DEF IInv, TypeOK, TodoIsValid
  <2> QED
    BY <2>1, <2>2
<1>5. slot' \in [Schedules -> Slot]
  BY DEF Settle, IInv, TypeOK
<1> HIDE DEF y
<1> QED
  BY <1>1, <1>4, <1>5, ProcessStep DEF Settle, IInv, TypeOK

\* A process dies, and its transaction with it.
LEMMA CrashInv ==
  ASSUME IInv, NEW p \in Schedulers, Crash(p)
  PROVE  IInv'
<1>1. /\ lock' \in [Schedules -> Schedulers \cup {None}]
      /\ \A s \in Schedules : lock[s] # p => lock'[s] = lock[s]
      /\ slot' \in [Schedules -> Slot] /\ events' \in Nat
      /\ proc' = [proc EXCEPT ![p] = NoProc]
  BY DEF Crash, Event, IInv, TypeOK
<1>2. NoProc.now \in 1..clock /\ \A s \in Schedules : NoProc.todo[s] = None
  BY NoProcIsIdle DEF IInv, TypeOK, NoRows
<1> QED
  BY <1>1, <1>2, NoProcIsIdle, ProcessStep DEF Crash

\* The row that is locked is due, and the lock keeps rivals and edits away.
LEMMA LockInv ==
  ASSUME IInv, NEW p \in Schedulers, LockDue(p)
  PROVE  IInv'
<1> DEFINE x == proc[p]
           y == [x EXCEPT !.pc = "locked"]
           s == Current(p)
<1>1. x \in Proc /\ x.cursor \in DOMAIN Order /\ s \in Schedules /\ x.mine = {}
  BY OrderHoldsSchedules DEF IInv, TypeOK, LockDue, Walking, Current, ClaimsAreAwaited
<1>2. /\ y \in Proc /\ y.pc = "locked" /\ y.now = x.now /\ y.cursor = x.cursor
      /\ y.todo = x.todo /\ y.mine = x.mine
  BY <1>1 DEF Proc
<1>3. proc' = [proc EXCEPT ![p] = y] /\ lock' = [lock EXCEPT ![s] = p]
  BY DEF LockDue
<1> HIDE DEF y
<1>4. /\ proc' \in [Schedulers -> Proc] /\ proc'[p] = y
      /\ \A q \in Schedulers \ {p} : proc'[q] = proc[q]
  BY <1>2, <1>3 DEF IInv, TypeOK
<1>5. /\ lock[s] = None /\ lock' \in [Schedules -> Schedulers \cup {None}] /\ lock'[s] = p
      /\ \A t \in Schedules \ {s} : lock'[t] = lock[t]
      /\ rows[s] # None /\ rows[s].next <= x.now /\ x.todo[s] # None
  BY <1>1, <1>3 DEF LockDue, Found, Wanted, IInv, TypeOK
<1>6. ASSUME NEW q \in Schedulers, q # p, proc[q].pc = "locked"
      PROVE  /\ Current(q) \in Schedules /\ Current(q) # s
             /\ lock'[Current(q)] = q
  <2>1. Current(q) \in Schedules /\ lock[Current(q)] = q
    BY <1>6, OrderHoldsSchedules DEF IInv, TypeOK, Current
  <2> QED
    BY <2>1, <1>5, OccurrencesAssumption
<1>7. TypeOK'
  BY <1>1, <1>2, <1>4, <1>5, <1>6 DEF IInv, TypeOK, LockDue, Current
<1>8. ClaimsAreAwaited' /\ TodoIsValid'
  BY <1>1, <1>2, <1>4 DEF IInv, TodoIsValid, ClaimsAreAwaited
<1>9. LockedIsDue'
  BY <1>1, <1>2, <1>4, <1>5 DEF IInv, LockedIsDue, LockDue, Current
<1>10. WriteIsValid' /\ OccurrenceOnce' /\ OneCatchUp'
  BY DEF IInv, WriteIsValid, OccurrenceOnce, OneCatchUp, Planned, LockDue
<1> QED
  BY <1>7, <1>8, <1>9, <1>10 DEF IInv

\* Planning: the occurrence had no execution, it gets one, and the row moves
\* on to an occurrence after the process's clock reading.
LEMMA MaterializeInv ==
  ASSUME IInv, NEW p \in Schedulers, MaterializeDueSchedule(p)
  PROVE  IInv'
<1> DEFINE x == proc[p]
           s == Current(p)
           n == rows[s].next
           m == NextRun(x.todo[s], x.now)
<1>1. /\ x \in Proc /\ x.pc = "locked" /\ s \in Schedules /\ lock[s] = p /\ x.mine = {}
      /\ rows[s] \in Row /\ rows[s] # None /\ x.todo[s] # None /\ x.now \in 1..clock
      /\ ValidateCron(x.todo[s]) /\ n <= x.now /\ clock \in 1..Horizon
  <2>1. x.pc = "locked"
    BY DEF MaterializeDueSchedule
  <2>2. s \in Schedules
    BY <2>1, OrderHoldsSchedules DEF IInv, TypeOK, Current
  <2> QED
    BY <2>1, <2>2 DEF IInv, TypeOK, Current, TodoIsValid, LockedIsDue, ClaimsAreAwaited
<1>2. /\ lock' = [lock EXCEPT ![s] = None]
      /\ lock' \in [Schedules -> Schedulers \cup {None}]
      /\ \A t \in Schedules : lock[t] # p => lock'[t] = lock[t]
  BY <1>1 DEF MaterializeDueSchedule, IInv, TypeOK
<1>3. CASE Planned(s, n)
  <2>1. /\ proc' = [proc EXCEPT ![p] = NoProc]
        /\ UNCHANGED <<clock, rows, plans, last, slot, oper, events>>
    BY <1>3 DEF MaterializeDueSchedule
  <2>2. NoProc.now \in 1..clock /\ \A t \in Schedules : NoProc.todo[t] = None
    BY NoProcIsIdle DEF IInv, TypeOK, NoRows
  <2>3. slot' \in [Schedules -> Slot] /\ events' \in Nat
    BY <2>1 DEF IInv, TypeOK
  <2>4. /\ NoProc \in Proc /\ NoProc.pc # "locked" /\ NoProc.mine = {}
        /\ UNCHANGED <<clock, rows, plans, last, oper>>
    BY <2>1, NoProcIsIdle
  <2>5. proc' = [proc EXCEPT ![p] = NoProc]
    BY <2>1
  <2>6. /\ lock' \in [Schedules -> Schedulers \cup {None}]
        /\ \A t \in Schedules : lock[t] # p => lock'[t] = lock[t]
    BY <1>2
  <2> QED
    BY <2>2, <2>3, <2>4, <2>5, <2>6, ProcessStep
<1>4. CASE ~ Planned(s, n)
  <2>1. /\ plans' = [plans EXCEPT ![s][n] = @ + 1]
        /\ last' = [last EXCEPT ![s] = x.now]
        /\ slot' = [slot EXCEPT ![s] = IF @ = "free" THEN "pending" ELSE @]
        /\ rows' = [rows EXCEPT ![s].next = m]
        /\ proc' = [proc EXCEPT ![p] = Advance(x)]
        /\ UNCHANGED <<clock, oper, events>>
    BY <1>4 DEF MaterializeDueSchedule, Plan
  <2>2. n \in 0..Horizon /\ m \in Nat /\ (m > x.now \/ m = Zero) /\ x.now \in 1..Horizon
    <3>1. x.now \in 1..Horizon /\ n \in Nat
      BY <1>1, OccurrencesAssumption DEF Row
    <3>2. n \in 0..Horizon
      BY <1>1, <3>1, OccurrencesAssumption
    <3>3. m \in Nat /\ (m > x.now \/ m = Zero)
      BY <1>1, <3>1, NextRunIsLater
    <3> QED
      BY <3>1, <3>2, <3>3
  <2> HIDE DEF m
  <2>3. /\ rows' \in [Schedules -> Row \cup {None}] /\ \A t \in Schedules \ {s} : rows'[t] = rows[t]
        /\ rows'[s].cron = rows[s].cron /\ rows'[s].next = m /\ rows'[s] # None
    <3>1. /\ [rows[s] EXCEPT !.next = m] \in Row
          /\ [rows[s] EXCEPT !.next = m].cron = rows[s].cron
          /\ [rows[s] EXCEPT !.next = m].next = m
      BY <1>1, <2>2 DEF Row
    <3>2. rows' = [rows EXCEPT ![s] = [rows[s] EXCEPT !.next = m]]
      BY <2>1
    <3> DEFINE r == [rows[s] EXCEPT !.next = m]
    <3> HIDE DEF r
    <3>3. /\ rows' = [rows EXCEPT ![s] = r] /\ r \in Row /\ r.cron = rows[s].cron /\ r.next = m
      BY <3>1, <3>2 DEF r
    <3> QED
      BY <1>1, <3>3, NoneIsNoRow DEF IInv, TypeOK
  <2>4. /\ plans' \in [Schedules -> [0..Horizon -> Nat]]
        /\ plans'[s][n] = 1
        /\ \A t \in Schedules, u \in 0..Horizon : t # s \/ u # n => plans'[t][u] = plans[t][u]
    <3>1. plans \in [Schedules -> [0..Horizon -> Nat]] /\ ~ (plans[s][n] > 0)
      BY <1>4 DEF IInv, TypeOK, Planned
    <3> HIDE DEF n, s
    <3> QED
      BY <1>1, <2>1, <2>2, <3>1, PlanOnce
  <2>5. /\ last' \in [Schedules -> 0..Horizon] /\ last'[s] = x.now
        /\ \A t \in Schedules \ {s} : last'[t] = last[t]
        /\ slot' \in [Schedules -> Slot]
    BY <1>1, <2>1, <2>2 DEF IInv, TypeOK, Slot
  <2> DEFINE y == Advance(x)
  <2>6. /\ y \in Proc /\ y.pc = "walk" /\ y.now = x.now /\ y.mine = {}
        /\ \A t \in Schedules : y.todo[t] # None => ValidateCron(y.todo[t])
    <3>1. \A t \in Schedules : x.todo[t] # None => ValidateCron(x.todo[t])
      BY DEF IInv, TodoIsValid
    <3> HIDE DEF x
    <3> QED
      BY <1>1, <3>1, AdvanceMoves
  <2> HIDE DEF y
  <2>7. /\ proc' \in [Schedulers -> Proc] /\ proc'[p] = y
        /\ \A q \in Schedulers \ {p} : proc'[q] = proc[q]
    BY <2>1, <2>6 DEF IInv, TypeOK, y
  <2>8. ASSUME NEW q \in Schedulers, proc'[q].pc = "locked"
        PROVE  /\ q # p /\ proc'[q] = proc[q] /\ Current(q)' = Current(q)
               /\ Current(q) \in Schedules /\ Current(q) # s /\ lock'[Current(q)] = q
    <3>1. q # p
      BY <2>6, <2>7, <2>8
    <3>2. proc'[q] = proc[q] /\ proc[q].pc = "locked" /\ Current(q)' = Current(q)
      BY <2>7, <2>8, <3>1 DEF Current
    <3>3. Current(q) \in Schedules /\ lock[Current(q)] = q
      BY <3>2, OrderHoldsSchedules DEF IInv, TypeOK, Current
    <3> QED
      BY <1>1, <1>2, <3>1, <3>2, <3>3
  <2>9. TypeOK'
    <3>1. \A t \in Schedules : rows'[t] # None => ValidateCron(rows'[t].cron)
      BY <1>1, <2>3 DEF IInv, TypeOK
    <3>2. \A q \in Schedulers : proc'[q].now \in 1..clock
      BY <1>1, <2>6, <2>7 DEF IInv, TypeOK
    <3>3. ASSUME NEW q \in Schedulers, proc'[q].pc = "locked"
          PROVE  /\ proc'[q].cursor \in DOMAIN Order
                 /\ lock'[Order[proc'[q].cursor]] = q
                 /\ rows'[Order[proc'[q].cursor]] # None
                 /\ proc'[q].todo[Order[proc'[q].cursor]] # None
      BY <2>3, <2>8, <3>3 DEF IInv, TypeOK, Current
    <3> QED
      BY <1>2, <2>1, <2>3, <2>4, <2>5, <2>7, <3>1, <3>2, <3>3 DEF IInv, TypeOK
  <2>10. ClaimsAreAwaited' /\ TodoIsValid'
    BY <2>6, <2>7 DEF IInv, ClaimsAreAwaited, TodoIsValid
  <2>11. LockedIsDue'
    BY <2>3, <2>8 DEF IInv, LockedIsDue
  <2>12. WriteIsValid'
    BY <2>1 DEF IInv, WriteIsValid
  <2>13. OccurrenceOnce'
    BY <2>2, <2>4 DEF IInv, OccurrenceOnce
  <2>14. OneCatchUp'
    <3>1. ASSUME NEW t \in Schedules, t # s, last'[t] > 0, ~ Planned(t, Zero)'
          PROVE  rows'[t].next > last'[t] \/ rows'[t].next = Zero
      <4>1. Zero \in 0..Horizon
        BY OccurrencesAssumption DEF Zero
      <4>2. rows'[t] = rows[t] /\ last'[t] = last[t] /\ plans'[t][Zero] = plans[t][Zero]
        BY <2>3, <2>4, <2>5, <3>1, <4>1
      <4> QED
        BY <3>1, <4>2 DEF IInv, OneCatchUp, Planned
    <3>2. rows'[s].next > last'[s] \/ rows'[s].next = Zero
      BY <2>2, <2>3, <2>5
    <3> QED
      BY <3>1, <3>2 DEF OneCatchUp
  <2> QED
    BY <2>9, <2>10, <2>11, <2>12, <2>13, <2>14 DEF IInv
<1> QED
  BY <1>3, <1>4

\* Steps that neither a process nor a row takes part in: time passes, a slot
\* changes hands, an operator prepares a row.
LEMMA AsideStep ==
  ASSUME IInv, UNCHANGED <<rows, plans, last, lock, proc>>,
         clock' \in 1..Horizon, clock' >= clock,
         slot' \in [Schedules -> Slot], events' \in Nat,
         oper' \in [Operators -> Oper],
         \A o \in Operators :
           /\ oper'[o].pc # "idle" => oper'[o].id # None /\ oper'[o].row # None
           /\ oper'[o].pc \in {"create", "update"} => ValidateCron(oper'[o].row.cron)
  PROVE  IInv'
<1>1. \A q \in Schedulers : proc[q].now \in 1..clock'
  BY OccurrencesAssumption DEF IInv, TypeOK, Proc
<1>2. TypeOK'
  BY <1>1 DEF IInv, TypeOK
<1>3. WriteIsValid'
  BY DEF WriteIsValid
<1>4. ClaimsAreAwaited' /\ TodoIsValid' /\ LockedIsDue' /\ OccurrenceOnce' /\ OneCatchUp'
  BY DEF IInv, ClaimsAreAwaited, TodoIsValid, LockedIsDue, Current, OccurrenceOnce, OneCatchUp, Planned
<1> QED
  BY <1>2, <1>3, <1>4 DEF IInv

\* The slots are given up, queued again or taken by hand.
LEMMA SlotInv ==
  ASSUME IInv, NEW s \in Schedules, NEW to \in Slot,
         Reconcile(s, to) \/ DecidePaused(s, to) \/ EnqueueRunNow(s)
  PROVE  IInv'
<1>1. /\ UNCHANGED <<rows, plans, last, lock, proc>> /\ clock' = clock /\ oper' = oper
      /\ slot' \in [Schedules -> Slot] /\ events' \in Nat
  <2>1. /\ slot \in [Schedules -> Slot] /\ events \in Nat
        /\ {"free", "paused", "pending"} \subseteq Slot
    BY DEF IInv, TypeOK, Slot
  <2>2. CASE Reconcile(s, to)
    BY <2>1, <2>2 DEF Reconcile
  <2>3. CASE DecidePaused(s, to)
    BY <2>1, <2>3 DEF DecidePaused, Event
  <2>4. CASE EnqueueRunNow(s)
    BY <2>1, <2>4 DEF EnqueueRunNow, Ask, Event
  <2> QED
    BY <2>2, <2>3, <2>4
<1>2. clock \in 1..Horizon /\ clock >= clock
  BY OccurrencesAssumption DEF IInv, TypeOK
<1> QED
  BY <1>1, <1>2, AsideStep DEF IInv, TypeOK, WriteIsValid

\* Time passes.
LEMMA ElapseInv ==
  ASSUME IInv, Elapse
  PROVE  IInv'
<1>1. /\ UNCHANGED <<rows, plans, last, lock, proc>> /\ oper' = oper
      /\ slot' \in [Schedules -> Slot] /\ events' \in Nat
  BY DEF Elapse, IInv, TypeOK
<1>2. clock' \in 1..Horizon /\ clock' >= clock
  BY OccurrencesAssumption DEF Elapse, IInv, TypeOK
<1> QED
  BY <1>1, <1>2, AsideStep DEF IInv, TypeOK, WriteIsValid

\* What an operator has in hand after it has read, or validated.
LEMMA PreparedInv ==
  ASSUME IInv, NEW o \in Operators, NEW y \in Oper,
         oper' = [oper EXCEPT ![o] = y],
         y.pc # "idle" => y.id # None /\ y.row # None,
         y.pc \in {"create", "update"} => ValidateCron(y.row.cron),
         events' \in Nat, UNCHANGED <<clock, rows, plans, last, slot, lock, proc>>
  PROVE  IInv'
<1>1. /\ oper' \in [Operators -> Oper] /\ oper'[o] = y
      /\ \A q \in Operators \ {o} : oper'[q] = oper[q]
  BY DEF IInv, TypeOK
<1>2. clock' \in 1..Horizon /\ clock' >= clock
  BY OccurrencesAssumption DEF IInv, TypeOK
<1>3. \A q \in Operators :
        /\ oper'[q].pc # "idle" => oper'[q].id # None /\ oper'[q].row # None
        /\ oper'[q].pc \in {"create", "update"} => ValidateCron(oper'[q].row.cron)
  BY <1>1 DEF IInv, TypeOK, WriteIsValid
<1>4. UNCHANGED <<rows, plans, last, lock, proc>> /\ slot' \in [Schedules -> Slot]
  BY DEF IInv, TypeOK
<1> QED
  BY <1>1, <1>2, <1>3, <1>4, AsideStep

\* A row with the next run that validation has computed.
LEMMA NewRow ==
  ASSUME IInv, NEW e, ValidateCron(e), NEW enabled \in BOOLEAN
  PROVE  LET r == [cron |-> e, enabled |-> enabled, next |-> NextRun(e, clock)]
         IN r \in Row /\ r # None /\ r.cron = e
<1>1. e \in Expressions /\ NextRun(e, clock) \in Nat
  BY NextRunIsLater DEF IInv, TypeOK
<1>2. [cron |-> e, enabled |-> enabled, next |-> NextRun(e, clock)] \in Row
  BY <1>1 DEF Row
<1> QED
  BY <1>2, NoneIsNoRow

\* Operators read, and validate what they will write.
LEMMA PrepareInv ==
  ASSUME IInv, NEW o \in Operators,
         \/ \E s \in Schedules : GetSchedule(o, s) \/ \E e \in Expressions : CreateBegin(o, s, e)
         \/ \E e \in Expressions, enabled \in BOOLEAN : Validate(o, e, enabled)
  PROVE  IInv'
<1>0. NoOper \in Oper /\ NoOper.pc = "idle" /\ oper[o] \in Oper
  BY DEF NoOper, Oper, IInv, TypeOK
<1>1. ASSUME NEW s \in Schedules, GetSchedule(o, s) PROVE IInv'
  <2> DEFINE y == [pc |-> "read", id |-> s, row |-> rows[s]]
  <2>1. y \in Oper /\ y.pc = "read" /\ y.id # None /\ y.row # None
    BY <1>1, OccurrencesAssumption DEF GetSchedule, IInv, TypeOK, Oper
  <2>2. /\ oper' = [oper EXCEPT ![o] = y] /\ events' \in Nat
        /\ UNCHANGED <<clock, rows, plans, last, slot, lock, proc>>
    BY <1>1 DEF GetSchedule, Event, IInv, TypeOK
  <2> HIDE DEF y
  <2> QED
    BY <2>1, <2>2, PreparedInv
<1>2. ASSUME NEW s \in Schedules, NEW e \in Expressions, CreateBegin(o, s, e) PROVE IInv'
  <2> DEFINE r == Created(e, clock)
             y == [pc |-> "create", id |-> s, row |-> r]
  <2>1. r \in Row /\ r # None /\ ValidateCron(r.cron)
    BY <1>2, NewRow DEF CreateBegin, Created
  <2>2. y \in Oper /\ y.pc = "create" /\ y.id # None /\ y.row = r
    BY <1>2, <2>1, OccurrencesAssumption DEF Oper
  <2>3. /\ oper' = [oper EXCEPT ![o] = y] /\ events' \in Nat
        /\ UNCHANGED <<clock, rows, plans, last, slot, lock, proc>>
    BY <1>2 DEF CreateBegin, Event, IInv, TypeOK
  <2> HIDE DEF y
  <2> QED
    BY <2>1, <2>2, <2>3, PreparedInv
<1>3. ASSUME NEW e \in Expressions, NEW enabled \in BOOLEAN, Validate(o, e, enabled) PROVE IInv'
  <2> DEFINE r == [cron |-> e, enabled |-> enabled, next |-> NextRun(e, clock)]
             a == [oper[o] EXCEPT !.pc = "update"]
             b == [a EXCEPT !.row = r]
             y == IF ValidateCron(e) THEN b ELSE NoOper
  <2>1. ValidateCron(e) => r \in Row /\ r # None /\ ValidateCron(r.cron)
    BY NewRow
  <2>2. oper[o].id \in Schedules \cup {None} /\ oper[o].id # None
    BY <1>0, <1>3 DEF Validate, IInv, TypeOK, Oper
  <2>3. oper' = [oper EXCEPT ![o] = y]
    BY <1>3 DEF Validate
  <2>4. events' \in Nat /\ UNCHANGED <<clock, rows, plans, last, slot, lock, proc>>
    BY <1>3 DEF Validate, IInv, TypeOK
  <2>5. a = [pc |-> "update", id |-> oper[o].id, row |-> oper[o].row]
    BY <1>0 DEF Oper
  <2> HIDE DEF r
  <2>6. b = [pc |-> "update", id |-> oper[o].id, row |-> r]
    <3> HIDE DEF a
    <3> QED
      BY <2>5
  <2> HIDE DEF b
  <2>7. /\ y \in Oper /\ (y.pc # "idle" => y.id # None /\ y.row # None)
        /\ (y.pc \in {"create", "update"} => ValidateCron(y.row.cron))
    <3>1. CASE ValidateCron(e)
      BY <2>1, <2>2, <2>6, <3>1 DEF Oper
    <3>2. CASE ~ ValidateCron(e)
      BY <1>0, <3>2
    <3> QED
      BY <3>1, <3>2
  <2> HIDE DEF y
  <2> QED
    BY <2>3, <2>4, <2>7, PreparedInv
<1> QED
  BY <1>1, <1>2, <1>3

\* An unlocked row is written, and what it says about the last planning is
\* forgotten or still true.
LEMMA RowStep ==
  ASSUME IInv, NEW s \in Schedules, NEW r \in Row,
         lock[s] = None \/ rows[s] = None,
         ValidateCron(r.cron),
         rows' = [rows EXCEPT ![s] = r],
         \/ last' = [last EXCEPT ![s] = 0]
         \/ last' = last /\ r.next = rows[s].next,
         oper' \in [Operators -> Oper],
         \A o \in Operators : oper'[o] \in {oper[o], NoOper},
         events' \in Nat, UNCHANGED <<clock, plans, slot, lock, proc>>
  PROVE  IInv'
<1>1. /\ rows' \in [Schedules -> Row \cup {None}] /\ rows'[s] = r
      /\ \A t \in Schedules \ {s} : rows'[t] = rows[t]
      /\ last' \in [Schedules -> 0..Horizon]
      /\ \A t \in Schedules \ {s} : last'[t] = last[t]
  <2>1. /\ rows \in [Schedules -> Row \cup {None}] /\ last \in [Schedules -> 0..Horizon]
        /\ 0 \in 0..Horizon
    <3>1. 0 \in 0..Horizon
      BY OccurrencesAssumption
    <3> QED
      BY <3>1 DEF IInv, TypeOK
  <2>2. /\ rows' \in [Schedules -> Row \cup {None}] /\ rows'[s] = r
        /\ \A t \in Schedules \ {s} : rows'[t] = rows[t]
    BY <2>1
  <2>3. /\ last' \in [Schedules -> 0..Horizon]
        /\ \A t \in Schedules \ {s} : last'[t] = last[t]
    BY <2>1
  <2> QED
    BY <2>2, <2>3
<1>2. ASSUME NEW q \in Schedulers, proc[q].pc = "locked"
      PROVE  Current(q) \in Schedules /\ Current(q) # s
  <2>1. Current(q) \in Schedules /\ lock[Current(q)] = q /\ rows[Current(q)] # None
    BY <1>2, OrderHoldsSchedules DEF IInv, TypeOK, Current
  <2> QED
    BY <2>1, OccurrencesAssumption
<1>3. NoOper.pc = "idle"
  BY DEF NoOper
<1>4. TypeOK'
  <2>1. \A t \in Schedules : rows'[t] # None => ValidateCron(rows'[t].cron)
    BY <1>1 DEF IInv, TypeOK
  <2>2. ASSUME NEW q \in Schedulers, proc[q].pc = "locked"
        PROVE  rows'[Order[proc[q].cursor]] # None
    BY <1>1, <1>2, <2>2 DEF IInv, TypeOK, Current
  <2>3. \A o \in Operators : oper'[o].pc # "idle" => oper'[o].id # None /\ oper'[o].row # None
    BY <1>3 DEF IInv, TypeOK
  <2> QED
    BY <1>1, <2>1, <2>2, <2>3 DEF IInv, TypeOK
<1>5. WriteIsValid'
  BY <1>3 DEF IInv, WriteIsValid
<1>6. LockedIsDue'
  BY <1>1, <1>2 DEF IInv, LockedIsDue, Current
<1>7. ClaimsAreAwaited' /\ TodoIsValid' /\ OccurrenceOnce'
  BY DEF IInv, ClaimsAreAwaited, TodoIsValid, OccurrenceOnce
<1>8. OneCatchUp'
  <2>1. ASSUME NEW t \in Schedules, t # s, last'[t] > 0, ~ Planned(t, Zero)'
        PROVE  rows'[t].next > last'[t] \/ rows'[t].next = Zero
    BY <1>1, <2>1 DEF IInv, OneCatchUp, Planned
  <2>2. ASSUME last'[s] > 0, ~ Planned(s, Zero)'
        PROVE  rows'[s].next > last'[s] \/ rows'[s].next = Zero
    <3>1. last' = last /\ r.next = rows[s].next
      BY <2>2 DEF IInv, TypeOK
    <3> QED
      BY <1>1, <2>2, <3>1 DEF IInv, OneCatchUp, Planned
  <2> QED
    BY <2>1, <2>2 DEF OneCatchUp
<1> QED
  BY <1>4, <1>5, <1>6, <1>7, <1>8 DEF IInv

\* An operator drops what it had in hand.
LEMMA NoOperStep ==
  ASSUME IInv, NEW o \in Operators, oper' = [oper EXCEPT ![o] = NoOper]
  PROVE  oper' \in [Operators -> Oper] /\ \A q \in Operators : oper'[q] \in {oper[q], NoOper}
<1>1. NoOper \in Oper
  BY DEF NoOper, Oper
<1> QED
  BY <1>1 DEF IInv, TypeOK

\* A schedule is created, unless the program has one of that name.
LEMMA CreateInv ==
  ASSUME IInv, NEW o \in Operators, CreateSchedule(o)
  PROVE  IInv'
<1> DEFINE s == oper[o].id
           r == oper[o].row
<1>1. /\ oper[o].pc = "create" /\ s \in Schedules /\ r \in Row /\ ValidateCron(r.cron)
      /\ oper' = [oper EXCEPT ![o] = NoOper] /\ events' \in Nat
      /\ UNCHANGED <<clock, plans, slot, lock, proc>>
  BY DEF CreateSchedule, IInv, TypeOK, WriteIsValid, Oper
<1>2. CASE rows[s] = None
  <2>1. rows' = [rows EXCEPT ![s] = r] /\ last' = [last EXCEPT ![s] = 0]
    BY <1>2 DEF CreateSchedule
  <2> QED
    BY <1>1, <1>2, <2>1, NoOperStep, RowStep
<1>3. CASE rows[s] # None
  <2>1. UNCHANGED <<clock, rows, plans, last, slot, lock, proc>>
    BY <1>1, <1>3 DEF CreateSchedule
  <2>2. NoOper \in Oper /\ NoOper.pc = "idle"
    BY DEF NoOper, Oper
  <2> QED
    BY <1>1, <2>1, <2>2, PreparedInv
<1> QED
  BY <1>2, <1>3

\* An edit writes the whole row, and is kept out by the row lock.
LEMMA UpdateInv ==
  ASSUME IInv, NEW o \in Operators, UpdateSchedule(o)
  PROVE  IInv'
<1> DEFINE s == oper[o].id
           r == oper[o].row
<1>1. /\ s \in Schedules /\ r \in Row /\ ValidateCron(r.cron)
      /\ oper' = [oper EXCEPT ![o] = NoOper] /\ events' \in Nat /\ lock[s] = None
      /\ UNCHANGED <<clock, plans, slot, lock, proc>>
  BY DEF UpdateSchedule, IInv, TypeOK, WriteIsValid, Oper
<1>2. rows' = [rows EXCEPT ![s] = r] /\ last' = [last EXCEPT ![s] = 0]
  BY DEF UpdateSchedule
<1> QED
  BY <1>1, <1>2, NoOperStep, RowStep

\* A schedule is enabled or disabled, and its next run left as it is.
LEMMA EnableInv ==
  ASSUME IInv, NEW s \in Schedules, NEW b \in BOOLEAN, SetScheduleEnabled(s, b)
  PROVE  IInv'
<1> DEFINE r == [rows[s] EXCEPT !.enabled = b]
<1>1. rows[s] \in Row /\ rows[s] # None /\ ValidateCron(rows[s].cron) /\ lock[s] = None
  BY DEF SetScheduleEnabled, Ask, IInv, TypeOK
<1>2. r \in Row /\ r.cron = rows[s].cron /\ r.next = rows[s].next
  BY <1>1 DEF Row
<1>3. rows' = [rows EXCEPT ![s] = r]
  BY DEF SetScheduleEnabled
<1> HIDE DEF r
<1>4. /\ last' = last /\ events' \in Nat /\ oper' \in [Operators -> Oper]
      /\ \A o \in Operators : oper'[o] \in {oper[o], NoOper}
      /\ UNCHANGED <<clock, plans, slot, lock, proc>>
  BY DEF SetScheduleEnabled, Ask, Event, IInv, TypeOK
<1> QED
  BY <1>1, <1>2, <1>3, <1>4, RowStep

\* Every step keeps the invariant.
LEMMA NextInv == IInv /\ [Next]_vars => IInv'
<1> SUFFICES ASSUME IInv, [Next]_vars PROVE IInv'
  OBVIOUS
<1>1. CASE UNCHANGED vars
  <2>1. UNCHANGED <<rows, plans, last, lock, proc>> /\ clock' = clock /\ oper' = oper
        /\ slot' = slot /\ events' = events
    BY <1>1 DEF vars
  <2>2. clock' \in 1..Horizon /\ clock' >= clock
    BY <2>1, OccurrencesAssumption DEF IInv, TypeOK
  <2> QED
    BY <2>1, <2>2, AsideStep DEF IInv, TypeOK, WriteIsValid
<1>2. CASE Elapse
  BY <1>2, ElapseInv
<1>3. ASSUME NEW p \in Schedulers, SchedulerStep(p) \/ Crash(p) PROVE IInv'
  BY <1>3, ListInv, ReadClockInv, PassInv, LockInv, MaterializeInv, ClaimInv,
     EndClaimsInv, SettleInv, CrashInv
  DEF SchedulerStep
<1>4. ASSUME NEW s \in Schedules, NEW to \in Slot, Reconcile(s, to) \/ DecidePaused(s, to)
      PROVE  IInv'
  BY <1>4, SlotInv
<1>5. ASSUME NEW s \in Schedules, EnqueueRunNow(s) PROVE IInv'
  <2>1. "free" \in Slot
    BY DEF Slot
  <2> QED
    BY <1>5, <2>1, SlotInv
<1>6. ASSUME NEW s \in Schedules, NEW b \in BOOLEAN, SetScheduleEnabled(s, b) PROVE IInv'
  BY <1>6, EnableInv
<1>7. ASSUME NEW o \in Operators,
             \/ \E s \in Schedules : GetSchedule(o, s) \/ \E e \in Expressions : CreateBegin(o, s, e)
             \/ \E e \in Expressions, enabled \in BOOLEAN : Validate(o, e, enabled)
             \/ CreateSchedule(o) \/ UpdateSchedule(o)
      PROVE  IInv'
  BY <1>7, PrepareInv, CreateInv, UpdateInv
<1> QED
  BY <1>1, <1>2, <1>3, <1>4, <1>5, <1>6, <1>7 DEF Next

\* The invariant holds in every reachable state.
LEMMA SpecInv == Spec => []IInv
BY InitInv, NextInv, PTL DEF Spec

-----------------------------------------------------------------------------

\* An occurrence of a schedule is planned at most once, with any number of
\* scheduler processes that list, lock and crash, and of operators that write
\* back rows they read earlier; and every lock, clock reading and prepared
\* row is consistent.
THEOREM PlannedOnce == Spec => []OccurrencesAgree
<1>1. IInv => OccurrencesAgree
  BY DEF IInv, OccurrencesAgree
<1> QED
  BY <1>1, SpecInv, PTL

\* After a planning the row's next run is later than the clock reading that
\* the planning was made with: missed occurrences are not planned one by one.
THEOREM CatchesUpOnce == Spec => []OneCatchUp
<1>1. IInv => OneCatchUp
  BY DEF IInv
<1> QED
  BY <1>1, SpecInv, PTL
=============================================================================
