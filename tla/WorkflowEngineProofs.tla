------------------------ MODULE WorkflowEngineProofs ------------------------
(***************************************************************************)
(* What the engine promises for every definition, retry policy, number of  *)
(* engines that run at once, and crash.  The parts of the invariant say    *)
(* what an engine's memory may claim, what its goroutines may do, and how  *)
(* both are covered by the database, which other engines also write.       *)
(***************************************************************************)
EXTENDS WorkflowEngine, WellFoundedInduction, TLAPS

Done == {"succeeded", "skipped"}

\* Where the engine is, or goes after the checkpoint file is written.
At(g) == IF pc[g] = "file" THEN mem[g].next ELSE pc[g]

\* What an engine's memory may claim when the engine is at a label.
MemoryFits(m, at) ==
    /\ m.approval => consent
    /\ \A s \in Gated : s \in m.wave => consent
    /\ at # "idle" => m.run = "running"
    /\ at = "start" => m.wave = {}
    /\ at \in {"wave", "commit"} => m.wave # {}
    /\ at \notin {"idle", "start"} => Retained(m.steps) \subseteq m.finished
    /\ \A s \in m.finished : s \notin m.wave /\ m.steps[s].status \in Done
    /\ \A s \in Steps : m.steps[s].status = "skipped" => ~ Condition(s)

\* A goroutine has an attempt within the policy, and consent for the gate.
ExecFits(s, x) ==
    /\ x.stage \in {"ready", "called"} => x.attempt \in 1..MaxTries[s]
    /\ x.stage = "ended" => x.outcome # "none"
    /\ x.stage # "off" /\ s \in Gated => consent

\* The outcomes to be committed.
Committable(m, execs) ==
    \A s \in m.wave : execs[s].stage = "ended" /\ execs[s].outcome \in {"succeeded", "failed", "cancelled"}

EngineFits(g) ==
    /\ MemoryFits(mem[g], At(g))
    /\ \A s \in Steps : ExecFits(s, ex[g][s])
    /\ At(g) = "commit" => Committable(mem[g], ex[g])
    /\ \A s \in Steps : s \in mem[g].wave \/ ex[g][s].stage # "off" => DependenciesSucceeded(s, rows)

\* What the database says by itself.
DatabaseFits ==
    /\ decision = "approved" => consent
    /\ \A s \in Steps : rows[s].status = "skipped" => ~ Condition(s)
    /\ CallsWithinTries
    /\ DependenciesFirst
    /\ GateNeedsApproval
    /\ CompletedMeansDone

IInv == TypeOK /\ DatabaseFits /\ \A g \in Engines : EngineFits(g)

-----------------------------------------------------------------------------
(* The operators.                                                          *)

\* The empty memory and an idle goroutine claim nothing.
LEMMA NothingFits ==
    /\ NoMemory \in Memory /\ NoRow \in Row
    /\ NoMemory.run = "none" /\ NoMemory.finished = {} /\ NoMemory.blocked = {}
    /\ NoMemory.approval = FALSE /\ NoMemory.ctl = "none" /\ NoMemory.wave = {}
    /\ NoMemory.failed = FALSE /\ NoMemory.next = "idle"
    /\ \A s \in Steps : NoMemory.steps[s].status = "none"
    /\ NoExec \in Exec /\ NoExec.stage = "off"
BY DEF NoMemory, Memory, RunStatus, Row, NoRow, StepStatus, Pcs, NoExec, Exec, Stages, Outcomes

\* A step of a wave is first in rank, because ranks are natural numbers.
LEMMA FirstIsInWave ==
    ASSUME NEW m \in Memory, m.wave # {}
    PROVE  First(m) \in m.wave
<1> DEFINE T == {Rank[s] : s \in m.wave}
<1>1. m.wave \subseteq Steps
  BY DEF Memory
<1>2. T \subseteq Nat /\ T # {}
  BY <1>1, DefinitionAssumption
<1> DEFINE R == {ss \in Nat \X Nat : ss[1] < ss[2]}
<1>3. IsWellFoundedOn(R, Nat)
  BY NatLessThanWellFounded, Zenon DEF OpToRel
<1>4. PICK n \in T : \A k \in T : ~ (<<k, n>> \in R)
  <2> HIDE DEF R, T
  <2> QED
    BY <1>2, <1>3, WFMin
<1>5. \A k \in T : n <= k
  <2>1. ASSUME NEW j \in Nat, NEW k \in Nat, j < k PROVE <<j, k>> \in R
    <3>1. <<j, k>> \in Nat \X Nat /\ <<j, k>>[1] < <<j, k>>[2]
      BY <2>1
    <3> QED
      BY <3>1, Zenon
  <2> HIDE DEF R, T
  <2>2. \A k \in T : ~ (k < n)
    BY <1>2, <1>4, <2>1
  <2> QED
    BY <1>2, <2>2
<1>6. \E s \in m.wave : \A t \in m.wave : Rank[s] <= Rank[t]
  BY <1>5
<1> QED
  BY <1>6 DEF First


-----------------------------------------------------------------------------
(* What all steps have in common.                                          *)

\* A final status stays, so what is done stays done.
StatusKept ==
    \A s \in Steps : rows[s].status \in Final => rows'[s].status = rows[s].status

\* Dependencies that are done stay done.
LEMMA DoneIsKept ==
    ASSUME TypeOK, StatusKept, NEW s \in Steps, DependenciesSucceeded(s, rows)
    PROVE  DependenciesSucceeded(s, rows')
<1>1. DependsOn[s] \subseteq Steps
  BY DefinitionAssumption
<1> QED
  BY <1>1 DEF StatusKept, DependenciesSucceeded, Final

\* The types of everything but the engines.
StoreType ==
    /\ run \in RunStatus
    /\ rows \in [Steps -> Row]
    /\ decision \in {"none", "pending", "approved", "rejected"}
    /\ written \in BOOLEAN
    /\ file \in SUBSET Steps
    /\ holds \in SUBSET Conditional
    /\ calls \in [Steps -> Nat]
    /\ starts \in Nat
    /\ consent \in BOOLEAN

\* An engine that does not move is not disturbed by what others save.
LEMMA OthersFit ==
    ASSUME TypeOK, StatusKept, NEW h \in Engines, EngineFits(h),
           pc'[h] = pc[h], mem'[h] = mem[h], ex'[h] = ex[h],
           holds' = holds, consent => consent'
    PROVE  EngineFits(h)'
<1>1. At(h)' = At(h)
  BY DEF At
<1>2. MemoryFits(mem[h], At(h))'
  BY <1>1 DEF EngineFits, MemoryFits, Condition, Retained
<1>3. \A s \in Steps : ExecFits(s, ex[h][s])'
  BY DEF EngineFits, ExecFits
<1>4. (At(h) = "commit" => Committable(mem[h], ex[h]))'
  BY <1>1 DEF EngineFits, Committable
<1>5. ASSUME NEW s \in Steps, s \in mem[h].wave \/ ex[h][s].stage # "off"
      PROVE  DependenciesSucceeded(s, rows')
  BY <1>5, DoneIsKept DEF EngineFits
<1> QED
  BY <1>2, <1>3, <1>4, <1>5 DEF EngineFits

\* One engine moves, to a label with a memory and goroutines that fit.
LEMMA StepInv ==
    ASSUME IInv, NEW g \in Engines, NEW m \in Memory, NEW l \in Pcs, NEW xs \in [Steps -> Exec],
           pc' = [pc EXCEPT ![g] = l], mem' = [mem EXCEPT ![g] = m], ex' = [ex EXCEPT ![g] = xs],
           StoreType', DatabaseFits', StatusKept, holds' = holds, consent => consent',
           EngineFits(g)'
    PROVE  IInv'
<1>1. /\ pc' \in [Engines -> Pcs] /\ mem' \in [Engines -> Memory] /\ ex' \in [Engines -> [Steps -> Exec]]
      /\ \A h \in Engines \ {g} : pc'[h] = pc[h] /\ mem'[h] = mem[h] /\ ex'[h] = ex[h]
  BY DEF IInv, TypeOK
<1>2. TypeOK'
  BY <1>1 DEF StoreType, TypeOK
<1>3. ASSUME NEW h \in Engines \ {g} PROVE EngineFits(h)'
  BY <1>1, OthersFit DEF IInv
<1> QED
  BY <1>2, <1>3 DEF IInv

\* The database is not written.
LEMMA DatabaseKept ==
    ASSUME IInv, UNCHANGED <<db, holds, calls>>, consent => consent'
    PROVE  DatabaseFits' /\ StatusKept
BY DEF IInv, DatabaseFits, CallsWithinTries, DependenciesFirst, GateNeedsApproval,
       CompletedMeansDone, DependenciesSucceeded, Condition, StatusKept, db

\* An engine returns, or its process dies: it claims nothing any more.
LEMMA ReturnInv ==
    ASSUME IInv, NEW g \in Engines, Return(g), UNCHANGED <<db, holds, calls, starts, consent>>,
           written' \in BOOLEAN, file' \in SUBSET Steps
    PROVE  IInv'
<1> DEFINE xs == [s \in Steps |-> NoExec]
<1>1. DatabaseFits' /\ StatusKept
  BY DatabaseKept
<1>2. NoMemory \in Memory /\ xs \in [Steps -> Exec] /\ "idle" \in Pcs
  BY NothingFits DEF Pcs
<1>3. /\ pc' = [pc EXCEPT ![g] = "idle"] /\ mem' = [mem EXCEPT ![g] = NoMemory]
      /\ ex' = [ex EXCEPT ![g] = xs]
  BY DEF Return, Goto
<1>4. pc'[g] = "idle" /\ mem'[g] = NoMemory /\ \A s \in Steps : ex'[g][s] = NoExec
  BY <1>3 DEF IInv, TypeOK
<1>5. EngineFits(g)'
  BY <1>4, NothingFits DEF EngineFits, At, MemoryFits, ExecFits
<1>6. StoreType' /\ holds' = holds /\ consent' = consent
  BY DEF IInv, TypeOK, StoreType, db
<1>7. consent => consent'
  BY <1>6
<1> HIDE DEF xs
<1> QED
  BY <1>1, <1>2, <1>3, <1>5, <1>6, <1>7, StepInv

\* An engine only moves on with its goroutines as they are, and the database
\* as it is.
LEMMA MoveInv ==
    ASSUME IInv, NEW g \in Engines, NEW m \in Memory, NEW l \in Pcs,
           pc' = [pc EXCEPT ![g] = l], mem' = [mem EXCEPT ![g] = m], ex' = ex,
           StoreType', UNCHANGED <<db, holds, calls>>, consent => consent',
           (MemoryFits(mem[g], At(g)) /\ (At(g) = "commit" => Committable(mem[g], ex[g])))',
           m.wave \subseteq mem[g].wave
    PROVE  IInv'
<1>1. DatabaseFits' /\ StatusKept
  BY DatabaseKept
<1>2. /\ pc'[g] = l /\ mem'[g] = m /\ ex' = [ex EXCEPT ![g] = ex[g]] /\ ex[g] \in [Steps -> Exec]
      /\ holds' = holds
  BY DEF IInv, TypeOK
<1>3. EngineFits(g)'
  <2>1. \A s \in Steps : ExecFits(s, ex[g][s])'
    BY DEF IInv, EngineFits, ExecFits
  <2>2. \A s \in Steps : (s \in mem[g].wave \/ ex[g][s].stage # "off" => DependenciesSucceeded(s, rows))'
    BY <1>2 DEF IInv, EngineFits, DependenciesSucceeded, db
  <2> QED
    BY <2>1, <2>2 DEF EngineFits
<1> QED
  BY <1>1, <1>2, <1>3, StepInv

\* A save is refused, and the engine returns; or what it writes agrees with
\* the attempts and the final statuses that are in the database.
LEMMA SaveInv ==
    ASSUME IInv, NEW g \in Engines, NEW m \in Memory, NEW next \in Pcs, Save(g, m, next),
           UNCHANGED <<disk, holds, calls, starts, consent>>,
           MemoryFits(m, next),
           next = "commit" => Committable(m, ex[g]),
           \A s \in m.wave : DependenciesSucceeded(s, m.steps) \/ DependenciesSucceeded(s, rows),
           m.run = "completed" => m.finished = Steps
    PROVE  IInv'
<1>1. CASE ~ CanSave(g, m)
  <2>1. Return(g) /\ UNCHANGED db
    BY <1>1 DEF Save
  <2>2. written' \in BOOLEAN /\ file' \in SUBSET Steps
    BY DEF IInv, TypeOK, disk
  <2> QED
    BY <2>1, <2>2, ReturnInv
<1>2. CASE CanSave(g, m)
  <2> DEFINE y == [m EXCEPT !.next = next]
  <2>1. /\ run' = m.run
        /\ rows' = [s \in Steps |-> IF s \in Known(m.steps) THEN m.steps[s] ELSE rows[s]]
        /\ pc' = [pc EXCEPT ![g] = "file"] /\ mem' = [mem EXCEPT ![g] = y] /\ ex' = ex
    BY <1>2 DEF Save, Goto
  <2>2. /\ decision' \in {"none", "pending", "approved", "rejected"}
        /\ decision' = "approved" => consent
    BY <1>2 DEF Save, IInv, TypeOK, DatabaseFits, MemoryFits
  <2>3. /\ y \in Memory /\ y.run = m.run /\ y.steps = m.steps /\ y.finished = m.finished
        /\ y.approval = m.approval /\ y.wave = m.wave /\ y.next = next
    BY DEF Memory
  <2> HIDE DEF y
  <2>4. m.run \in RunStatus /\ m.steps \in [Steps -> Row]
    BY DEF Memory
  <2>5. /\ rows' \in [Steps -> Row] /\ \A s \in Steps : rows'[s].attempt = rows[s].attempt
        /\ StatusKept
    BY <1>2, <2>1, <2>4 DEF CanSave, AttemptsMatch, Known, StatusKept, IInv, TypeOK
  <2>6. /\ holds' = holds /\ consent' = consent /\ calls' = calls
    OBVIOUS
  <2>7. StoreType'
    BY <2>1, <2>2, <2>4, <2>5 DEF IInv, TypeOK, StoreType, disk
  <2>8. DatabaseFits'
    <3>1. ASSUME NEW s \in Steps, rows'[s].status = "skipped" PROVE ~ Condition(s)'
      BY <2>1, <2>6, <3>1 DEF IInv, DatabaseFits, MemoryFits, Condition
    <3>2. CallsWithinTries'
      BY <2>5, <2>6 DEF IInv, DatabaseFits, CallsWithinTries
    <3>3. ASSUME NEW s \in Steps, rows'[s].attempt > 0 PROVE DependenciesSucceeded(s, rows')
      BY <2>5, <3>3, DoneIsKept DEF IInv, DatabaseFits, DependenciesFirst
    <3>4. GateNeedsApproval'
      BY <2>6 DEF IInv, DatabaseFits, GateNeedsApproval
    <3>5. CompletedMeansDone'
      BY <2>1 DEF CompletedMeansDone, MemoryFits, Known, Done
    <3>6. (decision = "approved" => consent)'
      BY <2>2, <2>6
    <3> QED
      BY <3>1, <3>2, <3>3, <3>4, <3>5, <3>6 DEF DatabaseFits, DependenciesFirst
  <2>9. EngineFits(g)'
    <3>1. pc'[g] = "file" /\ mem'[g] = y /\ At(g)' = next
      BY <2>1, <2>3 DEF IInv, TypeOK, At
    <3>2. MemoryFits(mem[g], At(g))'
      BY <2>3, <2>6, <3>1 DEF MemoryFits, Retained, Condition
    <3>3. \A s \in Steps : ExecFits(s, ex[g][s])'
      BY <2>1, <2>6 DEF IInv, EngineFits, ExecFits
    <3>4. (At(g) = "commit" => Committable(mem[g], ex[g]))'
      BY <2>1, <2>3, <3>1 DEF Committable
    <3>5. ASSUME NEW s \in Steps, s \in m.wave \/ ex[g][s].stage # "off"
          PROVE  DependenciesSucceeded(s, rows')
      <4>1. CASE DependenciesSucceeded(s, rows)
        BY <2>5, <4>1, DoneIsKept DEF IInv
      <4>2. CASE DependenciesSucceeded(s, m.steps)
        <5>1. DependsOn[s] \subseteq Steps
          BY DefinitionAssumption
        <5> QED
          BY <2>1, <4>2, <5>1 DEF DependenciesSucceeded, Known
      <4> QED
        BY <3>5, <4>1, <4>2 DEF IInv, EngineFits
    <3> QED
      BY <2>1, <2>3, <3>1, <3>2, <3>3, <3>4, <3>5 DEF EngineFits
  <2>10. consent => consent'
    BY <2>6
  <2>11. "file" \in Pcs /\ ex' = [ex EXCEPT ![g] = ex[g]] /\ ex[g] \in [Steps -> Exec]
    BY <2>1 DEF Pcs, IInv, TypeOK
  <2> QED
    BY <2>1, <2>3, <2>5, <2>6, <2>7, <2>8, <2>9, <2>10, <2>11, StepInv
<1> QED
  BY <1>1, <1>2

-----------------------------------------------------------------------------
(* The steps that save.                                                    *)

\* What the invariant says of the memory of an engine that is not writing.
LEMMA EngineMemory ==
    ASSUME IInv, NEW g \in Engines, pc[g] # "file"
    PROVE  /\ mem[g] \in Memory /\ MemoryFits(mem[g], pc[g])
           /\ \A s \in mem[g].wave : DependenciesSucceeded(s, rows)
           /\ pc[g] = "commit" => Committable(mem[g], ex[g])
<1>1. At(g) = pc[g] /\ mem[g] \in Memory
  BY DEF At, IInv, TypeOK
<1>2. mem[g].wave \subseteq Steps
  BY <1>1 DEF Memory
<1> QED
  BY <1>1, <1>2 DEF IInv, EngineFits

\* The first save: the steps that are retained are finished.
LEMMA InitialSaveInv ==
    ASSUME IInv, NEW g \in Engines, InitialSave(g)
    PROVE  IInv'
<1> DEFINE m == mem[g]
           y == [m EXCEPT !.finished = Retained(m.steps)]
<1>1. m \in Memory /\ MemoryFits(m, "start") /\ m.wave = {} /\ m.run = "running"
  BY EngineMemory DEF InitialSave, MemoryFits
<1>2. /\ y \in Memory /\ y.run = m.run /\ y.steps = m.steps /\ y.finished = Retained(m.steps)
      /\ y.approval = m.approval /\ y.wave = m.wave
  BY <1>1 DEF Memory, Retained
<1>3. Save(g, y, "loop") /\ UNCHANGED <<disk, holds, calls, starts, consent>>
  BY DEF InitialSave
<1> HIDE DEF y
<1>4. MemoryFits(y, "loop")
  BY <1>1, <1>2 DEF MemoryFits, Retained, Done
<1>5. "loop" \in Pcs /\ "loop" # "commit" /\ y.run # "completed" /\ y.wave = {}
  BY <1>1, <1>2 DEF Pcs
<1> QED
  BY <1>2, <1>3, <1>4, <1>5, SaveInv

\* Leaving the loop: the memory says nothing new but the status of the run.
LEMMA ExitInv ==
    ASSUME IInv, NEW g \in Engines, NEW status \in RunStatus, Exit(g, status), pc[g] # "file",
           status = "completed" => mem[g].finished = Steps
    PROVE  IInv'
<1> DEFINE m == mem[g]
           y == [m EXCEPT !.run = status]
<1>1. /\ m \in Memory /\ MemoryFits(m, pc[g])
      /\ \A s \in m.wave : DependenciesSucceeded(s, rows)
  BY EngineMemory
<1>2. /\ y \in Memory /\ y.run = status /\ y.steps = m.steps /\ y.finished = m.finished
      /\ y.approval = m.approval /\ y.wave = m.wave
  BY <1>1 DEF Memory
<1>3. Save(g, y, "idle") /\ UNCHANGED <<disk, holds, calls, starts, consent>>
  BY DEF Exit
<1> HIDE DEF y
<1>4. MemoryFits(y, "idle")
  BY <1>1, <1>2 DEF MemoryFits
<1>5. "idle" \in Pcs /\ "idle" # "commit" /\ (y.run = "completed" => y.finished = Steps)
  BY <1>1, <1>2 DEF Pcs
<1> QED
  BY <1>1, <1>2, <1>3, <1>4, <1>5, SaveInv

\* The four ways to leave the loop.
LEMMA ExitsInv ==
    ASSUME IInv, NEW g \in Engines,
           EngineCancel(g) \/ EngineFail(g) \/ EnginePause(g) \/ EngineComplete(g)
    PROVE  IInv'
<1>1. pc[g] # "file"
  BY DEF EngineCancel, EngineFail, EnginePause, EngineComplete
<1>2. {"cancelled", "failed", "paused", "completed"} \subseteq RunStatus
  BY DEF RunStatus, Ended
<1>3. CASE EngineComplete(g)
  BY <1>1, <1>2, <1>3, ExitInv DEF EngineComplete
<1>4. CASE EngineCancel(g)
  BY <1>1, <1>2, <1>4, ExitInv DEF EngineCancel
<1>5. CASE EngineFail(g)
  BY <1>1, <1>2, <1>5, ExitInv DEF EngineFail
<1>6. CASE EnginePause(g)
  BY <1>1, <1>2, <1>6, ExitInv DEF EnginePause
<1> QED
  BY <1>3, <1>4, <1>5, <1>6

\* The wave is planned from dependencies that are done in memory, and the
\* save that announces it makes them so in the database.
LEMMA PlanWaveInv ==
    ASSUME IInv, NEW g \in Engines, PlanWave(g)
    PROVE  IInv'
<1> DEFINE m == mem[g]
           seen    == Considered(m)
           skipped == {s \in seen : ~Condition(s)}
           waiting == {s \in seen : Condition(s) /\ ~Launches(m, s)}
           wave    == {s \in seen : Launches(m, s)}
           steps == [s \in Steps |->
                    CASE s \in skipped -> Transition(m.steps[s], "skipped")
                      [] s \in waiting -> Transition(m.steps[s], "awaiting_approval")
                      [] s \in wave    -> Transition(m.steps[s], "running")
                      [] OTHER         -> m.steps[s]]
           next == IF wave = {} THEN "loop" ELSE "wave"
           a == [m EXCEPT !.steps = steps]
           b == [a EXCEPT !.finished = m.finished \cup skipped]
           c == [b EXCEPT !.blocked = m.blocked \cup waiting]
           y == [c EXCEPT !.wave = wave]
<1>1. /\ m \in Memory /\ m.run = "running" /\ (m.approval => consent)
      /\ Retained(m.steps) \subseteq m.finished
      /\ \A s \in m.finished : m.steps[s].status \in Done
      /\ \A s \in Steps : m.steps[s].status = "skipped" => ~ Condition(s)
  BY EngineMemory DEF PlanWave, MemoryFits
<1>2. /\ seen \subseteq Steps /\ \A s \in seen : s \notin m.finished /\ DependenciesSucceeded(s, m.steps)
  BY DEF Considered, Ready
<1>3. skipped \subseteq Steps /\ waiting \subseteq Steps /\ wave \subseteq Steps
  BY <1>2
<1>4. /\ \A s \in Steps : m.steps[s] \in Row
      /\ m.finished \subseteq Steps /\ m.blocked \subseteq Steps
  BY <1>1 DEF Memory
<1>5. /\ \A s \in skipped : steps[s] = Transition(m.steps[s], "skipped")
      /\ \A s \in waiting : steps[s] = Transition(m.steps[s], "awaiting_approval")
      /\ \A s \in wave : steps[s] = Transition(m.steps[s], "running")
      /\ \A s \in Steps \ seen : steps[s] = m.steps[s]
  BY <1>2, <1>3 DEF Launches
<1>6. /\ \A s \in skipped : steps[s] \in Row /\ steps[s].status = "skipped"
      /\ \A s \in waiting : steps[s] \in Row /\ steps[s].status = "awaiting_approval"
      /\ \A s \in wave : steps[s] \in Row /\ steps[s].status \in {"running", "retryable"}
      /\ \A s \in seen : s \in skipped \/ s \in waiting \/ s \in wave
  <2>1. ASSUME NEW s \in seen, NEW st \in StepStatus
        PROVE  Transition(m.steps[s], st) \in Row /\ Transition(m.steps[s], st).status \in {st, "retryable"}
               /\ (st # "running" => Transition(m.steps[s], st).status = st)
    BY <1>2, <1>4 DEF Transition, Row, StepStatus
  <2>2. {"skipped", "awaiting_approval", "running"} \subseteq StepStatus
    BY DEF StepStatus, Final
  <2> QED
    BY <1>5, <2>1, <2>2 DEF Launches
<1>7. steps \in [Steps -> Row]
  <2>1. ASSUME NEW s \in Steps PROVE steps[s] \in Row
    BY <1>4, <1>5, <1>6
  <2> QED
    BY <2>1
<1>8. Save(g, y, next) /\ UNCHANGED <<disk, holds, calls, starts, consent>> /\ pc[g] \in {"loop", "after"}
  BY DEF PlanWave
<1> HIDE DEF steps, skipped, waiting, wave, seen
<1>9. /\ a \in Memory /\ a.run = m.run /\ a.steps = steps /\ a.finished = m.finished
      /\ a.approval = m.approval /\ a.blocked = m.blocked
  BY <1>1, <1>7 DEF Memory
<1> HIDE DEF a
<1>10. /\ b \in Memory /\ b.run = m.run /\ b.steps = steps /\ b.finished = m.finished \cup skipped
       /\ b.approval = m.approval /\ b.blocked = m.blocked
  BY <1>3, <1>4, <1>9 DEF Memory
<1> HIDE DEF b
<1>11. /\ c \in Memory /\ c.run = m.run /\ c.steps = steps /\ c.finished = m.finished \cup skipped
       /\ c.approval = m.approval
  BY <1>3, <1>4, <1>10 DEF Memory
<1> HIDE DEF c
<1>12. /\ y \in Memory /\ y.run = m.run /\ y.steps = steps /\ y.finished = m.finished \cup skipped
       /\ y.approval = m.approval /\ y.wave = wave
  BY <1>3, <1>11 DEF Memory
<1> HIDE DEF y
<1>13. next \in Pcs /\ next # "commit" /\ next # "idle" /\ next # "start" /\ (next = "wave" => wave # {})
  BY DEF Pcs
<1> HIDE DEF next
<1>14. MemoryFits(y, next)
  <2>1. \A s \in Gated : s \in wave => consent
    BY <1>1 DEF wave, Launches
  <2>2. Retained(steps) \subseteq m.finished \cup skipped
    <3>1. ASSUME NEW s \in Steps, steps[s].status = "succeeded" PROVE s \in m.finished
      <4>1. s \notin seen
        BY <1>6, <3>1
      <4> QED
        BY <1>1, <1>5, <3>1, <4>1 DEF Retained
    <3> QED
      BY <3>1 DEF Retained
  <2>3. ASSUME NEW s \in m.finished \cup skipped PROVE s \notin wave /\ steps[s].status \in Done
    <3>1. CASE s \in m.finished
      BY <1>1, <1>2, <1>4, <1>5, <3>1 DEF wave
    <3>2. CASE s \in skipped
      BY <1>6, <3>2 DEF wave, skipped, Launches, Done
    <3> QED
      BY <3>1, <3>2
  <2>4. ASSUME NEW s \in Steps, steps[s].status = "skipped" PROVE ~ Condition(s)
    <3>1. CASE s \in seen
      BY <1>6, <2>4, <3>1 DEF skipped
    <3>2. CASE s \notin seen
      BY <1>1, <1>5, <2>4, <3>2
    <3> QED
      BY <3>1, <3>2
  <2> QED
    BY <1>1, <1>12, <1>13, <2>1, <2>2, <2>3, <2>4 DEF MemoryFits
<1>15. ASSUME NEW s \in wave PROVE DependenciesSucceeded(s, steps)
  <2>1. ASSUME NEW d \in DependsOn[s] PROVE steps[d].status \in {"succeeded", "skipped"}
    <3>1. d \in Steps /\ m.steps[d].status \in {"succeeded", "skipped"}
      BY <1>2, <1>3, DefinitionAssumption DEF wave, DependenciesSucceeded
    <3>2. CASE d \in seen
      <4>1. m.steps[d].status # "succeeded"
        BY <1>1, <1>2, <3>1, <3>2 DEF Retained
      <4>2. d \in skipped
        BY <1>1, <3>1, <3>2, <4>1 DEF skipped
      <4> QED
        BY <1>6, <4>2
    <3>3. CASE d \notin seen
      BY <1>5, <3>1, <3>3
    <3> QED
      BY <3>2, <3>3
  <2> QED
    BY <2>1 DEF DependenciesSucceeded
<1>16. y.run # "completed"
  BY <1>1, <1>12
<1> QED
  BY <1>8, <1>12, <1>13, <1>14, <1>15, <1>16, SaveInv

\* The outcome that is first in rank goes into the memory; the others wait.
LEMMA CommitOutcomeInv ==
    ASSUME IInv, NEW g \in Engines, CommitOutcome(g)
    PROVE  IInv'
<1> DEFINE m == mem[g]
           s == First(m)
           o == ex[g][s]
           a == [m EXCEPT !.steps = [m.steps EXCEPT ![s] = Committed(o)]]
           b == [a EXCEPT !.finished = IF o.outcome = "succeeded" THEN m.finished \cup {s} ELSE m.finished]
           c == [b EXCEPT !.failed = m.failed \/ o.outcome = "failed"]
           y == [c EXCEPT !.wave = m.wave \ {s}]
           next == IF Outcome(g).wave = {} THEN "after" ELSE "commit"
<1>1. /\ m \in Memory /\ MemoryFits(m, "commit") /\ Committable(m, ex[g])
      /\ \A t \in m.wave : DependenciesSucceeded(t, rows)
  BY EngineMemory DEF CommitOutcome
<1>2. m.wave # {} /\ s \in m.wave /\ m.wave \subseteq Steps
  BY <1>1, FirstIsInWave DEF MemoryFits, Memory
<1>3. o \in Exec /\ o.outcome \in {"succeeded", "failed", "cancelled"}
  BY <1>1, <1>2 DEF Committable, IInv, TypeOK
<1>4. Committed(o) \in Row /\ Committed(o).status = o.outcome
  BY <1>3 DEF Committed, Row, StepStatus, Final, Exec
<1>5. Outcome(g) = y
  BY DEF Outcome
<1>6. /\ Save(g, y, next) /\ next = IF y.wave = {} THEN "after" ELSE "commit"
      /\ UNCHANGED <<disk, holds, calls, starts, consent>>
  BY <1>5 DEF CommitOutcome
<1> HIDE DEF next, y, c, b, a, o, s
<1>7. /\ a \in Memory /\ a.run = m.run /\ a.steps = [m.steps EXCEPT ![s] = Committed(o)]
      /\ a.approval = m.approval
  BY <1>1, <1>2, <1>4 DEF Memory, a
<1>8. /\ b \in Memory /\ b.run = m.run /\ b.steps = [m.steps EXCEPT ![s] = Committed(o)]
      /\ b.approval = m.approval
      /\ b.finished = IF o.outcome = "succeeded" THEN m.finished \cup {s} ELSE m.finished
  BY <1>1, <1>2, <1>7 DEF Memory, b
<1>9. /\ c \in Memory /\ c.run = m.run /\ c.steps = b.steps /\ c.approval = m.approval
      /\ c.finished = b.finished
  BY <1>1, <1>8 DEF Memory, c
<1>10. /\ y \in Memory /\ y.run = m.run /\ y.steps = [m.steps EXCEPT ![s] = Committed(o)]
       /\ y.approval = m.approval /\ y.wave = m.wave \ {s}
       /\ y.finished = IF o.outcome = "succeeded" THEN m.finished \cup {s} ELSE m.finished
  BY <1>1, <1>2, <1>8, <1>9 DEF Memory, y
<1>11. next \in Pcs /\ next \in {"after", "commit"} /\ (next = "commit" => y.wave # {})
  BY <1>6 DEF Pcs
<1>12. /\ m.steps \in [Steps -> Row] /\ m.finished \subseteq Steps
       /\ y.steps[s].status = o.outcome /\ \A t \in Steps \ {s} : y.steps[t] = m.steps[t]
  BY <1>1, <1>2, <1>4, <1>10 DEF Memory
<1>13. MemoryFits(y, next)
  <2>1. Retained(y.steps) \subseteq y.finished
    BY <1>1, <1>2, <1>10, <1>12 DEF MemoryFits, Retained
  <2>2. \A t \in y.finished : t \notin y.wave /\ y.steps[t].status \in Done
    BY <1>1, <1>2, <1>10, <1>12 DEF MemoryFits, Done
  <2>3. \A t \in Steps : y.steps[t].status = "skipped" => ~ Condition(t)
    BY <1>1, <1>3, <1>12 DEF MemoryFits
  <2> QED
    BY <1>1, <1>10, <1>11, <2>1, <2>2, <2>3 DEF MemoryFits
<1>14. Committable(y, ex[g]) /\ \A t \in y.wave : DependenciesSucceeded(t, rows)
  BY <1>1, <1>10 DEF Committable
<1>15. y.run # "completed"
  BY <1>1, <1>10 DEF MemoryFits
<1> QED
  BY <1>6, <1>10, <1>11, <1>13, <1>14, <1>15, SaveInv

-----------------------------------------------------------------------------
(* The steps that move one engine and leave the database alone.            *)

\* The checkpoint file follows the database.
LEMMA FileSaveInv ==
    ASSUME IInv, NEW g \in Engines, FileSave(g)
    PROVE  IInv'
<1>1. /\ mem[g] \in Memory /\ mem[g].next \in Pcs /\ mem[g].steps \in [Steps -> Row]
      /\ pc[g] = "file"
  BY DEF IInv, TypeOK, Memory, FileSave
<1>2. /\ written' \in BOOLEAN /\ file' \in SUBSET Steps
      /\ UNCHANGED <<db, holds, calls, starts, consent>>
  BY DEF FileSave, Known
<1>3. CASE mem[g].next = "idle"
  BY <1>2, <1>3, ReturnInv DEF FileSave
<1>4. CASE mem[g].next # "idle"
  <2>1. /\ pc' = [pc EXCEPT ![g] = mem[g].next] /\ mem' = [mem EXCEPT ![g] = mem[g]]
        /\ ex' = ex
    BY <1>4 DEF FileSave, Goto
  <2>2. pc'[g] = mem[g].next /\ mem'[g] = mem[g] /\ At(g)' = At(g)
    BY <1>1, <2>1 DEF IInv, TypeOK, At
  <2>3. StoreType' /\ consent' = consent
    BY <1>2 DEF IInv, TypeOK, StoreType, db
  <2>4. consent => consent'
    BY <2>3
  <2>5. (MemoryFits(mem[g], At(g)) /\ (At(g) = "commit" => Committable(mem[g], ex[g])))'
    BY <1>2, <2>1, <2>2, <2>4 DEF IInv, EngineFits, MemoryFits, Committable, Condition, Retained
  <2> QED
    BY <1>1, <1>2, <2>1, <2>3, <2>4, <2>5, MoveInv
<1> QED
  BY <1>3, <1>4

\* The goroutines are done and none lost its attempt, or the engine gives up.
LEMMA EndWaveInv ==
    ASSUME IInv, NEW g \in Engines, EndWave(g)
    PROVE  IInv'
<1>1. pc[g] = "wave" /\ mem[g] \in Memory /\ MemoryFits(mem[g], "wave") /\ mem[g].wave \subseteq Steps
  BY EngineMemory DEF EndWave, Memory
<1>2. /\ written' \in BOOLEAN /\ file' \in SUBSET Steps
      /\ UNCHANGED <<db, disk, holds, calls, starts, consent>>
  BY DEF EndWave, IInv, TypeOK, disk
<1>3. CASE \E s \in mem[g].wave : ex[g][s].outcome = "lost"
  BY <1>2, <1>3, ReturnInv DEF EndWave
<1>4. CASE \A s \in mem[g].wave : ex[g][s].outcome # "lost"
  <2>1. /\ pc' = [pc EXCEPT ![g] = "commit"] /\ mem' = [mem EXCEPT ![g] = mem[g]]
        /\ ex' = ex /\ \A s \in mem[g].wave : ex[g][s].stage = "ended"
    BY <1>4 DEF EndWave, Goto
  <2>2. pc'[g] = "commit" /\ mem'[g] = mem[g] /\ At(g)' = "commit"
    BY <2>1 DEF IInv, TypeOK, At
  <2>3. StoreType' /\ consent' = consent
    BY <1>2 DEF IInv, TypeOK, StoreType, db
  <2>4. consent => consent'
    BY <2>3
  <2>5. ASSUME NEW s \in mem[g].wave PROVE ex[g][s].outcome \in {"succeeded", "failed", "cancelled"}
    BY <1>1, <1>4, <2>1 DEF IInv, TypeOK, EngineFits, ExecFits, Exec, Outcomes
  <2>6. MemoryFits(mem[g], At(g))'
    BY <1>1, <1>2, <2>2, <2>4 DEF MemoryFits, Condition, Retained
  <2>7. (At(g) = "commit" => Committable(mem[g], ex[g]))'
    BY <2>1, <2>2, <2>5 DEF Committable
  <2>8. "commit" \in Pcs
    BY DEF Pcs
  <2> QED
    BY <1>1, <1>2, <2>1, <2>3, <2>4, <2>6, <2>7, <2>8, MoveInv
<1> QED
  BY <1>3, <1>4

\* An engine starts with nothing, or with what the database says.
LEMMA BeginInv ==
    ASSUME IInv, NEW g \in Engines, NEW steps \in [Steps -> Row], NEW approval \in BOOLEAN,
           Goto(g, "start", [NoMemory EXCEPT !.run = "running", !.steps = steps, !.approval = approval]),
           \A s \in Steps : steps[s].status = "skipped" => ~ Condition(s),
           approval => consent', consent => consent', StoreType',
           UNCHANGED <<db, holds, calls, ex>>
    PROVE  IInv'
<1> DEFINE a == [NoMemory EXCEPT !.run = "running"]
           b == [a EXCEPT !.steps = steps]
           y == [b EXCEPT !.approval = approval]
<1>1. pc' = [pc EXCEPT ![g] = "start"] /\ mem' = [mem EXCEPT ![g] = y]
  BY DEF Goto
<1> HIDE DEF y, b, a
<1>2. a \in Memory /\ a.run = "running" /\ a.finished = {} /\ a.wave = {}
  BY NothingFits DEF Memory, a, RunStatus
<1>3. b \in Memory /\ b.run = "running" /\ b.finished = {} /\ b.wave = {} /\ b.steps = steps
  BY <1>2 DEF Memory, b
<1>4. /\ y \in Memory /\ y.run = "running" /\ y.finished = {} /\ y.wave = {} /\ y.steps = steps
      /\ y.approval = approval
  BY <1>3 DEF Memory, y
<1>5. pc'[g] = "start" /\ mem'[g] = y /\ At(g)' = "start"
  BY <1>1 DEF IInv, TypeOK, At
<1>6. (MemoryFits(mem[g], At(g)) /\ (At(g) = "commit" => Committable(mem[g], ex[g])))'
  BY <1>4, <1>5 DEF MemoryFits, Condition
<1>7. "start" \in Pcs /\ y.wave \subseteq mem[g].wave
  BY <1>4 DEF Pcs
<1> QED
  BY <1>1, <1>4, <1>6, <1>7, MoveInv

\* A new run.
LEMMA StartRunInv ==
    ASSUME IInv, NEW g \in Engines, StartRun(g)
    PROVE  IInv'
<1>1. PICK yes \in BOOLEAN :
        /\ Goto(g, "start", [NoMemory EXCEPT !.run = "running", !.approval = yes])
        /\ consent' = (consent \/ yes)
  BY DEF StartRun
<1>2. [NoMemory EXCEPT !.run = "running", !.approval = yes]
        = [NoMemory EXCEPT !.run = "running", !.steps = NoMemory.steps, !.approval = yes]
  BY DEF NoMemory
<1>3. /\ NoMemory.steps \in [Steps -> Row]
      /\ \A s \in Steps : NoMemory.steps[s].status = "skipped" => ~ Condition(s)
  BY NothingFits DEF Memory
<1>4. StoreType' /\ UNCHANGED <<db, holds, calls, ex>>
  BY <1>1 DEF StartRun, IInv, TypeOK, StoreType, db, disk
<1>5. (yes => consent') /\ (consent => consent')
  BY <1>1
<1> QED
  BY <1>1, <1>2, <1>3, <1>4, <1>5, BeginInv

\* A resumed run: what it takes for an approval is in the database.
LEMMA ResumeRunInv ==
    ASSUME IInv, NEW g \in Engines, ResumeRun(g)
    PROVE  IInv'
<1>1. PICK yes \in BOOLEAN :
        /\ Goto(g, "start", [NoMemory EXCEPT !.run = "running", !.steps = rows,
                !.approval = yes \/ \E s \in Gated : ApprovedByRecord(s)])
        /\ consent' = (consent \/ yes)
  BY DEF ResumeRun
<1> DEFINE approval == yes \/ \E s \in Gated : ApprovedByRecord(s)
<1>2. approval \in BOOLEAN
  BY DEF ApprovedByRecord
<1>3. (\E s \in Gated : ApprovedByRecord(s)) => consent
  BY DEF IInv, DatabaseFits, ApprovedByRecord
<1>4. (approval => consent') /\ (consent => consent')
  BY <1>1, <1>3
<1>5. StoreType' /\ UNCHANGED <<db, holds, calls, ex>>
  BY <1>1 DEF ResumeRun, IInv, TypeOK, StoreType, db
<1>6. rows \in [Steps -> Row] /\ \A s \in Steps : rows[s].status = "skipped" => ~ Condition(s)
  BY DEF IInv, TypeOK, DatabaseFits
<1>7. Goto(g, "start", [NoMemory EXCEPT !.run = "running", !.steps = rows, !.approval = approval])
  BY <1>1
<1> HIDE DEF approval
<1> QED
  BY <1>2, <1>4, <1>5, <1>6, <1>7, BeginInv

\* The operator's request reaches the engine's memory.
LEMMA ControlInv ==
    ASSUME IInv, NEW g \in Engines, Control(g)
    PROVE  IInv'
<1>1. PICK c \in {"pause", "cancel"} : mem' = [mem EXCEPT ![g].ctl = c]
  BY DEF Control
<1> DEFINE y == [mem[g] EXCEPT !.ctl = c]
<1>2. mem' = [mem EXCEPT ![g] = y]
  BY <1>1 DEF IInv, TypeOK
<1>3. pc[g] # "file" /\ pc' = [pc EXCEPT ![g] = pc[g]] /\ pc[g] \in Pcs /\ ex' = ex
  BY DEF Control, IInv, TypeOK
<1>4. /\ mem[g] \in Memory /\ MemoryFits(mem[g], pc[g])
      /\ pc[g] = "commit" => Committable(mem[g], ex[g])
  BY <1>3, EngineMemory
<1>5. /\ y \in Memory /\ y.run = mem[g].run /\ y.steps = mem[g].steps
      /\ y.finished = mem[g].finished /\ y.approval = mem[g].approval /\ y.wave = mem[g].wave
  BY <1>4 DEF Memory
<1> HIDE DEF y
<1>6. pc'[g] = pc[g] /\ mem'[g] = y /\ At(g)' = pc[g]
  BY <1>2, <1>3 DEF IInv, TypeOK, At
<1>7. StoreType' /\ UNCHANGED <<db, holds, calls>> /\ consent' = consent
  BY DEF Control, IInv, TypeOK, StoreType, db, disk
<1>8. consent => consent'
  BY <1>7
<1>9. MemoryFits(mem[g], At(g))'
  BY <1>4, <1>5, <1>6, <1>7, <1>8 DEF MemoryFits, Condition, Retained
<1>10. (At(g) = "commit" => Committable(mem[g], ex[g]))'
  BY <1>3, <1>4, <1>5, <1>6 DEF Committable
<1> QED
  BY <1>2, <1>3, <1>5, <1>7, <1>8, <1>9, <1>10, MoveInv

-----------------------------------------------------------------------------
(* The goroutines of a wave.                                               *)

\* One goroutine moves, in a database that keeps what was final; it keeps to
\* its step, which has its dependencies.
LEMMA ExecInv ==
    ASSUME IInv, NEW g \in Engines, NEW s \in Steps, NEW stage \in Stages, NEW attempt \in Nat,
           NEW outcome \in Outcomes, SetExec(g, s, stage, attempt, outcome),
           UNCHANGED <<pc, mem, holds, consent>>, StoreType', DatabaseFits', StatusKept,
           stage \in {"ready", "called"} => attempt <= MaxTries[s] /\ attempt # 0,
           stage = "ended" => outcome # "none",
           s \in mem[g].wave \/ ex[g][s].stage # "off",
           At(g) # "commit" \/ ex[g][s].stage # "ended"
    PROVE  IInv'
<1> DEFINE x == [stage |-> stage, attempt |-> attempt, outcome |-> outcome]
           xs == [ex[g] EXCEPT ![s] = x]
<1>1. ex' = [ex EXCEPT ![g] = xs]
  BY DEF SetExec, IInv, TypeOK
<1>2. x \in Exec /\ x.stage = stage /\ x.attempt = attempt /\ x.outcome = outcome
  BY DEF Exec
<1> HIDE DEF x
<1>3. /\ ex[g] \in [Steps -> Exec] /\ xs \in [Steps -> Exec] /\ xs[s] = x
      /\ \A t \in Steps \ {s} : xs[t] = ex[g][t]
  BY <1>2 DEF IInv, TypeOK
<1> HIDE DEF xs
<1>4. /\ pc[g] \in Pcs /\ mem[g] \in Memory /\ pc' = [pc EXCEPT ![g] = pc[g]]
      /\ mem' = [mem EXCEPT ![g] = mem[g]] /\ mem[g].wave \subseteq Steps
      /\ pc'[g] = pc[g] /\ mem'[g] = mem[g] /\ ex'[g] = xs
  BY <1>1, <1>3 DEF IInv, TypeOK, Memory
<1>5. holds' = holds /\ (consent => consent') /\ At(g)' = At(g)
  BY <1>4 DEF At
<1>6. DependenciesSucceeded(s, rows)
  BY DEF IInv, EngineFits
<1>7. s \in Gated => consent
  BY DEF IInv, EngineFits, MemoryFits, ExecFits
<1>8. EngineFits(g)'
  <2>1. MemoryFits(mem[g], At(g))'
    BY <1>4, <1>5 DEF IInv, EngineFits, MemoryFits, Condition, Retained
  <2>2. ASSUME NEW t \in Steps PROVE ExecFits(t, ex[g][t])'
    <3>1. CASE t = s
      <4>1. attempt \in Nat /\ MaxTries[s] \in Nat
        BY DefinitionAssumption
      <4>2. stage \in {"ready", "called"} => attempt \in 1..MaxTries[s]
        BY <4>1
      <4> QED
        BY <1>2, <1>3, <1>4, <1>5, <1>7, <3>1, <4>2 DEF ExecFits
    <3>2. CASE t # s
      BY <1>3, <1>4, <1>5, <3>2 DEF IInv, EngineFits, ExecFits
    <3> QED
      BY <3>1, <3>2
  <2>3. (At(g) = "commit" => Committable(mem[g], ex[g]))'
    <3>1. At(g) = "commit" => s \notin mem[g].wave
      BY DEF IInv, EngineFits, Committable
    <3>2. At(g) = "commit" => Committable(mem[g], ex[g])
      BY DEF IInv, EngineFits
    <3>3. At(g) = "commit" => Committable(mem[g], xs)
      BY <1>3, <1>4, <3>1, <3>2 DEF Committable
    <3> QED
      BY <1>4, <1>5, <3>3
  <2>4. ASSUME NEW t \in Steps, t \in mem[g].wave \/ xs[t].stage # "off"
        PROVE  DependenciesSucceeded(t, rows')
    <3>1. DependenciesSucceeded(t, rows)
      BY <1>3, <1>6, <2>4 DEF IInv, EngineFits
    <3> QED
      BY <3>1, DoneIsKept DEF IInv
  <2> QED
    BY <1>4, <2>1, <2>2, <2>3, <2>4 DEF EngineFits
<1> QED
  BY <1>1, <1>3, <1>4, <1>5, <1>8, StepInv

\* What the goroutine of a step may be.
LEMMA ExecType ==
    ASSUME IInv, NEW g \in Engines, NEW s \in Steps
    PROVE  /\ ex[g][s].attempt \in Nat /\ mem[g].steps[s].attempt \in Nat
           /\ MaxTries[s] \in Nat /\ MaxTries[s] # 0
           /\ ex[g][s].stage \in {"ready", "called"} =>
                ex[g][s].attempt <= MaxTries[s] /\ ex[g][s].attempt # 0
           /\ Fails(g) \in {"failed", "cancelled"}
<1>1. ex[g][s] \in Exec /\ mem[g] \in Memory /\ ExecFits(s, ex[g][s])
  BY DEF IInv, TypeOK, EngineFits
<1>2. ex[g][s].attempt \in Nat /\ mem[g].steps[s] \in Row
  BY <1>1 DEF Exec, Memory
<1>3. MaxTries[s] \in Nat /\ MaxTries[s] # 0
  BY DefinitionAssumption
<1>4. ex[g][s].stage \in {"ready", "called"} => ex[g][s].attempt \in 1..MaxTries[s]
  BY <1>1 DEF ExecFits
<1> QED
  BY <1>2, <1>3, <1>4 DEF Row, Fails

\* The step starts its first attempt, or fails without one.
LEMMA BeginStepInv ==
    ASSUME IInv, NEW g \in Engines, NEW s \in Steps, BeginStep(g, s)
    PROVE  IInv'
<1>1. /\ s \in mem[g].wave /\ ex[g][s].stage = "off"
      /\ UNCHANGED <<db, disk, holds, calls, pc, mem, starts, consent>>
  BY DEF BeginStep
<1>2. StoreType' /\ (consent => consent')
  BY <1>1 DEF IInv, TypeOK, StoreType, db, disk
<1>3. DatabaseFits' /\ StatusKept
  BY <1>1, <1>2, DatabaseKept
<1>4. {"ready", "ended"} \subseteq Stages /\ {"none", "failed", "cancelled"} \subseteq Outcomes
  BY DEF Stages, Outcomes
<1>5. CASE /\ mem[g].steps[s].attempt + 1 <= MaxTries[s]
           /\ SetExec(g, s, "ready", mem[g].steps[s].attempt + 1, "none")
  <2>1. mem[g].steps[s].attempt + 1 \in Nat /\ mem[g].steps[s].attempt + 1 # 0
    BY ExecType
  <2> QED
    BY <1>1, <1>2, <1>3, <1>4, <1>5, <2>1, ExecInv
<1>6. CASE SetExec(g, s, "ended", mem[g].steps[s].attempt, Fails(g))
  <2>1. Fails(g) \in Outcomes /\ Fails(g) # "none" /\ mem[g].steps[s].attempt \in Nat
    BY <1>4, ExecType
  <2> QED
    BY <1>1, <1>2, <1>3, <1>4, <1>6, <2>1, ExecInv
<1> QED
  BY <1>5, <1>6 DEF BeginStep

\* The wait between two attempts is cancelled.
LEMMA CancelWaitInv ==
    ASSUME IInv, NEW g \in Engines, NEW s \in Steps, CancelWait(g, s)
    PROVE  IInv'
<1>1. /\ ex[g][s].stage = "ready" /\ SetExec(g, s, "ended", ex[g][s].attempt - 1, "cancelled")
      /\ UNCHANGED <<db, disk, holds, calls, pc, mem, starts, consent>>
  BY DEF CancelWait
<1>2. StoreType' /\ (consent => consent')
  BY <1>1 DEF IInv, TypeOK, StoreType, db, disk
<1>3. DatabaseFits' /\ StatusKept
  BY <1>1, <1>2, DatabaseKept
<1>4. "ended" \in Stages /\ "cancelled" \in Outcomes
  BY DEF Stages, Outcomes
<1>5. ex[g][s].attempt - 1 \in Nat
  BY <1>1, ExecType
<1> QED
  BY <1>1, <1>2, <1>3, <1>4, <1>5, ExecInv

\* A call takes the attempt that is next in the database, within the policy,
\* for a step whose dependencies are done.
LEMMA CallProviderInv ==
    ASSUME IInv, NEW g \in Engines, NEW s \in Steps, CallProvider(g, s)
    PROVE  IInv'
<1> DEFINE a == ex[g][s].attempt
<1>1. /\ ex[g][s].stage = "ready"
      /\ UNCHANGED <<run, decision, disk, holds, pc, mem, starts, consent>>
  BY DEF CallProvider
<1>2. a \in Nat /\ a <= MaxTries[s] /\ a # 0
  BY <1>1, ExecType
<1>3. consent => consent'
  BY <1>1
<1>4. {"called", "ended"} \subseteq Stages /\ {"none", "lost", "failed", "cancelled"} \subseteq Outcomes
  BY DEF Stages, Outcomes
<1>5. CASE /\ run = "running" /\ OwnsAttempt(s, a)
           /\ rows' = [rows EXCEPT ![s].attempt = a]
           /\ calls' = [calls EXCEPT ![s] = @ + 1]
           /\ SetExec(g, s, "called", a, "none")
  <2>1. rows \in [Steps -> Row] /\ calls \in [Steps -> Nat]
    BY DEF IInv, TypeOK
  <2>2. /\ rows' \in [Steps -> Row] /\ calls' \in [Steps -> Nat]
        /\ rows'[s].attempt = a /\ a = rows[s].attempt + 1 /\ calls'[s] = calls[s] + 1
        /\ \A t \in Steps : rows'[t].status = rows[t].status
        /\ \A t \in Steps \ {s} : rows'[t] = rows[t] /\ calls'[t] = calls[t]
    <3>1. rows[s] \in Row
      BY <2>1
    <3>2. /\ [rows[s] EXCEPT !.attempt = a] \in Row
          /\ [rows[s] EXCEPT !.attempt = a].status = rows[s].status
          /\ [rows[s] EXCEPT !.attempt = a].attempt = a
      BY <1>2, <3>1 DEF Row
    <3>3. rows' = [rows EXCEPT ![s] = [rows[s] EXCEPT !.attempt = a]]
      BY <1>5, <2>1
    <3> QED
      BY <1>5, <2>1, <3>2, <3>3 DEF OwnsAttempt
  <2>3. StatusKept
    BY <2>2 DEF StatusKept
  <2>4. StoreType'
    BY <1>1, <2>2 DEF IInv, TypeOK, StoreType, disk
  <2>5. DatabaseFits'
    <3>1. CallsWithinTries'
      <4>1. ASSUME NEW t \in Steps PROVE calls'[t] <= rows'[t].attempt /\ rows'[t].attempt <= MaxTries[t]
        <5>1. CASE t = s
          <6>1. calls[s] \in Nat /\ rows[s].attempt \in Nat /\ calls[s] <= rows[s].attempt
            BY <2>1 DEF IInv, DatabaseFits, CallsWithinTries, Row
          <6> QED
            BY <1>2, <2>2, <5>1, <6>1
        <5>2. CASE t # s
          BY <2>2, <5>2 DEF IInv, DatabaseFits, CallsWithinTries
        <5> QED
          BY <5>1, <5>2
      <4> QED
        BY <4>1 DEF CallsWithinTries
    <3>2. ASSUME NEW t \in Steps, rows'[t].attempt > 0 PROVE DependenciesSucceeded(t, rows')
      <4>1. DependenciesSucceeded(t, rows)
        BY <1>1, <2>2, <3>2 DEF IInv, DatabaseFits, DependenciesFirst, EngineFits
      <4> QED
        BY <2>3, <4>1, DoneIsKept DEF IInv
    <3>3. GateNeedsApproval'
      <4>1. s \in Gated => consent
        BY <1>1 DEF IInv, EngineFits, ExecFits
      <4> QED
        BY <1>3, <2>2, <4>1, DefinitionAssumption DEF IInv, DatabaseFits, GateNeedsApproval
    <3>4. \A t \in Steps : (rows[t].status = "skipped" => ~ Condition(t))'
      BY <1>1, <2>2 DEF IInv, DatabaseFits, Condition
    <3>5. CompletedMeansDone'
      BY <1>1, <1>5 DEF CompletedMeansDone
    <3>6. (decision = "approved" => consent)'
      BY <1>1, <1>3 DEF IInv, DatabaseFits
    <3> QED
      BY <3>1, <3>2, <3>3, <3>4, <3>5, <3>6 DEF DatabaseFits, DependenciesFirst
  <2> HIDE DEF a
  <2> QED
    BY <1>1, <1>2, <1>4, <1>5, <2>3, <2>4, <2>5, ExecInv
<1>6. CASE /\ SetExec(g, s, "ended", a,
                     IF run = "running" /\ mem[g].ctl # "cancel" THEN "lost" ELSE Fails(g))
           /\ UNCHANGED <<rows, calls>>
  <2> DEFINE o == IF run = "running" /\ mem[g].ctl # "cancel" THEN "lost" ELSE Fails(g)
  <2>1. o \in Outcomes /\ o # "none" /\ SetExec(g, s, "ended", a, o)
    BY <1>4, <1>6, ExecType
  <2>2. StoreType'
    BY <1>1, <1>6 DEF IInv, TypeOK, StoreType, disk
  <2>3. DatabaseFits' /\ StatusKept
    <3>1. UNCHANGED <<db, holds, calls>>
      BY <1>1, <1>6 DEF db
    <3> QED
      BY <1>3, <3>1, DatabaseKept
  <2> HIDE DEF o, a
  <2> QED
    BY <1>1, <1>2, <1>4, <2>1, <2>2, <2>3, ExecInv
<1> QED
  BY <1>1, <1>5, <1>6 DEF CallProvider

\* A result is stored only over a status that is not final.
LEMMA StoreResultInv ==
    ASSUME IInv, NEW g \in Engines, NEW s \in Steps, StoreResult(g, s)
    PROVE  IInv'
<1> DEFINE a == ex[g][s].attempt
           ok == AcceptsResult(s, a)
<1>1. /\ ex[g][s].stage = "called"
      /\ UNCHANGED <<run, decision, disk, holds, calls, pc, mem, starts, consent>>
  BY DEF StoreResult
<1>2. a \in Nat /\ a <= MaxTries[s] /\ a # 0 /\ MaxTries[s] \in Nat
  BY <1>1, ExecType
<1>3. consent => consent'
  BY <1>1
<1>4. /\ {"ready", "ended"} \subseteq Stages
      /\ {"none", "succeeded", "failed", "cancelled"} \subseteq Outcomes
  BY DEF Stages, Outcomes
<1>5. PICK r \in {"succeeded", "failed", "cancelled", "retryable"} :
        /\ rows' = IF ok THEN [rows EXCEPT ![s].status = r] ELSE rows
        /\ \/ r = "retryable" /\ a < MaxTries[s] /\ SetExec(g, s, "ready", a + 1, "none")
           \/ SetExec(g, s, "ended", a, IF r = "succeeded" /\ ok THEN "succeeded" ELSE Fails(g))
  BY DEF StoreResult
<1>6. rows \in [Steps -> Row]
  BY DEF IInv, TypeOK
<1>7. /\ rows' \in [Steps -> Row] /\ StatusKept
      /\ \A t \in Steps : rows'[t].attempt = rows[t].attempt
      /\ \A t \in Steps : rows'[t].status = "skipped" => rows[t].status = "skipped"
      /\ run = "completed" => rows' = rows
  <2>1. CASE ok
    <3>1. rows[s] \in Row /\ rows[s].status \in {"running", "retryable"} /\ run = "running"
      BY <1>6, <2>1 DEF AcceptsResult
    <3>2. /\ [rows[s] EXCEPT !.status = r] \in Row
          /\ [rows[s] EXCEPT !.status = r].status = r
          /\ [rows[s] EXCEPT !.status = r].attempt = rows[s].attempt
      BY <3>1 DEF Row, StepStatus, Final
    <3>3. rows' = [rows EXCEPT ![s] = [rows[s] EXCEPT !.status = r]]
      BY <1>5, <1>6, <2>1
    <3> QED
      BY <1>6, <3>1, <3>2, <3>3 DEF StatusKept, Final
  <2>2. CASE ~ ok
    BY <1>5, <1>6, <2>2 DEF StatusKept
  <2> QED
    BY <2>1, <2>2
<1>8. StoreType'
  BY <1>1, <1>7 DEF IInv, TypeOK, StoreType, disk
<1>9. DatabaseFits'
  <2>1. CallsWithinTries'
    BY <1>1, <1>7 DEF IInv, DatabaseFits, CallsWithinTries
  <2>2. ASSUME NEW t \in Steps, rows'[t].attempt > 0 PROVE DependenciesSucceeded(t, rows')
    BY <1>7, <2>2, DoneIsKept DEF IInv, DatabaseFits, DependenciesFirst
  <2>3. GateNeedsApproval'
    BY <1>1, <1>3 DEF IInv, DatabaseFits, GateNeedsApproval
  <2>4. \A t \in Steps : (rows[t].status = "skipped" => ~ Condition(t))'
    BY <1>1, <1>7 DEF IInv, DatabaseFits, Condition
  <2>5. CompletedMeansDone'
    BY <1>1, <1>7 DEF IInv, DatabaseFits, CompletedMeansDone
  <2>6. (decision = "approved" => consent)'
    BY <1>1, <1>3 DEF IInv, DatabaseFits
  <2> QED
    BY <2>1, <2>2, <2>3, <2>4, <2>5, <2>6 DEF DatabaseFits, DependenciesFirst
<1>10. CASE a < MaxTries[s] /\ SetExec(g, s, "ready", a + 1, "none")
  <2>1. a + 1 \in Nat /\ a + 1 # 0 /\ a + 1 <= MaxTries[s]
    BY <1>2, <1>10
  <2> HIDE DEF a
  <2> QED
    BY <1>1, <1>4, <1>7, <1>8, <1>9, <1>10, <2>1, ExecInv
<1>11. CASE SetExec(g, s, "ended", a, IF r = "succeeded" /\ ok THEN "succeeded" ELSE Fails(g))
  <2> DEFINE o == IF r = "succeeded" /\ ok THEN "succeeded" ELSE Fails(g)
  <2>1. o \in Outcomes /\ o # "none" /\ SetExec(g, s, "ended", a, o)
    BY <1>4, <1>11, ExecType
  <2> HIDE DEF o, a
  <2> QED
    BY <1>1, <1>2, <1>4, <1>7, <1>8, <1>9, <2>1, ExecInv
<1> QED
  BY <1>5, <1>10, <1>11

-----------------------------------------------------------------------------
(* The operator's decisions.                                               *)

\* No engine moves: what each of them claims still stands.
LEMMA StillInv ==
    ASSUME IInv, UNCHANGED <<pc, mem, ex, holds>>, StoreType', DatabaseFits', StatusKept,
           consent => consent'
    PROVE  IInv'
<1>1. TypeOK'
  BY DEF IInv, TypeOK, StoreType
<1>2. ASSUME NEW h \in Engines PROVE EngineFits(h)'
  BY OthersFit DEF IInv
<1> QED
  BY <1>1, <1>2 DEF IInv

\* The pending request is approved: the operator consents.
LEMMA ApproveInv ==
    ASSUME IInv, Approve
    PROVE  IInv'
<1>1. consent' /\ consent' \in BOOLEAN
  BY DEF Approve
<1>2. StoreType'
  BY <1>1 DEF Approve, IInv, TypeOK, StoreType, disk
<1>3. StatusKept
  BY DEF Approve, StatusKept
<1>4. DatabaseFits'
  BY <1>1 DEF Approve, IInv, DatabaseFits, CallsWithinTries, DependenciesFirst, GateNeedsApproval,
              CompletedMeansDone, DependenciesSucceeded, Condition
<1> QED
  BY <1>1, <1>2, <1>3, <1>4, StillInv DEF Approve

\* A rejection fails a step that waits, and the run with it.
LEMMA RejectInv ==
    ASSUME IInv, Reject
    PROVE  IInv'
<1>1. PICK s \in Gated :
        /\ rows[s].status = "awaiting_approval"
        /\ rows' = [rows EXCEPT ![s].status = "failed"]
  BY DEF Reject
<1>2. /\ decision' = "rejected" /\ run' = "failed"
      /\ UNCHANGED <<disk, holds, calls, pc, mem, ex, starts, consent>>
  BY DEF Reject
<1>3. s \in Steps /\ rows \in [Steps -> Row] /\ rows[s] \in Row
  BY DefinitionAssumption DEF IInv, TypeOK
<1>4. /\ [rows[s] EXCEPT !.status = "failed"] \in Row
      /\ [rows[s] EXCEPT !.status = "failed"].status = "failed"
      /\ [rows[s] EXCEPT !.status = "failed"].attempt = rows[s].attempt
  BY <1>3 DEF Row, StepStatus, Final
<1>5. rows' = [rows EXCEPT ![s] = [rows[s] EXCEPT !.status = "failed"]]
  BY <1>1, <1>3
<1>6. /\ rows' \in [Steps -> Row] /\ StatusKept
      /\ \A t \in Steps : rows'[t].attempt = rows[t].attempt
      /\ \A t \in Steps : rows'[t].status = "skipped" => rows[t].status = "skipped"
  BY <1>1, <1>3, <1>4, <1>5 DEF StatusKept, Final
<1>7. StoreType' /\ (consent => consent')
  BY <1>2, <1>6 DEF IInv, TypeOK, StoreType, disk, RunStatus, Ended
<1>8. DatabaseFits'
  <2>1. CallsWithinTries'
    BY <1>2, <1>6 DEF IInv, DatabaseFits, CallsWithinTries
  <2>2. ASSUME NEW t \in Steps, rows'[t].attempt > 0 PROVE DependenciesSucceeded(t, rows')
    BY <1>6, <2>2, DoneIsKept DEF IInv, DatabaseFits, DependenciesFirst
  <2>3. GateNeedsApproval'
    BY <1>2, <1>7 DEF IInv, DatabaseFits, GateNeedsApproval
  <2>4. \A t \in Steps : (rows[t].status = "skipped" => ~ Condition(t))'
    BY <1>2, <1>6 DEF IInv, DatabaseFits, Condition
  <2>5. CompletedMeansDone' /\ (decision = "approved" => consent)'
    BY <1>2 DEF CompletedMeansDone
  <2> QED
    BY <2>1, <2>2, <2>3, <2>4, <2>5 DEF DatabaseFits, DependenciesFirst
<1> QED
  BY <1>2, <1>6, <1>7, <1>8, StillInv

-----------------------------------------------------------------------------
(* The invariant.                                                          *)

\* It holds before any engine has started.
LEMMA InitInv == Init => IInv
<1> SUFFICES ASSUME Init PROVE IInv
  OBVIOUS
<1>1. TypeOK
  BY NothingFits DEF Init, TypeOK, RunStatus, Pcs
<1>2. /\ \A s \in Steps : rows[s] = NoRow /\ calls[s] = 0 /\ MaxTries[s] \in Nat
      /\ NoRow.status = "none" /\ NoRow.attempt = 0
  BY DefinitionAssumption DEF Init, NoRow
<1>3. DatabaseFits
  BY <1>2, DefinitionAssumption DEF Init, DatabaseFits, CallsWithinTries, DependenciesFirst,
         GateNeedsApproval, CompletedMeansDone
<1>4. ASSUME NEW g \in Engines PROVE EngineFits(g)
  <2>1. pc[g] = "idle" /\ mem[g] = NoMemory /\ \A s \in Steps : ex[g][s] = NoExec
    BY DEF Init
  <2> QED
    BY <2>1, NothingFits DEF EngineFits, At, MemoryFits, ExecFits
<1> QED
  BY <1>1, <1>3, <1>4 DEF IInv

\* Every step of every engine, every crash and every decision keeps it.
LEMMA NextInv == IInv /\ [Next]_vars => IInv'
<1> SUFFICES ASSUME IInv, [Next]_vars PROVE IInv'
  OBVIOUS
<1>1. ASSUME NEW g \in Engines, EngineStep(g) PROVE IInv'
  BY <1>1, InitialSaveInv, FileSaveInv, PlanWaveInv, EndWaveInv, CommitOutcomeInv, ExitsInv,
     BeginStepInv, CallProviderInv, StoreResultInv, CancelWaitInv DEF EngineStep
<1>2. ASSUME NEW g \in Engines, Crash(g) PROVE IInv'
  <2>1. /\ Return(g) /\ UNCHANGED <<db, disk, holds, calls, starts, consent>>
        /\ written' \in BOOLEAN /\ file' \in SUBSET Steps
    BY <1>2 DEF Crash, IInv, TypeOK, disk
  <2> QED
    BY <2>1, ReturnInv
<1>3. CASE UNCHANGED vars
  <2>1. /\ UNCHANGED <<pc, mem, ex, holds, db, calls>> /\ (consent => consent')
    BY <1>3 DEF vars
  <2>2. StoreType'
    BY <1>3 DEF vars, db, disk, IInv, TypeOK, StoreType
  <2>3. DatabaseFits' /\ StatusKept
    BY <2>1, DatabaseKept
  <2> QED
    BY <2>1, <2>2, <2>3, StillInv
<1> QED
  BY <1>1, <1>2, <1>3, StartRunInv, ResumeRunInv, ControlInv, ApproveInv, RejectInv DEF Next

\* The inductive invariant holds of every behaviour.
THEOREM EngineInvariant == Spec => []IInv
BY InitInv, NextInv, PTL DEF Spec

\* No step is attempted before its dependencies are done in the database, so
\* the recorded order of a run is a topological order of its definition.
THEOREM AttemptsFollowDependencies == Spec => []DependenciesFirst
<1>1. IInv => DependenciesFirst
  BY DEF IInv, DatabaseFits
<1> QED
  BY <1>1, EngineInvariant, PTL

\* The gate is passed only with consent and the run is completed only when
\* every step is done.
THEOREM RunsAreSound == Spec => []RunIsSound
<1>1. IInv => RunIsSound
  BY DEF IInv, DatabaseFits, RunIsSound
<1> QED
  BY <1>1, EngineInvariant, PTL

-----------------------------------------------------------------------------
(* Attempts.                                                               *)

\* No attempt is counted, and no provider called.
NoCall ==
    /\ \A s \in Steps : rows'[s].attempt = rows[s].attempt
    /\ \A h \in Engines, s \in Steps : ex'[h][s].stage = "called" => ex'[h][s] = ex[h][s]

\* The goroutine of a step takes the next attempt and calls the provider.
Takes(g, s) ==
    /\ ex'[g][s].attempt = rows[s].attempt + 1 /\ rows'[s].attempt = rows[s].attempt + 1
    /\ \A t \in Steps \ {s} : rows'[t].attempt = rows[t].attempt
    /\ \A h \in Engines, t \in Steps : h # g \/ t # s => ex'[h][t] = ex[h][t]

\* An engine that returns leaves no goroutine behind.
LEMMA ReturnNoCall ==
    ASSUME TypeOK, NEW g \in Engines, Return(g), UNCHANGED rows
    PROVE  NoCall
<1>1. \A s \in Steps : ex'[g][s] = NoExec
  BY DEF Return, TypeOK
<1>2. \A h \in Engines \ {g} : ex'[h] = ex[h]
  BY DEF Return, TypeOK
<1> QED
  BY <1>1, <1>2 DEF NoCall, NoExec

\* A save counts no attempt.
LEMMA SaveNoCall ==
    ASSUME TypeOK, NEW g \in Engines, NEW m, NEW next, Save(g, m, next)
    PROVE  NoCall
<1>1. CASE CanSave(g, m)
  <2>1. ex' = ex /\ rows' = [s \in Steps |-> IF s \in Known(m.steps) THEN m.steps[s] ELSE rows[s]]
    BY <1>1 DEF Save
  <2> QED
    BY <1>1, <2>1 DEF CanSave, AttemptsMatch, NoCall
<1>2. CASE ~ CanSave(g, m)
  BY <1>2, ReturnNoCall DEF Save, db
<1> QED
  BY <1>1, <1>2

\* A goroutine that does not call the provider.
LEMMA ExecNoCall ==
    ASSUME TypeOK, NEW g \in Engines, NEW s \in Steps, NEW stage, NEW attempt, NEW outcome,
           SetExec(g, s, stage, attempt, outcome), stage # "called",
           \A t \in Steps : rows'[t].attempt = rows[t].attempt
    PROVE  NoCall
<1> DEFINE x == [stage |-> stage, attempt |-> attempt, outcome |-> outcome]
<1>1. ex' = [ex EXCEPT ![g] = [ex[g] EXCEPT ![s] = x]] /\ x.stage = stage
  BY DEF SetExec, TypeOK
<1> HIDE DEF x
<1>2. /\ \A h \in Engines \ {g} : ex'[h] = ex[h]
      /\ ex'[g][s] = x /\ \A t \in Steps \ {s} : ex'[g][t] = ex[g][t]
  BY <1>1 DEF TypeOK
<1> QED
  BY <1>1, <1>2 DEF NoCall

\* Every step of the machine calls no provider, or takes the next attempt.
LEMMA CallsTakeAttempts ==
    ASSUME TypeOK, [Next]_vars
    PROVE  NoCall \/ \E g \in Engines, s \in Steps : Takes(g, s)
<1>1. ASSUME UNCHANGED <<rows, ex>> PROVE NoCall
  BY <1>1 DEF NoCall
<1>2. ASSUME NEW g \in Engines, NEW s \in Steps, CallProvider(g, s)
      PROVE  NoCall \/ Takes(g, s)
  <2> DEFINE a == ex[g][s].attempt
  <2>1. CASE /\ OwnsAttempt(s, a) /\ rows' = [rows EXCEPT ![s].attempt = a]
             /\ SetExec(g, s, "called", a, "none")
    <3> DEFINE x == [stage |-> "called", attempt |-> a, outcome |-> "none"]
    <3>1. /\ ex' = [ex EXCEPT ![g] = [ex[g] EXCEPT ![s] = x]] /\ x.attempt = a
          /\ a = rows[s].attempt + 1
      BY <2>1 DEF SetExec, TypeOK, OwnsAttempt
    <3> HIDE DEF x
    <3>2. /\ \A h \in Engines \ {g} : ex'[h] = ex[h]
          /\ ex'[g][s] = x /\ \A t \in Steps \ {s} : ex'[g][t] = ex[g][t]
      BY <3>1 DEF TypeOK
    <3>3. rows \in [Steps -> Row] /\ rows[s] \in Row
      BY DEF TypeOK
    <3>4. [rows[s] EXCEPT !.attempt = a].attempt = a
      BY <3>3 DEF Row
    <3>5. rows' = [rows EXCEPT ![s] = [rows[s] EXCEPT !.attempt = a]]
      BY <2>1, <3>3
    <3>6. rows'[s].attempt = a /\ \A t \in Steps \ {s} : rows'[t] = rows[t]
      BY <3>3, <3>4, <3>5
    <3> QED
      BY <3>1, <3>2, <3>6 DEF Takes
  <2>2. CASE \E o : SetExec(g, s, "ended", a, o) /\ UNCHANGED <<rows, calls>>
    BY <2>2, ExecNoCall
  <2> QED
    BY <1>2, <2>1, <2>2, Zenon DEF CallProvider
<1>3. ASSUME NEW g \in Engines, NEW s \in Steps, StoreResult(g, s)
      PROVE  NoCall
  <2>1. PICK r : /\ rows' = IF AcceptsResult(s, ex[g][s].attempt)
                            THEN [rows EXCEPT ![s].status = r] ELSE rows
                 /\ \/ SetExec(g, s, "ready", ex[g][s].attempt + 1, "none")
                    \/ \E o : SetExec(g, s, "ended", ex[g][s].attempt, o)
    BY <1>3, Zenon DEF StoreResult
  <2>2. \A t \in Steps : rows'[t].attempt = rows[t].attempt
    <3>1. rows \in [Steps -> Row] /\ rows[s] \in Row
      BY DEF TypeOK
    <3>2. [rows[s] EXCEPT !.status = r].attempt = rows[s].attempt
      BY <3>1 DEF Row
    <3>3. [rows EXCEPT ![s].status = r] = [rows EXCEPT ![s] = [rows[s] EXCEPT !.status = r]]
      BY <3>1
    <3> QED
      BY <2>1, <3>1, <3>2, <3>3
  <2>3. "ready" # "called" /\ "ended" # "called"
    OBVIOUS
  <2>4. CASE SetExec(g, s, "ready", ex[g][s].attempt + 1, "none")
    BY <2>2, <2>3, <2>4, ExecNoCall
  <2>5. CASE \E o : SetExec(g, s, "ended", ex[g][s].attempt, o)
    BY <2>2, <2>3, <2>5, ExecNoCall
  <2> QED
    BY <2>1, <2>4, <2>5
<1>4. ASSUME NEW g \in Engines, NEW s \in Steps, BeginStep(g, s) \/ CancelWait(g, s)
      PROVE  NoCall
  <2>1. rows' = rows /\ \E stage \in {"ready", "ended"} : \E a, o : SetExec(g, s, stage, a, o)
    BY <1>4, Zenon DEF BeginStep, CancelWait, db
  <2> QED
    BY <2>1, ExecNoCall
<1>5. ASSUME Reject PROVE NoCall
  <2>1. PICK s \in Gated : rows' = [rows EXCEPT ![s].status = "failed"]
    BY <1>5 DEF Reject
  <2>2. ex' = ex /\ s \in Steps /\ rows \in [Steps -> Row] /\ rows[s] \in Row
    BY <1>5, DefinitionAssumption DEF Reject, TypeOK
  <2>3. [rows[s] EXCEPT !.status = "failed"].attempt = rows[s].attempt
    BY <2>2 DEF Row
  <2>4. rows' = [rows EXCEPT ![s] = [rows[s] EXCEPT !.status = "failed"]]
    BY <2>1, <2>2
  <2> QED
    BY <2>2, <2>3, <2>4 DEF NoCall
<1>6. ASSUME NEW g \in Engines, FileSave(g) \/ EndWave(g) \/ Crash(g) PROVE NoCall
  <2>1. rows' = rows /\ (Return(g) \/ ex' = ex)
    BY <1>6 DEF FileSave, EndWave, Crash, db
  <2> QED
    BY <1>1, <2>1, ReturnNoCall
<1>7. ASSUME NEW g \in Engines, EngineStep(g)
      PROVE  NoCall \/ \E s \in Steps : Takes(g, s)
  <2>1. CASE InitialSave(g) \/ PlanWave(g) \/ CommitOutcome(g)
    BY <2>1, SaveNoCall DEF InitialSave, PlanWave, CommitOutcome
  <2>2. CASE EngineCancel(g) \/ EngineFail(g) \/ EnginePause(g) \/ EngineComplete(g)
    BY <2>2, SaveNoCall DEF EngineCancel, EngineFail, EnginePause, EngineComplete, Exit
  <2> QED
    BY <1>2, <1>3, <1>4, <1>6, <1>7, <2>1, <2>2 DEF EngineStep
<1>8. ASSUME NEW g \in Engines, StartRun(g) \/ ResumeRun(g) \/ Control(g) PROVE NoCall
  BY <1>1, <1>8 DEF StartRun, ResumeRun, Control, db
<1>9. ASSUME Approve \/ UNCHANGED vars PROVE NoCall
  BY <1>1, <1>9 DEF Approve, vars, db
<1> QED
  BY <1>5, <1>6, <1>7, <1>8, <1>9 DEF Next

\* Each call has its own attempt: a new one is beyond all that were counted.
LEMMA OwnedNext == IInv /\ AttemptsAreOwned /\ [Next]_vars => AttemptsAreOwned'
<1> SUFFICES ASSUME IInv, AttemptsAreOwned, [Next]_vars PROVE AttemptsAreOwned'
  OBVIOUS
<1>1. TypeOK /\ TypeOK'
  BY NextInv DEF IInv
<1>2. /\ \A s \in Steps : rows[s].attempt \in Nat
      /\ \A h \in Engines, s \in Steps : ex[h][s].attempt \in Nat
  BY <1>1 DEF TypeOK, Row, Exec
<1>3. CASE NoCall
  BY <1>3 DEF NoCall, AttemptsAreOwned
<1>4. CASE \E g \in Engines, s \in Steps : Takes(g, s)
  <2>1. PICK g \in Engines, s \in Steps : Takes(g, s)
    BY <1>4
  <2>2. ASSUME NEW t \in Steps, NEW h \in Engines, NEW k \in Engines, ex'[h][t].stage = "called"
        PROVE  /\ ex'[h][t].attempt <= rows'[t].attempt
               /\ ex'[k][t].stage = "called" /\ ex'[k][t].attempt = ex'[h][t].attempt => h = k
    <3>1. CASE t # s
      BY <2>1, <2>2, <3>1 DEF Takes, AttemptsAreOwned
    <3>2. CASE t = s
      <4>1. rows'[t].attempt = rows[t].attempt + 1 /\ ex'[g][t].attempt = rows[t].attempt + 1
        BY <2>1, <3>2 DEF Takes
      <4>2. ASSUME NEW i \in Engines, i # g, ex'[i][t].stage = "called"
            PROVE  ex'[i][t] = ex[i][t] /\ ex[i][t].attempt <= rows[t].attempt
        BY <2>1, <4>2 DEF Takes, AttemptsAreOwned
      <4> QED
        BY <1>2, <2>2, <4>1, <4>2 DEF AttemptsAreOwned
    <3> QED
      BY <3>1, <3>2
  <2> QED
    BY <2>2 DEF AttemptsAreOwned
<1> QED
  BY <1>1, <1>3, <1>4, CallsTakeAttempts

\* Over all crashes, resumes and engines at once, a step is called at most as
\* often as its retry policy allows, and each call has its durable attempt.
THEOREM CallsKeepTheBudget == Spec => []CallsAreBudgeted
<1>1. Init => AttemptsAreOwned
  BY DEF Init, AttemptsAreOwned, NoExec
<1>2. IInv /\ AttemptsAreOwned => CallsAreBudgeted
  BY DEF IInv, DatabaseFits, CallsAreBudgeted
<1> QED
  BY <1>1, <1>2, OwnedNext, EngineInvariant, PTL DEF Spec

-----------------------------------------------------------------------------
(* What is final.                                                          *)

\* A step of the machine rewrites neither a final step nor an ended run.
LEMMA NothingFinalChanges ==
    ASSUME TypeOK, [Next]_vars
    PROVE  StatusKept /\ (run \in Ended => run' = run)
<1>1. ASSUME NEW g \in Engines, NEW m, NEW next, Save(g, m, next)
      PROVE  StatusKept /\ (run \in Ended => run' = run)
  <2>1. CASE CanSave(g, m)
    <3>1. run' = m.run /\ rows' = [s \in Steps |-> IF s \in Known(m.steps) THEN m.steps[s] ELSE rows[s]]
      BY <1>1, <2>1 DEF Save
    <3> QED
      BY <2>1, <3>1 DEF CanSave, LifecycleMatches, AttemptsMatch, StatusKept
  <2>2. CASE ~ CanSave(g, m)
    BY <1>1, <2>2 DEF Save, db, StatusKept
  <2> QED
    BY <2>1, <2>2
<1>2. ASSUME UNCHANGED <<run, rows>> PROVE StatusKept /\ (run \in Ended => run' = run)
  BY <1>2 DEF StatusKept
<1>3. ASSUME NEW g \in Engines, NEW s \in Steps, CallProvider(g, s)
      PROVE  StatusKept /\ (run \in Ended => run' = run)
  <2>1. run' = run
    BY <1>3 DEF CallProvider
  <2>2. CASE rows' = [rows EXCEPT ![s].attempt = ex[g][s].attempt]
    <3>1. rows \in [Steps -> Row] /\ rows[s] \in Row
      BY DEF TypeOK
    <3>2. [rows[s] EXCEPT !.attempt = ex[g][s].attempt].status = rows[s].status
      BY <3>1 DEF Row
    <3>3. rows' = [rows EXCEPT ![s] = [rows[s] EXCEPT !.attempt = ex[g][s].attempt]]
      BY <2>2, <3>1
    <3> QED
      BY <2>1, <3>1, <3>2, <3>3 DEF StatusKept
  <2> QED
    BY <1>2, <1>3, <2>1, <2>2 DEF CallProvider
<1>4. ASSUME NEW g \in Engines, NEW s \in Steps, StoreResult(g, s)
      PROVE  StatusKept /\ (run \in Ended => run' = run)
  <2>1. PICK r : rows' = IF AcceptsResult(s, ex[g][s].attempt)
                         THEN [rows EXCEPT ![s].status = r] ELSE rows
    BY <1>4 DEF StoreResult
  <2>2. run' = run
    BY <1>4 DEF StoreResult
  <2> QED
    BY <2>1, <2>2 DEF AcceptsResult, StatusKept, Final, TypeOK
<1>5. ASSUME Reject PROVE StatusKept /\ (run \in Ended => run' = run)
  BY <1>5 DEF Reject, StatusKept, Final, Ended, TypeOK
<1>6. ASSUME NEW g \in Engines, EngineStep(g)
      PROVE  StatusKept /\ (run \in Ended => run' = run)
  <2>1. CASE InitialSave(g) \/ PlanWave(g) \/ CommitOutcome(g)
    BY <1>1, <2>1 DEF InitialSave, PlanWave, CommitOutcome
  <2>2. CASE EngineCancel(g) \/ EngineFail(g) \/ EnginePause(g) \/ EngineComplete(g)
    BY <1>1, <2>2 DEF EngineCancel, EngineFail, EnginePause, EngineComplete, Exit
  <2>3. CASE FileSave(g) \/ EndWave(g)
    BY <1>2, <2>3 DEF FileSave, EndWave, db
  <2>4. CASE \E s \in Steps : BeginStep(g, s) \/ CancelWait(g, s)
    BY <1>2, <2>4 DEF BeginStep, CancelWait, db
  <2> QED
    BY <1>3, <1>4, <1>6, <2>1, <2>2, <2>3, <2>4 DEF EngineStep
<1>7. ASSUME NEW g \in Engines, StartRun(g) \/ ResumeRun(g) \/ Crash(g) \/ Control(g)
      PROVE  UNCHANGED <<run, rows>>
  BY <1>7 DEF StartRun, ResumeRun, Crash, Control, db
<1>8. ASSUME Approve \/ UNCHANGED vars PROVE UNCHANGED <<run, rows>>
  BY <1>8 DEF Approve, vars, db
<1> QED
  BY <1>2, <1>5, <1>6, <1>7, <1>8 DEF Next

\* Neither a late save nor a late result of another engine rewrites a final
\* step or an ended run.
THEOREM FinalStaysFinal == Spec => HistoryIsFinal
<1>1. IInv /\ [Next]_vars =>
        [/\ \A s \in Steps : rows[s].status \in Final => rows'[s].status = rows[s].status
         /\ run \in Ended => run' = run]_vars
  BY NothingFinalChanges DEF IInv, StatusKept
<1> QED
  BY <1>1, EngineInvariant, PTL DEF Spec, HistoryIsFinal
-----------------------------------------------------------------------------
(* A lone engine.  With a rival the rows of a wave may be ahead of what    *)
(* its engine knows; without one they are where its goroutines left them.  *)

\* There is no more than one engine.
Lone == \A g, h \in Engines : g = h

\* A goroutine that has not ended belongs to the wave, which the engine is
\* waiting for; one that has ended, to a step that is not launched again.
ExecsFit(g) ==
    \A s \in Steps :
        /\ pc[g] = "idle" => ex[g][s].stage = "off"
        /\ ex[g][s].stage \in {"ready", "called"} => pc[g] = "wave" /\ s \in mem[g].wave
        /\ ex[g][s].stage # "off" =>
              s \in mem[g].wave \cup mem[g].finished \/ mem[g].failed \/ mem[g].ctl = "cancel"

\* The row of a step of the wave is where the step's goroutine left it, and
\* as it was launched until an attempt is made.
Tracks(row, mine, x) ==
    /\ mine.status \in {"running", "retryable"}
    /\ mine.attempt <= row.attempt
    /\ row.attempt = mine.attempt => row = mine
    /\ x.stage = "off" => row = mine
    /\ x.stage = "ready" => row.attempt + 1 = x.attempt /\ row.status \in {"running", "retryable"}
    /\ x.stage = "called" =>
          row.attempt = x.attempt /\ mine.attempt < row.attempt /\ row.status \in {"running", "retryable"}
    /\ x.stage = "ended" =>
          /\ row.attempt = x.attempt
          /\ \/ x.outcome = "succeeded" /\ row.status = "succeeded"
             \/ x.outcome = "failed" /\ row.status \in {"running", "retryable", "failed"}

\* The labels between the first save of Engine.Run and the last one.
Inside == {"loop", "wave", "commit", "after"}

\* The database is what the engine remembers, but for the steps of its wave;
\* a run that a rejection has ended and an engine that is cancelled aside.
RowsTracked(g) ==
    LET m == mem[g] IN
    /\ At(g) = "start" /\ run \notin Ended => rows = m.steps
    /\ At(g) \in Inside /\ run = "running" /\ m.ctl # "cancel" =>
          \A s \in Steps : IF s \in m.wave THEN Tracks(rows[s], m.steps[s], ex[g][s])
                           ELSE rows[s] = m.steps[s]

LoneFits(g) ==
    /\ At(g) = "start" => mem[g].ctl = "none" /\ ~mem[g].failed /\ mem[g].finished = {}
    /\ At(g) \in Inside => run \in Ended \cup {"running"}
    /\ At(g) \in {"loop", "after"} => mem[g].wave = {}
    /\ At(g) = "wave" => ~mem[g].failed
    /\ ExecsFit(g)
    /\ RowsTracked(g)

LoneInv ==
    /\ run = "none" => rows = [s \in Steps |-> NoRow]
    /\ \A g \in Engines : LoneFits(g)

\* It is enough to look at the engine that moves.
LEMMA LoneIsAll ==
    ASSUME Lone, NEW g \in Engines, (run = "none" => rows = [s \in Steps |-> NoRow])', LoneFits(g)'
    PROVE  LoneInv'
BY DEF Lone, LoneInv

\* An engine that returns claims nothing.
LEMMA ReturnLone ==
    ASSUME IInv, LoneInv, Lone, NEW g \in Engines, Return(g), UNCHANGED <<run, rows>>
    PROVE  LoneInv'
<1>1. pc'[g] = "idle" /\ mem'[g] = NoMemory /\ \A s \in Steps : ex'[g][s] = NoExec
  BY DEF Return, Goto, IInv, TypeOK
<1>2. At(g)' = "idle"
  BY <1>1 DEF At
<1>3. LoneFits(g)'
  BY <1>1, <1>2, NothingFits DEF LoneFits, ExecsFit, RowsTracked, Inside
<1>4. (run = "none" => rows = [s \in Steps |-> NoRow])'
  BY DEF LoneInv
<1> QED
  BY <1>3, <1>4, LoneIsAll

\* What a save of the state m leaves in the rows.
Saved(m) == [s \in Steps |-> IF s \in Known(m.steps) THEN m.steps[s] ELSE rows[s]]

\* A save that is not refused leaves the engine with rows it knows.
LEMMA SaveLone ==
    ASSUME IInv, LoneInv, Lone, NEW g \in Engines, NEW m \in Memory, NEW next \in Pcs, Save(g, m, next),
           m.run # "none", next # "start", next # "file",
           next \in Inside => m.run = "running",
           next \in {"loop", "after"} => m.wave = {},
           next = "wave" => ~m.failed,
           CanSave(g, m) =>
             /\ \A s \in Steps :
                   /\ ex[g][s].stage \notin {"ready", "called"}
                   /\ ex[g][s].stage # "off" => s \in m.wave \cup m.finished \/ m.failed \/ m.ctl = "cancel"
             /\ next \in Inside /\ m.ctl # "cancel" =>
                  \A s \in Steps : IF s \in m.wave THEN Tracks(Saved(m)[s], m.steps[s], ex[g][s])
                                   ELSE Saved(m)[s] = m.steps[s]
    PROVE  LoneInv'
<1>1. CASE ~ CanSave(g, m)
  BY <1>1, ReturnLone DEF Save, db
<1>2. CASE CanSave(g, m)
  <2> DEFINE y == [m EXCEPT !.next = next]
  <2>1. /\ run' = m.run /\ rows' = Saved(m) /\ pc' = [pc EXCEPT ![g] = "file"]
        /\ mem' = [mem EXCEPT ![g] = y] /\ ex' = ex
    BY <1>2 DEF Save, Goto, Saved
  <2>2. /\ y.steps = m.steps /\ y.finished = m.finished /\ y.wave = m.wave /\ y.next = next
        /\ y.failed = m.failed /\ y.ctl = m.ctl
    BY DEF Memory
  <2> HIDE DEF y
  <2>3. pc'[g] = "file" /\ mem'[g] = y /\ At(g)' = next
    BY <2>1, <2>2 DEF IInv, TypeOK, At
  <2>4. ExecsFit(g)'
    BY <1>2, <2>1, <2>2, <2>3 DEF ExecsFit
  <2>5. RowsTracked(g)'
    BY <1>2, <2>1, <2>2, <2>3 DEF RowsTracked
  <2>6. LoneFits(g)'
    BY <2>1, <2>2, <2>3, <2>4, <2>5 DEF LoneFits
  <2> QED
    BY <2>1, <2>6, LoneIsAll
<1> QED
  BY <1>1, <1>2

\* What the invariants say of an engine that is not writing its file.
LEMMA LoneMemory ==
    ASSUME IInv, LoneInv, NEW g \in Engines, pc[g] # "file"
    PROVE  /\ mem[g] \in Memory /\ MemoryFits(mem[g], pc[g]) /\ At(g) = pc[g] /\ LoneFits(g)
           /\ pc[g] = "commit" => Committable(mem[g], ex[g])
BY EngineMemory DEF At, LoneInv

\* A save that would go on with the run is refused once the run has ended.
LEMMA SaveNeedsRun ==
    ASSUME NEW g, NEW m, CanSave(g, m), m.run = "running"
    PROVE  run \notin Ended
BY DEF CanSave, LifecycleMatches, Ended

\* The first save writes back what the engine was started with.
LEMMA InitialSaveLone ==
    ASSUME IInv, LoneInv, Lone, NEW g \in Engines, InitialSave(g)
    PROVE  LoneInv'
<1> DEFINE m == mem[g]
           y == [m EXCEPT !.finished = Retained(m.steps)]
<1>1. /\ m \in Memory /\ MemoryFits(m, "start") /\ At(g) = "start" /\ LoneFits(g)
      /\ pc[g] = "start"
  BY LoneMemory DEF InitialSave
<1>2. m.wave = {} /\ m.run = "running" /\ m.ctl = "none" /\ ~m.failed /\ m.finished = {}
  BY <1>1 DEF MemoryFits, LoneFits
<1>3. /\ y \in Memory /\ y.run = m.run /\ y.steps = m.steps /\ y.wave = {}
      /\ y.ctl = m.ctl
  BY <1>1, <1>2 DEF Memory, Retained
<1>4. Save(g, y, "loop")
  BY DEF InitialSave
<1> HIDE DEF y
<1>5. \A s \in Steps : ex[g][s].stage = "off"
  BY <1>1, <1>2 DEF LoneFits, ExecsFit
<1>6. CanSave(g, y) => \A s \in Steps : Saved(y)[s] = y.steps[s]
  BY <1>1, <1>2, <1>3, SaveNeedsRun DEF LoneFits, RowsTracked, Saved
<1>7. "loop" \in Pcs /\ "loop" \notin {"start", "file", "wave"} /\ y.run = "running"
  BY <1>2, <1>3 DEF Pcs
<1> QED
  BY <1>3, <1>4, <1>5, <1>6, <1>7, SaveLone

\* No goroutine is at work while the engine is not waiting for a wave.
LEMMA NoneInFlight ==
    ASSUME LoneInv, NEW g \in Engines, pc[g] # "wave"
    PROVE  \A s \in Steps : ex[g][s].stage \notin {"ready", "called"}
BY DEF LoneInv, LoneFits, ExecsFit

\* The last save of the run.
LEMMA ExitsLone ==
    ASSUME IInv, LoneInv, Lone, NEW g \in Engines,
           EngineCancel(g) \/ EngineFail(g) \/ EnginePause(g) \/ EngineComplete(g)
    PROVE  LoneInv'
<1>1. PICK status \in {"cancelled", "failed", "paused", "completed"} : Exit(g, status)
  BY DEF EngineCancel, EngineFail, EnginePause, EngineComplete
<1>2. pc[g] \in {"loop", "after"}
  BY DEF EngineCancel, EngineFail, EnginePause, EngineComplete
<1> DEFINE m == mem[g]
           y == [m EXCEPT !.run = status]
<1>3. m \in Memory /\ LoneFits(g)
  BY <1>2, LoneMemory
<1>4. /\ y \in Memory /\ y.run = status /\ y.steps = m.steps /\ y.wave = m.wave
      /\ y.finished = m.finished /\ y.ctl = m.ctl /\ y.failed = m.failed
  BY <1>3 DEF Memory, RunStatus, Ended
<1>5. Save(g, y, "idle")
  BY <1>1 DEF Exit
<1> HIDE DEF y
<1>6. \A s \in Steps :
        /\ ex[g][s].stage \notin {"ready", "called"}
        /\ ex[g][s].stage # "off" => s \in y.wave \cup y.finished \/ y.failed \/ y.ctl = "cancel"
  BY <1>2, <1>3, <1>4, NoneInFlight DEF LoneFits, ExecsFit
<1>7. "idle" \in Pcs /\ "idle" \notin {"start", "file", "wave", "loop", "after"} /\ "idle" \notin Inside
      /\ y.run # "none"
  BY <1>1, <1>4 DEF Pcs, Inside
<1> QED
  BY <1>4, <1>5, <1>6, <1>7, SaveLone

\* The save that launches a wave: its steps have no goroutine yet, and their
\* rows are those of the memory.
LEMMA PlanWaveLone ==
    ASSUME IInv, LoneInv, Lone, NEW g \in Engines, PlanWave(g)
    PROVE  LoneInv'
<1> DEFINE m == mem[g]
           seen    == Considered(m)
           skipped == {s \in seen : ~Condition(s)}
           waiting == {s \in seen : Condition(s) /\ ~Launches(m, s)}
           wave    == {s \in seen : Launches(m, s)}
           steps == [s \in Steps |->
                    CASE s \in skipped -> Transition(m.steps[s], "skipped")
                      [] s \in waiting -> Transition(m.steps[s], "awaiting_approval")
                      [] s \in wave    -> Transition(m.steps[s], "running")
                      [] OTHER         -> m.steps[s]]
           next == IF wave = {} THEN "loop" ELSE "wave"
           a == [m EXCEPT !.steps = steps]
           b == [a EXCEPT !.finished = m.finished \cup skipped]
           c == [b EXCEPT !.blocked = m.blocked \cup waiting]
           y == [c EXCEPT !.wave = wave]
<1>1. /\ m \in Memory /\ MemoryFits(m, pc[g]) /\ At(g) = pc[g] /\ LoneFits(g)
      /\ pc[g] \in {"loop", "after"} /\ m.ctl = "none" /\ ~m.failed
  BY LoneMemory DEF PlanWave
<1>2. m.run = "running" /\ m.wave = {}
  BY <1>1 DEF MemoryFits, LoneFits
<1>3. /\ \A s \in Steps : m.steps[s] \in Row
      /\ m.finished \subseteq Steps /\ m.blocked \subseteq Steps
  BY <1>1 DEF Memory
<1>4. seen \subseteq Steps /\ \A s \in seen : s \notin m.finished
  BY DEF Considered, Ready
<1>5. /\ \A s \in skipped : steps[s] = Transition(m.steps[s], "skipped")
      /\ \A s \in waiting : steps[s] = Transition(m.steps[s], "awaiting_approval")
      /\ \A s \in wave : steps[s] = Transition(m.steps[s], "running")
      /\ \A s \in Steps \ seen : steps[s] = m.steps[s]
      /\ \A s \in seen : s \in skipped \/ s \in waiting \/ s \in wave
      /\ skipped \subseteq Steps /\ waiting \subseteq Steps /\ wave \subseteq seen
  BY <1>4 DEF Launches
<1>6. ASSUME NEW s \in seen, NEW st \in StepStatus \ {"none"}
      PROVE  /\ Transition(m.steps[s], st) \in Row
             /\ Transition(m.steps[s], st).status \in {st, "retryable"}
             /\ Transition(m.steps[s], st).status # "none"
  BY <1>3, <1>4 DEF Transition, Row, StepStatus
<1>7. {"skipped", "awaiting_approval", "running"} \subseteq StepStatus \ {"none"}
  BY DEF StepStatus, Final
<1>8. /\ \A s \in seen : steps[s] \in Row /\ steps[s].status # "none"
      /\ \A s \in wave : steps[s].status \in {"running", "retryable"}
  BY <1>5, <1>6, <1>7
<1>9. steps \in [Steps -> Row]
  <2>1. ASSUME NEW s \in Steps PROVE steps[s] \in Row
    BY <1>3, <1>5, <1>8
  <2> QED
    BY <2>1
<1>10. Save(g, y, next)
  BY DEF PlanWave
<1> HIDE DEF steps, skipped, waiting, wave, seen
<1>11. /\ a \in Memory /\ a.run = m.run /\ a.steps = steps /\ a.finished = m.finished
       /\ a.blocked = m.blocked /\ a.ctl = m.ctl /\ a.failed = m.failed
  BY <1>1, <1>9 DEF Memory
<1> HIDE DEF a
<1>12. /\ b \in Memory /\ b.run = m.run /\ b.steps = steps /\ b.finished = m.finished \cup skipped
       /\ b.blocked = m.blocked /\ b.ctl = m.ctl /\ b.failed = m.failed
  BY <1>3, <1>5, <1>11 DEF Memory
<1> HIDE DEF b
<1>13. /\ c \in Memory /\ c.run = m.run /\ c.steps = steps /\ c.finished = m.finished \cup skipped
       /\ c.ctl = m.ctl /\ c.failed = m.failed
  BY <1>3, <1>5, <1>12 DEF Memory
<1> HIDE DEF c
<1>14. /\ y \in Memory /\ y.run = m.run /\ y.steps = steps /\ y.finished = m.finished \cup skipped
       /\ y.ctl = m.ctl /\ y.failed = m.failed /\ y.wave = wave
  BY <1>4, <1>5, <1>13 DEF Memory
<1> HIDE DEF y
<1>15. /\ next \in Pcs /\ next \in Inside /\ next # "start" /\ next # "file" /\ next # "after"
       /\ next = "loop" => wave = {}
  BY DEF Pcs, Inside
<1> HIDE DEF next
<1>16. \A s \in Steps : ex[g][s].stage # "off" => s \in m.finished
  BY <1>1, <1>2 DEF LoneFits, ExecsFit
<1>17. ASSUME CanSave(g, y), NEW s \in Steps PROVE Saved(y)[s] = y.steps[s]
  <2>1. rows[s] = m.steps[s]
    BY <1>1, <1>2, <1>14, <1>17, SaveNeedsRun DEF LoneFits, RowsTracked, Inside
  <2>2. CASE s \in seen
    BY <1>8, <1>14, <2>2 DEF Saved, Known
  <2>3. CASE s \notin seen
    BY <1>5, <1>14, <2>1, <2>3 DEF Saved
  <2> QED
    BY <2>2, <2>3
<1>18. ASSUME NEW s \in wave PROVE ex[g][s].stage = "off"
  BY <1>4, <1>5, <1>16
<1>19. ASSUME CanSave(g, y), NEW s \in Steps
       PROVE  IF s \in y.wave THEN Tracks(Saved(y)[s], y.steps[s], ex[g][s]) ELSE Saved(y)[s] = y.steps[s]
  BY <1>8, <1>9, <1>14, <1>17, <1>18, <1>19 DEF Tracks, Row
<1>20. \A s \in Steps :
         /\ ex[g][s].stage \notin {"ready", "called"}
         /\ ex[g][s].stage # "off" => s \in y.wave \cup y.finished \/ y.failed \/ y.ctl = "cancel"
  BY <1>1, <1>14, <1>16, NoneInFlight
<1>21. y.run = "running" /\ ~y.failed /\ (next \in {"loop", "after"} => y.wave = {})
  BY <1>1, <1>2, <1>14, <1>15
<1> QED
  BY <1>10, <1>14, <1>15, <1>19, <1>20, <1>21, SaveLone

\* An outcome is committed.  The rows of its siblings are written back as they
\* were launched, which the save allows only if they made no attempt.
LEMMA CommitOutcomeLone ==
    ASSUME IInv, LoneInv, Lone, NEW g \in Engines, CommitOutcome(g)
    PROVE  LoneInv'
<1> DEFINE m == mem[g]
           s == First(m)
           o == ex[g][s]
           a == [m EXCEPT !.steps = [m.steps EXCEPT ![s] = Committed(o)]]
           b == [a EXCEPT !.finished = IF o.outcome = "succeeded" THEN m.finished \cup {s} ELSE m.finished]
           c == [b EXCEPT !.failed = m.failed \/ o.outcome = "failed"]
           y == [c EXCEPT !.wave = m.wave \ {s}]
           next == IF Outcome(g).wave = {} THEN "after" ELSE "commit"
<1>1. /\ m \in Memory /\ MemoryFits(m, "commit") /\ Committable(m, ex[g])
      /\ pc[g] = "commit" /\ At(g) = "commit" /\ LoneFits(g)
  BY LoneMemory DEF CommitOutcome
<1>2. m.wave # {} /\ s \in m.wave /\ m.wave \subseteq Steps /\ m.run = "running"
  BY <1>1, FirstIsInWave DEF MemoryFits, Memory
<1>3. o \in Exec /\ o.stage = "ended" /\ o.outcome \in {"succeeded", "failed", "cancelled"}
  BY <1>1, <1>2 DEF Committable, IInv, TypeOK
<1>4. Committed(o) \in Row /\ Committed(o).status = o.outcome
  BY <1>3 DEF Committed, Row, StepStatus, Final, Exec
<1>5. Outcome(g) = y
  BY DEF Outcome
<1>6. Save(g, y, next) /\ next = IF y.wave = {} THEN "after" ELSE "commit"
  BY <1>5 DEF CommitOutcome
<1> HIDE DEF next, y, c, b, a, o, s
<1>7. /\ a \in Memory /\ a.run = m.run /\ a.steps = [m.steps EXCEPT ![s] = Committed(o)] /\ a.ctl = m.ctl
  BY <1>1, <1>2, <1>4 DEF Memory, a
<1>8. /\ b \in Memory /\ b.run = m.run /\ b.steps = [m.steps EXCEPT ![s] = Committed(o)] /\ b.ctl = m.ctl
      /\ b.finished = IF o.outcome = "succeeded" THEN m.finished \cup {s} ELSE m.finished
  BY <1>1, <1>2, <1>7 DEF Memory, b
<1>9. /\ c \in Memory /\ c.run = m.run /\ c.steps = b.steps /\ c.ctl = m.ctl
      /\ c.finished = b.finished /\ c.failed = (m.failed \/ o.outcome = "failed")
  BY <1>1, <1>8 DEF Memory, c
<1>10. /\ y \in Memory /\ y.run = m.run /\ y.steps = [m.steps EXCEPT ![s] = Committed(o)]
       /\ y.ctl = m.ctl /\ y.wave = m.wave \ {s} /\ y.failed = (m.failed \/ o.outcome = "failed")
       /\ y.finished = IF o.outcome = "succeeded" THEN m.finished \cup {s} ELSE m.finished
  BY <1>1, <1>2, <1>8, <1>9 DEF Memory, y
<1>11. /\ next \in Pcs /\ next \in Inside /\ next \in {"after", "commit"}
       /\ next = "after" => y.wave = {}
  BY <1>6 DEF Pcs, Inside
<1>12. /\ m.steps \in [Steps -> Row] /\ y.steps[s].status = o.outcome
       /\ \A t \in Steps \ {s} : y.steps[t] = m.steps[t]
  BY <1>1, <1>2, <1>4, <1>10 DEF Memory
<1>13. ASSUME CanSave(g, y), m.ctl # "cancel", NEW t \in Steps
       PROVE  IF t \in m.wave THEN Tracks(rows[t], m.steps[t], ex[g][t]) ELSE rows[t] = m.steps[t]
  <2>1. run = "running"
    BY <1>1, <1>2, <1>10, <1>13, SaveNeedsRun DEF LoneFits, Inside
  <2> QED
    BY <1>1, <1>13, <2>1 DEF LoneFits, RowsTracked, Inside
<1>14. ASSUME CanSave(g, y), m.ctl # "cancel", NEW t \in Steps
       PROVE  IF t \in y.wave THEN Tracks(Saved(y)[t], y.steps[t], ex[g][t]) ELSE Saved(y)[t] = y.steps[t]
  <2>1. CASE t = s
    BY <1>3, <1>10, <1>12, <2>1 DEF Saved, Known
  <2>2. CASE t # s /\ t \notin m.wave
    BY <1>10, <1>12, <1>13, <1>14, <2>2 DEF Saved
  <2>3. CASE t # s /\ t \in m.wave
    <3>1. Tracks(rows[t], m.steps[t], ex[g][t]) /\ ex[g][t].stage = "ended" /\ y.steps[t] = m.steps[t]
      BY <1>1, <1>12, <1>13, <1>14, <2>3 DEF Committable
    <3>2. t \in Known(y.steps) /\ Saved(y)[t] = m.steps[t]
      BY <3>1 DEF Tracks, Known, Saved
    <3>3. /\ m.steps[t].attempt = rows[t].attempt
          /\ rows[t].status \in Final => m.steps[t].status = rows[t].status
      BY <1>14, <3>1, <3>2 DEF CanSave, AttemptsMatch
    <3>4. Tracks(m.steps[t], m.steps[t], ex[g][t])
      BY <3>1, <3>3 DEF Tracks, Final
    <3> QED
      BY <1>10, <2>3, <3>1, <3>2, <3>4
  <2> QED
    BY <2>1, <2>2, <2>3
<1>15. ASSUME CanSave(g, y), NEW t \in Steps
       PROVE  /\ ex[g][t].stage \notin {"ready", "called"}
              /\ ex[g][t].stage # "off" => t \in y.wave \cup y.finished \/ y.failed \/ y.ctl = "cancel"
  <2>1. ex[g][t].stage \notin {"ready", "called"}
    BY <1>1, NoneInFlight
  <2>2. CASE t # s
    BY <1>1, <1>10, <2>1, <2>2 DEF LoneFits, ExecsFit
  <2>3. CASE t = s /\ m.ctl # "cancel"
    <3>1. o.outcome \in {"succeeded", "failed"}
      BY <1>2, <1>3, <1>13, <1>15, <2>3 DEF Tracks, o
    <3> QED
      BY <1>10, <2>1, <2>3, <3>1
  <2>4. CASE t = s /\ m.ctl = "cancel"
    BY <1>10, <2>1, <2>4
  <2> QED
    BY <2>2, <2>3, <2>4
<1>16. y.run = "running" /\ next \notin {"start", "file", "loop", "wave"}
  BY <1>2, <1>10, <1>11
<1> QED
  BY <1>6, <1>10, <1>11, <1>14, <1>15, <1>16, SaveLone

\* The engine goes on to a label that it was bound for, or that the invariant
\* does not tell from where it was; the rows and its goroutines stay.
LEMMA MoveLone ==
    ASSUME IInv, LoneInv, Lone, NEW g \in Engines, UNCHANGED <<run, rows, ex>>, pc'[g] # "idle",
           At(g)' = At(g) \/ (At(g) = "wave" /\ At(g)' = "commit"),
           pc'[g] = pc[g] \/ \A s \in Steps : ex[g][s].stage \notin {"ready", "called"},
           /\ mem'[g].steps = mem[g].steps /\ mem'[g].wave = mem[g].wave
           /\ mem'[g].finished = mem[g].finished /\ mem'[g].failed = mem[g].failed
           /\ mem'[g].ctl = mem[g].ctl \/ (At(g) # "start" /\ mem[g].ctl # "cancel")
    PROVE  LoneInv'
<1>1. LoneFits(g)
  BY DEF LoneInv
<1>2. ExecsFit(g)'
  BY <1>1 DEF LoneFits, ExecsFit
<1>3. RowsTracked(g)'
  BY <1>1 DEF LoneFits, RowsTracked, Inside
<1>4. LoneFits(g)'
  BY <1>1, <1>2, <1>3 DEF LoneFits, Inside
<1>5. (run = "none" => rows = [s \in Steps |-> NoRow])'
  BY DEF LoneInv
<1> QED
  BY <1>4, <1>5, LoneIsAll

\* The file is written, the goroutines have ended, the operator's request
\* arrives, or the process dies.
LEMMA QuietLone ==
    ASSUME IInv, LoneInv, Lone, NEW g \in Engines,
           FileSave(g) \/ EndWave(g) \/ Control(g) \/ Crash(g)
    PROVE  LoneInv'
<1>1. ASSUME Return(g), UNCHANGED db PROVE LoneInv'
  BY <1>1, ReturnLone DEF db
<1>2. CASE FileSave(g) /\ mem[g].next # "idle"
  <2>1. /\ pc' = [pc EXCEPT ![g] = mem[g].next] /\ mem' = [mem EXCEPT ![g] = mem[g]]
        /\ UNCHANGED <<run, rows, ex>> /\ pc[g] = "file"
    BY <1>2 DEF FileSave, Goto, db
  <2>2. pc'[g] = mem[g].next /\ mem'[g] = mem[g] /\ pc'[g] # "idle"
    BY <1>2, <2>1 DEF IInv, TypeOK
  <2>3. At(g)' = At(g)
    BY <2>1, <2>2 DEF At
  <2>4. \A s \in Steps : ex[g][s].stage \notin {"ready", "called"}
    BY <2>1, NoneInFlight
  <2> QED
    BY <2>1, <2>2, <2>3, <2>4, MoveLone
<1>3. CASE EndWave(g) /\ ~ Return(g)
  <2>1. /\ pc' = [pc EXCEPT ![g] = "commit"] /\ mem' = [mem EXCEPT ![g] = mem[g]]
        /\ UNCHANGED <<run, rows, ex>> /\ pc[g] = "wave"
        /\ \A s \in mem[g].wave : ex[g][s].stage = "ended"
    BY <1>3 DEF EndWave, Goto, db
  <2>2. pc'[g] = "commit" /\ mem'[g] = mem[g]
    BY <2>1 DEF IInv, TypeOK
  <2>3. At(g)' = "commit" /\ At(g) = "wave"
    BY <2>1, <2>2 DEF At
  <2>4. \A s \in Steps : ex[g][s].stage \notin {"ready", "called"}
    BY <2>1 DEF LoneInv, LoneFits, ExecsFit
  <2> QED
    BY <2>1, <2>2, <2>3, <2>4, MoveLone
<1>4. CASE Control(g)
  <2>1. PICK x \in {"pause", "cancel"} : mem' = [mem EXCEPT ![g].ctl = x]
    BY <1>4 DEF Control
  <2> DEFINE y == [mem[g] EXCEPT !.ctl = x]
  <2>2. mem'[g] = y /\ mem[g] \in Memory
    BY <2>1 DEF IInv, TypeOK
  <2>3. /\ y.steps = mem[g].steps /\ y.wave = mem[g].wave /\ y.finished = mem[g].finished
        /\ y.failed = mem[g].failed
    BY <2>2 DEF Memory
  <2> HIDE DEF y
  <2>4. UNCHANGED <<run, rows, ex, pc>> /\ pc[g] \in Inside /\ mem[g].ctl # "cancel"
    BY <1>4 DEF Control, db, Inside
  <2>5. At(g)' = At(g) /\ At(g) # "start" /\ pc'[g] # "idle"
    BY <2>4 DEF At, Inside
  <2> QED
    BY <2>2, <2>3, <2>4, <2>5, MoveLone
<1> QED
  BY <1>1, <1>2, <1>3, <1>4 DEF FileSave, EndWave, Crash

\* An engine starts: it remembers the rows.
LEMMA BeginLone ==
    ASSUME IInv, LoneInv, Lone, NEW g \in Engines, StartRun(g) \/ ResumeRun(g)
    PROVE  LoneInv'
<1>1. pc[g] = "idle" /\ At(g) = "idle" /\ UNCHANGED <<run, rows, ex>>
  BY DEF StartRun, ResumeRun, db, At
<1>2. PICK yes \in BOOLEAN : \E steps \in {NoMemory.steps, rows} :
        /\ pc' = [pc EXCEPT ![g] = "start"]
        /\ mem' = [mem EXCEPT ![g] = [NoMemory EXCEPT !.run = "running", !.steps = steps, !.approval = yes]]
        /\ run = "none" \/ steps = rows
  <2>1. CASE StartRun(g)
    <3>1. PICK yes \in BOOLEAN :
            Goto(g, "start", [NoMemory EXCEPT !.run = "running", !.approval = yes])
      BY <2>1 DEF StartRun
    <3>2. [NoMemory EXCEPT !.run = "running", !.approval = yes]
            = [NoMemory EXCEPT !.run = "running", !.steps = NoMemory.steps, !.approval = yes]
      BY DEF NoMemory
    <3> QED
      BY <2>1, <3>1, <3>2 DEF StartRun, Goto
  <2>2. CASE ResumeRun(g)
    <3>1. PICK yes \in BOOLEAN :
            Goto(g, "start", [NoMemory EXCEPT !.run = "running", !.steps = rows,
                  !.approval = yes \/ \E s \in Gated : ApprovedByRecord(s)])
      BY <2>2 DEF ResumeRun
    <3>2. PICK approval \in BOOLEAN : approval = (yes \/ \E s \in Gated : ApprovedByRecord(s))
      BY Zenon
    <3> QED
      BY <3>1, <3>2 DEF Goto
  <2> QED
    BY <2>1, <2>2
<1>3. PICK steps \in {NoMemory.steps, rows} :
        /\ pc' = [pc EXCEPT ![g] = "start"]
        /\ mem' = [mem EXCEPT ![g] = [NoMemory EXCEPT !.run = "running", !.steps = steps, !.approval = yes]]
        /\ run = "none" \/ steps = rows
  BY <1>2
<1> DEFINE y == [NoMemory EXCEPT !.run = "running", !.steps = steps, !.approval = yes]
<1>4. /\ y.steps = steps /\ y.wave = {} /\ y.finished = {} /\ y.failed = FALSE /\ y.ctl = "none"
  BY DEF NoMemory
<1>5. pc'[g] = "start" /\ mem'[g] = y
  BY <1>3 DEF IInv, TypeOK
<1> HIDE DEF y
<1>6. At(g)' = "start" /\ steps = rows
  <2>1. NoMemory.steps = [s \in Steps |-> NoRow]
    BY DEF NoMemory
  <2> QED
    BY <1>3, <1>5, <2>1 DEF At, LoneInv
<1>7. \A s \in Steps : ex[g][s].stage = "off"
  BY <1>1 DEF LoneInv, LoneFits, ExecsFit
<1>8. ExecsFit(g)' /\ RowsTracked(g)'
  BY <1>1, <1>4, <1>5, <1>6, <1>7 DEF ExecsFit, RowsTracked, Inside
<1>9. LoneFits(g)'
  BY <1>4, <1>5, <1>6, <1>8 DEF LoneFits, Inside
<1>10. (run = "none" => rows = [s \in Steps |-> NoRow])'
  BY <1>1 DEF LoneInv
<1> QED
  BY <1>9, <1>10, LoneIsAll

\* One goroutine moves, and the row of its step with it.
LEMMA ExecLone ==
    ASSUME IInv, LoneInv, Lone, NEW g \in Engines, NEW s \in Steps,
           NEW stage, NEW attempt, NEW outcome, SetExec(g, s, stage, attempt, outcome),
           pc[g] = "wave", s \in mem[g].wave, UNCHANGED <<run, pc, mem>>,
           \A t \in Steps \ {s} : rows'[t] = rows[t],
           run = "running" /\ mem[g].ctl # "cancel" =>
             Tracks(rows'[s], mem[g].steps[s], [stage |-> stage, attempt |-> attempt, outcome |-> outcome])
    PROVE  LoneInv'
<1> DEFINE x == [stage |-> stage, attempt |-> attempt, outcome |-> outcome]
<1>1. ex' = [ex EXCEPT ![g] = [ex[g] EXCEPT ![s] = x]]
  BY DEF SetExec, IInv, TypeOK
<1> HIDE DEF x
<1>2. ex'[g][s] = x /\ \A t \in Steps \ {s} : ex'[g][t] = ex[g][t]
  BY <1>1 DEF IInv, TypeOK
<1>3. At(g) = "wave" /\ At(g)' = "wave" /\ LoneFits(g)
  BY DEF At, LoneInv
<1>4. ExecsFit(g)'
  BY <1>2, <1>3 DEF LoneFits, ExecsFit
<1>5. RowsTracked(g)'
  BY <1>2, <1>3 DEF LoneFits, RowsTracked, Inside, x
<1>6. LoneFits(g)'
  BY <1>3, <1>4, <1>5 DEF LoneFits
<1>7. run # "none"
  BY <1>3 DEF LoneFits, Inside, Ended
<1> QED
  BY <1>6, <1>7, LoneIsAll

\* What the lone engine knows of a step of its wave.
LEMMA WaveTracked ==
    ASSUME IInv, LoneInv, NEW g \in Engines, NEW s \in Steps,
           (pc[g] = "wave" /\ s \in mem[g].wave) \/ ex[g][s].stage \in {"ready", "called"}
    PROVE  /\ pc[g] = "wave" /\ s \in mem[g].wave /\ run \in Ended \cup {"running"}
           /\ run = "running" /\ mem[g].ctl # "cancel" =>
                Tracks(rows[s], mem[g].steps[s], ex[g][s])
<1>1. pc[g] = "wave" /\ s \in mem[g].wave /\ LoneFits(g)
  BY DEF LoneInv, LoneFits, ExecsFit
<1>2. At(g) = "wave"
  BY <1>1 DEF At
<1> QED
  BY <1>1, <1>2 DEF LoneFits, RowsTracked, Inside

\* The step begins, or its wait is cancelled.
LEMMA BeginStepLone ==
    ASSUME IInv, LoneInv, Lone, NEW g \in Engines, NEW s \in Steps, BeginStep(g, s) \/ CancelWait(g, s)
    PROVE  LoneInv'
<1>1. UNCHANGED <<run, rows, pc, mem>>
  BY DEF BeginStep, CancelWait, db
<1>2. pc[g] = "wave" /\ s \in mem[g].wave
  BY WaveTracked DEF BeginStep, CancelWait
<1>3. CASE CancelWait(g, s)
  BY <1>1, <1>2, <1>3, ExecLone DEF CancelWait
<1>4. CASE BeginStep(g, s)
  <2> DEFINE mine == mem[g].steps[s]
  <2>1. ex[g][s].stage = "off"
    BY <1>4 DEF BeginStep
  <2>2. run = "running" /\ mem[g].ctl # "cancel" =>
          rows[s] = mine /\ mine.status \in {"running", "retryable"}
    BY <1>2, <2>1, WaveTracked DEF Tracks
  <2>0. mine.attempt \in Nat
    BY ExecType
  <2> HIDE DEF mine
  <2>3. CASE SetExec(g, s, "ready", mine.attempt + 1, "none")
    <3>1. run = "running" /\ mem[g].ctl # "cancel" =>
            Tracks(rows'[s], mine, [stage |-> "ready", attempt |-> mine.attempt + 1, outcome |-> "none"])
      BY <1>1, <2>2, <2>0 DEF Tracks
    <3> QED
      BY <1>1, <1>2, <2>3, <3>1, ExecLone DEF mine
  <2>4. CASE SetExec(g, s, "ended", mine.attempt, Fails(g))
    <3>1. run = "running" /\ mem[g].ctl # "cancel" =>
            Tracks(rows'[s], mine, [stage |-> "ended", attempt |-> mine.attempt, outcome |-> Fails(g)])
      BY <1>1, <2>2, <2>0 DEF Fails, Tracks
    <3> QED
      BY <1>1, <1>2, <2>4, <3>1, ExecLone DEF mine
  <2> QED
    BY <1>4, <2>3, <2>4 DEF BeginStep, mine
<1> QED
  BY <1>3, <1>4

\* The attempt of a lone engine is the next one: it never loses one.
LEMMA CallProviderLone ==
    ASSUME IInv, LoneInv, Lone, NEW g \in Engines, NEW s \in Steps, CallProvider(g, s)
    PROVE  LoneInv'
<1> DEFINE a == ex[g][s].attempt
           mine == mem[g].steps[s]
<1>1. ex[g][s].stage = "ready" /\ UNCHANGED <<run, pc, mem>>
  BY DEF CallProvider
<1>2. pc[g] = "wave" /\ s \in mem[g].wave /\ run \in Ended \cup {"running"}
  BY <1>1, WaveTracked
<1>3. run = "running" /\ mem[g].ctl # "cancel" =>
        /\ rows[s].attempt + 1 = a /\ rows[s].status \in {"running", "retryable"}
        /\ mine.status \in {"running", "retryable"} /\ mine.attempt <= rows[s].attempt
  BY <1>1, WaveTracked DEF Tracks
<1>4. rows \in [Steps -> Row] /\ rows[s] \in Row
  BY DEF IInv, TypeOK
<1>5. CASE rows' = [rows EXCEPT ![s].attempt = a] /\ SetExec(g, s, "called", a, "none")
  <2> DEFINE r == [rows[s] EXCEPT !.attempt = a]
  <2>1. r.attempt = a /\ r.status = rows[s].status
    BY <1>4 DEF Row
  <2>2. rows' = [rows EXCEPT ![s] = r]
    BY <1>4, <1>5
  <2> HIDE DEF r
  <2>3. rows'[s] = r /\ \A t \in Steps \ {s} : rows'[t] = rows[t]
    BY <1>4, <2>2
  <2>4. run = "running" /\ mem[g].ctl # "cancel" =>
          Tracks(rows'[s], mine, [stage |-> "called", attempt |-> a, outcome |-> "none"])
    <3>1. mine.attempt \in Nat /\ rows[s].attempt \in Nat /\ a \in Nat
      BY <1>4, ExecType DEF Row
    <3> HIDE DEF a, mine
    <3> QED
      BY <1>3, <2>1, <2>3, <3>1 DEF Tracks
  <2> HIDE DEF a, mine
  <2> QED
    BY <1>1, <1>2, <1>5, <2>3, <2>4, ExecLone DEF mine
<1>6. CASE ~(run = "running" /\ OwnsAttempt(s, a)) \/ mem[g].ctl = "cancel"
  <2>1. ~(run = "running" /\ mem[g].ctl # "cancel")
    BY <1>3, <1>4, <1>6 DEF OwnsAttempt, Row
  <2>2. CASE rows' = rows /\ \E o : SetExec(g, s, "ended", a, o)
    BY <1>1, <1>2, <2>1, <2>2, ExecLone
  <2>3. \/ rows' = rows /\ \E o : SetExec(g, s, "ended", a, o)
        \/ rows' = [rows EXCEPT ![s].attempt = a] /\ SetExec(g, s, "called", a, "none")
    BY Zenon DEF CallProvider
  <2> QED
    BY <1>5, <2>2, <2>3
<1> QED
  BY <1>5, <1>6, Zenon DEF CallProvider

\* The result of a lone engine is accepted.
LEMMA StoreResultLone ==
    ASSUME IInv, LoneInv, Lone, NEW g \in Engines, NEW s \in Steps, StoreResult(g, s)
    PROVE  LoneInv'
<1> DEFINE a == ex[g][s].attempt
           mine == mem[g].steps[s]
           ok == AcceptsResult(s, a)
<1>1. ex[g][s].stage = "called" /\ UNCHANGED <<run, pc, mem>>
  BY DEF StoreResult
<1>2. pc[g] = "wave" /\ s \in mem[g].wave
  BY <1>1, WaveTracked
<1>3. rows \in [Steps -> Row] /\ rows[s] \in Row /\ a \in Nat /\ mine.attempt \in Nat
  BY ExecType DEF IInv, TypeOK, Exec
<1>4. run = "running" /\ mem[g].ctl # "cancel" =>
        /\ rows[s].attempt = a /\ mine.attempt < a /\ rows[s].status \in {"running", "retryable"}
        /\ mine.status \in {"running", "retryable"} /\ ok
  BY <1>1, <1>3, WaveTracked DEF Tracks, AcceptsResult
<1>5. PICK r \in {"succeeded", "failed", "cancelled", "retryable"} :
        /\ mem[g].ctl # "cancel" => r # "cancelled"
        /\ rows' = IF ok THEN [rows EXCEPT ![s].status = r] ELSE rows
        /\ \/ r = "retryable" /\ SetExec(g, s, "ready", a + 1, "none")
           \/ SetExec(g, s, "ended", a, IF r = "succeeded" /\ ok THEN "succeeded" ELSE Fails(g))
  BY DEF StoreResult
<1> DEFINE row == [rows[s] EXCEPT !.status = r]
<1>6. row.status = r /\ row.attempt = rows[s].attempt
  BY <1>3 DEF Row
<1>7. [rows EXCEPT ![s].status = r] = [rows EXCEPT ![s] = row]
  BY <1>3
<1> HIDE DEF row
<1>8. /\ \A t \in Steps \ {s} : rows'[t] = rows[t]
      /\ ok => rows'[s] = row
  BY <1>3, <1>5, <1>7
<1> HIDE DEF ok, a, mine
<1>9. CASE r = "retryable" /\ SetExec(g, s, "ready", a + 1, "none")
  <2>1. run = "running" /\ mem[g].ctl # "cancel" =>
          Tracks(rows'[s], mine, [stage |-> "ready", attempt |-> a + 1, outcome |-> "none"])
    BY <1>3, <1>4, <1>6, <1>8, <1>9 DEF Tracks
  <2> QED
    BY <1>1, <1>2, <1>8, <1>9, <2>1, ExecLone DEF mine
<1>10. CASE SetExec(g, s, "ended", a, IF r = "succeeded" /\ ok THEN "succeeded" ELSE Fails(g))
  <2> DEFINE o == IF r = "succeeded" /\ ok THEN "succeeded" ELSE Fails(g)
  <2>1. run = "running" /\ mem[g].ctl # "cancel" => o = IF r = "succeeded" THEN "succeeded" ELSE "failed"
    BY <1>4 DEF Fails
  <2>2. SetExec(g, s, "ended", a, o)
    BY <1>10
  <2> HIDE DEF o
  <2>3. run = "running" /\ mem[g].ctl # "cancel" =>
          Tracks(rows'[s], mine, [stage |-> "ended", attempt |-> a, outcome |-> o])
    BY <1>3, <1>4, <1>5, <1>6, <1>8, <2>1 DEF Tracks
  <2> QED
    BY <1>1, <1>2, <1>8, <2>2, <2>3, ExecLone DEF mine
<1> QED
  BY <1>5, <1>9, <1>10

\* A decision of the operator leaves the rows alone, or ends the run.
LEMMA DecisionLone ==
    ASSUME IInv, LoneInv, UNCHANGED <<pc, mem, ex>>,
           (run' = run /\ rows' = rows) \/ run' = "failed"
    PROVE  LoneInv'
<1>1. ASSUME NEW g \in Engines PROVE LoneFits(g)'
  <2>1. LoneFits(g) /\ At(g)' = At(g)
    BY DEF LoneInv, At
  <2>2. ExecsFit(g)'
    BY <2>1 DEF LoneFits, ExecsFit
  <2>3. RowsTracked(g)'
    BY <2>1 DEF LoneFits, RowsTracked, Ended
  <2> QED
    BY <2>1, <2>2, <2>3 DEF LoneFits, Ended
<1>2. (run = "none" => rows = [s \in Steps |-> NoRow])'
  BY DEF LoneInv
<1> QED
  BY <1>1, <1>2 DEF LoneInv

\* The invariant of a lone engine is inductive.
LEMMA LoneNext == IInv /\ LoneInv /\ Lone /\ [Next]_vars => LoneInv'
<1> SUFFICES ASSUME IInv, LoneInv, Lone, [Next]_vars PROVE LoneInv'
  OBVIOUS
<1>1. ASSUME NEW g \in Engines, EngineStep(g) PROVE LoneInv'
  BY <1>1, InitialSaveLone, QuietLone, PlanWaveLone, CommitOutcomeLone, ExitsLone, BeginStepLone,
     CallProviderLone, StoreResultLone DEF EngineStep
<1>2. CASE Approve \/ Reject \/ UNCHANGED vars
  BY <1>2, DecisionLone DEF Approve, Reject, vars, db
<1> QED
  BY <1>1, <1>2, BeginLone, QuietLone DEF Next

\* What refuses the next commit of a lone engine: an attempt that a step made
\* whose outcome is still to be committed.  The save would write that step back
\* as it was launched.
CommitsUnlessSiblingsTried ==
    \A g \in Engines :
        pc[g] = "commit" /\ run = "running" /\ mem[g].ctl # "cancel" =>
            (CanSave(g, Outcome(g)) <=>
                \A t \in mem[g].wave \ {First(mem[g])} : rows[t].attempt = mem[g].steps[t].attempt)

\* All other rows are what the engine remembers, and the row of the step that
\* is committed is where its goroutine left it.
LEMMA CommitsExactly == IInv /\ LoneInv => CommitsUnlessSiblingsTried
<1> SUFFICES ASSUME IInv, LoneInv, NEW g \in Engines, pc[g] = "commit", run = "running",
                    mem[g].ctl # "cancel"
             PROVE  CanSave(g, Outcome(g)) <=>
                      \A t \in mem[g].wave \ {First(mem[g])} : rows[t].attempt = mem[g].steps[t].attempt
  BY DEF CommitsUnlessSiblingsTried
<1> DEFINE m == mem[g]
           s == First(m)
           o == ex[g][s]
           y == Outcome(g)
<1>1. /\ m \in Memory /\ LoneFits(g) /\ At(g) = "commit" /\ Committable(m, ex[g])
      /\ MemoryFits(m, "commit") /\ m.wave \subseteq Steps
  BY LoneMemory DEF Memory
<1>2. s \in m.wave /\ s \in Steps
  BY <1>1, FirstIsInWave DEF MemoryFits
<1>3. y.steps = [m.steps EXCEPT ![s] = Committed(o)] /\ m.steps \in [Steps -> Row]
  BY <1>1 DEF Outcome, Memory
<1> HIDE DEF y, s
<1>4. /\ \A t \in Steps \ m.wave : rows[t] = m.steps[t]
      /\ \A t \in m.wave : Tracks(rows[t], m.steps[t], ex[g][t]) /\ ex[g][t].stage = "ended"
      /\ \A t \in Steps \ {s} : y.steps[t] = m.steps[t]
      /\ y.steps[s] = Committed(o)
  BY <1>1, <1>2, <1>3 DEF LoneFits, RowsTracked, Inside, Committable
<1>5. Committed(o).status = o.outcome /\ Committed(o).attempt = o.attempt
  BY DEF Committed
<1>6. ASSUME \A t \in m.wave \ {s} : rows[t].attempt = m.steps[t].attempt
      PROVE  CanSave(g, y)
  <2>1. ASSUME NEW t \in Known(y.steps)
        PROVE  /\ y.steps[t].attempt = rows[t].attempt
               /\ rows[t].status \in Final => y.steps[t].status = rows[t].status
               /\ rows[t].status = "retryable" => y.steps[t].status \in {"retryable", "failed"}
    <3>1. CASE t = s
      BY <1>2, <1>4, <1>5, <3>1 DEF Tracks, Final
    <3>2. CASE t # s
      <4>1. rows[t] = m.steps[t] /\ y.steps[t] = m.steps[t]
        BY <1>4, <1>6, <2>1, <3>2 DEF Known, Tracks
      <4> QED
        BY <4>1
    <3> QED
      BY <3>1, <3>2
  <2>2. AttemptsMatch(y)
    BY <2>1 DEF AttemptsMatch
  <2>3. NoDuplicate(g, y)
    BY <1>2, <1>4 DEF NoDuplicate, Known, Tracks
  <2>4. LifecycleMatches(y)
    BY DEF LifecycleMatches, Ended
  <2> QED
    BY <2>2, <2>3, <2>4 DEF CanSave
<1>7. ASSUME CanSave(g, y), NEW t \in m.wave \ {s}
      PROVE  rows[t].attempt = m.steps[t].attempt
  <2>1. t \in Known(y.steps) /\ y.steps[t] = m.steps[t]
    BY <1>1, <1>4 DEF Tracks, Known
  <2> QED
    BY <1>7, <2>1 DEF CanSave, AttemptsMatch
<1> QED
  BY <1>6, <1>7 DEF y, s

\* The invariant of a lone engine holds of every behaviour with one.
LEMMA LoneAlways == Spec => [](Lone => LoneInv)
<1>1. Init => LoneInv
  <2> SUFFICES ASSUME Init PROVE LoneInv
    OBVIOUS
  <2>1. ASSUME NEW g \in Engines PROVE LoneFits(g)
    <3>1. pc[g] = "idle" /\ At(g) = "idle" /\ \A s \in Steps : ex[g][s] = NoExec
      BY DEF Init, At
    <3> QED
      BY <3>1, NothingFits DEF LoneFits, ExecsFit, RowsTracked, Inside
  <2> QED
    BY <2>1 DEF Init, LoneInv
<1>2. IInv /\ (Lone => LoneInv) /\ [Next]_vars => (Lone => LoneInv)'
  BY LoneNext DEF Lone
<1> QED
  BY <1>1, <1>2, EngineInvariant, PTL DEF Spec

\* For any definition, retry policy and parallelism, and any crashes and resumes:
\* where engines do not run beside each other, the outcome that is first in rank
\* can be committed if, and only if, no step of the wave that is still to be
\* committed has made an attempt.
THEOREM SiblingsRefuseCommits == Spec => [](Lone => CommitsUnlessSiblingsTried)
<1>1. IInv /\ (Lone => LoneInv) => (Lone => CommitsUnlessSiblingsTried)
  BY CommitsExactly
<1> QED
  BY <1>1, LoneAlways, EngineInvariant, PTL

\* LastCommitAccepted for any definition, retry policy and parallelism, and any
\* crashes and resumes, where engines do not run beside each other: a wave
\* that is down to its last outcome is never refused.  With a rival in the
\* system it is false, since the rival may have moved the rows before it stopped.
THEOREM LastOutcomeIsAccepted == Spec => [](Lone => LastCommitAccepted)
<1>1. CommitsUnlessSiblingsTried => LastCommitAccepted
  BY DEF CommitsUnlessSiblingsTried, LastCommitAccepted
<1>2. (Lone => CommitsUnlessSiblingsTried) => (Lone => LastCommitAccepted)
  BY <1>1
<1> QED
  BY <1>2, SiblingsRefuseCommits, PTL
=============================================================================
