------------------------ MODULE BudgetLimiterProofs ------------------------
(***************************************************************************)
(* What the limiter promises for every set of callers, programs,           *)
(* providers, hosts, inputs and policies.  The counters are proved to be   *)
(* the cardinalities of the sets of holders; the limits then follow from   *)
(* the test that Acquire makes under the lock.                             *)
(***************************************************************************)
EXTENDS BudgetLimiter, FiniteSetTheorems, TLAPS

\* No counter is above its limit.
CountersBounded ==
  /\ \A p \in Programs : programs[p] <= ProgramParallelism(policy)
  /\ \A v \in Providers : providers[v] <= positive(policy.ProviderConcurrency)
  /\ \A h \in Hosts : hosts[h] <= positive(policy.HostConcurrency)

\* A wave is no wider than the policy's parallelism.
WaveFits == wave <= ProgramParallelism(policy)

IInv ==
  /\ TypeOK
  /\ CountersExact
  /\ NoLostWakeup
  /\ CountersBounded
  /\ WaveFits

-----------------------------------------------------------------------------
(* The operators.                                                          *)

\* A policy's parallelism and its other limits are at least one, and the
\* limiter's program limit is the parallelism itself.
LEMMA LimitsArePositive ==
  ASSUME NEW p \in Policy
  PROVE  /\ ProgramParallelism(p) \in Nat /\ ProgramParallelism(p) > 0
         /\ positive(p.ProviderConcurrency) \in Nat /\ positive(p.ProviderConcurrency) > 0
         /\ positive(p.HostConcurrency) \in Nat /\ positive(p.HostConcurrency) > 0
         /\ Limits(p).Program = ProgramParallelism(p)
         /\ Limits(p).Provider = positive(p.ProviderConcurrency)
         /\ Limits(p).Host = positive(p.HostConcurrency)
BY DEF Policy, ProgramParallelism, positive, Limits

\* The hosts the limiter counts for an input are the ones its targets name.
LEMMA HostsAreNamed ==
  ASSUME NEW input \in Inputs
  PROVE  HostsFromInput(input) = Named(input)
<1>1. \A k \in input : k \in Candidate
  BY BudgetAssumption
<1>2. ASSUME NEW h PROVE h \in HostsFromInput(input) <=> h \in Named(input)
  BY <1>1 DEF HostsFromInput, collectCandidates, targetKey, hostFromCandidate, Named, Candidate
<1> QED
  BY <1>2

\* Parts of a whole-number share do not add up to more than the whole.
LEMMA DivBound ==
  ASSUME NEW v \in Nat, NEW n \in Nat, n > 0
  PROVE  v \div n \in Nat /\ n * (v \div n) <= v
  OBVIOUS

\* When there are no more parts than the value has units, every part gets at
\* least one unit and all of them together no more than there is.
LEMMA ShareBound ==
  ASSUME NEW v \in Int, NEW n \in Nat, n > 1, v > 0, n <= v
  PROVE  n * share(v, n) <= v
<1>1. v \div n >= 1
  BY Z3
<1> QED
  BY <1>1, DivBound DEF share, positive

-----------------------------------------------------------------------------
(* The inductive invariant.                                                *)

\* Whatever set of callers is looked at, it is finite.
LEMMA CallersCount ==
  ASSUME NEW S \in SUBSET Callers
  PROVE  IsFiniteSet(S) /\ Cardinality(S) \in Nat
BY BudgetAssumption, FS_Subset, FS_CardinalityType

\* The limiter starts with no slot in use and nobody in it.
LEMMA InitInv == Init => IInv
<1> SUFFICES ASSUME Init PROVE IInv
  OBVIOUS
<1>1. TypeOK
  BY BudgetAssumption DEF Init, TypeOK, PC
<1>2. CountersExact
  <2>1. Holders = {}
    BY DEF Init, Holders
  <2> QED
    BY <2>1, FS_EmptySet
    DEF Init, CountersExact, HoldersOfProgram, HoldersOfProvider, HoldersOfHost
<1>3. NoLostWakeup
  BY DEF Init, NoLostWakeup
<1>4. policy \in Policy
  BY BudgetAssumption DEF Init
<1>5. CountersBounded /\ WaveFits
  BY <1>4, LimitsArePositive DEF Init, CountersBounded, WaveFits
<1> QED
  BY <1>1, <1>2, <1>3, <1>5 DEF IInv

\* Acquire counts its caller in as it becomes a holder, and only when there
\* is room below every limit; the slots of the sleepers only get scarcer.
LEMMA AcquireInv ==
  ASSUME IInv, NEW c \in Callers, Acquire(c)
  PROVE  IInv'
<1> DEFINE r == request[c]
<1>1. r \in Request /\ c \notin Holders /\ policy \in Policy
  BY BudgetAssumption DEF IInv, TypeOK, Acquire, Holders
<1>2. TypeOK'
  <2>1. programs' \in [Programs -> Nat] /\ providers' \in [Providers -> Nat]
    BY <1>1 DEF IInv, TypeOK, Acquire, Request
  <2>2. hosts' \in [Hosts -> Nat]
    BY DEF IInv, TypeOK, Acquire
  <2>3. c \notin sleeping
    BY DEF IInv, TypeOK, Acquire
  <2> QED
    BY <2>1, <2>2, <2>3 DEF IInv, TypeOK, Acquire, PC
<1>3. /\ Holders' = Holders \cup {c}
      /\ \A p : HoldersOfProgram(p)' =
           IF p = r.program THEN HoldersOfProgram(p) \cup {c} ELSE HoldersOfProgram(p)
      /\ \A v : HoldersOfProvider(v)' =
           IF v = r.provider THEN HoldersOfProvider(v) \cup {c} ELSE HoldersOfProvider(v)
      /\ \A h : HoldersOfHost(h)' =
           IF h \in HostsFromInput(r.input) THEN HoldersOfHost(h) \cup {c} ELSE HoldersOfHost(h)
  <2>1. Holders' = Holders \cup {c}
    BY DEF IInv, TypeOK, Acquire, Holders
  <2>2. request' = request
    BY DEF Acquire
  <2> QED
    BY <2>1, <2>2 DEF HoldersOfProgram, HoldersOfProvider, HoldersOfHost
<1>4. ASSUME NEW S \in SUBSET Holders
      PROVE  Cardinality(S \cup {c}) = Cardinality(S) + 1
  <2>1. S \in SUBSET Callers /\ c \notin S
    BY <1>1 DEF Holders
  <2> QED
    BY <2>1, CallersCount, FS_AddElement
<1>5. CountersExact'
  <2>1. ASSUME NEW p \in Programs PROVE (programs[p] = Cardinality(HoldersOfProgram(p)))'
    <3>1. HoldersOfProgram(p) \in SUBSET Holders
      BY DEF HoldersOfProgram
    <3> QED
      BY <1>1, <1>3, <1>4, <3>1 DEF Acquire, IInv, CountersExact, TypeOK
  <2>2. ASSUME NEW v \in Providers PROVE (providers[v] = Cardinality(HoldersOfProvider(v)))'
    <3>1. HoldersOfProvider(v) \in SUBSET Holders
      BY DEF HoldersOfProvider
    <3> QED
      BY <1>1, <1>3, <1>4, <3>1 DEF Acquire, IInv, CountersExact, TypeOK
  <2>3. ASSUME NEW h \in Hosts PROVE (hosts[h] = Cardinality(HoldersOfHost(h)))'
    <3>1. HoldersOfHost(h) \in SUBSET Holders
      BY DEF HoldersOfHost
    <3> QED
      BY <1>1, <1>3, <1>4, <3>1 DEF Acquire, IInv, CountersExact, TypeOK
  <2> QED
    BY <2>1, <2>2, <2>3 DEF CountersExact
<1>6. /\ \A p \in Programs : programs[p] <= programs'[p]
      /\ \A v \in Providers : providers[v] <= providers'[v]
      /\ \A h \in Hosts : hosts[h] <= hosts'[h]
  BY <1>1 DEF Acquire, IInv, TypeOK
<1>7. NoLostWakeup'
  <2>1. ASSUME NEW d \in sleeping PROVE ~ available(request[d])'
    <3>1. request[d] \in Request /\ ~ available(request[d])
      BY DEF IInv, TypeOK, NoLostWakeup
    <3>2. HostsFromInput(request[d].input) \subseteq Hosts
      BY <3>1, HostsAreNamed DEF Request, Named
    <3>3. policy' = policy /\ request' = request
      BY DEF Acquire
    <3>4. /\ Limits(policy).Program \in Nat /\ Limits(policy).Provider \in Nat
          /\ Limits(policy).Host \in Nat
      BY <1>1, LimitsArePositive
    <3> QED
      BY <1>2, <1>6, <3>1, <3>2, <3>3, <3>4 DEF available, IInv, TypeOK, Request
  <2> QED
    BY <2>1 DEF NoLostWakeup, Acquire
<1>8. CountersBounded'
  <2>1. policy' = policy
    BY DEF Acquire
  <2>2. \A p \in Programs : programs'[p] <= ProgramParallelism(policy)
    BY <1>1, LimitsArePositive DEF Acquire, available, IInv, TypeOK, CountersBounded
  <2>3. \A v \in Providers : providers'[v] <= positive(policy.ProviderConcurrency)
    BY <1>1, LimitsArePositive DEF Acquire, available, IInv, TypeOK, CountersBounded
  <2>4. \A h \in Hosts : hosts'[h] <= positive(policy.HostConcurrency)
    BY <1>1, LimitsArePositive DEF Acquire, available, IInv, TypeOK, CountersBounded
  <2> QED
    BY <2>1, <2>2, <2>3, <2>4 DEF CountersBounded
<1>9. WaveFits'
  BY DEF IInv, WaveFits, Acquire
<1> QED
  BY <1>2, <1>5, <1>7, <1>8, <1>9 DEF IInv

\* The counters are untouched and no caller comes or goes.
LEMMA HoldersKept ==
  ASSUME IInv, UNCHANGED counters, UNCHANGED policy, Holders' = Holders,
         \A c \in Holders : request'[c] = request[c]
  PROVE  CountersExact' /\ CountersBounded'
<1>1. /\ \A p : HoldersOfProgram(p)' = HoldersOfProgram(p)
      /\ \A v : HoldersOfProvider(v)' = HoldersOfProvider(v)
      /\ \A h : HoldersOfHost(h)' = HoldersOfHost(h)
  BY DEF HoldersOfProgram, HoldersOfProvider, HoldersOfHost
<1> QED
  BY <1>1 DEF IInv, CountersExact, CountersBounded, counters

\* A first release counts its caller out and wakes every sleeper; a second
\* one does nothing.
LEMMA ReleaseInv ==
  ASSUME IInv, NEW c \in Callers, Release(c)
  PROVE  IInv'
<1> DEFINE r == request[c]
<1>1. CASE pc[c] = "done"
  <2>1. UNCHANGED <<runner, policy, counters, pc, request, sleeping, wave, calls>>
    BY <1>1 DEF Release, IInv, TypeOK
  <2>2. TypeOK'
    BY <2>1 DEF Release, IInv, TypeOK, counters
  <2>3. CountersExact' /\ CountersBounded'
    BY <2>1, HoldersKept DEF Holders
  <2>4. NoLostWakeup' /\ WaveFits'
    BY <2>1 DEF IInv, NoLostWakeup, WaveFits, available, counters
  <2> QED
    BY <2>2, <2>3, <2>4 DEF IInv
<1>2. CASE pc[c] = "held"
  <2>0. ReleaseSlots(r) /\ sleeping' = {} /\ pc' = [pc EXCEPT ![c] = "done"]
    BY <1>2 DEF Release
  <2>1. r \in Request /\ c \in Holders /\ policy \in Policy
    BY <1>2, BudgetAssumption DEF IInv, TypeOK, Holders
  <2>2. TypeOK'
    <3>1. programs' \in [Programs -> Nat] /\ providers' \in [Providers -> Nat]
      BY <2>0, <2>1 DEF IInv, TypeOK, ReleaseSlots, decrement, Request
    <3>2. hosts' \in [Hosts -> Nat]
      BY <2>0 DEF IInv, TypeOK, ReleaseSlots, decrement
    <3> QED
      BY <2>0, <2>1, <3>1, <3>2 DEF IInv, TypeOK, Release, PC
  <2>3. /\ \A p : HoldersOfProgram(p)' =
             IF p = r.program THEN HoldersOfProgram(p) \ {c} ELSE HoldersOfProgram(p)
        /\ \A v : HoldersOfProvider(v)' =
             IF v = r.provider THEN HoldersOfProvider(v) \ {c} ELSE HoldersOfProvider(v)
        /\ \A h : HoldersOfHost(h)' =
             IF h \in HostsFromInput(r.input) THEN HoldersOfHost(h) \ {c} ELSE HoldersOfHost(h)
    <3>1. Holders' = Holders \ {c}
      BY <2>0 DEF IInv, TypeOK, Holders
    <3>2. request' = request
      BY DEF Release
    <3> QED
      BY <3>1, <3>2 DEF HoldersOfProgram, HoldersOfProvider, HoldersOfHost
  <2>4. ASSUME NEW S \in SUBSET Holders, c \in S
        PROVE  Cardinality(S \ {c}) = decrement(Cardinality(S))
    <3>1. S \in SUBSET Callers /\ IsFiniteSet(S) /\ Cardinality(S) \in Nat
      BY CallersCount DEF Holders
    <3>2. Cardinality(S \ {c}) = Cardinality(S) - 1
      BY <3>1, <2>4, FS_RemoveElement
    <3>3. Cardinality(S) # 0
      BY <3>1, <2>4, FS_EmptySet
    <3> QED
      BY <3>1, <3>2, <3>3 DEF decrement
  <2>5. CountersExact'
    <3>1. ASSUME NEW p \in Programs PROVE (programs[p] = Cardinality(HoldersOfProgram(p)))'
      <4>1. HoldersOfProgram(p) \in SUBSET Holders /\ (p = r.program => c \in HoldersOfProgram(p))
        BY <2>1 DEF HoldersOfProgram
      <4> QED
        BY <2>0, <2>1, <2>3, <2>4, <4>1 DEF ReleaseSlots, IInv, CountersExact, TypeOK
    <3>2. ASSUME NEW v \in Providers PROVE (providers[v] = Cardinality(HoldersOfProvider(v)))'
      <4>1. HoldersOfProvider(v) \in SUBSET Holders /\ (v = r.provider => c \in HoldersOfProvider(v))
        BY <2>1 DEF HoldersOfProvider
      <4> QED
        BY <2>0, <2>1, <2>3, <2>4, <4>1 DEF ReleaseSlots, IInv, CountersExact, TypeOK
    <3>3. ASSUME NEW h \in Hosts PROVE (hosts[h] = Cardinality(HoldersOfHost(h)))'
      <4>1. /\ HoldersOfHost(h) \in SUBSET Holders
            /\ h \in HostsFromInput(r.input) => c \in HoldersOfHost(h)
        BY <2>1 DEF HoldersOfHost
      <4> QED
        BY <2>0, <2>1, <2>3, <2>4, <4>1 DEF ReleaseSlots, IInv, CountersExact, TypeOK
    <3> QED
      BY <3>1, <3>2, <3>3 DEF CountersExact
  <2>6. CountersBounded'
    BY <2>0, <2>1, LimitsArePositive
    DEF ReleaseSlots, decrement, Release, IInv, TypeOK, CountersBounded
  <2>7. NoLostWakeup' /\ WaveFits'
    BY <2>0 DEF IInv, NoLostWakeup, WaveFits, Release
  <2> QED
    BY <2>2, <2>5, <2>6, <2>7 DEF IInv
<1> QED
  BY <1>1, <1>2 DEF Release

\* The steps of a caller that moves between trying, waiting and failed.
LEMMA MoveInv ==
  ASSUME IInv, NEW c \in Callers, Block(c) \/ Wake(c) \/ GiveUp(c) \/ Cancel(c)
  PROVE  IInv'
<1>1. UNCHANGED <<runner, policy, counters, request, wave, calls>>
  BY DEF Block, Wake, GiveUp, Cancel
<1>2. TypeOK'
  <2>1. CASE Block(c)
    BY <1>1, <2>1 DEF Block, IInv, TypeOK, PC, counters
  <2>2. CASE Wake(c)
    BY <1>1, <2>2 DEF Wake, IInv, TypeOK, PC, counters
  <2>3. CASE GiveUp(c)
    BY <1>1, <2>3 DEF GiveUp, IInv, TypeOK, PC, counters
  <2>4. CASE Cancel(c)
    BY <1>1, <2>4 DEF Cancel, IInv, TypeOK, PC, counters
  <2> QED
    BY <2>1, <2>2, <2>3, <2>4
<1>3. Holders' = Holders
  BY DEF Block, Wake, GiveUp, Cancel, IInv, TypeOK, Holders
<1>4. CountersExact' /\ CountersBounded'
  BY <1>1, <1>3, HoldersKept
<1>5. NoLostWakeup'
  <2>1. \A d : available(request[d])' = available(request[d])
    BY <1>1 DEF available, counters
  <2>2. \A d \in sleeping' : d \in sleeping \/ ~ available(request[d])
    BY DEF Block, Wake, GiveUp, Cancel
  <2> QED
    BY <2>1, <2>2 DEF IInv, NoLostWakeup
<1>6. WaveFits'
  BY <1>1 DEF IInv, WaveFits
<1> QED
  BY <1>2, <1>4, <1>5, <1>6 DEF IInv

\* A wave starts when every caller has returned: nobody sleeps or holds.
LEMMA WaveInv ==
  ASSUME IInv, NEW steps \in SUBSET Callers, NEW program \in Programs,
         NEW asked \in [steps -> [program : {program}, provider : Providers, input : Inputs]],
         executeWave(steps, asked)
  PROVE  IInv'
<1>1. sleeping = {} /\ Holders = {} /\ Holders' = {}
  BY DEF executeWave, Returned, IInv, TypeOK, Holders
<1>2. Cardinality(steps) \in Nat
  BY CallersCount
<1>3. \A c \in steps : asked[c] \in Request
  BY DEF Request
<1>4. TypeOK'
  <2>1. request' \in [Callers -> Request \cup {None}]
    BY <1>3 DEF executeWave, IInv, TypeOK
  <2>2. calls' \in 0..MaxCalls
    BY <1>2, BudgetAssumption DEF executeWave, IInv, TypeOK
  <2> QED
    BY <1>1, <1>2, <1>3, <2>1, <2>2 DEF executeWave, IInv, TypeOK, PC, counters
<1>5. CountersExact' /\ CountersBounded'
  BY <1>1, HoldersKept DEF executeWave
<1>6. NoLostWakeup' /\ WaveFits'
  BY <1>1 DEF executeWave, NoLostWakeup, WaveFits
<1> QED
  BY <1>4, <1>5, <1>6 DEF IInv

\* A handler takes up a job after its last call has returned.
LEMMA HandleInv ==
  ASSUME IInv, NEW c \in Callers, NEW asked \in Request, handle(c, asked)
  PROVE  IInv'
<1>1. c \notin sleeping /\ c \notin Holders /\ Holders' = Holders
  BY DEF handle, Returned, IInv, TypeOK, Holders
<1>2. TypeOK'
  BY <1>1, BudgetAssumption DEF handle, IInv, TypeOK, PC, counters
<1>3. CountersExact' /\ CountersBounded'
  <2>1. \A d \in Holders : request'[d] = request[d]
    BY <1>1 DEF handle, IInv, TypeOK
  <2> QED
    BY <1>1, <2>1, HoldersKept DEF handle
<1>4. NoLostWakeup'
  <2>1. ASSUME NEW d \in sleeping PROVE ~ available(request[d])'
    <3>1. request'[d] = request[d] /\ ~ available(request[d])
      BY <1>1 DEF handle, IInv, TypeOK, NoLostWakeup
    <3> QED
      BY <3>1 DEF handle, available, counters
  <2> QED
    BY <2>1 DEF NoLostWakeup, handle
<1>5. WaveFits'
  BY DEF handle, IInv, WaveFits
<1> QED
  BY <1>2, <1>3, <1>4, <1>5 DEF IInv

\* Every step of the limiter and of its callers keeps the invariant.
LEMMA NextInv == IInv /\ [Next]_vars => IInv'
<1> SUFFICES ASSUME IInv, [Next]_vars PROVE IInv'
  OBVIOUS
<1>1. CASE UNCHANGED vars
  <2>1. TypeOK'
    BY <1>1 DEF IInv, TypeOK, vars, counters
  <2>2. CountersExact' /\ CountersBounded'
    BY <1>1, HoldersKept DEF vars, Holders
  <2>3. NoLostWakeup' /\ WaveFits'
    BY <1>1 DEF IInv, NoLostWakeup, WaveFits, available, vars, counters
  <2> QED
    BY <2>1, <2>2, <2>3 DEF IInv
<1>2. ASSUME NEW c \in Callers, Acquire(c) PROVE IInv'
  BY <1>2, AcquireInv
<1>3. ASSUME NEW c \in Callers, Release(c) PROVE IInv'
  BY <1>3, ReleaseInv
<1>4. ASSUME NEW c \in Callers, Block(c) \/ Wake(c) \/ GiveUp(c) \/ Cancel(c) PROVE IInv'
  BY <1>4, MoveInv
<1>5. ASSUME NEW steps \in SUBSET Callers, NEW program \in Programs,
             NEW asked \in [steps -> [program : {program}, provider : Providers, input : Inputs]],
             executeWave(steps, asked)
      PROVE  IInv'
  BY <1>5, WaveInv
<1>6. ASSUME NEW c \in Callers, NEW asked \in Request, handle(c, asked) PROVE IInv'
  BY <1>6, HandleInv
<1> QED
  BY <1>1, <1>2, <1>3, <1>4, <1>5, <1>6 DEF Next

\* The invariant holds in every reachable state.
LEMMA SpecInv == Spec => []IInv
BY InitInv, NextInv, PTL DEF Spec

-----------------------------------------------------------------------------

\* Each counter of the limiter is exactly the number of callers that hold a
\* slot of that program, provider or host, however calls to Acquire and to
\* the release functions interleave.
THEOREM CountersAreExact == Spec => []AccountsAgree
<1>1. IInv => AccountsAgree
  BY DEF IInv, AccountsAgree
<1> QED
  BY <1>1, SpecInv, PTL

\* Never more calls at once than the policy allows, for a program, for a
\* provider and for a host that an input names in any form.
THEOREM LimitsAreKept == Spec => []WithinLimits
<1>1. IInv => WithinLimits
  <2> SUFFICES ASSUME IInv PROVE WithinLimits
    OBVIOUS
  <2>1. ASSUME NEW h \in Hosts
        PROVE  {c \in Holders : h \in Named(request[c].input)} = HoldersOfHost(h)
    <3>1. \A c \in Holders : request[c] \in Request
      BY DEF IInv, TypeOK, Holders
    <3>2. \A c \in Holders : Named(request[c].input) = HostsFromInput(request[c].input)
      BY <3>1, HostsAreNamed DEF Request
    <3> QED
      BY <3>2 DEF HoldersOfHost
  <2> QED
    BY <2>1 DEF IInv, CountersExact, CountersBounded, WithinLimits
<1> QED
  BY <1>1, SpecInv, PTL

\* A caller asleep in Acquire finds no room: no release is missed.
THEOREM NoWakeupIsLost == Spec => []NoLostWakeup
<1>1. IInv => NoLostWakeup
  BY DEF IInv
<1> QED
  BY <1>1, SpecInv, PTL

\* The policy shares handed to the steps of a wave add up to no more than
\* the policy's own rate and concurrency.
THEOREM SharesFitBudget == Spec => []WaveWithinBudget
<1>1. IInv => WaveWithinBudget
  <2> SUFFICES ASSUME IInv, wave > 0 PROVE WaveWithinBudget
    BY DEF WaveWithinBudget
  <2> DEFINE p == ParallelShare(policy, wave)
  <2>1. /\ policy \in Policy /\ wave \in Nat
        /\ policy.RateLimit \in Int /\ policy.Concurrency \in Int
    BY BudgetAssumption DEF IInv, TypeOK, Policy
  <2>2. CASE wave < 2
    <3>1. wave = 1 /\ p = policy
      BY <2>1, <2>2 DEF ParallelShare
    <3> QED
      BY <2>1, <3>1 DEF WaveWithinBudget
  <2>3. CASE wave > 1
    <3>1. p.RateLimit = share(policy.RateLimit, wave) /\ p.Concurrency = share(policy.Concurrency, wave)
      BY <2>1, <2>3 DEF ParallelShare, Policy
    <3>2. ASSUME policy.RateLimit > 0 PROVE wave <= policy.RateLimit
      BY <2>1, <3>2 DEF IInv, WaveFits, ProgramParallelism, positive
    <3>3. ASSUME policy.Concurrency > 0 PROVE wave <= policy.Concurrency
      BY <2>1, <3>3 DEF IInv, WaveFits, ProgramParallelism, positive
    <3>4. ASSUME policy.RateLimit > 0 PROVE wave * p.RateLimit <= policy.RateLimit
      BY <2>1, <2>3, <3>1, <3>2, <3>4, ShareBound
    <3>5. ASSUME policy.Concurrency > 0 PROVE wave * p.Concurrency <= policy.Concurrency
      BY <2>1, <2>3, <3>1, <3>3, <3>5, ShareBound
    <3> QED
      BY <3>4, <3>5 DEF WaveWithinBudget
  <2> QED
    BY <2>1, <2>2, <2>3
<1> QED
  BY <1>1, SpecInv, PTL
=============================================================================
