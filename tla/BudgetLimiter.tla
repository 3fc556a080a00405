--------------------------- MODULE BudgetLimiter ---------------------------
(***************************************************************************)
(* The in-process concurrency budget: one Local limiter shared by the      *)
(* steps of an engine's wave, or by the handlers of a worker's pool, each  *)
(* of which must hold a slot of its program, of its provider and of every  *)
(* host its input names while it calls a provider.                         *)
(*                                                                         *)
(* Everything Acquire and release do under l.mu is one step.  The channel  *)
(* l.changed is modelled by the callers that sleep on its current value:   *)
(* closing it lets all of them go round the loop again.                    *)
(***************************************************************************)
EXTENDS Integers, FiniteSets

CONSTANTS
  Callers,    \* the goroutines that may call at once
  Programs,
  Providers,
  Hosts,      \* host names and addresses, as normalized leaves them
  Inputs,     \* action inputs, each a set of the candidates written in it
  Policies,   \* runtime policies, as the configuration may set them
  MaxCalls,   \* bound: calls made in one behaviour
  None        \* no request yet

Policy == [RateLimit : Int, Concurrency : Int,
           ProviderConcurrency : Int, HostConcurrency : Int]
Keys == {"target", "targets", "url", "urls", "domain", "domains", "host", "hosts",
         "exact_urls", "discovered_urls", "port_targets", "other"}
Candidate == [key : Keys, place : {"value", "list", "object"},
              form : {"url", "hostport", "address", "name", "text"}, host : Hosts]

ASSUME BudgetAssumption ==
  /\ IsFiniteSet(Callers)
  /\ Inputs \subseteq SUBSET Candidate
  /\ Policies \subseteq Policy
  /\ MaxCalls \in Nat

-----------------------------------------------------------------------------
(* Limits and shares.                                                      *)

positive(v) == IF v < 1 THEN 1 ELSE v

\* The plain configured concurrency, which a smaller request rate ignores.
MutParallelism(p) == positive(p.Concurrency)

ProgramParallelism(p) ==
  LET parallelism == positive(p.Concurrency)
  IN IF p.RateLimit > 0 /\ p.RateLimit < parallelism THEN p.RateLimit ELSE parallelism

share(v, parts) == IF v < 1 THEN v ELSE positive(v \div parts)

ParallelShare(p, activeSteps) ==
  IF activeSteps < 2 THEN p
  ELSE [p EXCEPT !.RateLimit = share(@, activeSteps),
                 !.Concurrency = share(@, activeSteps)]

\* A limit of zero taken as it is.
MutLimits(p) == [Program |-> ProgramParallelism(p),
                 Provider |-> p.ProviderConcurrency,
                 Host |-> p.HostConcurrency]

Limits(p) == [Program |-> positive(ProgramParallelism(p)),
              Provider |-> positive(p.ProviderConcurrency),
              Host |-> positive(p.HostConcurrency)]

-----------------------------------------------------------------------------
(* The hosts an input names.                                               *)

targetKey(key) == key # "other"

\* The walk visits the values of objects; of a list it takes the strings and
\* does not enter the objects.
collectCandidates(input) ==
  {k \in input : targetKey(k.key) /\ k.place # "object"}

\* A URL, host:port, address or bare name yields its host; free text none.
hostFromCandidate(k) == IF k.form = "text" THEN {} ELSE {k.host}

\* Only URLs are recognised.
MutHostsFromInput(input) ==
  {k.host : k \in {k \in collectCandidates(input) : k.form = "url"}}

HostsFromInput(input) == UNION {hostFromCandidate(k) : k \in collectCandidates(input)}

-----------------------------------------------------------------------------
VARIABLES
  runner,    \* "engine": the callers are the steps of waves; "worker": handlers
  policy,    \* the runtime policy the limiter was made from
  programs, providers, hosts,  \* slots in use
  pc,        \* where each caller is
  request,   \* what it asked for
  sleeping,  \* callers in select on the current value of l.changed
  cancelled, \* callers whose context ended during the call
  wave,      \* number of steps in the current wave
  calls

counters == <<programs, providers, hosts>>
vars == <<runner, policy, counters, pc, request, sleeping, cancelled, wave, calls>>

Request == [program : Programs, provider : Providers, input : Inputs]

\* A caller is "trying" when it is about to take l.mu, "waiting" in select,
\* "held" between Acquire and release, "done" when its release has run and
\* "failed" when Acquire returned the context's error.
PC == {"idle", "trying", "waiting", "held", "done", "failed"}

\* Types; only a waiting caller sleeps, and a caller past idle has a request.
TypeOK ==
  /\ runner \in {"engine", "worker"}
  /\ policy \in Policies
  /\ programs \in [Programs -> Nat]
  /\ providers \in [Providers -> Nat]
  /\ hosts \in [Hosts -> Nat]
  /\ pc \in [Callers -> PC]
  /\ request \in [Callers -> Request \cup {None}]
  /\ \A c \in Callers : pc[c] # "idle" => request[c] \in Request
  /\ sleeping \subseteq {c \in Callers : pc[c] = "waiting"}
  /\ cancelled \subseteq Callers
  /\ wave \in Nat
  /\ calls \in 0..MaxCalls

Init ==
  /\ runner \in {"engine", "worker"}
  /\ policy \in Policies
  /\ programs = [p \in Programs |-> 0]
  /\ providers = [p \in Providers |-> 0]
  /\ hosts = [h \in Hosts |-> 0]
  /\ pc = [c \in Callers |-> "idle"]
  /\ request = [c \in Callers |-> None]
  /\ sleeping = {}
  /\ cancelled = {}
  /\ wave = 0
  /\ calls = 0

-----------------------------------------------------------------------------
(* Acquire and release.                                                    *)

available(r) ==
  /\ programs[r.program] < Limits(policy).Program
  /\ providers[r.provider] < Limits(policy).Provider
  /\ \A h \in HostsFromInput(r.input) : hosts[h] < Limits(policy).Host

Acquire(c) ==
  /\ pc[c] = "trying"
  /\ available(request[c])
  /\ programs' = [programs EXCEPT ![request[c].program] = @ + 1]
  /\ providers' = [providers EXCEPT ![request[c].provider] = @ + 1]
  /\ hosts' = [h \in Hosts |->
                 IF h \in HostsFromInput(request[c].input) THEN hosts[h] + 1 ELSE hosts[h]]
  /\ pc' = [pc EXCEPT ![c] = "held"]
  /\ UNCHANGED <<runner, policy, request, sleeping, cancelled, wave, calls>>

\* No slot: the channel is read before the lock is released.
Block(c) ==
  /\ pc[c] = "trying"
  /\ ~ available(request[c])
  /\ pc' = [pc EXCEPT ![c] = "waiting"]
  /\ sleeping' = sleeping \cup {c}
  /\ UNCHANGED <<runner, policy, counters, request, cancelled, wave, calls>>

\* The channel it waits on has been closed.
Wake(c) ==
  /\ pc[c] = "waiting" /\ c \notin sleeping
  /\ pc' = [pc EXCEPT ![c] = "trying"]
  /\ UNCHANGED <<runner, policy, counters, request, sleeping, cancelled, wave, calls>>

\* The context ended; with the channel closed too, select takes either case.
GiveUp(c) ==
  /\ pc[c] = "waiting" /\ c \in cancelled
  /\ pc' = [pc EXCEPT ![c] = "failed"]
  /\ sleeping' = sleeping \ {c}
  /\ cancelled' = cancelled \ {c}
  /\ UNCHANGED <<runner, policy, counters, request, wave, calls>>

decrement(n) == IF n <= 1 THEN 0 ELSE n - 1

ReleaseSlots(r) ==
  /\ programs' = [programs EXCEPT ![r.program] = decrement(@)]
  /\ providers' = [providers EXCEPT ![r.provider] = decrement(@)]
  /\ hosts' = [h \in Hosts |->
                 IF h \in HostsFromInput(r.input) THEN decrement(hosts[h]) ELSE hosts[h]]

\* The waiters are woken only when the program has no slot left in use.
MutRelease(c) ==
  /\ pc[c] \in {"held", "done"}
  /\ IF pc[c] = "done" THEN UNCHANGED <<counters, sleeping>>
     ELSE /\ ReleaseSlots(request[c])
          /\ sleeping' = IF programs[request[c].program] = 1 THEN {} ELSE sleeping
  /\ pc' = [pc EXCEPT ![c] = "done"]
  /\ cancelled' = cancelled \ {c}
  /\ UNCHANGED <<runner, policy, request, wave, calls>>

\* release is not guarded against a second call.
MutReleaseTwice(c) ==
  /\ pc[c] \in {"held", "done"}
  /\ ReleaseSlots(request[c])
  /\ sleeping' = {}
  /\ pc' = [pc EXCEPT ![c] = "done"]
  /\ cancelled' = cancelled \ {c}
  /\ UNCHANGED <<runner, policy, request, wave, calls>>

\* A second call of the same release function changes nothing.
Release(c) ==
  /\ pc[c] \in {"held", "done"}
  /\ IF pc[c] = "done" THEN UNCHANGED <<counters, sleeping>>
     ELSE ReleaseSlots(request[c]) /\ sleeping' = {}
  /\ pc' = [pc EXCEPT ![c] = "done"]
  /\ cancelled' = cancelled \ {c}
  /\ UNCHANGED <<runner, policy, request, wave, calls>>

-----------------------------------------------------------------------------
(* The callers.                                                            *)

Returned(c) == pc[c] \in {"idle", "done", "failed"}

\* executeWave: at most MaxParallel steps of one task, after the last wave
\* has returned.
executeWave(steps, asked) ==
  /\ runner = "engine"
  /\ \A c \in Callers : Returned(c)
  /\ steps # {} /\ Cardinality(steps) <= ProgramParallelism(policy)
  /\ calls + Cardinality(steps) <= MaxCalls
  /\ pc' = [c \in Callers |-> IF c \in steps THEN "trying" ELSE "idle"]
  /\ request' = [c \in Callers |-> IF c \in steps THEN asked[c] ELSE request[c]]
  /\ wave' = Cardinality(steps)
  /\ calls' = calls + Cardinality(steps)
  /\ UNCHANGED <<runner, policy, counters, sleeping, cancelled>>

\* handle: a worker of the pool takes up a job of any program.
handle(c, asked) ==
  /\ runner = "worker"
  /\ Returned(c)
  /\ calls < MaxCalls
  /\ pc' = [pc EXCEPT ![c] = "trying"]
  /\ request' = [request EXCEPT ![c] = asked]
  /\ calls' = calls + 1
  /\ UNCHANGED <<runner, policy, counters, sleeping, cancelled, wave>>

\* Cancellation of the run, or the shutdown of the worker.
Cancel(c) ==
  /\ ~ Returned(c) /\ c \notin cancelled
  /\ cancelled' = cancelled \cup {c}
  /\ UNCHANGED <<runner, policy, counters, pc, request, sleeping, wave, calls>>

Next ==
  \/ \E c \in Callers : Acquire(c) \/ Block(c) \/ Wake(c) \/ GiveUp(c) \/ Release(c)
  \/ \E steps \in SUBSET Callers, program \in Programs :
        \E asked \in [steps -> [program : {program}, provider : Providers, input : Inputs]] :
           executeWave(steps, asked)
  \/ \E c \in Callers, asked \in Request : handle(c, asked)
  \/ \E c \in Callers : Cancel(c)

Spec == Init /\ [][Next]_vars

\* Goroutines are scheduled, and a provider call ends: it has a timeout.
Fairness ==
  \A c \in Callers :
    /\ WF_vars(Acquire(c) \/ Block(c) \/ Wake(c))
    /\ WF_vars(GiveUp(c))
    /\ WF_vars(pc[c] = "held" /\ Release(c))

LiveSpec == Spec /\ Fairness

-----------------------------------------------------------------------------
(* Properties.                                                             *)

Holders == {c \in Callers : pc[c] = "held"}
HoldersOfProgram(p) == {c \in Holders : request[c].program = p}
HoldersOfProvider(v) == {c \in Holders : request[c].provider = v}
HoldersOfHost(h) == {c \in Holders : h \in HostsFromInput(request[c].input)}

\* The counters are exact: whatever was acquired, cancelled or released twice,
\* each says how many callers hold a slot of that program, provider or host.
CountersExact ==
  /\ \A p \in Programs : programs[p] = Cardinality(HoldersOfProgram(p))
  /\ \A v \in Providers : providers[v] = Cardinality(HoldersOfProvider(v))
  /\ \A h \in Hosts : hosts[h] = Cardinality(HoldersOfHost(h))

\* The limiter and its callers agree on who holds what.
AccountsAgree == TypeOK /\ CountersExact

\* The hosts an input names under a target key, in any of the four forms.
Named(input) == {h \in Hosts : \E k \in input :
                   k.host = h /\ k.key # "other" /\ k.place # "object" /\ k.form # "text"}

\* No more provider calls at once than configured, for a program, for a
\* provider, and for a host that any form of target in the input names.
WithinLimits ==
  /\ \A p \in Programs : Cardinality(HoldersOfProgram(p)) <= ProgramParallelism(policy)
  /\ \A v \in Providers :
        Cardinality(HoldersOfProvider(v)) <= positive(policy.ProviderConcurrency)
  /\ \A h \in Hosts :
        Cardinality({c \in Holders : h \in Named(request[c].input)})
           <= positive(policy.HostConcurrency)

\* A caller asleep in Acquire has no slot to take: whenever slots come free,
\* every caller that could use them has been woken.
NoLostWakeup == \A c \in sleeping : ~ available(request[c])

\* The shares of a wave's steps together stay within the policy's rate and
\* concurrency (comment of policy.ParallelShare).
WaveWithinBudget ==
  runner = "engine" /\ wave > 0 =>
    LET p == ParallelShare(policy, wave) IN
    /\ policy.RateLimit > 0 => wave * p.RateLimit <= policy.RateLimit
    /\ policy.Concurrency > 0 => wave * p.Concurrency <= policy.Concurrency

\* Nobody waits for ever: the slots of a request are taken together or not at
\* all, so once calls end every waiting caller gets its turn or is cancelled.
EveryoneServed == \A c \in Callers : pc[c] = "trying" ~> pc[c] \in {"held", "failed"}
=============================================================================
