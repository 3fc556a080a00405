-------------------------- MODULE MCBudgetLimiter --------------------------
(* Small instances of BudgetLimiter for TLC.                               *)
EXTENDS BudgetLimiter, TLC

CONSTANTS c1, c2, c3, p1, p2, v1, h1, h2

Cand(k, pl, f, h) == [key |-> k, place |-> pl, form |-> f, host |-> h]

\* One host as a URL, next to what names none; the same host as a bare name;
\* both hosts at once.
SomeInputs == {
  {Cand("url", "value", "url", h1), Cand("urls", "object", "url", h2),
   Cand("other", "value", "name", h2), Cand("target", "value", "text", h2)},
  {Cand("hosts", "list", "name", h1)},
  {Cand("port_targets", "list", "hostport", h1), Cand("targets", "list", "address", h2)}}

Config(r, c, v, h) ==
  [RateLimit |-> r, Concurrency |-> c, ProviderConcurrency |-> v, HostConcurrency |-> h]

\* Unset budgets; a rate below the concurrency; a program with room for all,
\* two calls of a provider and one call per host at a time.
SomePolicies == {Config(0, 0, 0, 0), Config(2, 3, 3, 3), Config(7, 3, 2, 1)}

CallerSymmetry == Permutations(Callers)
=============================================================================
