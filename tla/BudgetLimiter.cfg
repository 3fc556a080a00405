\* Three callers, two programs, two hosts, three calls, with fairness.
CONSTANTS
  c1 = c1
  c2 = c2
  c3 = c3
  p1 = p1
  p2 = p2
  v1 = v1
  h1 = h1
  h2 = h2
  None = None
  Callers = {c1, c2, c3}
  Programs = {p1, p2}
  Providers = {v1}
  Hosts = {h1, h2}
  Inputs <- SomeInputs
  Policies <- SomePolicies
  MaxCalls = 3
SPECIFICATION LiveSpec
CHECK_DEADLOCK FALSE
INVARIANTS AccountsAgree WithinLimits NoLostWakeup WaveWithinBudget
PROPERTIES EveryoneServed
