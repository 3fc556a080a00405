\* Two results, two cleanup commands, three faults of any kind, with fairness.
CONSTANTS
  stdout = stdout
  normalized = normalized
  other = other
  r1 = r1
  r2 = r2
  c1 = c1
  c2 = c2
  None = None
  Artifacts = {stdout, normalized, other}
  Results = {r1, r2}
  Files <- TwoResults
  Expiring = {stdout, other}
  Cleaners = {c1, c2}
  BatchSize = 2
  MaxFaults = 3
SPECIFICATION LiveSpec
CHECK_DEADLOCK FALSE
INVARIANTS TypeOK ContentIsKept SettledIsTrue
PROPERTIES SettledIsFinal ExpiredIsSettled
