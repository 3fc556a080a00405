\* One job, two workers, two pumps, one fault and one revival, with fairness.
CONSTANTS
  j1 = j1
  j2 = j2
  w1 = w1
  w2 = w2
  p1 = p1
  p2 = p2
  None = None
  Jobs = {j1}
  Workers = {w1, w2}
  Pumps = {p1, p2}
  MaxRetries = 1
  MaxEntries = 6
  MaxFaults = 1
  MaxRevivals = 1
SPECIFICATION LiveSpec
CHECK_DEADLOCK FALSE
INVARIANTS JobsAreKept
PROPERTIES JobSettles ImplementsLedger
