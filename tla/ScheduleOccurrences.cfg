CONSTANTS
  s1 = s1
  s2 = s2
  None = None
  Schedules = {s1, s2}
  Order <- ListOrder
  Schedulers = {p1, p2}
  Operators = {o1}
  Expressions = {"minute", "never", "invalid"}
  CronNext <- SomeCrons
  MaxConcurrentRuns = 2
  Horizon = 3
  MaxEvents = 2
SPECIFICATION LiveSpec
INVARIANTS OccurrencesAgree OneCatchUp
CHECK_DEADLOCK FALSE
PROPERTIES NothingIsForgotten
