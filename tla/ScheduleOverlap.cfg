CONSTANTS
    theSchedule = theSchedule
    theHost = theHost
    NoOwner = NoOwner
    NoExec = NoExec
    Executions = {e1, e2}
    Workers = {w1}
    Schedules <- MCSchedules
    Hosts <- MCHosts
    ScheduleOf <- MCScheduleOf
    Host <- MCHost
    LeaseTicks = 1
    MaxAttempts = 1
VIEW MCOverlapView
SPECIFICATION Spec
INVARIANTS
    OneOpenPerSchedule
PROPERTIES
    ImplementsSlot
CHECK_DEADLOCK FALSE
