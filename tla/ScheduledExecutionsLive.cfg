CONSTANTS
    theSchedule = theSchedule
    theHost = theHost
    NoOwner = NoOwner
    NoExec = NoExec
    Executions = {e1}
    Workers = {w1}
    Schedules <- MCSchedules
    Hosts <- MCHosts
    ScheduleOf <- MCScheduleOf
    Host <- MCHost
    LeaseTicks = 1
    MaxAttempts = 2
SPECIFICATION FairSpec
PROPERTIES
    ExecutionsProgress
CHECK_DEADLOCK FALSE
