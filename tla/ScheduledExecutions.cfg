CONSTANTS
    theSchedule = theSchedule
    theHost = theHost
    NoOwner = NoOwner
    NoExec = NoExec
    Executions = {e1}
    Workers = {w1, w2}
    Schedules <- MCSchedules
    Hosts <- MCHosts
    ScheduleOf <- MCScheduleOf
    Host <- MCHost
    LeaseTicks = 1
    MaxAttempts = 2
SYMMETRY MCSymmetry
SPECIFICATION Spec
INVARIANTS
    TypeOK
    FencesExclusive
    GateNeedsApproval
    ClosedAgrees
    WaitingIsUsable
PROPERTIES
    HistoryIsFinal
CHECK_DEADLOCK FALSE
