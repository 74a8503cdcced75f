SPECIFICATION FairSpec
CONSTANTS
    TaskCount = 2
    Nodes = {n1}
    Passes = {p1, p2}
    Period = 2
    RetryTasks = {1}
    MaxChanges = 1
    MaxCrashes = 1
    MaxTime = 4
CHECK_DEADLOCK FALSE
INVARIANTS
    CronTypeOK
    RunsOncePerPoint
PROPERTIES
    DueTaskTried
