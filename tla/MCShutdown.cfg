CONSTANTS
    MaxRequests = 2
    MaxTasks = 3
    Students = {1, 2, 3}
    WithParent = {1, 2, 3}
    WithDevice = {1}
    OnLeave = {3}
    MaxEvents = 1
    Workloads <- MCWorkloads
    r1 = r1
    r2 = r2
    r3 = r3
    AdminReqs = {r1, r2, r3}
    PageSize = 1
SPECIFICATION DutySpec
INVARIANTS DatabaseOutlivesWork AbsentAreTold OnlyAbsentAreTold CleanExitOwesNothing PagesMissNothing
PROPERTIES ShutdownEnds
CHECK_DEADLOCK FALSE
