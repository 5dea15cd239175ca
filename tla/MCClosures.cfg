CONSTANTS
    r1 = r1
    r2 = r2
    k1 = k1
    k2 = k2
    Requests = {r1, r2}
    Parents = {1, 2, 3}
    Tokens = {k1, k2}
    Texts = {1}
    DuplicateWait = 2
    BatchSize = 1
    MaxRequests = 2
    MaxTime = 2
    MaxEvents = 1
    Registered = {1, 2}
    InClass = {1}
    HasDevice <- TwoDevices
    Workloads <- MCWorkloads
    MaxDate = 2
    StartDate = 1
    MaxHolidayDays = 1
    Existing <- MCExisting
SPECIFICATION ClosuresSpec
INVARIANTS NoRepeat LogIsHonest ClosuresDisjoint CancelledOnce NoticesExist
PROPERTIES PushTriesAll PastStaysClosed
