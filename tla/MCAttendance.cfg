CONSTANTS
    r1 = r1
    r2 = r2
    a1 = a1
    a2 = a2
    Reqs = {r1, r2}
    Admins = {a1, a2}
    Loads <- Mornings
    JsonPunches <- ByJson
    Bad <- Rejected
    ManualTimes = {9, 10}
    MaxBatch = 2
    SchoolDays = {1}
    Nows = {7, 12}
    MaxEvents = 2
    StudentPins = {1}
    TeacherPins = {9}
    GarbledPins = {7}
    SecondsPerMinute = 2
    DayMinutes = 4
    InMinutes = {0, 1}
    OutMinutes = {3}
SPECIFICATION FairSpec
INVARIANTS NoPunchLost AnnouncedOnce WindowAnnounced OneManualPerWindow
PROPERTIES ReadableAcknowledged
