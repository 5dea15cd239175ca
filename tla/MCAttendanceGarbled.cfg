CONSTANTS
    r1 = r1
    Reqs = {r1}
    Admins = {}
    Loads <- Garbled
    JsonPunches <- NoPunches
    Bad <- NoPunches
    ManualTimes = {}
    MaxBatch = 3
    SchoolDays = {0}
    Nows = {7}
    MaxEvents = 0
    StudentPins = {1}
    TeacherPins = {9}
    GarbledPins = {7}
    SecondsPerMinute = 2
    DayMinutes = 4
    InMinutes = {0, 1}
    OutMinutes = {3}
SPECIFICATION FairSpec
PROPERTIES AllAcknowledged
