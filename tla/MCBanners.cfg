CONSTANTS
    r1 = r1
    r2 = r2
    Requests = {r1, r2}
    MaxBody = 5
    Classes <- MCClasses
    WeekNames <- MCWeekNames
    Rank <- MCRank
    MinDayPeriods = 1
    MaxPeriodNumber = 2
    Columns = {1, 2, 3}
    ReportHeaderRow = 1
    HeaderMinMatches = 2
    HeaderSearchRows = 1
    MaxImportRows = 4
    MaxImportClasses = 2
    PartLimits <- MCPartLimits
    Lists <- MCLists
    Uploads <- MCUploads
    OldSchedules <- MCOldSchedules
    MaxRequests = 3
    MaxEvents = 1
    Workloads <- MCWorkloads
    BannerLimits <- MCBannerLimits
    Pictures = {"p1", "p2"}
    Links = {"link"}
    BannerBodies <- MCBannerBodies
    OldBanner <- MCOldBanner
    MaxBanners = 2
SPECIFICATION BannersSpec
INVARIANTS SavesAreWhole ExportRoundTrip BannerPartsKept AskedIsCurrent
