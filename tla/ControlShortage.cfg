SPECIFICATION Spec
CONSTANTS
    Jobs = {j1}
    Threads = {t1}
    MAX_ACTIVE_PRODUCTION_JOBS = 1
    MaxRuns = 1
    MaxLaunches = 1
    MaxRequests = 1
    EndingsTried <- AskedAboutShortage
PROPERTIES
    ShortageIsKept
CHECK_DEADLOCK FALSE
