SPECIFICATION FairSpec
CONSTANTS
    Jobs = {j1, j2}
    Threads = {t1}
    MAX_ACTIVE_PRODUCTION_JOBS = 1
    MaxRuns = 2
    MaxLaunches = 3
    MaxRequests = 3
    EndingsTried <- CompletedOrBlocked
INVARIANTS
    TypeOK
    WorkersAreOwned
PROPERTIES
    EveryRunSettles
CHECK_DEADLOCK FALSE
