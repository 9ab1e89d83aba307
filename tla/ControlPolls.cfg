SPECIFICATION Spec
CONSTANTS
    Jobs = {j1}
    Threads = {t1, t2}
    MAX_ACTIVE_PRODUCTION_JOBS = 1
    MaxRuns = 1
    MaxLaunches = 3
    MaxRequests = 2
    EndingsTried <- LateDelivery
SYMMETRY ThreadsAlike
INVARIANTS
    SucceededWasDelivered
PROPERTIES
    RelaunchOnlyCrashed
CHECK_DEADLOCK FALSE
