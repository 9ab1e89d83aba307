CONSTANTS
    NumCandidates = 2
    Target = 2
    CallLimit = 1
    MaxSlots = 2
    RetryAmbiguous = FALSE
    AmbiguousTextMatches = FALSE
    MaxPosts = 2
    MaxCrashes = 1
SPECIFICATION Spec
INVARIANTS
    CreatesWithinLimit
CHECK_DEADLOCK FALSE
