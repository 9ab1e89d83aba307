CONSTANTS
    NumCandidates = 2
    Target = 1
    CallLimit = 2
    MaxSlots = 1
    RetryAmbiguous = TRUE
    AmbiguousTextMatches = FALSE
    MaxPosts = 3
    MaxCrashes = 2
SPECIFICATION Spec
INVARIANTS
    AtMostOneCreate
    ProviderSlotsRespected
    ExactNNotExceeded
    PoolTaskIsInLedger
PROPERTIES
    UnknownNeverPostsAgain
CHECK_DEADLOCK FALSE
