SPECIFICATION FairSpec
CONSTANTS
    NumCandidates = 3
    StartStates = {"CATALOG_READY"}
    Categories = {"a", "b"}
    CategoryOf <- TwoCategories
    Quota <- OneEach
    QuotaMode = "REQUIRED"
    Spillover = "ASK"
    Target = 2
    TargetMode = "UP_TO_N"
    AllowShortfall = FALSE
    Providers = {"ON"}
    MaxSlots = 2
    MaxStepsPerTick = 3
    MaxRefillRounds = 1
    Answers = {"reject", "capacity", "unknown", "timeout", "duplicate"}
    MaxStarts = 1
INVARIANTS
    EveryTickDoesSomething
    ShortDeliveryIsFinal
    QuotaKept
    
PROPERTIES
    EveryRunEnds
CHECK_DEADLOCK FALSE
