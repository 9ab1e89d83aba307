SPECIFICATION Spec
CONSTANTS
    NumCandidates = 3
    StartStates = {"CATALOG_READY"}
    Categories = {"a"}
    CategoryOf <- OneCategory
    Quota <- WholeTarget
    QuotaMode = "NONE"
    Spillover = "ASK"
    Target = 2
    TargetMode = "EXACT_N"
    AllowShortfall = FALSE
    Providers = {"ON"}
    MaxSlots = 1
    MaxStepsPerTick = 3
    MaxRefillRounds = 1
    Answers = {"reject", "capacity", "unknown", "timeout"}
    MaxStarts = 1
INVARIANTS
    EveryTickDoesSomething
CHECK_DEADLOCK FALSE
