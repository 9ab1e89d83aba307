SPECIFICATION Spec
CONSTANTS
    NumCandidates = 3
    StartStates = {"DISCOVERED"}
    Categories = {"a"}
    CategoryOf <- OneCategory
    Quota <- WholeTarget
    QuotaMode = "REQUIRED"
    Spillover = "ASK"
    Target = 2
    TargetMode = "EXACT_N"
    AllowShortfall = FALSE
    Providers = {"OFF", "ON"}
    MaxSlots = 2
    MaxStepsPerTick = 2
    MaxRefillRounds = 1
    Answers = {"reject", "l2", "retry", "brain", "review", "dimension_l2", "gate", "capacity", "unknown", "limit", "timeout", "duplicate", "conflict", "invalid", "qa_failed", "orientation", "blender", "off"}
    MaxStarts = 2
INVARIANTS
    TypeOK
    ExactNDelivered
    ExactNNotExceeded
    StopsLeaveNoPaidModel
    ReadyPoolIsExact
PROPERTIES
    ImplementsPaidOrder
CHECK_DEADLOCK FALSE
