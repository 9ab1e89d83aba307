SPECIFICATION Spec
CONSTANTS
    Categories = {"/sofas", "/sofas/leather"}
    MAX_HTTP_SCANS = 2
    L1Answers <- PagesOrBrowser
    L2Answers <- PartialOrChallenge
    MaxScans = 2
    MaxInterruptions = 1
    QuickResume = FALSE
    NoParent = none
    Parent <- ParentOf
    FormScopes <- EmptyOrOne
    Providers = {"OFF", "lux3d", "tripo"}
    Targets = {1}
    Limits = {3}
    Configured = TRUE
    MaxRequests = 3
INVARIANTS
    ActiveIsScheduled
    CurrentRowsAreOneSnapshot
PROPERTIES
    NoStaleProfileOverwrite
    PaidContractIsApproved
    ContractKeepsSelection
    FrozenProfileKept
CHECK_DEADLOCK FALSE
