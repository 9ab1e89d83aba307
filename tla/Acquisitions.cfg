SPECIFICATION Spec
CONSTANTS
    Products = {"a", "b", "c", "d"}
    Pages = {"p1", "p2", "p3"}
    NoPage = "none"
    MaxScopes = 2
    Sites <- FourSites
    AgentAnswers <- AnyAnswer
    Modes = {"EXACT_N", "UP_TO_N", "ALL"}
    Target = 2
    MAX_ACQUISITION_PAGES = 2
    DISCOVERY_FACTOR = 1
    DISCOVERY_FLOOR = 1
    REFILL_FACTOR = 1
    ALL_PRODUCTS = 5
    MAX_REFILL_ROUNDS = 2
    MaxStarts = 3
INVARIANTS
    NoFalseShortage
    BatchIsNew
PROPERTIES
    PaidPolicyIsKept
    EveryDiscoveryEnds
CHECK_DEADLOCK FALSE
