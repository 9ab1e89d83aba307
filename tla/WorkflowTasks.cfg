SPECIFICATION Spec
CONSTANTS
    NumTasks = 3
    MODEL_GENERATION = 1
    BLENDER_EXPORT = 2
    ENTERPRISE_INPUT = 3
    Hashes = {h1}
    NoHash = NoHash
    MaxEvents = 10
INVARIANTS
    Sequential
    NothingForgotten
    LogExplainsState
    UnknownIsReviewed
PROPERTIES
    ImplementsStepByStep
CHECK_DEADLOCK FALSE
