SPECIFICATION FairSpec
CONSTANTS
    Agents = {a1, a2}
    Fields = {"taxonomy", "image"}
    Strategies = {"jsonld", "cards"}
    max_steps = 2
    max_tool_calls = 5
    RemoteMessages <- Models
    BridgeMessages <- Operators
    MaxDisturbances = 1
INVARIANTS
    ProfileIsEarned
    AnswerIsOwn
PROPERTIES
    
    EveryAgentEnds
CHECK_DEADLOCK FALSE
