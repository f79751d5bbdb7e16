SPECIFICATION Spec
CONSTANTS
    Catalog <- MCCatalog
    ModelOrder <- MCModels
    TaskOrder <- MCTasks
    Requests = {r1, r2}
    Profiles <- MCProfiles
    Sessions = {"s1"}
    NoSession = "no session"
    Answers <- MCAnswers
    Confident = 40
    ReEscalation = 80
    Tier1Confidence = 70
    MinWindow = 2
    Window = 2
    Matrices <- MCMatrices
    Policies <- MCPolicies
    Upstreams <- MCUpstreams
    EventCapacity = 1
    DecisionCapacity = 1
    SampleCapacity = 1
    MaxChanges = 1
PROPERTY NeverBelowFloor
CHECK_DEADLOCK FALSE
