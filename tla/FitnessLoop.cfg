SPECIFICATION Spec
CONSTANTS
    Catalog <- MCCatalog
    ModelOrder <- MCModels
    TaskOrder <- MCTasks
    Alpha = 50
    MinSamples = 20
    MaxAdjustment = 15
    Measurements <- MCMeasurements
    Feedbacks <- MCFeedbacks
    UserPolicies <- MCPolicies
    TierConfigs <- MCTiers
    QueueCapacity = 1
    MaxPosts = 1
    MaxToggles = 1
PROPERTIES
    KnowledgeKept
    LoopSettles
CHECK_DEADLOCK FALSE
