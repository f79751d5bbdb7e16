SPECIFICATION Spec
CONSTANTS
    \* validators and their tasks
    Members = {"a", "b", "c"}
    Deposit <- MCDeposit
    MinStake = 390
    SlashPercent = 5
    MaxDepartures = 1
    Strangers = {"x"}
    Scores = {80, 100, 150, 220}
    Threshold = 2
    Tolerance = 20
    SlashTolerance = 40
    RewardPerTask = 12
    AssignCount = 2
    \* drift and impact reports
    Qualities = {40, 100}
    ReportOrgs = {"a", "b"}
    Rolling = 1
    Lookback = 2
    MinSample = 1
    CallCost = 100
    MaxDays = 2
    MaxResults = 4
    MaxEvents = 2
    MaxReports = 1
    \* feedback signals
    AskedModels = {"x", "y"}
    Soon = 2
    MaxAsked = 3
    MaxTime = 4
    MaxSignals = 1
    \* client library
    ProgramTasks = {"m", "c"}
    MainTask = "m"
    Clients = {"sync", "async"}
    Wraps = 2
    IngestQueue = 1
    MaxTraces = 2
    MaxCalls = 2
    \* Merkle tree
    LeafData = {"x", "y"}
    MaxLeaves = 5
    \* compliance reports
    EventKinds <- MCEventKinds
    AuditOrgs = {"o"}
    MaxAuditEvents = 3
    MaxClock = 2
    MaxFiled = 2
    \* tenants
    Emails = {"e"}
    SsoProviders = {"p"}
    UserRoles <- MCUserRoles
    Permissions = {"read", "manage"}
    HttpRequests = {"r1"}
    MaxTenants = 2
    MaxUsers = 2
    MaxLogins = 2
    MaxBlocks = 2
    \* classification
    TaskKeywords <- MCTaskKeywords
    Messages <- MCMessages
    ToolCounts = {0, 4}
    TokenCounts <- MCTokenCounts
    LlmAnswers <- MCLlmAnswers
    Examples <- MCExamples
    MaxMessages = 2
    MaxExamples = 3
    \* the in-memory attestation provider
    Orgs = {o1, o2}
    o1 = o1
    o2 = o2
    Times = {1}
    Bodies = {"good", "bad"}
    Malformed = {"bad"}
    MaxNonce = 2
    \* conversations
    Providers = {"anthropic", "openai"}
    MaxRequests = 3
    MaxToolUses = 2
INVARIANTS
    TracesSound
    RootsAreEvidence
    ClassificationSound
    ConversationsValid
PROPERTIES
    TasksSettleFairly
    EvidenceIsReal
    IdentitiesKept
    ProviderKeepsChain
CHECK_DEADLOCK FALSE
