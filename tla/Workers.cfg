SPECIFICATION Spec
CONSTANTS
    \* workflows and settlements
    Steps = {"s1", "s2", "s3"}
    StepOrder <- MCSteps
    Definitions <- MCGraphs
    Cost <- MCCost
    Listed = {"s1", "s2", "s3"}
    Dust = 4
    MaxSteps = 3
    Participants = {"s1", "s2"}
    Senders = {"payer"}
    SplitRules <- MCSplitRules
    SettledCosts = {1, 13, 20}
    FeePercent = 10
    MinSettlement = 2
    MinDeposit = 4
    Deposits = {12}
    MaxChannels = 2
    MaxSettlements = 3
    \* validators and their proposals
    Members = {"a", "b"}
    Deposit <- MCDeposit
    MinStake = 390
    SlashPercent = 5
    MaxDepartures = 1
    Nonces = {1, 2}
    MinQuorum = 2
    MaxFlights = 2
    MaxChallenges = 2
    \* tool calls
    CallCapacity = 3
    EdgeCapacity = 1
    McpBatch = 2
    MaxAttempts = 2
    BadCalls <- MCBadCalls
    MaxToolCalls = 4
    MaxPerResponse = 3
    MaxFaults = 2
    \* alerts
    AlertRules = {"r1"}
    SpendRules = {}
    Levels0 = {0, 4}
    Mean = 2
    Dev = 1
    Floor = 3
    Cooldown = 3
    Interval = 2
    \* benchmark runs
    Lines <- MCLines
    BenchModels <- MCBenchModels
    Verdicts <- MCVerdicts
    BatchSize = 1
    MaxProcesses = 2
    MaxRuns = 2
    \* governance
    Voters = {"a", "b", "c"}
    Weights = {0, 1, 2}
    ProposalThreshold = 1
    Quorums = {0, 3}
    \* trust scores
    Callers = {"o", "u"}
    InitialOwner = "o"
    AgentHashes = {"x", "y", "z"}
    Composites = {0, 5, 7, 11}
    DefaultScore = 5
    MaxScore = 10
    \* converted streams
    ToolIndexes = {0, 1}
    MaxDeltas = 6
    \* billing
    Billers = {"x", "y"}
    BilledModels = {"m", "n"}
    UsageAmounts <- MCAmounts
    Charges <- MCCharges
    ThresholdPct = 40
    MaxLines = 2
    MaxAnchors = 2
    \* waste
    Catalog <- MODEL_CATALOG
    ModelOrder <- MCModels
    TaskOrder <- MCTasks
    CallKinds <- MCCallKinds
    Evidence <- MCEvidence
    CacheWindow = 2
    Pauses = {0, 2}
    MaxWasted = 4
    \* budgets
    BudgetOrgs = {"o"}
    Projects = {}
    NoProject = "all"
    Caps = {20}
    Costs = {17, 19, 20}
    MaxBudgets = 2
    \* the staking contract
    Validators = {"v1", "v2"}
    Owners = {"dao", "dev"}
    StakingDeployer = "dev"
    InitialMinStake = 2
    MinStakes = {1, 3}
    CooldownPeriod = 1
    Amounts = {0, 1, 2}
    MaxDeposit = 3
    MaxTime = 3
    \* token and revenue contracts
    Holders = {"a", "b"}
    FirstOwner = "a"
    FirstTreasury = "b"
    Spenders = {"revenue", "b"}
    InitialSupply = 2
    MaxSupply = 2
    ExecutionIds = {"e"}
    Payouts <- MCPayouts
    Fees <- MCFees
INVARIANTS
    StakingSound
    WorkflowsPaid
    VotesDecide
    CallGraphsKept
    RunsResume
    BlocksNest
    ReconciliationSound
    AdviceHolds
PROPERTIES
    AlertsSound
    ContractsKeepBooks
    WorkersEnd
CHECK_DEADLOCK FALSE
