CONSTANTS
  Validators = {"v1"}
  Owners = {"self"}
  StakingDeployer = "self"
  InitialMinStake = 1
  MinStakes = {}
  CooldownPeriod = 1
  Amounts = {1}
  MaxDeposit = 1
  MaxTime = 3
  Orgs = {"o1"}
  Times = {1, 2}
  Bodies = {"b"}
  Accounts = {"self", "dev"}
  InitialOwner = "dev"
  ZeroAddress = "zero"
  MaxNonce = 2
  Others = {"dev"}
  Self = "self"
  Arbiters = {"dao", "dev"}
  InitialArbiter = "dao"
  PeriodStarts = {1}
  PeriodEnds = {2}
  AttestNonces = {1, 2}
  MinQuorum = 1
  Quorums = {0}
  SlashBps = 5000
  SlashPercents = {}
  BondMin = 1
  Bonds = {2}
  PROPOSAL_TTL = 1
  MaxProposals = 3
  MaxChallenges = 0
  Funding = 0
SPECIFICATION Spec
INVARIANTS
    SlotsSound
PROPERTIES
    RefinesChain
