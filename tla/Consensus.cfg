CONSTANTS
  Validators = {"v1", "v2"}
  Owners = {"self"}
  StakingDeployer = "self"
  InitialMinStake = 1
  MinStakes = {}
  CooldownPeriod = 1
  Amounts = {1, 3}
  MaxDeposit = 3
  MaxTime = 2
  Orgs = {"o1"}
  Times = {1, 2}
  Bodies = {"b"}
  Accounts = {"self", "dev"}
  InitialOwner = "dev"
  ZeroAddress = "zero"
  MaxNonce = 1
  Others = {}
  Self = "self"
  Arbiters = {"dao"}
  InitialArbiter = "dao"
  PeriodStarts = {1}
  PeriodEnds = {2}
  AttestNonces = {1}
  MinQuorum = 2
  Quorums = {1}
  SlashBps = 5000
  SlashPercents = {10000}
  BondMin = 1
  Bonds = {}
  PROPOSAL_TTL = 1
  MaxProposals = 1
  MaxChallenges = 2
  Funding = 1
SPECIFICATION Spec
INVARIANTS
    FinalizedBySupermajority
PROPERTIES
    SlashingSound
