CONSTANTS
  Accounts <- MCAccounts
  Self = "vault"
  QueueRole <- MCQueueRole
  Receivers = {"alice"}
  Seed = 4
  RewardsCycleLength = 9
  FeeBips = {5000}
  ReserveRate = 1
  Ether = 10
  Pauses = {TRUE, FALSE}
  Amounts = {2}
  StartTime = 1
  MaxAVAX = 8
  MaxTime = 2
  NodeIDs = {n1}
  Owners <- MCTwoOwners
  Multisigs = {"rialto1"}
  NoOne = "none"
  FirstMultisigs <- MCNoMultisigs
  MultisigLimit = 2
  Assignments = {2}
  Durations = {2}
  CancelMoratorium = 1
  CycleDuration = 1
  CycleDelayTolerance = 0
  Year = 1
  CommissionFee = 5
  ExpectedRewardsRate = 10
  MinCollateralizationRatio = 4
  MaxCollateralizationRatio = 15
  ValidationRewards = {0, 4}
  Delays = {0}
  GGPPrices = {10}
  FirstPrice = 10
  GGPAmounts = {3}
  Locks = {2}
  PausedContracts = {"Staking"}
  Emergency = TRUE
  Delegation = TRUE
  MaxGGP = 3
SPECIFICATION MinipoolSpec
CHECK_DEADLOCK FALSE
INVARIANTS
  StakersAgree
  LiquidAccounted
  NothingStuck
