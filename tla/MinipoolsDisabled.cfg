CONSTANTS
  Accounts <- MCAccounts
  Self = "vault"
  QueueRole <- MCQueueRole
  Receivers = {}
  Seed = 6
  RewardsCycleLength = 9
  FeeBips = {0}
  ReserveRate = 1
  Ether = 10
  Pauses = {TRUE, FALSE}
  Amounts = {2}
  StartTime = 1
  MaxAVAX = 12
  MaxTime = 3
  NodeIDs = {n1}
  Owners <- MCOwners
  Multisigs = {"rialto1"}
  NoOne = "none"
  FirstMultisigs <- MCFirstMultisigs
  MultisigLimit = 2
  Assignments = {2}
  Durations = {2}
  CancelMoratorium = 1
  CycleDuration = 1
  CycleDelayTolerance = 0
  Year = 1
  CommissionFee = 0
  ExpectedRewardsRate = 10
  MinCollateralizationRatio = 4
  MaxCollateralizationRatio = 15
  ValidationRewards = {0, 3}
  Delays = {0}
  GGPPrices = {10}
  FirstPrice = 10
  GGPAmounts = {3}
  Locks = {}
  PausedContracts = {}
  Emergency = FALSE
  Delegation = FALSE
  MaxGGP = 3
SPECIFICATION MinipoolSpec
CHECK_DEADLOCK FALSE
PROPERTIES
  DisabledMultisigRests
