CONSTANTS
  Owners = {op1, op2}
  Multisigs = {"rialto1"}
  Rialto = "rialto1"
  Ether = 10
  MinCollateralizationRatio = 4
  MaxCollateralizationRatio = 15
  RewardsCycleSeconds = 1
  InflationIntervalSeconds = 1
  RewardsEligibilityMinSeconds = 1
  InflationIntervalRate = 15
  InitialSupply = 20
  MaxSupply = 40
  FirstPcts <- MCFirstPcts
  PctChoices <- MCPctChoices
  FirstPrice = 10
  GGPPrices = {5}
  GGPAmounts = {3}
  ClaimAmounts = {1}
  Slashes = {15}
  Assignments = {2}
  Compounded = {0}
  PausedContracts = {"RewardsPool", "Staking"}
  StartTime = 1
  MaxTime = 2
  InitializedAt = 0
  MaxEvents = 5
  MaxGGP = 6
  MaxAVAXStake = 2
SPECIFICATION RewardsSpec
CHECK_DEADLOCK FALSE
INVARIANTS
  RewardsTypeOK
  StakesBanked
  RewardsFunded
  InProgram
  InflationOnSchedule
  CycleStartable
  RoundGoesThrough
SYMMETRY MCSymmetry
