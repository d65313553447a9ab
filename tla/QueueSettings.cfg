CONSTANTS
  Accounts <- MCAccounts
  Self = "vault"
  QueueRole <- MCQueueRole
  Receivers = {"alice"}
  Seed = 1
  RewardsCycleLength = 1
  FeeBips = {0}
  ReserveRate = 1
  Ether = 4
  Pauses = {TRUE, FALSE}
  Amounts = {1}
  StartTime = 0
  MaxAVAX = 3
  MaxTime = 1
  Queue = "queue"
  NoAddress = "zero"
  Contracts = {}
  Requesters = {"alice"}
  MinExpirationDelay = 1
  UnstakeDelays = {0}
  ExpirationDelays = {1}
  RequestLimits = {1, 2}
  OnBehalfAmounts = {1}
  BatchSizes = {0, 1}
  StuckAVAX = {1}
  MaxRequests = 2
SPECIFICATION QueueFairSpec
INVARIANTS
  AllocationsCovered
PROPERTIES
  WaitsOnlyForLiquidity
