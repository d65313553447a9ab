CONSTANTS
  Accounts <- MCAccounts
  Self = "vault"
  QueueRole <- MCQueueRole
  Receivers = {"alice"}
  Seed = 1
  RewardsCycleLength = 2
  FeeBips = {0}
  ReserveRate = 1
  Ether = 4
  Pauses = {}
  Amounts = {1}
  StartTime = 0
  MaxAVAX = 5
  MaxTime = 3
  Queue = "queue"
  NoAddress = "zero"
  Contracts = {}
  Requesters = {"alice"}
  MinExpirationDelay = 1
  UnstakeDelays = {1}
  ExpirationDelays = {1}
  RequestLimits = {2}
  OnBehalfAmounts = {1}
  BatchSizes = {0}
  StuckAVAX = {0}
  MaxRequests = 1
SPECIFICATION QueueSpec
PROPERTIES
  DepositNeverReverts
