CONSTANTS
  Accounts <- MCAccounts
  Self = "vault"
  QueueRole <- MCQueueRole
  Receivers <- MCAccounts
  Seed = 1
  RewardsCycleLength = 3
  FeeBips = {0, 5000}
  ReserveRate = 1
  Ether = 4
  Pauses = {TRUE, FALSE}
  Amounts = {1, 2}
  StartTime = 0
  MaxAVAX = 6
  MaxTime = 6
SPECIFICATION TokenSpec
INVARIANTS
  TokenTypeOK
  SupplyIsSumOfBalances
  VaultBacked
  ClaimsCovered
  NoInstantProfit
PROPERTIES
  PriceNeverFalls
  YieldIsDeferred
