CONSTANTS
  Accounts <- MCAccounts
  Self = "vault"
  QueueRole <- MCQueueRole
  Receivers = {"pst"}
  Seed = 1
  RewardsCycleLength = 1
  FeeBips = {0}
  ReserveRate = 1
  Ether = 4
  Pauses = {}
  Amounts = {2}
  StartTime = 0
  MaxAVAX = 7
  MaxTime = 1
  Queue = "queue"
  NoAddress = "zero"
  Contracts = {"pst", "bob"}
  Requesters = {}
  MinExpirationDelay = 1
  UnstakeDelays = {1}
  ExpirationDelays = {1}
  RequestLimits = {2}
  OnBehalfAmounts = {0}
  BatchSizes = {}
  StuckAVAX = {0}
  MaxRequests = 1
  Pst = "pst"
  PstHolders = {"alice", "bob"}
  PstAmounts = {4}
  StripFees = {5000}
  FeeRecipients = {"bob"}
  PstPauses = {TRUE}
SPECIFICATION PstSpec
CHECK_DEADLOCK FALSE
INVARIANTS
  PstTypeOK
  PrincipalCovered
  HolderCanLeave
  StripSettles
  RedemptionNeverShort
PROPERTIES
  PriceNeverFalls
