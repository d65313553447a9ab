------------------------------ MODULE Rewards ------------------------------
(***************************************************************************)
(* The rewards in GGP.  RewardsPool mints the inflation of a cycle and     *)
(* splits it between the protocol DAO, the multisigs and ClaimNodeOp;      *)
(* Rialto goes through the stakers and has ClaimNodeOp credit each with    *)
(* its share; the stakers claim or restake what they were credited.        *)
(*                                                                         *)
(* The minipools appear as what their handlers make of the records of      *)
(* their owners (Staking).  Rialto's round is a script outside the chain:  *)
(* it reads in one call and pays in another, anybody may act between two   *)
(* of its calls, and it may die at any of them.                            *)
(***************************************************************************)
EXTENDS ShareMath, FiniteSets, Functions

CONSTANTS
  Owners,                       \* who may stake GGP
  Multisigs, Rialto,            \* the registered multisigs, and the one that signs the rounds
  MinCollateralizationRatio, MaxCollateralizationRatio,   \* parts of Ether
  RewardsCycleSeconds, InflationIntervalSeconds,          \* in steps of the clock
  RewardsEligibilityMinSeconds,
  InflationIntervalRate,        \* at least Ether: getInflationIntervalRate sees to it
  InitialSupply, MaxSupply,     \* TokenGGP
  FirstPcts, PctChoices,        \* the part of each claimer: at first, and what may be set
  FirstPrice, GGPPrices,        \* what the Oracle may be told
  GGPAmounts,                   \* the amounts of GGP that are staked and withdrawn
  ClaimAmounts,                 \* what is claimed of the rewards, beside all and nothing
  Slashes,                      \* what a failed validation should cost
  Assignments,                  \* the AVAX a minipool is assigned
  Compounded,                   \* what a cycle adds to it
  PausedContracts,              \* what Ocyticus may pause
  InitializedAt,                \* when RewardsPool was initialized
  StartTime, MaxTime,           \* the first and the last time
  MaxEvents,                    \* bound: what minipools, guardian and multisigs do, all in all
  MaxGGP,                       \* bound: the GGP that is staked or was slashed
  MaxAVAXStake                  \* bound: the AVAX an owner has in minipools

Claimers == {"ClaimProtocolDAO", "ClaimNodeOp", "MultisigManager"}

ASSUME RewardsConstants ==
  /\ Ether \in Nat \ {0}
  /\ IsFiniteSet(Owners) /\ IsFiniteSet(Multisigs) /\ Rialto \in Multisigs
  /\ MinCollateralizationRatio \in Nat /\ MaxCollateralizationRatio \in Nat
  /\ RewardsCycleSeconds \in Nat \ {0} /\ InflationIntervalSeconds \in Nat \ {0}
  /\ RewardsEligibilityMinSeconds \in Nat
  /\ InflationIntervalRate \in Nat /\ InflationIntervalRate >= Ether
  /\ InitialSupply \in Nat /\ MaxSupply \in Nat /\ InitialSupply <= MaxSupply
  /\ FirstPcts \in [Claimers -> 0..Ether] /\ PctChoices \subseteq Claimers \X (0..Ether)
  /\ GGPPrices \subseteq Nat \ {0} /\ FirstPrice \in Nat \ {0}
  /\ GGPAmounts \subseteq Nat /\ ClaimAmounts \subseteq Nat
  /\ Slashes \subseteq Nat /\ Assignments \subseteq Nat \ {0} /\ Compounded \subseteq Nat
  /\ PausedContracts \subseteq {"RewardsPool", "Staking"}
  /\ StartTime \in Nat \ {0} /\ MaxTime \in Nat
  /\ InitializedAt \in Nat /\ InitializedAt <= StartTime
  /\ MaxEvents \in Nat /\ MaxGGP \in Nat /\ MaxAVAXStake \in Nat

NetworkContracts ==
  {"Staking", "ProtocolDAO", "RewardsPool", "ClaimNodeOp", "ClaimProtocolDAO", "MultisigManager"}

Vault == INSTANCE Vault
Staking == INSTANCE Staking

VARIABLES
  now,        \* block.timestamp
  pool,       \* the storage of RewardsPool, the supply of TokenGGP and ClaimNodeOp's total
  pcts,       \* ProtocolDAO.ClaimingContractPct
  stakers,    \* the storage of Staking
  vault,      \* the storage of Vault
  enabled,    \* the multisigs that are enabled
  paused,     \* contract.paused
  ggpPrice,   \* Oracle.GGPPriceInAVAX
  round,      \* external: how far Rialto's script has come
  history,    \* what has happened to the money of this cycle; no action reads it
  events      \* how much of the bound on events is used up

vars == <<now, pool, pcts, stakers, vault, enabled, paused, ggpPrice, round, history,
          events>>

PoolStorage == [
  rewardsCycleCount : Nat,
  rewardsCycleStartTime : Nat,
  inflationIntervalStartTime : Nat,
  rewardsCycleTotalAmt : Nat,
  nopRewardsCycleTotal : Nat,   \* NOPClaim.RewardsCycleTotal
  totalSupply : Nat]

(* The script: it reads the stakers, adds up the GGP of those that are     *)
(* eligible, and then pays these one by one.  The calls of isEligible are  *)
(* one step: each looks at one record only.                                *)
Round == [
  phase : {"idle", "checking", "paying"},
  eligible : SUBSET Owners,     \* to be checked, and then those who are
  left : SUBSET Owners,         \* to be paid
  ggpStaked : [Owners -> Nat],  \* as getStakers returned it
  totalEligibleGGPStaked : Nat]

NoRound == [phase |-> "idle", eligible |-> {}, left |-> {},
            ggpStaked |-> [o \in Owners |-> 0], totalEligibleGGPStaked |-> 0]

(* paid: whom ClaimNodeOp has paid in this cycle; orderly: every payment   *)
(* so far came from the only round of its cycle, for no more GGP than that *)
(* round had counted, and out of a total that the cycle had set.           *)
History == [paid : SUBSET Owners, orderly : BOOLEAN]

(* Whoever was paid in this cycle was paid by the round that is under way *)
OneRound == history.paid \subseteq round.eligible \ round.left

WhenNotPaused(contract) == contract \notin paused
GGPOf(contracts) == SumFunctionOnSet(vault.ggp, contracts)

(* The GGP that is not in the Vault *)
Circulating == pool.totalSupply - GGPOf(NetworkContracts)

-----------------------------------------------------------------------------
(* RewardsPool *)

RewardsCyclesElapsed == (now - pool.rewardsCycleStartTime) \div RewardsCycleSeconds
InflationIntervalsElapsed ==
  (now - pool.inflationIntervalStartTime) \div InflationIntervalSeconds

CanStartRewardsCycle ==
  /\ WhenNotPaused("RewardsPool")
  /\ RewardsCyclesElapsed > 0 /\ InflationIntervalsElapsed > 0

(* What a supply grows to, interval by interval *)
Inflated(supply) ==
  LET grown[i \in Nat] == IF i = 0 THEN supply ELSE MulWadDown(grown[i - 1], InflationIntervalRate)
  IN  grown

(* Mutant: the limit is left to TokenGGP *)
NewTokensUncapped == Inflated(pool.totalSupply)[InflationIntervalsElapsed] - pool.totalSupply

(* inflate: what is minted *)
NewTokens ==
  LET newTotalSupply == Inflated(pool.totalSupply)[InflationIntervalsElapsed]
  IN  IF newTotalSupply > MaxSupply THEN MaxSupply - pool.totalSupply
                                    ELSE newTotalSupply - pool.totalSupply

Allotment(claimer, total) == MulWadDown(pcts[claimer], total)

(* TokenGGP.mint, and the deposit it makes for RewardsPool *)
CanMintGGP(amount) ==
  /\ pool.totalSupply + amount <= MaxSupply
  /\ Vault!CanDepositToken(amount)

(* distributeMultisigAllotment: an equal part to each multisig that is     *)
(* enabled; without one, the GGP waits with MultisigManager.               *)
TokensPerMultisig(allotment) == allotment \div Cardinality(enabled)

CanPayMultisigs(allotment) ==
  allotment > 0 /\ enabled # {} => TokensPerMultisig(allotment) > 0

PayMultisigs(v, allotment) ==
  IF allotment = 0 THEN v
  ELSE IF enabled = {} THEN Vault!TransferToken(v, "RewardsPool", "MultisigManager", allotment)
  ELSE Vault!WithdrawToken(v, "RewardsPool", TokensPerMultisig(allotment) * Cardinality(enabled))

Transferred(v, claimer, allotment) ==
  IF allotment = 0 THEN v ELSE Vault!TransferToken(v, "RewardsPool", claimer, allotment)

AllotmentsFit(minted) ==
  Allotment("ClaimProtocolDAO", minted) + Allotment("ClaimNodeOp", minted)
    + Allotment("MultisigManager", minted) <= minted

Distribute(v, minted) ==
  Transferred(
    PayMultisigs(
      Transferred(Vault!DepositToken(v, "RewardsPool", minted),
                  "ClaimProtocolDAO", Allotment("ClaimProtocolDAO", minted)),
      Allotment("MultisigManager", minted)),
    "ClaimNodeOp", Allotment("ClaimNodeOp", minted))

(* Mutant: the first interval of the next cycle starts where the last one  *)
(* of this cycle has                                                       *)
PoolAfterCycleAgain(minted) ==
  [pool EXCEPT !.rewardsCycleCount = @ + 1, !.rewardsCycleStartTime = now,
               !.inflationIntervalStartTime = now - InflationIntervalSeconds,
               !.rewardsCycleTotalAmt = minted,
               !.totalSupply = @ + minted,
               !.nopRewardsCycleTotal =
                  IF Allotment("ClaimNodeOp", minted) > 0 THEN Allotment("ClaimNodeOp", minted) ELSE @]

(* ClaimNodeOp is told a total only when there is one *)
PoolAfterCycle(minted) ==
  [pool EXCEPT !.rewardsCycleCount = @ + 1, !.rewardsCycleStartTime = now,
               !.inflationIntervalStartTime = now,
               !.rewardsCycleTotalAmt = minted,
               !.totalSupply = @ + minted,
               !.nopRewardsCycleTotal =
                  IF Allotment("ClaimNodeOp", minted) > 0 THEN Allotment("ClaimNodeOp", minted) ELSE @]

HistoryAfterCycle(minted) ==
  [paid |-> {},
   orderly |-> history.orderly /\ Allotment("ClaimNodeOp", minted) > 0]

StartRewardsCycleTx ==
  /\ CanStartRewardsCycle
  /\ CanMintGGP(NewTokens)
  /\ AllotmentsFit(NewTokens)
  /\ CanPayMultisigs(Allotment("MultisigManager", NewTokens))
  /\ pool' = PoolAfterCycle(NewTokens)
  /\ vault' = Distribute(vault, NewTokens)
  /\ history' = HistoryAfterCycle(NewTokens)
  /\ UNCHANGED <<now, pcts, stakers, enabled, paused, ggpPrice, round, events>>

-----------------------------------------------------------------------------
(* ClaimNodeOp *)

IsEligible(o) ==
  LET st == stakers[o]
  IN  /\ st.rewardsStartTime # 0
      /\ now - st.rewardsStartTime >= RewardsEligibilityMinSeconds
      /\ st.avaxValidatingHighWater > 0

EffectiveGGPStaked(o) == Staking!EffectiveGGPStaked(stakers[o], ggpPrice)

(* The share of an owner of the total of the cycle *)
RewardsAmt(o, totalEligible) ==
  MulWadDown(DivWadDown(EffectiveGGPStaked(o), totalEligible), pool.nopRewardsCycleTotal)

CanDistribute(o, totalEligible) ==
  /\ Rialto \in enabled
  /\ stakers[o].exists
  /\ pool.rewardsCycleCount # 0
  /\ stakers[o].lastRewardsCycleCompleted # pool.rewardsCycleCount
  /\ totalEligible # 0
  /\ totalEligible # 0 => RewardsAmt(o, totalEligible) <= pool.nopRewardsCycleTotal

(* Mutant: the cycle is marked as the next one *)
StakerAfterRewardsMarkedLate(st, amount) ==
  [st EXCEPT !.lastRewardsCycleCompleted = pool.rewardsCycleCount + 1,
             !.avaxValidatingHighWater = st.avaxValidating,
             !.ggpRewards = @ + amount,
             !.rewardsStartTime = IF st.avaxAssigned = 0 THEN 0 ELSE @]

(* Mutant: who has nothing assigned any more keeps its high water *)
StakerAfterRewardsHigh(st, amount) ==
  [st EXCEPT !.lastRewardsCycleCompleted = pool.rewardsCycleCount,
             !.ggpRewards = @ + amount,
             !.rewardsStartTime = IF st.avaxAssigned = 0 THEN 0 ELSE @]

(* calculateAndDistributeRewards, on the record *)
StakerAfterRewards(st, amount) ==
  [st EXCEPT !.lastRewardsCycleCompleted = pool.rewardsCycleCount,
             !.avaxValidatingHighWater = st.avaxValidating,
             !.ggpRewards = @ + amount,
             !.rewardsStartTime = IF st.avaxAssigned = 0 THEN 0 ELSE @]

(* Mutant: what is restaked stays with ClaimNodeOp *)
VaultAfterClaimInPlace(rewards, claim) ==
  [vault EXCEPT !.ggp["ClaimNodeOp"] = @ - claim]

VaultAfterClaim(rewards, claim) ==
  LET restaked == IF claim = rewards THEN vault
                  ELSE Vault!TransferToken(vault, "ClaimNodeOp", "Staking", rewards - claim)
  IN  IF claim = 0 THEN restaked ELSE Vault!WithdrawToken(restaked, "ClaimNodeOp", claim)

(* claimAndRestake: what is not claimed becomes stake, unless Staking is   *)
(* paused.                                                                 *)
ClaimAndRestakeTx(o, claim) ==
  LET rewards == stakers[o].ggpRewards
  IN  /\ rewards # 0 /\ claim <= rewards
      /\ claim < rewards => WhenNotPaused("Staking")
      /\ vault.ggp["ClaimNodeOp"] >= rewards
      /\ GGPOf({"Staking", "ProtocolDAO"}) + (rewards - claim) <= MaxGGP
      /\ stakers' = [stakers EXCEPT ![o] =
                       IF claim = rewards THEN [@ EXCEPT !.ggpRewards = 0]
                       ELSE Staking!StakeGGP([@ EXCEPT !.ggpRewards = 0], rewards - claim)]
      /\ vault' = VaultAfterClaim(rewards, claim)
      /\ UNCHANGED <<now, pool, pcts, enabled, paused, ggpPrice, round, history, events>>

-----------------------------------------------------------------------------
(* Rialto's script: nopClaim:distributeRewards *)

(* getStakers reads the list page by page and skips a page it could not    *)
(* read, so the script goes on with the stakers it has got.                *)
RoundBegin(read) ==
  /\ round.phase = "idle"
  /\ \A o \in read : stakers[o].exists
  /\ round' = [NoRound EXCEPT !.phase = "checking", !.eligible = read,
                              !.ggpStaked = [o \in Owners |-> stakers[o].ggpStaked]]
  /\ UNCHANGED <<now, pool, pcts, stakers, vault, enabled, paused, ggpPrice, history, events>>

(* Mutant: the stake of the last one is the total *)
TotalEligibleLast(eligible) ==
  IF eligible = {} THEN 0 ELSE round.ggpStaked[CHOOSE o \in eligible : TRUE]

TotalEligible(eligible) == SumFunctionOnSet(round.ggpStaked, eligible)

(* The first loop asks isEligible of each, the second pays those who are,  *)
(* if there are any.                                                       *)
RoundCheck ==
  LET eligible == {o \in round.eligible : IsEligible(o)}
  IN  /\ round.phase = "checking"
      /\ round' = IF eligible = {} THEN NoRound
                  ELSE [round EXCEPT !.phase = "paying", !.eligible = eligible, !.left = eligible,
                                     !.ggpStaked = [o \in Owners |-> IF o \in eligible THEN @[o] ELSE 0],
                                     !.totalEligibleGGPStaked = TotalEligible(eligible)]
      /\ UNCHANGED <<now, pool, pcts, stakers, vault, enabled, paused, ggpPrice, history, events>>

RoundPay(o) ==
  LET total == round.totalEligibleGGPStaked
  IN  /\ round.phase = "paying" /\ o \in round.left
      /\ CanDistribute(o, total)
      /\ stakers' = [stakers EXCEPT ![o] = StakerAfterRewards(@, RewardsAmt(o, total))]
      /\ round' = IF round.left = {o} THEN NoRound
                  ELSE [round EXCEPT !.left = @ \ {o}]
      /\ history' = [history EXCEPT
            !.paid = @ \cup {o},
            !.orderly = @ /\ OneRound /\ EffectiveGGPStaked(o) <= round.ggpStaked[o]]
      /\ UNCHANGED <<now, pool, pcts, vault, enabled, paused, ggpPrice, events>>

(* A call that reverts ends the script; so does a crash, at any point *)
RoundDies ==
  /\ round.phase # "idle"
  /\ round' = NoRound
  /\ UNCHANGED <<now, pool, pcts, stakers, vault, enabled, paused, ggpPrice, history, events>>

-----------------------------------------------------------------------------
(* Staking and the minipools, on the record of an owner *)

StakerChanges(o, st) ==
  /\ stakers' = [stakers EXCEPT ![o] = st]
  /\ UNCHANGED <<now, pool, pcts, vault, enabled, paused, ggpPrice, round, history>>

StakeGGPTx(o, amount) ==
  /\ WhenNotPaused("Staking")
  /\ amount <= Circulating /\ GGPOf({"Staking", "ProtocolDAO"}) + amount <= MaxGGP
  /\ Vault!CanDepositToken(amount)
  /\ stakers' = [stakers EXCEPT ![o] = Staking!StakeGGP(@, amount)]
  /\ vault' = Vault!DepositToken(vault, "Staking", amount)
  /\ UNCHANGED <<now, pool, pcts, enabled, paused, ggpPrice, round, history, events>>

WithdrawGGPTx(o, amount) ==
  /\ Staking!CanWithdrawGGP(stakers[o], amount, ggpPrice, now)
  /\ Vault!CanWithdrawToken(vault, "Staking", amount)
  /\ stakers' = [stakers EXCEPT ![o] = Staking!DecreaseGGPStake(@, amount)]
  /\ vault' = Vault!WithdrawToken(vault, "Staking", amount)
  /\ UNCHANGED <<now, pool, pcts, enabled, paused, ggpPrice, round, history, events>>

CreateMinipool(o, amount) ==
  LET st == Staking!StakerAfterCreate(stakers[o], amount, now)
  IN  /\ stakers[o].exists
      /\ st.avaxStaked <= MaxAVAXStake
      /\ enabled # {}
      /\ Staking!IsCollateralized(st, ggpPrice, MinCollateralizationRatio)
      /\ StakerChanges(o, st)

(* What is assigned to minipools that do not validate (yet) *)
Waiting(o) == stakers[o].avaxAssigned - stakers[o].avaxValidating

CancelMinipool(o, amount) ==
  /\ amount <= Waiting(o)
  /\ StakerChanges(o, Staking!StakerAfterCancel(stakers[o], amount, amount))

RecordStakingStart(o, amount) ==
  /\ amount <= Waiting(o)
  /\ StakerChanges(o, Staking!IncreaseAVAXValidating(stakers[o], amount))

(* The operator's part stays in avaxStaked until it is withdrawn *)
RecordStakingError(o, amount) ==
  /\ amount <= Waiting(o)
  /\ StakerChanges(o, Staking!StakerAfterError(stakers[o], amount))

RecordStakingEnd(o, amount) ==
  /\ amount <= stakers[o].avaxValidating
  /\ StakerChanges(o, Staking!StakerAfterEnd(stakers[o], amount, 0))

(* A validation that failed: the slash takes no more than there is *)
RecordStakingEndAndSlash(o, amount, due) ==
  LET slashed == IF stakers[o].ggpStaked < due THEN stakers[o].ggpStaked ELSE due
  IN  /\ amount <= stakers[o].avaxValidating
      /\ Vault!CanTransferToken(vault, "Staking", slashed)
      /\ stakers' = [stakers EXCEPT ![o] = Staking!StakerAfterEnd(@, amount, slashed)]
      /\ vault' = Vault!TransferToken(vault, "Staking", "ProtocolDAO", slashed)
      /\ UNCHANGED <<now, pool, pcts, enabled, paused, ggpPrice, round, history>>

(* recordStakingEndThenMaybeCycle, when it cycles *)
RecordStakingEndThenCycle(o, amount, added) ==
  LET st == Staking!StakerAfterRecreate(
              Staking!StakerAfterEnd(stakers[o], amount, 0), added, amount + added)
  IN  /\ amount <= stakers[o].avaxValidating
      /\ st.avaxStaked <= MaxAVAXStake
      /\ Staking!IsCollateralized(st, ggpPrice, MinCollateralizationRatio)
      /\ StakerChanges(o, st)

WithdrawMinipoolFunds(o, amount) ==
  /\ amount <= stakers[o].avaxStaked - stakers[o].avaxAssigned
  /\ StakerChanges(o, Staking!DecreaseAVAXStake(stakers[o], amount))

-----------------------------------------------------------------------------
(* The guardian, the multisigs and the price *)

(* ClaimProtocolDAO.spend, and ProtocolDAO.transferGGPFromVault *)
SpendTx(contract, amount) ==
  /\ Vault!CanWithdrawToken(vault, contract, amount)
  /\ vault' = Vault!WithdrawToken(vault, contract, amount)
  /\ UNCHANGED <<now, pool, pcts, stakers, enabled, paused, ggpPrice, round, history>>

WithdrawUnclaimedGGPTx ==
  LET totalGGP == vault.ggp["MultisigManager"]
  IN  /\ enabled # {}
      /\ Vault!CanWithdrawToken(vault, "MultisigManager", totalGGP)
      /\ vault' = Vault!WithdrawToken(vault, "MultisigManager", totalGGP)
      /\ UNCHANGED <<now, pool, pcts, stakers, enabled, paused, ggpPrice, round, history>>

EnableMultisigTx(a) ==
  /\ enabled' = enabled \cup {a}
  /\ UNCHANGED <<now, pool, pcts, stakers, vault, paused, ggpPrice, round, history>>

DisableMultisigTx(a) ==
  /\ enabled' = enabled \ {a}
  /\ UNCHANGED <<now, pool, pcts, stakers, vault, paused, ggpPrice, round, history>>

PauseContractTx(contract) ==
  /\ paused' = paused \cup {contract}
  /\ UNCHANGED <<now, pool, pcts, stakers, vault, enabled, ggpPrice, round, history>>

ResumeContractTx(contract) ==
  /\ paused' = paused \ {contract}
  /\ UNCHANGED <<now, pool, pcts, stakers, vault, enabled, ggpPrice, round, history>>

SetClaimingContractPctTx(claimer, decimal) ==
  /\ pcts' = [pcts EXCEPT ![claimer] = decimal]
  /\ UNCHANGED <<now, pool, stakers, vault, enabled, paused, ggpPrice, round, history>>

SetGGPPriceTx(price) ==
  /\ enabled # {}
  /\ ggpPrice' = price
  /\ UNCHANGED <<now, pool, pcts, stakers, vault, enabled, paused, round, history>>

Tick ==
  /\ now < MaxTime
  /\ now' = now + 1
  /\ UNCHANGED <<pool, pcts, stakers, vault, enabled, paused, ggpPrice, round, history,
                 events>>

-----------------------------------------------------------------------------
RewardsInit ==
  /\ now = StartTime
  /\ pool = [rewardsCycleCount |-> 0, rewardsCycleStartTime |-> InitializedAt,
             inflationIntervalStartTime |-> InitializedAt, rewardsCycleTotalAmt |-> 0,
             nopRewardsCycleTotal |-> 0, totalSupply |-> InitialSupply]
  /\ pcts = FirstPcts
  /\ stakers = [o \in Owners |-> Staking!NoStaker]
  /\ vault = Vault!EmptyVault
  /\ enabled = Multisigs
  /\ paused = {}
  /\ ggpPrice = FirstPrice
  /\ round = NoRound
  /\ history = [paid |-> {}, orderly |-> TRUE]
  /\ events = 0

RoundNext ==
  \/ RoundCheck \/ RoundDies
  \/ \E read \in SUBSET Owners \ {{}} : RoundBegin(read)
  \/ \E o \in Owners : RoundPay(o)

StakerNext ==
  \E o \in Owners :
     \/ \E a \in GGPAmounts : StakeGGPTx(o, a)
     \/ \E a \in GGPAmounts \cup {stakers[o].ggpStaked} : WithdrawGGPTx(o, a)
     \/ \E c \in ClaimAmounts \cup {0, stakers[o].ggpRewards} : ClaimAndRestakeTx(o, c)

Event ==
  /\ events < MaxEvents
  /\ events' = events + 1

MinipoolNext ==
  \E o \in Owners, a \in Assignments :
     \/ CreateMinipool(o, a)
     \/ CancelMinipool(o, a)
     \/ RecordStakingStart(o, a)
     \/ RecordStakingError(o, a)
     \/ RecordStakingEnd(o, a)
     \/ \E g \in Slashes : RecordStakingEndAndSlash(o, a, g)
     \/ \E c \in Compounded : RecordStakingEndThenCycle(o, a, c)
     \/ WithdrawMinipoolFunds(o, a)

GuardianNext ==
  \/ \E c \in {"ClaimProtocolDAO", "ProtocolDAO"} : SpendTx(c, vault.ggp[c])
  \/ WithdrawUnclaimedGGPTx
  \/ \E a \in Multisigs : EnableMultisigTx(a) \/ DisableMultisigTx(a)
  \/ \E c \in PausedContracts : PauseContractTx(c) \/ ResumeContractTx(c)
  \/ \E p \in PctChoices : SetClaimingContractPctTx(p[1], p[2])
  \/ \E p \in GGPPrices : SetGGPPriceTx(p)

RewardsNext ==
  \/ StartRewardsCycleTx \/ RoundNext \/ StakerNext \/ Tick
  \/ Event /\ (MinipoolNext \/ GuardianNext)

RewardsSpec == RewardsInit /\ [][RewardsNext]_vars

-----------------------------------------------------------------------------
(* Properties *)

GGPStaked == [o \in Owners |-> stakers[o].ggpStaked]
GGPRewards == [o \in Owners |-> stakers[o].ggpRewards]

(* The storage keeps its shape: no subtraction goes below zero, and the    *)
(* Vault never holds more GGP than has been minted, nor was more minted    *)
(* than TokenGGP allows.                                                   *)
RewardsTypeOK ==
  /\ now \in Nat /\ pool \in PoolStorage /\ pcts \in [Claimers -> 0..Ether]
  /\ stakers \in [Owners -> Staking!Staker] /\ vault \in Vault!VaultStorage
  /\ enabled \subseteq Multisigs /\ paused \subseteq {"RewardsPool", "Staking"}
  /\ ggpPrice \in Nat \ {0} /\ round \in Round /\ history \in History
  /\ pool.totalSupply <= MaxSupply /\ Circulating >= 0

(* The GGP the Vault keeps for Staking is the GGP of the stakers, whatever *)
(* is slashed, withdrawn or restaked out of the rewards.                   *)
StakesBanked == vault.ggp["Staking"] = SumFunctionOnSet(GGPStaked, Owners)

(* As long as the rounds were orderly, ClaimNodeOp has the GGP of all the  *)
(* rewards it has credited and that were not yet claimed: a cycle cannot   *)
(* promise what another has to pay.                                        *)
RewardsFunded ==
  history.orderly => SumFunctionOnSet(GGPRewards, Owners) <= vault.ggp["ClaimNodeOp"]

(* Who has AVAX assigned, or has had AVAX validate in this rewards cycle,  *)
(* is in the rewards program, and stays in it when it is paid: only a      *)
(* cancellation or a payment with nothing left takes an owner out.         *)
InProgram ==
  \A o \in Owners :
     stakers[o].avaxAssigned > 0 \/ stakers[o].avaxValidatingHighWater > 0
       => stakers[o].rewardsStartTime > 0

(* However late, and however often, cycles are started: never has more     *)
(* been minted than the intervals that have passed since the start allow.  *)
InflationOnSchedule ==
  pool.totalSupply <=
    Inflated(InitialSupply)[(pool.inflationIntervalStartTime - InitializedAt) \div InflationIntervalSeconds]

(* A cycle that is due can start, as the comment in startRewardsCycle      *)
(* says, as long as the supply is below its maximum and a token or more    *)
(* grows in an interval: neither the limit of TokenGGP nor a transfer of   *)
(* parts that are no more than a whole reverts it, however many intervals  *)
(* it is late.                                                             *)
GrowsByOne == \A s \in InitialSupply..MaxSupply : MulWadDown(s, InflationIntervalRate) > s
CycleStartable ==
  /\ CanStartRewardsCycle /\ GrowsByOne /\ pool.totalSupply < MaxSupply
  /\ pcts["ClaimProtocolDAO"] + pcts["ClaimNodeOp"] + pcts["MultisigManager"] <= Ether
  => CanMintGGP(NewTokens) /\ AllotmentsFit(NewTokens)

(* A round that is the only one to pay in a cycle reaches its end: whoever *)
(* is left to pay can be paid, whatever the others do, if it counts for no *)
(* more GGP than the round has counted.                                    *)
RoundGoesThrough ==
  /\ round.phase = "paying" /\ OneRound
  /\ Rialto \in enabled /\ pool.rewardsCycleCount # 0 /\ round.totalEligibleGGPStaked # 0
  => \A o \in round.left :
        EffectiveGGPStaked(o) <= round.ggpStaked[o]
          => CanDistribute(o, round.totalEligibleGGPStaked)
=============================================================================
