-------------------------- MODULE MinipoolManager --------------------------
(***************************************************************************)
(* MinipoolManager: the life of a minipool, from the AVAX of a node        *)
(* operator, over the AVAX of the liquid stakers that matches it and the   *)
(* validation that Rialto (the multisigs) runs with both, to the return of *)
(* both with their rewards.  It composes TokenggAVAX, whose AVAX it takes  *)
(* and gives back, Vault, Staking, MultisigManager and the pause switches. *)
(*                                                                         *)
(* What a handler does to the storage is an operator on the record net,    *)
(* because recordStakingEndThenMaybeCycle runs three handlers in a row in  *)
(* one transaction, and a relaunch two.  Rialto's own funds are not        *)
(* modelled: whoever must send AVAX with a call has it.                    *)
(***************************************************************************)
EXTENDS TokenggAVAX, Sequences

CONSTANTS
  NodeIDs, Owners, Multisigs,   \* addresses, by what they are used for
  NoOne,                        \* address(0)
  FirstMultisigs,               \* registered and enabled when the model starts
  MultisigLimit,                \* MULTISIG_LIMIT
  Assignments, Durations,       \* what createMinipoolOnBehalfOf accepts
  CancelMoratorium, CycleDuration, CycleDelayTolerance,   \* ProtocolDAO, in steps of the clock
  Year,                         \* 365 days, in steps of the clock
  CommissionFee, ExpectedRewardsRate,                     \* parts of Ether
  MinCollateralizationRatio, MaxCollateralizationRatio,   \* parts of Ether
  ValidationRewards,            \* what a validation may earn, 0 if it failed
  Delays,                       \* how late Rialto reports a start or an end
  GGPPrices,                    \* what the Oracle may be told, the first price included
  FirstPrice,
  GGPAmounts,                   \* the amounts of GGP that are staked or withdrawn
  Locks,                        \* the ends of the locks that stakeGGPOnBehalfOfWithLock sets
  PausedContracts,              \* the contracts Ocyticus may pause one by one
  Emergency,                    \* whether Ocyticus may pause everything
  Delegation,                   \* WithdrawForDelegationEnabled
  MaxGGP                        \* bound: the GGP in the Vault

ASSUME MinipoolConstants ==
  /\ IsFiniteSet(NodeIDs) /\ IsFiniteSet(Owners)
  /\ NoOne \notin Owners \cup Multisigs
  /\ FirstMultisigs \in Seq(Multisigs) /\ MultisigLimit \in Nat
  /\ Assignments \subseteq Nat \ {0} /\ Durations \subseteq Nat
  /\ CancelMoratorium \in Nat /\ CycleDuration \in Nat /\ CycleDelayTolerance \in Nat
  /\ Year \in Nat \ {0} /\ CommissionFee \in 0..Ether /\ ExpectedRewardsRate \in Nat
  /\ MinCollateralizationRatio \in Nat /\ MaxCollateralizationRatio \in Nat
  /\ ValidationRewards \subseteq Nat /\ Delays \subseteq Nat
  /\ GGPPrices \subseteq Nat \ {0} /\ FirstPrice \in GGPPrices
  /\ GGPAmounts \subseteq Nat /\ Locks \subseteq Nat /\ MaxGGP \in Nat
  /\ PausedContracts \subseteq {"MinipoolManager", "RewardsPool", "Staking"}
  /\ Emergency \in BOOLEAN /\ Delegation \in BOOLEAN /\ StartTime > 0

NetworkContracts == {"MinipoolManager", "Staking", "ProtocolDAO"}

Vault == INSTANCE Vault
Staking == INSTANCE Staking

VARIABLES
  net,         \* the storage of MinipoolManager, Staking and Vault
  multisigs,   \* MultisigManager: the registered multisigs, in order
  paused,      \* contract.paused, but for TokenggAVAX (token.paused)
  ggpPrice,    \* Oracle.GGPPriceInAVAX
  delegated    \* external: the AVAX Rialto has delegated and must return

minipoolVars == <<net, multisigs, paused, ggpPrice, delegated>>
vars == <<now, token, net, multisigs, paused, ggpPrice, delegated>>

Statuses == {"NotFound", "Prelaunch", "Launched", "Staking",
             "Withdrawable", "Finished", "Canceled", "Error"}

(* What is stored of a minipool.  endTime, txID and errorCode are left out:*)
(* no handler reads them after the transaction that writes them.           *)
Minipool == [
  status : Statuses,
  owner : Owners \cup {NoOne},
  multisigAddr : Multisigs \cup {NoOne},
  duration : Nat, creationTime : Nat, initialStartTime : Nat, startTime : Nat,
  avaxNodeOpInitialAmt : Nat, avaxNodeOpAmt : Nat, avaxLiquidStakerAmt : Nat,
  avaxNodeOpRewardAmt : Nat, avaxLiquidStakerRewardAmt : Nat, ggpSlashAmt : Nat]

NoMinipool == [
  status |-> "NotFound", owner |-> NoOne, multisigAddr |-> NoOne,
  duration |-> 0, creationTime |-> 0, initialStartTime |-> 0, startTime |-> 0,
  avaxNodeOpInitialAmt |-> 0, avaxNodeOpAmt |-> 0, avaxLiquidStakerAmt |-> 0,
  avaxNodeOpRewardAmt |-> 0, avaxLiquidStakerRewardAmt |-> 0, ggpSlashAmt |-> 0]

Network == [
  minipools : [NodeIDs -> Minipool],
  totalAVAXLiquidStakerAmt : Nat,
  stakers : [Owners -> Staking!Staker],
  vault : Vault!VaultStorage]

-----------------------------------------------------------------------------
(* MultisigManager *)

EnabledIndexes == {i \in DOMAIN multisigs : multisigs[i].enabled}
EnabledMultisigs == {multisigs[i].addr : i \in EnabledIndexes}

(* requireNextActiveMultisig: the first enabled one *)
NextActiveMultisig ==
  multisigs[CHOOSE i \in EnabledIndexes : \A j \in EnabledIndexes : i <= j].addr

-----------------------------------------------------------------------------
(* Guards *)

(* Mutant: the funds of a finished minipool may be withdrawn again *)
TransitionsTwice == [
  NotFound |-> {"Prelaunch"},
  Prelaunch |-> {"Launched", "Canceled"},
  Launched |-> {"Staking", "Error"},
  Staking |-> {"Withdrawable"},
  Withdrawable |-> {"Finished"},
  Error |-> {"Finished"},
  Finished |-> {"Prelaunch", "Finished"},
  Canceled |-> {"Prelaunch"}]

(* requireValidStateTransition; a node that is not found has no record yet *)
Transitions == [
  NotFound |-> {"Prelaunch"},
  Prelaunch |-> {"Launched", "Canceled"},
  Launched |-> {"Staking", "Error"},
  Staking |-> {"Withdrawable"},
  Withdrawable |-> {"Finished"},
  Error |-> {"Finished"},
  Finished |-> {"Prelaunch"},
  Canceled |-> {"Prelaunch"}]

CanMove(mp, status) == status \in Transitions[mp.status]

OnlyOwner(caller, n) == caller = net.minipools[n].owner
OnlyValidMultisig(caller, n) == caller = net.minipools[n].multisigAddr
WhenNotPaused(contract) == contract \notin paused

-----------------------------------------------------------------------------
(* The handlers of the owner *)

NewMinipool(owner, amount, duration) ==
  [NoMinipool EXCEPT !.status = "Prelaunch", !.owner = owner,
                     !.multisigAddr = NextActiveMultisig, !.duration = duration,
                     !.avaxNodeOpInitialAmt = amount, !.avaxNodeOpAmt = amount,
                     !.avaxLiquidStakerAmt = amount, !.creationTime = now]

CanCreate(s, n, owner, amount, duration) ==
  /\ WhenNotPaused("MinipoolManager")
  /\ amount \in Assignments /\ duration \in Durations
  /\ s.stakers[owner].exists
  /\ Staking!IsCollateralized(Staking!StakerAfterCreate(s.stakers[owner], amount, now),
                              ggpPrice, MinCollateralizationRatio)
  /\ EnabledMultisigs # {}
  /\ CanMove(s.minipools[n], "Prelaunch")

Create(s, n, owner, amount, duration) ==
  [s EXCEPT !.stakers[owner] = Staking!StakerAfterCreate(@, amount, now),
            !.minipools[n] = NewMinipool(owner, amount, duration),
            !.vault = Vault!DepositAVAX(@, "MinipoolManager", amount)]

(* _cancelMinipoolAndReturnFunds *)
CanCancel(s, n) ==
  LET mp == s.minipools[n]
  IN  /\ CanMove(mp, "Canceled")
      /\ s.stakers[mp.owner].avaxStaked >= mp.avaxNodeOpAmt
      /\ s.stakers[mp.owner].avaxAssigned >= mp.avaxLiquidStakerAmt
      /\ Vault!CanWithdrawAVAX(s.vault, "MinipoolManager", mp.avaxNodeOpAmt)

Cancel(s, n) ==
  LET mp == s.minipools[n]
  IN  [s EXCEPT !.stakers[mp.owner] =
                  Staking!StakerAfterCancel(@, mp.avaxNodeOpAmt, mp.avaxLiquidStakerAmt),
                !.minipools[n].status = "Canceled",
                !.vault = Vault!WithdrawAVAX(@, "MinipoolManager", mp.avaxNodeOpAmt)]

(* Mutant: the operator also gets the rewards of the liquid stakers *)
TotalAvaxAmtOfBoth(mp) ==
  mp.avaxNodeOpAmt + mp.avaxNodeOpRewardAmt + mp.avaxLiquidStakerRewardAmt

TotalAvaxAmt(mp) == mp.avaxNodeOpAmt + mp.avaxNodeOpRewardAmt

(* _withdrawMinipoolFunds *)
CanWithdrawFunds(s, n) ==
  LET mp == s.minipools[n]
  IN  /\ CanMove(mp, "Finished")
      /\ s.stakers[mp.owner].avaxStaked >= mp.avaxNodeOpAmt
      /\ Vault!CanWithdrawAVAX(s.vault, "MinipoolManager", TotalAvaxAmt(mp))

WithdrawFunds(s, n) ==
  LET mp == s.minipools[n]
  IN  [s EXCEPT !.stakers[mp.owner] = Staking!DecreaseAVAXStake(@, mp.avaxNodeOpAmt),
                !.minipools[n].status = "Finished",
                !.vault = Vault!WithdrawAVAX(@, "MinipoolManager", TotalAvaxAmt(mp))]

-----------------------------------------------------------------------------
(* The handlers of Rialto.  A handler that moves AVAX of the liquid        *)
(* stakers works on net here and on token in its transaction.              *)

(* _claimAndInitiateStaking, on net *)
CanLaunch(s, n) ==
  LET mp == s.minipools[n]
  IN  /\ CanMove(mp, "Launched")
      /\ Vault!CanWithdrawAVAX(s.vault, "MinipoolManager", mp.avaxNodeOpAmt)

Launch(s, n) ==
  LET mp == s.minipools[n]
  IN  [s EXCEPT !.minipools[n].status = "Launched",
                !.totalAVAXLiquidStakerAmt = @ + mp.avaxLiquidStakerAmt,
                !.vault = Vault!WithdrawAVAX(@, "MinipoolManager", mp.avaxNodeOpAmt)]

(* recordStakingStart, on net *)
Started(mp, time) ==
  [mp EXCEPT !.status = "Staking", !.startTime = time,
             !.initialStartTime = IF @ = 0 THEN time ELSE @]

RecordStart(s, n, startTime) ==
  LET mp == s.minipools[n]
  IN  [s EXCEPT !.minipools[n] = Started(@, startTime),
                !.stakers[mp.owner] = Staking!IncreaseAVAXValidating(@, mp.avaxLiquidStakerAmt)]

(* Mutant: the odd half goes to the liquid stakers *)
LiquidRewardUp(reward) ==
  LET half == reward - reward \div 2 IN half - MulWadDown(half, CommissionFee)

(* The split of the rewards *)
LiquidReward(reward) ==
  LET half == reward \div 2 IN half - MulWadDown(half, CommissionFee)
NodeOpReward(reward) == reward - LiquidReward(reward)

(* slash: the GGP that the expected rewards are worth, or all there is *)
GGPSlashAmt(s, mp, endTime) ==
  LET expected == (MulWadDown(mp.avaxLiquidStakerAmt, ExpectedRewardsRate)
                     * (endTime - mp.startTime)) \div Year
      ggp == DivWadDown(expected, ggpPrice)
      staked == s.stakers[mp.owner].ggpStaked
  IN  IF staked < ggp THEN staked ELSE ggp

(* recordStakingEnd, on net.  A validation without rewards is slashed.     *)
CanRecordEnd(s, n, endTime, reward) ==
  LET mp == s.minipools[n]
      st == s.stakers[mp.owner]
  IN  /\ CanMove(mp, "Withdrawable")
      /\ endTime > mp.startTime /\ endTime <= now
      /\ reward = 0 => Vault!CanTransferToken(s.vault, "Staking", GGPSlashAmt(s, mp, endTime))
      /\ Vault!CanDepositAVAX(mp.avaxNodeOpAmt + NodeOpReward(reward))
      /\ s.totalAVAXLiquidStakerAmt >= mp.avaxLiquidStakerAmt
      /\ st.avaxAssigned >= mp.avaxLiquidStakerAmt
      /\ st.avaxValidating >= mp.avaxLiquidStakerAmt

Ended(mp, reward, slashed) ==
  [mp EXCEPT !.status = "Withdrawable",
             !.avaxNodeOpRewardAmt = NodeOpReward(reward),
             !.avaxLiquidStakerRewardAmt = LiquidReward(reward),
             !.ggpSlashAmt = @ + slashed]

RecordEnd(s, n, endTime, reward) ==
  LET mp == s.minipools[n]
      slashed == IF reward = 0 THEN GGPSlashAmt(s, mp, endTime) ELSE 0
      vault == IF reward = 0
               THEN Vault!TransferToken(s.vault, "Staking", "ProtocolDAO", slashed)
               ELSE s.vault
  IN  [s EXCEPT
         !.minipools[n] = Ended(@, reward, slashed),
         !.vault = Vault!DepositAVAX(vault, "MinipoolManager",
                                     mp.avaxNodeOpAmt + NodeOpReward(reward)),
         !.totalAVAXLiquidStakerAmt = @ - mp.avaxLiquidStakerAmt,
         !.stakers[mp.owner] = Staking!StakerAfterEnd(@, mp.avaxLiquidStakerAmt, slashed)]

(* recreateMinipool: the liquid stakers' half of the rewards is compounded *)
(* on both sides.                                                          *)
CompoundedAvaxAmt(mp) == mp.avaxNodeOpAmt + mp.avaxLiquidStakerRewardAmt

(* Mutant: the operator is credited with all its rewards, not the part that stays *)
StakerAfterRecreateInFull(st, mp) ==
  Staking!StakerAfterRecreate(st, mp.avaxNodeOpRewardAmt, CompoundedAvaxAmt(mp))

StakerAfterRecreate(st, mp) ==
  Staking!StakerAfterRecreate(st, mp.avaxLiquidStakerRewardAmt, CompoundedAvaxAmt(mp))

CanRecreate(s, n) ==
  LET mp == s.minipools[n]
  IN  /\ mp.status = "Withdrawable"
      /\ Staking!IsCollateralized(StakerAfterRecreate(s.stakers[mp.owner], mp),
                                  ggpPrice, MinCollateralizationRatio)

Recreated(mp) ==
  [mp EXCEPT !.status = "Prelaunch", !.startTime = 0,
             !.avaxNodeOpAmt = CompoundedAvaxAmt(mp),
             !.avaxLiquidStakerAmt = CompoundedAvaxAmt(mp),
             !.avaxNodeOpRewardAmt = 0, !.avaxLiquidStakerRewardAmt = 0]

Recreate(s, n) ==
  LET mp == s.minipools[n]
  IN  [s EXCEPT !.minipools[n] = Recreated(@),
                !.stakers[mp.owner] = StakerAfterRecreate(@, mp)]

(* recordStakingError, on net *)
CanRecordError(s, n) ==
  LET mp == s.minipools[n]
  IN  /\ CanMove(mp, "Error")
      /\ Vault!CanDepositAVAX(mp.avaxNodeOpAmt)
      /\ s.stakers[mp.owner].avaxAssigned >= mp.avaxLiquidStakerAmt
      /\ s.totalAVAXLiquidStakerAmt >= mp.avaxLiquidStakerAmt

Failed(mp) ==
  [mp EXCEPT !.status = "Error", !.avaxNodeOpRewardAmt = 0, !.avaxLiquidStakerRewardAmt = 0]

RecordError(s, n) ==
  LET mp == s.minipools[n]
  IN  [s EXCEPT !.minipools[n] = Failed(@),
                !.vault = Vault!DepositAVAX(@, "MinipoolManager", mp.avaxNodeOpAmt),
                !.stakers[mp.owner] = Staking!StakerAfterError(@, mp.avaxLiquidStakerAmt),
                !.totalAVAXLiquidStakerAmt = @ - mp.avaxLiquidStakerAmt]

-----------------------------------------------------------------------------
(* Transactions *)

(* createMinipool; with createMinipoolOnBehalfOf anybody may do it for owner *)
CreateMinipoolTx(n, owner, amount, duration) ==
  /\ CanCreate(net, n, owner, amount, duration)
  /\ net' = Create(net, n, owner, amount, duration)
  /\ UNCHANGED <<now, token, multisigs, paused, ggpPrice, delegated>>

CancelMinipoolTx(caller, n) ==
  /\ OnlyOwner(caller, n)
  /\ now - net.minipools[n].creationTime >= CancelMoratorium
  /\ CanCancel(net, n)
  /\ net' = Cancel(net, n)
  /\ UNCHANGED <<now, token, multisigs, paused, ggpPrice, delegated>>

CancelMinipoolByMultisigTx(caller, n) ==
  /\ OnlyValidMultisig(caller, n)
  /\ CanCancel(net, n)
  /\ net' = Cancel(net, n)
  /\ UNCHANGED <<now, token, multisigs, paused, ggpPrice, delegated>>

WithdrawMinipoolFundsTx(caller, n) ==
  /\ OnlyOwner(caller, n)
  /\ CanWithdrawFunds(net, n)
  /\ net' = WithdrawFunds(net, n)
  /\ UNCHANGED <<now, token, multisigs, paused, ggpPrice, delegated>>

(* withdrawRewardsAndRelaunchMinipool, by an account with the role Relauncher *)
RelaunchMinipoolTx(n, duration) ==
  LET mp == net.minipools[n]
      base == mp.avaxNodeOpInitialAmt
  IN  /\ CanWithdrawFunds(net, n)
      /\ TotalAvaxAmt(mp) >= base
      /\ CanCreate(WithdrawFunds(net, n), n, mp.owner, base, duration)
      /\ net' = Create(WithdrawFunds(net, n), n, mp.owner, base, duration)
      /\ UNCHANGED <<now, token, multisigs, paused, ggpPrice, delegated>>

ClaimAndInitiateStakingTx(caller, n) ==
  LET amount == net.minipools[n].avaxLiquidStakerAmt
  IN  /\ OnlyValidMultisig(caller, n)
      /\ CanLaunch(net, n)
      /\ amount <= AmountAvailableForStaking(token)
      /\ CanWithdrawForStaking(token, amount)
      /\ net' = Launch(net, n)
      /\ token' = WithdrawForStaking(token, amount)
      /\ UNCHANGED <<now, multisigs, paused, ggpPrice, delegated>>

RecordStakingStartTx(caller, n, startTime) ==
  /\ OnlyValidMultisig(caller, n)
  /\ CanMove(net.minipools[n], "Staking")
  /\ startTime <= now
  /\ net' = RecordStart(net, n, startTime)
  /\ UNCHANGED <<now, token, multisigs, paused, ggpPrice, delegated>>

(* Mutant: the reward comes back as part of what was taken *)
TokenAfterEndInOne(mp, reward, bips) ==
  DepositFromStaking(token, mp.avaxLiquidStakerAmt + LiquidReward(reward), 0, bips)

(* ggAVAX after the AVAX of the liquid stakers has come back, with its reward *)
TokenAfterEnd(mp, reward, bips) ==
  DepositFromStaking(token, mp.avaxLiquidStakerAmt, LiquidReward(reward), bips)

RecordStakingEndTx(caller, n, endTime, reward, bips) ==
  LET mp == net.minipools[n]
  IN  /\ OnlyValidMultisig(caller, n)
      /\ CanRecordEnd(net, n, endTime, reward)
      /\ CanDepositFromStaking(token, mp.avaxLiquidStakerAmt)
      /\ Fits(LiquidReward(reward))
      /\ net' = RecordEnd(net, n, endTime, reward)
      /\ token' = TokenAfterEnd(mp, reward, bips)
      /\ UNCHANGED <<now, multisigs, paused, ggpPrice, delegated>>

(* Is there time for one more cycle? *)
CycleFits(mp) ==
  now + CycleDuration <= mp.initialStartTime + mp.duration + CycleDelayTolerance

(* recordStakingEndThenMaybeCycle.  Launching the next cycle does not ask  *)
(* what is available for staking: what has just come back goes out again.  *)
RecordStakingEndThenMaybeCycleTx(caller, n, endTime, reward, bips) ==
  LET mp == net.minipools[n]
      ended == RecordEnd(net, n, endTime, reward)
      next == CompoundedAvaxAmt(ended.minipools[n])
  IN  /\ WhenNotPaused("MinipoolManager")
      /\ OnlyValidMultisig(caller, n)
      /\ CanRecordEnd(net, n, endTime, reward)
      /\ CanDepositFromStaking(token, mp.avaxLiquidStakerAmt)
      /\ Fits(LiquidReward(reward))
      /\ \/ /\ CycleFits(mp)
            /\ CanRecreate(ended, n)
            /\ CanLaunch(Recreate(ended, n), n)
            /\ CanWithdrawForStaking(TokenAfterEnd(mp, reward, bips), next)
            /\ net' = Launch(Recreate(ended, n), n)
            /\ token' = WithdrawForStaking(TokenAfterEnd(mp, reward, bips), next)
         \/ /\ ~CycleFits(mp)
            /\ net' = ended
            /\ token' = TokenAfterEnd(mp, reward, bips)
      /\ UNCHANGED <<now, multisigs, paused, ggpPrice, delegated>>

RecordStakingErrorTx(caller, n) ==
  LET amount == net.minipools[n].avaxLiquidStakerAmt
  IN  /\ OnlyValidMultisig(caller, n)
      /\ CanRecordError(net, n)
      /\ CanDepositFromStaking(token, amount)
      /\ net' = RecordError(net, n)
      /\ token' = DepositFromStaking(token, amount, 0, 0)
      /\ UNCHANGED <<now, multisigs, paused, ggpPrice, delegated>>

WithdrawForDelegationTx(amount) ==
  /\ EnabledMultisigs # {} /\ WhenNotPaused("MinipoolManager") /\ Delegation
  /\ amount <= AmountAvailableForStaking(token)
  /\ CanWithdrawForStaking(token, amount)
  /\ token' = WithdrawForStaking(token, amount)
  /\ delegated' = delegated + amount
  /\ UNCHANGED <<now, net, multisigs, paused, ggpPrice>>

(* Nothing in the code ties base to what was delegated: it is Rialto that  *)
(* returns no more than it took.                                           *)
DepositFromDelegationTx(base, reward, bips) ==
  /\ EnabledMultisigs # {}
  /\ base <= delegated
  /\ Fits(reward)
  /\ CanDepositFromStaking(token, base)
  /\ token' = DepositFromStaking(token, base, reward, bips)
  /\ delegated' = delegated - base
  /\ UNCHANGED <<now, net, multisigs, paused, ggpPrice>>

-----------------------------------------------------------------------------
(* Staking: what the stakers do with their GGP *)

StakeGGPTx(owner, amount) ==
  /\ WhenNotPaused("Staking")
  /\ net.vault.ggp["Staking"] + net.vault.ggp["ProtocolDAO"] + amount <= MaxGGP
  /\ Vault!CanDepositToken(amount)
  /\ net' = [net EXCEPT !.stakers[owner] = Staking!StakeGGP(@, amount),
                        !.vault = Vault!DepositToken(@, "Staking", amount)]
  /\ UNCHANGED <<now, token, multisigs, paused, ggpPrice, delegated>>

(* stakeGGPOnBehalfOfWithLock, by the authorized staker *)
StakeGGPWithLockTx(owner, amount, until) ==
  /\ WhenNotPaused("Staking")
  /\ net.vault.ggp["Staking"] + net.vault.ggp["ProtocolDAO"] + amount <= MaxGGP
  /\ Vault!CanDepositToken(amount)
  /\ until > now
  /\ net' = [net EXCEPT !.stakers[owner] = Staking!LockGGP(Staking!StakeGGP(@, amount), until),
                        !.vault = Vault!DepositToken(@, "Staking", amount)]
  /\ UNCHANGED <<now, token, multisigs, paused, ggpPrice, delegated>>

WithdrawGGPTx(owner, amount) ==
  /\ Staking!CanWithdrawGGP(net.stakers[owner], amount, ggpPrice, now)
  /\ Vault!CanWithdrawToken(net.vault, "Staking", amount)
  /\ net' = [net EXCEPT !.stakers[owner] = Staking!DecreaseGGPStake(@, amount),
                        !.vault = Vault!WithdrawToken(@, "Staking", amount)]
  /\ UNCHANGED <<now, token, multisigs, paused, ggpPrice, delegated>>

-----------------------------------------------------------------------------
(* The guardians: multisigs, pauses, the slashed GGP; and the price *)

RegisterMultisigTx(a) ==
  /\ \A i \in DOMAIN multisigs : multisigs[i].addr # a
  /\ Len(multisigs) < MultisigLimit
  /\ multisigs' = Append(multisigs, [addr |-> a, enabled |-> FALSE])
  /\ UNCHANGED <<now, token, net, paused, ggpPrice, delegated>>

(* enableMultisig and disableMultisig *)
SetMultisigTx(i, enabled) ==
  /\ multisigs' = [multisigs EXCEPT ![i].enabled = enabled]
  /\ UNCHANGED <<now, token, net, paused, ggpPrice, delegated>>

PauseContractTx(contract) ==
  /\ paused' = paused \cup {contract}
  /\ UNCHANGED <<now, token, net, multisigs, ggpPrice, delegated>>

ResumeContractTx(contract) ==
  /\ paused' = paused \ {contract}
  /\ UNCHANGED <<now, token, net, multisigs, ggpPrice, delegated>>

(* pauseEverything also disables every multisig; resumeEverything does not *)
(* enable them again.                                                      *)
PauseEverythingTx ==
  /\ paused' = paused \cup {"MinipoolManager", "RewardsPool", "Staking"}
  /\ token' = [token EXCEPT !.paused = TRUE]
  /\ multisigs' = [i \in DOMAIN multisigs |-> [multisigs[i] EXCEPT !.enabled = FALSE]]
  /\ UNCHANGED <<now, net, ggpPrice, delegated>>

ResumeEverythingTx ==
  /\ paused' = paused \ {"MinipoolManager", "RewardsPool", "Staking"}
  /\ token' = [token EXCEPT !.paused = FALSE]
  /\ UNCHANGED <<now, net, multisigs, ggpPrice, delegated>>

(* transferGGPFromVault: the ProtocolDAO spends what was slashed *)
TransferGGPFromVaultTx(amount) ==
  /\ Vault!CanWithdrawToken(net.vault, "ProtocolDAO", amount)
  /\ net' = [net EXCEPT !.vault = Vault!WithdrawToken(@, "ProtocolDAO", amount)]
  /\ UNCHANGED <<now, token, multisigs, paused, ggpPrice, delegated>>

(* setGGPPriceInAVAX, by an enabled multisig *)
SetGGPPriceTx(price) ==
  /\ EnabledMultisigs # {}
  /\ ggpPrice' = price
  /\ UNCHANGED <<now, token, net, multisigs, paused, delegated>>

-----------------------------------------------------------------------------
MinipoolInit ==
  /\ TokenInit
  /\ net = [minipools |-> [n \in NodeIDs |-> NoMinipool],
            totalAVAXLiquidStakerAmt |-> 0,
            stakers |-> [o \in Owners |-> Staking!NoStaker],
            vault |-> Vault!EmptyVault]
  /\ multisigs = [i \in DOMAIN FirstMultisigs |-> [addr |-> FirstMultisigs[i], enabled |-> TRUE]]
  /\ paused = {}
  /\ ggpPrice = FirstPrice
  /\ delegated = 0

OwnerNext ==
  \E n \in NodeIDs, o \in Owners :
     \/ \E a \in Assignments, d \in Durations : CreateMinipoolTx(n, o, a, d)
     \/ CancelMinipoolTx(o, n)
     \/ WithdrawMinipoolFundsTx(o, n)

RelauncherNext == \E n \in NodeIDs, d \in Durations : RelaunchMinipoolTx(n, d)

RialtoNext ==
  \E n \in NodeIDs, m \in Multisigs :
     \/ CancelMinipoolByMultisigTx(m, n)
     \/ ClaimAndInitiateStakingTx(m, n)
     \/ RecordStakingErrorTx(m, n)
     \/ \E d \in Delays : d < now /\ RecordStakingStartTx(m, n, now - d)
     \/ \E d \in Delays, r \in ValidationRewards, bips \in FeeBips :
           \/ RecordStakingEndTx(m, n, now - d, r, bips)
           \/ RecordStakingEndThenMaybeCycleTx(m, n, now - d, r, bips)

DelegationNext ==
  \E a \in Amounts :
     \/ WithdrawForDelegationTx(a)
     \/ \E r \in ValidationRewards, bips \in FeeBips : DepositFromDelegationTx(a, r, bips)

StakerNext ==
  \E o \in Owners, a \in GGPAmounts :
     \/ StakeGGPTx(o, a)
     \/ \E t \in Locks : StakeGGPWithLockTx(o, a, t)
     \/ WithdrawGGPTx(o, a)

GuardianNext ==
  \/ \E a \in Multisigs : RegisterMultisigTx(a)
  \/ \E i \in DOMAIN multisigs, b \in Pauses : SetMultisigTx(i, b)
  \/ \E c \in PausedContracts : PauseContractTx(c) \/ ResumeContractTx(c)
  \/ Emergency /\ (PauseEverythingTx \/ ResumeEverythingTx)
  \/ \E a \in GGPAmounts : TransferGGPFromVaultTx(a)
  \/ \E p \in GGPPrices : SetGGPPriceTx(p)

(* The liquid stakers, and the holder of WITHDRAW_QUEUE_ROLE *)
LiquidStakerNext ==
  /\ \/ \E a \in Receivers, x \in Amounts : DepositTx(a, x)
     \/ \E a \in Receivers, x \in Amounts : RedeemTx(a, x)
     \/ SyncRewardsTx
     \/ Tick
  /\ UNCHANGED minipoolVars

MinipoolNext ==
  OwnerNext \/ RelauncherNext \/ RialtoNext \/ DelegationNext
    \/ StakerNext \/ GuardianNext \/ LiquidStakerNext

MinipoolSpec == MinipoolInit /\ [][MinipoolNext]_vars

-----------------------------------------------------------------------------
(* Properties *)

With(statuses) == {n \in NodeIDs : net.minipools[n].status \in statuses}
Of(owner) == {n \in NodeIDs : net.minipools[n].owner = owner}
SumOver(nodes, f(_)) == SumFunctionOnSet([n \in NodeIDs |-> f(net.minipools[n])], nodes)

(* The storage keeps its shape: none of the subtractions of subUint that   *)
(* the handlers rely on goes below zero.                                   *)
MinipoolTypeOK ==
  /\ TokenTypeOK
  /\ net \in Network
  /\ multisigs \in Seq([addr : Multisigs, enabled : BOOLEAN])
  /\ paused \subseteq {"MinipoolManager", "RewardsPool", "Staking"}
  /\ ggpPrice \in Nat \ {0} /\ delegated \in Nat

(* The totals of a staker are, at any time, those of its minipools: what   *)
(* it has staked in those whose funds it has not got back, what it was     *)
(* assigned for those that have yet to return it, and what validates.      *)
Active == {"Prelaunch", "Launched", "Staking"}
Unpaid == Active \cup {"Withdrawable", "Error"}
NodeOpAmt(mp) == mp.avaxNodeOpAmt
LiquidAmt(mp) == mp.avaxLiquidStakerAmt
StakersAgree ==
  \A o \in Owners :
     LET st == net.stakers[o]
     IN  /\ st.avaxStaked = SumOver(With(Unpaid) \cap Of(o), NodeOpAmt)
         /\ st.avaxAssigned = SumOver(With(Active) \cap Of(o), LiquidAmt)
         /\ st.avaxValidating = SumOver(With({"Staking"}) \cap Of(o), LiquidAmt)
         /\ st.avaxValidatingHighWater >= st.avaxValidating

(* The Vault holds what the owners may withdraw, rewards included, and the *)
(* GGP of every staker.                                                    *)
InVault == {"Prelaunch", "Withdrawable", "Error"}
VaultCovers ==
  /\ net.vault.avax["MinipoolManager"] >= SumOver(With(InVault), TotalAvaxAmt)
  /\ net.vault.ggp["Staking"]
       = SumFunctionOnSet([o \in Owners |-> net.stakers[o].ggpStaked], Owners)

AtWork == {"Launched", "Staking"}
(* What MinipoolManager has counted as taken from the liquid stakers is    *)
(* what its minipools hold, and ggAVAX counts the same, delegations added. *)
LiquidAccounted ==
  /\ net.totalAVAXLiquidStakerAmt = SumOver(With(AtWork), LiquidAmt)
  /\ token.stakingTotalAssets = net.totalAVAXLiquidStakerAmt + delegated

(* Who has AVAX assigned, or has had AVAX validate in this rewards cycle,  *)
(* is in the rewards program: cancelling one minipool must not take an     *)
(* owner out of it who has another.                                        *)
RewardsClock ==
  \A o \in Owners :
     LET st == net.stakers[o]
     IN  st.avaxAssigned > 0 \/ st.avaxValidatingHighWater > 0 => st.rewardsStartTime > 0

(* Whatever has happened, the funds of a minipool have a way home: the     *)
(* multisig can cancel it before the launch, return the funds after an     *)
(* error and after a validation that earned something, and the owner can   *)
(* then withdraw.  None of the subtractions on the way can underflow.      *)
NothingStuck ==
  \A n \in NodeIDs :
     LET mp == net.minipools[n]
     IN  /\ mp.status = "Prelaunch" => CanCancel(net, n)
         /\ mp.status \in {"Launched", "Staking"} =>
               CanDepositFromStaking(token, mp.avaxLiquidStakerAmt)
         /\ mp.status = "Launched" => CanRecordError(net, n)
         /\ mp.status = "Staking" /\ now > mp.startTime =>
               \A r \in ValidationRewards \ {0} : CanRecordEnd(net, n, now, r)
         /\ mp.status \in {"Withdrawable", "Error"} => CanWithdrawFunds(net, n)

(* The promise of NodeLedger, in terms of the state: what is in the Vault  *)
(* for a node, what is with Rialto, and the count of what the liquid       *)
(* stakers have lent.                                                      *)
Held(mp) == IF mp.status \in InVault THEN TotalAvaxAmt(mp) ELSE 0
Working(mp) == IF mp.status \in AtWork THEN mp.avaxNodeOpAmt ELSE 0

Ledger == INSTANCE NodeLedger WITH
  Nodes <- NodeIDs,
  held <- [n \in NodeIDs |-> Held(net.minipools[n])],
  atWork <- [n \in NodeIDs |-> Working(net.minipools[n])],
  cash <- net.vault.avax["MinipoolManager"],
  lent <- net.totalAVAXLiquidStakerAmt

KeepsLedger == Ledger!LedgerSpec

(* slash caps what it takes by what the owner has staked (as a test of     *)
(* recordStakingEnd says), so that a validation that failed can always be  *)
(* recorded.                                                               *)
FailureIsRecordable ==
  \A n \in With({"Staking"}) :
     now > net.minipools[n].startTime => CanRecordEnd(net, n, now, 0)

(* Disabling a multisig prevents it from completing validations: no        *)
(* minipool that validates leaves that state while its multisig is off.    *)
DisabledMultisigRests ==
  [][ \A n \in With({"Staking"}) :
         net'.minipools[n].status # "Staking"
           => net.minipools[n].multisigAddr \in EnabledMultisigs ]_vars
=============================================================================
