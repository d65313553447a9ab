---------------------------- MODULE TokenggAVAX ----------------------------
(***************************************************************************)
(* TokenggAVAX, the liquid staking vault: an ERC-4626 vault over WAVAX     *)
(* whose assets are partly out for staking and whose rewards unlock        *)
(* linearly over a cycle.                                                  *)
(*                                                                         *)
(* The storage of the contract is one record.  What an operation does to   *)
(* it is an operator on records, with a Can... operator for the conditions *)
(* under which the operation does not revert, so that the contracts that   *)
(* call this one (WithdrawQueue) compose them inside their transactions.   *)
(* An action ...Tx is one transaction that calls the operation; one that   *)
(* reverts changes nothing and is not a step.                              *)
(***************************************************************************)
EXTENDS ShareMath, FiniteSets, Functions

Bips == 10000    \* basis points in a whole

CONSTANTS
  Accounts,            \* the addresses that may hold ggAVAX
  Self,                \* the vault's own address: holder of the seed shares
  QueueRole,           \* the accounts with WITHDRAW_QUEUE_ROLE
  Receivers,           \* the accounts that deposits and transfers name
  Seed,                \* initialDeposit of initialize, minted to the vault
  RewardsCycleLength,  \* length of a rewards cycle, in steps of the clock
  FeeBips,             \* the values ProtocolDAO.FeeBips may have
  ReserveRate,         \* TargetGGAVAXReserveRate, a part of Ether
  Pauses,              \* what the guardians set the pause flags to
  Amounts,             \* the amounts, of AVAX or shares, that callers use
  StartTime,           \* the timestamp of the block of initialize
  MaxAVAX,             \* bound: AVAX that ever enters the vault at one time
  MaxTime              \* bound: the last block timestamp

ASSUME TokenConstants ==
  /\ IsFiniteSet(Accounts) /\ Self \in Accounts /\ QueueRole \subseteq Accounts
  /\ Self \notin QueueRole /\ Receivers \subseteq Accounts
  /\ Seed \in Nat \ {0} /\ RewardsCycleLength \in Nat \ {0}
  /\ FeeBips \subseteq 0..Bips /\ Pauses \subseteq BOOLEAN
  /\ Ether \in Nat \ {0} /\ ReserveRate \in 0..Ether
  /\ Amounts \subseteq Nat \ {0} /\ StartTime \in Nat
  /\ MaxAVAX \in Nat /\ MaxTime \in Nat

VARIABLES
  now,    \* block.timestamp
  token   \* the storage of TokenggAVAX, its WAVAX balance and its pause flag

tokenVars == <<now, token>>

TokenStorage == [
  wavax : Nat,                \* asset.balanceOf(address(this))
  totalReleasedAssets : Nat,
  stakingTotalAssets : Nat,
  lastRewardsAmt : Nat,
  lastSync : Nat,
  rewardsCycleEnd : Nat,
  totalSupply : Nat,
  balanceOf : [Accounts -> Nat],
  paused : BOOLEAN]           \* contract.paused of TokenggAVAX, in Storage

-----------------------------------------------------------------------------
(* Views *)

TotalAssets(t) ==
  IF now >= t.rewardsCycleEnd
  THEN t.totalReleasedAssets + t.lastRewardsAmt
  ELSE t.totalReleasedAssets
         + MulDivDown(t.lastRewardsAmt, now - t.lastSync, t.rewardsCycleEnd - t.lastSync)

(* Mutant: the shares of a deposit are rounded up *)
ConvertToSharesUp(t, assets) == SharesToWithdraw(assets, t.totalSupply, TotalAssets(t))

ConvertToShares(t, assets) == SharesFor(assets, t.totalSupply, TotalAssets(t))
ConvertToAssets(t, shares) == AssetsFor(shares, t.totalSupply, TotalAssets(t))

(* mulDivDown and mulDivUp revert on a zero divisor *)
Priced(t) == t.totalSupply = 0 \/ TotalAssets(t) > 0

AmountAvailableForStaking(t) ==
  LET reserved == MulDivDown(TotalAssets(t), ReserveRate, Ether)
  IN  IF reserved + t.stakingTotalAssets > TotalAssets(t) THEN 0
      ELSE TotalAssets(t) - reserved - t.stakingTotalAssets

-----------------------------------------------------------------------------
(* Shares.  The additions to a balance and the subtraction from the supply *)
(* are unchecked in the code: no conjunct guards them here either.         *)

MintShares(t, to, shares) ==
  [t EXCEPT !.totalSupply = @ + shares, !.balanceOf[to] = @ + shares]

BurnShares(t, from, shares) ==
  [t EXCEPT !.balanceOf[from] = @ - shares, !.totalSupply = @ - shares]

CanTransfer(t, from, shares) == t.balanceOf[from] >= shares

(* Mutant: both balances are read before either is written *)
MoveReadFirst(balances, from, to, shares) ==
  [balances EXCEPT ![from] = balances[from] - shares, ![to] = balances[to] + shares]

Move(balances, from, to, shares) ==
  LET debited == [balances EXCEPT ![from] = @ - shares]
  IN  [debited EXCEPT ![to] = @ + shares]

TransferShares(t, from, to, shares) ==
  [t EXCEPT !.balanceOf = Move(@, from, to, shares)]

-----------------------------------------------------------------------------
(* Deposits *)

ReceiveDeposit(t, to, assets, shares) ==
  [MintShares(t, to, shares) EXCEPT !.wavax = @ + assets,
                                    !.totalReleasedAssets = @ + assets]

CanDepositAVAX(t, assets) ==
  /\ ~t.paused /\ Priced(t)
  /\ ConvertToShares(t, assets) # 0

DepositAVAX(t, to, assets) == ReceiveDeposit(t, to, assets, ConvertToShares(t, assets))

CanMint(t, shares) == ~t.paused

Mint(t, to, shares) ==
  ReceiveDeposit(t, to, AssetsToMint(shares, t.totalSupply, TotalAssets(t)), shares)

(* Withdrawals *)

(* Mutant: the balance of the owner is not looked at, and _burn unchecked *)
CanPayOutUnchecked(t, owner, assets, shares) ==
  t.totalReleasedAssets >= assets /\ t.wavax >= assets

CanPayOut(t, owner, assets, shares) ==
  /\ t.totalReleasedAssets >= assets
  /\ t.balanceOf[owner] >= shares
  /\ t.wavax >= assets

(* Mutant: beforeWithdraw is forgotten *)
PayOutStillReleased(t, owner, assets, shares) ==
  [BurnShares(t, owner, shares) EXCEPT !.wavax = @ - assets]

PayOut(t, owner, assets, shares) ==
  [BurnShares(t, owner, shares) EXCEPT !.wavax = @ - assets,
                                       !.totalReleasedAssets = @ - assets]

CanRedeemAVAX(t, owner, shares) ==
  /\ ConvertToAssets(t, shares) # 0
  /\ CanPayOut(t, owner, ConvertToAssets(t, shares), shares)

(* Mutant: a redemption is rounded up *)
RedeemAVAXUp(t, owner, shares) ==
  PayOut(t, owner, AssetsToMint(shares, t.totalSupply, TotalAssets(t)), shares)

RedeemAVAX(t, owner, shares) == PayOut(t, owner, ConvertToAssets(t, shares), shares)

(* Mutant: the shares a withdrawal burns are rounded down *)
PreviewWithdrawDown(t, assets) == ConvertToShares(t, assets)

PreviewWithdraw(t, assets) == SharesToWithdraw(assets, t.totalSupply, TotalAssets(t))

CanWithdrawAVAX(t, owner, assets) ==
  Priced(t) /\ CanPayOut(t, owner, assets, PreviewWithdraw(t, assets))

WithdrawAVAX(t, owner, assets) == PayOut(t, owner, assets, PreviewWithdraw(t, assets))

-----------------------------------------------------------------------------
(* Yield and staking *)

Fee(amount, bips) == MulDivDown(amount, bips, Bips)

DepositYield(t, amount, bips) == [t EXCEPT !.wavax = @ + amount - Fee(amount, bips)]

CanDonateYield(t, from, shares) == shares # 0 /\ t.balanceOf[from] >= shares

DonateYield(t, from, shares) == BurnShares(t, from, shares)

CanDepositFromStaking(t, base) == base <= t.stakingTotalAssets

DepositFromStaking(t, base, reward, bips) ==
  [t EXCEPT !.stakingTotalAssets = @ - base,
            !.wavax = @ + base + reward - Fee(reward, bips)]

CanWithdrawForStaking(t, assets) == assets <= t.wavax

WithdrawForStaking(t, assets) ==
  [t EXCEPT !.stakingTotalAssets = @ + assets, !.wavax = @ - assets]

(* Mutant: the rewards of the cycle that ends are queued again *)
NextRewardsAmtAgain(t) == t.wavax + t.stakingTotalAssets - t.totalReleasedAssets

NextRewardsAmt(t) ==
  t.wavax + t.stakingTotalAssets - t.totalReleasedAssets - t.lastRewardsAmt

CanSyncRewards(t) == now >= t.rewardsCycleEnd /\ NextRewardsAmt(t) >= 0

(* Mutant: lastSync keeps the start of the previous cycle *)
SyncRewardsFromBefore(t) ==
  [t EXCEPT !.lastRewardsAmt = NextRewardsAmt(t),
            !.rewardsCycleEnd =
               ((now + RewardsCycleLength) \div RewardsCycleLength) * RewardsCycleLength,
            !.totalReleasedAssets = @ + t.lastRewardsAmt]

SyncRewards(t) ==
  [t EXCEPT !.lastRewardsAmt = NextRewardsAmt(t),
            !.lastSync = now,
            !.rewardsCycleEnd =
               ((now + RewardsCycleLength) \div RewardsCycleLength) * RewardsCycleLength,
            !.totalReleasedAssets = @ + t.lastRewardsAmt]

-----------------------------------------------------------------------------
(* Transactions.  Amounts come from Amounts; Fits is the bound on the AVAX *)
(* the vault accounts for.                                                 *)

Fits(amount) == token.wavax + token.stakingTotalAssets + amount <= MaxAVAX

(* deposit(assets, receiver); depositAVAX() is the case receiver = caller *)
DepositTx(receiver, assets) ==
  /\ Fits(assets)
  /\ CanDepositAVAX(token, assets)
  /\ token' = DepositAVAX(token, receiver, assets)
  /\ UNCHANGED now

MintTx(receiver, shares) ==
  /\ Fits(AssetsToMint(shares, token.totalSupply, TotalAssets(token)))
  /\ CanMint(token, shares)
  /\ token' = Mint(token, receiver, shares)
  /\ UNCHANGED now

(* redeem(shares, receiver, owner); redeemAVAX(shares) is the case         *)
(* owner = caller.  Only an account with WITHDRAW_QUEUE_ROLE may call, and *)
(* allowances are abstracted: any owner but the vault may have approved it.*)
RedeemTx(owner, shares) ==
  /\ QueueRole # {} /\ owner # Self
  /\ CanRedeemAVAX(token, owner, shares)
  /\ token' = RedeemAVAX(token, owner, shares)
  /\ UNCHANGED now

WithdrawTx(owner, assets) ==
  /\ QueueRole # {} /\ owner # Self
  /\ CanWithdrawAVAX(token, owner, assets)
  /\ token' = WithdrawAVAX(token, owner, assets)
  /\ UNCHANGED now

(* transfer, and transferFrom with the allowance abstracted *)
TransferTx(from, to, shares) ==
  /\ from # Self
  /\ CanTransfer(token, from, shares)
  /\ token' = TransferShares(token, from, to, shares)
  /\ UNCHANGED now

DepositYieldTx(amount, bips) ==
  /\ Fits(amount)
  /\ token' = DepositYield(token, amount, bips)
  /\ UNCHANGED now

DonateYieldTx(from, shares) ==
  /\ from # Self
  /\ CanDonateYield(token, from, shares)
  /\ token' = DonateYield(token, from, shares)
  /\ UNCHANGED now

(* by MinipoolManager or by an account with STAKER_ROLE; either amount may be 0 *)
DepositFromStakingTx(base, reward, bips) ==
  /\ Fits(reward)
  /\ CanDepositFromStaking(token, base)
  /\ token' = DepositFromStaking(token, base, reward, bips)
  /\ UNCHANGED now

(* withdrawForStaking(assets, purpose), by an account with STAKER_ROLE *)
WithdrawForStakingTx(assets) ==
  /\ assets <= AmountAvailableForStaking(token)
  /\ CanWithdrawForStaking(token, assets)
  /\ token' = WithdrawForStaking(token, assets)
  /\ UNCHANGED now

(* withdrawForStaking(assets), by MinipoolManager, which does not look at  *)
(* the amount available when it recycles a minipool                        *)
WithdrawForMinipoolTx(assets) ==
  /\ CanWithdrawForStaking(token, assets)
  /\ token' = WithdrawForStaking(token, assets)
  /\ UNCHANGED now

SyncRewardsTx ==
  /\ CanSyncRewards(token)
  /\ token' = SyncRewards(token)
  /\ UNCHANGED now

(* ProtocolDAO.pauseContract and resumeContract, on behalf of Ocyticus *)
SetTokenPausedTx(b) ==
  /\ token.paused # b
  /\ token' = [token EXCEPT !.paused = b]
  /\ UNCHANGED now

(* The next block *)
Tick ==
  /\ now < MaxTime
  /\ now' = now + 1
  /\ UNCHANGED token

-----------------------------------------------------------------------------
(* The state initialize leaves *)
TokenInit ==
  /\ now = StartTime
  /\ token = [wavax |-> Seed, totalReleasedAssets |-> Seed,
              stakingTotalAssets |-> 0, lastRewardsAmt |-> 0,
              lastSync |-> 0,
              rewardsCycleEnd |-> (StartTime \div RewardsCycleLength) * RewardsCycleLength,
              totalSupply |-> Seed,
              balanceOf |-> [a \in Accounts |-> IF a = Self THEN Seed ELSE 0],
              paused |-> FALSE]

(* What anybody may do with shares, those of the holders, and AVAX *)
HolderNext(holders) ==
  \E x \in Amounts :
     \/ \E a \in Receivers : DepositTx(a, x) \/ MintTx(a, x)
     \/ \E a \in holders : DonateYieldTx(a, x)
     \/ \E a \in holders, b \in Receivers : TransferTx(a, b, x)

(* Yield from anybody, and what stakers bring back *)
YieldNext ==
  \E bips \in FeeBips :
     \/ \E x \in Amounts : DepositYieldTx(x, bips)
     \/ \E x, y \in Amounts \cup {0} : DepositFromStakingTx(x, y, bips)

(* Stakers, the daily sync, the guardians of the protocol, and time *)
ProtocolNext ==
  \/ \E x \in Amounts : WithdrawForStakingTx(x)
  \/ SyncRewardsTx
  \/ \E b \in Pauses : SetTokenPausedTx(b)
  \/ Tick

(* What minipools take *)
MinipoolsNext == \E x \in Amounts : WithdrawForMinipoolTx(x)

(* What the accounts with WITHDRAW_QUEUE_ROLE may do *)
RedeemerNext ==
  \E a \in Accounts, x \in Amounts : RedeemTx(a, x) \/ WithdrawTx(a, x)

TokenNext ==
  HolderNext(Accounts) \/ YieldNext \/ ProtocolNext \/ MinipoolsNext \/ RedeemerNext

TokenSpec == TokenInit /\ [][TokenNext]_tokenVars

-----------------------------------------------------------------------------
(* Properties *)

(* The storage keeps its shape: no subtraction of the vault goes below 0,  *)
(* the unchecked one of _burn included.                                    *)
TokenTypeOK == now \in Nat /\ token \in TokenStorage

(* The unchecked arithmetic of _mint, _burn and transfer rests on this:    *)
(* the supply is the sum of the balances.                                  *)
SupplyIsSumOfBalances ==
  token.totalSupply = SumFunctionOnSet(token.balanceOf, Accounts)

(* The vault holds, in WAVAX and in stakes, all it has promised: what is   *)
(* released and what the current cycle unlocks.  This is what keeps        *)
(* syncRewards, whose subtraction is checked, from reverting forever.      *)
Backed(t) == t.wavax + t.stakingTotalAssets >= t.totalReleasedAssets + t.lastRewardsAmt
VaultBacked == Backed(token)

(* If every holder converted at once, WAVAX and stakes would cover it.     *)
ClaimsCovered ==
  SumFunctionOnSet([a \in Accounts |-> ConvertToAssets(token, token.balanceOf[a])], Accounts)
    <= token.wavax + token.stakingTotalAssets

(* A deposit followed by a redemption in the same block never pays more    *)
(* than was deposited, whatever the state of the reward cycle.             *)
NoInstantProfit ==
  \A x \in Amounts, a \in Accounts :
     CanDepositAVAX(token, x) =>
        ConvertToAssets(DepositAVAX(token, a, x), ConvertToShares(token, x)) <= x

(* The assets behind a share never fall: through deposits, redemptions of  *)
(* part of the vault, cycles that end, yield and time.                     *)
PriceNeverFalls ==
  [][ TotalAssets(token)' * token.totalSupply
        >= TotalAssets(token) * token.totalSupply' ]_tokenVars

(* Within a block, nothing but a change of the supply moves the assets:    *)
(* yield that arrives waits for the next cycle, and the sync that queues   *)
(* it starts the unlocking from zero, so the price has no jump to catch.   *)
YieldIsDeferred ==
  [][ now' = now /\ token.totalSupply' = token.totalSupply
        => TotalAssets(token)' = TotalAssets(token) ]_tokenVars
=============================================================================
