# A specification of GoGoPool in TLA+

GoGoPool is liquid staking for Avalanche, written in Solidity. Holders of AVAX
deposit it in an ERC-4626 vault (`TokenggAVAX`) and get ggAVAX; node operators
put up half of the AVAX a validator needs and some GGP as collateral, and the
vault lends them the other half (a *minipool*); an off-chain coordinator with a
multisig (Rialto) moves the AVAX to the P-chain and reports what happened. Holders
leave through a queue (`WithdrawQueue`) that is paid as AVAX comes back.

This directory models the contracts, checks them with TLC on small instances
and proves the properties of the vault, of the queue, of the minipools and of the rewards
with TLAPS for every instance. The vault, the queue, the minipools, the rewards in GGP and the principal
token are modelled; section 5 names what is not.

## 1. The system

| Part | State it keeps | Operations | Who calls it |
|---|---|---|---|
| `TokenggAVAX` (over `ERC4626Upgradeable`, `ERC20Upgradeable`) | shares, supply, released assets, stakes that are out, the reward cycle | deposit, mint, withdraw, redeem, transfer, donateYield, depositYield, depositFromStaking, withdrawForStaking, syncRewards | holders; the queue (`WITHDRAW_QUEUE_ROLE`); minipools; stakers (`STAKER_ROLE`); the sync bot |
| `WithdrawQueue` | requests, the pending and the fulfilled set, a deque of pending ids, ids by owner, allocated AVAX | requestUnstake(OnBehalfOf), claimUnstake, cancelRequest(s), depositFromStaking, reclaimExpiredRequest / -Funds, rescueStuckAVAX, setters, pause | holders; whoever brings staked AVAX back (`DEPOSITOR_ROLE`); admins |
| `MinipoolManager` | the minipools and their status, the liquid AVAX that is out | create, cancel, claimAndInitiateStaking, recordStakingStart / End / Error, cycling, withdraw, relaunch, delegation | node operators, Rialto |
| `Staking` | per staker: GGP, AVAX staked, assigned, validating and its high water, rewards | stakeGGP, withdrawGGP, slashGGP, counters for `MinipoolManager` and `ClaimNodeOp` | stakers, contracts |
| `Vault` | AVAX and tokens by contract | deposit, withdraw, transfer | contracts |
| `MultisigManager` | multisigs, enabled or not | register, enable, disable, next active | guardian, `Ocyticus` |
| `RewardsPool`, `ClaimNodeOp`, `ClaimProtocolDAO`, `TokenGGP` | GGP inflation, cycle counters and allotments | startRewardsCycle, calculateAndDistributeRewards, claimAndRestake, spend | anyone, Rialto, stakers, guardian |
| `TokenpstAVAX`, `TokenlstAVAX` | principal tokens over ggAVAX shares | deposit, withdraw, withdrawViaQueue, stripYield | holders |
| `ProtocolDAO`, `Ocyticus`, `Oracle` | settings, roles, pause flags, registry, the GGP price | setters | guardian, defenders, Rialto |
| `Storage`, `Base*` | a key-value store, the guardian | get/set | registered contracts |
| `AssetLocker`, `Timelock`, `MinipoolStreamliner`, hardware rentals | locks; queued calls; nothing between two calls | lock/withdraw/sweep; queue/abort/execute; create in a batch | users, owner |

All interaction is by synchronous calls inside transactions, which are atomic:
a revert anywhere undoes everything. What makes the system hard is therefore
not preemption but *order*: any caller may act between any two transactions of
anybody else, time passes between blocks, rewards arrive before they are
accounted for, requests live across many changes of price, and the state of one
contract (a sum, a set, a counter) must agree with the state of another after
every one of many paths.
`PROJECT.json` lists the hazards line by line, with the properties that cover
each, or the reason why none does.

## 2. The modules

    ShareMath          mulDivDown, mulDivUp and the ERC-4626 conversions
    TokenggAVAX        the vault                      (extends ShareMath)
    WithdrawQueue      the queue on top of the vault  (extends TokenggAVAX)
    UnstakePromise     what the queue promises        (abstract; refined by WithdrawQueue)
    TokenpstAVAX       the principal token, over both (extends WithdrawQueue)
    Vault              AVAX and GGP by contract       (operators on a record)
    Staking            the records of the stakers     (operators on a record)
    MinipoolManager    the minipools, on top of the vault, with Vault, Staking,
                       MultisigManager, the pauses and the price (extends TokenggAVAX)
    NodeLedger         what an operator is promised   (abstract; refined by MinipoolManager)
    Rewards            RewardsPool, ClaimNodeOp, ClaimProtocolDAO, TokenGGP and the script
                       that runs a round, with Vault and Staking (extends ShareMath)
    MC...              the instances TLC checks, with the .cfg files
    SumTheorems        sums of a function over a finite set: lemmas
    ShareMath_proofs   division, proportions, the price of a share: lemmas
    TokenggAVAX_proofs the theorems about the vault
    WithdrawQueue_proofs
                       the theorems about the queue, and that it implements UnstakePromise
    TokenpstAVAX_proofs
                       the theorems about the principal token
    MinipoolManager_proofs
                       the theorems about the minipools, and that they implement NodeLedger
    Rewards_proofs     the theorems about the rewards

**State.** The storage of a contract is one record (`token`, `queue`, `pst`, `pool`), with the
names of the source. What a function does is an operator from records to
records, and a `Can...` operator holds the conditions under which it does not
revert; the contracts that call it compose these operators exactly as the code
nests its calls. An action `...Tx` is one transaction. A transaction that
reverts changes nothing and is no step.

**Compositions.** `WithdrawQueue` and `MinipoolManager` each extend
`TokenggAVAX` and bring the rest of the world in as its actions: to the queue the
minipools are stakes that leave and come back with any reward, and to the
minipools the queue is one more holder. They share nothing but the vault, whose
properties are proved for both kinds of callers at once. Liquid stakers with
`STAKER_ROLE`, who stake beside the minipools, appear in the runs of the vault and
the queue only. `TokenpstAVAX` adds one more contract that holds shares and calls the
queue, so it extends the queue and everything that happens there. The rewards touch the
vault nowhere: what they share with the minipools is `Staking` and `Vault`, and
`Rewards` has these two for itself.

**Minipools.** `net` is the storage of `MinipoolManager`, `Staking` and `Vault`.
A handler `recordStakingEnd(...)` is `CanRecordEnd(net, ...)` and `RecordEnd(net, ...)`;
`recordStakingEndThenMaybeCycle` composes `RecordEnd`, `Recreate` and `Launch`, and a
relaunch `WithdrawFunds` and `Create`, as the code nests its calls. The AVAX that
`msg.value` brings is Rialto's and not modelled: Rialto sends what a handler asks
for, or the call reverts and is no step. Fields that no handler reads after the
transaction that writes them (`txID`, `endTime`, `errorCode`, the BLS keys, the
delegation fee, the hardware provider) are dropped. `delegated` is the one variable that is
not storage: what Rialto has delegated and will return; the code itself would
accept a return of anybody's stake.

**Rewards.** `pool` is the storage of `RewardsPool`, `ClaimNodeOp` and `TokenGGP`; `stakers` and
`vault` are those of the minipools' module, with the contracts of the rewards added. A
minipool is here what its handlers do to the record of its owner: each action
(`CreateMinipool`, `RecordStakingEnd`, ...) calls the same operators of `Staking` as
`MinipoolManager` does, with the amount of a minipool from a small set and the bookkeeping of
single minipools left out; the pause of `MinipoolManager` with them. A call that
reverts is no step, a cycle started late included. `RoundBegin`, `RoundCheck`, `RoundPay` and
`RoundDies` are the script `nopClaim:distributeRewards`: it reads the stakers and
their stakes in one call (pages may be missing when the list changes under way, so
any subset may be read), checks the total, and pays one by one. Between two of its
calls anybody may act, it may die at any of them, and it may be started again. The
order in which it pays is left open. `history` remembers who was paid in this
cycle, and whether the rounds so far were orderly (see below). Nothing in the actions reads it.

**Principal token.** Every operation of `TokenpstAVAX` first strips (`StripYield`), in the
order of the code: `_deposit` mints before it strips. `unstripped` is a history
variable, the number of deposits since the last strip; nothing in the actions reads it.

**Loops.** `depositFromStaking`, `cancelRequests` and `reclaimExpiredFunds`
loop over requests. They take one step per iteration on a *copy* of both
storages, kept in `tx`; `End...` commits the copy and `Revert` drops it, and
while `tx` is busy no other action is enabled. So each early exit and each
revert of the loop is an action of its own, and atomicity is kept.

**Correspondence.** `map` in `PROJECT.json` gives the lines of every
definition. Abstractions worth naming:

- amounts are small natural numbers and `Ether`, the unit of the fixed-point
  numbers, is small too; the overflow checks near 2^256 are left out, the
  underflow checks are all there (a checked subtraction is a conjunct of `Can...`;
  an unchecked one has no conjunct and its result is checked by the type
  invariant);
- an allowance is nondeterminism: any owner may have approved any spender;
- a role is a set of callers (`QueueRole`), or an action open to anyone when the
  role only says who may trigger it. The flag that enables withdrawals for
  delegation is left to whoever may call;
- `safeTransferETH` to a user comes last in each function, so what the receiver
  does next is a later transaction;
- the order in which an `EnumerableSet` lists its ids is left open in the two
  batches; the deque keeps its order;
- a call that changes nothing (an empty batch) is not a step.

`ledger` in `WithdrawQueue` is a history variable: what each request was promised
when it was made, and what has been paid to its owner. Nothing in the actions reads it.

## 3. What is checked

| Run | Bounds | What it shows |
|---|---|---|
| `token_vault` | 2 holders and the seed's, amounts 1 and 2, at most 6 AVAX, cycles of 3 ticks, 7 ticks, fees of 0 and 50 % | seven properties of the vault alone |
| `queue_safety` | 2 requests, 1 user, at most 5 AVAX, cycles of 1 tick, 3 ticks, 2 requests per deposit | the queue's money, shares, indexes and price; what a deposit leaves waiting; `WithdrawQueue` implements `UnstakePromise` |
| `queue_settings` | 2 requests, 1 user, at most 3 AVAX, 2 ticks, an unstake delay of 0, pauses of both contracts, a limit per deposit that changes between 1 and 2, batches of one and of all, stuck AVAX, fairness | the remaining operations, and that nobody waits for anything but liquidity |
| `queue_price` | the principal token with 2 holders, one of them a contract, deposits of 4 and yields of 2, at most 7 AVAX, 2 ticks, fees of 0 and 50 %, 1 request through the queue | the principal stays covered and the queue's promise redeemable |
| `minipools` | 2 nodes of 1 owner, 2 AVAX each, rewards of 0 and 3, 2 prices of GGP, 3 ticks | the whole life of a minipool; it implements `NodeLedger` |
| `minipools_paused` | 1 node, 2 owners, a commission of a half, delegation, pauses, 1 multisig to register, a lock, a holder | the remaining operations |
| `rewards` | 2 owners, 1 multisig, cycles and intervals of 1 tick, 2 ticks, a supply of 20 of at most 40 that grows by half, at most 6 GGP staked, withdrawals of 3 and of all, claims of 1 and of all, a part that drops to 0, 5 events | seven properties of the rewards |
| `queue_claim_delay`, `queue_deposit`, `queue_reclaim` | 1 request | findings 1 to 3 |
| `minipools_slash`, `minipools_disabled` | 2 nodes; 1 node | findings 4 and 5 |

The bounds are enough for the cases to happen: two holders and the seed make a
price that moves by rounding; a cycle of three ticks has a start, a middle and
an end, and the clock sees two of them; two requests are the least for which
order, mixing of shares and batches mean anything; two AVAX of one user against
up to five in the vault make deposits that fulfil none, one or both, or revert. In `queue_settings`
a limit of one lets the counter end a loop that could go on. The settings that `queue_settings` does not vary
(the delays, the amount asked for on behalf of another) are read in one place each. The runs
differ in what they vary (amounts, requests, settings), because all at once is
too large; together they take every action and every disjunct. Two nodes of one
owner are the least for which the counters of a staker are sums, a slash can
meet another, and the Vault could pay one minipool with the AVAX of another; two
owners of one node in turn are the least for which a record is overwritten. Three
ticks see two cycles of one minipool, the second with what the first has
compounded. The nodes are symmetric, the amounts are in units of a tenth of `Ether`.
Two owners are the least for which a round has a share that is not all, and one
who is paid before another; two ticks see a cycle, a round, and the cycle after
it. An *event* is what minipools, guardian and multisigs do; `MaxEvents` bounds
how many there are in a behaviour, and neither rounds, cycles nor stakers count
against it. With five of them an owner can create, start and end a minipool and
leave two for a pause, a price or a slash. The owners are symmetric. A deposit of
pstAVAX is two yields large, so that a strip with a fee of a half rounds.

*Properties of the vault.* `VaultBacked`: WAVAX and stakes cover what is
released and what the cycle unlocks, which is what the checked subtraction of
`syncRewards` needs forever. `ClaimsCovered`: all holders could convert at once.
`NoInstantProfit`: deposit and redemption in a block never gain.
`PriceNeverFalls`: no step, rounding included, lowers the assets behind a share.
`YieldIsDeferred`: within a block only a change of the supply moves the assets,
so neither yield that arrives nor a sync makes a jump to catch.
`SupplyIsSumOfBalances`: the fact the unchecked arithmetic rests on.

*Properties of the queue.* `AllocationsCovered`: the total equals the
allocations of the requests, and the balance covers it, on every path on which
a request ends. `SharesHeld`: the shares of pending requests are all there.
`Indexed`: sets, deque, mapping and owners agree. `PromiseKept` and the
refinement `Implements`: a request is given and paid what it was promised when
it was made, once, and nobody who waits is passed over. `RedemptionNeverShort`:
the shares of a pending request still redeem for its promise, and a
cancellation never returns more shares than it locked. `DepositServesFront`: a deposit
takes entries off the front of the deque, no more than its limit, and stops before that only
with nobody left or before a request it cannot pay. It is about the stale entries that
count against the limit, and about the count of what is available, which the loop keeps by
hand while the vault changes. `WaitsOnlyForLiquidity`: if deposits keep coming, whoever
waits is served or ends otherwise, unless a deposit finds the request at the front too dear
or the limit is 0; so cancelled requests in front delay the others and block nobody.

*Properties of the principal token.* `PrincipalCovered`: right after a strip the
shares of the contract are worth all pstAVAX, at the price that the strip itself leads
to, with any fee; each deposit since may have lost a part of one share to
rounding, nothing else takes from it. `HolderCanLeave`: when it is covered, each
holder can withdraw all its own, in a call that strips first. The condition is
real: the rounding of one deposit may leave the principal short by less than a
share, and then the last holder cannot take everything until yield has come.
`StripSettles`: without a fee a second strip in a block finds nothing; with one it
does, because the fee's shares are not burnt. `PriceNeverFalls` and
`RedemptionNeverShort` once more, with a contract as the requester.

*Properties of the minipools.* `StakersAgree`: the counters of a staker are the
sums over its minipools by status, after every one of the nine handlers that
move them. `VaultCovers`: the Vault holds what every owner may withdraw, and the
GGP of all stakers exactly. `LiquidAccounted`: the two contracts that count the
loans agree, delegations added. `RewardsClock`: no cancellation takes an owner
with another minipool out of the rewards program. `NothingStuck`: in every
state, paused ones included, each minipool has a next call that brings its
funds closer to home, and none of the subtractions on the way can underflow.
(It asks for the end of a validation that earned something; one that failed is
finding 4.) `MinipoolTypeOK` is not idle: the code subtracts, and the type says
that no counter goes below zero.

*Properties of the rewards.* `StakesBanked`: the Vault's GGP for `Staking` is the sum of
the stakes, through slashes, restakes and withdrawals. `RewardsFunded`: as long as
the rounds were orderly, `ClaimNodeOp` has the GGP of all it has credited, those of
earlier cycles included. `InProgram`: an owner with AVAX at work stays in the
program through payments and cancellations. `InflationOnSchedule`: however late and
in however many pieces cycles are started, no more is minted than the intervals
since the start allow. `CycleStartable`: a due cycle can start below the
maximal supply. (At the maximum, or if an interval yields nothing, the amount is
zero, the Vault refuses it and every later start reverts.) `RoundGoesThrough`: in a cycle
with one round nobody who is left can be refused because of the others.
*Orderly* is what Rialto has to see to, since `calculateAndDistributeRewards` does not: it
takes the total from its caller. More than the allotment is credited if a stake is
raised between the reading and the call, if a second round is run in a cycle, or if
an allotment of zero leaves the total of the cycle before (the stale total at
`RewardsPool.sol:141`). Each of these three makes `history.orderly`
false, and `RewardsFunded` promises nothing from then on. The script divides by all GGP of those who are
eligible, not by their effective stakes (the TODO at `nopClaim.js:27`), so that an
orderly round pays at most the allotment and often less; what is not paid stays with `ClaimNodeOp`.

*Refinement.* `NodeLedger` knows, for each node, what is held for its operator and
what is at work, what the custodian has and what the pool has lent. The mapping
reads them off statuses and amounts; recording a start, slashing, pausing and everything
about GGP stutter. It says what the statuses are for: an operator is paid once,
gets back at least what was at work, and nobody is paid with the AVAX of
another. `Renew` leaves what is not compounded with the custodian, on nobody's
account, as the comment in `recordStakingEnd` says.

*Refinement of the promise.* `UnstakePromise` knows requests, amounts and four
operations: ask, reserve (a set that nobody who waits precedes), pay, give back.
The mapping reads the status of a request off the queue's two sets and the
ledger, and its reserve is `totalAllocatedFunds`. The iterations of a loop
stutter, and its end is one step, `Reserve(S)` or `GiveBack(S)` for all requests
it handled.

*Fairness.* Only `WaitsOnlyForLiquidity` needs any: weak fairness of `LoopNext`, because the
network runs a transaction it has begun to its end. Nothing is assumed of
users, operators or time: that deposits keep coming (`[]<>Running("fulfil")`) is a hypothesis
of the property, which it needs, since nobody has to make one.

*Findings.* Five places where the code does not do what its comments or tests say.

1. `claimUnstake` does not wait for the unstake delay.
2. `depositFromStaking` may revert its own deposit by the subtraction at line 356.
3. A request for address(0) can never be reclaimed.
4. A slash of zero GGP reverts, so a second failed validation of an owner whose
   GGP the first has taken cannot be recorded. In the run, as in the default
   settings, the collateral asked for is worth the rewards expected of a year: the
   price of GGP has to fall in between.
5. A disabled multisig still completes the validations it was assigned.

`PROJECT.json` quotes the lines.

## 4. What is proved

`TokenggAVAX_proofs` proves, for any holders, amounts, fees, cycle lengths and
bounds that satisfy `TokenConstants`, all the properties of the run
`token_vault`: `TypeCorrect`, `SupplyCorrect`, `AlwaysBacked`, `NoProfit`,
`ClaimsCorrect`, `PriceCorrect` and `DeferCorrect`.

The inductive invariant is `VaultOK`: the storage is typed, the supply is the sum
of the balances, the vault is backed, the last sync is not in the future, and
the vault's own account still holds the seed. The seed is what keeps the supply
positive: without it an operation could empty the supply while assets remain,
and the next deposit would set the price anew. The vault's address signs no
transaction, so no action moves the seed. Each operation has a lemma
(`...OK`) that, from `VaultOK(t)`, gives `VaultOK(u)` and `PriceKept(t, u)` for its
result `u`: the price does not fall, and the assets move only with the supply. `PriceKept`
is a product inequality; it rests on the bounds of `mulDivDown` and `mulDivUp`
(`MulDivDownBounds`, `MulDivUpBounds`). `TickOK` is the one step on which time
moves, and uses that the unlocked part grows with the time. `ClaimsCorrect` needs
that the floors of proportions add up to no more than the whole, which
`SumTheorems` proves by induction over finite sets, written with the recursive functions and the
induction on sets of naturals that the installed provers can use.

`Rewards_proofs` proves, for any owners, multisigs, rates, cycle lengths, supplies,
prices and bounds that satisfy `RewardsConstants`, all the properties of the run
`rewards`: `TypeCorrect`, `StakesAreBanked`, `RewardsAreFunded`, `StaysInProgram`,
`InflationKeepsSchedule`, `CycleCanStart` and `RoundsGoThrough`, from one inductive
invariant `IInv` (`RewardsInvariant`). Its parts are `TypeInv` (types), `StakersInv` (the records and
the program), `BankInv` (each account of the Vault against what it is for, and the supply),
`ScheduleInv` (inflation), `RoundInv` (what a round has read), `PaidInv` (who was paid) and
`FundsInv`. The last is the reason why the others are not enough. That the GGP
behind the rewards covers what is credited does not survive a payment by itself:
one has to know that it will still cover the payments to come. `FundsInv` says so
without division: the backing that is left, times the total of the round, covers
the total of the cycle times the stakes of those who are left to be paid. A
payment takes floor(part * cycle total) off one side and its stake off the other. `ScheduleInv`
needs that starting a cycle in between adds no inflation: n intervals and then m are at
most n + m (`InflatedCompose`), for the recursive function that `inflate`'s loop
computes, by induction on the intervals.

`MinipoolManager_proofs` proves, for any nodes, owners, multisigs, amounts, prices, settings
and bounds that satisfy `MinipoolConstants` and `TokenConstants`, all the properties of the
run `minipools`: `MinipoolTypeCorrect`, `StakersCorrect`, `VaultCorrect`, `LoansCorrect`,
`RewardsClockCorrect`, `NeverStuck` and the refinement `ImplementsLedger`. None of them is
inductive by itself, since a handler subtracts the part of one minipool from totals and trusts that it is in
them. The inductive invariant `NetworkInv` (`NetworkInvariant`) is the vault's `VaultOK`, that
loans and stakes agree, that the multisigs are known, and `NetOK`: every minipool is what its status
says (`MinipoolOK`: at work it has as much of the liquid stakers as of its owner, withdrawable
it has something to withdraw), the counters of a staker are the sums of what its minipools add by
their status, the Vault has the sum of what is held, and an owner with AVAX at work is in
the program. `NodeStep` is the heart: when one minipool and the totals of its
owner move by the same amounts, all sums agree again; it is the one place where sums are
taken apart (`SumTheorems`). Each handler then has a lemma of what it does to its minipool and one
that it keeps `NetOK`, and the transactions compose them as the code does: a relaunch is a
withdrawal and a creation, `recordStakingEndThenMaybeCycle` three handlers. For the refinement
every transaction is shown to be a `LedgerStep`, by what it does to the account of one minipool
(`LedgerOne`): the ledger sees statuses and amounts through `Held` and `Working` only, and a
launch after an end in one transaction is its `Renew`.

`WithdrawQueue_proofs` proves, for any holders, requests, delays, limits and amounts that
satisfy `QueueConstants` and `TokenConstants`, all the properties of the run `queue_safety`:
`QueueTypeCorrect`, `AllocationsCorrect`, `SharesCorrect`, `IndexCorrect`, `PromiseCorrect`,
`RedemptionCorrect`, `DepositServesCorrect` and the refinement `ImplementsPromise`. The inductive invariant `QueueInv`
(`QueueInvariant`) says of the two contracts (`WorldOK`) that the vault is as `VaultOK` has it
and a share is worth an asset at least; that the requests are indexed (`Listed`), in order in the
deque (`Lined`), have what their state entitles them to (`Entitled`) and it is set aside
(`Funded`); that the queue holds the shares of who waits, and each request's are worth its
promise (`WorthIt`). The parts need each other: a cancellation subtracts the shares an amount
buys from those that were locked, which stays above 0 because the price never fell since
(`PriceKept`, from the proofs about the vault, through `WorldStep`); a claim subtracts its
allotment from the total, which stays above 0 because the total is the sum. That a request
is promised something at all, so that a status can be told from the payment, needs the price
to be 1 at least, which the seed and `PriceUp` give. The other two parts are `LedgerOK` (who is listed
has not been paid) and `LoopOK`: the copy of a loop satisfies `WorldOK` itself, and what the loop has
changed so far is an effect. There are four effects, `Asks`, `Pays`, `Reserves` and `GivesBack`; each
handler has a lemma that it keeps `WorldOK`, each transaction one that it keeps `QueueInv` and has an
effect, and the effects are the actions of `UnstakePromise` (`AsksOK`, `PaysOK`, `ReservesOK`,
`GivesBackOK`) or stutter when they are about no request. `LedgerKept` and `TotalMoves` carry the
history and the reserve along. `DepositServesCorrect` needs to know more of a loop, `QueueServes`: the
deque of the copy is the one it began with, less one entry per iteration (`TakeFront`), and its count
of what is available is what the vault of the copy has (`RedeemAvailable`). When it ends with
requests left, the first is one of which either the promise is more than is available, and its
shares are worth the promise at least, or the WAVAX is too little, and what is available is
never more than that (`AvailableBounds`, from `Backed`); the yield that the end brings changes
neither (`YieldAvailable`).

`TokenpstAVAX_proofs` proves, for any holders, amounts, fees and recipients that satisfy
`PstConstants` besides, all the properties of the run `queue_price`: `PstTypeCorrect`,
`PrincipalCorrect`, `LeaveCorrect`, `SettlesCorrect`, `PstRedemptionCorrect` and
`PstPriceCorrect`. Two more say that the contracts under the token are what they were: with the
token as a requester the queue still implements `UnstakePromise` (`PstImplementsPromise`), and
the properties of the queue and the vault hold (`PstWorldCorrect`). The inductive invariant
`PstInv` (`PstInvariant`) is `QueueInv`, that the balances of pstAVAX add up (`PstOK`),
`PrincipalCovered`, and `FairCopy`. The argument has three parts.
*The strip* (`StripAlgebra`, `FeeBalance`): the V shares of S are worth the principal P at A
assets when V * A >= P * S. The shares that are burnt raise the price, those that pay the fee do
not; `getExcessShares` divides by A less the part of P that the burnt ones are of the whole, and
what is left is worth P at the price after the burning, for each way the two divisions round
(`StripOK`, `StripCovers`). Without a fee the same quotient, taken again, is 0 (`StripRest`).
*The token*: a deposit brings P and shares for it that fall short by less than one
(`DepositKeeps`); a withdrawal takes no more than its part (`WithdrawKeeps`).
*Everybody else*: a step from t to u is `Fair` when whatever n shares were worth they are worth
still, and the contract has no fewer of them. Every handler of the vault and of the queue is
(`VaultNextFair`, `QueueNextFair`). `PrincipalCovered` alone is not inductive, since a loop of the
queue changes the vault on its copy for many steps and commits it in one; `FairCopy` says that
the copy has been fair to the contract so far. That the copy cannot be stale is atomicity: no
transaction of the token runs while a loop does.

Only model-checked: `WaitsOnlyForLiquidity` (liveness under fairness is out of the prover's reach, like
`ENABLED`). The findings are counterexamples of runs. Every other property that a passing run
checks is stated by a theorem.

## 5. Not modelled, and why

`components` in `PROJECT.json` lists every part. What is left out, and why:

- `Storage` and the base contracts: a key-value store behind the guards of its
  writers. Every module keeps its own keys as a record.
- The fees in AVAX: `_collectProtocolFee` passes them through `Vault.transferAVAX` to
  `ClaimProtocolDAO`, whose `spendAVAX` is all that reads them. In the model they leave the
  vault and are not followed further.
- Settings as such: they are constants, or inputs of the actions that read them.
- `AssetLocker`: locks of a user's tokens; it shares no state with the rest.
- `Timelock`: a queue of calls. Its one interesting order, the entry that is deleted
  after the call, needs a target that calls back, and no contract it governs does.
- `MinipoolStreamliner` and the hardware rentals: front ends that keep no state between two
  transactions but settings, and swap on exchanges outside the repository.
- `TokenlstAVAX` (a variant of `TokenpstAVAX` without fees) and `GGAVAXRateProvider` (a view).
- The previous versions of the contracts, test doubles, deployment.
- The tasks under `src/tasks` send one transaction or print a view, but for
  `nopClaim:distributeRewards`, which is modelled. The files under `src/generated` are
  the interfaces of the contracts as data; nothing in them changes a state.
- Integer widths: amounts are unbounded naturals, so overflow near 2^256 is out of the
  model; each subtraction is checked.

## 6. Plan

1. *Done*: the vault, the queue, the promise, the proofs about the vault.
2. *Done*: the minipools with `Vault`, `Staking`, `MultisigManager` and the
   pauses, and the refinement of `NodeLedger`.
3. *Done*: the rewards in GGP, their script and their proofs; the principal token.
4. *Done*: the proofs about the minipools and that they implement `NodeLedger`.
5. *Done*: the proofs about the queue and that it implements `UnstakePromise`.
6. *Done*: the proofs about the principal token, over the queue's.
7. Left: `TokenlstAVAX` as a variant of the token, without fees. `YieldIsDeferred` stays a
   property of the vault alone: a transaction that composes a burn and a deposit (a strip before
   a deposit, a batch of cancellations) may leave the supply and move the assets.
