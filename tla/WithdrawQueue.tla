--------------------------- MODULE WithdrawQueue ---------------------------
(***************************************************************************)
(* WithdrawQueue, through which holders of ggAVAX get their AVAX back: a   *)
(* request locks shares at today's price, AVAX that comes back from        *)
(* staking is set aside for the requests in the order they were made, and  *)
(* the owner claims it, or the request is cancelled or expires.            *)
(*                                                                         *)
(* The queue acts on the vault, so the module extends TokenggAVAX and its  *)
(* operations are operators on a world: the storages of the two contracts. *)
(* A handler without a loop is one action.  Each of the three handlers     *)
(* with a loop works on a copy of the world in tx, one iteration per       *)
(* action; the end of the loop commits the copy and a revert drops it.     *)
(* Nothing else happens while tx is busy: a transaction is atomic.         *)
(***************************************************************************)
EXTENDS TokenggAVAX, Sequences

CONSTANTS
  Queue,                \* the address of the queue
  NoAddress,            \* address(0): the requester of a deleted request
  Contracts,            \* other addresses that hold ggAVAX and do not call as holders do
  Requesters,           \* the addresses requests are made for
  MinExpirationDelay,   \* MIN_EXPIRATION_DELAY
  UnstakeDelays,        \* the values of unstakeDelay
  ExpirationDelays,     \* the delays callers ask for, and of maxExpirationDelay
  RequestLimits,        \* the values of maxRequestsPerStakingDeposit
  OnBehalfAmounts,      \* the values of minUnstakeOnBehalfOfAmt
  BatchSizes,           \* the values of maxRequests callers use; 0 is all
  StuckAVAX,            \* AVAX an earlier implementation may have left
  MaxRequests           \* bound: requests ever made

ASSUME QueueConstants ==
  /\ Queue \in Accounts \ {Self} /\ QueueRole = {Queue}
  /\ NoAddress \notin {Self, Queue}
  /\ Requesters \subseteq Accounts
  /\ Contracts \subseteq Accounts \ {Self, Queue}
  /\ MinExpirationDelay \in Nat \ {0}
  /\ UnstakeDelays \subseteq Nat /\ UnstakeDelays # {}
  /\ ExpirationDelays \subseteq Nat /\ ExpirationDelays # {}
  /\ RequestLimits \subseteq Nat /\ RequestLimits # {}
  /\ OnBehalfAmounts \subseteq Nat /\ OnBehalfAmounts # {}
  /\ BatchSizes \subseteq Nat
  /\ StuckAVAX \subseteq Nat
  /\ MaxRequests \in Nat

VARIABLES
  queue,    \* the storage of WithdrawQueue and its AVAX
  tx,       \* the transaction that runs a loop, or Idle
  ledger    \* history: the AVAX each request was promised, and was paid

queueVars == <<now, token, queue, tx, ledger>>

Ids == 0 .. MaxRequests - 1
Owners == Accounts \cup {NoAddress}

(* requestTime is left out: nothing reads it *)
UnstakeRequest == [
  requester : Owners, shares : Nat, expectedAssets : Nat,
  claimableTime : Nat, expirationTime : Nat, allocatedFunds : Nat]

(* What the mapping holds for an id never used or deleted *)
NoRequest == [
  requester |-> NoAddress, shares |-> 0, expectedAssets |-> 0,
  claimableTime |-> 0, expirationTime |-> 0, allocatedFunds |-> 0]

QueueStorage == [
  balance : Nat,                       \* address(this).balance
  totalAllocatedFunds : Nat,
  nextRequestId : Nat,
  requests : [Ids -> UnstakeRequest],
  pendingRequests : SUBSET Ids,
  fulfilledRequests : SUBSET Ids,
  pendingRequestsQueue : Seq(Ids),
  requestsByOwner : [Owners -> SUBSET Ids],
  unstakeDelay : Nat, maxExpirationDelay : Nat,
  maxRequestsPerStakingDeposit : Nat, minUnstakeOnBehalfOfAmt : Nat,
  paused : BOOLEAN]

World(t, q) == [token |-> t, queue |-> q]
TheWorld == World(token, queue)

(* The loops: which one, on what, for whom (the caller of cancelRequests), *)
(* how many requests it may still process; and the locals of               *)
(* depositFromStaking: ggAVAXAvailableAssets, excessAVAX, the fee.         *)
Loops == [
  op : {"fulfil", "cancel", "reclaim"},
  token : TokenStorage, queue : QueueStorage,
  owner : Owners, left : Nat, avail : Nat, excess : Nat, bips : Nat]

Idle == [op |-> "none"]

Running(op) == tx.op = op
Copy == World(tx.token, tx.queue)

-----------------------------------------------------------------------------
(* Requests *)

(* Mutant: the request is deleted before its requester is looked up *)
DeleteFirst(q, r) ==
  LET deleted == [q EXCEPT !.requests[r] = NoRequest]
  IN  [deleted EXCEPT !.requestsByOwner[deleted.requests[r].requester] = @ \ {r}]

(* delete requests[r], and requestsByOwner[...].remove(r) *)
Delete(q, r) ==
  [q EXCEPT !.requestsByOwner[q.requests[r].requester] = @ \ {r},
            !.requests[r] = NoRequest]

(* Mutant: a pending request gives back funds it never had *)
DropPendingFunds(q, r) ==
  [Delete(q, r) EXCEPT !.pendingRequests = @ \ {r},
                       !.totalAllocatedFunds = @ - q.requests[r].expectedAssets]

DropPending(q, r) == [Delete(q, r) EXCEPT !.pendingRequests = @ \ {r}]

(* Mutant: the total keeps the funds of the request *)
DropFulfilledOnly(q, r) == [Delete(q, r) EXCEPT !.fulfilledRequests = @ \ {r}]

DropFulfilled(q, r) ==
  [Delete(q, r) EXCEPT !.fulfilledRequests = @ \ {r},
                       !.totalAllocatedFunds = @ - q.requests[r].allocatedFunds]

ExpirationDelay(delay) == IF delay < MinExpirationDelay THEN MinExpirationDelay ELSE delay

(* Mutant: the promise is rounded up *)
NewRequestUp(w, requester, shares, delay) ==
  LET claimable == now + w.queue.unstakeDelay
  IN  [requester |-> requester, shares |-> shares,
       expectedAssets |-> AssetsToMint(shares, w.token.totalSupply, TotalAssets(w.token)),
       claimableTime |-> claimable,
       expirationTime |-> claimable + ExpirationDelay(delay),
       allocatedFunds |-> 0]

NewRequest(w, requester, shares, delay) ==
  LET claimable == now + w.queue.unstakeDelay
  IN  [requester |-> requester, shares |-> shares,
       expectedAssets |-> ConvertToAssets(w.token, shares),
       claimableTime |-> claimable,
       expirationTime |-> claimable + ExpirationDelay(delay),
       allocatedFunds |-> 0]

CanRequestUnstake(w, provider, shares, delay) ==
  /\ ~w.queue.paused /\ shares # 0
  /\ delay <= w.queue.maxExpirationDelay
  /\ CanTransfer(w.token, provider, shares)

RequestUnstake(w, provider, requester, shares, delay) ==
  LET r == w.queue.nextRequestId
  IN  World(TransferShares(w.token, provider, Queue, shares),
            [w.queue EXCEPT !.nextRequestId = r + 1,
                            !.requests[r] = NewRequest(w, requester, shares, delay),
                            !.requestsByOwner[requester] = @ \cup {r},
                            !.pendingRequests = @ \cup {r},
                            !.pendingRequestsQueue = Append(@, r)])

CanClaim(q, caller, r) ==
  LET req == q.requests[r]
  IN  /\ req.requester # NoAddress /\ req.requester = caller
      /\ r \in q.fulfilledRequests
      /\ now < req.expirationTime
      /\ req.allocatedFunds # 0
      /\ q.balance >= req.allocatedFunds

(* Mutant: the AVAX is sent and the request is kept *)
ClaimAgain(q, r) == [q EXCEPT !.balance = @ - q.requests[r].allocatedFunds]

Claim(q, r) == [DropFulfilled(q, r) EXCEPT !.balance = @ - q.requests[r].allocatedFunds]

(* The AVAX set aside for a request goes back to the vault, and the shares *)
(* it buys to the requester.                                               *)
CanBuyBack(w, r) ==
  LET amount == w.queue.requests[r].allocatedFunds
  IN  CanDepositAVAX(w.token, amount) /\ w.queue.balance >= amount

BuyBack(w, r) ==
  LET req == w.queue.requests[r]
      deposited == DepositAVAX(w.token, Queue, req.allocatedFunds)
  IN  World(TransferShares(deposited, Queue, req.requester,
                           ConvertToShares(w.token, req.allocatedFunds)),
            [DropFulfilled(w.queue, r) EXCEPT !.balance = @ - req.allocatedFunds])

-----------------------------------------------------------------------------
(* cancelRequest *)

(* A pending request gets the shares its AVAX is worth now; the rest burn. *)
SharesToReturn(w, r) == ConvertToShares(w.token, w.queue.requests[r].expectedAssets)
SharesToBurn(w, r) == w.queue.requests[r].shares - SharesToReturn(w, r)

AfterBurn(w, r) ==
  IF SharesToBurn(w, r) > 0
  THEN DonateYield(w.token, Queue, SharesToBurn(w, r)) ELSE w.token

CanCancelPending(w, r) ==
  /\ r \in w.queue.pendingRequests
  /\ Priced(w.token)
  /\ SharesToBurn(w, r) > 0 => CanDonateYield(w.token, Queue, SharesToBurn(w, r))
  /\ CanTransfer(AfterBurn(w, r), Queue, SharesToReturn(w, r))

(* Mutant: all the shares are returned, those that burn included *)
CancelPendingInFull(w, r) ==
  World(TransferShares(AfterBurn(w, r), Queue, w.queue.requests[r].requester,
                       w.queue.requests[r].shares),
        DropPending(w.queue, r))

CancelPending(w, r) ==
  World(TransferShares(AfterBurn(w, r), Queue, w.queue.requests[r].requester,
                       SharesToReturn(w, r)),
        DropPending(w.queue, r))

CanCancelFulfilled(w, r) ==
  /\ r \in w.queue.fulfilledRequests
  /\ now < w.queue.requests[r].claimableTime
  /\ CanBuyBack(w, r)

CanCancel(w, caller, r) ==
  /\ w.queue.requests[r].requester # NoAddress
  /\ w.queue.requests[r].requester = caller
  /\ CanCancelPending(w, r) \/ CanCancelFulfilled(w, r)

Cancel(w, r) ==
  IF r \in w.queue.pendingRequests THEN CancelPending(w, r) ELSE BuyBack(w, r)

-----------------------------------------------------------------------------
(* reclaimExpiredRequest *)

Expired(q, r) == now >= q.requests[r].expirationTime

CanReclaim(w, r) ==
  /\ w.queue.requests[r].requester # NoAddress
  /\ Expired(w.queue, r)
  /\ \/ /\ r \in w.queue.fulfilledRequests
        /\ w.queue.requests[r].allocatedFunds # 0
        /\ CanBuyBack(w, r)
     \/ /\ r \in w.queue.pendingRequests
        /\ CanTransfer(w.token, Queue, w.queue.requests[r].shares)

Reclaim(w, r) ==
  IF r \in w.queue.fulfilledRequests THEN BuyBack(w, r)
  ELSE World(TransferShares(w.token, Queue, w.queue.requests[r].requester,
                            w.queue.requests[r].shares),
             DropPending(w.queue, r))

-----------------------------------------------------------------------------
(* depositFromStaking *)

(* _getGGAVAXAvailableAssets *)
Available(t) ==
  IF TotalAssets(t) > t.stakingTotalAssets THEN TotalAssets(t) - t.stakingTotalAssets ELSE 0

(* What redeemAVAX of the shares of request r returns *)
Redeemed(w, r) == ConvertToAssets(w.token, w.queue.requests[r].shares)

(* redeemAVAX reverts with InsufficientLiquidity *)
Illiquid(w, r) == Redeemed(w, r) # 0 /\ w.token.wavax < Redeemed(w, r)

(* Mutant: the request is given all that its shares are worth by now *)
FulfilInFull(w, r) ==
  World(RedeemAVAX(w.token, Queue, w.queue.requests[r].shares),
        [w.queue EXCEPT !.balance = @ + Redeemed(w, r),
                        !.totalAllocatedFunds = @ + Redeemed(w, r),
                        !.requests[r].allocatedFunds = Redeemed(w, r),
                        !.pendingRequests = @ \ {r},
                        !.pendingRequestsQueue = Tail(@),
                        !.fulfilledRequests = @ \cup {r}])

Fulfil(w, r) ==
  LET expected == w.queue.requests[r].expectedAssets
  IN  World(RedeemAVAX(w.token, Queue, w.queue.requests[r].shares),
            [w.queue EXCEPT !.balance = @ + Redeemed(w, r),
                            !.totalAllocatedFunds = @ + expected,
                            !.requests[r].allocatedFunds = expected,
                            !.pendingRequests = @ \ {r},
                            !.pendingRequestsQueue = Tail(@),
                            !.fulfilledRequests = @ \cup {r}])

(* Mutant: the AVAX set aside for requests counts as stuck *)
StuckWithAllocated(q) == q.balance

(* rescueStuckAVAX *)
Stuck(q) == q.balance - q.totalAllocatedFunds

CanRescueStuck(w, base, reward) ==
  /\ base + reward = Stuck(w.queue) /\ Stuck(w.queue) >= 0
  /\ Stuck(w.queue) > 0 => CanDepositFromStaking(w.token, base)

RescueStuck(w, base, reward, bips) ==
  IF Stuck(w.queue) = 0 THEN w
  ELSE World(DepositFromStaking(w.token, base, reward, bips),
             [w.queue EXCEPT !.balance = @ - base - reward])

-----------------------------------------------------------------------------
(* Transactions without a loop *)

(* No other transaction is under way, and this one is over with the step *)
InOneStep == tx = Idle /\ UNCHANGED <<now, tx>>

Becomes(w) == token' = w.token /\ queue' = w.queue

Requested(r, w) ==
  ledger' = [ledger EXCEPT !.promised[r] = w.queue.requests[r].expectedAssets]

RequestUnstakeTx(caller, shares, delay) ==
  /\ queue.nextRequestId < MaxRequests
  /\ CanRequestUnstake(TheWorld, caller, shares, delay)
  /\ LET w == RequestUnstake(TheWorld, caller, caller, shares, delay)
     IN  Becomes(w) /\ Requested(queue.nextRequestId, w)
  /\ InOneStep

RequestUnstakeOnBehalfOfTx(caller, requester, shares, delay) ==
  /\ queue.nextRequestId < MaxRequests
  /\ shares >= queue.minUnstakeOnBehalfOfAmt
  /\ CanRequestUnstake(TheWorld, caller, shares, delay)
  /\ LET w == RequestUnstake(TheWorld, caller, requester, shares, delay)
     IN  Becomes(w) /\ Requested(queue.nextRequestId, w)
  /\ InOneStep

(* The AVAX is sent last, so what its receiver does is a later transaction *)
ClaimUnstakeTx(caller, r) ==
  /\ CanClaim(queue, caller, r)
  /\ queue' = Claim(queue, r)
  /\ ledger' = [ledger EXCEPT !.paid[r] = @ + queue.requests[r].allocatedFunds]
  /\ UNCHANGED token /\ InOneStep

CancelRequestTx(caller, r) ==
  /\ CanCancel(TheWorld, caller, r)
  /\ Becomes(Cancel(TheWorld, r))
  /\ UNCHANGED ledger /\ InOneStep

ReclaimExpiredRequestTx(r) ==
  /\ CanReclaim(TheWorld, r)
  /\ Becomes(Reclaim(TheWorld, r))
  /\ UNCHANGED ledger /\ InOneStep

(* Not a view: it drops the head of the deque if it is no longer pending *)
GetNextPendingRequestAmountTx ==
  /\ queue.pendingRequests # {}
  /\ Head(queue.pendingRequestsQueue) \notin queue.pendingRequests
  /\ queue' = [queue EXCEPT !.pendingRequestsQueue = Tail(@)]
  /\ UNCHANGED <<token, ledger>> /\ InOneStep

RescueStuckAVAXTx(base, reward, bips) ==
  /\ Fits(reward)
  /\ CanRescueStuck(TheWorld, base, reward)
  /\ Becomes(RescueStuck(TheWorld, base, reward, bips))
  /\ UNCHANGED ledger /\ InOneStep

SetMaxRequestsPerStakingDepositTx(limit) ==
  /\ queue' = [queue EXCEPT !.maxRequestsPerStakingDeposit = limit]
  /\ UNCHANGED <<token, ledger>> /\ InOneStep

SetMinUnstakeOnBehalfOfAmtTx(shares) ==
  /\ queue' = [queue EXCEPT !.minUnstakeOnBehalfOfAmt = shares]
  /\ UNCHANGED <<token, ledger>> /\ InOneStep

SetUnstakeDelayTx(delay) ==
  /\ queue' = [queue EXCEPT !.unstakeDelay = delay]
  /\ UNCHANGED <<token, ledger>> /\ InOneStep

SetMaxExpirationDelayTx(delay) ==
  /\ delay >= MinExpirationDelay
  /\ queue' = [queue EXCEPT !.maxExpirationDelay = delay]
  /\ UNCHANGED <<token, ledger>> /\ InOneStep

(* pause and unpause *)
SetQueuePausedTx(b) ==
  /\ queue' = [queue EXCEPT !.paused = b]
  /\ UNCHANGED <<token, ledger>> /\ InOneStep

-----------------------------------------------------------------------------
(* Transactions with a loop *)

(* Until the end of the loop, only the copy changes *)
OnTheCopy == UNCHANGED <<now, token, queue, ledger>>

Begin(op, t, owner, left, bips) ==
  /\ tx = Idle
  /\ tx' = [op |-> op, token |-> t, queue |-> queue, owner |-> owner, left |-> left,
            avail |-> Available(t), excess |-> 0, bips |-> bips]
  /\ OnTheCopy

Continue(w) ==
  /\ tx' = [tx EXCEPT !.token = w.token, !.queue = w.queue, !.left = @ - 1]
  /\ OnTheCopy

Commit(w) == Becomes(w) /\ tx' = Idle /\ UNCHANGED <<now, ledger>>

Revert == tx' = Idle /\ OnTheCopy

(* depositFromStaking: all the AVAX goes to the vault, then requests are   *)
(* taken from the front of the deque while the vault can pay for them.     *)
BeginDepositFromStaking(base, reward, bips) ==
  /\ Fits(reward)
  /\ base + reward > 0 => CanDepositFromStaking(token, base)
  /\ Begin("fulfil", DepositFromStaking(token, base, reward, bips), NoAddress,
           queue.maxRequestsPerStakingDeposit, bips)

Looping == tx.queue.pendingRequests # {} /\ tx.left > 0
Front == Head(tx.queue.pendingRequestsQueue)
FrontIsPending == Front \in tx.queue.pendingRequests
Expected == tx.queue.requests[Front].expectedAssets

(* Mutant: the stale entry is skipped and stays in the deque *)
SkipFront ==
  /\ Running("fulfil") /\ Looping
  /\ ~FrontIsPending
  /\ Continue(Copy)

(* The front of the deque has been cancelled or reclaimed since *)
CleanFront ==
  /\ Running("fulfil") /\ Looping
  /\ ~FrontIsPending
  /\ Continue(World(tx.token, [tx.queue EXCEPT !.pendingRequestsQueue = Tail(@)]))

(* Mutant: a request for all that is available is not served *)
OutOfLiquidityAtLimit ==
  \/ tx.avail <= Expected
  \/ Illiquid(Copy, Front)

OutOfLiquidity ==
  \/ tx.avail < Expected
  \/ Illiquid(Copy, Front)

CanFulfil ==
  /\ CanRedeemAVAX(tx.token, Queue, tx.queue.requests[Front].shares)
  /\ Redeemed(Copy, Front) >= Expected
  /\ tx.avail >= Redeemed(Copy, Front)

FulfilFront ==
  /\ Running("fulfil") /\ Looping
  /\ FrontIsPending
  /\ ~OutOfLiquidity
  /\ CanFulfil
  /\ LET w == Fulfil(Copy, Front)
     IN  tx' = [tx EXCEPT !.token = w.token, !.queue = w.queue, !.left = @ - 1,
                          !.avail = @ - Redeemed(Copy, Front),
                          !.excess = @ + Redeemed(Copy, Front) - Expected]
  /\ OnTheCopy

(* What the requests were worth beyond what they were promised is yield *)
EndDepositFromStaking ==
  /\ Running("fulfil")
  /\ Looping => FrontIsPending /\ OutOfLiquidity
  /\ Commit(World(DepositYield(tx.token, tx.excess, tx.bips),
                  [tx.queue EXCEPT !.balance = @ - tx.excess]))

(* Any other error of redeemAVAX, an amount below the expected one and a   *)
(* checked subtraction below 0 revert the call, the deposit included.      *)
RevertDepositFromStaking ==
  /\ Running("fulfil") /\ Looping
  /\ FrontIsPending
  /\ ~OutOfLiquidity
  /\ ~CanFulfil
  /\ Revert

(* cancelRequests: the requests of the caller, pending or fulfilled.  The  *)
(* order in which an EnumerableSet lists its ids is left open, and a call  *)
(* that finds nothing to do changes nothing and is no step.                *)
BatchLeft(size, all) == IF size = 0 THEN all ELSE size

Cancellable(q, owner) ==
  q.requestsByOwner[owner] \cap (q.pendingRequests \cup q.fulfilledRequests)

BeginCancelRequests(caller, size) ==
  /\ Cancellable(queue, caller) # {}
  /\ Begin("cancel", token, caller,
           BatchLeft(size, Cardinality(queue.requestsByOwner[caller])), 0)

CancelNext(r) ==
  /\ Running("cancel") /\ tx.left > 0
  /\ r \in Cancellable(tx.queue, tx.owner)
  /\ IF CanCancel(Copy, tx.owner, r) THEN Continue(Cancel(Copy, r)) ELSE Revert

EndCancelRequests ==
  /\ Running("cancel")
  /\ tx.left = 0 \/ Cancellable(tx.queue, tx.owner) = {}
  /\ Commit(Copy)

(* reclaimExpiredFunds: the expired requests, the fulfilled ones first *)
Reclaimable(q) ==
  LET fulfilled == {r \in q.fulfilledRequests : Expired(q, r)}
      pending == {r \in q.pendingRequests : Expired(q, r)}
  IN  IF fulfilled # {} THEN fulfilled ELSE pending

BeginReclaimExpiredFunds(size) ==
  /\ Reclaimable(queue) # {}
  /\ Begin("reclaim", token, NoAddress,
           BatchLeft(size, Cardinality(queue.fulfilledRequests)
                             + Cardinality(queue.pendingRequests)), 0)

ReclaimNext(r) ==
  /\ Running("reclaim") /\ tx.left > 0
  /\ r \in Reclaimable(tx.queue)
  /\ IF CanReclaim(Copy, r) THEN Continue(Reclaim(Copy, r)) ELSE Revert

EndReclaimExpiredFunds ==
  /\ Running("reclaim")
  /\ tx.left = 0 \/ Reclaimable(tx.queue) = {}
  /\ Commit(Copy)

-----------------------------------------------------------------------------
Ledger == [promised : [Ids -> Nat], paid : [Ids -> Nat]]

(* The state initialize leaves, with the vault as initialize leaves it *)
QueueInit ==
  /\ TokenInit
  /\ tx = Idle
  /\ ledger = [promised |-> [r \in Ids |-> 0], paid |-> [r \in Ids |-> 0]]
  /\ \E unstake \in UnstakeDelays, expiration \in ExpirationDelays,
       limit \in RequestLimits, amount \in OnBehalfAmounts, stuck \in StuckAVAX :
       queue = [balance |-> stuck, totalAllocatedFunds |-> 0, nextRequestId |-> 0,
                requests |-> [r \in Ids |-> NoRequest],
                pendingRequests |-> {}, fulfilledRequests |-> {},
                pendingRequestsQueue |-> <<>>,
                requestsByOwner |-> [a \in Owners |-> {}],
                unstakeDelay |-> unstake, maxExpirationDelay |-> expiration,
                maxRequestsPerStakingDeposit |-> limit,
                minUnstakeOnBehalfOfAmt |-> amount, paused |-> FALSE]

(* The contracts and address(0) sign no transaction *)
Callers == Accounts \ ({Self, Queue, NoAddress} \cup Contracts)

HolderQueueNext ==
  \/ \E a \in Callers, shares \in Amounts, delay \in ExpirationDelays :
       \/ RequestUnstakeTx(a, shares, delay)
       \/ \E b \in Requesters : RequestUnstakeOnBehalfOfTx(a, b, shares, delay)
  \/ \E a \in Callers, r \in Ids : ClaimUnstakeTx(a, r) \/ CancelRequestTx(a, r)
  \/ \E r \in Ids : ReclaimExpiredRequestTx(r)
  \/ \E a \in Callers, size \in BatchSizes : BeginCancelRequests(a, size)
  \/ \E size \in BatchSizes : BeginReclaimExpiredFunds(size)
  \/ GetNextPendingRequestAmountTx

(* What the accounts with DEPOSITOR_ROLE may do *)
DepositorNext ==
  \E bips \in FeeBips :
     \/ \E x, y \in Amounts \cup {0} : BeginDepositFromStaking(x, y, bips)
     \/ \E x, y \in Amounts \cup {0} : RescueStuckAVAXTx(x, y, bips)

AdminNext ==
  \/ \E n \in RequestLimits : SetMaxRequestsPerStakingDepositTx(n)
  \/ \E n \in OnBehalfAmounts : SetMinUnstakeOnBehalfOfAmtTx(n)
  \/ \E d \in UnstakeDelays : SetUnstakeDelayTx(d)
  \/ \E d \in ExpirationDelays : SetMaxExpirationDelayTx(d)
  \/ \E b \in Pauses : SetQueuePausedTx(b)

(* What the vault does for everybody else *)
QueueStands == tx = Idle /\ UNCHANGED <<queue, tx, ledger>>

VaultNext ==
  \/ HolderNext(Callers) /\ QueueStands
  \/ YieldNext /\ QueueStands
  \/ ProtocolNext /\ QueueStands
  \/ MinipoolsNext /\ QueueStands

LoopNext ==
  \/ CleanFront \/ FulfilFront \/ EndDepositFromStaking \/ RevertDepositFromStaking
  \/ \E r \in Ids : CancelNext(r) \/ ReclaimNext(r)
  \/ EndCancelRequests \/ EndReclaimExpiredFunds

QueueNext == HolderQueueNext \/ DepositorNext \/ AdminNext \/ VaultNext \/ LoopNext

QueueSpec == QueueInit /\ [][QueueNext]_queueVars

-----------------------------------------------------------------------------
(* Properties *)

(* The storages keep their shape: no subtraction of the queue goes below 0. *)
QueueTypeOK ==
  /\ TokenTypeOK
  /\ queue \in QueueStorage
  /\ tx \in Loops \cup {Idle}
  /\ ledger \in Ledger

(* The AVAX the queue holds covers what it has set aside, and the total is *)
(* what the requests that wait for a claim have been given: every path on  *)
(* which a request ends (claim, cancel, reclaim, one by one or in a batch) *)
(* gives its part back once.                                               *)
Allocated(q) ==
  SumFunctionOnSet([r \in Ids |-> q.requests[r].allocatedFunds], Ids)

AllocationsCovered ==
  /\ queue.totalAllocatedFunds = Allocated(queue)
  /\ queue.balance >= queue.totalAllocatedFunds

(* The queue holds the shares of every pending request: the shares one     *)
(* owner gets back on a cancellation are never those of another.           *)
SharesPending(q) ==
  SumFunctionOnSet([r \in Ids |-> IF r \in q.pendingRequests
                                  THEN q.requests[r].shares ELSE 0], Ids)

SharesHeld == token.balanceOf[Queue] >= SharesPending(queue)

(* The five structures that index the requests agree: an id is pending,    *)
(* fulfilled or deleted; it is listed for its requester alone; the deque   *)
(* has the pending ids in the order of the requests.                       *)
Increasing(s) == \A i, j \in DOMAIN s : i < j => s[i] < s[j]

Indexed ==
  /\ queue.pendingRequests \cap queue.fulfilledRequests = {}
  /\ \A r \in Ids :
       /\ queue.requests[r] # NoRequest
            <=> r \in queue.pendingRequests \cup queue.fulfilledRequests
       /\ \A a \in Owners :
            r \in queue.requestsByOwner[a]
              <=> queue.requests[r] # NoRequest /\ queue.requests[r].requester = a
  /\ queue.pendingRequests \subseteq Range(queue.pendingRequestsQueue)
  /\ Increasing(queue.pendingRequestsQueue)
  /\ \A r \in Range(queue.pendingRequestsQueue) : r < queue.nextRequestId

(* The shares of a pending request are still worth the AVAX it was         *)
(* promised, so that no redemption fails with InvalidRedemptionAmount, and *)
(* a cancellation never returns more shares than were locked.              *)
RedemptionNeverShort ==
  \A r \in queue.pendingRequests :
     /\ ConvertToAssets(token, queue.requests[r].shares) >= queue.requests[r].expectedAssets
     /\ ConvertToShares(token, queue.requests[r].expectedAssets) <= queue.requests[r].shares

(* What a request is given is what it was promised when it was made. *)
PromiseKept ==
  /\ \A r \in queue.fulfilledRequests :
       queue.requests[r].allocatedFunds = ledger.promised[r]
  /\ \A r \in Ids : ledger.paid[r] \in {0, ledger.promised[r]}

(* The queue as a promise to its users: see UnstakePromise. *)
Status(r) ==
  IF r >= queue.nextRequestId THEN "none"
  ELSE IF r \in queue.pendingRequests THEN "waiting"
  ELSE IF r \in queue.fulfilledRequests THEN "reserved"
  ELSE IF ledger.paid[r] > 0 THEN "paid" ELSE "returned"

Promise == INSTANCE UnstakePromise
             WITH status <- [r \in Ids |-> Status(r)],
                  promised <- ledger.promised,
                  paid <- ledger.paid,
                  reserve <- queue.totalAllocatedFunds

Implements == Promise!PromiseSpec

(* Whoever is at the front of the deque waits, and wants more than there is. *)
FirstWaiting == Head(queue.pendingRequestsQueue)

FrontUnpayable ==
  /\ FirstWaiting \in queue.pendingRequests
  /\ Available(token) < Redeemed(TheWorld, FirstWaiting)

(* What a deposit leaves: it took entries off the front of the deque, no   *)
(* more than its limit; if it stopped before that with requests left, the  *)
(* first of them is one the vault cannot pay for.                          *)
ServesFront ==
  LET before == queue.pendingRequestsQueue
      taken == Len(before) - Len(queue'.pendingRequestsQueue)
  IN  /\ taken \in 0 .. queue.maxRequestsPerStakingDeposit
      /\ queue'.pendingRequestsQueue = SubSeq(before, taken + 1, Len(before))
      /\ \/ taken = queue.maxRequestsPerStakingDeposit
         \/ queue'.pendingRequests = {}
         \/ FrontUnpayable'

(* depositFromStaking does as much as it may: it stops neither at a stale  *)
(* entry nor at a request it could pay, and the count it keeps of what is  *)
(* available, iteration by iteration, is what the vault has.               *)
DepositServesFront == [][EndDepositFromStaking => ServesFront]_queueVars

(* A deposit finds that it cannot pay the request at the front. *)
Refused ==
  /\ Running("fulfil") /\ Looping
  /\ FrontIsPending
  /\ OutOfLiquidity \/ ~CanFulfil

(* Fairness is the network's alone: it runs a transaction to its end. *)
QueueFairSpec == QueueSpec /\ WF_queueVars(LoopNext)

(* While AVAX keeps coming back from staking nobody waits forever behind   *)
(* requests that were cancelled or expired: one that waits is served, or   *)
(* ends otherwise, unless a deposit finds that it cannot pay the request   *)
(* at the front, or the limit is 0.                                        *)
WaitsOnlyForLiquidity ==
  \A r \in Ids :
     []<>Running("fulfil") =>
        (r \in queue.pendingRequests
           ~> \/ r \notin queue.pendingRequests
              \/ Refused
              \/ queue.maxRequestsPerStakingDeposit = 0)

-----------------------------------------------------------------------------
(* What the documentation says, and the code does not do *)

(* initialize documents unstakeDelay as how long users must wait before    *)
(* they can claim their AVAX.                                              *)
ClaimWaitsForDelay ==
  [][ \A r \in Ids : ledger'.paid[r] # ledger.paid[r]
        => now >= queue.requests[r].claimableTime ]_queueVars

(* depositFromStaking deposits all the AVAX first, so that funds are       *)
(* always deposited, and stops at a request there is no liquidity for.     *)
DepositNeverReverts ==
  [][ ~RevertDepositFromStaking ]_queueVars

(* reclaimExpiredRequest is there for the funds of any expired request.    *)
ExpiredIsReclaimable ==
  ~token.paused =>
     \A r \in queue.fulfilledRequests :
        Expired(queue, r) /\ ConvertToShares(token, queue.requests[r].allocatedFunds) > 0
          => CanReclaim(TheWorld, r)
=============================================================================
