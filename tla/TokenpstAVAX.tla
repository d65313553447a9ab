---------------------------- MODULE TokenpstAVAX ----------------------------
(***************************************************************************)
(* TokenpstAVAX, a token of the principal: a deposit of AVAX mints as many *)
(* pstAVAX, its ggAVAX stay with the contract, and what these earn is      *)
(* stripped: burnt for the other holders of ggAVAX, less a fee.  A         *)
(* withdrawal pays ggAVAX for the principal, or requests their AVAX from   *)
(* WithdrawQueue.                                                          *)
(*                                                                         *)
(* The contract holds shares of the vault and calls the queue, so the      *)
(* module extends both: all that anybody does there happens here too.      *)
(***************************************************************************)
EXTENDS WithdrawQueue

CONSTANTS
  Pst,              \* the address of the contract
  PstHolders,       \* who may hold pstAVAX
  PstAmounts,       \* the amounts callers use
  StripFees,        \* the values of stripYieldFeeBips
  FeeRecipients,    \* the values of stripYieldFeeRecipient
  PstPauses         \* what the owner sets the pause to

ASSUME PstConstants ==
  /\ Pst \in Contracts
  /\ IsFiniteSet(PstHolders) /\ PstHolders \subseteq Accounts \ {Self, Queue, Pst}
  /\ PstAmounts \subseteq Nat \ {0} /\ StripFees \subseteq 0..Bips
  /\ FeeRecipients \subseteq Owners
  /\ PstPauses \subseteq BOOLEAN

VARIABLES
  pst,           \* the storage of TokenpstAVAX
  unstripped     \* history: how many deposits were made since shares were last stripped

pstVars == <<now, token, queue, tx, ledger, pst, unstripped>>

PstStorage == [
  totalSupply : Nat,
  balanceOf : [PstHolders -> Nat],
  stripYieldFeeBips : 0..Bips,
  stripYieldFeeRecipient : Owners,
  paused : BOOLEAN]

VaultShares(t) == t.balanceOf[Pst]

(* The principal is covered: at the price of now, the shares are worth it *)
Covers(t, shares, principal) == shares * TotalAssets(t) >= principal * t.totalSupply

-----------------------------------------------------------------------------
(* getExcessShares *)

FeeTaken(p) == p.stripYieldFeeBips > 0 /\ p.stripYieldFeeRecipient # NoAddress

(* Mutant: the shares that pay the fee are reckoned to burn as well *)
KeptBipsWhole(p) == Bips

(* The part of the excess that is burnt *)
KeptBips(p) == IF FeeTaken(p) THEN Bips - p.stripYieldFeeBips ELSE Bips

(* Mutant: the price is taken to stay what it is *)
TotalExcessInPlace(t, p) ==
  IF p.totalSupply = 0 THEN VaultShares(t)
  ELSE IF TotalAssets(t) <= p.totalSupply \/ ~Covers(t, VaultShares(t), p.totalSupply) THEN 0
  ELSE (VaultShares(t) * TotalAssets(t) - p.totalSupply * t.totalSupply) \div TotalAssets(t)

(* As many shares as can go so that the rest, at the price their burning   *)
(* leads to, is worth the principal                                        *)
TotalExcess(t, p) ==
  IF p.totalSupply = 0 THEN VaultShares(t)
  ELSE IF TotalAssets(t) <= p.totalSupply \/ ~Covers(t, VaultShares(t), p.totalSupply) THEN 0
  ELSE (VaultShares(t) * TotalAssets(t) - p.totalSupply * t.totalSupply)
         \div (TotalAssets(t) - MulDivDown(p.totalSupply, KeptBips(p), Bips))

FeeShares(t, p) ==
  IF p.totalSupply = 0 \/ ~FeeTaken(p) THEN 0
  ELSE MulDivDown(TotalExcess(t, p), p.stripYieldFeeBips, Bips)

BurnShare(t, p) == TotalExcess(t, p) - FeeShares(t, p)

Strips(t, p) == TotalExcess(t, p) > 0

(* stripYield *)
StripYield(t, p) ==
  LET burnt == IF BurnShare(t, p) > 0 THEN DonateYield(t, Pst, BurnShare(t, p)) ELSE t
  IN  IF FeeShares(t, p) > 0
      THEN TransferShares(burnt, Pst, p.stripYieldFeeRecipient, FeeShares(t, p)) ELSE burnt

-----------------------------------------------------------------------------
(* Deposits and withdrawals *)

MintPst(p, to, amount) ==
  [p EXCEPT !.totalSupply = @ + amount, !.balanceOf[to] = @ + amount]

BurnPst(p, from, amount) ==
  [p EXCEPT !.totalSupply = @ - amount, !.balanceOf[from] = @ - amount]

(* _deposit mints before it strips, so that what comes in counts as        *)
(* principal before its shares are there.                                  *)
VaultBeforeDeposit(t, p, to, assets) == StripYield(t, MintPst(p, to, assets))

CanDepositPst(t, p, to, assets) ==
  /\ ~p.paused
  /\ CanDepositAVAX(VaultBeforeDeposit(t, p, to, assets), assets)

DepositPst(t, p, to, assets) == DepositAVAX(VaultBeforeDeposit(t, p, to, assets), Pst, assets)

(* Mutant: the shares of a withdrawal are converted before the strip *)
SharesPaidBefore(t, p, assets) == ConvertToShares(t, assets)

SharesPaid(t, p, assets) == ConvertToShares(StripYield(t, p), assets)

(* Mutant: the balance of the caller is not looked at *)
CanWithdrawPstUnchecked(t, p, o, assets) ==
  ~p.paused /\ CanTransfer(StripYield(t, p), Pst, SharesPaid(t, p, assets))

CanWithdrawPst(t, p, o, assets) ==
  /\ ~p.paused
  /\ p.balanceOf[o] >= assets
  /\ CanTransfer(StripYield(t, p), Pst, SharesPaid(t, p, assets))

WithdrawPst(t, p, o, assets) ==
  TransferShares(StripYield(t, p), Pst, o, SharesPaid(t, p, assets))

-----------------------------------------------------------------------------
(* Transactions *)

(* deposit and depositAVAX *)
DepositPstTx(o, assets) ==
  /\ Fits(assets)
  /\ CanDepositPst(token, pst, o, assets)
  /\ token' = DepositPst(token, pst, o, assets)
  /\ pst' = MintPst(pst, o, assets)
  /\ unstripped' = IF Strips(token, pst') THEN 0 ELSE unstripped + 1
  /\ UNCHANGED <<queue, ledger>> /\ InOneStep

WithdrawPstTx(o, assets) ==
  /\ CanWithdrawPst(token, pst, o, assets)
  /\ token' = WithdrawPst(token, pst, o, assets)
  /\ pst' = BurnPst(pst, o, assets)
  /\ unstripped' = IF Strips(token, pst) THEN 0 ELSE unstripped
  /\ UNCHANGED <<queue, ledger>> /\ InOneStep

(* withdrawViaQueue: the queue takes the shares from the contract *)
WithdrawViaQueueTx(o, assets, delay) ==
  LET before == World(StripYield(token, pst), queue)
      shares == SharesPaid(token, pst, assets)
      after == RequestUnstake(before, Pst, o, shares, delay)
  IN  /\ queue.nextRequestId < MaxRequests
      /\ CanWithdrawPst(token, pst, o, assets)
      /\ shares >= queue.minUnstakeOnBehalfOfAmt
      /\ CanRequestUnstake(before, Pst, shares, delay)
      /\ Becomes(after) /\ Requested(queue.nextRequestId, after)
      /\ pst' = BurnPst(pst, o, assets)
      /\ unstripped' = IF Strips(token, pst) THEN 0 ELSE unstripped
      /\ InOneStep

StripYieldTx ==
  /\ ~pst.paused
  /\ Strips(token, pst)
  /\ token' = StripYield(token, pst)
  /\ unstripped' = 0
  /\ UNCHANGED <<queue, ledger, pst>> /\ InOneStep

TransferPstTx(from, to, amount) ==
  /\ pst.balanceOf[from] >= amount
  /\ pst' = [pst EXCEPT !.balanceOf = Move(@, from, to, amount)]
  /\ UNCHANGED <<token, queue, ledger, unstripped>> /\ InOneStep

SetStripYieldFeeBipsTx(bips) ==
  /\ bips > 0 => pst.stripYieldFeeRecipient # NoAddress
  /\ pst' = [pst EXCEPT !.stripYieldFeeBips = bips]
  /\ UNCHANGED <<token, queue, ledger, unstripped>> /\ InOneStep

SetStripYieldFeeRecipientTx(a) ==
  /\ pst.stripYieldFeeBips > 0 => a # NoAddress
  /\ pst' = [pst EXCEPT !.stripYieldFeeRecipient = a]
  /\ UNCHANGED <<token, queue, ledger, unstripped>> /\ InOneStep

SetPstPausedTx(b) ==
  /\ pst' = [pst EXCEPT !.paused = b]
  /\ UNCHANGED <<token, queue, ledger, unstripped>> /\ InOneStep

-----------------------------------------------------------------------------
PstInit ==
  /\ QueueInit
  /\ pst = [totalSupply |-> 0, balanceOf |-> [o \in PstHolders |-> 0],
            stripYieldFeeBips |-> 0, stripYieldFeeRecipient |-> NoAddress, paused |-> FALSE]
  /\ unstripped = 0

PstHolderNext ==
  \E o \in PstHolders, x \in PstAmounts :
     \/ DepositPstTx(o, x)
     \/ WithdrawPstTx(o, x)
     \/ \E d \in ExpirationDelays : WithdrawViaQueueTx(o, x, d)
     \/ \E to \in PstHolders \ {o} : TransferPstTx(o, to, x)

PstOwnerNext ==
  \/ \E b \in StripFees : SetStripYieldFeeBipsTx(b)
  \/ \E a \in FeeRecipients : SetStripYieldFeeRecipientTx(a)
  \/ \E b \in PstPauses : SetPstPausedTx(b)

PstNext ==
  \/ QueueNext /\ UNCHANGED <<pst, unstripped>>
  \/ PstHolderNext \/ PstOwnerNext \/ StripYieldTx

PstSpec == PstInit /\ [][PstNext]_pstVars

-----------------------------------------------------------------------------
(* Properties *)

(* The storages keep their shape, and pstAVAX are what their holders have. *)
PstTypeOK ==
  /\ TokenTypeOK /\ pst \in PstStorage /\ unstripped \in Nat
  /\ pst.totalSupply = SumFunctionOnSet(pst.balanceOf, PstHolders)

(* The principal is never stripped: right after a strip, with any fee and  *)
(* wherever it is made, the shares of the contract are worth all pstAVAX   *)
(* at the price of now.  Each deposit since may have lost the part of one  *)
(* share to rounding; nothing else that anybody does takes from it.        *)
PrincipalCovered == Covers(token, VaultShares(token) + unstripped, pst.totalSupply)

(* When the principal is covered, every holder can take all of its own out *)
(* in one call, after the strip that this call makes.                      *)
HolderCanLeave ==
  Covers(token, VaultShares(token), pst.totalSupply) /\ ~pst.paused
    => \A o \in PstHolders : CanWithdrawPst(token, pst, o, pst.balanceOf[o])

(* Without a fee, one strip takes all there is to strip: a second one in   *)
(* the same block finds nothing, so nobody gains by calling it again.      *)
StripSettles == ~FeeTaken(pst) => TotalExcess(StripYield(token, pst), pst) = 0
=============================================================================
