------------------------------ MODULE Staking ------------------------------
(***************************************************************************)
(* Staking, the records of the stakers: the GGP each has bonded, how much  *)
(* AVAX the minipools of each have staked, been assigned and put to        *)
(* validation, and its place in the rewards program.  An operator maps the *)
(* record of one staker to its next; the contract that calls it            *)
(* (MinipoolManager, ClaimNodeOp) puts it back.                            *)
(***************************************************************************)
EXTENDS ShareMath

CONSTANTS MinCollateralizationRatio, MaxCollateralizationRatio   \* parts of Ether

Staker == [
  exists : BOOLEAN,                \* staker.index is set: has staked GGP once
  ggpStaked : Nat,
  avaxStaked : Nat,                \* by the operator, in all its minipools
  avaxAssigned : Nat,              \* by the liquid stakers, to its minipools
  avaxValidating : Nat,            \* the part of it that validates
  avaxValidatingHighWater : Nat,   \* the most of it in this rewards cycle
  rewardsStartTime : Nat,          \* 0: not in the rewards program
  ggpLockedUntil : Nat,
  ggpRewards : Nat,
  lastRewardsCycleCompleted : Nat]

NoStaker == [exists |-> FALSE, ggpStaked |-> 0, avaxStaked |-> 0, avaxAssigned |-> 0,
             avaxValidating |-> 0, avaxValidatingHighWater |-> 0,
             rewardsStartTime |-> 0, ggpLockedUntil |-> 0, ggpRewards |-> 0,
             lastRewardsCycleCompleted |-> 0]

IncreaseAVAXStake(s, amount) == [s EXCEPT !.avaxStaked = @ + amount]
DecreaseAVAXStake(s, amount) == [s EXCEPT !.avaxStaked = @ - amount]
IncreaseAVAXAssigned(s, amount) == [s EXCEPT !.avaxAssigned = @ + amount]
DecreaseAVAXAssigned(s, amount) == [s EXCEPT !.avaxAssigned = @ - amount]
DecreaseAVAXValidating(s, amount) == [s EXCEPT !.avaxValidating = @ - amount]

(* increaseAVAXValidating, and the high water mark its only caller raises *)
IncreaseAVAXValidating(s, amount) ==
  LET validating == s.avaxValidating + amount
  IN  [s EXCEPT !.avaxValidating = validating,
                !.avaxValidatingHighWater = IF @ < validating THEN validating ELSE @]

GGPStakedInAVAX(s, price) == MulWadDown(s.ggpStaked, price)

(* getCollateralizationRatio(s) >= ratio; without AVAX assigned it is infinite *)
IsCollateralized(s, price, ratio) ==
  s.avaxAssigned # 0 => DivWadDown(GGPStakedInAVAX(s, price), s.avaxAssigned) >= ratio

(* _stakeGGP: the first stake creates the record *)
StakeGGP(s, amount) == [s EXCEPT !.exists = TRUE, !.ggpStaked = @ + amount]
LockGGP(s, until) == [s EXCEPT !.ggpLockedUntil = until]

(* slashGGP, and the first half of withdrawGGP *)
DecreaseGGPStake(s, amount) == [s EXCEPT !.ggpStaked = @ - amount]

CanWithdrawGGP(s, amount, price, time) ==
  /\ s.exists /\ amount <= s.ggpStaked
  /\ s.ggpLockedUntil <= time
  /\ IsCollateralized(DecreaseGGPStake(s, amount), price, MaxCollateralizationRatio)

-----------------------------------------------------------------------------
(* What the GGP of a staker counts for in a rewards cycle *)

Tenth == Ether \div 10   \* TENTH

EffectiveRewardsRatio(s, price) ==
  IF s.avaxValidatingHighWater = 0 \/ ~IsCollateralized(s, price, Tenth)
  THEN 0
  ELSE LET ratio == DivWadDown(GGPStakedInAVAX(s, price), s.avaxValidatingHighWater)
       IN  IF ratio > MaxCollateralizationRatio THEN MaxCollateralizationRatio ELSE ratio

EffectiveGGPStaked(s, price) ==
  DivWadDown(MulWadDown(s.avaxValidatingHighWater, EffectiveRewardsRatio(s, price)), price)

-----------------------------------------------------------------------------
(* What the handlers of MinipoolManager make of the record of an owner *)

(* One more minipool *)
StakerAfterCreate(s, amount, time) ==
  [IncreaseAVAXAssigned(IncreaseAVAXStake(s, amount), amount)
     EXCEPT !.rewardsStartTime = IF @ = 0 THEN time ELSE @]

(* Mutant: the other minipools of the owner are not looked at *)
StakerAfterCancelAlone(s, staked, assigned) ==
  LET left == DecreaseAVAXAssigned(DecreaseAVAXStake(s, staked), assigned)
  IN  [left EXCEPT !.rewardsStartTime = IF left.avaxValidatingHighWater = 0 THEN 0 ELSE @]

(* One minipool less, that never started *)
StakerAfterCancel(s, staked, assigned) ==
  LET left == DecreaseAVAXAssigned(DecreaseAVAXStake(s, staked), assigned)
  IN  [left EXCEPT !.rewardsStartTime =
         IF left.avaxValidatingHighWater = 0 /\ left.avaxAssigned = 0 THEN 0 ELSE @]

(* A validation that has ended *)
StakerAfterEnd(s, assigned, slashed) ==
  DecreaseAVAXValidating(
    DecreaseAVAXAssigned(DecreaseGGPStake(s, slashed), assigned), assigned)

(* Mutant: an error also gives back what never validated *)
StakerAfterErrorAsEnd(s, assigned) == StakerAfterEnd(s, assigned, 0)

(* A launch that failed *)
StakerAfterError(s, assigned) == DecreaseAVAXAssigned(s, assigned)

(* The next cycle, with what is added to the stake *)
StakerAfterRecreate(s, added, assigned) ==
  IncreaseAVAXAssigned(IncreaseAVAXStake(s, added), assigned)
=============================================================================
