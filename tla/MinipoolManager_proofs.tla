----------------------- MODULE MinipoolManager_proofs -----------------------
(***************************************************************************)
(* That MinipoolManager, with the Vault, Staking and ggAVAX behind it,     *)
(* keeps its books, for any number of nodes, owners and multisigs.         *)
(*                                                                         *)
(* What the properties say of sums over the minipools is not inductive as  *)
(* it stands: a handler subtracts what one minipool has from totals that   *)
(* are kept for its owner and for the whole, and trusts that they are in   *)
(* them.  NetOK says that each total is the sum of what the minipools add  *)
(* to it by their status, and what a minipool is in each status.  NodeStep *)
(* is the heart of the proof: when one minipool and the totals of its      *)
(* owner move by the same amounts, the sums still agree.  Each handler is  *)
(* then shown to move them so, and each transaction to be such a move.     *)
(*                                                                         *)
(* The last part is the refinement: every transaction is a step of         *)
(* NodeLedger, or none, by what it does to the account of one minipool.    *)
(***************************************************************************)
EXTENDS MinipoolManager, TokenggAVAX_proofs

(* The part of the assumptions on the constants that the proofs rest on. *)
LEMMA NetworkConstants ==
  /\ IsFiniteSet(NodeIDs) /\ IsFiniteSet(Owners) /\ NoOne \notin Owners \cup Multisigs
  /\ FirstMultisigs \in Seq(Multisigs)
  /\ Assignments \subseteq Nat \ {0} /\ Durations \subseteq Nat
  /\ Year \in Nat \ {0} /\ CommissionFee \in 0..Ether /\ ExpectedRewardsRate \in Nat
  /\ ValidationRewards \subseteq Nat /\ Delays \subseteq Nat
  /\ GGPPrices \subseteq Nat \ {0} /\ FirstPrice \in GGPPrices
  /\ GGPAmounts \subseteq Nat /\ Locks \subseteq Nat
  /\ PausedContracts \subseteq {"MinipoolManager", "RewardsPool", "Staking"}
  /\ StartTime \in Nat /\ StartTime > 0 /\ Ether \in Nat \ {0}
BY MinipoolConstants, TokenConstants

-----------------------------------------------------------------------------
(* Statuses *)

(* From where each handler moves a minipool. *)
LEMMA Moves ==
  ASSUME NEW mp, mp.status \in Statuses
  PROVE  /\ CanMove(mp, "Prelaunch") <=> mp.status \in {"NotFound", "Finished", "Canceled"}
         /\ CanMove(mp, "Launched") <=> mp.status = "Prelaunch"
         /\ CanMove(mp, "Canceled") <=> mp.status = "Prelaunch"
         /\ CanMove(mp, "Staking") <=> mp.status = "Launched"
         /\ CanMove(mp, "Error") <=> mp.status = "Launched"
         /\ CanMove(mp, "Withdrawable") <=> mp.status = "Staking"
         /\ CanMove(mp, "Finished") <=> mp.status \in {"Withdrawable", "Error"}
BY DEF CanMove, Transitions, Statuses

-----------------------------------------------------------------------------
(* The multisigs *)

MultisigsInv == multisigs \in Seq([addr : Multisigs, enabled : BOOLEAN])

(* The elements of a sequence are of its type. *)
LEMMA ElementOf ==
  ASSUME NEW R, NEW q \in Seq(R), NEW i \in DOMAIN q
  PROVE  q[i] \in R
<1>1. DOMAIN q = 1..Len(q)
  OBVIOUS
<1> QED BY <1>1

(* The multisig that is given a minipool is a registered one. *)
LEMMA NextMultisigOK ==
  ASSUME MultisigsInv, EnabledMultisigs # {}
  PROVE  NextActiveMultisig \in Multisigs
<1>1. EnabledIndexes # {} /\ EnabledIndexes \subseteq Nat
  BY DEF EnabledMultisigs, EnabledIndexes, MultisigsInv
<1>2. PICK i \in EnabledIndexes : \A j \in EnabledIndexes : ~ (<<j, i>> \in OpToRel(<, Nat))
  <2>1. IsWellFoundedOn(OpToRel(<, Nat), Nat)
    BY NatLessThanWellFounded
  <2> QED BY <1>1, <2>1, WFMin
<1>3. \A j \in EnabledIndexes : i <= j
  <2> SUFFICES ASSUME NEW j \in EnabledIndexes PROVE i <= j
    OBVIOUS
  <2>1. ~(j < i)
    BY <1>1, <1>2 DEF OpToRel
  <2> QED BY <1>1, <2>1
<1> DEFINE k == CHOOSE j \in EnabledIndexes : \A l \in EnabledIndexes : j <= l
<1>4. k \in EnabledIndexes
  BY <1>3
<1>5. NextActiveMultisig = multisigs[k].addr
  BY DEF NextActiveMultisig
<1> HIDE DEF k
<1>6. k \in DOMAIN multisigs
  BY <1>4 DEF EnabledIndexes
<1>7. multisigs[k] \in [addr : Multisigs, enabled : BOOLEAN]
  <2>1. multisigs \in Seq([addr : Multisigs, enabled : BOOLEAN])
    BY DEF MultisigsInv
  <2> DEFINE R == [addr : Multisigs, enabled : BOOLEAN]
  <2>2. multisigs \in Seq(R)
    BY <2>1
  <2> HIDE DEF R
  <2>3. multisigs[k] \in R
    BY <1>6, <2>2, ElementOf
  <2> QED BY <2>3 DEF R
<1> QED BY <1>5, <1>7

-----------------------------------------------------------------------------
(* Amounts *)

(* The liquid stakers get no more of a reward than the operator. *)
LEMMA RewardSplit ==
  ASSUME NEW r \in Nat
  PROVE  /\ LiquidReward(r) \in Nat /\ NodeOpReward(r) \in Nat
         /\ LiquidReward(r) <= NodeOpReward(r)
<1> DEFINE half == r \div 2
           m == MulDivDown(half, CommissionFee, Ether)
<1>1. half \in Nat /\ half <= r - half
  OBVIOUS
<1>2. CommissionFee \in Nat /\ CommissionFee <= Ether /\ Ether \in Nat \ {0}
  BY NetworkConstants
<1>3. LiquidReward(r) = half - m
  BY DEF LiquidReward, MulWadDown
<1> HIDE DEF half
<1>4. m \in Nat /\ m * Ether <= half * CommissionFee
  BY <1>1, <1>2, MulDivDownBounds
<1> HIDE DEF m
<1>5. half * CommissionFee <= half * Ether
  <2>1. CommissionFee * half <= Ether * half
    BY <1>1, <1>2, ProductMonotone
  <2> QED BY <1>1, <1>2, <2>1
<1>6. m * Ether <= half * Ether
  <2>1. m * Ether \in Int /\ half * Ether \in Int /\ half * CommissionFee \in Int
    BY <1>1, <1>2, <1>4
  <2> QED BY <1>4, <1>5, <2>1
<1>7. m <= half
  BY <1>1, <1>2, <1>4, <1>6, ProductCancel
<1> QED BY <1>1, <1>3, <1>4, <1>7 DEF NodeOpReward

(* A slash takes no more than there is. *)
LEMMA SlashBounds ==
  ASSUME NEW s, NEW mp, mp.avaxLiquidStakerAmt \in Nat, mp.startTime \in Nat,
         s.stakers[mp.owner].ggpStaked \in Nat, ggpPrice \in Nat \ {0},
         NEW e \in Nat, e > mp.startTime
  PROVE  /\ GGPSlashAmt(s, mp, e) \in Nat
         /\ GGPSlashAmt(s, mp, e) <= s.stakers[mp.owner].ggpStaked
<1> DEFINE w == MulWadDown(mp.avaxLiquidStakerAmt, ExpectedRewardsRate)
           t == e - mp.startTime
           p == w * t
           q == p \div Year
           g == DivWadDown(q, ggpPrice)
           k == s.stakers[mp.owner].ggpStaked
<1>1. ExpectedRewardsRate \in Nat /\ Ether \in Nat \ {0} /\ Year \in Nat \ {0}
  BY NetworkConstants
<1>2. w \in Nat
  BY <1>1, MulDivDownBounds DEF MulWadDown
<1>3. t \in Nat
  OBVIOUS
<1>4. GGPSlashAmt(s, mp, e) = IF k < g THEN k ELSE g
  BY DEF GGPSlashAmt
<1> HIDE DEF w, t
<1>5. p \in Nat
  BY <1>2, <1>3
<1> HIDE DEF p
<1>6. q \in Nat
  BY <1>1, <1>5, DivBounds
<1> HIDE DEF q
<1>7. g \in Nat
  BY <1>1, <1>6, MulDivDownBounds DEF DivWadDown
<1> HIDE DEF g
<1> QED BY <1>4, <1>7

-----------------------------------------------------------------------------
(* The records of the stakers *)

(* The record of a staker: the high water is not below what validates, and *)
(* it is in the rewards program as long as it has to be.                   *)
ClockOK(s) ==
  /\ s.avaxValidatingHighWater >= s.avaxValidating
  /\ s.avaxAssigned > 0 \/ s.avaxValidatingHighWater > 0 => s.rewardsStartTime > 0

(* The types of the fields of a record. *)
LEMMA StakerFields ==
  ASSUME NEW s \in Staking!Staker
  PROVE  /\ s.ggpStaked \in Nat /\ s.avaxStaked \in Nat /\ s.avaxAssigned \in Nat
         /\ s.avaxValidating \in Nat /\ s.avaxValidatingHighWater \in Nat
         /\ s.rewardsStartTime \in Nat /\ s.ggpLockedUntil \in Nat /\ s.exists \in BOOLEAN
BY DEF Staking!Staker

(* One more minipool. *)
LEMMA StakerCreateOK ==
  ASSUME NEW s \in Staking!Staker, ClockOK(s), NEW x \in Nat, NEW time \in Nat, time > 0
  PROVE  LET t == Staking!StakerAfterCreate(s, x, time)
         IN  /\ t \in Staking!Staker /\ ClockOK(t) /\ t.ggpStaked = s.ggpStaked
             /\ t.avaxStaked = s.avaxStaked + x /\ t.avaxAssigned = s.avaxAssigned + x
             /\ t.avaxValidating = s.avaxValidating
             /\ t.avaxValidatingHighWater = s.avaxValidatingHighWater
<1> DEFINE a == s.avaxStaked + x
           b == s.avaxAssigned + x
           r == IF s.rewardsStartTime = 0 THEN time ELSE s.rewardsStartTime
           t == [[[s EXCEPT !.avaxStaked = a] EXCEPT !.avaxAssigned = b] EXCEPT !.rewardsStartTime = r]
<1>1. a \in Nat /\ b \in Nat /\ r \in Nat
  BY DEF Staking!Staker, ClockOK
<1>2. t = Staking!StakerAfterCreate(s, x, time)
  BY DEF Staking!Staker, Staking!StakerAfterCreate,
       Staking!IncreaseAVAXStake, Staking!IncreaseAVAXAssigned
<1>3. t \in Staking!Staker
  <2> HIDE DEF a, b, r
  <2> QED BY <1>1 DEF Staking!Staker
<1>4. /\ t.ggpStaked = s.ggpStaked /\ t.avaxStaked = a /\ t.avaxAssigned = b
      /\ t.avaxValidating = s.avaxValidating
      /\ t.avaxValidatingHighWater = s.avaxValidatingHighWater
      /\ t.rewardsStartTime = r
  <2> HIDE DEF a, b, r
  <2> QED BY <1>1 DEF Staking!Staker
<1> HIDE DEF t
<1>5. ClockOK(t)
  BY <1>1, <1>4 DEF ClockOK, Staking!Staker
<1> QED BY <1>2, <1>3, <1>4, <1>5

(* One minipool less. *)
LEMMA StakerCancelOK ==
  ASSUME NEW s \in Staking!Staker, ClockOK(s), NEW x \in Nat, x <= s.avaxStaked,
         NEW y \in Nat, y <= s.avaxAssigned
  PROVE  LET t == Staking!StakerAfterCancel(s, x, y)
         IN  /\ t \in Staking!Staker /\ ClockOK(t) /\ t.ggpStaked = s.ggpStaked
             /\ t.avaxStaked = s.avaxStaked - x /\ t.avaxAssigned = s.avaxAssigned - y
             /\ t.avaxValidating = s.avaxValidating
             /\ t.avaxValidatingHighWater = s.avaxValidatingHighWater
<1> DEFINE a == s.avaxStaked - x
           b == s.avaxAssigned - y
           r == IF s.avaxValidatingHighWater = 0 /\ s.avaxAssigned - y = 0 THEN 0 ELSE s.rewardsStartTime
           t == [[[s EXCEPT !.avaxStaked = a] EXCEPT !.avaxAssigned = b] EXCEPT !.rewardsStartTime = r]
<1>1. a \in Nat /\ b \in Nat /\ r \in Nat
  BY DEF Staking!Staker, ClockOK
<1>2. t = Staking!StakerAfterCancel(s, x, y)
  BY DEF Staking!Staker, Staking!StakerAfterCancel,
       Staking!DecreaseAVAXStake, Staking!DecreaseAVAXAssigned
<1>3. t \in Staking!Staker
  <2> HIDE DEF a, b, r
  <2> QED BY <1>1 DEF Staking!Staker
<1>4. /\ t.ggpStaked = s.ggpStaked /\ t.avaxStaked = a /\ t.avaxAssigned = b
      /\ t.avaxValidating = s.avaxValidating
      /\ t.avaxValidatingHighWater = s.avaxValidatingHighWater
      /\ t.rewardsStartTime = r
  <2> HIDE DEF a, b, r
  <2> QED BY <1>1 DEF Staking!Staker
<1> HIDE DEF t
<1>5. ClockOK(t)
  BY <1>1, <1>4 DEF ClockOK, Staking!Staker
<1> QED BY <1>2, <1>3, <1>4, <1>5

(* The stake of a minipool is paid out. *)
LEMMA StakerWithdrawnOK ==
  ASSUME NEW s \in Staking!Staker, ClockOK(s), NEW x \in Nat, x <= s.avaxStaked
  PROVE  LET t == Staking!DecreaseAVAXStake(s, x)
         IN  /\ t \in Staking!Staker /\ ClockOK(t) /\ t.ggpStaked = s.ggpStaked
             /\ t.avaxStaked = s.avaxStaked - x /\ t.avaxAssigned = s.avaxAssigned
             /\ t.avaxValidating = s.avaxValidating
             /\ t.avaxValidatingHighWater = s.avaxValidatingHighWater
             /\ t.rewardsStartTime = s.rewardsStartTime
<1> DEFINE a == s.avaxStaked - x
           t == [s EXCEPT !.avaxStaked = a]
<1>1. a \in Nat
  BY DEF Staking!Staker, ClockOK
<1>2. t = Staking!DecreaseAVAXStake(s, x)
  BY DEF Staking!Staker, Staking!DecreaseAVAXStake
<1>3. t \in Staking!Staker
  <2> HIDE DEF a
  <2> QED BY <1>1 DEF Staking!Staker
<1>4. /\ t.ggpStaked = s.ggpStaked /\ t.avaxStaked = a
      /\ t.avaxAssigned = s.avaxAssigned /\ t.avaxValidating = s.avaxValidating
      /\ t.avaxValidatingHighWater = s.avaxValidatingHighWater
      /\ t.rewardsStartTime = s.rewardsStartTime
  <2> HIDE DEF a
  <2> QED BY <1>1 DEF Staking!Staker
<1> HIDE DEF t
<1>5. ClockOK(t)
  BY <1>1, <1>4 DEF ClockOK, Staking!Staker
<1> QED BY <1>2, <1>3, <1>4, <1>5

(* A validation starts, of what was assigned before. *)
LEMMA StakerStartOK ==
  ASSUME NEW s \in Staking!Staker, ClockOK(s), NEW x \in Nat \ {0},
         x <= s.avaxAssigned
  PROVE  LET t == Staking!IncreaseAVAXValidating(s, x)
         IN  /\ t \in Staking!Staker /\ ClockOK(t) /\ t.ggpStaked = s.ggpStaked
             /\ t.avaxStaked = s.avaxStaked /\ t.avaxAssigned = s.avaxAssigned
             /\ t.avaxValidating = s.avaxValidating + x
             /\ t.rewardsStartTime = s.rewardsStartTime
<1> DEFINE a == s.avaxValidating + x
           b == IF s.avaxValidatingHighWater < s.avaxValidating + x THEN s.avaxValidating + x ELSE s.avaxValidatingHighWater
           t == [[s EXCEPT !.avaxValidating = a] EXCEPT !.avaxValidatingHighWater = b]
<1>1. a \in Nat /\ b \in Nat
  BY DEF Staking!Staker, ClockOK
<1>2. t = Staking!IncreaseAVAXValidating(s, x)
  BY DEF Staking!Staker, Staking!IncreaseAVAXValidating
<1>3. t \in Staking!Staker
  <2> HIDE DEF a, b
  <2> QED BY <1>1 DEF Staking!Staker
<1>4. /\ t.ggpStaked = s.ggpStaked /\ t.avaxStaked = s.avaxStaked
      /\ t.avaxAssigned = s.avaxAssigned /\ t.avaxValidating = a
      /\ t.avaxValidatingHighWater = b /\ t.rewardsStartTime = s.rewardsStartTime
  <2> HIDE DEF a, b
  <2> QED BY <1>1 DEF Staking!Staker
<1> HIDE DEF t
<1>5. ClockOK(t)
  BY <1>1, <1>4 DEF ClockOK, Staking!Staker
<1> QED BY <1>2, <1>3, <1>4, <1>5

(* A validation ends, with a slash perhaps. *)
LEMMA StakerEndOK ==
  ASSUME NEW s \in Staking!Staker, ClockOK(s), NEW x \in Nat, x <= s.avaxAssigned,
         x <= s.avaxValidating, NEW g \in Nat, g <= s.ggpStaked
  PROVE  LET t == Staking!StakerAfterEnd(s, x, g)
         IN  /\ t \in Staking!Staker /\ ClockOK(t) /\ t.ggpStaked = s.ggpStaked - g
             /\ t.avaxStaked = s.avaxStaked /\ t.avaxAssigned = s.avaxAssigned - x
             /\ t.avaxValidating = s.avaxValidating - x
             /\ t.avaxValidatingHighWater = s.avaxValidatingHighWater
             /\ t.rewardsStartTime = s.rewardsStartTime
<1> DEFINE a == s.ggpStaked - g
           b == s.avaxAssigned - x
           c == s.avaxValidating - x
           t == [[[s EXCEPT !.ggpStaked = a] EXCEPT !.avaxAssigned = b] EXCEPT !.avaxValidating = c]
<1>1. a \in Nat /\ b \in Nat /\ c \in Nat
  BY DEF Staking!Staker, ClockOK
<1>2. t = Staking!StakerAfterEnd(s, x, g)
  BY DEF Staking!Staker, Staking!StakerAfterEnd,
       Staking!DecreaseAVAXValidating, Staking!DecreaseAVAXAssigned, Staking!DecreaseGGPStake
<1>3. t \in Staking!Staker
  <2> HIDE DEF a, b, c
  <2> QED BY <1>1 DEF Staking!Staker
<1>4. /\ t.ggpStaked = a /\ t.avaxStaked = s.avaxStaked /\ t.avaxAssigned = b
      /\ t.avaxValidating = c
      /\ t.avaxValidatingHighWater = s.avaxValidatingHighWater
      /\ t.rewardsStartTime = s.rewardsStartTime
  <2> HIDE DEF a, b, c
  <2> QED BY <1>1 DEF Staking!Staker
<1> HIDE DEF t
<1>5. ClockOK(t)
  BY <1>1, <1>4 DEF ClockOK, Staking!Staker
<1> QED BY <1>2, <1>3, <1>4, <1>5

(* The next cycle, of an owner who is in the rewards program. *)
LEMMA StakerRecreateOK ==
  ASSUME NEW s \in Staking!Staker, ClockOK(s), s.rewardsStartTime > 0,
         NEW x \in Nat, NEW y \in Nat
  PROVE  LET t == Staking!StakerAfterRecreate(s, x, y)
         IN  /\ t \in Staking!Staker /\ ClockOK(t) /\ t.ggpStaked = s.ggpStaked
             /\ t.avaxStaked = s.avaxStaked + x /\ t.avaxAssigned = s.avaxAssigned + y
             /\ t.avaxValidating = s.avaxValidating
             /\ t.avaxValidatingHighWater = s.avaxValidatingHighWater
             /\ t.rewardsStartTime = s.rewardsStartTime
<1> DEFINE a == s.avaxStaked + x
           b == s.avaxAssigned + y
           t == [[s EXCEPT !.avaxStaked = a] EXCEPT !.avaxAssigned = b]
<1>1. a \in Nat /\ b \in Nat
  BY DEF Staking!Staker, ClockOK
<1>2. t = Staking!StakerAfterRecreate(s, x, y)
  BY DEF Staking!Staker, Staking!StakerAfterRecreate,
       Staking!IncreaseAVAXStake, Staking!IncreaseAVAXAssigned
<1>3. t \in Staking!Staker
  <2> HIDE DEF a, b
  <2> QED BY <1>1 DEF Staking!Staker
<1>4. /\ t.ggpStaked = s.ggpStaked /\ t.avaxStaked = a /\ t.avaxAssigned = b
      /\ t.avaxValidating = s.avaxValidating
      /\ t.avaxValidatingHighWater = s.avaxValidatingHighWater
      /\ t.rewardsStartTime = s.rewardsStartTime
  <2> HIDE DEF a, b
  <2> QED BY <1>1 DEF Staking!Staker
<1> HIDE DEF t
<1>5. ClockOK(t)
  BY <1>1, <1>4 DEF ClockOK, Staking!Staker
<1> QED BY <1>2, <1>3, <1>4, <1>5

(* A launch fails. *)
LEMMA StakerErrorOK ==
  ASSUME NEW s \in Staking!Staker, ClockOK(s), NEW x \in Nat, x <= s.avaxAssigned
  PROVE  LET t == Staking!StakerAfterError(s, x)
         IN  /\ t \in Staking!Staker /\ ClockOK(t) /\ t.ggpStaked = s.ggpStaked
             /\ t.avaxStaked = s.avaxStaked /\ t.avaxAssigned = s.avaxAssigned - x
             /\ t.avaxValidating = s.avaxValidating
             /\ t.avaxValidatingHighWater = s.avaxValidatingHighWater
             /\ t.rewardsStartTime = s.rewardsStartTime
<1> DEFINE a == s.avaxAssigned - x
           t == [s EXCEPT !.avaxAssigned = a]
<1>1. a \in Nat
  BY DEF Staking!Staker, ClockOK
<1>2. t = Staking!StakerAfterError(s, x)
  BY DEF Staking!Staker, Staking!StakerAfterError,
       Staking!DecreaseAVAXAssigned
<1>3. t \in Staking!Staker
  <2> HIDE DEF a
  <2> QED BY <1>1 DEF Staking!Staker
<1>4. /\ t.ggpStaked = s.ggpStaked /\ t.avaxStaked = s.avaxStaked
      /\ t.avaxAssigned = a /\ t.avaxValidating = s.avaxValidating
      /\ t.avaxValidatingHighWater = s.avaxValidatingHighWater
      /\ t.rewardsStartTime = s.rewardsStartTime
  <2> HIDE DEF a
  <2> QED BY <1>1 DEF Staking!Staker
<1> HIDE DEF t
<1>5. ClockOK(t)
  BY <1>1, <1>4 DEF ClockOK, Staking!Staker
<1> QED BY <1>2, <1>3, <1>4, <1>5

(* GGP is staked, by a newcomer perhaps. *)
LEMMA StakeOK ==
  ASSUME NEW s \in Staking!Staker, ClockOK(s), NEW g \in Nat
  PROVE  LET t == Staking!StakeGGP(s, g)
         IN  /\ t \in Staking!Staker /\ ClockOK(t) /\ t.ggpStaked = s.ggpStaked + g
             /\ t.avaxStaked = s.avaxStaked /\ t.avaxAssigned = s.avaxAssigned
             /\ t.avaxValidating = s.avaxValidating
             /\ t.avaxValidatingHighWater = s.avaxValidatingHighWater
             /\ t.rewardsStartTime = s.rewardsStartTime
<1> DEFINE e == TRUE
           a == s.ggpStaked + g
           t == [[s EXCEPT !.exists = e] EXCEPT !.ggpStaked = a]
<1>1. a \in Nat
  BY DEF Staking!Staker, ClockOK
<1>2. t = Staking!StakeGGP(s, g)
  BY DEF Staking!Staker, Staking!StakeGGP
<1>3. t \in Staking!Staker
  <2> HIDE DEF a
  <2> QED BY <1>1 DEF Staking!Staker
<1>4. /\ t.ggpStaked = a /\ t.avaxStaked = s.avaxStaked
      /\ t.avaxAssigned = s.avaxAssigned /\ t.avaxValidating = s.avaxValidating
      /\ t.avaxValidatingHighWater = s.avaxValidatingHighWater
      /\ t.rewardsStartTime = s.rewardsStartTime
  <2> HIDE DEF a
  <2> QED BY <1>1 DEF Staking!Staker
<1> HIDE DEF t
<1>5. ClockOK(t)
  BY <1>1, <1>4 DEF ClockOK, Staking!Staker
<1> QED BY <1>2, <1>3, <1>4, <1>5

(* GGP is locked. *)
LEMMA LockOK ==
  ASSUME NEW s \in Staking!Staker, ClockOK(s), NEW until \in Nat
  PROVE  LET t == Staking!LockGGP(s, until)
         IN  /\ t \in Staking!Staker /\ ClockOK(t) /\ t.ggpStaked = s.ggpStaked
             /\ t.avaxStaked = s.avaxStaked /\ t.avaxAssigned = s.avaxAssigned
             /\ t.avaxValidating = s.avaxValidating
             /\ t.avaxValidatingHighWater = s.avaxValidatingHighWater
             /\ t.rewardsStartTime = s.rewardsStartTime
<1> DEFINE a == until
           t == [s EXCEPT !.ggpLockedUntil = a]
<1>1. a \in Nat
  BY DEF Staking!Staker, ClockOK
<1>2. t = Staking!LockGGP(s, until)
  BY DEF Staking!Staker, Staking!LockGGP
<1>3. t \in Staking!Staker
  <2> HIDE DEF a
  <2> QED BY <1>1 DEF Staking!Staker
<1>4. /\ t.ggpStaked = s.ggpStaked /\ t.avaxStaked = s.avaxStaked
      /\ t.avaxAssigned = s.avaxAssigned /\ t.avaxValidating = s.avaxValidating
      /\ t.avaxValidatingHighWater = s.avaxValidatingHighWater
      /\ t.rewardsStartTime = s.rewardsStartTime
  <2> HIDE DEF a
  <2> QED BY <1>1 DEF Staking!Staker
<1> HIDE DEF t
<1>5. ClockOK(t)
  BY <1>1, <1>4 DEF ClockOK, Staking!Staker
<1> QED BY <1>2, <1>3, <1>4, <1>5

(* GGP that was staked leaves. *)
LEMMA UnstakeOK ==
  ASSUME NEW s \in Staking!Staker, ClockOK(s), NEW g \in Nat, g <= s.ggpStaked
  PROVE  LET t == Staking!DecreaseGGPStake(s, g)
         IN  /\ t \in Staking!Staker /\ ClockOK(t) /\ t.ggpStaked = s.ggpStaked - g
             /\ t.avaxStaked = s.avaxStaked /\ t.avaxAssigned = s.avaxAssigned
             /\ t.avaxValidating = s.avaxValidating
             /\ t.avaxValidatingHighWater = s.avaxValidatingHighWater
             /\ t.rewardsStartTime = s.rewardsStartTime
<1> DEFINE a == s.ggpStaked - g
           t == [s EXCEPT !.ggpStaked = a]
<1>1. a \in Nat
  BY DEF Staking!Staker, ClockOK
<1>2. t = Staking!DecreaseGGPStake(s, g)
  BY DEF Staking!Staker, Staking!DecreaseGGPStake
<1>3. t \in Staking!Staker
  <2> HIDE DEF a
  <2> QED BY <1>1 DEF Staking!Staker
<1>4. /\ t.ggpStaked = a /\ t.avaxStaked = s.avaxStaked
      /\ t.avaxAssigned = s.avaxAssigned /\ t.avaxValidating = s.avaxValidating
      /\ t.avaxValidatingHighWater = s.avaxValidatingHighWater
      /\ t.rewardsStartTime = s.rewardsStartTime
  <2> HIDE DEF a
  <2> QED BY <1>1 DEF Staking!Staker
<1> HIDE DEF t
<1>5. ClockOK(t)
  BY <1>1, <1>4 DEF ClockOK, Staking!Staker
<1> QED BY <1>2, <1>3, <1>4, <1>5

-----------------------------------------------------------------------------
(* The Vault *)

(* The types of what the Vault keeps. *)
LEMMA VaultStorageFields ==
  ASSUME NEW v \in Vault!VaultStorage
  PROVE  /\ v.avax \in [NetworkContracts -> Nat] /\ v.ggp \in [NetworkContracts -> Nat]
         /\ v.avax["MinipoolManager"] \in Nat /\ v.ggp["Staking"] \in Nat
         /\ v.ggp["ProtocolDAO"] \in Nat
BY DEF Vault!VaultStorage, NetworkContracts

(* AVAX that MinipoolManager banks. *)
LEMMA AVAXInOK ==
  ASSUME NEW v \in Vault!VaultStorage, NEW x \in Nat
  PROVE  LET u == Vault!DepositAVAX(v, "MinipoolManager", x)
         IN  /\ u \in Vault!VaultStorage /\ u.ggp = v.ggp
             /\ u.avax["MinipoolManager"] = v.avax["MinipoolManager"] + x
BY DEF Vault!VaultStorage, Vault!DepositAVAX, NetworkContracts

(* AVAX that MinipoolManager takes. *)
LEMMA AVAXOutOK ==
  ASSUME NEW v \in Vault!VaultStorage, NEW x \in Nat, x <= v.avax["MinipoolManager"]
  PROVE  LET u == Vault!WithdrawAVAX(v, "MinipoolManager", x)
         IN  /\ u \in Vault!VaultStorage /\ u.ggp = v.ggp
             /\ u.avax["MinipoolManager"] = v.avax["MinipoolManager"] - x
BY DEF Vault!VaultStorage, Vault!WithdrawAVAX, NetworkContracts

(* GGP that is banked for a contract. *)
LEMMA GGPInOK ==
  ASSUME NEW v \in Vault!VaultStorage, NEW c \in NetworkContracts, NEW x \in Nat
  PROVE  LET u == Vault!DepositToken(v, c, x)
         IN  /\ u \in Vault!VaultStorage /\ u.avax = v.avax
             /\ u.ggp[c] = v.ggp[c] + x
             /\ \A d \in NetworkContracts \ {c} : u.ggp[d] = v.ggp[d]
BY DEF Vault!VaultStorage, Vault!DepositToken

(* GGP that a contract takes. *)
LEMMA GGPOutOK ==
  ASSUME NEW v \in Vault!VaultStorage, NEW c \in NetworkContracts, NEW x \in Nat, x <= v.ggp[c]
  PROVE  LET u == Vault!WithdrawToken(v, c, x)
         IN  /\ u \in Vault!VaultStorage /\ u.avax = v.avax
             /\ u.ggp[c] = v.ggp[c] - x
             /\ \A d \in NetworkContracts \ {c} : u.ggp[d] = v.ggp[d]
BY DEF Vault!VaultStorage, Vault!WithdrawToken

(* GGP that is slashed. *)
LEMMA GGPSlashOK ==
  ASSUME NEW v \in Vault!VaultStorage, NEW x \in Nat, x <= v.ggp["Staking"]
  PROVE  LET u == Vault!TransferToken(v, "Staking", "ProtocolDAO", x)
         IN  /\ u \in Vault!VaultStorage /\ u.avax = v.avax
             /\ u.ggp["Staking"] = v.ggp["Staking"] - x
<1> DEFINE w == Vault!WithdrawToken(v, "Staking", x)
           u == Vault!DepositToken(w, "ProtocolDAO", x)
<1>0. "Staking" \in NetworkContracts /\ "ProtocolDAO" \in NetworkContracts
  BY DEF NetworkContracts
<1>1. /\ w \in Vault!VaultStorage /\ w.avax = v.avax
      /\ w.ggp["Staking"] = v.ggp["Staking"] - x
  BY <1>0, GGPOutOK
<1> HIDE DEF w
<1>2. /\ u \in Vault!VaultStorage /\ u.avax = w.avax
      /\ \A d \in NetworkContracts \ {"ProtocolDAO"} : u.ggp[d] = w.ggp[d]
  BY <1>0, <1>1, GGPInOK
<1>3. u.ggp["Staking"] = w.ggp["Staking"]
  <2>1. "Staking" \in NetworkContracts \ {"ProtocolDAO"}
    BY <1>0
  <2> HIDE DEF u
  <2> QED BY <1>2, <2>1
<1>4. u = Vault!TransferToken(v, "Staking", "ProtocolDAO", x)
  BY DEF Vault!TransferToken, w
<1> HIDE DEF u
<1> QED BY <1>1, <1>2, <1>3, <1>4

-----------------------------------------------------------------------------
(* The storage as a whole *)

(* The storage with these parts *)
NetOf(m, l, st, v) ==
  [minipools |-> m, totalAVAXLiquidStakerAmt |-> l, stakers |-> st, vault |-> v]

(* The types of the storage, and that its parts are all of it. *)
LEMMA NetworkFields ==
  ASSUME NEW s \in Network
  PROVE  /\ s.minipools \in [NodeIDs -> Minipool] /\ s.totalAVAXLiquidStakerAmt \in Nat
         /\ s.stakers \in [Owners -> Staking!Staker] /\ s.vault \in Vault!VaultStorage
         /\ s = NetOf(s.minipools, s.totalAVAXLiquidStakerAmt, s.stakers, s.vault)
BY DEF Network, NetOf

(* The parts of a storage that is put together of them. *)
LEMMA NetOfFields ==
  ASSUME NEW m, NEW l, NEW st, NEW v
  PROVE  LET u == NetOf(m, l, st, v)
         IN  /\ u.minipools = m /\ u.totalAVAXLiquidStakerAmt = l
             /\ u.stakers = st /\ u.vault = v
             /\ m \in [NodeIDs -> Minipool] /\ l \in Nat /\ st \in [Owners -> Staking!Staker]
                  /\ v \in Vault!VaultStorage => u \in Network
BY DEF NetOf, Network

(* The types of the fields of a minipool. *)
LEMMA MinipoolFields ==
  ASSUME NEW mp \in Minipool
  PROVE  /\ mp.status \in Statuses /\ mp.owner \in Owners \cup {NoOne}
         /\ mp.multisigAddr \in Multisigs \cup {NoOne}
         /\ mp.duration \in Nat /\ mp.creationTime \in Nat /\ mp.initialStartTime \in Nat
         /\ mp.startTime \in Nat /\ mp.avaxNodeOpInitialAmt \in Nat
         /\ mp.avaxNodeOpAmt \in Nat /\ mp.avaxLiquidStakerAmt \in Nat
         /\ mp.avaxNodeOpRewardAmt \in Nat /\ mp.avaxLiquidStakerRewardAmt \in Nat
         /\ mp.ggpSlashAmt \in Nat
BY DEF Minipool

(* What a minipool is, in each status *)
MinipoolOK(mp) ==
  /\ mp.status # "NotFound" => mp.owner \in Owners /\ mp.multisigAddr \in Multisigs
  /\ mp.status \in Unpaid => mp.avaxNodeOpAmt > 0
  /\ mp.status \in Active => mp.avaxLiquidStakerAmt = mp.avaxNodeOpAmt
  /\ mp.status \in Unpaid \ {"Withdrawable"} => mp.avaxNodeOpRewardAmt = 0
  /\ mp.status = "Withdrawable" => mp.avaxLiquidStakerRewardAmt <= mp.avaxNodeOpRewardAmt

(* What a minipool adds to the counters of its owner and to the loans *)
Staked(mp) == IF mp.status \in Unpaid THEN mp.avaxNodeOpAmt ELSE 0
Assigned(mp) == IF mp.status \in Active THEN mp.avaxLiquidStakerAmt ELSE 0
Validating(mp) == IF mp.status = "Staking" THEN mp.avaxLiquidStakerAmt ELSE 0
Lent(mp) == IF mp.status \in AtWork THEN mp.avaxLiquidStakerAmt ELSE 0

StakedOf(m, o) == [n \in NodeIDs |-> IF m[n].owner = o THEN Staked(m[n]) ELSE 0]
AssignedOf(m, o) == [n \in NodeIDs |-> IF m[n].owner = o THEN Assigned(m[n]) ELSE 0]
ValidatingOf(m, o) == [n \in NodeIDs |-> IF m[n].owner = o THEN Validating(m[n]) ELSE 0]
LentBy(m) == [n \in NodeIDs |-> Lent(m[n])]
HeldFor(m) == [n \in NodeIDs |-> Held(m[n])]
GGPOf(st) == [o \in Owners |-> st[o].ggpStaked]

Sum(f) == SumFunctionOnSet(f, NodeIDs)

CountersOK(m, st, o) ==
  /\ st.avaxStaked = Sum(StakedOf(m, o))
  /\ st.avaxAssigned = Sum(AssignedOf(m, o))
  /\ st.avaxValidating = Sum(ValidatingOf(m, o))

(* The inductive invariant of the storage *)
NetOK(s) ==
  /\ s \in Network
  /\ \A n \in NodeIDs : MinipoolOK(s.minipools[n])
  /\ \A o \in Owners : CountersOK(s.minipools, s.stakers[o], o) /\ ClockOK(s.stakers[o])
  /\ s.totalAVAXLiquidStakerAmt = Sum(LentBy(s.minipools))
  /\ s.vault.avax["MinipoolManager"] >= Sum(HeldFor(s.minipools))
  /\ s.vault.ggp["Staking"] = SumFunctionOnSet(GGPOf(s.stakers), Owners)

(* What a minipool adds is a natural number. *)
LEMMA PartsType ==
  ASSUME NEW mp \in Minipool
  PROVE  /\ Staked(mp) \in Nat /\ Assigned(mp) \in Nat /\ Validating(mp) \in Nat
         /\ Lent(mp) \in Nat /\ Held(mp) \in Nat
BY MinipoolFields DEF Staked, Assigned, Validating, Lent, Held, TotalAvaxAmt

(* What the minipools add, as functions of the node *)
LEMMA PartFunctions ==
  ASSUME NEW m \in [NodeIDs -> Minipool], NEW o
  PROVE  /\ StakedOf(m, o) \in [NodeIDs -> Nat] /\ AssignedOf(m, o) \in [NodeIDs -> Nat]
         /\ ValidatingOf(m, o) \in [NodeIDs -> Nat]
         /\ LentBy(m) \in [NodeIDs -> Nat] /\ HeldFor(m) \in [NodeIDs -> Nat]
<1>1. \A n \in NodeIDs : m[n] \in Minipool
  OBVIOUS
<1> QED BY <1>1, PartsType DEF StakedOf, AssignedOf, ValidatingOf, LentBy, HeldFor

(* No part is more than the whole. *)
LEMMA PartsFit ==
  ASSUME NEW s, NetOK(s), NEW n \in NodeIDs, s.minipools[n].status # "NotFound"
  PROVE  LET mp == s.minipools[n]
             st == s.stakers[mp.owner]
         IN  /\ mp \in Minipool /\ MinipoolOK(mp) /\ mp.owner \in Owners
             /\ st \in Staking!Staker /\ ClockOK(st)
             /\ Staked(mp) <= st.avaxStaked /\ Assigned(mp) <= st.avaxAssigned
             /\ Validating(mp) <= st.avaxValidating
             /\ Lent(mp) <= s.totalAVAXLiquidStakerAmt
             /\ Held(mp) <= s.vault.avax["MinipoolManager"]
<1> DEFINE m == s.minipools
           mp == m[n]
           o == mp.owner
           st == s.stakers[o]
<1>1. /\ m \in [NodeIDs -> Minipool] /\ s.totalAVAXLiquidStakerAmt \in Nat
      /\ s.stakers \in [Owners -> Staking!Staker]
      /\ s.vault.avax["MinipoolManager"] \in Nat
  BY NetworkFields, VaultStorageFields DEF NetOK
<1>2. mp \in Minipool /\ MinipoolOK(mp) /\ o \in Owners
  BY <1>1 DEF NetOK, MinipoolOK
<1>3. st \in Staking!Staker /\ ClockOK(st) /\ CountersOK(m, st, o)
  BY <1>1, <1>2 DEF NetOK
<1>4. /\ s.totalAVAXLiquidStakerAmt = Sum(LentBy(m))
      /\ s.vault.avax["MinipoolManager"] >= Sum(HeldFor(m))
  BY DEF NetOK
<1>5. /\ StakedOf(m, o)[n] = Staked(mp) /\ AssignedOf(m, o)[n] = Assigned(mp)
      /\ ValidatingOf(m, o)[n] = Validating(mp) /\ LentBy(m)[n] = Lent(mp)
      /\ HeldFor(m)[n] = Held(mp)
  BY DEF StakedOf, AssignedOf, ValidatingOf, LentBy, HeldFor
<1> HIDE DEF m, mp, o, st
<1>6. /\ StakedOf(m, o) \in [NodeIDs -> Nat] /\ AssignedOf(m, o) \in [NodeIDs -> Nat]
      /\ ValidatingOf(m, o) \in [NodeIDs -> Nat]
      /\ LentBy(m) \in [NodeIDs -> Nat] /\ HeldFor(m) \in [NodeIDs -> Nat]
  BY <1>1, PartFunctions
<1>7. \A f \in [NodeIDs -> Nat] : f[n] <= Sum(f) /\ f[n] \in Nat /\ Sum(f) \in Nat
  <2> SUFFICES ASSUME NEW f \in [NodeIDs -> Nat]
               PROVE  f[n] <= Sum(f) /\ f[n] \in Nat /\ Sum(f) \in Nat
    OBVIOUS
  <2>1. IsFiniteSet(NodeIDs) /\ \A x \in NodeIDs : f[x] \in Nat
    BY NetworkConstants
  <2> QED BY <2>1, SumBoundsPart, SumType DEF Sum
<1>8. /\ Staked(mp) <= st.avaxStaked /\ Assigned(mp) <= st.avaxAssigned
      /\ Validating(mp) <= st.avaxValidating
  BY <1>3, <1>5, <1>6, <1>7 DEF CountersOK
<1>9. Lent(mp) <= s.totalAVAXLiquidStakerAmt
  BY <1>4, <1>5, <1>6, <1>7
<1>10. Held(mp) <= s.vault.avax["MinipoolManager"]
  <2>1. Held(mp) <= Sum(HeldFor(m)) /\ Held(mp) \in Nat /\ Sum(HeldFor(m)) \in Nat
    BY <1>5, <1>6, <1>7
  <2> QED BY <1>1, <1>4, <2>1
<1> QED BY <1>2, <1>3, <1>8, <1>9, <1>10 DEF m, mp, o, st

(* A minipool that changes moves a sum by what its part changes. *)
LEMMA PartMoves ==
  ASSUME NEW f \in [NodeIDs -> Nat], NEW h \in [NodeIDs -> Nat], NEW n \in NodeIDs,
         \A x \in NodeIDs \ {n} : h[x] = f[x]
  PROVE  /\ Sum(h) = Sum(f) - f[n] + h[n]
         /\ Sum(h) \in Nat /\ Sum(f) \in Nat /\ f[n] \in Nat /\ h[n] \in Nat
<1>1. IsFiniteSet(NodeIDs) /\ \A x \in NodeIDs : f[x] \in Int /\ h[x] \in Int
  BY NetworkConstants
<1>2. Sum(h) = Sum(f) - f[n] + h[n]
  BY <1>1, SumUpdate DEF Sum
<1>3. (\A x \in NodeIDs : f[x] \in Nat) /\ (\A x \in NodeIDs : h[x] \in Nat)
  OBVIOUS
<1>4. Sum(h) \in Nat /\ Sum(f) \in Nat
  BY <1>1, <1>3, SumType DEF Sum
<1> QED BY <1>2, <1>3, <1>4

(* What is not in use counts for nothing. *)
LEMMA Idle ==
  ASSUME NEW mp, mp.status \notin Unpaid
  PROVE  /\ Staked(mp) = 0 /\ Assigned(mp) = 0 /\ Validating(mp) = 0
         /\ Lent(mp) = 0 /\ Held(mp) = 0
BY DEF Staked, Assigned, Validating, Lent, Held, Unpaid, Active, AtWork, InVault

(* The parts of an owner when one minipool changes that is its own now and *)
(* was nobody else's as far as it counted.                                 *)
LEMMA CountersMove ==
  ASSUME NEW m \in [NodeIDs -> Minipool], NEW n \in NodeIDs, NEW mq \in Minipool,
         m[n].owner = mq.owner \/ m[n].status \notin Unpaid,
         NEW st, NEW o, CountersOK(m, st, o)
  PROVE  LET m2 == [m EXCEPT ![n] = mq]
         IN  /\ o # mq.owner => CountersOK(m2, st, o)
             /\ o = mq.owner =>
                  /\ Sum(StakedOf(m2, o)) = st.avaxStaked - Staked(m[n]) + Staked(mq)
                  /\ Sum(AssignedOf(m2, o)) = st.avaxAssigned - Assigned(m[n]) + Assigned(mq)
                  /\ Sum(ValidatingOf(m2, o))
                       = st.avaxValidating - Validating(m[n]) + Validating(mq)
<1> DEFINE m2 == [m EXCEPT ![n] = mq]
           mp == m[n]
<1>1. m2 \in [NodeIDs -> Minipool] /\ m2[n] = mq /\ \A x \in NodeIDs \ {n} : m2[x] = m[x]
  OBVIOUS
<1>2. mp \in Minipool
  OBVIOUS
<1>3. /\ StakedOf(m, o) \in [NodeIDs -> Nat] /\ AssignedOf(m, o) \in [NodeIDs -> Nat]
      /\ ValidatingOf(m, o) \in [NodeIDs -> Nat]
      /\ StakedOf(m2, o) \in [NodeIDs -> Nat] /\ AssignedOf(m2, o) \in [NodeIDs -> Nat]
      /\ ValidatingOf(m2, o) \in [NodeIDs -> Nat]
  BY <1>1, PartFunctions
<1>4. mp.owner = mq.owner \/ mp.status \notin Unpaid
  OBVIOUS
<1> HIDE DEF m2
<1>5. /\ \A x \in NodeIDs \ {n} : StakedOf(m2, o)[x] = StakedOf(m, o)[x]
      /\ \A x \in NodeIDs \ {n} : AssignedOf(m2, o)[x] = AssignedOf(m, o)[x]
      /\ \A x \in NodeIDs \ {n} : ValidatingOf(m2, o)[x] = ValidatingOf(m, o)[x]
  BY <1>1 DEF StakedOf, AssignedOf, ValidatingOf
<1>6. /\ StakedOf(m, o)[n] = IF mp.owner = o THEN Staked(mp) ELSE 0
      /\ AssignedOf(m, o)[n] = IF mp.owner = o THEN Assigned(mp) ELSE 0
      /\ ValidatingOf(m, o)[n] = IF mp.owner = o THEN Validating(mp) ELSE 0
      /\ StakedOf(m2, o)[n] = IF mq.owner = o THEN Staked(mq) ELSE 0
      /\ AssignedOf(m2, o)[n] = IF mq.owner = o THEN Assigned(mq) ELSE 0
      /\ ValidatingOf(m2, o)[n] = IF mq.owner = o THEN Validating(mq) ELSE 0
  BY <1>1 DEF StakedOf, AssignedOf, ValidatingOf
<1> HIDE DEF mp
<1>7. mp.owner # mq.owner => Staked(mp) = 0 /\ Assigned(mp) = 0 /\ Validating(mp) = 0
  BY <1>4, Idle
<1>8. /\ Sum(StakedOf(m2, o)) = Sum(StakedOf(m, o)) - StakedOf(m, o)[n] + StakedOf(m2, o)[n]
      /\ Sum(StakedOf(m, o)) \in Nat
  BY <1>3, <1>5, PartMoves
<1>9. /\ Sum(AssignedOf(m2, o))
           = Sum(AssignedOf(m, o)) - AssignedOf(m, o)[n] + AssignedOf(m2, o)[n]
      /\ Sum(AssignedOf(m, o)) \in Nat
  BY <1>3, <1>5, PartMoves
<1>10. /\ Sum(ValidatingOf(m2, o))
            = Sum(ValidatingOf(m, o)) - ValidatingOf(m, o)[n] + ValidatingOf(m2, o)[n]
       /\ Sum(ValidatingOf(m, o)) \in Nat
  BY <1>3, <1>5, PartMoves
<1>11. /\ Staked(mp) \in Nat /\ Assigned(mp) \in Nat /\ Validating(mp) \in Nat
       /\ Staked(mq) \in Nat /\ Assigned(mq) \in Nat /\ Validating(mq) \in Nat
  BY <1>2, PartsType
<1>12. /\ st.avaxStaked = Sum(StakedOf(m, o)) /\ st.avaxAssigned = Sum(AssignedOf(m, o))
       /\ st.avaxValidating = Sum(ValidatingOf(m, o))
  BY DEF CountersOK
<1>13. CASE o # mq.owner
  <2>1. /\ StakedOf(m, o)[n] = 0 /\ AssignedOf(m, o)[n] = 0 /\ ValidatingOf(m, o)[n] = 0
        /\ StakedOf(m2, o)[n] = 0 /\ AssignedOf(m2, o)[n] = 0 /\ ValidatingOf(m2, o)[n] = 0
    BY <1>6, <1>7, <1>13
  <2>2. CountersOK(m2, st, o)
    BY <2>1, <1>8, <1>9, <1>10, <1>12 DEF CountersOK
  <2> QED BY <2>2, <1>13 DEF m2
<1>14. CASE o = mq.owner
  <2>1. /\ StakedOf(m, o)[n] = Staked(mp) /\ AssignedOf(m, o)[n] = Assigned(mp)
        /\ ValidatingOf(m, o)[n] = Validating(mp)
        /\ StakedOf(m2, o)[n] = Staked(mq) /\ AssignedOf(m2, o)[n] = Assigned(mq)
        /\ ValidatingOf(m2, o)[n] = Validating(mq)
    BY <1>6, <1>7, <1>14
  <2>2. /\ Sum(StakedOf(m2, o)) = st.avaxStaked - Staked(mp) + Staked(mq)
        /\ Sum(AssignedOf(m2, o)) = st.avaxAssigned - Assigned(mp) + Assigned(mq)
        /\ Sum(ValidatingOf(m2, o)) = st.avaxValidating - Validating(mp) + Validating(mq)
    BY <2>1, <1>8, <1>9, <1>10, <1>12
  <2> QED BY <2>2, <1>14 DEF m2, mp
<1> QED BY <1>13, <1>14

(* The GGP of all stakers when one record changes *)
LEMMA GGPMoves ==
  ASSUME NEW st \in [Owners -> Staking!Staker], NEW o \in Owners, NEW t \in Staking!Staker
  PROVE  /\ SumFunctionOnSet(GGPOf([st EXCEPT ![o] = t]), Owners)
              = SumFunctionOnSet(GGPOf(st), Owners) - st[o].ggpStaked + t.ggpStaked
         /\ SumFunctionOnSet(GGPOf(st), Owners) \in Nat
<1> DEFINE st2 == [st EXCEPT ![o] = t]
           f == GGPOf(st)
           h == GGPOf(st2)
<1>1. /\ st2 \in [Owners -> Staking!Staker] /\ st2[o] = t
      /\ \A x \in Owners \ {o} : st2[x] = st[x]
  OBVIOUS
<1> HIDE DEF st2
<1>2. \A x \in Owners : st[x].ggpStaked \in Nat /\ st2[x].ggpStaked \in Nat
  BY <1>1, StakerFields
<1>3. /\ \A x \in Owners : f[x] \in Int /\ h[x] \in Int
      /\ \A x \in Owners : f[x] \in Nat
      /\ \A x \in Owners \ {o} : h[x] = f[x]
      /\ f[o] = st[o].ggpStaked /\ h[o] = t.ggpStaked
  BY <1>1, <1>2 DEF GGPOf
<1>4. IsFiniteSet(Owners)
  BY NetworkConstants
<1> HIDE DEF f, h
<1>5. SumFunctionOnSet(h, Owners) = SumFunctionOnSet(f, Owners) - f[o] + h[o]
  BY <1>3, <1>4, SumUpdate
<1>6. SumFunctionOnSet(f, Owners) \in Nat
  BY <1>3, <1>4, SumType
<1> QED BY <1>3, <1>5, <1>6 DEF f, h, st2

(* The invariant is kept by a handler that changes one minipool and the    *)
(* record of its owner, if both, the loans and the Vault change alike.     *)
LEMMA NodeStep ==
  ASSUME NEW s, NetOK(s), NEW n \in NodeIDs, NEW o \in Owners,
         NEW mq \in Minipool, MinipoolOK(mq), mq.owner = o,
         s.minipools[n].owner = o \/ s.minipools[n].status \notin Unpaid,
         NEW t \in Staking!Staker, ClockOK(t), NEW v \in Vault!VaultStorage, NEW l \in Int,
         t.avaxStaked = s.stakers[o].avaxStaked - Staked(s.minipools[n]) + Staked(mq),
         t.avaxAssigned = s.stakers[o].avaxAssigned - Assigned(s.minipools[n]) + Assigned(mq),
         t.avaxValidating
           = s.stakers[o].avaxValidating - Validating(s.minipools[n]) + Validating(mq),
         l = s.totalAVAXLiquidStakerAmt - Lent(s.minipools[n]) + Lent(mq),
         v.avax["MinipoolManager"] - Held(mq)
           >= s.vault.avax["MinipoolManager"] - Held(s.minipools[n]),
         v.ggp["Staking"] - t.ggpStaked = s.vault.ggp["Staking"] - s.stakers[o].ggpStaked
  PROVE  NetOK(NetOf([s.minipools EXCEPT ![n] = mq], l, [s.stakers EXCEPT ![o] = t], v))
<1> DEFINE m == s.minipools
           m2 == [m EXCEPT ![n] = mq]
           st2 == [s.stakers EXCEPT ![o] = t]
           u == NetOf(m2, l, st2, v)
           mp == m[n]
<1>1. /\ m \in [NodeIDs -> Minipool] /\ s.totalAVAXLiquidStakerAmt \in Nat
      /\ s.stakers \in [Owners -> Staking!Staker] /\ s.vault \in Vault!VaultStorage
      /\ s.vault.avax["MinipoolManager"] \in Nat /\ s.vault.ggp["Staking"] \in Nat
      /\ v.avax["MinipoolManager"] \in Nat /\ v.ggp["Staking"] \in Nat
  BY NetworkFields, VaultStorageFields DEF NetOK
<1>2. /\ m2 \in [NodeIDs -> Minipool] /\ m2[n] = mq
      /\ \A x \in NodeIDs \ {n} : m2[x] = m[x]
      /\ st2 \in [Owners -> Staking!Staker] /\ st2[o] = t
      /\ \A p \in Owners \ {o} : st2[p] = s.stakers[p]
  BY <1>1
<1>3. mp \in Minipool /\ (mp.owner = mq.owner \/ mp.status \notin Unpaid)
  BY <1>1
<1>4. \A x \in NodeIDs : MinipoolOK(m2[x])
  <2>1. \A x \in NodeIDs : MinipoolOK(m[x])
    BY DEF NetOK
  <2> HIDE DEF m2
  <2> QED BY <1>2, <2>1
<1>5. \A p \in Owners : CountersOK(m2, st2[p], p) /\ ClockOK(st2[p])
  <2> SUFFICES ASSUME NEW p \in Owners PROVE CountersOK(m2, st2[p], p) /\ ClockOK(st2[p])
    OBVIOUS
  <2>1. CountersOK(m, s.stakers[p], p) /\ ClockOK(s.stakers[p])
    BY DEF NetOK
  <2>2. /\ p # mq.owner => CountersOK(m2, s.stakers[p], p)
        /\ p = mq.owner =>
             /\ Sum(StakedOf(m2, p)) = s.stakers[p].avaxStaked - Staked(mp) + Staked(mq)
             /\ Sum(AssignedOf(m2, p)) = s.stakers[p].avaxAssigned - Assigned(mp) + Assigned(mq)
             /\ Sum(ValidatingOf(m2, p))
                  = s.stakers[p].avaxValidating - Validating(mp) + Validating(mq)
    BY <1>1, <1>3, <2>1, CountersMove
  <2>3. CASE p # o
    <3>1. st2[p] = s.stakers[p]
      BY <1>2, <2>3
    <3> HIDE DEF st2, m2, m
    <3> QED BY <2>1, <2>2, <2>3, <3>1
  <2>4. CASE p = o
    <3>1. st2[p] = t
      BY <1>2, <2>4
    <3>2. CountersOK(m2, t, p)
      <4>1. p = mq.owner
        BY <2>4
      <4> HIDE DEF m2
      <4> QED BY <2>2, <2>4, <4>1 DEF CountersOK
    <3> HIDE DEF st2, m2, m
    <3> QED BY <3>1, <3>2
  <2> QED BY <2>3, <2>4
<1>6. Sum(LentBy(m2)) = Sum(LentBy(m)) - Lent(mp) + Lent(mq)
  <2>1. /\ LentBy(m) \in [NodeIDs -> Nat] /\ LentBy(m2) \in [NodeIDs -> Nat]
    BY <1>1, <1>2, PartFunctions
  <2>2. /\ \A x \in NodeIDs \ {n} : LentBy(m2)[x] = LentBy(m)[x]
        /\ LentBy(m)[n] = Lent(mp) /\ LentBy(m2)[n] = Lent(mq)
    <3> HIDE DEF m2, m
    <3> QED BY <1>2 DEF LentBy, mp
  <2> HIDE DEF m2, m, mp
  <2>3. Sum(LentBy(m2)) = Sum(LentBy(m)) - LentBy(m)[n] + LentBy(m2)[n]
    BY <2>1, <2>2, PartMoves
  <2> QED BY <2>2, <2>3
<1>7. /\ Sum(HeldFor(m2)) = Sum(HeldFor(m)) - Held(mp) + Held(mq)
      /\ Sum(HeldFor(m)) \in Nat
  <2>1. /\ HeldFor(m) \in [NodeIDs -> Nat] /\ HeldFor(m2) \in [NodeIDs -> Nat]
    BY <1>1, <1>2, PartFunctions
  <2>2. /\ \A x \in NodeIDs \ {n} : HeldFor(m2)[x] = HeldFor(m)[x]
        /\ HeldFor(m)[n] = Held(mp) /\ HeldFor(m2)[n] = Held(mq)
    <3> HIDE DEF m2, m
    <3> QED BY <1>2 DEF HeldFor, mp
  <2> HIDE DEF m2, m, mp
  <2>3. /\ Sum(HeldFor(m2)) = Sum(HeldFor(m)) - HeldFor(m)[n] + HeldFor(m2)[n]
        /\ Sum(HeldFor(m)) \in Nat
    BY <2>1, <2>2, PartMoves
  <2> QED BY <2>2, <2>3
<1>8. /\ s.totalAVAXLiquidStakerAmt = Sum(LentBy(m))
      /\ s.vault.avax["MinipoolManager"] >= Sum(HeldFor(m))
      /\ s.vault.ggp["Staking"] = SumFunctionOnSet(GGPOf(s.stakers), Owners)
  BY DEF NetOK
<1>9. /\ SumFunctionOnSet(GGPOf(st2), Owners)
           = SumFunctionOnSet(GGPOf(s.stakers), Owners) - s.stakers[o].ggpStaked + t.ggpStaked
      /\ SumFunctionOnSet(GGPOf(s.stakers), Owners) \in Nat
  BY <1>1, GGPMoves
<1>10. /\ Held(mq) \in Nat /\ Held(mp) \in Nat /\ t.ggpStaked \in Nat
       /\ s.stakers[o].ggpStaked \in Nat
  <2>1. mp \in Minipool /\ s.stakers[o] \in Staking!Staker
    BY <1>1
  <2> QED BY <2>1, PartsType, StakerFields
<1>11. l = Sum(LentBy(m2))
  <2> HIDE DEF m2, m
  <2>1. l = s.totalAVAXLiquidStakerAmt - Lent(mp) + Lent(mq)
    BY DEF mp, m
  <2> HIDE DEF mp
  <2> QED BY <1>6, <1>8, <2>1
<1>12. v.avax["MinipoolManager"] >= Sum(HeldFor(m2))
  <2>1. v.avax["MinipoolManager"] - Held(mq) >= s.vault.avax["MinipoolManager"] - Held(mp)
    OBVIOUS
  <2> HIDE DEF m2, m, mp
  <2> QED BY <1>1, <1>7, <1>8, <1>10, <2>1
<1>13. v.ggp["Staking"] = SumFunctionOnSet(GGPOf(st2), Owners)
  <2>1. v.ggp["Staking"] - t.ggpStaked = s.vault.ggp["Staking"] - s.stakers[o].ggpStaked
    OBVIOUS
  <2> HIDE DEF st2, m2, m, mp
  <2> QED BY <1>1, <1>8, <1>9, <1>10, <2>1
<1>14. l \in Nat
  <2>1. LentBy(m2) \in [NodeIDs -> Nat] /\ IsFiniteSet(NodeIDs)
    BY <1>2, PartFunctions, NetworkConstants
  <2> HIDE DEF m2
  <2>2. \A x \in NodeIDs : LentBy(m2)[x] \in Nat
    BY <2>1
  <2> QED BY <1>11, <2>1, <2>2, SumType DEF Sum
<1>15. /\ u.minipools = m2 /\ u.totalAVAXLiquidStakerAmt = l /\ u.stakers = st2 /\ u.vault = v
       /\ u \in Network
  <2>1. m2 \in [NodeIDs -> Minipool] /\ st2 \in [Owners -> Staking!Staker]
    BY <1>2
  <2> HIDE DEF m2, st2
  <2> QED BY <1>14, <2>1, NetOfFields
<1> HIDE DEF u, m2, st2
<1>16. NetOK(u)
  BY <1>4, <1>5, <1>11, <1>12, <1>13, <1>15 DEF NetOK
<1> QED BY <1>16 DEF u, m2, st2

-----------------------------------------------------------------------------
(* The handlers of a minipool *)

(* A new minipool. *)
LEMMA NewMinipoolOK ==
  ASSUME NEW o \in Owners, NEW x \in Nat \ {0}, NEW d \in Nat, now \in Nat,
         NextActiveMultisig \in Multisigs
  PROVE  LET mq == NewMinipool(o, x, d)
         IN  /\ mq \in Minipool /\ MinipoolOK(mq) /\ mq.owner = o /\ mq.status = "Prelaunch"
             /\ Staked(mq) = x /\ Assigned(mq) = x /\ Validating(mq) = 0 /\ Lent(mq) = 0
             /\ Held(mq) = x
<1> DEFINE k == NextActiveMultisig
           z == NoMinipool
           mq == [[[[[[[[z EXCEPT !.status = "Prelaunch"] EXCEPT !.owner = o]
                    EXCEPT !.multisigAddr = k] EXCEPT !.duration = d]
                    EXCEPT !.avaxNodeOpInitialAmt = x] EXCEPT !.avaxNodeOpAmt = x]
                    EXCEPT !.avaxLiquidStakerAmt = x] EXCEPT !.creationTime = now]
<1>0. /\ z \in Minipool /\ z.avaxNodeOpRewardAmt = 0 /\ z.avaxLiquidStakerRewardAmt = 0
  BY DEF NoMinipool, Minipool, Statuses
<1> HIDE DEF z
<1>1. NewMinipool(o, x, d) = mq
  <2>1. NewMinipool(o, x, d) = [z EXCEPT !.status = "Prelaunch", !.owner = o,
                     !.multisigAddr = k, !.duration = d,
                     !.avaxNodeOpInitialAmt = x, !.avaxNodeOpAmt = x,
                     !.avaxLiquidStakerAmt = x, !.creationTime = now]
    BY DEF NewMinipool, z
  <2> HIDE DEF k
  <2>2. [z EXCEPT !.status = "Prelaunch", !.owner = o,
                     !.multisigAddr = k, !.duration = d,
                     !.avaxNodeOpInitialAmt = x, !.avaxNodeOpAmt = x,
                     !.avaxLiquidStakerAmt = x, !.creationTime = now] = mq
    BY <1>0 DEF Minipool
  <2> QED BY <2>1, <2>2
<1> HIDE DEF k
<1>2. k \in Multisigs /\ "Prelaunch" \in Statuses
  BY DEF k, Statuses
<1>3. /\ mq \in Minipool /\ mq.status = "Prelaunch" /\ mq.owner = o /\ mq.multisigAddr = k
      /\ mq.avaxNodeOpAmt = x /\ mq.avaxLiquidStakerAmt = x
      /\ mq.avaxNodeOpRewardAmt = 0 /\ mq.avaxLiquidStakerRewardAmt = 0
  BY <1>0, <1>2 DEF Minipool
<1> HIDE DEF mq
<1>4. MinipoolOK(mq)
  BY <1>2, <1>3 DEF MinipoolOK, Unpaid, Active
<1>5. /\ Staked(mq) = x /\ Assigned(mq) = x /\ Validating(mq) = 0 /\ Lent(mq) = 0
      /\ Held(mq) = x
  BY <1>3 DEF Staked, Assigned, Validating, Lent, Held, TotalAvaxAmt, Unpaid, Active,
              AtWork, InVault
<1> QED BY <1>1, <1>3, <1>4, <1>5

(* A minipool of which only the status changes. *)
LEMMA StatusOK ==
  ASSUME NEW mp \in Minipool, NEW new \in Statuses
  PROVE  LET mq == [mp EXCEPT !.status = new]
         IN  /\ mq \in Minipool /\ mq.status = new /\ mq.owner = mp.owner
             /\ mq.multisigAddr = mp.multisigAddr
             /\ mq.avaxNodeOpAmt = mp.avaxNodeOpAmt
             /\ mq.avaxLiquidStakerAmt = mp.avaxLiquidStakerAmt
             /\ mq.avaxNodeOpRewardAmt = mp.avaxNodeOpRewardAmt
             /\ mq.avaxLiquidStakerRewardAmt = mp.avaxLiquidStakerRewardAmt
BY DEF Minipool

(* The minipool of _cancelMinipoolAndReturnFunds, before and after *)
LEMMA CancelMinipoolOK ==
  ASSUME NEW mp \in Minipool, MinipoolOK(mp), mp.status = "Prelaunch"
  PROVE  LET mq == [mp EXCEPT !.status = "Canceled"]
         IN  /\ mq \in Minipool /\ MinipoolOK(mq) /\ mq.owner = mp.owner
             /\ mq.status = "Canceled"
             /\ Staked(mp) = mp.avaxNodeOpAmt /\ Assigned(mp) = mp.avaxLiquidStakerAmt
             /\ Validating(mp) = 0 /\ Lent(mp) = 0 /\ Held(mp) = mp.avaxNodeOpAmt
             /\ mq.status \notin Unpaid
<1> DEFINE mq == [mp EXCEPT !.status = "Canceled"]
<1>0. "Canceled" \in Statuses
  BY DEF Statuses
<1>1. /\ mq \in Minipool /\ mq.status = "Canceled" /\ mq.owner = mp.owner
      /\ mq.multisigAddr = mp.multisigAddr
  BY <1>0, StatusOK
<1> HIDE DEF mq
<1>2. MinipoolOK(mq) /\ mq.status \notin Unpaid
  BY <1>1 DEF MinipoolOK, Unpaid, Active
<1>3. mp.avaxNodeOpRewardAmt = 0 /\ mp.avaxNodeOpAmt \in Nat
  BY MinipoolFields DEF MinipoolOK, Unpaid, Active
<1>4. /\ Staked(mp) = mp.avaxNodeOpAmt /\ Assigned(mp) = mp.avaxLiquidStakerAmt
      /\ Validating(mp) = 0 /\ Lent(mp) = 0 /\ Held(mp) = mp.avaxNodeOpAmt
  BY <1>3 DEF Staked, Assigned, Validating, Lent, Held, TotalAvaxAmt, Unpaid, Active,
              AtWork, InVault
<1> QED BY <1>1, <1>2, <1>4 DEF mq

(* The minipool of withdrawMinipoolFunds *)
LEMMA FinishMinipoolOK ==
  ASSUME NEW mp \in Minipool, MinipoolOK(mp), mp.status \in {"Withdrawable", "Error"}
  PROVE  LET mq == [mp EXCEPT !.status = "Finished"]
         IN  /\ mq \in Minipool /\ MinipoolOK(mq) /\ mq.owner = mp.owner
             /\ mq.status = "Finished"
             /\ Staked(mp) = mp.avaxNodeOpAmt /\ Assigned(mp) = 0
             /\ Validating(mp) = 0 /\ Lent(mp) = 0 /\ Held(mp) = TotalAvaxAmt(mp)
             /\ mq.status \notin Unpaid
<1> DEFINE mq == [mp EXCEPT !.status = "Finished"]
<1>0. "Finished" \in Statuses
  BY DEF Statuses
<1>1. /\ mq \in Minipool /\ mq.status = "Finished" /\ mq.owner = mp.owner
      /\ mq.multisigAddr = mp.multisigAddr
  BY <1>0, StatusOK
<1> HIDE DEF mq
<1>2. MinipoolOK(mq) /\ mq.status \notin Unpaid
  BY <1>1 DEF MinipoolOK, Unpaid, Active
<1>4. /\ Staked(mp) = mp.avaxNodeOpAmt /\ Assigned(mp) = 0
      /\ Validating(mp) = 0 /\ Lent(mp) = 0 /\ Held(mp) = TotalAvaxAmt(mp)
  BY DEF Staked, Assigned, Validating, Lent, Held, Unpaid, Active, AtWork, InVault
<1> QED BY <1>1, <1>2, <1>4 DEF mq

(* The minipool of claimAndInitiateStaking *)
LEMMA LaunchMinipoolOK ==
  ASSUME NEW mp \in Minipool, MinipoolOK(mp), mp.status = "Prelaunch"
  PROVE  LET mq == [mp EXCEPT !.status = "Launched"]
         IN  /\ mq \in Minipool /\ MinipoolOK(mq) /\ mq.owner = mp.owner
             /\ mq.status = "Launched"
             /\ Staked(mq) = Staked(mp) /\ Assigned(mq) = Assigned(mp)
             /\ Validating(mp) = 0 /\ Validating(mq) = 0
             /\ Lent(mp) = 0 /\ Lent(mq) = mp.avaxLiquidStakerAmt
             /\ Held(mp) = mp.avaxNodeOpAmt /\ Held(mq) = 0
             /\ mq.avaxNodeOpAmt = mp.avaxNodeOpAmt
<1> DEFINE mq == [mp EXCEPT !.status = "Launched"]
<1>0. "Launched" \in Statuses
  BY DEF Statuses
<1>1. /\ mq \in Minipool /\ mq.status = "Launched" /\ mq.owner = mp.owner
      /\ mq.multisigAddr = mp.multisigAddr
      /\ mq.avaxNodeOpAmt = mp.avaxNodeOpAmt
      /\ mq.avaxLiquidStakerAmt = mp.avaxLiquidStakerAmt
      /\ mq.avaxNodeOpRewardAmt = mp.avaxNodeOpRewardAmt
  BY <1>0, StatusOK
<1> HIDE DEF mq
<1>2. MinipoolOK(mq)
  BY <1>1 DEF MinipoolOK, Unpaid, Active
<1>3. mp.avaxNodeOpRewardAmt = 0 /\ mp.avaxNodeOpAmt \in Nat
  BY MinipoolFields DEF MinipoolOK, Unpaid, Active
<1>4. /\ Staked(mq) = Staked(mp) /\ Assigned(mq) = Assigned(mp)
      /\ Validating(mp) = 0 /\ Validating(mq) = 0
      /\ Lent(mp) = 0 /\ Lent(mq) = mp.avaxLiquidStakerAmt
      /\ Held(mp) = mp.avaxNodeOpAmt /\ Held(mq) = 0
  BY <1>1, <1>3 DEF Staked, Assigned, Validating, Lent, Held, TotalAvaxAmt, Unpaid, Active,
              AtWork, InVault
<1> QED BY <1>1, <1>2, <1>4 DEF mq

(* The minipool of recordStakingStart *)
LEMMA StartMinipoolOK ==
  ASSUME NEW mp \in Minipool, MinipoolOK(mp), mp.status = "Launched", NEW time \in Nat
  PROVE  LET mq == Started(mp, time)
         IN  /\ mq \in Minipool /\ MinipoolOK(mq) /\ mq.owner = mp.owner
             /\ mq.status = "Staking"
             /\ Staked(mq) = Staked(mp) /\ Assigned(mq) = Assigned(mp)
             /\ Assigned(mp) = mp.avaxLiquidStakerAmt /\ mp.avaxLiquidStakerAmt \in Nat \ {0}
             /\ Validating(mp) = 0 /\ Validating(mq) = mp.avaxLiquidStakerAmt
             /\ Lent(mq) = Lent(mp) /\ Held(mp) = 0 /\ Held(mq) = 0
             /\ mq.avaxNodeOpAmt = mp.avaxNodeOpAmt
<1> DEFINE i == IF mp.initialStartTime = 0 THEN time ELSE mp.initialStartTime
           mq == [[[mp EXCEPT !.status = "Staking"] EXCEPT !.startTime = time]
                    EXCEPT !.initialStartTime = i]
<1>0. i \in Nat /\ "Staking" \in Statuses
  BY MinipoolFields DEF Statuses
<1>1. mq = Started(mp, time)
  BY DEF Minipool, Started
<1> HIDE DEF i
<1>2. /\ mq \in Minipool /\ mq.status = "Staking" /\ mq.owner = mp.owner
      /\ mq.multisigAddr = mp.multisigAddr
      /\ mq.avaxNodeOpAmt = mp.avaxNodeOpAmt
      /\ mq.avaxLiquidStakerAmt = mp.avaxLiquidStakerAmt
      /\ mq.avaxNodeOpRewardAmt = mp.avaxNodeOpRewardAmt
  BY <1>0 DEF Minipool
<1> HIDE DEF mq
<1>3. MinipoolOK(mq)
  BY <1>2 DEF MinipoolOK, Unpaid, Active
<1>4. mp.avaxLiquidStakerAmt \in Nat \ {0}
  BY MinipoolFields DEF MinipoolOK, Unpaid, Active
<1>5. /\ Staked(mq) = Staked(mp) /\ Assigned(mq) = Assigned(mp)
      /\ Assigned(mp) = mp.avaxLiquidStakerAmt
      /\ Validating(mp) = 0 /\ Validating(mq) = mp.avaxLiquidStakerAmt
      /\ Lent(mq) = Lent(mp) /\ Held(mp) = 0 /\ Held(mq) = 0
  BY <1>2 DEF Staked, Assigned, Validating, Lent, Held, Unpaid, Active, AtWork, InVault
<1> QED BY <1>1, <1>2, <1>3, <1>4, <1>5

(* The minipool of recordStakingEnd *)
LEMMA EndMinipoolOK ==
  ASSUME NEW mp \in Minipool, MinipoolOK(mp), mp.status = "Staking",
         NEW reward \in Nat, NEW g \in Nat
  PROVE  LET a == NodeOpReward(reward)
             b == LiquidReward(reward)
             mq == Ended(mp, reward, g)
         IN  /\ mq \in Minipool /\ MinipoolOK(mq) /\ mq.owner = mp.owner
             /\ mq.status = "Withdrawable"
             /\ Staked(mq) = Staked(mp) /\ Assigned(mp) = mp.avaxLiquidStakerAmt
             /\ Assigned(mq) = 0
             /\ Validating(mp) = mp.avaxLiquidStakerAmt /\ Validating(mq) = 0
             /\ Lent(mp) = mp.avaxLiquidStakerAmt /\ Lent(mq) = 0
             /\ Held(mp) = 0 /\ Held(mq) = mp.avaxNodeOpAmt + a
             /\ mq.avaxNodeOpAmt = mp.avaxNodeOpAmt
             /\ mq.avaxLiquidStakerRewardAmt = b /\ mq.avaxNodeOpRewardAmt = a
<1> DEFINE a == NodeOpReward(reward)
           b == LiquidReward(reward)
           i == mp.ggpSlashAmt + g
           mq == [[[[mp EXCEPT !.status = "Withdrawable"] EXCEPT !.avaxNodeOpRewardAmt = a]
                    EXCEPT !.avaxLiquidStakerRewardAmt = b] EXCEPT !.ggpSlashAmt = i]
<1>0. i \in Nat /\ "Withdrawable" \in Statuses
  BY MinipoolFields DEF Statuses
<1>1. mq = Ended(mp, reward, g)
  <2>1. Ended(mp, reward, g)
          = [mp EXCEPT !.status = "Withdrawable", !.avaxNodeOpRewardAmt = a,
                       !.avaxLiquidStakerRewardAmt = b, !.ggpSlashAmt = i]
    BY DEF Ended
  <2> HIDE DEF a, b
  <2> QED BY <2>1 DEF Minipool
<1>6. a \in Nat /\ b \in Nat /\ b <= a
  BY RewardSplit
<1> HIDE DEF i, a, b
<1>2. /\ mq \in Minipool /\ mq.status = "Withdrawable" /\ mq.owner = mp.owner
      /\ mq.multisigAddr = mp.multisigAddr
      /\ mq.avaxNodeOpAmt = mp.avaxNodeOpAmt
      /\ mq.avaxLiquidStakerAmt = mp.avaxLiquidStakerAmt
      /\ mq.avaxNodeOpRewardAmt = a /\ mq.avaxLiquidStakerRewardAmt = b
  BY <1>0, <1>6 DEF Minipool
<1> HIDE DEF mq
<1>3. MinipoolOK(mq)
  BY <1>2, <1>6 DEF MinipoolOK, Unpaid, Active
<1>5. /\ Staked(mq) = Staked(mp) /\ Assigned(mp) = mp.avaxLiquidStakerAmt
      /\ Assigned(mq) = 0
      /\ Validating(mp) = mp.avaxLiquidStakerAmt /\ Validating(mq) = 0
      /\ Lent(mp) = mp.avaxLiquidStakerAmt /\ Lent(mq) = 0
      /\ Held(mp) = 0 /\ Held(mq) = mp.avaxNodeOpAmt + a
  BY <1>2 DEF Staked, Assigned, Validating, Lent, Held, TotalAvaxAmt, Unpaid, Active, AtWork,
              InVault
<1> QED BY <1>1, <1>2, <1>3, <1>5, <1>6 DEF a, b

(* The minipool of recreateMinipool, of which the rewards of the liquid *)
(* stakers are compounded on both sides                                 *)
LEMMA RecreateMinipoolOK ==
  ASSUME NEW mp \in Minipool, MinipoolOK(mp), mp.status = "Withdrawable"
  PROVE  LET c == CompoundedAvaxAmt(mp)
             mq == Recreated(mp)
         IN  /\ c \in Nat \ {0} /\ c = mp.avaxNodeOpAmt + mp.avaxLiquidStakerRewardAmt
             /\ mq \in Minipool /\ MinipoolOK(mq) /\ mq.owner = mp.owner
             /\ mq.status = "Prelaunch" /\ mq.avaxNodeOpAmt = c /\ mq.avaxLiquidStakerAmt = c
             /\ Staked(mp) = mp.avaxNodeOpAmt /\ Staked(mq) = c
             /\ Assigned(mp) = 0 /\ Assigned(mq) = c
             /\ Validating(mp) = 0 /\ Validating(mq) = 0
             /\ Lent(mp) = 0 /\ Lent(mq) = 0 /\ Held(mq) = c /\ Held(mq) <= Held(mp)
<1> DEFINE c == CompoundedAvaxAmt(mp)
           mq == [[[[[[mp EXCEPT !.status = "Prelaunch"] EXCEPT !.startTime = 0]
                    EXCEPT !.avaxNodeOpAmt = c] EXCEPT !.avaxLiquidStakerAmt = c]
                    EXCEPT !.avaxNodeOpRewardAmt = 0] EXCEPT !.avaxLiquidStakerRewardAmt = 0]
<1>0. /\ c \in Nat \ {0} /\ "Prelaunch" \in Statuses
      /\ c = mp.avaxNodeOpAmt + mp.avaxLiquidStakerRewardAmt
  BY MinipoolFields DEF Statuses, CompoundedAvaxAmt, MinipoolOK, Unpaid, Active
<1>1. mq = Recreated(mp)
  <2>1. Recreated(mp)
          = [mp EXCEPT !.status = "Prelaunch", !.startTime = 0,
                       !.avaxNodeOpAmt = c, !.avaxLiquidStakerAmt = c,
                       !.avaxNodeOpRewardAmt = 0, !.avaxLiquidStakerRewardAmt = 0]
    BY DEF Recreated
  <2> HIDE DEF c
  <2> QED BY <2>1 DEF Minipool
<1> HIDE DEF c
<1>2. /\ mq \in Minipool /\ mq.status = "Prelaunch" /\ mq.owner = mp.owner
      /\ mq.multisigAddr = mp.multisigAddr
      /\ mq.avaxNodeOpAmt = c /\ mq.avaxLiquidStakerAmt = c
      /\ mq.avaxNodeOpRewardAmt = 0 /\ mq.avaxLiquidStakerRewardAmt = 0
  BY <1>0 DEF Minipool
<1> HIDE DEF mq
<1>3. MinipoolOK(mq)
  BY <1>0, <1>2 DEF MinipoolOK, Unpaid, Active
<1>4. /\ mp.avaxLiquidStakerRewardAmt <= mp.avaxNodeOpRewardAmt
      /\ mp.avaxLiquidStakerRewardAmt \in Nat /\ mp.avaxNodeOpRewardAmt \in Nat
      /\ mp.avaxNodeOpAmt \in Nat
  BY MinipoolFields DEF MinipoolOK
<1>5. /\ Staked(mp) = mp.avaxNodeOpAmt /\ Staked(mq) = c
      /\ Assigned(mp) = 0 /\ Assigned(mq) = c
      /\ Validating(mp) = 0 /\ Validating(mq) = 0
      /\ Lent(mp) = 0 /\ Lent(mq) = 0 /\ Held(mq) = c + 0
      /\ Held(mp) = mp.avaxNodeOpAmt + mp.avaxNodeOpRewardAmt
  BY <1>2 DEF Staked, Assigned, Validating, Lent, Held, TotalAvaxAmt, Unpaid, Active, AtWork,
              InVault
<1>6. Held(mq) = c /\ Held(mq) <= Held(mp)
  BY <1>0, <1>4, <1>5
<1> QED BY <1>0, <1>1, <1>2, <1>3, <1>5, <1>6 DEF c

(* The minipool of recordStakingError *)
LEMMA ErrorMinipoolOK ==
  ASSUME NEW mp \in Minipool, MinipoolOK(mp), mp.status = "Launched"
  PROVE  LET mq == Failed(mp)
         IN  /\ mq \in Minipool /\ MinipoolOK(mq) /\ mq.owner = mp.owner
             /\ mq.status = "Error"
             /\ Staked(mq) = Staked(mp)
             /\ Assigned(mp) = mp.avaxLiquidStakerAmt /\ Assigned(mq) = 0
             /\ Validating(mp) = 0 /\ Validating(mq) = 0
             /\ Lent(mp) = mp.avaxLiquidStakerAmt /\ Lent(mq) = 0
             /\ Held(mp) = 0 /\ Held(mq) = mp.avaxNodeOpAmt
<1> DEFINE mq == [[[mp EXCEPT !.status = "Error"] EXCEPT !.avaxNodeOpRewardAmt = 0]
                    EXCEPT !.avaxLiquidStakerRewardAmt = 0]
<1>0. "Error" \in Statuses
  BY DEF Statuses
<1>1. mq = Failed(mp)
  BY DEF Minipool, Failed
<1>2. /\ mq \in Minipool /\ mq.status = "Error" /\ mq.owner = mp.owner
      /\ mq.multisigAddr = mp.multisigAddr
      /\ mq.avaxNodeOpAmt = mp.avaxNodeOpAmt
      /\ mq.avaxLiquidStakerAmt = mp.avaxLiquidStakerAmt
      /\ mq.avaxNodeOpRewardAmt = 0 /\ mq.avaxLiquidStakerRewardAmt = 0
  BY <1>0 DEF Minipool
<1> HIDE DEF mq
<1>3. MinipoolOK(mq)
  BY <1>2 DEF MinipoolOK, Unpaid, Active
<1>4. mp.avaxNodeOpAmt \in Nat
  BY MinipoolFields
<1>5. /\ Staked(mq) = Staked(mp) /\ Assigned(mp) = mp.avaxLiquidStakerAmt /\ Assigned(mq) = 0
      /\ Validating(mp) = 0 /\ Validating(mq) = 0
      /\ Lent(mp) = mp.avaxLiquidStakerAmt /\ Lent(mq) = 0
      /\ Held(mp) = 0 /\ Held(mq) = mp.avaxNodeOpAmt
  BY <1>2, <1>4 DEF Staked, Assigned, Validating, Lent, Held, TotalAvaxAmt, Unpaid, Active,
              AtWork, InVault
<1> QED BY <1>1, <1>2, <1>3, <1>5

-----------------------------------------------------------------------------
(* The handlers on the storage *)

(* The storage with a record, a minipool, the Vault written. *)
PutSMV(s, n, mq, o, t, v) ==
  [s EXCEPT !.stakers[o] = t, !.minipools[n] = mq, !.vault = v]

(* What that storage is, part by part *)
LEMMA WriteSMV ==
  ASSUME NEW s \in Network, NEW n, NEW mq, NEW o, NEW t, NEW v
  PROVE  PutSMV(s, n, mq, o, t, v)
           = NetOf([s.minipools EXCEPT ![n] = mq], s.totalAVAXLiquidStakerAmt, [s.stakers EXCEPT ![o] = t], v)
<1> DEFINE a == s.minipools
           b == s.totalAVAXLiquidStakerAmt
           c == s.stakers
           d == s.vault
           s1 == [s EXCEPT !.stakers[o] = t]
           s2 == [s1 EXCEPT !.minipools[n] = mq]
           s3 == [s2 EXCEPT !.vault = v]
<1>0. s = NetOf(a, b, c, d)
  BY NetworkFields
<1> HIDE DEF a, b, c, d
<1>1. s1 = NetOf(a, b, [c EXCEPT ![o] = t], d)
  <2> QED BY <1>0 DEF NetOf
<1>2. s2 = NetOf([a EXCEPT ![n] = mq], b, [c EXCEPT ![o] = t], d)
  <2> HIDE DEF s1
  <2> QED BY <1>1 DEF NetOf
<1>3. s3 = NetOf([a EXCEPT ![n] = mq], b, [c EXCEPT ![o] = t], v)
  <2> HIDE DEF s2
  <2> QED BY <1>2 DEF NetOf
<1> QED BY <1>3 DEF a, b, c, d, PutSMV

(* The storage with a minipool, a record written. *)
PutMS(s, n, mq, o, t) ==
  [s EXCEPT !.minipools[n] = mq, !.stakers[o] = t]

(* What that storage is, part by part *)
LEMMA WriteMS ==
  ASSUME NEW s \in Network, NEW n, NEW mq, NEW o, NEW t
  PROVE  PutMS(s, n, mq, o, t)
           = NetOf([s.minipools EXCEPT ![n] = mq], s.totalAVAXLiquidStakerAmt, [s.stakers EXCEPT ![o] = t], s.vault)
<1> DEFINE a == s.minipools
           b == s.totalAVAXLiquidStakerAmt
           c == s.stakers
           d == s.vault
           s1 == [s EXCEPT !.minipools[n] = mq]
           s2 == [s1 EXCEPT !.stakers[o] = t]
<1>0. s = NetOf(a, b, c, d)
  BY NetworkFields
<1> HIDE DEF a, b, c, d
<1>1. s1 = NetOf([a EXCEPT ![n] = mq], b, c, d)
  <2> QED BY <1>0 DEF NetOf
<1>2. s2 = NetOf([a EXCEPT ![n] = mq], b, [c EXCEPT ![o] = t], d)
  <2> HIDE DEF s1
  <2> QED BY <1>1 DEF NetOf
<1> QED BY <1>2 DEF a, b, c, d, PutMS

(* The storage with a record, the Vault written. *)
PutSV(s, o, t, v) ==
  [s EXCEPT !.stakers[o] = t, !.vault = v]

(* What that storage is, part by part *)
LEMMA WriteSV ==
  ASSUME NEW s \in Network, NEW o, NEW t, NEW v
  PROVE  PutSV(s, o, t, v)
           = NetOf(s.minipools, s.totalAVAXLiquidStakerAmt, [s.stakers EXCEPT ![o] = t], v)
<1> DEFINE a == s.minipools
           b == s.totalAVAXLiquidStakerAmt
           c == s.stakers
           d == s.vault
           s1 == [s EXCEPT !.stakers[o] = t]
           s2 == [s1 EXCEPT !.vault = v]
<1>0. s = NetOf(a, b, c, d)
  BY NetworkFields
<1> HIDE DEF a, b, c, d
<1>1. s1 = NetOf(a, b, [c EXCEPT ![o] = t], d)
  <2> QED BY <1>0 DEF NetOf
<1>2. s2 = NetOf(a, b, [c EXCEPT ![o] = t], v)
  <2> HIDE DEF s1
  <2> QED BY <1>1 DEF NetOf
<1> QED BY <1>2 DEF a, b, c, d, PutSV

(* The storage with a minipool, the loans, the Vault written. *)
PutMLV(s, n, mq, v, l) ==
  [s EXCEPT !.minipools[n] = mq, !.totalAVAXLiquidStakerAmt = l, !.vault = v]

(* What that storage is, part by part *)
LEMMA WriteMLV ==
  ASSUME NEW s \in Network, NEW n, NEW mq, NEW v, NEW l
  PROVE  PutMLV(s, n, mq, v, l)
           = NetOf([s.minipools EXCEPT ![n] = mq], l, s.stakers, v)
<1> DEFINE a == s.minipools
           b == s.totalAVAXLiquidStakerAmt
           c == s.stakers
           d == s.vault
           s1 == [s EXCEPT !.minipools[n] = mq]
           s2 == [s1 EXCEPT !.totalAVAXLiquidStakerAmt = l]
           s3 == [s2 EXCEPT !.vault = v]
<1>0. s = NetOf(a, b, c, d)
  BY NetworkFields
<1> HIDE DEF a, b, c, d
<1>1. s1 = NetOf([a EXCEPT ![n] = mq], b, c, d)
  <2> QED BY <1>0 DEF NetOf
<1>2. s2 = NetOf([a EXCEPT ![n] = mq], l, c, d)
  <2> HIDE DEF s1
  <2> QED BY <1>1 DEF NetOf
<1>3. s3 = NetOf([a EXCEPT ![n] = mq], l, c, v)
  <2> HIDE DEF s2
  <2> QED BY <1>2 DEF NetOf
<1> QED BY <1>3 DEF a, b, c, d, PutMLV

(* The storage with a minipool, the Vault, the loans, a record written. *)
PutMVLS(s, n, mq, o, t, v, l) ==
  [s EXCEPT !.minipools[n] = mq, !.vault = v, !.totalAVAXLiquidStakerAmt = l, !.stakers[o] = t]

(* What that storage is, part by part *)
LEMMA WriteMVLS ==
  ASSUME NEW s \in Network, NEW n, NEW mq, NEW o, NEW t, NEW v, NEW l
  PROVE  PutMVLS(s, n, mq, o, t, v, l)
           = NetOf([s.minipools EXCEPT ![n] = mq], l, [s.stakers EXCEPT ![o] = t], v)
<1> DEFINE a == s.minipools
           b == s.totalAVAXLiquidStakerAmt
           c == s.stakers
           d == s.vault
           s1 == [s EXCEPT !.minipools[n] = mq]
           s2 == [s1 EXCEPT !.vault = v]
           s3 == [s2 EXCEPT !.totalAVAXLiquidStakerAmt = l]
           s4 == [s3 EXCEPT !.stakers[o] = t]
<1>0. s = NetOf(a, b, c, d)
  BY NetworkFields
<1> HIDE DEF a, b, c, d
<1>1. s1 = NetOf([a EXCEPT ![n] = mq], b, c, d)
  <2> QED BY <1>0 DEF NetOf
<1>2. s2 = NetOf([a EXCEPT ![n] = mq], b, c, v)
  <2> HIDE DEF s1
  <2> QED BY <1>1 DEF NetOf
<1>3. s3 = NetOf([a EXCEPT ![n] = mq], l, c, v)
  <2> HIDE DEF s2
  <2> QED BY <1>2 DEF NetOf
<1>4. s4 = NetOf([a EXCEPT ![n] = mq], l, [c EXCEPT ![o] = t], v)
  <2> HIDE DEF s3
  <2> QED BY <1>3 DEF NetOf
<1> QED BY <1>4 DEF a, b, c, d, PutMVLS

(* The storage with a minipool, the Vault, a record, the loans written. *)
PutMVSL(s, n, mq, o, t, v, l) ==
  [s EXCEPT !.minipools[n] = mq, !.vault = v, !.stakers[o] = t, !.totalAVAXLiquidStakerAmt = l]

(* What that storage is, part by part *)
LEMMA WriteMVSL ==
  ASSUME NEW s \in Network, NEW n, NEW mq, NEW o, NEW t, NEW v, NEW l
  PROVE  PutMVSL(s, n, mq, o, t, v, l)
           = NetOf([s.minipools EXCEPT ![n] = mq], l, [s.stakers EXCEPT ![o] = t], v)
<1> DEFINE a == s.minipools
           b == s.totalAVAXLiquidStakerAmt
           c == s.stakers
           d == s.vault
           s1 == [s EXCEPT !.minipools[n] = mq]
           s2 == [s1 EXCEPT !.vault = v]
           s3 == [s2 EXCEPT !.stakers[o] = t]
           s4 == [s3 EXCEPT !.totalAVAXLiquidStakerAmt = l]
<1>0. s = NetOf(a, b, c, d)
  BY NetworkFields
<1> HIDE DEF a, b, c, d
<1>1. s1 = NetOf([a EXCEPT ![n] = mq], b, c, d)
  <2> QED BY <1>0 DEF NetOf
<1>2. s2 = NetOf([a EXCEPT ![n] = mq], b, c, v)
  <2> HIDE DEF s1
  <2> QED BY <1>1 DEF NetOf
<1>3. s3 = NetOf([a EXCEPT ![n] = mq], b, [c EXCEPT ![o] = t], v)
  <2> HIDE DEF s2
  <2> QED BY <1>2 DEF NetOf
<1>4. s4 = NetOf([a EXCEPT ![n] = mq], l, [c EXCEPT ![o] = t], v)
  <2> HIDE DEF s3
  <2> QED BY <1>3 DEF NetOf
<1> QED BY <1>4 DEF a, b, c, d, PutMVSL

(* The storage with the Vault written. *)
PutV(s, v) ==
  [s EXCEPT !.vault = v]

(* What that storage is, part by part *)
LEMMA WriteV ==
  ASSUME NEW s \in Network, NEW v
  PROVE  PutV(s, v)
           = NetOf(s.minipools, s.totalAVAXLiquidStakerAmt, s.stakers, v)
<1> DEFINE a == s.minipools
           b == s.totalAVAXLiquidStakerAmt
           c == s.stakers
           d == s.vault
           s1 == [s EXCEPT !.vault = v]
<1>0. s = NetOf(a, b, c, d)
  BY NetworkFields
<1> HIDE DEF a, b, c, d
<1>1. s1 = NetOf(a, b, c, v)
  <2> QED BY <1>0 DEF NetOf
<1> QED BY <1>1 DEF a, b, c, d, PutV

(* createMinipool *)
LEMMA CreateOK ==
  ASSUME NEW s, NetOK(s), NEW n \in NodeIDs, NEW o \in Owners, NEW x \in Nat \ {0}, NEW d \in Nat,
         s.minipools[n].status \notin Unpaid, now \in Nat, now > 0,
         NextActiveMultisig \in Multisigs
  PROVE  LET u == Create(s, n, o, x, d)
         IN  /\ NetOK(u)
             /\ u.minipools = [s.minipools EXCEPT ![n] = NewMinipool(o, x, d)]
             /\ u.totalAVAXLiquidStakerAmt = s.totalAVAXLiquidStakerAmt
             /\ u.vault.avax["MinipoolManager"] = s.vault.avax["MinipoolManager"] + x
<1> DEFINE mp == s.minipools[n]
           mq == NewMinipool(o, x, d)
           st == s.stakers[o]
           t == Staking!StakerAfterCreate(st, x, now)
           v == Vault!DepositAVAX(s.vault, "MinipoolManager", x)
           l == s.totalAVAXLiquidStakerAmt
           u == NetOf([s.minipools EXCEPT ![n] = mq], l, [s.stakers EXCEPT ![o] = t], v)
<1>1. /\ s \in Network /\ l \in Nat /\ st \in Staking!Staker /\ ClockOK(st)
      /\ s.vault \in Vault!VaultStorage /\ mp \in Minipool
      /\ s.vault.avax["MinipoolManager"] \in Nat
  BY NetworkFields, VaultStorageFields DEF NetOK
<1>2. /\ mq \in Minipool /\ MinipoolOK(mq) /\ mq.owner = o
      /\ Staked(mq) = x /\ Assigned(mq) = x /\ Validating(mq) = 0 /\ Lent(mq) = 0
      /\ Held(mq) = x
  BY NewMinipoolOK
<1>3. /\ t \in Staking!Staker /\ ClockOK(t) /\ t.ggpStaked = st.ggpStaked
      /\ t.avaxStaked = st.avaxStaked + x /\ t.avaxAssigned = st.avaxAssigned + x
      /\ t.avaxValidating = st.avaxValidating
  <2>1. st \in Staking!Staker /\ ClockOK(st) /\ x \in Nat
    BY <1>1
  <2> HIDE DEF st
  <2> QED BY <2>1, StakerCreateOK
<1>4. /\ v \in Vault!VaultStorage /\ v.ggp = s.vault.ggp
      /\ v.avax["MinipoolManager"] = s.vault.avax["MinipoolManager"] + x
  BY <1>1, AVAXInOK
<1>5. /\ Staked(mp) = 0 /\ Assigned(mp) = 0 /\ Validating(mp) = 0 /\ Lent(mp) = 0
      /\ Held(mp) = 0
  BY Idle
<1>6. Create(s, n, o, x, d) = u
  <2>1. Create(s, n, o, x, d) = PutSMV(s, n, mq, o, t, v)
    BY DEF Create, PutSMV
  <2>2. s \in Network
    BY <1>1
  <2> HIDE DEF t, mq, v, st, mp
  <2> QED BY <2>1, <2>2, WriteSMV
<1> HIDE DEF t, mq, v, l, st, mp
<1>7. /\ st.avaxStaked \in Nat /\ st.avaxAssigned \in Nat /\ st.avaxValidating \in Nat
      /\ st.ggpStaked \in Nat /\ s.vault.ggp["Staking"] \in Nat
  BY <1>1, StakerFields, VaultStorageFields
<1>8. /\ t.avaxStaked = st.avaxStaked - Staked(mp) + Staked(mq)
      /\ t.avaxAssigned = st.avaxAssigned - Assigned(mp) + Assigned(mq)
      /\ t.avaxValidating = st.avaxValidating - Validating(mp) + Validating(mq)
      /\ l = s.totalAVAXLiquidStakerAmt - Lent(mp) + Lent(mq)
      /\ v.avax["MinipoolManager"] - Held(mq) >= s.vault.avax["MinipoolManager"] - Held(mp)
      /\ v.ggp["Staking"] - t.ggpStaked = s.vault.ggp["Staking"] - st.ggpStaked
  <2>1. l = s.totalAVAXLiquidStakerAmt
    BY DEF l
  <2> QED BY <1>1, <1>2, <1>3, <1>4, <1>5, <1>7, <2>1
<1>9. NetOK(u)
  <2>1. mp.status \notin Unpaid
    BY DEF mp
  <2> QED BY <1>1, <1>2, <1>3, <1>4, <1>8, <2>1, NodeStep DEF st, mp
<1>10. /\ u.minipools = [s.minipools EXCEPT ![n] = mq]
       /\ u.totalAVAXLiquidStakerAmt = l /\ u.vault = v
  BY NetOfFields
<1> HIDE DEF u
<1> QED BY <1>4, <1>6, <1>9, <1>10 DEF mq, l

(* _cancelMinipoolAndReturnFunds *)
LEMMA CancelOK ==
  ASSUME NEW s, NetOK(s), NEW n \in NodeIDs, CanCancel(s, n)
  PROVE  LET mp == s.minipools[n]
             u == Cancel(s, n)
         IN  /\ mp.status = "Prelaunch" /\ mp.avaxNodeOpAmt \in Nat \ {0} /\ NetOK(u)
             /\ u.minipools = [s.minipools EXCEPT ![n] = [mp EXCEPT !.status = "Canceled"]]
             /\ u.totalAVAXLiquidStakerAmt = s.totalAVAXLiquidStakerAmt
             /\ u.vault.avax["MinipoolManager"]
                  = s.vault.avax["MinipoolManager"] - mp.avaxNodeOpAmt
<1> DEFINE mp == s.minipools[n]
           o == mp.owner
           x == mp.avaxNodeOpAmt
           y == mp.avaxLiquidStakerAmt
           mq == [mp EXCEPT !.status = "Canceled"]
           st == s.stakers[o]
           t == Staking!StakerAfterCancel(st, x, y)
           v == Vault!WithdrawAVAX(s.vault, "MinipoolManager", x)
           l == s.totalAVAXLiquidStakerAmt
           u == NetOf([s.minipools EXCEPT ![n] = mq], l, [s.stakers EXCEPT ![o] = t], v)
<1>0. s \in Network /\ mp \in Minipool /\ mp.status = "Prelaunch"
  <2>1. s \in Network /\ mp \in Minipool
    BY NetworkFields DEF NetOK
  <2>2. CanMove(mp, "Canceled")
    BY DEF CanCancel
  <2> HIDE DEF mp
  <2> QED BY <2>1, <2>2, MinipoolFields, Moves
<1>1. /\ MinipoolOK(mp) /\ o \in Owners /\ st \in Staking!Staker /\ ClockOK(st)
      /\ Staked(mp) <= st.avaxStaked /\ Assigned(mp) <= st.avaxAssigned
      /\ Held(mp) <= s.vault.avax["MinipoolManager"]
  BY <1>0, PartsFit
<1>2. /\ l \in Nat /\ s.vault \in Vault!VaultStorage
      /\ s.vault.avax["MinipoolManager"] \in Nat /\ s.vault.ggp["Staking"] \in Nat
  BY <1>0, NetworkFields, VaultStorageFields
<1>3. /\ mq \in Minipool /\ MinipoolOK(mq) /\ mq.owner = o /\ mq.status \notin Unpaid
      /\ Staked(mp) = x /\ Assigned(mp) = y /\ Validating(mp) = 0 /\ Lent(mp) = 0
      /\ Held(mp) = x
  <2>1. mp \in Minipool /\ MinipoolOK(mp) /\ mp.status = "Prelaunch"
    BY <1>0, <1>1
  <2> HIDE DEF mp
  <2> QED BY <2>1, CancelMinipoolOK
<1>4. x \in Nat \ {0} /\ y \in Nat
  <2> HIDE DEF mp
  <2> QED BY <1>0, <1>1, MinipoolFields DEF MinipoolOK, Unpaid, Active
<1>5. Cancel(s, n) = PutSMV(s, n, mq, o, t, v)
  BY DEF Cancel, PutSMV
<1> HIDE DEF x, y, mq
<1>6. /\ t \in Staking!Staker /\ ClockOK(t) /\ t.ggpStaked = st.ggpStaked
      /\ t.avaxStaked = st.avaxStaked - x /\ t.avaxAssigned = st.avaxAssigned - y
      /\ t.avaxValidating = st.avaxValidating
  <2> HIDE DEF st
  <2> QED BY <1>1, <1>3, <1>4, StakerCancelOK
<1>7. /\ v \in Vault!VaultStorage /\ v.ggp = s.vault.ggp
      /\ v.avax["MinipoolManager"] = s.vault.avax["MinipoolManager"] - x
  <2>1. x <= s.vault.avax["MinipoolManager"]
    BY <1>1, <1>3
  <2> QED BY <1>2, <1>4, <2>1, AVAXOutOK
<1>8. /\ Staked(mq) = 0 /\ Assigned(mq) = 0 /\ Validating(mq) = 0 /\ Lent(mq) = 0
      /\ Held(mq) = 0
  BY <1>3, Idle
<1> HIDE DEF t, v, st, mp, o
<1>9. Cancel(s, n) = u
  BY <1>0, <1>5, WriteSMV
<1>10. /\ st.avaxStaked \in Nat /\ st.avaxAssigned \in Nat /\ st.avaxValidating \in Nat
       /\ st.ggpStaked \in Nat
  BY <1>1, StakerFields
<1>11. /\ t.avaxStaked = st.avaxStaked - Staked(mp) + Staked(mq)
       /\ t.avaxAssigned = st.avaxAssigned - Assigned(mp) + Assigned(mq)
       /\ t.avaxValidating = st.avaxValidating - Validating(mp) + Validating(mq)
       /\ l = s.totalAVAXLiquidStakerAmt - Lent(mp) + Lent(mq)
       /\ v.avax["MinipoolManager"] - Held(mq) >= s.vault.avax["MinipoolManager"] - Held(mp)
       /\ v.ggp["Staking"] - t.ggpStaked = s.vault.ggp["Staking"] - st.ggpStaked
  BY <1>2, <1>3, <1>4, <1>6, <1>7, <1>8, <1>10
<1>12. NetOK(u)
  <2>1. mp.owner = o
    BY DEF o
  <2> QED BY <1>1, <1>2, <1>3, <1>6, <1>7, <1>11, <2>1, NodeStep DEF st, mp
<1>13. /\ u.minipools = [s.minipools EXCEPT ![n] = mq]
       /\ u.totalAVAXLiquidStakerAmt = l /\ u.vault = v
  BY NetOfFields
<1> HIDE DEF u
<1> QED BY <1>0, <1>4, <1>7, <1>9, <1>12, <1>13 DEF mq, x, mp

(* _withdrawMinipoolFunds *)
LEMMA WithdrawFundsOK ==
  ASSUME NEW s, NetOK(s), NEW n \in NodeIDs, CanWithdrawFunds(s, n)
  PROVE  LET mp == s.minipools[n]
             u == WithdrawFunds(s, n)
         IN  /\ mp.status \in {"Withdrawable", "Error"} /\ NetOK(u)
             /\ TotalAvaxAmt(mp) \in Nat \ {0} /\ mp \in Minipool /\ mp.owner \in Owners
             /\ u.minipools = [s.minipools EXCEPT ![n] = [mp EXCEPT !.status = "Finished"]]
             /\ u.totalAVAXLiquidStakerAmt = s.totalAVAXLiquidStakerAmt
             /\ u.vault.avax["MinipoolManager"]
                  = s.vault.avax["MinipoolManager"] - TotalAvaxAmt(mp)
<1> DEFINE mp == s.minipools[n]
           o == mp.owner
           x == mp.avaxNodeOpAmt
           y == mp.avaxLiquidStakerAmt
           w == TotalAvaxAmt(mp)
           mq == [mp EXCEPT !.status = "Finished"]
           st == s.stakers[o]
           t == Staking!DecreaseAVAXStake(st, x)
           v == Vault!WithdrawAVAX(s.vault, "MinipoolManager", w)
           l == s.totalAVAXLiquidStakerAmt
           u == NetOf([s.minipools EXCEPT ![n] = mq], l, [s.stakers EXCEPT ![o] = t], v)
<1>0. s \in Network /\ mp \in Minipool /\ mp.status \in {"Withdrawable", "Error"}
  <2>1. s \in Network /\ mp \in Minipool
    BY NetworkFields DEF NetOK
  <2>2. CanMove(mp, "Finished")
    BY DEF CanWithdrawFunds
  <2> HIDE DEF mp
  <2> QED BY <2>1, <2>2, MinipoolFields, Moves
<1>1. /\ MinipoolOK(mp) /\ o \in Owners /\ st \in Staking!Staker /\ ClockOK(st)
      /\ Staked(mp) <= st.avaxStaked /\ Assigned(mp) <= st.avaxAssigned
      /\ Validating(mp) <= st.avaxValidating /\ Lent(mp) <= s.totalAVAXLiquidStakerAmt
      /\ Held(mp) <= s.vault.avax["MinipoolManager"]
  BY <1>0, PartsFit
<1>2. /\ s.totalAVAXLiquidStakerAmt \in Nat /\ s.vault \in Vault!VaultStorage
      /\ s.vault.avax["MinipoolManager"] \in Nat /\ s.vault.ggp["Staking"] \in Nat
  BY <1>0, NetworkFields, VaultStorageFields
<1>3. /\ x \in Nat /\ y \in Nat /\ st.avaxStaked \in Nat /\ st.avaxAssigned \in Nat
      /\ st.avaxValidating \in Nat /\ st.ggpStaked \in Nat
  BY <1>0, <1>1, MinipoolFields, StakerFields
<1>4. /\ mq \in Minipool /\ MinipoolOK(mq) /\ mq.owner = o /\ mq.status \notin Unpaid
      /\ Staked(mp) = x /\ Assigned(mp) = 0 /\ Validating(mp) = 0 /\ Lent(mp) = 0
      /\ Held(mp) = w
  <2>1. mp \in Minipool /\ MinipoolOK(mp) /\ mp.status \in {"Withdrawable", "Error"}
    BY <1>0, <1>1
  <2> HIDE DEF mp
  <2> QED BY <2>1, FinishMinipoolOK
<1>5. w \in Nat \ {0}
  <2>1. mp.avaxNodeOpRewardAmt \in Nat
    BY <1>0, MinipoolFields
  <2>2. w # 0
    BY DEF CanWithdrawFunds, Vault!CanWithdrawAVAX
  <2> HIDE DEF mp
  <2> QED BY <1>3, <2>1, <2>2 DEF TotalAvaxAmt
<1>10. WithdrawFunds(s, n) = PutSMV(s, n, mq, o, t, v)
  BY DEF WithdrawFunds, PutSMV
<1> HIDE DEF w
<1>6. /\ t \in Staking!Staker /\ ClockOK(t) /\ t.ggpStaked = st.ggpStaked
      /\ t.avaxStaked = st.avaxStaked - x /\ t.avaxAssigned = st.avaxAssigned
      /\ t.avaxValidating = st.avaxValidating
  <2>1. x <= st.avaxStaked
    BY <1>1, <1>4
  <2> HIDE DEF st, x
  <2> QED BY <1>1, <1>3, <2>1, StakerWithdrawnOK
<1>7. /\ v \in Vault!VaultStorage /\ v.ggp = s.vault.ggp
      /\ v.avax["MinipoolManager"] = s.vault.avax["MinipoolManager"] - w
  <2>1. w <= s.vault.avax["MinipoolManager"]
    BY <1>1, <1>4
  <2> QED BY <1>2, <1>5, <2>1, AVAXOutOK
<1>8. /\ Staked(mq) = 0 /\ Assigned(mq) = 0 /\ Validating(mq) = 0 /\ Lent(mq) = 0
      /\ Held(mq) = 0
  <2> HIDE DEF mq
  <2> QED BY <1>4, Idle
<1>9. WithdrawFunds(s, n) = u
  <2> HIDE DEF mq, x, y, st, mp, o
  <2> HIDE DEF t, v
  <2> QED BY <1>0, <1>10, WriteSMV
<1>14. l = s.totalAVAXLiquidStakerAmt
  OBVIOUS
<1> HIDE DEF t, v, st, mp, o, x, y, mq, l
<1>11. /\ t.avaxStaked = st.avaxStaked - Staked(mp) + Staked(mq)
       /\ t.avaxAssigned = st.avaxAssigned - Assigned(mp) + Assigned(mq)
       /\ t.avaxValidating = st.avaxValidating - Validating(mp) + Validating(mq)
       /\ l = s.totalAVAXLiquidStakerAmt - Lent(mp) + Lent(mq)
       /\ v.avax["MinipoolManager"] - Held(mq) >= s.vault.avax["MinipoolManager"] - Held(mp)
       /\ v.ggp["Staking"] - t.ggpStaked = s.vault.ggp["Staking"] - st.ggpStaked
  BY <1>2, <1>3, <1>4, <1>6, <1>7, <1>8, <1>5, <1>14
<1>12. NetOK(u)
  <2>1. mp.owner = o
    BY DEF o
  <2>2. l \in Int
    BY <1>2, <1>3, <1>5, <1>14
  <2> QED BY <1>1, <1>4, <1>6, <1>7, <1>11, <2>1, <2>2, NodeStep DEF st, mp
<1>13. /\ u.minipools = [s.minipools EXCEPT ![n] = mq]
       /\ u.totalAVAXLiquidStakerAmt = l /\ u.vault = v
       /\ u.stakers = [s.stakers EXCEPT ![o] = t]
  BY NetOfFields
<1> HIDE DEF u
<1> QED BY <1>0, <1>1, <1>5, <1>7, <1>9, <1>12, <1>13, <1>14 DEF mq, w, mp, o

(* _claimAndInitiateStaking *)
LEMMA LaunchOK ==
  ASSUME NEW s, NetOK(s), NEW n \in NodeIDs, CanLaunch(s, n)
  PROVE  LET mp == s.minipools[n]
             u == Launch(s, n)
         IN  /\ mp.status = "Prelaunch" /\ NetOK(u)
             /\ mp \in Minipool /\ MinipoolOK(mp) /\ mp.avaxNodeOpAmt \in Nat \ {0}
             /\ u.minipools = [s.minipools EXCEPT ![n] = [mp EXCEPT !.status = "Launched"]]
             /\ u.totalAVAXLiquidStakerAmt = s.totalAVAXLiquidStakerAmt + mp.avaxLiquidStakerAmt
             /\ u.vault.avax["MinipoolManager"]
                  = s.vault.avax["MinipoolManager"] - mp.avaxNodeOpAmt
<1> DEFINE mp == s.minipools[n]
           o == mp.owner
           x == mp.avaxNodeOpAmt
           y == mp.avaxLiquidStakerAmt
           mq == [mp EXCEPT !.status = "Launched"]
           st == s.stakers[o]
           t == st
           v == Vault!WithdrawAVAX(s.vault, "MinipoolManager", x)
           l == s.totalAVAXLiquidStakerAmt + y
           u == NetOf([s.minipools EXCEPT ![n] = mq], l, [s.stakers EXCEPT ![o] = t], v)
<1>0. s \in Network /\ mp \in Minipool /\ mp.status = "Prelaunch"
  <2>1. s \in Network /\ mp \in Minipool
    BY NetworkFields DEF NetOK
  <2>2. CanMove(mp, "Launched")
    BY DEF CanLaunch
  <2> HIDE DEF mp
  <2> QED BY <2>1, <2>2, MinipoolFields, Moves
<1>1. /\ MinipoolOK(mp) /\ o \in Owners /\ st \in Staking!Staker /\ ClockOK(st)
      /\ Staked(mp) <= st.avaxStaked /\ Assigned(mp) <= st.avaxAssigned
      /\ Validating(mp) <= st.avaxValidating /\ Lent(mp) <= s.totalAVAXLiquidStakerAmt
      /\ Held(mp) <= s.vault.avax["MinipoolManager"]
  BY <1>0, PartsFit
<1>2. /\ s.totalAVAXLiquidStakerAmt \in Nat /\ s.vault \in Vault!VaultStorage
      /\ s.vault.avax["MinipoolManager"] \in Nat /\ s.vault.ggp["Staking"] \in Nat
  BY <1>0, NetworkFields, VaultStorageFields
<1>3. /\ x \in Nat /\ y \in Nat /\ st.avaxStaked \in Nat /\ st.avaxAssigned \in Nat
      /\ st.avaxValidating \in Nat /\ st.ggpStaked \in Nat
  BY <1>0, <1>1, MinipoolFields, StakerFields
<1>4. /\ mq \in Minipool /\ MinipoolOK(mq) /\ mq.owner = o
      /\ Staked(mq) = Staked(mp) /\ Assigned(mq) = Assigned(mp)
      /\ Validating(mp) = 0 /\ Validating(mq) = 0 /\ Lent(mp) = 0 /\ Lent(mq) = y
      /\ Held(mp) = x /\ Held(mq) = 0
  <2>1. mp \in Minipool /\ MinipoolOK(mp) /\ mp.status = "Prelaunch"
    BY <1>0, <1>1
  <2> HIDE DEF mp
  <2> QED BY <2>1, LaunchMinipoolOK
<1>5. x > 0
  BY <1>0, <1>1 DEF MinipoolOK, Unpaid, Active
<1>10. Launch(s, n) = PutMLV(s, n, mq, v, l)
  BY DEF Launch, PutMLV
<1>6. t \in Staking!Staker /\ ClockOK(t) /\ t = st
  BY <1>1
<1>7. /\ v \in Vault!VaultStorage /\ v.ggp = s.vault.ggp
      /\ v.avax["MinipoolManager"] = s.vault.avax["MinipoolManager"] - x
  <2>1. x <= s.vault.avax["MinipoolManager"]
    BY <1>1, <1>4
  <2> HIDE DEF x
  <2> QED BY <1>2, <1>3, <2>1, AVAXOutOK
<1>8. Staked(mp) \in Nat /\ Assigned(mp) \in Nat
  <2> HIDE DEF mp
  <2> QED BY <1>0, PartsType
<1>9. Launch(s, n) = u
  <2> HIDE DEF mq, x, y, st, mp, o
  <2>1. [s.stakers EXCEPT ![o] = t] = s.stakers
    <3>1. s.stakers \in [Owners -> Staking!Staker] /\ t = s.stakers[o]
      BY <1>0, NetworkFields DEF st
    <3> HIDE DEF t
    <3> QED BY <3>1
  <2> HIDE DEF t, v, l
  <2> QED BY <1>0, <1>10, <2>1, WriteMLV
<1>14. l = s.totalAVAXLiquidStakerAmt + y
  OBVIOUS
<1> HIDE DEF t, v, st, mp, o, x, y, mq, l
<1>11. /\ t.avaxStaked = st.avaxStaked - Staked(mp) + Staked(mq)
       /\ t.avaxAssigned = st.avaxAssigned - Assigned(mp) + Assigned(mq)
       /\ t.avaxValidating = st.avaxValidating - Validating(mp) + Validating(mq)
       /\ l = s.totalAVAXLiquidStakerAmt - Lent(mp) + Lent(mq)
       /\ v.avax["MinipoolManager"] - Held(mq) >= s.vault.avax["MinipoolManager"] - Held(mp)
       /\ v.ggp["Staking"] - t.ggpStaked = s.vault.ggp["Staking"] - st.ggpStaked
  BY <1>2, <1>3, <1>4, <1>6, <1>7, <1>8, <1>14
<1>12. NetOK(u)
  <2>1. mp.owner = o
    BY DEF o
  <2>2. l \in Int
    BY <1>2, <1>3, <1>14
  <2> QED BY <1>1, <1>4, <1>6, <1>7, <1>11, <2>1, <2>2, NodeStep DEF st, mp
<1>13. /\ u.minipools = [s.minipools EXCEPT ![n] = mq]
       /\ u.totalAVAXLiquidStakerAmt = l /\ u.vault = v
       /\ u.stakers = [s.stakers EXCEPT ![o] = t]
  BY NetOfFields
<1> HIDE DEF u
<1> QED BY <1>0, <1>1, <1>3, <1>5, <1>7, <1>9, <1>12, <1>13, <1>14 DEF mq, x, y, mp

(* The same as one predicate: what net u is after the launch of n in s *)
Launches(s, n, u) ==
  LET mp == s.minipools[n]
  IN  /\ mp.status = "Prelaunch" /\ NetOK(u)
      /\ mp \in Minipool /\ MinipoolOK(mp) /\ mp.avaxNodeOpAmt \in Nat \ {0}
      /\ u.minipools = [s.minipools EXCEPT ![n] = [mp EXCEPT !.status = "Launched"]]
      /\ u.totalAVAXLiquidStakerAmt = s.totalAVAXLiquidStakerAmt + mp.avaxLiquidStakerAmt
      /\ u.vault.avax["MinipoolManager"] = s.vault.avax["MinipoolManager"] - mp.avaxNodeOpAmt

(* Launch does that. *)
LEMMA LaunchLaunches ==
  ASSUME NEW s, NetOK(s), NEW n \in NodeIDs, CanLaunch(s, n)
  PROVE  Launches(s, n, Launch(s, n))
BY LaunchOK DEF Launches

(* recordStakingStart *)
LEMMA RecordStartOK ==
  ASSUME NEW s, NetOK(s), NEW n \in NodeIDs, CanMove(s.minipools[n], "Staking"), NEW time \in Nat
  PROVE  LET mp == s.minipools[n]
             u == RecordStart(s, n, time)
         IN  /\ mp.status = "Launched" /\ NetOK(u)
             /\ mp \in Minipool /\ MinipoolOK(mp)
             /\ u.minipools = [s.minipools EXCEPT ![n] =
                   Started(mp, time)]
             /\ u.totalAVAXLiquidStakerAmt = s.totalAVAXLiquidStakerAmt
             /\ u.vault.avax = s.vault.avax
<1> DEFINE mp == s.minipools[n]
           o == mp.owner
           x == mp.avaxNodeOpAmt
           y == mp.avaxLiquidStakerAmt
           mq == Started(mp, time)
           st == s.stakers[o]
           t == Staking!IncreaseAVAXValidating(st, y)
           v == s.vault
           l == s.totalAVAXLiquidStakerAmt
           u == NetOf([s.minipools EXCEPT ![n] = mq], l, [s.stakers EXCEPT ![o] = t], v)
<1>0. s \in Network /\ mp \in Minipool /\ mp.status = "Launched"
  <2>1. s \in Network /\ mp \in Minipool
    BY NetworkFields DEF NetOK
  <2> HIDE DEF mp
  <2>2. CanMove(mp, "Staking")
    BY DEF mp
  <2> QED BY <2>1, <2>2, MinipoolFields, Moves
<1>1. /\ MinipoolOK(mp) /\ o \in Owners /\ st \in Staking!Staker /\ ClockOK(st)
      /\ Staked(mp) <= st.avaxStaked /\ Assigned(mp) <= st.avaxAssigned
      /\ Validating(mp) <= st.avaxValidating /\ Lent(mp) <= s.totalAVAXLiquidStakerAmt
      /\ Held(mp) <= s.vault.avax["MinipoolManager"]
  BY <1>0, PartsFit
<1>2. /\ s.totalAVAXLiquidStakerAmt \in Nat /\ s.vault \in Vault!VaultStorage
      /\ s.vault.avax["MinipoolManager"] \in Nat /\ s.vault.ggp["Staking"] \in Nat
  BY <1>0, NetworkFields, VaultStorageFields
<1>3. /\ x \in Nat /\ y \in Nat /\ st.avaxStaked \in Nat /\ st.avaxAssigned \in Nat
      /\ st.avaxValidating \in Nat /\ st.ggpStaked \in Nat
  BY <1>0, <1>1, MinipoolFields, StakerFields
<1>4. /\ mq \in Minipool /\ MinipoolOK(mq) /\ mq.owner = o
      /\ Staked(mq) = Staked(mp) /\ Assigned(mq) = Assigned(mp)
      /\ Assigned(mp) = y /\ y \in Nat \ {0} /\ Validating(mp) = 0 /\ Validating(mq) = y
      /\ Lent(mq) = Lent(mp) /\ Held(mp) = 0 /\ Held(mq) = 0
  <2>1. mp \in Minipool /\ MinipoolOK(mp) /\ mp.status = "Launched"
    BY <1>0, <1>1
  <2> HIDE DEF mp
  <2> QED BY <2>1, StartMinipoolOK
<1>10. RecordStart(s, n, time) = PutMS(s, n, mq, o, t)
  BY DEF RecordStart, PutMS
<1>6. /\ t \in Staking!Staker /\ ClockOK(t) /\ t.ggpStaked = st.ggpStaked
      /\ t.avaxStaked = st.avaxStaked /\ t.avaxAssigned = st.avaxAssigned
      /\ t.avaxValidating = st.avaxValidating + y
  <2>1. y <= st.avaxAssigned
    BY <1>1, <1>4
  <2> HIDE DEF st, y
  <2> QED BY <1>1, <1>4, <2>1, StakerStartOK
<1>7. v \in Vault!VaultStorage /\ v = s.vault
  BY <1>2
<1>8. /\ Staked(mp) \in Nat /\ Assigned(mp) \in Nat /\ Lent(mp) \in Nat
  <2> HIDE DEF mp
  <2> QED BY <1>0, PartsType
<1>9. RecordStart(s, n, time) = u
  <2> HIDE DEF mq, x, y, st, mp, o
  <2> HIDE DEF t
  <2> QED BY <1>0, <1>10, WriteMS
<1>14. l = s.totalAVAXLiquidStakerAmt
  OBVIOUS
<1> HIDE DEF t, v, st, mp, o, x, y, mq, l
<1>11. /\ t.avaxStaked = st.avaxStaked - Staked(mp) + Staked(mq)
       /\ t.avaxAssigned = st.avaxAssigned - Assigned(mp) + Assigned(mq)
       /\ t.avaxValidating = st.avaxValidating - Validating(mp) + Validating(mq)
       /\ l = s.totalAVAXLiquidStakerAmt - Lent(mp) + Lent(mq)
       /\ v.avax["MinipoolManager"] - Held(mq) >= s.vault.avax["MinipoolManager"] - Held(mp)
       /\ v.ggp["Staking"] - t.ggpStaked = s.vault.ggp["Staking"] - st.ggpStaked
  BY <1>2, <1>3, <1>4, <1>6, <1>7, <1>8, <1>14
<1>12. NetOK(u)
  <2>1. mp.owner = o
    BY DEF o
  <2>2. l \in Int
    BY <1>2, <1>3, <1>14
  <2> QED BY <1>1, <1>4, <1>6, <1>7, <1>11, <2>1, <2>2, NodeStep DEF st, mp
<1>13. /\ u.minipools = [s.minipools EXCEPT ![n] = mq]
       /\ u.totalAVAXLiquidStakerAmt = l /\ u.vault = v
       /\ u.stakers = [s.stakers EXCEPT ![o] = t]
  BY NetOfFields
<1> HIDE DEF u
<1> QED BY <1>0, <1>1, <1>7, <1>9, <1>12, <1>13, <1>14 DEF mq, mp

(* What is slashed at the end of a validation *)
Slashed(s, n, e, r) == IF r = 0 THEN GGPSlashAmt(s, s.minipools[n], e) ELSE 0

(* recordStakingEnd *)
LEMMA RecordEndOK ==
  ASSUME NEW s, NetOK(s), NEW n \in NodeIDs, NEW e \in Nat, NEW r \in Nat,
         CanRecordEnd(s, n, e, r), ggpPrice \in Nat \ {0}
  PROVE  LET mp == s.minipools[n]
             u == RecordEnd(s, n, e, r)
         IN  /\ mp.status = "Staking" /\ NetOK(u) /\ mp \in Minipool /\ MinipoolOK(mp)
             /\ Slashed(s, n, e, r) \in Nat
             /\ u.minipools = [s.minipools EXCEPT ![n] = Ended(mp, r, Slashed(s, n, e, r))]
             /\ u.totalAVAXLiquidStakerAmt = s.totalAVAXLiquidStakerAmt - mp.avaxLiquidStakerAmt
             /\ u.vault.avax["MinipoolManager"]
                  = s.vault.avax["MinipoolManager"] + (mp.avaxNodeOpAmt + NodeOpReward(r))
             /\ u.stakers[mp.owner].rewardsStartTime > 0
<1> DEFINE mp == s.minipools[n]
           o == mp.owner
           x == mp.avaxNodeOpAmt
           y == mp.avaxLiquidStakerAmt
           g == Slashed(s, n, e, r)
           mq == Ended(mp, r, g)
           a == NodeOpReward(r)
           w == IF r = 0 THEN Vault!TransferToken(s.vault, "Staking", "ProtocolDAO", g)
                ELSE s.vault
           st == s.stakers[o]
           t == Staking!StakerAfterEnd(st, y, g)
           v == Vault!DepositAVAX(w, "MinipoolManager", x + a)
           l == s.totalAVAXLiquidStakerAmt - y
           u == NetOf([s.minipools EXCEPT ![n] = mq], l, [s.stakers EXCEPT ![o] = t], v)
<1>0. s \in Network /\ mp \in Minipool /\ mp.status = "Staking"
  <2>1. s \in Network /\ mp \in Minipool
    BY NetworkFields DEF NetOK
  <2>2. CanMove(mp, "Withdrawable")
    BY DEF CanRecordEnd
  <2> HIDE DEF mp
  <2> QED BY <2>1, <2>2, MinipoolFields, Moves
<1>1. /\ MinipoolOK(mp) /\ o \in Owners /\ st \in Staking!Staker /\ ClockOK(st)
      /\ Staked(mp) <= st.avaxStaked /\ Assigned(mp) <= st.avaxAssigned
      /\ Validating(mp) <= st.avaxValidating /\ Lent(mp) <= s.totalAVAXLiquidStakerAmt
      /\ Held(mp) <= s.vault.avax["MinipoolManager"]
  BY <1>0, PartsFit
<1>2. /\ s.totalAVAXLiquidStakerAmt \in Nat /\ s.vault \in Vault!VaultStorage
      /\ s.vault.avax["MinipoolManager"] \in Nat /\ s.vault.ggp["Staking"] \in Nat
  BY <1>0, NetworkFields, VaultStorageFields
<1>3. /\ x \in Nat /\ y \in Nat /\ st.avaxStaked \in Nat /\ st.avaxAssigned \in Nat
      /\ st.avaxValidating \in Nat /\ st.ggpStaked \in Nat
  BY <1>0, <1>1, MinipoolFields, StakerFields
<1>5. g \in Nat /\ g <= st.ggpStaked /\ (r = 0 => g <= s.vault.ggp["Staking"])
  <2>1. CASE r # 0
    <3>1. g = 0
      BY <2>1 DEF Slashed
    <3> QED BY <1>3, <2>1, <3>1
  <2>2. CASE r = 0
    <3>1. g = GGPSlashAmt(s, mp, e)
      BY <2>2 DEF Slashed
    <3>2. e > mp.startTime /\ g <= s.vault.ggp["Staking"]
      BY <2>2, <3>1 DEF CanRecordEnd, Vault!CanTransferToken
    <3>3. mp.startTime \in Nat
      BY <1>0, MinipoolFields
    <3>4. mp.avaxLiquidStakerAmt \in Nat /\ s.stakers[mp.owner].ggpStaked \in Nat
      BY <1>3
    <3>5. GGPSlashAmt(s, mp, e) \in Nat /\ GGPSlashAmt(s, mp, e) <= s.stakers[mp.owner].ggpStaked
      <4>1. e > mp.startTime
        BY <3>2
      <4> HIDE DEF mp
      <4> QED BY <3>3, <3>4, <4>1, SlashBounds
    <3> QED BY <3>1, <3>2, <3>5
  <2> QED BY <2>1, <2>2
<1>15. RecordEnd(s, n, e, r) = PutMVLS(s, n, mq, o, t, v, l)
  BY DEF RecordEnd, PutMVLS, Slashed
<1> HIDE DEF g
<1>4. /\ mq \in Minipool /\ MinipoolOK(mq) /\ mq.owner = o
      /\ Staked(mq) = Staked(mp) /\ Assigned(mp) = y /\ Assigned(mq) = 0
      /\ Validating(mp) = y /\ Validating(mq) = 0 /\ Lent(mp) = y /\ Lent(mq) = 0
      /\ Held(mp) = 0 /\ Held(mq) = x + a
  <2>1. mp \in Minipool /\ MinipoolOK(mp) /\ mp.status = "Staking"
    BY <1>0, <1>1
  <2> HIDE DEF mp
  <2> QED BY <1>5, <2>1, EndMinipoolOK
<1>16. a \in Nat
  BY RewardSplit
<1>17. w \in Vault!VaultStorage /\ w.avax = s.vault.avax
       /\ w.ggp["Staking"] = s.vault.ggp["Staking"] - g
  <2>1. CASE r # 0
    <3>1. g = 0
      BY <2>1 DEF g, Slashed
    <3> QED BY <1>2, <2>1, <3>1
  <2>2. CASE r = 0
    <3>1. w = Vault!TransferToken(s.vault, "Staking", "ProtocolDAO", g)
      BY <2>2
    <3>2. g \in Nat /\ g <= s.vault.ggp["Staking"]
      BY <1>5, <2>2
    <3> HIDE DEF w
    <3> QED BY <1>2, <3>1, <3>2, GGPSlashOK
  <2> QED BY <2>1, <2>2
<1> HIDE DEF w, a
<1>6. /\ t \in Staking!Staker /\ ClockOK(t) /\ t.ggpStaked = st.ggpStaked - g
      /\ t.avaxStaked = st.avaxStaked /\ t.avaxAssigned = st.avaxAssigned - y
      /\ t.avaxValidating = st.avaxValidating - y
      /\ t.rewardsStartTime = st.rewardsStartTime
  <2>1. y <= st.avaxAssigned /\ y <= st.avaxValidating
    BY <1>1, <1>4
  <2> HIDE DEF st, y
  <2> QED BY <1>1, <1>3, <1>5, <2>1, StakerEndOK
<1>7. /\ v \in Vault!VaultStorage /\ v.ggp["Staking"] = s.vault.ggp["Staking"] - g
      /\ v.avax["MinipoolManager"] = s.vault.avax["MinipoolManager"] + (x + a)
  <2>1. x + a \in Nat
    BY <1>3, <1>16
  <2> DEFINE z == x + a
  <2>2. z \in Nat
    BY <2>1
  <2> HIDE DEF z
  <2>3. LET k == Vault!DepositAVAX(w, "MinipoolManager", z)
        IN  k \in Vault!VaultStorage /\ k.ggp = w.ggp
            /\ k.avax["MinipoolManager"] = w.avax["MinipoolManager"] + z
    BY <1>17, <2>2, AVAXInOK
  <2> QED BY <1>17, <2>3 DEF z
<1>8. Staked(mp) \in Nat
  <2> HIDE DEF mp
  <2> QED BY <1>0, PartsType
<1>18. st.rewardsStartTime > 0
  <2>1. y > 0
    BY <1>0, <1>1, <1>3 DEF MinipoolOK, Active, Unpaid
  <2>2. y <= st.avaxAssigned
    BY <1>1, <1>4
  <2> HIDE DEF st, y
  <2> QED BY <1>1, <1>3, <2>1, <2>2 DEF ClockOK

<1>9. RecordEnd(s, n, e, r) = u
  <2> HIDE DEF mq, x, y, st, mp, o
  <2> HIDE DEF t, v, l
  <2> QED BY <1>0, <1>15, WriteMVLS
<1>14. l = s.totalAVAXLiquidStakerAmt - y
  OBVIOUS
<1> HIDE DEF t, v, st, mp, o, x, y, mq, l
<1>11. /\ t.avaxStaked = st.avaxStaked - Staked(mp) + Staked(mq)
       /\ t.avaxAssigned = st.avaxAssigned - Assigned(mp) + Assigned(mq)
       /\ t.avaxValidating = st.avaxValidating - Validating(mp) + Validating(mq)
       /\ l = s.totalAVAXLiquidStakerAmt - Lent(mp) + Lent(mq)
       /\ v.avax["MinipoolManager"] - Held(mq) >= s.vault.avax["MinipoolManager"] - Held(mp)
       /\ v.ggp["Staking"] - t.ggpStaked = s.vault.ggp["Staking"] - st.ggpStaked
  BY <1>2, <1>3, <1>4, <1>6, <1>7, <1>8, <1>5, <1>14, <1>16
<1>12. NetOK(u)
  <2>1. mp.owner = o
    BY DEF o
  <2>2. l \in Int
    BY <1>2, <1>3, <1>5, <1>14, <1>16
  <2> QED BY <1>1, <1>4, <1>6, <1>7, <1>11, <2>1, <2>2, NodeStep DEF st, mp
<1>13. /\ u.minipools = [s.minipools EXCEPT ![n] = mq]
       /\ u.totalAVAXLiquidStakerAmt = l /\ u.vault = v
       /\ u.stakers = [s.stakers EXCEPT ![o] = t]
  BY NetOfFields
<1> HIDE DEF u
<1>19. u.stakers[o] = t
  <2>1. s.stakers \in [Owners -> Staking!Staker]
    BY <1>0, NetworkFields
  <2> QED BY <1>1, <1>13, <2>1
<1>20. u.stakers[o].rewardsStartTime > 0
  BY <1>6, <1>18, <1>19
<1>21. v.avax["MinipoolManager"]
         = s.vault.avax["MinipoolManager"] + (mp.avaxNodeOpAmt + NodeOpReward(r))
  BY <1>7 DEF x, a
<1>22. l = s.totalAVAXLiquidStakerAmt - mp.avaxLiquidStakerAmt
  BY <1>14 DEF y
<1> HIDE DEF NetOf
<1> QED BY <1>0, <1>1, <1>5, <1>9, <1>12, <1>13, <1>20, <1>21, <1>22 DEF mq, g, mp, o

(* recreateMinipool *)
LEMMA RecreateOK ==
  ASSUME NEW s, NetOK(s), NEW n \in NodeIDs, CanRecreate(s, n),
         s.stakers[s.minipools[n].owner].rewardsStartTime > 0
  PROVE  LET mp == s.minipools[n]
             u == Recreate(s, n)
         IN  /\ mp.status = "Withdrawable" /\ NetOK(u) /\ mp \in Minipool /\ MinipoolOK(mp)
             /\ u.minipools = [s.minipools EXCEPT ![n] = Recreated(mp)]
             /\ u.totalAVAXLiquidStakerAmt = s.totalAVAXLiquidStakerAmt
             /\ u.vault.avax = s.vault.avax
<1> DEFINE mp == s.minipools[n]
           o == mp.owner
           x == mp.avaxNodeOpAmt
           y == mp.avaxLiquidStakerAmt
           c == CompoundedAvaxAmt(mp)
           q == mp.avaxLiquidStakerRewardAmt
           mq == Recreated(mp)
           st == s.stakers[o]
           t == Staking!StakerAfterRecreate(st, q, c)
           v == s.vault
           l == s.totalAVAXLiquidStakerAmt
           u == NetOf([s.minipools EXCEPT ![n] = mq], l, [s.stakers EXCEPT ![o] = t], v)
<1>0. s \in Network /\ mp \in Minipool /\ mp.status = "Withdrawable"
  <2>1. s \in Network /\ mp \in Minipool
    BY NetworkFields DEF NetOK
  <2>2. mp.status = "Withdrawable"
    BY DEF CanRecreate
  <2> QED BY <2>1, <2>2
<1>1. /\ MinipoolOK(mp) /\ o \in Owners /\ st \in Staking!Staker /\ ClockOK(st)
      /\ Staked(mp) <= st.avaxStaked /\ Assigned(mp) <= st.avaxAssigned
      /\ Validating(mp) <= st.avaxValidating /\ Lent(mp) <= s.totalAVAXLiquidStakerAmt
      /\ Held(mp) <= s.vault.avax["MinipoolManager"]
  BY <1>0, PartsFit
<1>2. /\ s.totalAVAXLiquidStakerAmt \in Nat /\ s.vault \in Vault!VaultStorage
      /\ s.vault.avax["MinipoolManager"] \in Nat /\ s.vault.ggp["Staking"] \in Nat
  BY <1>0, NetworkFields, VaultStorageFields
<1>3. /\ x \in Nat /\ y \in Nat /\ st.avaxStaked \in Nat /\ st.avaxAssigned \in Nat
      /\ st.avaxValidating \in Nat /\ st.ggpStaked \in Nat
  BY <1>0, <1>1, MinipoolFields, StakerFields
<1>4. /\ c \in Nat /\ c = x + q
      /\ mq \in Minipool /\ MinipoolOK(mq) /\ mq.owner = o
      /\ Staked(mp) = x /\ Staked(mq) = c /\ Assigned(mp) = 0 /\ Assigned(mq) = c
      /\ Validating(mp) = 0 /\ Validating(mq) = 0 /\ Lent(mp) = 0 /\ Lent(mq) = 0
      /\ Held(mq) = c /\ Held(mq) <= Held(mp)
  <2>1. mp \in Minipool /\ MinipoolOK(mp) /\ mp.status = "Withdrawable"
    BY <1>0, <1>1
  <2> HIDE DEF mp
  <2> QED BY <2>1, RecreateMinipoolOK
<1>5. q \in Nat
  <2> HIDE DEF mp
  <2> QED BY <1>0, MinipoolFields
<1>10. Recreate(s, n) = PutMS(s, n, mq, o, t)
  BY DEF Recreate, PutMS, StakerAfterRecreate
<1> HIDE DEF c, q
<1>6. /\ t \in Staking!Staker /\ ClockOK(t) /\ t.ggpStaked = st.ggpStaked
      /\ t.avaxStaked = st.avaxStaked + q /\ t.avaxAssigned = st.avaxAssigned + c
      /\ t.avaxValidating = st.avaxValidating
  <2>1. st.rewardsStartTime > 0
    OBVIOUS
  <2> HIDE DEF st
  <2> QED BY <1>1, <1>4, <1>5, <2>1, StakerRecreateOK
<1>7. v \in Vault!VaultStorage /\ v = s.vault
  BY <1>2
<1>8. Held(mp) \in Nat
  <2> HIDE DEF mp
  <2> QED BY <1>0, PartsType

<1>9. Recreate(s, n) = u
  <2> HIDE DEF mq, x, y, st, mp, o
  <2> HIDE DEF t
  <2> QED BY <1>0, <1>10, WriteMS
<1>14. l = s.totalAVAXLiquidStakerAmt
  OBVIOUS
<1> HIDE DEF t, v, st, mp, o, x, y, mq, l
<1>11. /\ t.avaxStaked = st.avaxStaked - Staked(mp) + Staked(mq)
       /\ t.avaxAssigned = st.avaxAssigned - Assigned(mp) + Assigned(mq)
       /\ t.avaxValidating = st.avaxValidating - Validating(mp) + Validating(mq)
       /\ l = s.totalAVAXLiquidStakerAmt - Lent(mp) + Lent(mq)
       /\ v.avax["MinipoolManager"] - Held(mq) >= s.vault.avax["MinipoolManager"] - Held(mp)
       /\ v.ggp["Staking"] - t.ggpStaked = s.vault.ggp["Staking"] - st.ggpStaked
  BY <1>2, <1>3, <1>4, <1>6, <1>7, <1>8, <1>5, <1>14
<1>12. NetOK(u)
  <2>1. mp.owner = o
    BY DEF o
  <2>2. l \in Int
    BY <1>2, <1>3, <1>5, <1>14
  <2> QED BY <1>1, <1>4, <1>6, <1>7, <1>11, <2>1, <2>2, NodeStep DEF st, mp
<1>13. /\ u.minipools = [s.minipools EXCEPT ![n] = mq]
       /\ u.totalAVAXLiquidStakerAmt = l /\ u.vault = v
       /\ u.stakers = [s.stakers EXCEPT ![o] = t]
  BY NetOfFields
<1> HIDE DEF u
<1> QED BY <1>0, <1>1, <1>7, <1>9, <1>12, <1>13, <1>14 DEF mq, mp

(* The same as one predicate: what net u is after n is created anew in s *)
Recreates(s, n, u) ==
  LET mp == s.minipools[n]
  IN  /\ mp.status = "Withdrawable" /\ NetOK(u) /\ mp \in Minipool /\ MinipoolOK(mp)
      /\ u.minipools = [s.minipools EXCEPT ![n] = Recreated(mp)]
      /\ u.totalAVAXLiquidStakerAmt = s.totalAVAXLiquidStakerAmt
      /\ u.vault.avax = s.vault.avax

(* Recreate does that. *)
LEMMA RecreateRecreates ==
  ASSUME NEW s, NetOK(s), NEW n \in NodeIDs, CanRecreate(s, n),
         s.stakers[s.minipools[n].owner].rewardsStartTime > 0
  PROVE  Recreates(s, n, Recreate(s, n))
BY RecreateOK DEF Recreates

(* recordStakingError *)
LEMMA RecordErrorOK ==
  ASSUME NEW s, NetOK(s), NEW n \in NodeIDs, CanRecordError(s, n)
  PROVE  LET mp == s.minipools[n]
             u == RecordError(s, n)
         IN  /\ mp.status = "Launched" /\ NetOK(u) /\ mp \in Minipool /\ MinipoolOK(mp)
             /\ u.minipools = [s.minipools EXCEPT ![n] = Failed(mp)]
             /\ u.totalAVAXLiquidStakerAmt = s.totalAVAXLiquidStakerAmt - mp.avaxLiquidStakerAmt
             /\ u.vault.avax["MinipoolManager"]
                  = s.vault.avax["MinipoolManager"] + mp.avaxNodeOpAmt
<1> DEFINE mp == s.minipools[n]
           o == mp.owner
           x == mp.avaxNodeOpAmt
           y == mp.avaxLiquidStakerAmt
           mq == Failed(mp)
           st == s.stakers[o]
           t == Staking!StakerAfterError(st, y)
           v == Vault!DepositAVAX(s.vault, "MinipoolManager", x)
           l == s.totalAVAXLiquidStakerAmt - y
           u == NetOf([s.minipools EXCEPT ![n] = mq], l, [s.stakers EXCEPT ![o] = t], v)
<1>0. s \in Network /\ mp \in Minipool /\ mp.status = "Launched"
  <2>1. s \in Network /\ mp \in Minipool
    BY NetworkFields DEF NetOK
  <2>2. CanMove(mp, "Error")
    BY DEF CanRecordError
  <2> HIDE DEF mp
  <2> QED BY <2>1, <2>2, MinipoolFields, Moves
<1>1. /\ MinipoolOK(mp) /\ o \in Owners /\ st \in Staking!Staker /\ ClockOK(st)
      /\ Staked(mp) <= st.avaxStaked /\ Assigned(mp) <= st.avaxAssigned
      /\ Validating(mp) <= st.avaxValidating /\ Lent(mp) <= s.totalAVAXLiquidStakerAmt
      /\ Held(mp) <= s.vault.avax["MinipoolManager"]
  BY <1>0, PartsFit
<1>2. /\ s.totalAVAXLiquidStakerAmt \in Nat /\ s.vault \in Vault!VaultStorage
      /\ s.vault.avax["MinipoolManager"] \in Nat /\ s.vault.ggp["Staking"] \in Nat
  BY <1>0, NetworkFields, VaultStorageFields
<1>3. /\ x \in Nat /\ y \in Nat /\ st.avaxStaked \in Nat /\ st.avaxAssigned \in Nat
      /\ st.avaxValidating \in Nat /\ st.ggpStaked \in Nat
  BY <1>0, <1>1, MinipoolFields, StakerFields
<1>4. /\ mq \in Minipool /\ MinipoolOK(mq) /\ mq.owner = o
      /\ Staked(mq) = Staked(mp) /\ Assigned(mp) = y /\ Assigned(mq) = 0
      /\ Validating(mp) = 0 /\ Validating(mq) = 0 /\ Lent(mp) = y /\ Lent(mq) = 0
      /\ Held(mp) = 0 /\ Held(mq) = x
  <2>1. mp \in Minipool /\ MinipoolOK(mp) /\ mp.status = "Launched"
    BY <1>0, <1>1
  <2> HIDE DEF mp
  <2> QED BY <2>1, ErrorMinipoolOK
<1>10. RecordError(s, n) = PutMVSL(s, n, mq, o, t, v, l)
  BY DEF RecordError, PutMVSL
<1>6. /\ t \in Staking!Staker /\ ClockOK(t) /\ t.ggpStaked = st.ggpStaked
      /\ t.avaxStaked = st.avaxStaked /\ t.avaxAssigned = st.avaxAssigned - y
      /\ t.avaxValidating = st.avaxValidating
  <2>1. y <= st.avaxAssigned
    BY <1>1, <1>4
  <2> HIDE DEF st, y
  <2> QED BY <1>1, <1>3, <2>1, StakerErrorOK
<1>7. /\ v \in Vault!VaultStorage /\ v.ggp = s.vault.ggp
      /\ v.avax["MinipoolManager"] = s.vault.avax["MinipoolManager"] + x
  <2> HIDE DEF x
  <2> QED BY <1>2, <1>3, AVAXInOK
<1>8. Staked(mp) \in Nat
  <2> HIDE DEF mp
  <2> QED BY <1>0, PartsType

<1>9. RecordError(s, n) = u
  <2> HIDE DEF mq, x, y, st, mp, o
  <2> HIDE DEF t, v, l
  <2> QED BY <1>0, <1>10, WriteMVSL
<1>14. l = s.totalAVAXLiquidStakerAmt - y
  OBVIOUS
<1> HIDE DEF t, v, st, mp, o, x, y, mq, l
<1>11. /\ t.avaxStaked = st.avaxStaked - Staked(mp) + Staked(mq)
       /\ t.avaxAssigned = st.avaxAssigned - Assigned(mp) + Assigned(mq)
       /\ t.avaxValidating = st.avaxValidating - Validating(mp) + Validating(mq)
       /\ l = s.totalAVAXLiquidStakerAmt - Lent(mp) + Lent(mq)
       /\ v.avax["MinipoolManager"] - Held(mq) >= s.vault.avax["MinipoolManager"] - Held(mp)
       /\ v.ggp["Staking"] - t.ggpStaked = s.vault.ggp["Staking"] - st.ggpStaked
  BY <1>2, <1>3, <1>4, <1>6, <1>7, <1>8, <1>14
<1>12. NetOK(u)
  <2>1. mp.owner = o
    BY DEF o
  <2>2. l \in Int
    BY <1>2, <1>3, <1>14
  <2> QED BY <1>1, <1>4, <1>6, <1>7, <1>11, <2>1, <2>2, NodeStep DEF st, mp
<1>13. /\ u.minipools = [s.minipools EXCEPT ![n] = mq]
       /\ u.totalAVAXLiquidStakerAmt = l /\ u.vault = v
       /\ u.stakers = [s.stakers EXCEPT ![o] = t]
  BY NetOfFields
<1> HIDE DEF u
<1> QED BY <1>0, <1>1, <1>7, <1>9, <1>12, <1>13, <1>14 DEF mq, x, y, mp

-----------------------------------------------------------------------------
(* The GGP of the stakers *)

(* The invariant is kept when GGP is added to a record, or taken from it,  *)
(* and the Vault moves as much.                                            *)
LEMMA GGPStep ==
  ASSUME NEW s, NetOK(s), NEW o \in Owners, NEW t \in Staking!Staker, ClockOK(t),
         NEW v \in Vault!VaultStorage, v.avax = s.vault.avax,
         t.avaxStaked = s.stakers[o].avaxStaked, t.avaxAssigned = s.stakers[o].avaxAssigned,
         t.avaxValidating = s.stakers[o].avaxValidating,
         v.ggp["Staking"] - t.ggpStaked = s.vault.ggp["Staking"] - s.stakers[o].ggpStaked
  PROVE  NetOK(PutSV(s, o, t, v))
<1> DEFINE m == s.minipools
           l == s.totalAVAXLiquidStakerAmt
           c == s.stakers
           c2 == [s.stakers EXCEPT ![o] = t]
           u == NetOf(m, l, c2, v)
<1>1. /\ s \in Network /\ m \in [NodeIDs -> Minipool] /\ l \in Nat
      /\ c \in [Owners -> Staking!Staker] /\ s.vault.ggp["Staking"] \in Nat
      /\ v.ggp["Staking"] \in Nat
  BY NetworkFields, VaultStorageFields DEF NetOK
<1>2. /\ c2 \in [Owners -> Staking!Staker] /\ c2[o] = t
      /\ \A p \in Owners \ {o} : c2[p] = c[p]
  BY <1>1
<1>3. PutSV(s, o, t, v) = u
  <2> HIDE DEF NetOf
  <2> QED BY <1>1, WriteSV
<1>4. /\ u.minipools = m /\ u.totalAVAXLiquidStakerAmt = l /\ u.stakers = c2 /\ u.vault = v
      /\ u \in Network
  <2> HIDE DEF c2
  <2> QED BY <1>1, <1>2, NetOfFields
<1>5. /\ SumFunctionOnSet(GGPOf(c2), Owners)
           = SumFunctionOnSet(GGPOf(c), Owners) - c[o].ggpStaked + t.ggpStaked
      /\ SumFunctionOnSet(GGPOf(c), Owners) \in Nat
  BY <1>1, GGPMoves
<1>6. /\ c[o].ggpStaked \in Nat /\ t.ggpStaked \in Nat
  <2>1. c[o] \in Staking!Staker
    BY <1>1
  <2> HIDE DEF c
  <2> QED BY <2>1, StakerFields
<1>7. /\ s.vault.ggp["Staking"] = SumFunctionOnSet(GGPOf(c), Owners)
      /\ \A n \in NodeIDs : MinipoolOK(m[n])
      /\ \A p \in Owners : CountersOK(m, c[p], p) /\ ClockOK(c[p])
      /\ l = Sum(LentBy(m)) /\ s.vault.avax["MinipoolManager"] >= Sum(HeldFor(m))
  BY DEF NetOK
<1>8. /\ v.ggp["Staking"] - t.ggpStaked = s.vault.ggp["Staking"] - c[o].ggpStaked
      /\ t.avaxStaked = c[o].avaxStaked /\ t.avaxAssigned = c[o].avaxAssigned
      /\ t.avaxValidating = c[o].avaxValidating
      /\ v.avax["MinipoolManager"] = s.vault.avax["MinipoolManager"]
  OBVIOUS
<1> HIDE DEF c, c2, m, l
<1>9. v.ggp["Staking"] = SumFunctionOnSet(GGPOf(c2), Owners)
  BY <1>1, <1>5, <1>6, <1>7, <1>8
<1>10. \A p \in Owners : CountersOK(m, c2[p], p) /\ ClockOK(c2[p])
  <2> SUFFICES ASSUME NEW p \in Owners PROVE CountersOK(m, c2[p], p) /\ ClockOK(c2[p])
    OBVIOUS
  <2>1. CASE p # o
    BY <1>2, <1>7, <2>1
  <2>2. CASE p = o
    <3>1. c2[p] = t /\ CountersOK(m, c[p], p)
      BY <1>2, <1>7, <2>2
    <3> QED BY <1>8, <2>2, <3>1 DEF CountersOK
  <2> QED BY <2>1, <2>2
<1> HIDE DEF u
<1>11. NetOK(u)
  <2>1. v.avax["MinipoolManager"] >= Sum(HeldFor(m))
    BY <1>7, <1>8
  <2> QED BY <1>4, <1>7, <1>9, <1>10, <2>1 DEF NetOK
<1> QED BY <1>3, <1>11

(* stakeGGP, stakeGGPOnBehalfOfWithLock, and withdrawGGP *)
LEMMA StakeGGPOK ==
  ASSUME NEW s, NetOK(s), NEW o \in Owners, NEW g \in Nat
  PROVE  NetOK(PutSV(s, o, Staking!StakeGGP(s.stakers[o], g),
                     Vault!DepositToken(s.vault, "Staking", g)))
<1> DEFINE st == s.stakers[o]
           t == Staking!StakeGGP(st, g)
           v == Vault!DepositToken(s.vault, "Staking", g)
<1>1. /\ st \in Staking!Staker /\ ClockOK(st) /\ s.vault \in Vault!VaultStorage
      /\ s.vault.ggp["Staking"] \in Nat
  BY NetworkFields, VaultStorageFields DEF NetOK
<1>2. /\ t \in Staking!Staker /\ ClockOK(t) /\ t.ggpStaked = st.ggpStaked + g
      /\ t.avaxStaked = st.avaxStaked /\ t.avaxAssigned = st.avaxAssigned
      /\ t.avaxValidating = st.avaxValidating
  <2> HIDE DEF st
  <2> QED BY <1>1, StakeOK
<1>3. /\ v \in Vault!VaultStorage /\ v.avax = s.vault.avax
      /\ v.ggp["Staking"] = s.vault.ggp["Staking"] + g
  <2>1. "Staking" \in NetworkContracts
    BY DEF NetworkContracts
  <2> QED BY <1>1, <2>1, GGPInOK
<1>4. st.ggpStaked \in Nat
  <2> HIDE DEF st
  <2> QED BY <1>1, StakerFields
<1> HIDE DEF t, v, st
<1>5. v.ggp["Staking"] - t.ggpStaked = s.vault.ggp["Staking"] - st.ggpStaked
  BY <1>1, <1>2, <1>3, <1>4
<1>6. NetOK(PutSV(s, o, t, v))
  BY <1>2, <1>3, <1>5, GGPStep DEF st
<1> QED BY <1>6 DEF t, v, st

(* stakeGGPOnBehalfOfWithLock *)
LEMMA StakeGGPWithLockOK ==
  ASSUME NEW s, NetOK(s), NEW o \in Owners, NEW g \in Nat, NEW until \in Nat
  PROVE  NetOK(PutSV(s, o, Staking!LockGGP(Staking!StakeGGP(s.stakers[o], g), until),
                     Vault!DepositToken(s.vault, "Staking", g)))
<1> DEFINE st == s.stakers[o]
           k == Staking!StakeGGP(st, g)
           t == Staking!LockGGP(k, until)
           v == Vault!DepositToken(s.vault, "Staking", g)
<1>1. /\ st \in Staking!Staker /\ ClockOK(st) /\ s.vault \in Vault!VaultStorage
      /\ s.vault.ggp["Staking"] \in Nat
  BY NetworkFields, VaultStorageFields DEF NetOK
<1>2. /\ k \in Staking!Staker /\ ClockOK(k) /\ k.ggpStaked = st.ggpStaked + g
      /\ k.avaxStaked = st.avaxStaked /\ k.avaxAssigned = st.avaxAssigned
      /\ k.avaxValidating = st.avaxValidating
  <2> HIDE DEF st
  <2> QED BY <1>1, StakeOK
<1> HIDE DEF k
<1>3. /\ t \in Staking!Staker /\ ClockOK(t) /\ t.ggpStaked = k.ggpStaked
      /\ t.avaxStaked = k.avaxStaked /\ t.avaxAssigned = k.avaxAssigned
      /\ t.avaxValidating = k.avaxValidating
  BY <1>2, LockOK
<1>4. /\ v \in Vault!VaultStorage /\ v.avax = s.vault.avax
      /\ v.ggp["Staking"] = s.vault.ggp["Staking"] + g
  <2>1. "Staking" \in NetworkContracts
    BY DEF NetworkContracts
  <2> QED BY <1>1, <2>1, GGPInOK
<1>5. st.ggpStaked \in Nat
  <2> HIDE DEF st
  <2> QED BY <1>1, StakerFields
<1> HIDE DEF t, v, st
<1>6. v.ggp["Staking"] - t.ggpStaked = s.vault.ggp["Staking"] - st.ggpStaked
  BY <1>1, <1>2, <1>3, <1>4, <1>5
<1>7. NetOK(PutSV(s, o, t, v))
  BY <1>2, <1>3, <1>4, <1>6, GGPStep DEF st
<1> QED BY <1>7 DEF t, v, k, st

(* withdrawGGP *)
LEMMA WithdrawGGPOK ==
  ASSUME NEW s, NetOK(s), NEW o \in Owners, NEW g \in Nat, g <= s.stakers[o].ggpStaked,
         g <= s.vault.ggp["Staking"]
  PROVE  NetOK(PutSV(s, o, Staking!DecreaseGGPStake(s.stakers[o], g),
                     Vault!WithdrawToken(s.vault, "Staking", g)))
<1> DEFINE st == s.stakers[o]
           t == Staking!DecreaseGGPStake(st, g)
           v == Vault!WithdrawToken(s.vault, "Staking", g)
<1>1. /\ st \in Staking!Staker /\ ClockOK(st) /\ s.vault \in Vault!VaultStorage
      /\ s.vault.ggp["Staking"] \in Nat
  BY NetworkFields, VaultStorageFields DEF NetOK
<1>2. /\ t \in Staking!Staker /\ ClockOK(t) /\ t.ggpStaked = st.ggpStaked - g
      /\ t.avaxStaked = st.avaxStaked /\ t.avaxAssigned = st.avaxAssigned
      /\ t.avaxValidating = st.avaxValidating
  <2>1. g <= st.ggpStaked
    OBVIOUS
  <2> HIDE DEF st
  <2> QED BY <1>1, <2>1, UnstakeOK
<1>3. /\ v \in Vault!VaultStorage /\ v.avax = s.vault.avax
      /\ v.ggp["Staking"] = s.vault.ggp["Staking"] - g
  <2>1. "Staking" \in NetworkContracts
    BY DEF NetworkContracts
  <2> QED BY <1>1, <2>1, GGPOutOK
<1>4. st.ggpStaked \in Nat
  <2> HIDE DEF st
  <2> QED BY <1>1, StakerFields
<1> HIDE DEF t, v, st
<1>5. v.ggp["Staking"] - t.ggpStaked = s.vault.ggp["Staking"] - st.ggpStaked
  BY <1>1, <1>2, <1>3, <1>4
<1>6. NetOK(PutSV(s, o, t, v))
  BY <1>2, <1>3, <1>5, GGPStep DEF st
<1> QED BY <1>6 DEF t, v, st

(* transferGGPFromVault *)
LEMMA TransferGGPOK ==
  ASSUME NEW s, NetOK(s), NEW g \in Nat, g <= s.vault.ggp["ProtocolDAO"]
  PROVE  NetOK(PutV(s, Vault!WithdrawToken(s.vault, "ProtocolDAO", g)))
<1> DEFINE v == Vault!WithdrawToken(s.vault, "ProtocolDAO", g)
           u == NetOf(s.minipools, s.totalAVAXLiquidStakerAmt, s.stakers, v)
<1>1. /\ s \in Network /\ s.vault \in Vault!VaultStorage
      /\ s.minipools \in [NodeIDs -> Minipool] /\ s.totalAVAXLiquidStakerAmt \in Nat
      /\ s.stakers \in [Owners -> Staking!Staker]
  BY NetworkFields DEF NetOK
<1>2. v \in Vault!VaultStorage /\ v.avax = s.vault.avax /\ v.ggp["Staking"] = s.vault.ggp["Staking"]
  <2>1. "ProtocolDAO" \in NetworkContracts /\ "Staking" \in NetworkContracts \ {"ProtocolDAO"}
    BY DEF NetworkContracts
  <2>2. v \in Vault!VaultStorage /\ v.avax = s.vault.avax
        /\ \A d \in NetworkContracts \ {"ProtocolDAO"} : v.ggp[d] = s.vault.ggp[d]
    BY <1>1, <2>1, GGPOutOK
  <2> HIDE DEF v
  <2> QED BY <2>1, <2>2
<1> HIDE DEF v
<1>3. PutV(s, v) = u
  <2> HIDE DEF NetOf
  <2> QED BY <1>1, WriteV
<1>4. /\ u.minipools = s.minipools /\ u.totalAVAXLiquidStakerAmt = s.totalAVAXLiquidStakerAmt
      /\ u.stakers = s.stakers /\ u.vault = v /\ u \in Network
  BY <1>1, <1>2, NetOfFields
<1> HIDE DEF u
<1>5. NetOK(u)
  BY <1>2, <1>4 DEF NetOK
<1> QED BY <1>3, <1>5 DEF v

-----------------------------------------------------------------------------
(* ggAVAX, and what it counts as staked *)

(* The invariant of ggAVAX is about its storage and the time only. *)
LEMMA VaultMoves ==
  ASSUME NEW STATE u, VaultOK(u), token' = u, now' = now
  PROVE  VaultOK(token)'
BY DEF VaultOK, SupplyIsSum, Backed

(* Deposits, redemptions, syncs and pauses do not touch what is staked. *)
LEMMA StakesStay ==
  ASSUME NEW t \in TokenStorage
  PROVE  /\ \A a, x : DepositAVAX(t, a, x).stakingTotalAssets = t.stakingTotalAssets
         /\ \A a, x : RedeemAVAX(t, a, x).stakingTotalAssets = t.stakingTotalAssets
         /\ SyncRewards(t).stakingTotalAssets = t.stakingTotalAssets
         /\ \A b : [t EXCEPT !.paused = b].stakingTotalAssets = t.stakingTotalAssets
<1>1. ASSUME NEW a, NEW x PROVE BurnShares(t, a, x).stakingTotalAssets = t.stakingTotalAssets
  BY DEF TokenStorage, BurnShares
<1>2. ASSUME NEW a, NEW x PROVE MintShares(t, a, x).stakingTotalAssets = t.stakingTotalAssets
  BY DEF TokenStorage, MintShares
<1>3. ASSUME NEW a, NEW x, NEW y
      PROVE  ReceiveDeposit(t, a, x, y).stakingTotalAssets = t.stakingTotalAssets
  <2>1. MintShares(t, a, y).stakingTotalAssets = t.stakingTotalAssets
    BY <1>2
  <2>2. \A v : [v EXCEPT !.wavax = v.wavax + x,
                         !.totalReleasedAssets = v.totalReleasedAssets + x].stakingTotalAssets
                 = v.stakingTotalAssets
    OBVIOUS
  <2> QED BY <2>1, <2>2 DEF ReceiveDeposit
<1>4. ASSUME NEW a, NEW x, NEW y
      PROVE  PayOut(t, a, x, y).stakingTotalAssets = t.stakingTotalAssets
  <2>1. BurnShares(t, a, y).stakingTotalAssets = t.stakingTotalAssets
    BY <1>1
  <2> QED BY <2>1 DEF PayOut
<1>5. \A a, x : DepositAVAX(t, a, x).stakingTotalAssets = t.stakingTotalAssets
  BY <1>3 DEF DepositAVAX
<1>6. \A a, x : RedeemAVAX(t, a, x).stakingTotalAssets = t.stakingTotalAssets
  BY <1>4 DEF RedeemAVAX
<1>7. SyncRewards(t).stakingTotalAssets = t.stakingTotalAssets
  BY DEF TokenStorage, SyncRewards
<1>8. \A b : [t EXCEPT !.paused = b].stakingTotalAssets = t.stakingTotalAssets
  BY DEF TokenStorage
<1> QED BY <1>5, <1>6, <1>7, <1>8

(* What goes out is added to what is staked, and what comes back taken off. *)
LEMMA StakesMove ==
  ASSUME NEW t \in TokenStorage
  PROVE  /\ \A x : WithdrawForStaking(t, x).stakingTotalAssets = t.stakingTotalAssets + x
         /\ \A x, y, f : DepositFromStaking(t, x, y, f).stakingTotalAssets
                           = t.stakingTotalAssets - x
BY DEF TokenStorage, WithdrawForStaking, DepositFromStaking

-----------------------------------------------------------------------------
(* The inductive invariant of the network *)

NetworkInv ==
  /\ VaultOK(token) /\ NetOK(net) /\ MultisigsInv
  /\ token.stakingTotalAssets = net.totalAVAXLiquidStakerAmt + delegated
  /\ paused \subseteq {"MinipoolManager", "RewardsPool", "Staking"}
  /\ ggpPrice \in Nat \ {0} /\ delegated \in Nat
  /\ now \in Nat /\ now > 0

(* A transaction that leaves ggAVAX and the loans alone *)
LEMMA NetTx ==
  ASSUME NetworkInv, NEW STATE u, NetOK(u), net' = u,
         u.totalAVAXLiquidStakerAmt = net.totalAVAXLiquidStakerAmt,
         UNCHANGED <<now, token, multisigs, paused, ggpPrice, delegated>>
  PROVE  NetworkInv'
<1>1. VaultOK(token)'
  BY VaultMoves DEF NetworkInv
<1> QED BY <1>1 DEF NetworkInv, MultisigsInv

(* A transaction that moves both alike *)
LEMMA LoanTx ==
  ASSUME NetworkInv, NEW STATE u, NetOK(u), net' = u,
         NEW STATE t, VaultOK(t), token' = t,
         t.stakingTotalAssets - u.totalAVAXLiquidStakerAmt
           = token.stakingTotalAssets - net.totalAVAXLiquidStakerAmt,
         UNCHANGED <<now, multisigs, paused, ggpPrice, delegated>>
  PROVE  NetworkInv'
<1>1. VaultOK(token)'
  BY VaultMoves DEF NetworkInv
<1>2. /\ t.stakingTotalAssets \in Nat /\ token.stakingTotalAssets \in Nat
      /\ u.totalAVAXLiquidStakerAmt \in Nat /\ net.totalAVAXLiquidStakerAmt \in Nat
  BY VaultFields, NetworkFields DEF NetworkInv, VaultOK, NetOK
<1>3. token'.stakingTotalAssets = net'.totalAVAXLiquidStakerAmt + delegated'
  BY <1>2 DEF NetworkInv
<1> QED BY <1>1, <1>3 DEF NetworkInv, MultisigsInv

(* A transaction of which the storage of MinipoolManager sees nothing *)
LEMMA TokenTx ==
  ASSUME NetworkInv, NEW STATE t, VaultOK(t), token' = t,
         t.stakingTotalAssets = token.stakingTotalAssets + delegated' - delegated,
         delegated' \in Nat, UNCHANGED <<now, net, multisigs, paused, ggpPrice>>
  PROVE  NetworkInv'
<1>1. VaultOK(token)'
  BY VaultMoves DEF NetworkInv
<1>2. /\ token.stakingTotalAssets \in Nat /\ net.totalAVAXLiquidStakerAmt \in Nat
  BY VaultFields, NetworkFields DEF NetworkInv, VaultOK, NetOK
<1>3. token'.stakingTotalAssets = net'.totalAVAXLiquidStakerAmt + delegated'
  BY <1>2 DEF NetworkInv
<1> QED BY <1>1, <1>3 DEF NetworkInv, MultisigsInv

-----------------------------------------------------------------------------
(* The transactions *)

(* What the invariant says of a minipool *)
LEMMA InvFields ==
  ASSUME NetworkInv
  PROVE  /\ VaultOK(token) /\ token \in TokenStorage /\ NetOK(net) /\ net \in Network
         /\ ggpPrice \in Nat \ {0} /\ now \in Nat /\ now > 0 /\ MultisigsInv
         /\ \A n \in NodeIDs : net.minipools[n] \in Minipool
BY NetworkFields DEF NetworkInv, NetOK, VaultOK

(* Create, on any storage that keeps the invariant *)
LEMMA CanCreateOK ==
  ASSUME NEW s, NetOK(s), MultisigsInv, now \in Nat, now > 0,
         NEW n \in NodeIDs, NEW o \in Owners, NEW x \in Nat, NEW d \in Durations,
         CanCreate(s, n, o, x, d)
  PROVE  /\ NetOK(Create(s, n, o, x, d))
         /\ Create(s, n, o, x, d).totalAVAXLiquidStakerAmt = s.totalAVAXLiquidStakerAmt
<1>1. x \in Nat \ {0} /\ d \in Nat
  BY NetworkConstants DEF CanCreate
<1>2. NextActiveMultisig \in Multisigs
  BY NextMultisigOK DEF CanCreate
<1>3. s.minipools[n].status \in {"NotFound", "Finished", "Canceled"}
  <2>1. s.minipools[n] \in Minipool
    BY NetworkFields DEF NetOK
  <2>2. CanMove(s.minipools[n], "Prelaunch")
    BY DEF CanCreate
  <2> DEFINE mp == s.minipools[n]
  <2>3. mp.status \in Statuses /\ CanMove(mp, "Prelaunch")
    BY <2>1, <2>2, MinipoolFields
  <2> HIDE DEF mp
  <2>4. mp.status \in {"NotFound", "Finished", "Canceled"}
    BY <2>3, Moves
  <2> QED BY <2>4 DEF mp
<1>4. s.minipools[n].status \notin Unpaid
  BY <1>3 DEF Unpaid, Active
<1> DEFINE u == Create(s, n, o, x, d)
<1>5. /\ NetOK(u)
      /\ u.minipools = [s.minipools EXCEPT ![n] = NewMinipool(o, x, d)]
      /\ u.totalAVAXLiquidStakerAmt = s.totalAVAXLiquidStakerAmt
      /\ u.vault.avax["MinipoolManager"] = s.vault.avax["MinipoolManager"] + x
  BY <1>1, <1>2, <1>3, <1>4, CreateOK
<1> QED BY <1>5

(* createMinipool *)
LEMMA CreateMinipoolTxOK ==
  ASSUME NetworkInv, NEW n \in NodeIDs, NEW o \in Owners, NEW x \in Assignments,
         NEW d \in Durations, CreateMinipoolTx(n, o, x, d)
  PROVE  NetworkInv'
<1> DEFINE u == Create(net, n, o, x, d)
<1>1. NetOK(u) /\ u.totalAVAXLiquidStakerAmt = net.totalAVAXLiquidStakerAmt
  <2>1. x \in Nat
    BY NetworkConstants
  <2>2. CanCreate(net, n, o, x, d)
    BY DEF CreateMinipoolTx
  <2>3. NetOK(net) /\ MultisigsInv /\ now \in Nat /\ now > 0
    BY InvFields
  <2> HIDE DEF u
  <2>4. /\ NetOK(Create(net, n, o, x, d))
        /\ Create(net, n, o, x, d).totalAVAXLiquidStakerAmt = net.totalAVAXLiquidStakerAmt
    BY <2>1, <2>2, <2>3, CanCreateOK
  <2> QED BY <2>4 DEF u
<1>2. net' = u /\ UNCHANGED <<now, token, multisigs, paused, ggpPrice, delegated>>
  BY DEF CreateMinipoolTx
<1> HIDE DEF u
<1> QED BY <1>1, <1>2, NetTx

(* cancelMinipool and cancelMinipoolByMultisig *)
LEMMA CancelTxOK ==
  ASSUME NetworkInv, NEW n \in NodeIDs, CanCancel(net, n), net' = Cancel(net, n),
         UNCHANGED <<now, token, multisigs, paused, ggpPrice, delegated>>
  PROVE  NetworkInv'
<1> DEFINE u == Cancel(net, n)
<1>1. NetOK(u) /\ u.totalAVAXLiquidStakerAmt = net.totalAVAXLiquidStakerAmt
  BY InvFields, CancelOK
<1>2. net' = u
  OBVIOUS
<1> HIDE DEF u
<1> QED BY <1>1, <1>2, NetTx

(* withdrawMinipoolFunds *)
LEMMA WithdrawMinipoolFundsTxOK ==
  ASSUME NetworkInv, NEW o, NEW n \in NodeIDs, WithdrawMinipoolFundsTx(o, n)
  PROVE  NetworkInv'
<1> DEFINE u == WithdrawFunds(net, n)
<1>1. NetOK(u) /\ u.totalAVAXLiquidStakerAmt = net.totalAVAXLiquidStakerAmt
  BY InvFields, WithdrawFundsOK DEF WithdrawMinipoolFundsTx
<1>2. net' = u /\ UNCHANGED <<now, token, multisigs, paused, ggpPrice, delegated>>
  BY DEF WithdrawMinipoolFundsTx
<1> HIDE DEF u
<1> QED BY <1>1, <1>2, NetTx

(* withdrawRewardsAndRelaunchMinipool *)
LEMMA RelaunchMinipoolTxOK ==
  ASSUME NetworkInv, NEW n \in NodeIDs, NEW d \in Durations, RelaunchMinipoolTx(n, d)
  PROVE  NetworkInv'
<1> DEFINE mp == net.minipools[n]
           w == WithdrawFunds(net, n)
           x == mp.avaxNodeOpInitialAmt
           o == mp.owner
           u == Create(w, n, o, x, d)
<1>1. /\ NetOK(w) /\ w.totalAVAXLiquidStakerAmt = net.totalAVAXLiquidStakerAmt
      /\ mp \in Minipool /\ o \in Owners
  BY InvFields, WithdrawFundsOK DEF RelaunchMinipoolTx
<1>2. x \in Nat
  <2> HIDE DEF mp
  <2> QED BY <1>1, MinipoolFields
<1>3. CanCreate(w, n, o, x, d)
  BY DEF RelaunchMinipoolTx
<1>4. net' = u /\ UNCHANGED <<now, token, multisigs, paused, ggpPrice, delegated>>
  BY DEF RelaunchMinipoolTx
<1> HIDE DEF w, x, o, mp
<1>5. NetOK(u) /\ u.totalAVAXLiquidStakerAmt = w.totalAVAXLiquidStakerAmt
  <2>1. MultisigsInv /\ now \in Nat /\ now > 0
    BY InvFields
  <2> QED BY <1>1, <1>2, <1>3, <2>1, CanCreateOK
<1>6. u.totalAVAXLiquidStakerAmt = net.totalAVAXLiquidStakerAmt
  BY <1>1, <1>5
<1> HIDE DEF u
<1> QED BY <1>4, <1>5, <1>6, NetTx

(* claimAndInitiateStaking: what is lent and what ggAVAX counts as staked *)
(* grow alike.                                                            *)
LEMMA ClaimAndInitiateStakingTxOK ==
  ASSUME NetworkInv, NEW m, NEW n \in NodeIDs, ClaimAndInitiateStakingTx(m, n)
  PROVE  NetworkInv'
<1> DEFINE mp == net.minipools[n]
           y == mp.avaxLiquidStakerAmt
           u == Launch(net, n)
           t == WithdrawForStaking(token, y)
<1>1. /\ NetOK(u) /\ mp \in Minipool
      /\ u.totalAVAXLiquidStakerAmt = net.totalAVAXLiquidStakerAmt + y
  BY InvFields, LaunchOK DEF ClaimAndInitiateStakingTx
<1>2. y \in Nat
  <2> HIDE DEF mp
  <2> QED BY <1>1, MinipoolFields
<1>3. CanWithdrawForStaking(token, y)
  BY DEF ClaimAndInitiateStakingTx
<1>4. net' = u /\ token' = t /\ UNCHANGED <<now, multisigs, paused, ggpPrice, delegated>>
  BY DEF ClaimAndInitiateStakingTx
<1> HIDE DEF y
<1>5. VaultOK(t) /\ t.stakingTotalAssets = token.stakingTotalAssets + y
  BY <1>2, <1>3, InvFields, WithdrawForStakingOK, StakesMove
<1>6. token.stakingTotalAssets \in Nat /\ net.totalAVAXLiquidStakerAmt \in Nat
  BY InvFields, VaultFields, NetworkFields
<1> HIDE DEF u, t
<1>7. t.stakingTotalAssets - u.totalAVAXLiquidStakerAmt
        = token.stakingTotalAssets - net.totalAVAXLiquidStakerAmt
  BY <1>1, <1>2, <1>5, <1>6
<1> QED BY <1>1, <1>4, <1>5, <1>7, LoanTx

(* recordStakingStart *)
LEMMA RecordStakingStartTxOK ==
  ASSUME NetworkInv, NEW m, NEW n \in NodeIDs, NEW time \in Nat,
         RecordStakingStartTx(m, n, time)
  PROVE  NetworkInv'
<1> DEFINE u == RecordStart(net, n, time)
<1>1. NetOK(u) /\ u.totalAVAXLiquidStakerAmt = net.totalAVAXLiquidStakerAmt
  BY InvFields, RecordStartOK DEF RecordStakingStartTx
<1>2. net' = u /\ UNCHANGED <<now, token, multisigs, paused, ggpPrice, delegated>>
  BY DEF RecordStakingStartTx
<1> HIDE DEF u
<1> QED BY <1>1, <1>2, NetTx

(* The minipool of a validation that can be recorded *)
LEMMA CanEndOK ==
  ASSUME NetworkInv, NEW n \in NodeIDs, NEW e \in Int, NEW r \in Nat,
         CanRecordEnd(net, n, e, r)
  PROVE  e \in Nat
<1> DEFINE mp == net.minipools[n]
<1>1. mp \in Minipool
  BY InvFields
<1>2. e > mp.startTime
  BY DEF CanRecordEnd
<1> HIDE DEF mp
<1>3. mp.startTime \in Nat
  BY <1>1, MinipoolFields
<1> QED BY <1>2, <1>3

(* Its loan comes back to ggAVAX, with its reward. *)
LEMMA LoanReturns ==
  ASSUME VaultOK(token), token \in TokenStorage, NEW y \in Nat, NEW r \in Nat, NEW f \in FeeBips,
         CanDepositFromStaking(token, y)
  PROVE  LET t == DepositFromStaking(token, y, LiquidReward(r), f)
         IN  VaultOK(t) /\ t.stakingTotalAssets = token.stakingTotalAssets - y
<1>1. LiquidReward(r) \in Nat /\ f \in 0..Bips
  BY RewardSplit, TokenConstants
<1> QED BY <1>1, DepositFromStakingOK, StakesMove

(* recordStakingEnd *)
LEMMA RecordStakingEndTxOK ==
  ASSUME NetworkInv, NEW m, NEW n \in NodeIDs, NEW e \in Int, NEW r \in Nat, NEW f \in FeeBips,
         RecordStakingEndTx(m, n, e, r, f)
  PROVE  NetworkInv'
<1> DEFINE mp == net.minipools[n]
           y == mp.avaxLiquidStakerAmt
           u == RecordEnd(net, n, e, r)
           t == TokenAfterEnd(mp, r, f)
<1>1. NetOK(u) /\ mp \in Minipool /\ u.totalAVAXLiquidStakerAmt = net.totalAVAXLiquidStakerAmt - y
  <2>1. CanRecordEnd(net, n, e, r)
    BY DEF RecordStakingEndTx
  <2>2. e \in Nat
    BY <2>1, CanEndOK
  <2>3. NetOK(net) /\ ggpPrice \in Nat \ {0}
    BY InvFields
  <2>4. /\ mp.status = "Staking" /\ NetOK(u) /\ mp \in Minipool /\ MinipoolOK(mp)
        /\ Slashed(net, n, e, r) \in Nat
        /\ u.minipools = [net.minipools EXCEPT ![n] = Ended(mp, r, Slashed(net, n, e, r))]
        /\ u.totalAVAXLiquidStakerAmt = net.totalAVAXLiquidStakerAmt - mp.avaxLiquidStakerAmt
        /\ u.vault.avax["MinipoolManager"]
             = net.vault.avax["MinipoolManager"] + (mp.avaxNodeOpAmt + NodeOpReward(r))
        /\ u.stakers[mp.owner].rewardsStartTime > 0
    BY <2>1, <2>2, <2>3, RecordEndOK
  <2> QED BY <2>4
<1>2. y \in Nat
  <2> HIDE DEF mp
  <2> QED BY <1>1, MinipoolFields
<1>3. net' = u /\ token' = t /\ UNCHANGED <<now, multisigs, paused, ggpPrice, delegated>>
  BY DEF RecordStakingEndTx
<1>4. token.stakingTotalAssets \in Nat /\ net.totalAVAXLiquidStakerAmt \in Nat
  BY InvFields, VaultFields, NetworkFields
<1> HIDE DEF u, y
<1>6. VaultOK(t) /\ t.stakingTotalAssets = token.stakingTotalAssets - y
  <2>1. CanDepositFromStaking(token, y)
    BY DEF RecordStakingEndTx, y
  <2>2. t = DepositFromStaking(token, y, LiquidReward(r), f)
    BY DEF TokenAfterEnd, y
  <2> HIDE DEF t
  <2> QED BY <1>2, <2>1, <2>2, InvFields, LoanReturns
<1> HIDE DEF t
<1>5. t.stakingTotalAssets - u.totalAVAXLiquidStakerAmt
        = token.stakingTotalAssets - net.totalAVAXLiquidStakerAmt
  BY <1>1, <1>2, <1>4, <1>6
<1> QED BY <1>1, <1>3, <1>5, <1>6, LoanTx

(* recordStakingEndThenMaybeCycle, when there is a next cycle: the loan that *)
(* has come back goes out again, with the rewards of both sides.             *)
LEMMA CycleOK ==
  ASSUME NetworkInv, NEW n \in NodeIDs, NEW e \in Int, NEW r \in Nat,
         CanRecordEnd(net, n, e, r),
         NEW w, w = RecordEnd(net, n, e, r), CanRecreate(w, n), CanLaunch(Recreate(w, n), n)
  PROVE  /\ NetOK(Launch(Recreate(w, n), n))
         /\ CompoundedAvaxAmt(w.minipools[n]) \in Nat
         /\ Launch(Recreate(w, n), n).totalAVAXLiquidStakerAmt
              = w.totalAVAXLiquidStakerAmt + CompoundedAvaxAmt(w.minipools[n])
<1> DEFINE mp == net.minipools[n]
           g == Slashed(net, n, e, r)
           md == Ended(mp, r, g)
           c == CompoundedAvaxAmt(md)
           x == Recreate(w, n)
           u == Launch(x, n)
<1>1. e \in Nat
  BY CanEndOK
<1>2. NetOK(net) /\ ggpPrice \in Nat \ {0} /\ net.minipools \in [NodeIDs -> Minipool]
  BY InvFields, NetworkFields
<1>3. /\ mp.status = "Staking" /\ NetOK(RecordEnd(net, n, e, r)) /\ mp \in Minipool /\ MinipoolOK(mp)
      /\ Slashed(net, n, e, r) \in Nat
      /\ RecordEnd(net, n, e, r).minipools
           = [net.minipools EXCEPT ![n] = Ended(mp, r, Slashed(net, n, e, r))]
      /\ RecordEnd(net, n, e, r).totalAVAXLiquidStakerAmt
           = net.totalAVAXLiquidStakerAmt - mp.avaxLiquidStakerAmt
      /\ RecordEnd(net, n, e, r).vault.avax["MinipoolManager"]
           = net.vault.avax["MinipoolManager"] + (mp.avaxNodeOpAmt + NodeOpReward(r))
      /\ RecordEnd(net, n, e, r).stakers[mp.owner].rewardsStartTime > 0
  BY <1>1, <1>2, RecordEndOK
<1>4. /\ NetOK(w) /\ w.minipools = [net.minipools EXCEPT ![n] = md]
      /\ w.stakers[mp.owner].rewardsStartTime > 0
  BY <1>3
<1>5. w.minipools[n] = md
  BY <1>2, <1>4
<1>6. /\ md \in Minipool /\ MinipoolOK(md) /\ md.owner = mp.owner /\ md.status = "Withdrawable"
  <2>1. g \in Nat
    BY <1>3
  <2> HIDE DEF mp, g
  <2> QED BY <1>3, <2>1, EndMinipoolOK
<1> HIDE DEF md
<1>7. w.stakers[w.minipools[n].owner].rewardsStartTime > 0
  BY <1>4, <1>5, <1>6
<1>8. /\ NetOK(x) /\ x.minipools = [w.minipools EXCEPT ![n] = Recreated(md)]
      /\ x.totalAVAXLiquidStakerAmt = w.totalAVAXLiquidStakerAmt
  <2>1. /\ w.minipools[n].status = "Withdrawable" /\ NetOK(x) /\ w.minipools[n] \in Minipool
        /\ MinipoolOK(w.minipools[n])
        /\ x.minipools = [w.minipools EXCEPT ![n] = Recreated(w.minipools[n])]
        /\ x.totalAVAXLiquidStakerAmt = w.totalAVAXLiquidStakerAmt
        /\ x.vault.avax = w.vault.avax
    <3>1. Recreates(w, n, x)
      BY <1>4, <1>7, RecreateRecreates
    <3> HIDE DEF x
    <3> QED BY <3>1 DEF Recreates
  <2> HIDE DEF x
  <2> QED BY <1>5, <2>1
<1>9. c \in Nat /\ Recreated(md).avaxLiquidStakerAmt = c
  BY <1>6, RecreateMinipoolOK
<1>10. x.minipools[n] = Recreated(md)
  <2>1. w.minipools \in [NodeIDs -> Minipool]
    BY <1>4, NetworkFields DEF NetOK
  <2> HIDE DEF x
  <2> QED BY <1>8, <2>1
<1> HIDE DEF x, c
<1>11. CanLaunch(x, n)
  BY DEF x
<1>12. /\ NetOK(u)
       /\ u.totalAVAXLiquidStakerAmt
            = x.totalAVAXLiquidStakerAmt + x.minipools[n].avaxLiquidStakerAmt
  <2>1. NetOK(x)
    BY <1>8
  <2>2. Launches(x, n, u)
    BY <1>11, <2>1, LaunchLaunches
  <2> HIDE DEF u
  <2> QED BY <2>2 DEF Launches
<1> HIDE DEF u
<1>13. NetOK(u) /\ u.totalAVAXLiquidStakerAmt = w.totalAVAXLiquidStakerAmt + c
  BY <1>8, <1>9, <1>10, <1>12
<1> QED BY <1>5, <1>9, <1>13 DEF u, x, c

(* recordStakingEndThenMaybeCycle, with a next cycle or without one *)
LEMMA RecordStakingEndThenMaybeCycleTxOK ==
  ASSUME NetworkInv, NEW m, NEW n \in NodeIDs, NEW e \in Int, NEW r \in Nat, NEW f \in FeeBips,
         RecordStakingEndThenMaybeCycleTx(m, n, e, r, f)
  PROVE  NetworkInv'
<1> DEFINE mp == net.minipools[n]
           y == mp.avaxLiquidStakerAmt
           w == RecordEnd(net, n, e, r)
           t == TokenAfterEnd(mp, r, f)
           c == CompoundedAvaxAmt(w.minipools[n])
           u == Launch(Recreate(w, n), n)
           k == WithdrawForStaking(t, c)
<1>1. CanRecordEnd(net, n, e, r) /\ CanDepositFromStaking(token, y)
  BY DEF RecordStakingEndThenMaybeCycleTx
<1>2. NetOK(w) /\ mp \in Minipool /\ w.totalAVAXLiquidStakerAmt = net.totalAVAXLiquidStakerAmt - y
  <2>1. e \in Nat
    BY <1>1, CanEndOK
  <2>2. NetOK(net) /\ ggpPrice \in Nat \ {0}
    BY InvFields
  <2>3. /\ mp.status = "Staking" /\ NetOK(w) /\ mp \in Minipool /\ MinipoolOK(mp)
        /\ Slashed(net, n, e, r) \in Nat
        /\ w.minipools = [net.minipools EXCEPT ![n] = Ended(mp, r, Slashed(net, n, e, r))]
        /\ w.totalAVAXLiquidStakerAmt = net.totalAVAXLiquidStakerAmt - mp.avaxLiquidStakerAmt
        /\ w.vault.avax["MinipoolManager"]
             = net.vault.avax["MinipoolManager"] + (mp.avaxNodeOpAmt + NodeOpReward(r))
        /\ w.stakers[mp.owner].rewardsStartTime > 0
    BY <1>1, <2>1, <2>2, RecordEndOK
  <2> QED BY <2>3
<1>3. y \in Nat
  <2> HIDE DEF mp
  <2> QED BY <1>2, MinipoolFields
<1>4. VaultOK(t) /\ t.stakingTotalAssets = token.stakingTotalAssets - y
  <2>1. CanDepositFromStaking(token, y)
    BY <1>1
  <2>2. t = DepositFromStaking(token, y, LiquidReward(r), f)
    BY DEF TokenAfterEnd
  <2> HIDE DEF t, y
  <2> QED BY <1>3, <2>1, <2>2, InvFields, LoanReturns
<1>5. token.stakingTotalAssets \in Nat /\ net.totalAVAXLiquidStakerAmt \in Nat
  BY InvFields, VaultFields, NetworkFields
<1>6. UNCHANGED <<now, multisigs, paused, ggpPrice, delegated>>
  BY DEF RecordStakingEndThenMaybeCycleTx
<1>7. CASE net' = w /\ token' = t
  <2> HIDE DEF w, t, y
  <2>1. t.stakingTotalAssets - w.totalAVAXLiquidStakerAmt
          = token.stakingTotalAssets - net.totalAVAXLiquidStakerAmt
    BY <1>2, <1>3, <1>4, <1>5
  <2> QED BY <1>2, <1>4, <1>6, <1>7, <2>1, LoanTx
<1>8. CASE /\ CanRecreate(w, n) /\ CanLaunch(Recreate(w, n), n)
           /\ CanWithdrawForStaking(t, c) /\ net' = u /\ token' = k
  <2>1. NetOK(u) /\ c \in Nat /\ u.totalAVAXLiquidStakerAmt = w.totalAVAXLiquidStakerAmt + c
    <3>1. w = RecordEnd(net, n, e, r) /\ CanRecreate(w, n) /\ CanLaunch(Recreate(w, n), n)
      BY <1>8
    <3> HIDE DEF w
    <3> QED BY <1>1, <3>1, CycleOK
  <2>2. CanWithdrawForStaking(t, c) /\ net' = u /\ token' = k
    BY <1>8
  <2> HIDE DEF t, u, c
  <2>3. VaultOK(k) /\ k.stakingTotalAssets = t.stakingTotalAssets + c
    <3>1. t \in TokenStorage
      BY <1>4 DEF VaultOK
    <3> QED BY <1>4, <2>1, <2>2, <3>1, WithdrawForStakingOK, StakesMove
  <2> HIDE DEF k, w, y
  <2>4. k.stakingTotalAssets - u.totalAVAXLiquidStakerAmt
          = token.stakingTotalAssets - net.totalAVAXLiquidStakerAmt
    BY <1>2, <1>3, <1>4, <1>5, <2>1, <2>3
  <2> QED BY <1>6, <2>1, <2>2, <2>3, <2>4, LoanTx
<1> QED BY <1>7, <1>8 DEF RecordStakingEndThenMaybeCycleTx

(* recordStakingError *)
LEMMA RecordStakingErrorTxOK ==
  ASSUME NetworkInv, NEW m, NEW n \in NodeIDs, RecordStakingErrorTx(m, n)
  PROVE  NetworkInv'
<1> DEFINE mp == net.minipools[n]
           y == mp.avaxLiquidStakerAmt
           u == RecordError(net, n)
           t == DepositFromStaking(token, y, 0, 0)
<1>1. /\ NetOK(u) /\ mp \in Minipool
      /\ u.totalAVAXLiquidStakerAmt = net.totalAVAXLiquidStakerAmt - y
  BY InvFields, RecordErrorOK DEF RecordStakingErrorTx
<1>2. y \in Nat
  <2> HIDE DEF mp
  <2> QED BY <1>1, MinipoolFields
<1>3. CanDepositFromStaking(token, y)
  BY DEF RecordStakingErrorTx
<1>4. net' = u /\ token' = t /\ UNCHANGED <<now, multisigs, paused, ggpPrice, delegated>>
  BY DEF RecordStakingErrorTx
<1> HIDE DEF y
<1>5. VaultOK(t) /\ t.stakingTotalAssets = token.stakingTotalAssets - y
  <2>1. 0 \in 0..Bips
    BY DEF Bips
  <2> QED BY <1>2, <1>3, <2>1, InvFields, DepositFromStakingOK, StakesMove
<1>6. token.stakingTotalAssets \in Nat /\ net.totalAVAXLiquidStakerAmt \in Nat
  BY InvFields, VaultFields, NetworkFields
<1> HIDE DEF u, t
<1>7. t.stakingTotalAssets - u.totalAVAXLiquidStakerAmt
        = token.stakingTotalAssets - net.totalAVAXLiquidStakerAmt
  BY <1>1, <1>2, <1>5, <1>6
<1> QED BY <1>1, <1>4, <1>5, <1>7, LoanTx

(* withdrawForDelegation, depositFromDelegation *)
LEMMA WithdrawForDelegationTxOK ==
  ASSUME NetworkInv, NEW x \in Nat, WithdrawForDelegationTx(x)
  PROVE  NetworkInv'
<1> DEFINE t == WithdrawForStaking(token, x)
<1>1. /\ CanWithdrawForStaking(token, x) /\ token' = t /\ delegated' = delegated + x
      /\ UNCHANGED <<now, net, multisigs, paused, ggpPrice>>
  BY DEF WithdrawForDelegationTx
<1>2. VaultOK(t) /\ t.stakingTotalAssets = token.stakingTotalAssets + x
  BY <1>1, InvFields, WithdrawForStakingOK, StakesMove
<1>3. delegated \in Nat /\ token.stakingTotalAssets \in Nat
  BY InvFields, VaultFields DEF NetworkInv
<1> HIDE DEF t
<1>4. delegated' \in Nat /\ t.stakingTotalAssets = token.stakingTotalAssets + delegated' - delegated
  BY <1>1, <1>2, <1>3
<1> QED BY <1>1, <1>2, <1>4, TokenTx

(* depositFromDelegation *)
LEMMA DepositFromDelegationTxOK ==
  ASSUME NetworkInv, NEW x \in Nat, NEW r \in Nat, NEW f \in FeeBips,
         DepositFromDelegationTx(x, r, f)
  PROVE  NetworkInv'
<1> DEFINE t == DepositFromStaking(token, x, r, f)
<1>1. /\ CanDepositFromStaking(token, x) /\ token' = t
      /\ x <= delegated /\ delegated' = delegated - x
      /\ UNCHANGED <<now, net, multisigs, paused, ggpPrice>>
  BY DEF DepositFromDelegationTx
<1>2. VaultOK(t) /\ t.stakingTotalAssets = token.stakingTotalAssets - x
  <2>1. f \in 0..Bips
    BY TokenConstants
  <2> QED BY <1>1, <2>1, InvFields, DepositFromStakingOK, StakesMove
<1>3. delegated \in Nat /\ token.stakingTotalAssets \in Nat
  BY InvFields, VaultFields DEF NetworkInv
<1> HIDE DEF t
<1>4. delegated' \in Nat /\ t.stakingTotalAssets = token.stakingTotalAssets + delegated' - delegated
  BY <1>1, <1>2, <1>3
<1> QED BY <1>1, <1>2, <1>4, TokenTx

(* stakeGGP, stakeGGPOnBehalfOfWithLock, withdrawGGP, transferGGPFromVault *)
LEMMA PutLoans ==
  ASSUME NEW s \in Network, NEW o, NEW t, NEW v
  PROVE  /\ PutSV(s, o, t, v).totalAVAXLiquidStakerAmt = s.totalAVAXLiquidStakerAmt
         /\ PutV(s, v).totalAVAXLiquidStakerAmt = s.totalAVAXLiquidStakerAmt
<1>1. PutSV(s, o, t, v).totalAVAXLiquidStakerAmt = s.totalAVAXLiquidStakerAmt
  BY WriteSV DEF NetOf
<1>2. PutV(s, v).totalAVAXLiquidStakerAmt = s.totalAVAXLiquidStakerAmt
  BY WriteV DEF NetOf
<1> QED BY <1>1, <1>2

(* stakeGGP *)
LEMMA StakeGGPTxOK ==
  ASSUME NetworkInv, NEW o \in Owners, NEW g \in Nat, StakeGGPTx(o, g)
  PROVE  NetworkInv'
<1> DEFINE u == PutSV(net, o, Staking!StakeGGP(net.stakers[o], g),
                      Vault!DepositToken(net.vault, "Staking", g))
<1>1. NetOK(u) /\ u.totalAVAXLiquidStakerAmt = net.totalAVAXLiquidStakerAmt
  BY InvFields, StakeGGPOK, PutLoans
<1>2. net' = u /\ UNCHANGED <<now, token, multisigs, paused, ggpPrice, delegated>>
  BY DEF StakeGGPTx, PutSV
<1> HIDE DEF u
<1> QED BY <1>1, <1>2, NetTx

(* stakeGGPOnBehalfOfWithLock *)
LEMMA StakeGGPWithLockTxOK ==
  ASSUME NetworkInv, NEW o \in Owners, NEW g \in Nat, NEW until \in Nat,
         StakeGGPWithLockTx(o, g, until)
  PROVE  NetworkInv'
<1> DEFINE u == PutSV(net, o, Staking!LockGGP(Staking!StakeGGP(net.stakers[o], g), until),
                      Vault!DepositToken(net.vault, "Staking", g))
<1>1. NetOK(u) /\ u.totalAVAXLiquidStakerAmt = net.totalAVAXLiquidStakerAmt
  BY InvFields, StakeGGPWithLockOK, PutLoans
<1>2. net' = u /\ UNCHANGED <<now, token, multisigs, paused, ggpPrice, delegated>>
  BY DEF StakeGGPWithLockTx, PutSV
<1> HIDE DEF u
<1> QED BY <1>1, <1>2, NetTx

(* withdrawGGP *)
LEMMA WithdrawGGPTxOK ==
  ASSUME NetworkInv, NEW o \in Owners, NEW g \in Nat, WithdrawGGPTx(o, g)
  PROVE  NetworkInv'
<1> DEFINE u == PutSV(net, o, Staking!DecreaseGGPStake(net.stakers[o], g),
                      Vault!WithdrawToken(net.vault, "Staking", g))
<1>1. g <= net.stakers[o].ggpStaked /\ g <= net.vault.ggp["Staking"]
  <2>1. net.vault.ggp["Staking"] \in Nat
    BY InvFields, NetworkFields, VaultStorageFields
  <2> QED BY <2>1 DEF WithdrawGGPTx, Staking!CanWithdrawGGP, Vault!CanWithdrawToken
<1>2. NetOK(u) /\ u.totalAVAXLiquidStakerAmt = net.totalAVAXLiquidStakerAmt
  BY <1>1, InvFields, WithdrawGGPOK, PutLoans
<1>3. net' = u /\ UNCHANGED <<now, token, multisigs, paused, ggpPrice, delegated>>
  BY DEF WithdrawGGPTx, PutSV
<1> HIDE DEF u
<1> QED BY <1>2, <1>3, NetTx

(* transferGGPFromVault *)
LEMMA TransferGGPFromVaultTxOK ==
  ASSUME NetworkInv, NEW g \in Nat, TransferGGPFromVaultTx(g)
  PROVE  NetworkInv'
<1> DEFINE u == PutV(net, Vault!WithdrawToken(net.vault, "ProtocolDAO", g))
<1>1. g <= net.vault.ggp["ProtocolDAO"]
  <2>1. net.vault.ggp["ProtocolDAO"] \in Nat
    BY InvFields, NetworkFields, VaultStorageFields
  <2> QED BY <2>1 DEF TransferGGPFromVaultTx, Vault!CanWithdrawToken
<1>2. NetOK(u) /\ u.totalAVAXLiquidStakerAmt = net.totalAVAXLiquidStakerAmt
  BY <1>1, InvFields, TransferGGPOK, PutLoans
<1>3. net' = u /\ UNCHANGED <<now, token, multisigs, paused, ggpPrice, delegated>>
  BY DEF TransferGGPFromVaultTx, PutV
<1> HIDE DEF u
<1> QED BY <1>2, <1>3, NetTx

(* The multisigs, the pauses and the price *)
LEMMA RegisterMultisigTxOK ==
  ASSUME NetworkInv, NEW a \in Multisigs, RegisterMultisigTx(a)
  PROVE  NetworkInv'
<1> DEFINE R == [addr : Multisigs, enabled : BOOLEAN]
<1>1. [addr |-> a, enabled |-> FALSE] \in R /\ multisigs \in Seq(R)
  BY DEF NetworkInv, MultisigsInv
<1>2. multisigs' = Append(multisigs, [addr |-> a, enabled |-> FALSE])
  BY DEF RegisterMultisigTx
<1> HIDE DEF R
<1>3. multisigs' \in Seq(R)
  <2> DEFINE k == [addr |-> a, enabled |-> FALSE]
  <2>1. k \in R /\ multisigs' = Append(multisigs, k)
    BY <1>1, <1>2
  <2> HIDE DEF k
  <2> QED BY <1>1, <2>1
<1>4. MultisigsInv'
  BY <1>3 DEF MultisigsInv, R
<1>5. UNCHANGED <<now, token, net, paused, ggpPrice, delegated>>
  BY DEF RegisterMultisigTx
<1>6. VaultOK(token)'
  BY <1>5, VaultMoves DEF NetworkInv
<1> QED BY <1>4, <1>5, <1>6 DEF NetworkInv

(* enableMultisig and disableMultisig *)
LEMMA SetMultisigTxOK ==
  ASSUME NetworkInv, NEW i \in DOMAIN multisigs, NEW b \in BOOLEAN, SetMultisigTx(i, b)
  PROVE  NetworkInv'
<1> DEFINE R == [addr : Multisigs, enabled : BOOLEAN]
           k == [multisigs[i] EXCEPT !.enabled = b]
<1>1. multisigs \in Seq(R)
  BY DEF NetworkInv, MultisigsInv
<1>2. k \in R
  <2>1. multisigs[i] \in R
    <3> HIDE DEF R
    <3> QED BY <1>1, ElementOf
  <2> DEFINE q == multisigs[i]
  <2>2. q \in R
    BY <2>1
  <2> HIDE DEF q
  <2>3. [q EXCEPT !.enabled = b] \in R
    BY <2>2
  <2> QED BY <2>3 DEF q
<1>3. multisigs' = [multisigs EXCEPT ![i] = k]
  BY DEF SetMultisigTx
<1> HIDE DEF R, k
<1>4. multisigs' \in Seq(R)
  BY <1>1, <1>2, <1>3
<1>5. MultisigsInv'
  BY <1>4 DEF MultisigsInv, R
<1>6. UNCHANGED <<now, token, net, paused, ggpPrice, delegated>>
  BY DEF SetMultisigTx
<1>7. VaultOK(token)'
  BY <1>6, VaultMoves DEF NetworkInv
<1> QED BY <1>5, <1>6, <1>7 DEF NetworkInv

(* pauseContract, resumeContract *)
LEMMA PauseTxOK ==
  ASSUME NetworkInv, NEW c \in PausedContracts, PauseContractTx(c) \/ ResumeContractTx(c)
  PROVE  NetworkInv'
<1>1. UNCHANGED <<now, token, net, multisigs, ggpPrice, delegated>>
  BY DEF PauseContractTx, ResumeContractTx
<1>2. paused' \subseteq {"MinipoolManager", "RewardsPool", "Staking"}
  BY NetworkConstants DEF PauseContractTx, ResumeContractTx, NetworkInv
<1>3. VaultOK(token)'
  BY <1>1, VaultMoves DEF NetworkInv
<1> QED BY <1>1, <1>2, <1>3 DEF NetworkInv, MultisigsInv

(* What pausing or resuming ggAVAX leaves of the invariant *)
LEMMA TokenPausedOK ==
  ASSUME NetworkInv, NEW b \in BOOLEAN, token' = [token EXCEPT !.paused = b],
         UNCHANGED <<now, net, ggpPrice, delegated>>, MultisigsInv',
         paused' \subseteq {"MinipoolManager", "RewardsPool", "Staking"}
  PROVE  NetworkInv'
<1> DEFINE t == [token EXCEPT !.paused = b]
<1>1. VaultOK(t) /\ t.stakingTotalAssets = token.stakingTotalAssets
  BY InvFields, SetPausedOK, StakesStay
<1>2. token' = t
  OBVIOUS
<1> HIDE DEF t
<1>3. VaultOK(token)'
  BY <1>1, <1>2, VaultMoves
<1> QED BY <1>1, <1>2, <1>3 DEF NetworkInv

(* pauseEverything *)
LEMMA PauseEverythingTxOK ==
  ASSUME NetworkInv, PauseEverythingTx
  PROVE  NetworkInv'
<1> DEFINE R == [addr : Multisigs, enabled : BOOLEAN]
<1>1. multisigs \in Seq(R)
  BY DEF NetworkInv, MultisigsInv
<1>2. ASSUME NEW i \in DOMAIN multisigs
      PROVE  [multisigs[i] EXCEPT !.enabled = FALSE] \in R
  <2> DEFINE q == multisigs[i]
  <2>1. q \in R
    <3> HIDE DEF R
    <3> QED BY <1>1, <1>2, ElementOf
  <2> HIDE DEF q
  <2>2. [q EXCEPT !.enabled = FALSE] \in R
    BY <2>1
  <2> QED BY <2>2 DEF q
<1> DEFINE k == [i \in DOMAIN multisigs |-> [multisigs[i] EXCEPT !.enabled = FALSE]]
<1>3. k \in Seq(R)
  <2>1. DOMAIN multisigs = 1..Len(multisigs) /\ Len(multisigs) \in Nat
    <3> HIDE DEF R
    <3> QED BY <1>1
  <2>2. \A i \in DOMAIN multisigs : k[i] \in R
    BY <1>2
  <2>3. k = [i \in DOMAIN multisigs |-> k[i]]
    OBVIOUS
  <2> HIDE DEF R, k
  <2>4. k \in [1..Len(multisigs) -> R]
    BY <2>1, <2>2, <2>3
  <2> QED BY <2>1, <2>4
<1>4. multisigs' = k
  BY DEF PauseEverythingTx
<1> HIDE DEF k
<1>5. MultisigsInv'
  BY <1>3, <1>4 DEF MultisigsInv
<1>6. /\ token' = [token EXCEPT !.paused = TRUE] /\ UNCHANGED <<now, net, ggpPrice, delegated>>
      /\ paused' \subseteq {"MinipoolManager", "RewardsPool", "Staking"}
  BY DEF PauseEverythingTx, NetworkInv
<1> QED BY <1>5, <1>6, TokenPausedOK

(* resumeEverything *)
LEMMA ResumeEverythingTxOK ==
  ASSUME NetworkInv, ResumeEverythingTx
  PROVE  NetworkInv'
<1>1. /\ token' = [token EXCEPT !.paused = FALSE] /\ UNCHANGED <<now, net, ggpPrice, delegated>>
      /\ paused' \subseteq {"MinipoolManager", "RewardsPool", "Staking"}
  BY DEF ResumeEverythingTx, NetworkInv
<1>2. MultisigsInv'
  BY DEF ResumeEverythingTx, NetworkInv, MultisigsInv
<1> QED BY <1>1, <1>2, TokenPausedOK

(* setGGPPriceInAVAX *)
LEMMA SetGGPPriceTxOK ==
  ASSUME NetworkInv, NEW p \in GGPPrices, SetGGPPriceTx(p)
  PROVE  NetworkInv'
<1>1. UNCHANGED <<now, token, net, multisigs, paused, delegated>> /\ ggpPrice' \in Nat \ {0}
  BY NetworkConstants DEF SetGGPPriceTx
<1>2. VaultOK(token)'
  BY <1>1, VaultMoves DEF NetworkInv
<1> QED BY <1>1, <1>2 DEF NetworkInv, MultisigsInv

(* What the liquid stakers do *)
LEMMA LiquidStakerOK ==
  ASSUME NetworkInv, LiquidStakerNext
  PROVE  NetworkInv'
<1>1. UNCHANGED <<net, multisigs, paused, ggpPrice, delegated>>
  BY DEF LiquidStakerNext, minipoolVars
<1>2. Receivers \subseteq Accounts /\ Amounts \subseteq Nat \ {0}
  BY TokenConstants
<1>3. VaultOK(token) /\ token \in TokenStorage
  BY InvFields
<1>4. ASSUME NEW STATE t, VaultOK(t), token' = t, now' = now,
             t.stakingTotalAssets = token.stakingTotalAssets
      PROVE  NetworkInv'
  <2>1. token.stakingTotalAssets \in Nat /\ delegated \in Nat
    BY <1>3, VaultFields DEF NetworkInv
  <2>2. delegated' = delegated
    BY <1>1
  <2>3. delegated' \in Nat /\ t.stakingTotalAssets = token.stakingTotalAssets + delegated' - delegated
    BY <1>4, <2>1, <2>2
  <2>4. UNCHANGED <<now, net, multisigs, paused, ggpPrice>>
    BY <1>1, <1>4
  <2> QED BY <1>4, <2>3, <2>4, TokenTx
<1>5. ASSUME NEW a \in Receivers, NEW x \in Amounts, DepositTx(a, x)
      PROVE  NetworkInv'
  <2> DEFINE t == DepositAVAX(token, a, x)
  <2>1. VaultOK(t) /\ t.stakingTotalAssets = token.stakingTotalAssets
    BY <1>2, <1>3, <1>5, DepositAVAXOK, StakesStay DEF DepositTx
  <2>2. token' = t /\ now' = now
    BY <1>5 DEF DepositTx
  <2> HIDE DEF t
  <2> QED BY <1>4, <2>1, <2>2
<1>6. ASSUME NEW a \in Receivers, NEW x \in Amounts, RedeemTx(a, x)
      PROVE  NetworkInv'
  <2> DEFINE t == RedeemAVAX(token, a, x)
  <2>1. VaultOK(t) /\ t.stakingTotalAssets = token.stakingTotalAssets
    BY <1>2, <1>3, <1>6, RedeemAVAXOK, StakesStay DEF RedeemTx
  <2>2. token' = t /\ now' = now
    BY <1>6 DEF RedeemTx
  <2> HIDE DEF t
  <2> QED BY <1>4, <2>1, <2>2
<1>7. CASE SyncRewardsTx
  <2> DEFINE t == SyncRewards(token)
  <2>1. VaultOK(t) /\ t.stakingTotalAssets = token.stakingTotalAssets
    BY <1>3, <1>7, SyncRewardsOK, StakesStay DEF SyncRewardsTx
  <2>2. token' = t /\ now' = now
    BY <1>7 DEF SyncRewardsTx
  <2> HIDE DEF t
  <2> QED BY <1>4, <2>1, <2>2
<1>8. CASE Tick
  <2>1. VaultOK(token)'
    BY <1>3, <1>8, TickOK
  <2>2. now' \in Nat /\ now' > 0 /\ token' = token
    BY <1>8, InvFields DEF Tick
  <2> QED BY <1>1, <2>1, <2>2 DEF NetworkInv, MultisigsInv
<1> QED BY <1>5, <1>6, <1>7, <1>8 DEF LiquidStakerNext

-----------------------------------------------------------------------------
(* The invariant *)

(* Nothing is owed, staked or banked at the start. *)
LEMMA FirstNetOK ==
  NetOK(NetOf([n \in NodeIDs |-> NoMinipool], 0, [o \in Owners |-> Staking!NoStaker],
              Vault!EmptyVault))
<1> DEFINE m == [n \in NodeIDs |-> NoMinipool]
           c == [o \in Owners |-> Staking!NoStaker]
           v == Vault!EmptyVault
           u == NetOf(m, 0, c, v)
<1>1. /\ NoMinipool \in Minipool /\ MinipoolOK(NoMinipool)
      /\ Staked(NoMinipool) = 0 /\ Assigned(NoMinipool) = 0 /\ Validating(NoMinipool) = 0
      /\ Lent(NoMinipool) = 0 /\ Held(NoMinipool) = 0
  <2>1. NoMinipool \in Minipool /\ NoMinipool.status = "NotFound"
    BY DEF NoMinipool, Minipool, Statuses
  <2>2. "NotFound" \notin Unpaid \cup Active \cup AtWork \cup InVault /\ "NotFound" # "Staking"
        /\ "NotFound" # "Withdrawable"
    BY DEF Unpaid, Active, AtWork, InVault
  <2> QED BY <2>1, <2>2
          DEF MinipoolOK, Staked, Assigned, Validating, Lent, Held
<1>2. /\ Staking!NoStaker \in Staking!Staker /\ ClockOK(Staking!NoStaker)
      /\ Staking!NoStaker.avaxStaked = 0 /\ Staking!NoStaker.avaxAssigned = 0
      /\ Staking!NoStaker.avaxValidating = 0 /\ Staking!NoStaker.ggpStaked = 0
  BY DEF Staking!NoStaker, Staking!Staker, ClockOK
<1>3. v \in Vault!VaultStorage /\ v.avax["MinipoolManager"] = 0 /\ v.ggp["Staking"] = 0
  BY DEF Vault!EmptyVault, Vault!VaultStorage, NetworkContracts
<1>4. m \in [NodeIDs -> Minipool] /\ c \in [Owners -> Staking!Staker]
  BY <1>1, <1>2
<1>5. /\ \A n \in NodeIDs : m[n] = NoMinipool
      /\ \A o \in Owners : c[o] = Staking!NoStaker
  OBVIOUS
<1> HIDE DEF m, c, v
<1>6. /\ u \in Network /\ u.minipools = m /\ u.totalAVAXLiquidStakerAmt = 0
      /\ u.stakers = c /\ u.vault = v
  BY <1>3, <1>4, NetOfFields
<1>7. /\ Sum(LentBy(m)) = 0 /\ Sum(HeldFor(m)) = 0
  <2>1. \A n \in NodeIDs : LentBy(m)[n] = 0 /\ HeldFor(m)[n] = 0
    BY <1>1, <1>5 DEF LentBy, HeldFor
  <2> QED BY <2>1, NetworkConstants, SumZero DEF Sum
<1>8. ASSUME NEW o \in Owners PROVE CountersOK(m, c[o], o)
  <2>1. \A n \in NodeIDs : /\ StakedOf(m, o)[n] = 0 /\ AssignedOf(m, o)[n] = 0
                           /\ ValidatingOf(m, o)[n] = 0
    BY <1>1, <1>5 DEF StakedOf, AssignedOf, ValidatingOf
  <2>2. /\ Sum(StakedOf(m, o)) = 0 /\ Sum(AssignedOf(m, o)) = 0 /\ Sum(ValidatingOf(m, o)) = 0
    BY <2>1, NetworkConstants, SumZero DEF Sum
  <2> QED BY <1>2, <1>5, <2>2 DEF CountersOK
<1>9. SumFunctionOnSet(GGPOf(c), Owners) = 0
  <2>1. \A o \in Owners : GGPOf(c)[o] = 0
    BY <1>2, <1>5 DEF GGPOf
  <2> QED BY <2>1, NetworkConstants, SumZero
<1> HIDE DEF u
<1>10. NetOK(u)
  <2>1. \A n \in NodeIDs : MinipoolOK(u.minipools[n])
    BY <1>1, <1>5, <1>6
  <2>2. \A o \in Owners : CountersOK(u.minipools, u.stakers[o], o) /\ ClockOK(u.stakers[o])
    BY <1>2, <1>5, <1>6, <1>8
  <2>3. /\ u.totalAVAXLiquidStakerAmt = Sum(LentBy(u.minipools))
        /\ u.vault.avax["MinipoolManager"] >= Sum(HeldFor(u.minipools))
        /\ u.vault.ggp["Staking"] = SumFunctionOnSet(GGPOf(u.stakers), Owners)
    BY <1>3, <1>6, <1>7, <1>9
  <2> QED BY <1>6, <2>1, <2>2, <2>3 DEF NetOK
<1> QED BY <1>10 DEF u, m, c, v

(* The invariant holds at the start. *)
LEMMA MinipoolInitOK == MinipoolInit => NetworkInv
<1> SUFFICES ASSUME MinipoolInit PROVE NetworkInv
  OBVIOUS
<1>1. VaultOK(token) /\ now = StartTime /\ token.stakingTotalAssets = 0
  BY InitOK DEF MinipoolInit, TokenInit
<1>2. net = NetOf([n \in NodeIDs |-> NoMinipool], 0, [o \in Owners |-> Staking!NoStaker],
                  Vault!EmptyVault)
  BY DEF MinipoolInit, NetOf
<1>3. NetOK(net) /\ net.totalAVAXLiquidStakerAmt = 0
  BY <1>2, FirstNetOK, NetOfFields
<1>4. MultisigsInv
  <2> DEFINE R == [addr : Multisigs, enabled : BOOLEAN]
             k == [i \in DOMAIN FirstMultisigs |-> [addr |-> FirstMultisigs[i], enabled |-> TRUE]]
  <2>1. FirstMultisigs \in Seq(Multisigs)
    BY NetworkConstants
  <2>2. DOMAIN FirstMultisigs = 1..Len(FirstMultisigs) /\ Len(FirstMultisigs) \in Nat
    BY <2>1
  <2>3. \A i \in DOMAIN FirstMultisigs : k[i] \in R
    BY <2>1, ElementOf
  <2>4. k = [i \in DOMAIN FirstMultisigs |-> k[i]]
    OBVIOUS
  <2>5. multisigs = k
    BY DEF MinipoolInit
  <2> HIDE DEF k, R
  <2>6. k \in [1..Len(FirstMultisigs) -> R]
    BY <2>2, <2>3, <2>4
  <2>7. k \in Seq(R)
    BY <2>2, <2>6
  <2> QED BY <2>5, <2>7 DEF MultisigsInv, R
<1>5. /\ paused = {} /\ ggpPrice \in Nat \ {0} /\ delegated = 0 /\ now \in Nat /\ now > 0
  BY <1>1, NetworkConstants DEF MinipoolInit
<1> QED BY <1>1, <1>3, <1>4, <1>5 DEF NetworkInv

(* Every transaction keeps the invariant. *)
LEMMA MinipoolNextOK ==
  ASSUME NetworkInv, [MinipoolNext]_vars
  PROVE  NetworkInv'
<1>0. /\ Durations \subseteq Nat /\ Delays \subseteq Nat /\ ValidationRewards \subseteq Nat
      /\ Amounts \subseteq Nat \ {0} /\ GGPAmounts \subseteq Nat /\ Locks \subseteq Nat
      /\ Pauses \subseteq BOOLEAN /\ now \in Nat
  BY NetworkConstants, TokenConstants, InvFields
<1>1. CASE OwnerNext
  <2>1. ASSUME NEW n \in NodeIDs, NEW o \in Owners, CancelMinipoolTx(o, n)
        PROVE  NetworkInv'
    BY <2>1, CancelTxOK DEF CancelMinipoolTx
  <2> QED BY <1>1, <2>1, CreateMinipoolTxOK, WithdrawMinipoolFundsTxOK DEF OwnerNext
<1>2. CASE RelauncherNext
  BY <1>2, RelaunchMinipoolTxOK DEF RelauncherNext
<1>3. CASE RialtoNext
  <2>1. ASSUME NEW n \in NodeIDs, NEW m \in Multisigs, CancelMinipoolByMultisigTx(m, n)
        PROVE  NetworkInv'
    BY <2>1, CancelTxOK DEF CancelMinipoolByMultisigTx
  <2>2. ASSUME NEW n \in NodeIDs, NEW m \in Multisigs, NEW d \in Delays, d < now,
               RecordStakingStartTx(m, n, now - d)
        PROVE  NetworkInv'
    <3>1. now - d \in Nat
      BY <1>0, <2>2
    <3> QED BY <2>2, <3>1, RecordStakingStartTxOK
  <2>3. ASSUME NEW n \in NodeIDs, NEW m \in Multisigs, NEW d \in Delays,
               NEW r \in ValidationRewards, NEW f \in FeeBips,
               \/ RecordStakingEndTx(m, n, now - d, r, f)
               \/ RecordStakingEndThenMaybeCycleTx(m, n, now - d, r, f)
        PROVE  NetworkInv'
    <3>1. now - d \in Int /\ r \in Nat
      BY <1>0
    <3> QED BY <2>3, <3>1, RecordStakingEndTxOK, RecordStakingEndThenMaybeCycleTxOK
  <2> QED BY <1>3, <2>1, <2>2, <2>3, ClaimAndInitiateStakingTxOK, RecordStakingErrorTxOK
          DEF RialtoNext
<1>4. CASE DelegationNext
  <2>1. ASSUME NEW a \in Amounts, WithdrawForDelegationTx(a) PROVE NetworkInv'
    BY <1>0, <2>1, WithdrawForDelegationTxOK
  <2>2. ASSUME NEW a \in Amounts, NEW r \in ValidationRewards, NEW f \in FeeBips,
               DepositFromDelegationTx(a, r, f)
        PROVE  NetworkInv'
    BY <1>0, <2>2, DepositFromDelegationTxOK
  <2> QED BY <1>4, <2>1, <2>2 DEF DelegationNext
<1>5. CASE StakerNext
  <2>1. ASSUME NEW o \in Owners, NEW a \in GGPAmounts, StakeGGPTx(o, a) PROVE NetworkInv'
    BY <1>0, <2>1, StakeGGPTxOK
  <2>2. ASSUME NEW o \in Owners, NEW a \in GGPAmounts, NEW t \in Locks,
               StakeGGPWithLockTx(o, a, t)
        PROVE  NetworkInv'
    BY <1>0, <2>2, StakeGGPWithLockTxOK
  <2>3. ASSUME NEW o \in Owners, NEW a \in GGPAmounts, WithdrawGGPTx(o, a) PROVE NetworkInv'
    BY <1>0, <2>3, WithdrawGGPTxOK
  <2> QED BY <1>5, <2>1, <2>2, <2>3 DEF StakerNext
<1>6. CASE GuardianNext
  <2>1. ASSUME NEW i \in DOMAIN multisigs, NEW b \in Pauses, SetMultisigTx(i, b)
        PROVE  NetworkInv'
    BY <1>0, <2>1, SetMultisigTxOK
  <2>2. ASSUME NEW a \in GGPAmounts, TransferGGPFromVaultTx(a) PROVE NetworkInv'
    BY <1>0, <2>2, TransferGGPFromVaultTxOK
  <2> QED BY <1>6, <2>1, <2>2, RegisterMultisigTxOK, PauseTxOK, PauseEverythingTxOK,
             ResumeEverythingTxOK, SetGGPPriceTxOK
          DEF GuardianNext
<1>7. CASE LiquidStakerNext
  BY <1>7, LiquidStakerOK
<1>8. CASE UNCHANGED vars
  <2>1. UNCHANGED <<now, token, net, multisigs, paused, ggpPrice, delegated>>
    BY <1>8 DEF vars, tokenVars, minipoolVars
  <2>2. VaultOK(token)'
    BY <2>1, VaultMoves DEF NetworkInv
  <2> QED BY <2>1, <2>2 DEF NetworkInv, MultisigsInv
<1> QED BY <1>1, <1>2, <1>3, <1>4, <1>5, <1>6, <1>7, <1>8 DEF MinipoolNext

(* The network keeps its invariant: the totals of the stakers, of the loans *)
(* and of the Vault are those of the minipools, and ggAVAX agrees.          *)
THEOREM NetworkInvariant == MinipoolSpec => []NetworkInv
<1>1. NetworkInv /\ [MinipoolNext]_vars => NetworkInv'
  BY MinipoolNextOK
<1> QED BY MinipoolInitOK, <1>1, PTL DEF MinipoolSpec

-----------------------------------------------------------------------------
(* The theorems *)

(* The storage keeps its shape: no subtraction of the handlers goes below *)
(* zero, and no status or account is one the code does not know.          *)
THEOREM MinipoolTypeCorrect == MinipoolSpec => []MinipoolTypeOK
<1>1. NetworkInv => MinipoolTypeOK
  BY DEF NetworkInv, MinipoolTypeOK, NetOK, MultisigsInv, VaultOK, TokenTypeOK
<1> QED BY NetworkInvariant, <1>1, PTL

(* A sum over some of the minipools, of what the others do not add *)
LEMMA SumOverPart ==
  ASSUME NEW f \in [NodeIDs -> Nat], NEW g, NEW L \in SUBSET NodeIDs,
         \A n \in L : f[n] = g[n], \A n \in NodeIDs \ L : f[n] = 0
  PROVE  Sum(f) = SumFunctionOnSet(g, L)
<1>1. IsFiniteSet(NodeIDs) /\ IsFiniteSet(L)
  BY NetworkConstants, FS_Subset
<1>2. SumFunctionOnSet(f, L) = SumFunctionOnSet(f, NodeIDs)
  <2>1. \A n \in NodeIDs : f[n] \in Int
    OBVIOUS
  <2> QED BY <1>1, <2>1, SumOfPart
<1>3. SumFunctionOnSet(f, L) = SumFunctionOnSet(g, L)
  BY <1>1, SumAgree
<1> QED BY <1>2, <1>3 DEF Sum

(* The totals of every staker are those of its minipools. *)
THEOREM StakersCorrect == MinipoolSpec => []StakersAgree
<1>1. ASSUME NetworkInv, NEW o \in Owners
      PROVE  LET st == net.stakers[o]
             IN  /\ st.avaxStaked = SumOver(With(Unpaid) \cap Of(o), NodeOpAmt)
                 /\ st.avaxAssigned = SumOver(With(Active) \cap Of(o), LiquidAmt)
                 /\ st.avaxValidating = SumOver(With({"Staking"}) \cap Of(o), LiquidAmt)
                 /\ st.avaxValidatingHighWater >= st.avaxValidating
  <2> DEFINE m == net.minipools
             st == net.stakers[o]
             a == [n \in NodeIDs |-> m[n].avaxNodeOpAmt]
             b == [n \in NodeIDs |-> m[n].avaxLiquidStakerAmt]
             K == With(Unpaid) \cap Of(o)
             L == With(Active) \cap Of(o)
             V == With({"Staking"}) \cap Of(o)
  <2>1. m \in [NodeIDs -> Minipool] /\ CountersOK(m, st, o) /\ ClockOK(st)
    BY <1>1, NetworkFields DEF NetworkInv, NetOK
  <2>2. /\ StakedOf(m, o) \in [NodeIDs -> Nat] /\ AssignedOf(m, o) \in [NodeIDs -> Nat]
        /\ ValidatingOf(m, o) \in [NodeIDs -> Nat]
    BY <2>1, PartFunctions
  <2>3. Sum(StakedOf(m, o)) = SumFunctionOnSet(a, K)
    <3>1. /\ \A n \in K : StakedOf(m, o)[n] = a[n]
          /\ \A n \in NodeIDs \ K : StakedOf(m, o)[n] = 0
          /\ K \in SUBSET NodeIDs
      BY DEF StakedOf, Staked, With, Of
    <3> HIDE DEF a, K, m
    <3> QED BY <2>2, <3>1, SumOverPart
  <2>4. Sum(AssignedOf(m, o)) = SumFunctionOnSet(b, L)
    <3>1. /\ \A n \in L : AssignedOf(m, o)[n] = b[n]
          /\ \A n \in NodeIDs \ L : AssignedOf(m, o)[n] = 0
          /\ L \in SUBSET NodeIDs
      BY DEF AssignedOf, Assigned, With, Of
    <3> HIDE DEF b, L, m
    <3> QED BY <2>2, <3>1, SumOverPart
  <2>5. Sum(ValidatingOf(m, o)) = SumFunctionOnSet(b, V)
    <3>1. /\ \A n \in V : ValidatingOf(m, o)[n] = b[n]
          /\ \A n \in NodeIDs \ V : ValidatingOf(m, o)[n] = 0
          /\ V \in SUBSET NodeIDs
      BY DEF ValidatingOf, Validating, With, Of
    <3> HIDE DEF b, V, m
    <3> QED BY <2>2, <3>1, SumOverPart
  <2>6. /\ SumOver(K, NodeOpAmt) = SumFunctionOnSet(a, K)
        /\ SumOver(L, LiquidAmt) = SumFunctionOnSet(b, L)
        /\ SumOver(V, LiquidAmt) = SumFunctionOnSet(b, V)
    <3> HIDE DEF K, L, V
    <3> QED BY DEF SumOver, NodeOpAmt, LiquidAmt
  <2> QED BY <2>1, <2>3, <2>4, <2>5, <2>6 DEF CountersOK, ClockOK
<1>2. NetworkInv => StakersAgree
  BY <1>1 DEF StakersAgree
<1> QED BY NetworkInvariant, <1>2, PTL

(* The Vault holds what the owners may withdraw, and the GGP of every staker. *)
THEOREM VaultCorrect == MinipoolSpec => []VaultCovers
<1>1. ASSUME NetworkInv PROVE VaultCovers
  <2> DEFINE m == net.minipools
             a == [n \in NodeIDs |-> TotalAvaxAmt(m[n])]
             L == With(InVault)
  <2>1. /\ m \in [NodeIDs -> Minipool]
        /\ net.vault.avax["MinipoolManager"] >= Sum(HeldFor(m))
        /\ net.vault.ggp["Staking"] = SumFunctionOnSet(GGPOf(net.stakers), Owners)
    BY <1>1, NetworkFields DEF NetworkInv, NetOK
  <2>2. HeldFor(m) \in [NodeIDs -> Nat]
    BY <2>1, PartFunctions
  <2>3. Sum(HeldFor(m)) = SumFunctionOnSet(a, L)
    <3>1. /\ \A n \in L : HeldFor(m)[n] = a[n]
          /\ \A n \in NodeIDs \ L : HeldFor(m)[n] = 0
          /\ L \in SUBSET NodeIDs
      BY DEF HeldFor, Held, With
    <3> HIDE DEF a, L, m
    <3> QED BY <2>2, <3>1, SumOverPart
  <2>4. SumOver(L, TotalAvaxAmt) = SumFunctionOnSet(a, L)
    <3> HIDE DEF L
    <3> QED BY DEF SumOver
  <2> QED BY <2>1, <2>3, <2>4 DEF VaultCovers, GGPOf
<1> QED BY NetworkInvariant, <1>1, PTL

(* What MinipoolManager and ggAVAX count as lent is what the minipools hold. *)
THEOREM LoansCorrect == MinipoolSpec => []LiquidAccounted
<1>1. ASSUME NetworkInv PROVE LiquidAccounted
  <2> DEFINE m == net.minipools
             b == [n \in NodeIDs |-> m[n].avaxLiquidStakerAmt]
             L == With(AtWork)
  <2>1. /\ m \in [NodeIDs -> Minipool] /\ net.totalAVAXLiquidStakerAmt = Sum(LentBy(m))
        /\ token.stakingTotalAssets = net.totalAVAXLiquidStakerAmt + delegated
    BY <1>1, NetworkFields DEF NetworkInv, NetOK
  <2>2. LentBy(m) \in [NodeIDs -> Nat]
    BY <2>1, PartFunctions
  <2>3. Sum(LentBy(m)) = SumFunctionOnSet(b, L)
    <3>1. /\ \A n \in L : LentBy(m)[n] = b[n]
          /\ \A n \in NodeIDs \ L : LentBy(m)[n] = 0
          /\ L \in SUBSET NodeIDs
      BY DEF LentBy, Lent, With
    <3> HIDE DEF b, L, m
    <3> QED BY <2>2, <3>1, SumOverPart
  <2>4. SumOver(L, LiquidAmt) = SumFunctionOnSet(b, L)
    <3> HIDE DEF L
    <3> QED BY DEF SumOver, LiquidAmt
  <2> QED BY <2>1, <2>3, <2>4 DEF LiquidAccounted
<1> QED BY NetworkInvariant, <1>1, PTL

(* Who has AVAX assigned or validating is in the rewards program. *)
THEOREM RewardsClockCorrect == MinipoolSpec => []RewardsClock
<1>1. NetworkInv => RewardsClock
  BY DEF NetworkInv, NetOK, ClockOK, RewardsClock
<1> QED BY NetworkInvariant, <1>1, PTL

(* A minipool that is not idle: what it has is in the totals. *)
LEMMA PartsOf ==
  ASSUME NetworkInv, NEW n \in NodeIDs, net.minipools[n].status \in Unpaid
  PROVE  LET mp == net.minipools[n]
             st == net.stakers[mp.owner]
             v == net.vault
         IN  /\ mp.status \in Statuses /\ mp.avaxNodeOpAmt \in Nat \ {0}
             /\ mp.avaxLiquidStakerAmt \in Nat /\ TotalAvaxAmt(mp) \in Nat \ {0}
             /\ mp.avaxNodeOpAmt <= st.avaxStaked
             /\ mp.status \in Active => mp.avaxLiquidStakerAmt <= st.avaxAssigned
             /\ mp.status = "Staking" => mp.avaxLiquidStakerAmt <= st.avaxValidating
             /\ mp.status \in AtWork =>
                  /\ mp.avaxLiquidStakerAmt <= net.totalAVAXLiquidStakerAmt
                  /\ mp.avaxLiquidStakerAmt <= token.stakingTotalAssets
             /\ mp.status \in InVault => TotalAvaxAmt(mp) <= v.avax["MinipoolManager"]
             /\ mp.status = "Prelaunch" => TotalAvaxAmt(mp) = mp.avaxNodeOpAmt
             /\ mp.startTime \in Nat
<1> DEFINE mp == net.minipools[n]
           st == net.stakers[mp.owner]
           v == net.vault
<1>1. /\ mp \in Minipool /\ MinipoolOK(mp) /\ mp.status \in Unpaid
      /\ Staked(mp) <= st.avaxStaked /\ Assigned(mp) <= st.avaxAssigned
      /\ Validating(mp) <= st.avaxValidating
      /\ Lent(mp) <= net.totalAVAXLiquidStakerAmt
      /\ Held(mp) <= v.avax["MinipoolManager"]
  <2>1. NetOK(net) /\ mp.status # "NotFound"
    BY InvFields DEF Unpaid, Active
  <2> QED BY <2>1, PartsFit
<1>2. /\ net.totalAVAXLiquidStakerAmt \in Nat /\ delegated \in Nat
      /\ token.stakingTotalAssets = net.totalAVAXLiquidStakerAmt + delegated
  BY InvFields, NetworkFields DEF NetworkInv
<1> DEFINE k == token.stakingTotalAssets
           l == net.totalAVAXLiquidStakerAmt
           w == v.avax["MinipoolManager"]
<1> HIDE DEF mp, st, k, l, w
<1>3. /\ mp.status \in Statuses /\ mp.avaxNodeOpAmt \in Nat /\ mp.avaxLiquidStakerAmt \in Nat
      /\ mp.avaxNodeOpRewardAmt \in Nat /\ mp.startTime \in Nat
  BY <1>1, MinipoolFields
<1>4. mp.avaxNodeOpAmt > 0 /\ (mp.status = "Prelaunch" => mp.avaxNodeOpRewardAmt = 0)
  BY <1>1 DEF MinipoolOK, Unpaid, Active
<1>5. /\ TotalAvaxAmt(mp) \in Nat \ {0}
      /\ mp.status = "Prelaunch" => TotalAvaxAmt(mp) = mp.avaxNodeOpAmt
  BY <1>3, <1>4 DEF TotalAvaxAmt
<1>6. mp.avaxNodeOpAmt <= st.avaxStaked
  BY <1>1 DEF Staked
<1>7. mp.status \in Active => mp.avaxLiquidStakerAmt <= st.avaxAssigned
  BY <1>1 DEF Assigned
<1>8. mp.status = "Staking" => mp.avaxLiquidStakerAmt <= st.avaxValidating
  BY <1>1 DEF Validating
<1>9. mp.status \in AtWork => mp.avaxLiquidStakerAmt <= l /\ mp.avaxLiquidStakerAmt <= k
  <2>1. mp.status \in AtWork => mp.avaxLiquidStakerAmt <= l
    BY <1>1 DEF Lent, l
  <2> QED BY <1>2, <1>3, <2>1 DEF l, k
<1>10. mp.status \in InVault => TotalAvaxAmt(mp) <= w
  BY <1>1 DEF Held, w
<1> QED BY <1>3, <1>4, <1>5, <1>6, <1>7, <1>8, <1>9, <1>10 DEF mp, st, k, l, w

(* Whatever has happened, the funds of a minipool have a way home. *)
THEOREM NeverStuck == MinipoolSpec => []NothingStuck
<1>1. ASSUME NetworkInv, NEW n \in NodeIDs
      PROVE  LET mp == net.minipools[n]
             IN  /\ mp.status = "Prelaunch" => CanCancel(net, n)
                 /\ mp.status \in {"Launched", "Staking"} =>
                       CanDepositFromStaking(token, mp.avaxLiquidStakerAmt)
                 /\ mp.status = "Launched" => CanRecordError(net, n)
                 /\ mp.status = "Staking" /\ now > mp.startTime =>
                       \A r \in ValidationRewards \ {0} : CanRecordEnd(net, n, now, r)
                 /\ mp.status \in {"Withdrawable", "Error"} => CanWithdrawFunds(net, n)
  <2> DEFINE mp == net.minipools[n]
             st == net.stakers[mp.owner]
             y == mp.avaxLiquidStakerAmt
             x == mp.avaxNodeOpAmt
  <2>0. /\ Active = {"Prelaunch", "Launched", "Staking"} /\ AtWork = {"Launched", "Staking"}
        /\ Unpaid = Active \cup {"Withdrawable", "Error"}
        /\ InVault = {"Prelaunch", "Withdrawable", "Error"}
    BY DEF Active, Unpaid, AtWork, InVault
  <2>1. /\ net.totalAVAXLiquidStakerAmt \in Nat /\ net.vault.avax["MinipoolManager"] \in Nat
        /\ token.stakingTotalAssets \in Nat
    BY <1>1, InvFields, NetworkFields, VaultStorageFields, VaultFields
  <2>2. CASE mp.status = "Prelaunch"
    BY <1>1, <2>0, <2>1, <2>2, PartsOf, Moves DEF CanCancel, Vault!CanWithdrawAVAX
  <2>3. CASE mp.status = "Launched"
    BY <1>1, <2>0, <2>1, <2>3, PartsOf, Moves
       DEF CanDepositFromStaking, CanRecordError, Vault!CanDepositAVAX
  <2>4. CASE mp.status = "Staking"
    <3>1. /\ mp.status \in Statuses /\ x \in Nat \ {0} /\ y <= st.avaxAssigned
          /\ y <= st.avaxValidating /\ y <= net.totalAVAXLiquidStakerAmt
          /\ y <= token.stakingTotalAssets
      BY <1>1, <2>0, <2>4, PartsOf
    <3>2. CanMove(mp, "Withdrawable")
      BY <2>4, <3>1, Moves
    <3>3. ASSUME NEW r \in ValidationRewards \ {0}, now > mp.startTime
          PROVE  CanRecordEnd(net, n, now, r)
      <4>1. NodeOpReward(r) \in Nat /\ now \in Nat
        BY <1>1, NetworkConstants, RewardSplit, InvFields
      <4>2. x + NodeOpReward(r) # 0
        <5> HIDE DEF x
        <5> QED BY <3>1, <4>1
      <4> QED BY <3>1, <3>2, <3>3, <4>1, <4>2 DEF CanRecordEnd, Vault!CanDepositAVAX
    <3> QED BY <2>4, <3>1, <3>3 DEF CanDepositFromStaking
  <2>5. CASE mp.status \in {"Withdrawable", "Error"}
    BY <1>1, <2>0, <2>1, <2>5, PartsOf, Moves DEF CanWithdrawFunds, Vault!CanWithdrawAVAX
  <2> DEFINE Home ==
               /\ mp.status = "Prelaunch" => CanCancel(net, n)
               /\ mp.status \in {"Launched", "Staking"} => CanDepositFromStaking(token, y)
               /\ mp.status = "Launched" => CanRecordError(net, n)
               /\ mp.status = "Staking" /\ now > mp.startTime =>
                     \A r \in ValidationRewards \ {0} : CanRecordEnd(net, n, now, r)
               /\ mp.status \in {"Withdrawable", "Error"} => CanWithdrawFunds(net, n)
  <2>6. CASE mp.status \notin {"Prelaunch", "Launched", "Staking", "Withdrawable", "Error"}
    BY <2>6
  <2>7. Home
    BY <2>2, <2>3, <2>4, <2>5, <2>6
  <2> QED BY <2>7
<1>2. NetworkInv => NothingStuck
  BY <1>1 DEF NothingStuck
<1> QED BY NetworkInvariant, <1>2, PTL

-----------------------------------------------------------------------------
(* The network implements the ledger *)

(* What the ledger sees of the network: the accounts, the work, the cash *)
HeldNow == [n \in NodeIDs |-> Held(net.minipools[n])]
WorkNow == [n \in NodeIDs |-> Working(net.minipools[n])]
Cash == net.vault.avax["MinipoolManager"]

(* A transaction that writes one minipool moves one account. *)
LEMMA FrameOK ==
  ASSUME NEW n \in NodeIDs, NEW mq, net.minipools \in [NodeIDs -> Minipool],
         net'.minipools = [net.minipools EXCEPT ![n] = mq]
  PROVE  /\ HeldNow[n] = Held(net.minipools[n]) /\ WorkNow[n] = Working(net.minipools[n])
         /\ HeldNow'[n] = Held(mq) /\ WorkNow'[n] = Working(mq)
         /\ HeldNow' = [HeldNow EXCEPT ![n] = Held(mq)]
         /\ WorkNow' = [WorkNow EXCEPT ![n] = Working(mq)]
         /\ Held(mq) = Held(net.minipools[n]) => HeldNow' = HeldNow
         /\ Working(mq) = Working(net.minipools[n]) => WorkNow' = WorkNow
<1>1. net'.minipools[n] = mq /\ \A k \in NodeIDs \ {n} : net'.minipools[k] = net.minipools[k]
  OBVIOUS
<1>2. /\ HeldNow[n] = Held(net.minipools[n]) /\ WorkNow[n] = Working(net.minipools[n])
      /\ HeldNow'[n] = Held(mq) /\ WorkNow'[n] = Working(mq)
  BY <1>1 DEF HeldNow, WorkNow
<1>3. HeldNow' = [HeldNow EXCEPT ![n] = Held(mq)]
  BY <1>1 DEF HeldNow
<1>4. WorkNow' = [WorkNow EXCEPT ![n] = Working(mq)]
  BY <1>1 DEF WorkNow
<1>5. Held(mq) = Held(net.minipools[n]) => HeldNow' = HeldNow
  BY <1>1 DEF HeldNow
<1>6. Working(mq) = Working(net.minipools[n]) => WorkNow' = WorkNow
  BY <1>1 DEF WorkNow
<1> QED BY <1>2, <1>3, <1>4, <1>5, <1>6

(* What each action of the ledger asks of an account *)
LEMMA LedgerActions ==
  ASSUME NEW n \in NodeIDs, HeldNow' = [HeldNow EXCEPT ![n] = HeldNow'[n]],
         WorkNow' = [WorkNow EXCEPT ![n] = WorkNow'[n]]
  PROVE  LET h == HeldNow[n]
             w == WorkNow[n]
             l == net.totalAVAXLiquidStakerAmt
         IN  /\ h = 0 /\ w = 0 /\ HeldNow'[n] > 0 /\ WorkNow'[n] = 0 /\ l' = l
                /\ Cash' - Cash = HeldNow'[n] - h
                => Ledger!Open(n)
             /\ HeldNow'[n] \in 0 .. h - 1 /\ Cash' - Cash = HeldNow'[n] - h
                /\ WorkNow' = WorkNow /\ l' = l
                => Ledger!PayOut(n)
             /\ h > 0 /\ HeldNow'[n] = 0 /\ WorkNow'[n] = h /\ l' = l + h
                /\ Cash' - Cash = HeldNow'[n] - h
                => Ledger!Launch(n)
             /\ w > 0 /\ WorkNow'[n] = 0 /\ HeldNow'[n] >= w /\ l' = l - w
                /\ Cash' - Cash = HeldNow'[n] - h
                => Ledger!Return(n)
             /\ w > 0 /\ WorkNow'[n] >= w /\ l' = l + WorkNow'[n] - w /\ Cash' >= Cash
                /\ HeldNow' = HeldNow
                => Ledger!Renew(n)
BY DEF HeldNow, WorkNow, Cash, Ledger!Open, Ledger!PayOut, Ledger!Launch, Ledger!Return,
       Ledger!Renew, Ledger!Only, Ledger!Booked

(* What a transaction may be to the ledger *)
LedgerStep ==
  \/ Ledger!LedgerNext
  \/ UNCHANGED <<HeldNow, WorkNow, Cash, net.totalAVAXLiquidStakerAmt>>

(* What a transaction is to the ledger, by what it does to its minipool *)
LEMMA LedgerOne ==
  ASSUME NEW n \in NodeIDs, NEW mq, net.minipools \in [NodeIDs -> Minipool],
         net'.minipools = [net.minipools EXCEPT ![n] = mq]
  PROVE  LET h == Held(net.minipools[n])
             w == Working(net.minipools[n])
             h2 == Held(mq)
             w2 == Working(mq)
             l == net.totalAVAXLiquidStakerAmt
         IN  /\ h = 0 /\ w = 0 /\ h2 > 0 /\ w2 = 0 /\ l' = l /\ Cash' - Cash = h2 - h => LedgerStep
             /\ h2 \in 0 .. h - 1 /\ Cash' - Cash = h2 - h /\ w2 = w /\ l' = l => LedgerStep
             /\ h > 0 /\ h2 = 0 /\ w2 = h /\ l' = l + h /\ Cash' - Cash = h2 - h => LedgerStep
             /\ w > 0 /\ w2 = 0 /\ h2 >= w /\ l' = l - w /\ Cash' - Cash = h2 - h => LedgerStep
             /\ w > 0 /\ w2 >= w /\ l' = l + w2 - w /\ Cash' >= Cash /\ h2 = h => LedgerStep
             /\ h2 = h /\ w2 = w /\ l' = l /\ Cash' = Cash => LedgerStep
<1> DEFINE h == Held(net.minipools[n])
           w == Working(net.minipools[n])
           h2 == Held(mq)
           w2 == Working(mq)
           l == net.totalAVAXLiquidStakerAmt
           l2 == net'.totalAVAXLiquidStakerAmt
<1>1. /\ HeldNow[n] = h /\ WorkNow[n] = w /\ HeldNow'[n] = h2 /\ WorkNow'[n] = w2
      /\ HeldNow' = [HeldNow EXCEPT ![n] = h2] /\ WorkNow' = [WorkNow EXCEPT ![n] = w2]
      /\ h2 = h => HeldNow' = HeldNow
      /\ w2 = w => WorkNow' = WorkNow
  BY FrameOK
<1>2. /\ HeldNow' = [HeldNow EXCEPT ![n] = HeldNow'[n]]
      /\ WorkNow' = [WorkNow EXCEPT ![n] = WorkNow'[n]]
  BY <1>1
<1>3. Ledger!Open(n) \/ Ledger!PayOut(n) \/ Ledger!Launch(n) \/ Ledger!Return(n) \/ Ledger!Renew(n)
        => LedgerStep
  BY DEF LedgerStep, Ledger!LedgerNext
<1> HIDE DEF h, w, h2, w2
<1>4. h = 0 /\ w = 0 /\ h2 > 0 /\ w2 = 0 /\ l2 = l /\ Cash' - Cash = h2 - h => LedgerStep
  BY <1>1, <1>2, <1>3, LedgerActions
<1>5. h2 \in 0 .. h - 1 /\ Cash' - Cash = h2 - h /\ w2 = w /\ l2 = l => LedgerStep
  BY <1>1, <1>2, <1>3, LedgerActions
<1>6. h > 0 /\ h2 = 0 /\ w2 = h /\ l2 = l + h /\ Cash' - Cash = h2 - h => LedgerStep
  BY <1>1, <1>2, <1>3, LedgerActions
<1>7. w > 0 /\ w2 = 0 /\ h2 >= w /\ l2 = l - w /\ Cash' - Cash = h2 - h => LedgerStep
  BY <1>1, <1>2, <1>3, LedgerActions
<1>8. w > 0 /\ w2 >= w /\ l2 = l + w2 - w /\ Cash' >= Cash /\ h2 = h => LedgerStep
  BY <1>1, <1>2, <1>3, LedgerActions
<1>9. h2 = h /\ w2 = w /\ l2 = l /\ Cash' = Cash => LedgerStep
  BY <1>1 DEF LedgerStep
<1> QED BY <1>4, <1>5, <1>6, <1>7, <1>8, <1>9 DEF h, w, h2, w2

(* What is at work, in each status *)
LEMMA WorkingOf ==
  ASSUME NEW mp
  PROVE  /\ mp.status \in AtWork => Working(mp) = mp.avaxNodeOpAmt
         /\ mp.status \in {"Prelaunch", "Canceled", "Withdrawable", "Error", "Finished", "NotFound"}
              => Working(mp) = 0
         /\ AtWork = {"Launched", "Staking"}
BY DEF Working, AtWork

(* What the ledger sees, of any storage of the network *)
LEMMA LedgerFields ==
  ASSUME NetworkInv
  PROVE  /\ NetOK(net) /\ net.minipools \in [NodeIDs -> Minipool] /\ Cash \in Nat
         /\ net.totalAVAXLiquidStakerAmt \in Nat
BY InvFields, NetworkFields, VaultStorageFields DEF Cash

(* createMinipool opens an account. *)
LEMMA CreateMoves ==
  ASSUME NEW s, NetOK(s), MultisigsInv, now \in Nat, now > 0,
         NEW n \in NodeIDs, NEW o \in Owners, NEW x \in Nat, NEW d \in Durations,
         CanCreate(s, n, o, x, d)
  PROVE  /\ Create(s, n, o, x, d).minipools = [s.minipools EXCEPT ![n] = NewMinipool(o, x, d)]
         /\ Create(s, n, o, x, d).totalAVAXLiquidStakerAmt = s.totalAVAXLiquidStakerAmt
         /\ Create(s, n, o, x, d).vault.avax["MinipoolManager"]
              = s.vault.avax["MinipoolManager"] + x
         /\ s.minipools[n].status \in {"NotFound", "Finished", "Canceled"} /\ x > 0
         /\ Held(NewMinipool(o, x, d)) = x /\ Working(NewMinipool(o, x, d)) = 0
         /\ Held(s.minipools[n]) = 0 /\ Working(s.minipools[n]) = 0
<1>1. x \in Nat \ {0} /\ d \in Nat
  BY NetworkConstants DEF CanCreate
<1>2. NextActiveMultisig \in Multisigs
  BY NextMultisigOK DEF CanCreate
<1> DEFINE mp == s.minipools[n]
           mq == NewMinipool(o, x, d)
<1>3. mp.status \in {"NotFound", "Finished", "Canceled"} /\ mp \in Minipool
  <2>1. mp \in Minipool
    BY NetworkFields DEF NetOK
  <2>2. CanMove(mp, "Prelaunch")
    BY DEF CanCreate
  <2> HIDE DEF mp
  <2>3. mp.status \in Statuses
    BY <2>1, MinipoolFields
  <2> QED BY <2>1, <2>2, <2>3, Moves
<1>4. Held(mp) = 0 /\ Working(mp) = 0 /\ mp.status \notin Unpaid
  <2> HIDE DEF mp
  <2> QED BY <1>3 DEF Unpaid, Active, Held, InVault, Working, AtWork
<1>5. Held(mq) = x /\ Working(mq) = 0
  <2>1. Held(mq) = x /\ mq.status = "Prelaunch"
    BY <1>1, <1>2, NewMinipoolOK
  <2> HIDE DEF mq
  <2> QED BY <2>1, WorkingOf
<1> DEFINE u == Create(s, n, o, x, d)
<1>6. /\ NetOK(u)
      /\ u.minipools = [s.minipools EXCEPT ![n] = NewMinipool(o, x, d)]
      /\ u.totalAVAXLiquidStakerAmt = s.totalAVAXLiquidStakerAmt
      /\ u.vault.avax["MinipoolManager"] = s.vault.avax["MinipoolManager"] + x
  BY <1>1, <1>2, <1>4, CreateOK
<1> QED BY <1>1, <1>3, <1>4, <1>5, <1>6

(* A new minipool opens an account. *)
LEMMA CreateLedger ==
  ASSUME NetworkInv, NEW n \in NodeIDs, NEW o \in Owners, NEW x \in Assignments,
         NEW d \in Durations, CreateMinipoolTx(n, o, x, d)
  PROVE  LedgerStep
<1> DEFINE mp == net.minipools[n]
           mq == NewMinipool(o, x, d)
           u == Create(net, n, o, x, d)
<1>1. /\ u.minipools = [net.minipools EXCEPT ![n] = NewMinipool(o, x, d)]
      /\ u.totalAVAXLiquidStakerAmt = net.totalAVAXLiquidStakerAmt
      /\ u.vault.avax["MinipoolManager"] = net.vault.avax["MinipoolManager"] + x
      /\ net.minipools[n].status \in {"NotFound", "Finished", "Canceled"} /\ x > 0
      /\ Held(NewMinipool(o, x, d)) = x /\ Working(NewMinipool(o, x, d)) = 0
      /\ Held(net.minipools[n]) = 0 /\ Working(net.minipools[n]) = 0
  <2>1. x \in Nat
    BY NetworkConstants
  <2>2. CanCreate(net, n, o, x, d)
    BY DEF CreateMinipoolTx
  <2>3. NetOK(net) /\ MultisigsInv /\ now \in Nat /\ now > 0
    BY InvFields
  <2> QED BY <2>1, <2>2, <2>3, CreateMoves
<1>2. net' = u
  BY DEF CreateMinipoolTx
<1> HIDE DEF u, mq, mp
<1>3. /\ net'.minipools = [net.minipools EXCEPT ![n] = mq]
      /\ net'.totalAVAXLiquidStakerAmt = net.totalAVAXLiquidStakerAmt
      /\ Cash' = Cash + x /\ x > 0
      /\ Held(mq) = x /\ Working(mq) = 0 /\ Held(mp) = 0 /\ Working(mp) = 0
  BY <1>1, <1>2 DEF mq, mp, Cash
<1>4. net.minipools \in [NodeIDs -> Minipool] /\ Cash \in Nat /\ x \in Nat
  BY LedgerFields, NetworkConstants
<1>5. Cash' - Cash = Held(mq) - Held(mp)
  BY <1>3, <1>4
<1> QED BY <1>3, <1>4, <1>5, LedgerOne DEF mp

(* A cancellation pays the account out, and so does a withdrawal. *)
LEMMA CancelLedger ==
  ASSUME NetworkInv, NEW n \in NodeIDs, CanCancel(net, n), net' = Cancel(net, n)
  PROVE  LedgerStep
<1> DEFINE mp == net.minipools[n]
           mq == [mp EXCEPT !.status = "Canceled"]
           u == Cancel(net, n)
<1>1. /\ mp.status = "Prelaunch" /\ mp.avaxNodeOpAmt \in Nat \ {0}
      /\ u.minipools = [net.minipools EXCEPT ![n] = mq]
      /\ u.totalAVAXLiquidStakerAmt = net.totalAVAXLiquidStakerAmt
      /\ u.vault.avax["MinipoolManager"] = net.vault.avax["MinipoolManager"] - mp.avaxNodeOpAmt
  BY LedgerFields, CancelOK
<1>2. mp \in Minipool /\ MinipoolOK(mp)
  BY InvFields DEF NetOK
<1>3. Held(mp) = mp.avaxNodeOpAmt /\ mq.status = "Canceled"
  <2>1. mp.status = "Prelaunch"
    BY <1>1
  <2> HIDE DEF mp
  <2> QED BY <1>2, <2>1, CancelMinipoolOK
<1>4. net' = u
  OBVIOUS
<1> HIDE DEF u, mq
<1>5. Held(mq) = 0 /\ Working(mq) = 0
  BY <1>3 DEF Held, InVault, Working, AtWork
<1>6. Working(mp) = 0
  BY <1>1, WorkingOf
<1>7. /\ net.minipools \in [NodeIDs -> Minipool] /\ Cash \in Nat
      /\ net'.minipools = [net.minipools EXCEPT ![n] = mq]
      /\ net'.totalAVAXLiquidStakerAmt = net.totalAVAXLiquidStakerAmt
      /\ Cash' = Cash - mp.avaxNodeOpAmt
  BY <1>1, <1>4, LedgerFields DEF Cash
<1> HIDE DEF mp
<1>8. Held(mq) \in 0 .. Held(mp) - 1 /\ Cash' - Cash = Held(mq) - Held(mp)
  BY <1>1, <1>3, <1>5, <1>7
<1> QED BY <1>5, <1>6, <1>7, <1>8, LedgerOne DEF mp

(* What a withdrawal is to the ledger *)
LEMMA WithdrawFundsMoves ==
  ASSUME NetworkInv, NEW n \in NodeIDs, CanWithdrawFunds(net, n)
  PROVE  LET mp == net.minipools[n]
             mq == [mp EXCEPT !.status = "Finished"]
         IN  /\ Held(mp) = TotalAvaxAmt(mp) /\ Working(mp) = 0 /\ TotalAvaxAmt(mp) \in Nat \ {0}
             /\ Held(mq) = 0 /\ Working(mq) = 0
<1> DEFINE mp == net.minipools[n]
           mq == [mp EXCEPT !.status = "Finished"]
<1>1. /\ mp.status \in {"Withdrawable", "Error"} /\ TotalAvaxAmt(mp) \in Nat \ {0} /\ mp \in Minipool
  BY LedgerFields, WithdrawFundsOK
<1>2. MinipoolOK(mp)
  BY InvFields DEF NetOK
<1>3. mq.status = "Finished"
  <2> HIDE DEF mp
  <2> QED BY <1>1, <1>2, FinishMinipoolOK
<1> HIDE DEF mq
<1>4. Held(mq) = 0 /\ Working(mq) = 0
  BY <1>3 DEF Held, InVault, Working, AtWork
<1>5. Held(mp) = TotalAvaxAmt(mp) /\ Working(mp) = 0
  <2> HIDE DEF mp
  <2> QED BY <1>1 DEF Held, InVault, Working, AtWork
<1> QED BY <1>1, <1>4, <1>5 DEF mq

(* A withdrawal pays the account out. *)
LEMMA WithdrawLedger ==
  ASSUME NetworkInv, NEW o, NEW n \in NodeIDs, WithdrawMinipoolFundsTx(o, n)
  PROVE  LedgerStep
<1> DEFINE mp == net.minipools[n]
           mq == [mp EXCEPT !.status = "Finished"]
           u == WithdrawFunds(net, n)
           x == TotalAvaxAmt(mp)
<1>0. CanWithdrawFunds(net, n) /\ net' = u
  BY DEF WithdrawMinipoolFundsTx
<1>1. /\ u.minipools = [net.minipools EXCEPT ![n] = mq]
      /\ u.totalAVAXLiquidStakerAmt = net.totalAVAXLiquidStakerAmt
      /\ u.vault.avax["MinipoolManager"] = net.vault.avax["MinipoolManager"] - x
  BY <1>0, LedgerFields, WithdrawFundsOK
<1>2. /\ Held(mp) = x /\ Working(mp) = 0 /\ x \in Nat \ {0} /\ Held(mq) = 0 /\ Working(mq) = 0
  BY <1>0, WithdrawFundsMoves
<1> HIDE DEF u, mq, mp, x
<1>3. /\ net.minipools \in [NodeIDs -> Minipool] /\ Cash \in Nat
      /\ net'.minipools = [net.minipools EXCEPT ![n] = mq]
      /\ net'.totalAVAXLiquidStakerAmt = net.totalAVAXLiquidStakerAmt
      /\ Cash' = Cash - x
  BY <1>0, <1>1, LedgerFields DEF Cash
<1>4. Held(mq) \in 0 .. Held(mp) - 1 /\ Cash' - Cash = Held(mq) - Held(mp)
  BY <1>2, <1>3
<1> QED BY <1>2, <1>3, <1>4, LedgerOne DEF mp

(* A relaunch pays out the account but for what was there at first, which *)
(* stays.  When nothing else was there the ledger does not notice.        *)
LEMMA RelaunchLedger ==
  ASSUME NetworkInv, NEW n \in NodeIDs, NEW d \in Durations, RelaunchMinipoolTx(n, d)
  PROVE  LedgerStep
<1> DEFINE mp == net.minipools[n]
           md == [mp EXCEPT !.status = "Finished"]
           w == WithdrawFunds(net, n)
           x == mp.avaxNodeOpInitialAmt
           o == mp.owner
           mq == NewMinipool(o, x, d)
           u == Create(w, n, o, x, d)
           t == TotalAvaxAmt(mp)
<1>1. CanWithdrawFunds(net, n) /\ CanCreate(w, n, o, x, d) /\ t >= x /\ net' = u
  BY DEF RelaunchMinipoolTx
<1>2. /\ NetOK(w) /\ w.minipools = [net.minipools EXCEPT ![n] = md]
      /\ w.totalAVAXLiquidStakerAmt = net.totalAVAXLiquidStakerAmt
      /\ w.vault.avax["MinipoolManager"] = net.vault.avax["MinipoolManager"] - t
      /\ mp \in Minipool /\ o \in Owners
  BY <1>1, LedgerFields, WithdrawFundsOK
<1>3. /\ Held(mp) = t /\ Working(mp) = 0 /\ t \in Nat \ {0}
  BY <1>1, WithdrawFundsMoves
<1>4. x \in Nat
  <2> HIDE DEF mp
  <2> QED BY <1>2, MinipoolFields
<1> HIDE DEF w, x, o, mp, t, md
<1>5. /\ u.minipools = [w.minipools EXCEPT ![n] = NewMinipool(o, x, d)]
      /\ u.totalAVAXLiquidStakerAmt = w.totalAVAXLiquidStakerAmt
      /\ u.vault.avax["MinipoolManager"] = w.vault.avax["MinipoolManager"] + x
      /\ w.minipools[n].status \in {"NotFound", "Finished", "Canceled"} /\ x > 0
      /\ Held(NewMinipool(o, x, d)) = x /\ Working(NewMinipool(o, x, d)) = 0
      /\ Held(w.minipools[n]) = 0 /\ Working(w.minipools[n]) = 0
  <2>1. MultisigsInv /\ now \in Nat /\ now > 0
    BY InvFields
  <2> QED BY <1>1, <1>2, <1>4, <2>1, CreateMoves
<1> HIDE DEF u, mq
<1>6. net.minipools \in [NodeIDs -> Minipool] /\ Cash \in Nat
  BY LedgerFields
<1>7. u.minipools = [net.minipools EXCEPT ![n] = mq]
  BY <1>2, <1>5 DEF mq
<1>8. /\ net'.minipools = [net.minipools EXCEPT ![n] = mq]
      /\ net'.totalAVAXLiquidStakerAmt = net.totalAVAXLiquidStakerAmt
      /\ Cash' = Cash - t + x
      /\ Held(mq) = x /\ Working(mq) = 0
  BY <1>1, <1>2, <1>5, <1>7 DEF Cash, mq
<1>9. t >= x
  BY <1>1
<1>10. CASE x < t
  <2>1. Held(mq) \in 0 .. Held(mp) - 1 /\ Cash' - Cash = Held(mq) - Held(mp)
    BY <1>3, <1>4, <1>6, <1>8, <1>10
  <2> QED BY <1>3, <1>6, <1>8, <2>1, LedgerOne DEF mp
<1>11. CASE x = t
  <2>1. Held(mq) = Held(mp) /\ Cash' = Cash
    BY <1>3, <1>4, <1>6, <1>8, <1>11
  <2> QED BY <1>3, <1>6, <1>8, <2>1, LedgerOne DEF mp
<1> QED BY <1>3, <1>4, <1>9, <1>10, <1>11

(* The launch takes as much from the pool as the account had. *)
LEMMA ClaimLedger ==
  ASSUME NetworkInv, NEW m, NEW n \in NodeIDs, ClaimAndInitiateStakingTx(m, n)
  PROVE  LedgerStep
<1> DEFINE mp == net.minipools[n]
           mq == [mp EXCEPT !.status = "Launched"]
           u == Launch(net, n)
           x == mp.avaxNodeOpAmt
           y == mp.avaxLiquidStakerAmt
<1>0. CanLaunch(net, n) /\ net' = u
  BY DEF ClaimAndInitiateStakingTx
<1>1. /\ mp.status = "Prelaunch" /\ mp \in Minipool /\ MinipoolOK(mp) /\ x \in Nat \ {0}
      /\ u.minipools = [net.minipools EXCEPT ![n] = mq]
      /\ u.totalAVAXLiquidStakerAmt = net.totalAVAXLiquidStakerAmt + y
      /\ u.vault.avax["MinipoolManager"] = net.vault.avax["MinipoolManager"] - x
  BY <1>0, LedgerFields, LaunchOK
<1> HIDE DEF u
<1>2. /\ Held(mp) = x /\ Held(mq) = 0 /\ Working(mp) = 0 /\ Working(mq) = x /\ y = x
  <2>1. mp \in Minipool /\ MinipoolOK(mp) /\ mp.status = "Prelaunch"
    BY <1>1
  <2> HIDE DEF mp
  <2>2. /\ Held(mp) = mp.avaxNodeOpAmt /\ Held(mq) = 0 /\ mq.status = "Launched"
        /\ mq.avaxNodeOpAmt = mp.avaxNodeOpAmt
    BY <2>1, LaunchMinipoolOK
  <2>3. y = x
    BY <2>1 DEF MinipoolOK, Active
  <2> HIDE DEF mq
  <2> QED BY <2>1, <2>2, <2>3, WorkingOf
<1> HIDE DEF mq, mp, x, y
<1>3. /\ net.minipools \in [NodeIDs -> Minipool] /\ Cash \in Nat
      /\ net'.minipools = [net.minipools EXCEPT ![n] = mq]
      /\ net'.totalAVAXLiquidStakerAmt = net.totalAVAXLiquidStakerAmt + y
      /\ Cash' = Cash - x
  BY <1>0, <1>1, LedgerFields DEF Cash
<1>4. /\ Cash' - Cash = Held(mq) - Held(mp) /\ Held(mp) > 0
      /\ net'.totalAVAXLiquidStakerAmt = net.totalAVAXLiquidStakerAmt + Held(mp)
  BY <1>1, <1>2, <1>3
<1> QED BY <1>2, <1>3, <1>4, LedgerOne DEF mp

(* A start moves nothing. *)
LEMMA StartLedger ==
  ASSUME NetworkInv, NEW m, NEW n \in NodeIDs, NEW time \in Nat, RecordStakingStartTx(m, n, time)
  PROVE  LedgerStep
<1> DEFINE mp == net.minipools[n]
           mq == Started(mp, time)
           u == RecordStart(net, n, time)
<1>0. CanMove(net.minipools[n], "Staking") /\ net' = u
  BY DEF RecordStakingStartTx
<1>1. /\ mp.status = "Launched" /\ mp \in Minipool /\ MinipoolOK(mp)
      /\ u.minipools = [net.minipools EXCEPT ![n] = mq]
      /\ u.totalAVAXLiquidStakerAmt = net.totalAVAXLiquidStakerAmt
      /\ u.vault.avax = net.vault.avax
  BY <1>0, LedgerFields, RecordStartOK
<1> HIDE DEF u
<1>2. Held(mp) = 0 /\ Held(mq) = 0 /\ Working(mp) = Working(mq)
  <2>1. mp \in Minipool /\ MinipoolOK(mp) /\ mp.status = "Launched"
    BY <1>1
  <2> HIDE DEF mp
  <2>2. /\ Held(mp) = 0 /\ Held(mq) = 0 /\ mq.status = "Staking"
        /\ mq.avaxNodeOpAmt = mp.avaxNodeOpAmt
    BY <2>1, StartMinipoolOK
  <2> HIDE DEF mq
  <2> QED BY <2>1, <2>2, WorkingOf
<1> HIDE DEF mq, mp
<1>3. /\ net.minipools \in [NodeIDs -> Minipool]
      /\ net'.minipools = [net.minipools EXCEPT ![n] = mq]
      /\ net'.totalAVAXLiquidStakerAmt = net.totalAVAXLiquidStakerAmt
      /\ Cash' = Cash
  BY <1>0, <1>1, LedgerFields DEF Cash
<1> QED BY <1>2, <1>3, LedgerOne DEF mp

(* What an end is to the ledger *)
LEMMA EndMoves ==
  ASSUME NetworkInv, NEW n \in NodeIDs, NEW e \in Int, NEW r \in Nat,
         CanRecordEnd(net, n, e, r)
  PROVE  LET mp == net.minipools[n]
             mq == Ended(mp, r, Slashed(net, n, e, r))
         IN  /\ mp \in Minipool /\ MinipoolOK(mp) /\ mp.status = "Staking"
             /\ mp.avaxNodeOpAmt \in Nat \ {0} /\ mp.avaxLiquidStakerAmt = mp.avaxNodeOpAmt
             /\ Held(mp) = 0 /\ Working(mp) = mp.avaxNodeOpAmt
             /\ mq \in Minipool /\ MinipoolOK(mq) /\ mq.status = "Withdrawable"
             /\ mq.owner = mp.owner /\ mq.avaxNodeOpAmt = mp.avaxNodeOpAmt
             /\ mq.avaxLiquidStakerRewardAmt = LiquidReward(r)
             /\ Held(mq) = mp.avaxNodeOpAmt + NodeOpReward(r) /\ Working(mq) = 0
<1> DEFINE mp == net.minipools[n]
           g == Slashed(net, n, e, r)
           mq == Ended(mp, r, g)
<1>1. e \in Nat
  BY CanEndOK
<1>2. NetOK(net) /\ ggpPrice \in Nat \ {0}
  BY InvFields
<1>3. /\ mp.status = "Staking" /\ NetOK(RecordEnd(net, n, e, r)) /\ mp \in Minipool /\ MinipoolOK(mp)
      /\ Slashed(net, n, e, r) \in Nat
      /\ RecordEnd(net, n, e, r).minipools
           = [net.minipools EXCEPT ![n] = Ended(mp, r, Slashed(net, n, e, r))]
      /\ RecordEnd(net, n, e, r).totalAVAXLiquidStakerAmt
           = net.totalAVAXLiquidStakerAmt - mp.avaxLiquidStakerAmt
      /\ RecordEnd(net, n, e, r).vault.avax["MinipoolManager"]
           = net.vault.avax["MinipoolManager"] + (mp.avaxNodeOpAmt + NodeOpReward(r))
      /\ RecordEnd(net, n, e, r).stakers[mp.owner].rewardsStartTime > 0
  BY <1>1, <1>2, RecordEndOK
<1>4. g \in Nat /\ mp \in Minipool /\ MinipoolOK(mp) /\ mp.status = "Staking"
  BY <1>3
<1> HIDE DEF mp, g
<1>5. /\ Held(mp) = 0 /\ Held(mq) = mp.avaxNodeOpAmt + NodeOpReward(r)
      /\ mq.status = "Withdrawable" /\ mq \in Minipool /\ MinipoolOK(mq)
      /\ mq.owner = mp.owner /\ mq.avaxNodeOpAmt = mp.avaxNodeOpAmt
      /\ mq.avaxLiquidStakerRewardAmt = LiquidReward(r)
  BY <1>4, EndMinipoolOK
<1> HIDE DEF mq
<1>6. Working(mp) = mp.avaxNodeOpAmt /\ Working(mq) = 0
  BY <1>4, <1>5, WorkingOf
<1>7. mp.avaxNodeOpAmt \in Nat \ {0} /\ mp.avaxLiquidStakerAmt = mp.avaxNodeOpAmt
  <2>1. mp.avaxNodeOpAmt > 0 /\ mp.avaxLiquidStakerAmt = mp.avaxNodeOpAmt
    BY <1>4 DEF MinipoolOK, Unpaid, Active
  <2> QED BY <1>4, <2>1, MinipoolFields
<1> QED BY <1>4, <1>5, <1>6, <1>7 DEF mp, mq, g

(* The storage after an end *)
LEMMA EndWrites ==
  ASSUME NetworkInv, NEW n \in NodeIDs, NEW e \in Int, NEW r \in Nat,
         CanRecordEnd(net, n, e, r), NEW w, w = RecordEnd(net, n, e, r)
  PROVE  /\ NetOK(w)
         /\ w.minipools = [net.minipools EXCEPT ![n] =
                             Ended(net.minipools[n], r, Slashed(net, n, e, r))]
         /\ w.totalAVAXLiquidStakerAmt
              = net.totalAVAXLiquidStakerAmt - net.minipools[n].avaxLiquidStakerAmt
         /\ w.vault.avax["MinipoolManager"]
              = Cash + (net.minipools[n].avaxNodeOpAmt + NodeOpReward(r))
         /\ w.stakers[net.minipools[n].owner].rewardsStartTime > 0
<1> DEFINE mp == net.minipools[n]
<1>1. e \in Nat
  BY CanEndOK
<1>2. NetOK(net) /\ ggpPrice \in Nat \ {0}
  BY InvFields
<1>3. /\ mp.status = "Staking" /\ NetOK(RecordEnd(net, n, e, r)) /\ mp \in Minipool /\ MinipoolOK(mp)
      /\ Slashed(net, n, e, r) \in Nat
      /\ RecordEnd(net, n, e, r).minipools
           = [net.minipools EXCEPT ![n] = Ended(mp, r, Slashed(net, n, e, r))]
      /\ RecordEnd(net, n, e, r).totalAVAXLiquidStakerAmt
           = net.totalAVAXLiquidStakerAmt - mp.avaxLiquidStakerAmt
      /\ RecordEnd(net, n, e, r).vault.avax["MinipoolManager"]
           = net.vault.avax["MinipoolManager"] + (mp.avaxNodeOpAmt + NodeOpReward(r))
      /\ RecordEnd(net, n, e, r).stakers[mp.owner].rewardsStartTime > 0
  BY <1>1, <1>2, RecordEndOK
<1> QED BY <1>3 DEF Cash

(* An end returns what was at work, with what it earned. *)
LEMMA EndLedger ==
  ASSUME NetworkInv, NEW n \in NodeIDs, NEW e \in Int, NEW r \in Nat,
         CanRecordEnd(net, n, e, r), net' = RecordEnd(net, n, e, r)
  PROVE  LedgerStep
<1> DEFINE mp == net.minipools[n]
           mq == Ended(mp, r, Slashed(net, n, e, r))
           u == RecordEnd(net, n, e, r)
           x == mp.avaxNodeOpAmt
           a == NodeOpReward(r)
<1>1. /\ x \in Nat \ {0} /\ mp.avaxLiquidStakerAmt = x
      /\ Held(mp) = 0 /\ Working(mp) = x /\ Held(mq) = x + a /\ Working(mq) = 0
  BY EndMoves
<1>2. /\ u.minipools = [net.minipools EXCEPT ![n] = mq]
      /\ u.totalAVAXLiquidStakerAmt = net.totalAVAXLiquidStakerAmt - mp.avaxLiquidStakerAmt
      /\ u.vault.avax["MinipoolManager"] = Cash + (x + a)
  <2>1. u = RecordEnd(net, n, e, r)
    OBVIOUS
  <2> HIDE DEF u
  <2> QED BY <2>1, EndWrites
<1>3. net' = u
  OBVIOUS
<1> HIDE DEF u, mq, mp, x, a
<1>4. /\ net.minipools \in [NodeIDs -> Minipool] /\ Cash \in Nat /\ a \in Nat
      /\ net'.minipools = [net.minipools EXCEPT ![n] = mq]
      /\ net'.totalAVAXLiquidStakerAmt = net.totalAVAXLiquidStakerAmt - x
      /\ Cash' = Cash + (x + a)
  BY <1>1, <1>2, <1>3, LedgerFields, RewardSplit DEF Cash, a
<1>5. /\ Cash' - Cash = Held(mq) - Held(mp) /\ Held(mq) >= Working(mp) /\ Working(mp) > 0
      /\ net'.totalAVAXLiquidStakerAmt = net.totalAVAXLiquidStakerAmt - Working(mp)
  BY <1>1, <1>4
<1> QED BY <1>1, <1>4, <1>5, LedgerOne DEF mp

(* An end and the next launch in one transaction renew what is at work. *)
LEMMA CycleLedger ==
  ASSUME NetworkInv, NEW n \in NodeIDs, NEW e \in Int, NEW r \in Nat,
         CanRecordEnd(net, n, e, r),
         NEW w, w = RecordEnd(net, n, e, r), CanRecreate(w, n), CanLaunch(Recreate(w, n), n),
         net' = Launch(Recreate(w, n), n)
  PROVE  LedgerStep
<1> DEFINE mp == net.minipools[n]
           md == Ended(mp, r, Slashed(net, n, e, r))
           mr == Recreated(md)
           mq == [mr EXCEPT !.status = "Launched"]
           x == mp.avaxNodeOpAmt
           a == NodeOpReward(r)
           b == LiquidReward(r)
           k == Recreate(w, n)
           u == Launch(k, n)
<1>0. a \in Nat /\ b \in Nat /\ b <= a
  BY RewardSplit
<1>1. /\ x \in Nat \ {0} /\ mp.avaxLiquidStakerAmt = x /\ Held(mp) = 0 /\ Working(mp) = x
      /\ md \in Minipool /\ MinipoolOK(md) /\ md.status = "Withdrawable" /\ md.owner = mp.owner
      /\ md.avaxNodeOpAmt = x /\ md.avaxLiquidStakerRewardAmt = b
  BY EndMoves
<1>2. /\ NetOK(w) /\ w.minipools = [net.minipools EXCEPT ![n] = md]
      /\ w.totalAVAXLiquidStakerAmt = net.totalAVAXLiquidStakerAmt - mp.avaxLiquidStakerAmt
      /\ w.vault.avax["MinipoolManager"] = Cash + (x + a)
      /\ w.stakers[mp.owner].rewardsStartTime > 0
  BY EndWrites
<1>3. /\ net.minipools \in [NodeIDs -> Minipool] /\ Cash \in Nat
      /\ net.totalAVAXLiquidStakerAmt \in Nat
  BY LedgerFields
<1> HIDE DEF md
<1>4. w.minipools[n] = md
  BY <1>2, <1>3
<1>5. /\ CompoundedAvaxAmt(md) \in Nat \ {0} /\ CompoundedAvaxAmt(md) = x + b
      /\ mr \in Minipool /\ MinipoolOK(mr) /\ mr.status = "Prelaunch"
      /\ mr.avaxNodeOpAmt = x + b /\ mr.avaxLiquidStakerAmt = x + b
  <2>1. md \in Minipool /\ MinipoolOK(md) /\ md.status = "Withdrawable" /\ md.avaxNodeOpAmt = x
        /\ md.avaxLiquidStakerRewardAmt = b
    BY <1>1
  <2> HIDE DEF x, b, mp
  <2> QED BY <2>1, RecreateMinipoolOK
<1>6. /\ NetOK(k) /\ k.minipools = [w.minipools EXCEPT ![n] = mr]
      /\ k.totalAVAXLiquidStakerAmt = w.totalAVAXLiquidStakerAmt
      /\ k.vault.avax = w.vault.avax
  <2>1. w.stakers[w.minipools[n].owner].rewardsStartTime > 0
    BY <1>1, <1>2, <1>4
  <2>2. NetOK(w) /\ CanRecreate(w, n)
    BY <1>2
  <2> HIDE DEF x, a, b, mr, mq, u, mp
  <2>3. LET wp == w.minipools[n]
            wk == Recreate(w, n)
        IN  /\ wp.status = "Withdrawable" /\ NetOK(wk) /\ wp \in Minipool /\ MinipoolOK(wp)
            /\ wk.minipools = [w.minipools EXCEPT ![n] = Recreated(wp)]
            /\ wk.totalAVAXLiquidStakerAmt = w.totalAVAXLiquidStakerAmt
            /\ wk.vault.avax = w.vault.avax
    <3>1. Recreates(w, n, Recreate(w, n))
      BY <2>1, <2>2, RecreateRecreates
    <3> QED BY <3>1 DEF Recreates
  <2> USE DEF mr
  <2> QED BY <1>4, <2>3
<1>7. CanLaunch(k, n) /\ net' = u
  OBVIOUS
<1> HIDE DEF k, mr
<1>8. w.minipools \in [NodeIDs -> Minipool] /\ k.minipools \in [NodeIDs -> Minipool]
  BY <1>2, <1>6, NetworkFields DEF NetOK
<1>9. k.minipools[n] = mr
  BY <1>6, <1>8
<1>10. /\ u.minipools = [k.minipools EXCEPT ![n] = [k.minipools[n] EXCEPT !.status = "Launched"]]
       /\ u.totalAVAXLiquidStakerAmt
            = k.totalAVAXLiquidStakerAmt + k.minipools[n].avaxLiquidStakerAmt
       /\ u.vault.avax["MinipoolManager"]
            = k.vault.avax["MinipoolManager"] - k.minipools[n].avaxNodeOpAmt
  <2>1. NetOK(k)
    BY <1>6
  <2>2. Launches(k, n, u)
    BY <1>7, <2>1, LaunchLaunches
  <2> HIDE DEF u
  <2> QED BY <2>2 DEF Launches
<1>11. /\ Held(mq) = 0 /\ mq.status = "Launched" /\ mq.avaxNodeOpAmt = x + b
  BY <1>5, LaunchMinipoolOK
<1>12. u.minipools = [net.minipools EXCEPT ![n] = mq]
  BY <1>2, <1>3, <1>6, <1>9, <1>10
<1> HIDE DEF u, mq, x, a, b, mp
<1>13. Working(mq) = x + b
  BY <1>11, WorkingOf
<1>14. /\ net'.minipools = [net.minipools EXCEPT ![n] = mq]
       /\ net'.totalAVAXLiquidStakerAmt = net.totalAVAXLiquidStakerAmt - x + (x + b)
       /\ Cash' = Cash + (x + a) - (x + b)
  <2> DEFINE cu == u.vault.avax["MinipoolManager"]
             ck == k.vault.avax["MinipoolManager"]
             cw == w.vault.avax["MinipoolManager"]
             lu == u.totalAVAXLiquidStakerAmt
             lk == k.totalAVAXLiquidStakerAmt
             lw == w.totalAVAXLiquidStakerAmt
             l == net.totalAVAXLiquidStakerAmt
  <2>1. cu = ck - (x + b) /\ ck = cw /\ cw = Cash + (x + a)
    BY <1>2, <1>5, <1>6, <1>9, <1>10
  <2>2. lu = lk + (x + b) /\ lk = lw /\ lw = l - x
    BY <1>1, <1>2, <1>5, <1>6, <1>9, <1>10
  <2>3. net'.minipools = u.minipools /\ net'.totalAVAXLiquidStakerAmt = lu /\ Cash' = cu
    BY <1>7 DEF Cash
  <2> HIDE DEF cu, ck, cw, lu, lk, lw
  <2>4. Cash' = Cash + (x + a) - (x + b)
    <3>1. cu = Cash + (x + a) - (x + b)
      BY <1>0, <1>1, <1>3, <2>1
    <3> QED BY <2>3, <3>1
  <2>5. net'.totalAVAXLiquidStakerAmt = l - x + (x + b)
    <3>1. lu = l - x + (x + b)
      BY <1>0, <1>1, <1>3, <2>2
    <3> QED BY <2>3, <3>1
  <2>6. net'.minipools = [net.minipools EXCEPT ![n] = mq]
    BY <1>12, <2>3
  <2> QED BY <2>4, <2>5, <2>6
<1>15. /\ Cash' >= Cash /\ Working(mq) >= Working(mp) /\ Working(mp) > 0
       /\ net'.totalAVAXLiquidStakerAmt
            = net.totalAVAXLiquidStakerAmt + Working(mq) - Working(mp)
  BY <1>0, <1>1, <1>3, <1>13, <1>14
<1> QED BY <1>1, <1>3, <1>11, <1>14, <1>15, LedgerOne DEF mp

(* An error returns what was at work, and nothing more. *)
LEMMA ErrorLedger ==
  ASSUME NetworkInv, NEW m, NEW n \in NodeIDs, RecordStakingErrorTx(m, n)
  PROVE  LedgerStep
<1> DEFINE mp == net.minipools[n]
           mq == Failed(mp)
           u == RecordError(net, n)
           x == mp.avaxNodeOpAmt
           y == mp.avaxLiquidStakerAmt
<1>0. CanRecordError(net, n) /\ net' = u
  BY DEF RecordStakingErrorTx
<1>1. /\ mp.status = "Launched" /\ mp \in Minipool /\ MinipoolOK(mp)
      /\ u.minipools = [net.minipools EXCEPT ![n] = mq]
      /\ u.totalAVAXLiquidStakerAmt = net.totalAVAXLiquidStakerAmt - y
      /\ u.vault.avax["MinipoolManager"] = net.vault.avax["MinipoolManager"] + x
  BY <1>0, LedgerFields, RecordErrorOK
<1> HIDE DEF u
<1>2. /\ Held(mp) = 0 /\ Held(mq) = x /\ Working(mp) = x /\ Working(mq) = 0
      /\ y = x /\ x \in Nat \ {0}
  <2>1. mp \in Minipool /\ MinipoolOK(mp) /\ mp.status = "Launched"
    BY <1>1
  <2> HIDE DEF mp
  <2>2. Held(mp) = 0 /\ Held(mq) = mp.avaxNodeOpAmt /\ mq.status = "Error"
    BY <2>1, ErrorMinipoolOK
  <2>3. y = x /\ x > 0
    BY <2>1 DEF MinipoolOK, Active, Unpaid
  <2>4. x \in Nat
    BY <2>1, MinipoolFields
  <2> HIDE DEF mq
  <2> QED BY <2>1, <2>2, <2>3, <2>4, WorkingOf
<1> HIDE DEF mq, mp, x, y
<1>3. /\ net.minipools \in [NodeIDs -> Minipool] /\ Cash \in Nat
      /\ net'.minipools = [net.minipools EXCEPT ![n] = mq]
      /\ net'.totalAVAXLiquidStakerAmt = net.totalAVAXLiquidStakerAmt - y
      /\ Cash' = Cash + x
  BY <1>0, <1>1, LedgerFields DEF Cash
<1>4. /\ Cash' - Cash = Held(mq) - Held(mp) /\ Held(mq) >= Working(mp) /\ Working(mp) > 0
      /\ net'.totalAVAXLiquidStakerAmt = net.totalAVAXLiquidStakerAmt - Working(mp)
  BY <1>2, <1>3
<1> QED BY <1>2, <1>3, <1>4, LedgerOne DEF mp

(* What a transaction does to the GGP is nothing to the ledger. *)
LEMMA GGPLedger ==
  ASSUME NetworkInv, net'.minipools = net.minipools,
         net'.totalAVAXLiquidStakerAmt = net.totalAVAXLiquidStakerAmt,
         net'.vault.avax = net.vault.avax
  PROVE  LedgerStep
BY DEF LedgerStep, HeldNow, WorkNow, Cash

(* GGP and the records of the stakers are not in the ledger. *)
LEMMA PutKeeps ==
  ASSUME NEW s \in Network, NEW o, NEW t, NEW v, v.avax = s.vault.avax
  PROVE  /\ LET u == PutSV(s, o, t, v)
            IN  /\ u.minipools = s.minipools
                /\ u.totalAVAXLiquidStakerAmt = s.totalAVAXLiquidStakerAmt
                /\ u.vault.avax = s.vault.avax
         /\ LET u == PutV(s, v)
            IN  /\ u.minipools = s.minipools
                /\ u.totalAVAXLiquidStakerAmt = s.totalAVAXLiquidStakerAmt
                /\ u.vault.avax = s.vault.avax
BY WriteSV, WriteV DEF NetOf

(* stakeGGP, withdrawGGP and transferGGPFromVault *)
LEMMA StakerLedger ==
  ASSUME NetworkInv, NEW o, NEW g \in Nat,
         \/ StakeGGPTx(o, g)
         \/ \E t \in Locks : StakeGGPWithLockTx(o, g, t)
         \/ WithdrawGGPTx(o, g)
         \/ TransferGGPFromVaultTx(g)
  PROVE  LedgerStep
<1> DEFINE v == net.vault
<1>1. net \in Network /\ v \in Vault!VaultStorage
  BY InvFields, NetworkFields
<1>2. "Staking" \in NetworkContracts /\ "ProtocolDAO" \in NetworkContracts
  BY DEF NetworkContracts
<1>3. Vault!DepositToken(v, "Staking", g).avax = v.avax
  BY <1>1, <1>2, GGPInOK
<1>4. ASSUME NEW c \in {"Staking", "ProtocolDAO"}
      PROVE  Vault!WithdrawToken(v, c, g).avax = v.avax
  BY <1>1 DEF Vault!WithdrawToken, Vault!VaultStorage
<1>5. CASE StakeGGPTx(o, g)
  <2>1. net' = PutSV(net, o, Staking!StakeGGP(net.stakers[o], g),
                     Vault!DepositToken(v, "Staking", g))
    BY <1>5 DEF StakeGGPTx, PutSV
  <2> QED BY <1>1, <1>3, <2>1, PutKeeps, GGPLedger
<1>6. ASSUME NEW t \in Locks, StakeGGPWithLockTx(o, g, t)
      PROVE  LedgerStep
  <2>1. net' = PutSV(net, o, Staking!LockGGP(Staking!StakeGGP(net.stakers[o], g), t),
                     Vault!DepositToken(v, "Staking", g))
    BY <1>6 DEF StakeGGPWithLockTx, PutSV
  <2> QED BY <1>1, <1>3, <2>1, PutKeeps, GGPLedger
<1>7. CASE WithdrawGGPTx(o, g)
  <2>1. net' = PutSV(net, o, Staking!DecreaseGGPStake(net.stakers[o], g),
                     Vault!WithdrawToken(v, "Staking", g))
    BY <1>7 DEF WithdrawGGPTx, PutSV
  <2> QED BY <1>1, <1>4, <2>1, PutKeeps, GGPLedger
<1>8. CASE TransferGGPFromVaultTx(g)
  <2>1. net' = PutV(net, Vault!WithdrawToken(v, "ProtocolDAO", g))
    BY <1>8 DEF TransferGGPFromVaultTx, PutV
  <2> QED BY <1>1, <1>4, <2>1, PutKeeps, GGPLedger
<1> QED BY <1>5, <1>6, <1>7, <1>8

(* Every transaction is a step of the ledger, or none at all. *)
LEMMA LedgerNextOK ==
  ASSUME NetworkInv, [MinipoolNext]_vars
  PROVE  LedgerStep
<1>0. /\ Delays \subseteq Nat /\ ValidationRewards \subseteq Nat
      /\ GGPAmounts \subseteq Nat /\ now \in Nat
  BY NetworkConstants, InvFields
<1>1. CASE OwnerNext
  <2>1. ASSUME NEW n \in NodeIDs, NEW o \in Owners, CancelMinipoolTx(o, n)
        PROVE  LedgerStep
    BY <2>1, CancelLedger DEF CancelMinipoolTx
  <2> QED BY <1>1, <2>1, CreateLedger, WithdrawLedger DEF OwnerNext
<1>2. CASE RelauncherNext
  BY <1>2, RelaunchLedger DEF RelauncherNext
<1>3. CASE RialtoNext
  <2>1. ASSUME NEW n \in NodeIDs, NEW m \in Multisigs, CancelMinipoolByMultisigTx(m, n)
        PROVE  LedgerStep
    BY <2>1, CancelLedger DEF CancelMinipoolByMultisigTx
  <2>2. ASSUME NEW n \in NodeIDs, NEW m \in Multisigs, NEW d \in Delays, d < now,
               RecordStakingStartTx(m, n, now - d)
        PROVE  LedgerStep
    <3>1. now - d \in Nat
      BY <1>0, <2>2
    <3> QED BY <2>2, <3>1, StartLedger
  <2>3. ASSUME NEW n \in NodeIDs, NEW m \in Multisigs, NEW e \in Int, NEW r \in Nat,
               NEW f \in FeeBips, RecordStakingEndTx(m, n, e, r, f)
        PROVE  LedgerStep
    BY <2>3, EndLedger DEF RecordStakingEndTx
  <2>4. ASSUME NEW n \in NodeIDs, NEW m \in Multisigs, NEW e \in Int, NEW r \in Nat,
               NEW f \in FeeBips, RecordStakingEndThenMaybeCycleTx(m, n, e, r, f)
        PROVE  LedgerStep
    <3> DEFINE w == RecordEnd(net, n, e, r)
    <3>1. CanRecordEnd(net, n, e, r)
      BY <2>4 DEF RecordStakingEndThenMaybeCycleTx
    <3>2. \/ CanRecreate(w, n) /\ CanLaunch(Recreate(w, n), n) /\ net' = Launch(Recreate(w, n), n)
          \/ net' = w
      BY <2>4 DEF RecordStakingEndThenMaybeCycleTx
    <3>3. CASE net' = w
      BY <3>1, <3>3, EndLedger
    <3>4. CASE /\ CanRecreate(w, n) /\ CanLaunch(Recreate(w, n), n)
               /\ net' = Launch(Recreate(w, n), n)
      <4>1. w = RecordEnd(net, n, e, r)
        OBVIOUS
      <4> HIDE DEF w
      <4> QED BY <3>1, <3>4, <4>1, CycleLedger
    <3> QED BY <3>2, <3>3, <3>4
  <2>5. ASSUME NEW d \in Delays, NEW r \in ValidationRewards
        PROVE  now - d \in Int /\ r \in Nat
    BY <1>0
  <2> QED BY <1>3, <2>1, <2>2, <2>3, <2>4, <2>5, ClaimLedger, ErrorLedger DEF RialtoNext
<1>4. CASE StakerNext
  BY <1>0, <1>4, StakerLedger DEF StakerNext
<1>5. ASSUME NEW a \in GGPAmounts, TransferGGPFromVaultTx(a)
      PROVE  LedgerStep
  BY <1>0, <1>5, StakerLedger
<1>6. CASE UNCHANGED net
  BY <1>6, GGPLedger
<1>7. CASE DelegationNext
  BY <1>6, <1>7 DEF DelegationNext, WithdrawForDelegationTx, DepositFromDelegationTx
<1>8. CASE GuardianNext
  BY <1>5, <1>6, <1>8 DEF GuardianNext, RegisterMultisigTx, SetMultisigTx, PauseContractTx,
     ResumeContractTx, PauseEverythingTx, ResumeEverythingTx, SetGGPPriceTx
<1>9. CASE LiquidStakerNext
  BY <1>6, <1>9 DEF LiquidStakerNext, minipoolVars
<1>10. CASE UNCHANGED vars
  BY <1>6, <1>10 DEF vars
<1> QED BY <1>1, <1>2, <1>3, <1>4, <1>7, <1>8, <1>9, <1>10 DEF MinipoolNext

(* The ledger starts empty. *)
LEMMA LedgerInitOK == MinipoolInit => Ledger!LedgerInit
<1> SUFFICES ASSUME MinipoolInit PROVE Ledger!LedgerInit
  OBVIOUS
<1>1. /\ \A n \in NodeIDs : net.minipools[n] = NoMinipool
      /\ net.totalAVAXLiquidStakerAmt = 0 /\ net.vault = Vault!EmptyVault
  BY DEF MinipoolInit
<1>2. NoMinipool.status = "NotFound"
  BY DEF NoMinipool
<1>3. Held(NoMinipool) = 0 /\ Working(NoMinipool) = 0
  BY <1>2 DEF Held, InVault, Working, AtWork
<1>4. net.vault.avax["MinipoolManager"] = 0
  BY <1>1 DEF Vault!EmptyVault, NetworkContracts
<1> QED BY <1>1, <1>3, <1>4 DEF Ledger!LedgerInit

(* MinipoolManager, with the Vault, Staking and ggAVAX behind it, keeps the *)
(* promise of NodeLedger to its operators and its liquid stakers.           *)
THEOREM ImplementsLedger == MinipoolSpec => KeepsLedger
<1>1. NetworkInv /\ [MinipoolNext]_vars => [Ledger!LedgerNext]_(Ledger!ledgerVars)
  <2> SUFFICES ASSUME NetworkInv, [MinipoolNext]_vars
               PROVE  [Ledger!LedgerNext]_(Ledger!ledgerVars)
    OBVIOUS
  <2>1. LedgerStep
    BY LedgerNextOK
  <2> QED BY <2>1 DEF LedgerStep, HeldNow, WorkNow, Cash, Ledger!ledgerVars
<1> QED BY NetworkInvariant, LedgerInitOK, <1>1, PTL
        DEF MinipoolSpec, KeepsLedger, Ledger!LedgerSpec
=============================================================================
