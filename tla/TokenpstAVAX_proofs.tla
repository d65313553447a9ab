------------------------ MODULE TokenpstAVAX_proofs -------------------------
(***************************************************************************)
(* That TokenpstAVAX keeps the principal, for any holders, amounts, fees   *)
(* and prices, with all that anybody does to the queue and the vault.      *)
(*                                                                         *)
(* The principal is covered when V shares of S, at A assets, are worth P:  *)
(* V * A >= P * S.  Three things are shown of it.                          *)
(*   The strip: it burns and sends no more shares than keep the rest, at   *)
(* the price that the burning itself leads to, worth P (StripAlgebra), and *)
(* without a fee one share more would be missed (StripRest).               *)
(*   The token: a deposit brings P and shares that are less than a share   *)
(* short of it; a withdrawal takes no more shares than its part of P.      *)
(*   Everybody else (Fair): what n shares were worth they are worth after  *)
(* every step of the vault and of the queue, and the contract has no fewer *)
(* of them.  A loop of the queue works on a copy, so the copy has to be    *)
(* fair to the contract all the while (FairCopy).                          *)
(***************************************************************************)
EXTENDS TokenpstAVAX, WithdrawQueue_proofs

-----------------------------------------------------------------------------
(* The arithmetic of a strip: V shares of S are held at A assets, against a *)
(* principal P below A that they are worth; m is what of the principal      *)
(* stays when the shares that can go are reckoned.                          *)

(* As many shares as TotalExcess says are there, and one more would be too  *)
(* many.                                                                    *)
LEMMA ExcessBounds ==
  ASSUME NEW A \in Nat, NEW S \in Nat, NEW V \in Nat, V <= S, NEW P \in Nat,
         P < A, P * S <= V * A, NEW m \in Nat, m <= P
  PROVE  LET E == (V * A - P * S) \div (A - m)
         IN  /\ E \in Nat /\ E <= V
             /\ E * (A - m) <= V * A - P * S
             /\ V * A - P * S < (E + 1) * (A - m)
<1> DEFINE d == A - m
           x == V * A - P * S
           E == x \div d
<1>1. d \in Nat \ {0} /\ V * A \in Nat /\ P * S \in Nat /\ V * m \in Nat /\ V * d \in Nat
  OBVIOUS
<1>2. x \in Nat
  BY <1>1
<1>3. x <= V * d
  <2>1. V * m <= S * m /\ m * S <= P * S
    BY ProductMonotone
  <2>2. V * d = V * A - V * m /\ S * m = m * S /\ S * m \in Nat
    OBVIOUS
  <2> HIDE DEF d
  <2> QED BY <1>1, <2>1, <2>2
<1> HIDE DEF d, x
<1>4. E \in Nat /\ E * d <= x /\ x < (E + 1) * d
  BY <1>1, <1>2, DivBounds
<1> HIDE DEF E
<1>5. E * d <= V * d
  <2>1. E * d \in Nat /\ V * d \in Nat
    BY <1>1, <1>4
  <2> QED BY <1>2, <1>3, <1>4, <2>1
<1>6. E <= V
  BY <1>1, <1>4, <1>5, ProductCancel
<1> QED BY <1>4, <1>6 DEF E, x, d

(* The fee out of E shares is no more than what m leaves of the principal   *)
(* pays for, and without a fee all goes.                                    *)
LEMMA FeeBalance ==
  ASSUME NEW P \in Nat, NEW E \in Nat, NEW f \in 0..Bips
  PROVE  LET m == MulDivDown(P, Bips - f, Bips)
             F == MulDivDown(E, f, Bips)
         IN  /\ m \in Nat /\ m <= P /\ F \in Nat /\ F <= E
             /\ P * F <= E * (P - m)
<1> DEFINE B == Bips
           g == B - f
           m == MulDivDown(P, g, B)
           F == MulDivDown(E, f, B)
<1>1. B \in Nat \ {0} /\ f \in Nat /\ g \in Nat /\ f <= B /\ g <= B /\ g = B - f
  BY DEF Bips
<1> HIDE DEF B, g
<1>2. m \in Nat /\ m * B <= P * g /\ F \in Nat /\ F * B <= E * f
  BY <1>1, MulDivDownBounds
<1> HIDE DEF m, F
<1>3. m * B \in Nat /\ P * g \in Nat /\ F * B \in Nat /\ E * f \in Nat /\ P * B \in Nat /\ E * B \in Nat
  BY <1>1, <1>2
<1>4. P * g <= P * B /\ E * f <= E * B
  <2>1. g * P <= B * P /\ f * E <= B * E
    BY <1>1, ProductMonotone
  <2>2. g * P = P * g /\ B * P = P * B /\ f * E = E * f /\ B * E = E * B
    BY <1>1
  <2> QED BY <2>1, <2>2
<1>5. m <= P /\ F <= E
  <2>1. m * B <= P * B /\ F * B <= E * B
    BY <1>2, <1>3, <1>4
  <2> QED BY <1>1, <1>2, <2>1, ProductCancel
<1>6. P * F <= E * (P - m)
  <2>1. (F * B) * P <= (E * f) * P
    BY <1>2, <1>3, ProductMonotone
  <2>2. (m * B) * E <= (P * g) * E
    BY <1>2, <1>3, ProductMonotone
  <2>3. (P * g) * E = (P * B) * E - (P * f) * E
    BY <1>1
  <2>4. /\ (F * B) * P = (P * F) * B /\ (E * f) * P = (P * f) * E
        /\ (m * B) * E = (E * m) * B /\ (P * B) * E = (E * P) * B
    BY <1>1, <1>2
  <2>5. /\ (P * F) * B \in Nat /\ (P * f) * E \in Nat /\ (E * m) * B \in Nat
        /\ (E * P) * B \in Nat
    BY <1>1, <1>2
  <2>6. (P * F) * B <= (E * P) * B - (E * m) * B
    BY <2>1, <2>2, <2>3, <2>4, <2>5
  <2>7. (E * P) * B - (E * m) * B = (E * (P - m)) * B
    BY <1>1, <1>2
  <2>8. P * F \in Int /\ E * (P - m) \in Int
    BY <1>2
  <2>9. (P * F) * B <= (E * (P - m)) * B
    BY <2>6, <2>7
  <2> QED BY <1>1, <2>8, <2>9, ProductCancel
<1> QED BY <1>2, <1>5, <1>6 DEF m, F, g, B

(* What is left is worth the principal at the price the burning leads to.   *)
LEMMA StripAlgebra ==
  ASSUME NEW A \in Nat, NEW S \in Nat, NEW V \in Nat, NEW P \in Nat, NEW m \in Nat,
         NEW E \in Nat, NEW F \in Nat, m <= P, P <= A,
         E * (A - m) <= V * A - P * S, P * F <= E * (P - m)
  PROVE  (V - E) * A >= P * (S - (E - F))
<1>1. /\ (V - E) * A = V * A - E * A
      /\ P * (S - (E - F)) = P * S - P * E + P * F
      /\ E * (A - m) = E * A - E * m
      /\ E * (P - m) = P * E - E * m
  OBVIOUS
<1>2. /\ V * A \in Nat /\ E * A \in Nat /\ P * S \in Nat /\ P * E \in Nat /\ P * F \in Nat
      /\ E * m \in Nat
  OBVIOUS
<1> QED BY <1>1, <1>2

(* Without a fee nothing is left over that could go. *)
LEMMA StripRest ==
  ASSUME NEW A \in Nat, NEW S \in Nat, NEW V \in Nat, NEW P \in Nat, NEW E \in Nat, P < A,
         E * (A - P) <= V * A - P * S, V * A - P * S < (E + 1) * (A - P)
  PROVE  ((V - E) * A - P * (S - E)) \div (A - P) = 0
<1> DEFINE d == A - P
           x == (V - E) * A - P * (S - E)
<1>1. d \in Nat \ {0}
  OBVIOUS
<1>2. x \in Nat /\ x < d
  <2>1. /\ (V - E) * A = V * A - E * A
        /\ P * (S - E) = P * S - P * E
        /\ E * (A - P) = E * A - P * E
        /\ (E + 1) * (A - P) = E * A - P * E + A - P
    OBVIOUS
  <2>2. /\ V * A \in Nat /\ E * A \in Nat /\ P * S \in Nat /\ P * E \in Nat
    OBVIOUS
  <2> QED BY <2>1, <2>2
<1> HIDE DEF d, x
<1>3. x \div d = 0
  <2> DEFINE k == x \div d
  <2>1. k \in Nat /\ k * d <= x
    BY <1>1, <1>2, DivBounds
  <2> HIDE DEF k
  <2>2. k * d < 1 * d
    <3>1. k * d \in Nat /\ 1 * d = d
      BY <1>1, <2>1
    <3> QED BY <1>1, <1>2, <2>1, <3>1
  <2>3. k < 1
    BY <1>1, <2>1, <2>2, ProductCancel
  <2> QED BY <2>1, <2>3 DEF k
<1> QED BY <1>3 DEF x, d

-----------------------------------------------------------------------------
(* The part of the assumptions on the constants that the proofs rest on *)
LEMMA PstFacts ==
  /\ Pst \in Accounts \ Callers /\ Pst # Self /\ Pst # Queue
  /\ IsFiniteSet(PstHolders) /\ PstHolders \subseteq Accounts
  /\ Self \notin PstHolders /\ Queue \notin PstHolders /\ Pst \notin PstHolders
  /\ PstAmounts \subseteq Nat \ {0} /\ StripFees \subseteq 0..Bips
  /\ FeeRecipients \subseteq Owners /\ PstPauses \subseteq BOOLEAN
BY PstConstants, QueueConstants DEF Callers

(* What the storage of the token is made of *)
LEMMA PstFields ==
  ASSUME NEW p \in PstStorage
  PROVE  /\ p.totalSupply \in Nat /\ p.balanceOf \in [PstHolders -> Nat]
         /\ p.stripYieldFeeBips \in 0..Bips /\ p.stripYieldFeeRecipient \in Owners
         /\ p.paused \in BOOLEAN
         /\ p = [totalSupply |-> p.totalSupply, balanceOf |-> p.balanceOf,
                 stripYieldFeeBips |-> p.stripYieldFeeBips,
                 stripYieldFeeRecipient |-> p.stripYieldFeeRecipient,
                 paused |-> p.paused]
BY DEF PstStorage

(* The supply of pstAVAX is what its holders have. *)
PstOK(p) == p \in PstStorage /\ p.totalSupply = SumFunctionOnSet(p.balanceOf, PstHolders)

-----------------------------------------------------------------------------
(* What a step may do to the shares of the contract: what was covered stays *)
(* covered, and no share goes.                                              *)
Fair(t, u) ==
  /\ \A n, p \in Nat : Covers(t, n, p) => Covers(u, n, p)
  /\ u.balanceOf[Pst] >= t.balanceOf[Pst]

(* The price does not fall: what covered so much covers it still. *)
Dearer(t, u) == \A n, p \in Nat : Covers(t, n, p) => Covers(u, n, p)

(* That is what the vault keeps at every step. *)
LEMMA DearerPrice ==
  ASSUME NEW t, VaultOK(t), NEW u, VaultOK(u), PriceKept(t, u)
  PROVE  Dearer(t, u)
<1> DEFINE A == TotalAssets(t)
           S == t.totalSupply
           B == TotalAssets(u)
           R == u.totalSupply
<1>1. A \in Nat /\ S \in Nat \ {0} /\ B \in Nat /\ R \in Nat \ {0} /\ B * S >= A * R
  BY TotalAssetsBounds, SupplyBounds DEF PriceKept
<1>2. \A n, p \in Nat : p * S <= n * A => p * R <= n * B
  <2> HIDE DEF A, S, B, R
  <2> QED BY <1>1, PriceUp
<1>3. ASSUME NEW n \in Nat, NEW p \in Nat, Covers(t, n, p) PROVE Covers(u, n, p)
  <2>1. n * A \in Nat /\ p * S \in Nat /\ n * B \in Nat /\ p * R \in Nat
    <3> HIDE DEF A, S, B, R
    <3> QED BY <1>1
  <2>2. p * S <= n * A
    BY <1>3, <2>1 DEF Covers
  <2>3. p * R <= n * B
    BY <1>2, <2>2
  <2> QED BY <2>1, <2>3 DEF Covers
<1> QED BY <1>3 DEF Dearer

(* From one price to the next *)
LEMMA DearerTwice ==
  ASSUME NEW t, NEW u, NEW v, Dearer(t, u), Dearer(u, v)
  PROVE  Dearer(t, v)
BY DEF Dearer

(* A price that does not fall covers what it covered. *)
LEMMA FairPrice ==
  ASSUME NEW t, VaultOK(t), NEW u, VaultOK(u), PriceKept(t, u),
         u.balanceOf[Pst] >= t.balanceOf[Pst]
  PROVE  Fair(t, u)
BY DearerPrice DEF Fair, Dearer

(* The shares of the contract are a number. *)
LEMMA SharesOfPst ==
  ASSUME NEW t, VaultOK(t)
  PROVE  /\ t.balanceOf \in [Accounts -> Nat] /\ t.balanceOf[Pst] \in Nat
         /\ VaultShares(t) \in Nat /\ VaultShares(t) = t.balanceOf[Pst]
         /\ VaultShares(t) <= t.totalSupply
         /\ TotalAssets(t) \in Nat /\ t.totalSupply \in Nat \ {0}
BY PstFacts, SharesOfQueue, SupplyBounds, TotalAssetsBounds DEF VaultShares

(* Fair steps follow each other. *)
LEMMA FairTwice ==
  ASSUME NEW t, VaultOK(t), NEW u, VaultOK(u), NEW v, VaultOK(v), Fair(t, u), Fair(u, v)
  PROVE  Fair(t, v)
<1>1. t.balanceOf[Pst] \in Nat /\ u.balanceOf[Pst] \in Nat /\ v.balanceOf[Pst] \in Nat
  BY SharesOfPst
<1> QED BY <1>1 DEF Fair

(* Nothing is fair to it as well. *)
LEMMA FairStill ==
  ASSUME NEW t, VaultOK(t)
  PROVE  Fair(t, t)
<1>1. t.balanceOf[Pst] \in Nat
  BY SharesOfPst
<1> QED BY <1>1 DEF Fair

(* The shares of the contract, when others move theirs *)
LEMMA MoveOfPst ==
  ASSUME NEW b \in [Accounts -> Nat], NEW a \in Accounts, NEW c \in Accounts, NEW s \in Nat
  PROVE  /\ a # Pst => Move(b, a, c, s)[Pst] >= b[Pst]
         /\ a = Pst /\ c # Pst => Move(b, a, c, s)[Pst] = b[Pst] - s
         /\ a = Pst => Move(b, a, c, s)[Pst] >= b[Pst] - s
         /\ a # Queue => Move(b, a, c, s)[Queue] >= b[Queue]
<1>1. /\ Pst \in Accounts /\ Queue \in Accounts /\ Pst # Queue
      /\ b[Pst] \in Nat /\ b[Queue] \in Nat
  BY PstFacts, QueueFacts
<1> QED BY <1>1 DEF Move

(* The operations of the vault that others call *)
LEMMA OthersFair ==
  ASSUME NEW t, VaultOK(t), NEW a \in Accounts \ {Self, Pst}
  PROVE  /\ \A c \in Accounts, s \in Nat : CanTransfer(t, a, s) =>
              VaultOK(TransferShares(t, a, c, s)) /\ Fair(t, TransferShares(t, a, c, s))
         /\ \A s \in Nat : CanDonateYield(t, a, s) =>
              VaultOK(DonateYield(t, a, s)) /\ Fair(t, DonateYield(t, a, s))
         /\ \A s \in Nat \ {0} : CanRedeemAVAX(t, a, s) =>
              VaultOK(RedeemAVAX(t, a, s)) /\ Fair(t, RedeemAVAX(t, a, s))
<1>1. t.balanceOf \in [Accounts -> Nat] /\ t.balanceOf[Pst] \in Nat /\ Pst \in Accounts
  BY SharesOfPst, PstFacts
<1>2. ASSUME NEW c \in Accounts, NEW s \in Nat, CanTransfer(t, a, s)
      PROVE  VaultOK(TransferShares(t, a, c, s)) /\ Fair(t, TransferShares(t, a, c, s))
  <2> DEFINE u == TransferShares(t, a, c, s)
  <2>1. VaultOK(u) /\ PriceKept(t, u) /\ u.balanceOf = Move(t.balanceOf, a, c, s)
    BY <1>2, TransferOK
  <2>2. u.balanceOf[Pst] >= t.balanceOf[Pst]
    BY <1>1, <2>1, MoveOfPst
  <2> HIDE DEF u
  <2>3. Fair(t, u)
    BY <2>1, <2>2, FairPrice
  <2> QED BY <2>1, <2>3 DEF u
<1>3. ASSUME NEW s \in Nat, CanDonateYield(t, a, s)
      PROVE  VaultOK(DonateYield(t, a, s)) /\ Fair(t, DonateYield(t, a, s))
  <2> DEFINE u == DonateYield(t, a, s)
  <2>1. VaultOK(u) /\ PriceKept(t, u)
    BY <1>3, DonateYieldOK
  <2>2. u.balanceOf = [t.balanceOf EXCEPT ![a] = @ - s]
    BY SharesOfQueue
  <2> HIDE DEF u
  <2>3. u.balanceOf[Pst] = t.balanceOf[Pst]
    BY <1>1, <2>2
  <2>4. Fair(t, u)
    BY <1>1, <2>1, <2>3, FairPrice
  <2> QED BY <2>1, <2>4 DEF u
<1>4. ASSUME NEW s \in Nat \ {0}, CanRedeemAVAX(t, a, s)
      PROVE  VaultOK(RedeemAVAX(t, a, s)) /\ Fair(t, RedeemAVAX(t, a, s))
  <2> DEFINE u == RedeemAVAX(t, a, s)
  <2>1. VaultOK(u) /\ PriceKept(t, u)
    BY <1>4, RedeemAVAXOK
  <2>2. u.balanceOf = [t.balanceOf EXCEPT ![a] = @ - s]
    BY SharesOfQueue
  <2> HIDE DEF u
  <2>3. u.balanceOf[Pst] = t.balanceOf[Pst]
    BY <1>1, <2>2
  <2>4. Fair(t, u)
    BY <1>1, <2>1, <2>3, FairPrice
  <2> QED BY <2>1, <2>4 DEF u
<1> QED BY <1>2, <1>3, <1>4

(* AVAX that comes to the vault, for shares or not *)
LEMMA IncomeFair ==
  ASSUME NEW t, VaultOK(t), NEW x \in Nat
  PROVE  /\ \A a \in Accounts : CanDepositAVAX(t, x) =>
              VaultOK(DepositAVAX(t, a, x)) /\ Fair(t, DepositAVAX(t, a, x))
         /\ \A y \in Nat, bips \in 0..Bips :
              (x + y > 0 => CanDepositFromStaking(t, x)) =>
                 /\ VaultOK(DepositFromStaking(t, x, y, bips))
                 /\ Fair(t, DepositFromStaking(t, x, y, bips))
         /\ \A bips \in 0..Bips :
              VaultOK(DepositYield(t, x, bips)) /\ Fair(t, DepositYield(t, x, bips))
<1>1. t.balanceOf \in [Accounts -> Nat] /\ t.balanceOf[Pst] \in Nat /\ Pst \in Accounts
  BY SharesOfPst, PstFacts
<1>2. ASSUME NEW a \in Accounts, CanDepositAVAX(t, x)
      PROVE  VaultOK(DepositAVAX(t, a, x)) /\ Fair(t, DepositAVAX(t, a, x))
  <2> DEFINE u == DepositAVAX(t, a, x)
             s == ConvertToShares(t, x)
  <2>1. s \in Nat /\ VaultOK(u) /\ PriceKept(t, u)
    BY <1>2, DepositAVAXOK
  <2>2. u.balanceOf = [t.balanceOf EXCEPT ![a] = @ + s]
    BY SharesOfQueue
  <2> HIDE DEF u, s
  <2>3. u.balanceOf[Pst] >= t.balanceOf[Pst]
    BY <1>1, <2>1, <2>2
  <2>4. Fair(t, u)
    BY <2>1, <2>3, FairPrice
  <2> QED BY <2>1, <2>4 DEF u
<1>3. ASSUME NEW y \in Nat, NEW bips \in 0..Bips, x + y > 0 => CanDepositFromStaking(t, x)
      PROVE  /\ VaultOK(DepositFromStaking(t, x, y, bips))
             /\ Fair(t, DepositFromStaking(t, x, y, bips))
  <2> DEFINE u == DepositFromStaking(t, x, y, bips)
  <2>1. CanDepositFromStaking(t, x)
    <3>1. t.stakingTotalAssets \in Nat
      BY VaultFields DEF VaultOK
    <3> QED BY <1>3, <3>1 DEF CanDepositFromStaking
  <2>2. VaultOK(u) /\ PriceKept(t, u)
    BY <2>1, DepositFromStakingOK
  <2>3. u.balanceOf = t.balanceOf
    BY SharesOfQueue
  <2> HIDE DEF u
  <2>4. Fair(t, u)
    BY <1>1, <2>2, <2>3, FairPrice
  <2> QED BY <2>2, <2>4 DEF u
<1>4. ASSUME NEW bips \in 0..Bips
      PROVE  VaultOK(DepositYield(t, x, bips)) /\ Fair(t, DepositYield(t, x, bips))
  <2> DEFINE u == DepositYield(t, x, bips)
  <2>1. VaultOK(u) /\ PriceKept(t, u)
    BY DepositYieldOK
  <2>2. u.balanceOf = t.balanceOf
    BY SharesOfQueue
  <2> HIDE DEF u
  <2>3. Fair(t, u)
    BY <1>1, <2>1, <2>2, FairPrice
  <2> QED BY <2>1, <2>3 DEF u
<1> QED BY <1>2, <1>3, <1>4

-----------------------------------------------------------------------------
(* What the queue does with the shares and the AVAX it holds *)

(* The AVAX set aside for a request buys shares that go to the requester. *)
LEMMA BuyBackFair ==
  ASSUME NEW t, NEW q, NEW k, WorldOK(t, q, k), NEW r \in q.fulfilledRequests,
         CanBuyBack(World(t, q), r)
  PROVE  Fair(t, BuyBack(World(t, q), r).token)
<1> DEFINE u == BuyBack(World(t, q), r)
           x == q.requests[r].allocatedFunds
           c == q.requests[r].requester
           s == ConvertToShares(t, x)
           y == DepositAVAX(t, Queue, x)
           z == TransferShares(y, Queue, c, s)
<1>1. u.token = z /\ CanDepositAVAX(t, x)
  BY DEF BuyBack, CanBuyBack, World
<1>2. /\ x \in Nat /\ VaultOK(t) /\ c \in Accounts
      /\ Queue \in Accounts \ {Self, Pst}
  <2>1. Removed(q, r, Claim(q, r)) /\ r \in Live(q) /\ x \in Nat
    BY ClaimRemoves DEF WorldOK
  <2> HIDE DEF x
  <2> QED BY <2>1, SharesFreed, QueueFacts, PstFacts DEF WorldOK
<1> HIDE DEF u, x
<1>3. s \in Nat
  BY <1>1, <1>2, DepositAVAXOK
<1>4. VaultOK(y) /\ Fair(t, y)
  BY <1>1, <1>2, IncomeFair
<1>5. CanTransfer(y, Queue, s)
  <2>1. /\ t.balanceOf \in [Accounts -> Nat] /\ t.balanceOf[Queue] \in Nat
        /\ y.balanceOf = [t.balanceOf EXCEPT ![Queue] = @ + s]
    BY <1>2, SharesOfQueue
  <2> HIDE DEF y, s
  <2> QED BY <1>2, <1>3, <2>1 DEF CanTransfer
<1> HIDE DEF y, s
<1>6. VaultOK(z) /\ Fair(y, z)
  BY <1>2, <1>3, <1>4, <1>5, OthersFair
<1> HIDE DEF z
<1> QED BY <1>1, <1>2, <1>4, <1>6, FairTwice DEF u

(* The shares of a pending request burn in part and return. *)
LEMMA CancelPendingFair ==
  ASSUME NEW t, NEW q, NEW k, WorldOK(t, q, k), NEW r \in q.pendingRequests,
         CanCancelPending(World(t, q), r)
  PROVE  Fair(t, CancelPending(World(t, q), r).token)
<1> DEFINE w == World(t, q)
           u == CancelPending(w, r)
           c == q.requests[r].requester
           s == q.requests[r].shares
           e == q.requests[r].expectedAssets
           h == ConvertToShares(t, e)
           b == s - h
           y == AfterBurn(w, r)
<1>1. /\ VaultOK(t) /\ AtPar(t) /\ s \in Nat \ {0} /\ c \in Accounts /\ e \in Nat
      /\ Queue \in Accounts \ {Self, Pst}
  BY DropPendingOK, QueueFacts, PstFacts DEF WorldOK
<1>2. w.token = t /\ w.queue = q
  BY DEF World
<1> HIDE DEF w
<1>3. SharesToReturn(w, r) = h /\ SharesToBurn(w, r) = b
  BY <1>2 DEF SharesToReturn, SharesToBurn
<1>4. /\ u.token = TransferShares(y, Queue, c, h) /\ CanTransfer(y, Queue, h)
      /\ y = (IF b > 0 THEN DonateYield(t, Queue, b) ELSE t)
      /\ b > 0 => CanDonateYield(t, Queue, b)
  <2> HIDE DEF y, b, h
  <2>1. y = IF b > 0 THEN DonateYield(t, Queue, b) ELSE t
    BY <1>2, <1>3 DEF AfterBurn, y
  <2>2. (b > 0 => CanDonateYield(t, Queue, b)) /\ CanTransfer(y, Queue, h)
    BY <1>2, <1>3, w = World(t, q) DEF CanCancelPending, w, y
  <2>3. u.token = TransferShares(y, Queue, c, h)
    BY <1>2, <1>3 DEF CancelPending, World, y
  <2> QED BY <2>1, <2>2, <2>3
<1> HIDE DEF u, c, s, e, y
<1>5. h \in Nat
  BY <1>1, Market
<1> HIDE DEF h
<1>6. VaultOK(y) /\ Fair(t, y)
  <2>1. CASE b > 0
    <3>1. b \in Nat
      BY <1>1, <1>5, <2>1
    <3> HIDE DEF b
    <3> QED BY <1>1, <1>4, <2>1, <3>1, OthersFair
  <2>2. CASE ~(b > 0)
    BY <1>1, <1>4, <2>2, FairStill
  <2> QED BY <2>1, <2>2
<1> DEFINE z == TransferShares(y, Queue, c, h)
<1>7. VaultOK(z) /\ Fair(y, z)
  BY <1>1, <1>4, <1>5, <1>6, OthersFair
<1> HIDE DEF z
<1>8. u.token = z
  BY <1>4 DEF z
<1> QED BY <1>1, <1>6, <1>7, <1>8, FairTwice DEF u, w

(* cancelRequest *)
LEMMA CancelFair ==
  ASSUME NEW t, NEW q, NEW k, WorldOK(t, q, k), NEW r, NEW a,
         CanCancel(World(t, q), a, r)
  PROVE  Fair(t, Cancel(World(t, q), r).token)
<1> DEFINE w == World(t, q)
<1>1. w.queue = q
  BY DEF World
<1> HIDE DEF w
<1>2. CASE r \in q.pendingRequests
  <2>1. CanCancelPending(w, r)
    <3>1. CanCancelPending(w, r) \/ CanCancelFulfilled(w, r)
      BY DEF CanCancel, w
    <3>2. ~CanCancelFulfilled(w, r)
      BY <1>1, <1>2 DEF CanCancelFulfilled, WorldOK, QueueOK, Listed
    <3> QED BY <3>1, <3>2
  <2>2. Cancel(w, r) = CancelPending(w, r)
    BY <1>1, <1>2 DEF Cancel
  <2> QED BY <1>2, <2>1, <2>2, CancelPendingFair DEF w
<1>3. CASE r \notin q.pendingRequests
  <2>1. r \in q.fulfilledRequests /\ CanBuyBack(w, r)
    <3>1. CanCancelPending(w, r) \/ CanCancelFulfilled(w, r)
      BY DEF CanCancel, w
    <3>2. ~CanCancelPending(w, r)
      BY <1>1, <1>3 DEF CanCancelPending
    <3> QED BY <1>1, <3>1, <3>2 DEF CanCancelFulfilled
  <2>2. Cancel(w, r) = BuyBack(w, r)
    BY <1>1, <1>3 DEF Cancel
  <2> QED BY <2>1, <2>2, BuyBackFair DEF w
<1> QED BY <1>2, <1>3

(* reclaimExpiredRequest *)
LEMMA ReclaimFair ==
  ASSUME NEW t, NEW q, NEW k, WorldOK(t, q, k), NEW r, CanReclaim(World(t, q), r)
  PROVE  Fair(t, Reclaim(World(t, q), r).token)
<1> DEFINE w == World(t, q)
<1>1. w.queue = q /\ w.token = t
  BY DEF World
<1>2. CanReclaim(w, r)
  OBVIOUS
<1> HIDE DEF w
<1>3. CASE r \in q.fulfilledRequests
  <2>1. CanBuyBack(w, r)
    <3>1. r \notin q.pendingRequests
      BY <1>3 DEF WorldOK, QueueOK, Listed
    <3> QED BY <1>1, <1>2, <1>3, <3>1 DEF CanReclaim
  <2>2. Reclaim(w, r) = BuyBack(w, r)
    BY <1>1, <1>3 DEF Reclaim
  <2> QED BY <1>3, <2>1, <2>2, BuyBackFair DEF w
<1>4. CASE r \notin q.fulfilledRequests
  <2> DEFINE c == q.requests[r].requester
             s == q.requests[r].shares
             z == TransferShares(t, Queue, c, s)
  <2>1. r \in q.pendingRequests /\ CanTransfer(t, Queue, s)
    BY <1>1, <1>2, <1>4 DEF CanReclaim
  <2>2. /\ VaultOK(t) /\ s \in Nat /\ c \in Accounts /\ Queue \in Accounts \ {Self, Pst}
    BY <2>1, DropPendingOK, QueueFacts, PstFacts DEF WorldOK
  <2>3. Reclaim(w, r).token = z
    BY <1>1, <1>4 DEF Reclaim, World
  <2> HIDE DEF c, s
  <2>4. Fair(t, z)
    BY <2>1, <2>2, OthersFair
  <2> QED BY <2>3, <2>4 DEF w
<1> QED BY <1>3, <1>4

(* A request is fulfilled with a redemption. *)
LEMMA FulfilFair ==
  ASSUME NEW t, NEW q, NEW k, WorldOK(t, q, k), NEW r \in q.pendingRequests,
         CanRedeemAVAX(t, Queue, q.requests[r].shares)
  PROVE  Fair(t, Fulfil(World(t, q), r).token)
<1> DEFINE s == q.requests[r].shares
           z == RedeemAVAX(t, Queue, s)
<1>1. VaultOK(t) /\ s \in Nat \ {0} /\ Queue \in Accounts \ {Self, Pst}
  BY DropPendingOK, QueueFacts, PstFacts DEF WorldOK
<1>2. Fulfil(World(t, q), r).token = z
  BY DEF Fulfil, World
<1>3. CanRedeemAVAX(t, Queue, s)
  OBVIOUS
<1> HIDE DEF s
<1>4. Fair(t, z)
  BY <1>1, <1>3, OthersFair
<1> QED BY <1>2, <1>4

-----------------------------------------------------------------------------
(* What everybody else does is fair to the contract *)

(* What a step does to the vault, and the copy a loop works on *)
FairStep ==
  /\ \A n, p \in Nat : Covers(token, n, p) => Covers(token, n, p)'
  /\ token'.balanceOf[Pst] >= token.balanceOf[Pst]

FairCopy == tx # Idle => Fair(token, tx.token)

Fairly == FairStep /\ FairCopy'

(* A transaction is over. *)
LEMMA FairLands ==
  ASSUME NEW STATE u, Fair(token, u), token' = u, now' = now, tx' = Idle
  PROVE  Fairly
<1>1. TotalAssets(token)' = TotalAssets(u)
  BY DEF TotalAssets
<1>2. \A n, p \in Nat : Covers(token, n, p)' <=> Covers(u, n, p)
  BY <1>1 DEF Covers
<1>3. FairStep
  BY <1>2 DEF FairStep, Fair
<1>4. FairCopy'
  BY DEF FairCopy
<1> QED BY <1>3, <1>4 DEF Fairly

(* A loop goes on. *)
LEMMA FairGoesOn ==
  ASSUME VaultOK(token), NEW STATE x, Fair(token, x.token),
         tx' = x, UNCHANGED <<now, token>>
  PROVE  Fairly
<1>1. TotalAssets(token)' = TotalAssets(token) /\ TotalAssets(tx.token)' = TotalAssets(x.token)
  BY DEF TotalAssets
<1>2. \A n, p \in Nat : /\ Covers(token, n, p)' <=> Covers(token, n, p)
                        /\ Covers(tx.token, n, p)' <=> Covers(x.token, n, p)
  BY <1>1 DEF Covers
<1>3. token.balanceOf[Pst] \in Nat
  BY SharesOfPst
<1>4. FairStep
  BY <1>2, <1>3 DEF FairStep
<1>5. Fair(token, tx.token)'
  BY <1>2 DEF Fair
<1> QED BY <1>4, <1>5 DEF Fairly, FairCopy

(* An iteration does to the copy what is fair. *)
LEMMA FairIteration ==
  ASSUME VaultOK(token), VaultOK(tx.token), FairCopy, tx # Idle,
         NEW STATE x, VaultOK(x.token), Fair(tx.token, x.token),
         tx' = x, UNCHANGED <<now, token>>
  PROVE  Fairly
<1>1. Fair(token, x.token)
  BY FairTwice DEF FairCopy
<1> QED BY <1>1, FairGoesOn

(* A step that leaves the vault alone *)
LEMMA FairAside ==
  ASSUME VaultOK(token), token' = token, now' = now, tx' = Idle
  PROVE  Fairly
<1>1. Fair(token, token)
  BY FairStill
<1> QED BY <1>1, FairLands

(* The shares of the contract, stated so that they hold of the next state   *)
(* as well                                                                  *)
LEMMA PstTypes ==
  VaultOK(token) => /\ TotalAssets(token) \in Nat /\ token.totalSupply \in Nat \ {0}
                    /\ token.balanceOf[Pst] \in Nat
BY SharesOfPst

(* What the vault does for everybody else *)
LEMMA VaultNextFair ==
  ASSUME QueueInv, VaultNext
  PROVE  Fairly
<1> DEFINE A == TotalAssets(token)
           S == token.totalSupply
           B == TotalAssets(token)'
           R == token'.totalSupply
<1>1. VaultOK(token)
  BY DEF QueueInv, WorldOK
<1>2. tx' = Idle
  BY DEF VaultNext, QueueStands
<1>3. [TokenNext]_tokenVars
  <2>1. HolderNext(Callers) => HolderNext(Accounts)
    BY QueueFacts DEF HolderNext
  <2> QED BY <2>1 DEF VaultNext, TokenNext
<1>4. VaultOK(token)' /\ PriceStep
  BY <1>1, <1>3, NextOK
<1>5. A \in Nat /\ S \in Nat \ {0}
  BY <1>1, TotalAssetsBounds, SupplyBounds
<1>6. B \in Nat /\ R \in Nat \ {0}
  <2>1. (VaultOK(token) => /\ TotalAssets(token) \in Nat /\ token.totalSupply \in Nat \ {0}
                           /\ token.balanceOf[Pst] \in Nat)'
    BY PstTypes, PTL
  <2> QED BY <1>4, <2>1
<1>7. B * S >= A * R
  BY <1>4 DEF PriceStep
<1>8. ASSUME NEW n \in Nat, NEW p \in Nat, Covers(token, n, p)
      PROVE  Covers(token, n, p)'
  <2>1. n * A >= p * S
    BY <1>8 DEF Covers
  <2> HIDE DEF A, S, B, R
  <2>2. n * A \in Nat /\ p * S \in Nat /\ n * B \in Nat /\ p * R \in Nat
    BY <1>5, <1>6
  <2>3. p * S <= n * A
    BY <2>1, <2>2
  <2>4. p * R <= n * B
    BY <1>5, <1>6, <1>7, <2>3, PriceUp
  <2>5. n * B >= p * R
    BY <2>2, <2>4
  <2> QED BY <2>5 DEF Covers, B, R
<1>9. token'.balanceOf[Pst] >= token.balanceOf[Pst]
  BY <1>1, PstFacts, OthersShares
<1>10. FairStep
  BY <1>8, <1>9 DEF FairStep
<1>11. FairCopy'
  BY <1>2 DEF FairCopy
<1> QED BY <1>10, <1>11 DEF Fairly

(* requestUnstake and requestUnstakeOnBehalfOf *)
LEMMA RequestTxFair ==
  ASSUME QueueInv, NEW a \in Callers, NEW b \in Accounts, NEW s \in Amounts,
         NEW delay, CanRequestUnstake(TheWorld, a, s, delay),
         Becomes(RequestUnstake(TheWorld, a, b, s, delay)), InOneStep
  PROVE  Fairly
<1> DEFINE u == TransferShares(token, a, Queue, s)
<1>1. /\ VaultOK(token) /\ a \in Accounts \ {Self, Pst} /\ s \in Nat /\ Queue \in Accounts
  BY QueueFacts, PstFacts DEF QueueInv, WorldOK
<1>2. CanTransfer(token, a, s)
  BY DEF CanRequestUnstake, TheWorld, World
<1>3. token' = u /\ now' = now /\ tx' = Idle
  BY DEF Becomes, RequestUnstake, TheWorld, World, InOneStep
<1>4. Fair(token, u)
  BY <1>1, <1>2, OthersFair
<1> QED BY <1>3, <1>4, FairLands

(* cancelRequest and reclaimExpiredRequest *)
LEMMA EndTxFair ==
  ASSUME QueueInv, NEW r, (\E a : CancelRequestTx(a, r)) \/ ReclaimExpiredRequestTx(r)
  PROVE  Fairly
<1>1. WorldOK(token, queue, ledger.promised) /\ TheWorld = World(token, queue)
  BY DEF QueueInv, TheWorld
<1>2. ASSUME NEW a, CancelRequestTx(a, r) PROVE Fairly
  <2> DEFINE u == Cancel(TheWorld, r).token
  <2>1. Fair(token, u)
    BY <1>1, <1>2, CancelFair DEF CancelRequestTx
  <2>2. token' = u /\ now' = now /\ tx' = Idle
    BY <1>2 DEF CancelRequestTx, Becomes, InOneStep
  <2> QED BY <2>1, <2>2, FairLands
<1>3. CASE ReclaimExpiredRequestTx(r)
  <2> DEFINE u == Reclaim(TheWorld, r).token
  <2>1. Fair(token, u)
    BY <1>1, <1>3, ReclaimFair DEF ReclaimExpiredRequestTx
  <2>2. token' = u /\ now' = now /\ tx' = Idle
    BY <1>3 DEF ReclaimExpiredRequestTx, Becomes, InOneStep
  <2> QED BY <2>1, <2>2, FairLands
<1> QED BY <1>2, <1>3

(* rescueStuckAVAX, and the deposit depositFromStaking begins with *)
LEMMA DepositorFair ==
  ASSUME QueueInv, DepositorNext
  PROVE  Fairly
<1>1. /\ VaultOK(token) /\ FeeBips \subseteq 0..Bips /\ Amounts \cup {0} \subseteq Nat
      /\ queue \in QueueStorage
  BY QueueFacts DEF QueueInv, WorldOK, QueueOK
<1>2. ASSUME NEW x \in Nat, NEW y \in Nat, NEW bips \in 0..Bips,
             BeginDepositFromStaking(x, y, bips)
      PROVE  Fairly
  <2> DEFINE u == DepositFromStaking(token, x, y, bips)
             v == [op |-> "fulfil", token |-> u, queue |-> queue, owner |-> NoAddress,
                   left |-> queue.maxRequestsPerStakingDeposit,
                   avail |-> Available(u), excess |-> 0, bips |-> bips]
  <2>1. VaultOK(u) /\ Fair(token, u)
    BY <1>1, <1>2, IncomeFair DEF BeginDepositFromStaking
  <2>2. tx' = v /\ UNCHANGED <<now, token>>
    BY <1>2 DEF BeginDepositFromStaking, Begin, OnTheCopy
  <2>3. v.token = u
    OBVIOUS
  <2> HIDE DEF u, v
  <2> QED BY <1>1, <2>1, <2>2, <2>3, FairGoesOn
<1>3. ASSUME NEW x \in Nat, NEW y \in Nat, NEW bips \in 0..Bips,
             RescueStuckAVAXTx(x, y, bips)
      PROVE  Fairly
  <2> DEFINE w == RescueStuck(TheWorld, x, y, bips)
             u == DepositFromStaking(token, x, y, bips)
             z == Stuck(queue)
  <2>1. TheWorld.token = token /\ TheWorld.queue = queue
    BY DEF TheWorld, World
  <2>2. token' = w.token /\ now' = now /\ tx' = Idle
    BY <1>3 DEF RescueStuckAVAXTx, Becomes, InOneStep
  <2>3. CASE z = 0
    <3>1. w = TheWorld
      BY <2>1, <2>3 DEF RescueStuck
    <3> QED BY <1>1, <2>1, <2>2, <3>1, FairAside
  <2>4. CASE z # 0
    <3>1. w.token = u
      BY <2>1, <2>4 DEF RescueStuck, World
    <3>2. x + y > 0 => CanDepositFromStaking(token, x)
      BY <1>3, <2>1 DEF RescueStuckAVAXTx, CanRescueStuck
    <3>3. Fair(token, u)
      BY <1>1, <3>2, IncomeFair
    <3> HIDE DEF w, u
    <3> QED BY <2>2, <3>1, <3>3, FairLands
  <2> QED BY <2>3, <2>4
<1> QED BY <1>1, <1>2, <1>3 DEF DepositorNext

(* cancelRequests and reclaimExpiredFunds begin on the vault as it is. *)
LEMMA BeginBatchFair ==
  ASSUME QueueInv, NEW size,
         (\E a : BeginCancelRequests(a, size)) \/ BeginReclaimExpiredFunds(size)
  PROVE  Fairly
<1>1. VaultOK(token) /\ Fair(token, token)
  BY FairStill DEF QueueInv, WorldOK
<1>2. ASSUME NEW op, NEW owner, NEW STATE left, Begin(op, token, owner, left, 0)
      PROVE  Fairly
  <2> DEFINE v == [op |-> op, token |-> token, queue |-> queue, owner |-> owner,
                   left |-> left, avail |-> Available(token), excess |-> 0, bips |-> 0]
  <2>1. tx' = v /\ UNCHANGED <<now, token>>
    BY <1>2 DEF Begin, OnTheCopy
  <2>2. v.token = token
    OBVIOUS
  <2> HIDE DEF v
  <2>3. Fair(token, v.token)
    BY <1>1, <2>2
  <2> QED BY <1>1, <2>1, <2>3, FairGoesOn
<1>3. ASSUME NEW a, BeginCancelRequests(a, size) PROVE Fairly
  BY <1>2, <1>3 DEF BeginCancelRequests
<1>4. CASE BeginReclaimExpiredFunds(size)
  BY <1>2, <1>4 DEF BeginReclaimExpiredFunds
<1> QED BY <1>3, <1>4

(* The iterations of cancelRequests and of reclaimExpiredFunds *)
LEMMA BatchFair ==
  ASSUME QueueInv, FairCopy, NEW r, CancelNext(r) \/ ReclaimNext(r)
  PROVE  Fairly
<1>1. /\ VaultOK(token) /\ tx \in Loops /\ tx # Idle
      /\ WorldOK(tx.token, tx.queue, ledger.promised) /\ VaultOK(tx.token)
      /\ Copy = World(tx.token, tx.queue)
  <2>1. LoopOK(queue, tx, ledger.promised) /\ tx.op \in {"cancel", "reclaim"}
    BY Busy DEF CancelNext, ReclaimNext
  <2>2. tx # Idle
    BY <2>1 DEF Idle
  <2> QED BY <2>1, <2>2 DEF LoopOK, QueueInv, WorldOK, Copy
<1>2. ASSUME Revert PROVE Fairly
  BY <1>1, <1>2, FairAside DEF Revert, OnTheCopy
<1>3. ASSUME NEW STATE u, VaultOK(u.token), Fair(tx.token, u.token), Continue(u)
      PROVE  Fairly
  <2> DEFINE x == [tx EXCEPT !.token = u.token, !.queue = u.queue, !.left = @ - 1]
  <2>1. tx' = x /\ UNCHANGED <<now, token>>
    BY <1>3 DEF Continue, OnTheCopy
  <2>2. x.token = u.token
    BY <1>1 DEF Loops
  <2> HIDE DEF x
  <2>3. VaultOK(x.token) /\ Fair(tx.token, x.token)
    BY <1>3, <2>2
  <2> QED BY <1>1, <2>1, <2>3, FairIteration
<1>4. CASE CancelNext(r)
  <2>1. CASE CanCancel(Copy, tx.owner, r)
    <3> DEFINE u == Cancel(Copy, r)
    <3>1. Fair(tx.token, u.token)
      BY <1>1, <2>1, CancelFair
    <3>2. VaultOK(u.token)
      BY <1>1, <2>1, CancelOK DEF WorldOK
    <3>3. Continue(u)
      BY <1>4, <2>1 DEF CancelNext
    <3> HIDE DEF u
    <3> QED BY <1>3, <3>1, <3>2, <3>3
  <2>2. CASE ~CanCancel(Copy, tx.owner, r)
    BY <1>2, <1>4, <2>2 DEF CancelNext
  <2> QED BY <2>1, <2>2
<1>5. CASE ReclaimNext(r)
  <2>1. CASE CanReclaim(Copy, r)
    <3> DEFINE u == Reclaim(Copy, r)
    <3>1. Fair(tx.token, u.token)
      BY <1>1, <2>1, ReclaimFair
    <3>2. VaultOK(u.token)
      BY <1>1, <2>1, ReclaimOK DEF WorldOK
    <3>3. Continue(u)
      BY <1>5, <2>1 DEF ReclaimNext
    <3> HIDE DEF u
    <3> QED BY <1>3, <3>1, <3>2, <3>3
  <2>2. CASE ~CanReclaim(Copy, r)
    BY <1>2, <1>5, <2>2 DEF ReclaimNext
  <2> QED BY <2>1, <2>2
<1> QED BY <1>4, <1>5

(* The iterations of depositFromStaking *)
LEMMA FrontFair ==
  ASSUME QueueInv, FairCopy, CleanFront \/ FulfilFront
  PROVE  Fairly
<1> DEFINE r == Head(tx.queue.pendingRequestsQueue)
<1>1. /\ VaultOK(token) /\ tx \in Loops /\ tx # Idle
      /\ WorldOK(tx.token, tx.queue, ledger.promised) /\ VaultOK(tx.token)
  <2>1. LoopOK(queue, tx, ledger.promised) /\ tx.op = "fulfil"
    BY Busy DEF CleanFront, FulfilFront
  <2>2. tx # Idle
    BY <2>1 DEF Idle
  <2> QED BY <2>1, <2>2 DEF LoopOK, QueueInv, WorldOK
<1>2. CASE CleanFront
  <2> DEFINE v == [tx.queue EXCEPT !.pendingRequestsQueue = Tail(@)]
             x == [tx EXCEPT !.token = tx.token, !.queue = v, !.left = @ - 1]
  <2>1. tx' = x /\ UNCHANGED <<now, token>>
    BY <1>2 DEF CleanFront, Continue, World, OnTheCopy
  <2>2. x.token = tx.token
    BY <1>1 DEF Loops
  <2> HIDE DEF x
  <2>3. VaultOK(x.token) /\ Fair(tx.token, x.token)
    BY <1>1, <2>2, FairStill
  <2> QED BY <1>1, <2>1, <2>3, FairIteration
<1>3. CASE FulfilFront
  <2> DEFINE w == World(tx.token, tx.queue)
             u == Fulfil(w, r)
             g == Redeemed(w, r)
             y == tx.excess + g - tx.queue.requests[r].expectedAssets
             x == [tx EXCEPT !.token = u.token, !.queue = u.queue, !.left = @ - 1,
                             !.avail = @ - g, !.excess = y]
             s == tx.queue.requests[r].shares
  <2>1. r \in tx.queue.pendingRequests /\ CanRedeemAVAX(tx.token, Queue, s)
    BY <1>3 DEF FulfilFront, FrontIsPending, CanFulfil, Front
  <2>2. tx' = x /\ UNCHANGED <<now, token>>
    BY <1>3 DEF FulfilFront, Front, Expected, Copy, OnTheCopy
  <2>3. Fair(tx.token, u.token)
    BY <1>1, <2>1, FulfilFair
  <2>4. VaultOK(u.token)
    <3>1. u.token = RedeemAVAX(tx.token, Queue, s)
      BY DEF Fulfil, World
    <3>2. s \in Nat \ {0} /\ Queue \in Accounts \ {Self, Pst}
      BY <1>1, <2>1, DropPendingOK, QueueFacts, PstFacts
    <3> HIDE DEF s, u
    <3> QED BY <1>1, <2>1, <3>1, <3>2, OthersFair
  <2> HIDE DEF u, g, y
  <2>5. x.token = u.token
    BY <1>1 DEF Loops
  <2> HIDE DEF x
  <2>6. VaultOK(x.token) /\ Fair(tx.token, x.token)
    BY <2>3, <2>4, <2>5
  <2> QED BY <1>1, <2>2, <2>6, FairIteration
<1> QED BY <1>2, <1>3

(* The loops end, or revert. *)
LEMMA EndFair ==
  ASSUME QueueInv, FairCopy,
         \/ EndDepositFromStaking \/ RevertDepositFromStaking
         \/ EndCancelRequests \/ EndReclaimExpiredFunds
  PROVE  Fairly
<1>1. /\ VaultOK(token) /\ VaultOK(tx.token) /\ Fair(token, tx.token)
      /\ tx.excess \in Nat /\ tx.bips \in 0..Bips
  <2>1. LoopOK(queue, tx, ledger.promised) /\ tx.op \in {"fulfil", "cancel", "reclaim"}
    BY Busy DEF EndDepositFromStaking, RevertDepositFromStaking, EndCancelRequests,
                EndReclaimExpiredFunds
  <2>2. tx # Idle
    BY <2>1 DEF Idle
  <2> QED BY <2>1, <2>2, LoopFields DEF LoopOK, QueueInv, WorldOK, FairCopy
<1>2. CASE EndDepositFromStaking
  <2> DEFINE e == tx.excess
             u == DepositYield(tx.token, e, tx.bips)
  <2>1. token' = u /\ now' = now /\ tx' = Idle
    BY <1>2 DEF EndDepositFromStaking, Commit, Becomes, World
  <2>2. VaultOK(u) /\ Fair(tx.token, u)
    <3> HIDE DEF e
    <3>1. e \in Nat
      BY <1>1 DEF e
    <3> QED BY <1>1, <3>1, IncomeFair
  <2> HIDE DEF u
  <2>3. Fair(token, u)
    BY <1>1, <2>2, FairTwice
  <2> QED BY <2>1, <2>3, FairLands
<1>3. CASE EndCancelRequests \/ EndReclaimExpiredFunds
  <2>1. token' = tx.token /\ now' = now /\ tx' = Idle
    BY <1>3 DEF EndCancelRequests, EndReclaimExpiredFunds, Commit, Becomes, Copy, World
  <2> QED BY <1>1, <2>1, FairLands
<1>4. CASE RevertDepositFromStaking
  BY <1>1, <1>4, FairAside DEF RevertDepositFromStaking, Revert, OnTheCopy
<1> QED BY <1>2, <1>3, <1>4

(* Nothing that anybody does in the vault or in the queue takes shares from *)
(* the contract, or from their worth.                                       *)
LEMMA QueueNextFair ==
  ASSUME QueueInv, FairCopy, QueueNext
  PROVE  Fairly
<1>1. VaultOK(token)
  BY DEF QueueInv, WorldOK
<1>2. CASE HolderQueueNext
  <2>1. ASSUME NEW a \in Callers, NEW s \in Amounts, NEW delay \in ExpirationDelays,
               RequestUnstakeTx(a, s, delay)
        PROVE  Fairly
    BY <2>1, QueueFacts, RequestTxFair DEF RequestUnstakeTx
  <2>2. ASSUME NEW a \in Callers, NEW s \in Amounts, NEW delay \in ExpirationDelays,
               NEW b \in Requesters, RequestUnstakeOnBehalfOfTx(a, b, s, delay)
        PROVE  Fairly
    BY <2>2, QueueFacts, RequestTxFair DEF RequestUnstakeOnBehalfOfTx
  <2>3. ASSUME NEW a, NEW r, ClaimUnstakeTx(a, r) PROVE Fairly
    BY <1>1, <2>3, FairAside DEF ClaimUnstakeTx, InOneStep
  <2>4. ASSUME GetNextPendingRequestAmountTx PROVE Fairly
    BY <1>1, <2>4, FairAside DEF GetNextPendingRequestAmountTx, InOneStep
  <2> QED BY <1>2, <2>1, <2>2, <2>3, <2>4, EndTxFair, BeginBatchFair DEF HolderQueueNext
<1>3. CASE AdminNext
  <2>1. token' = token /\ now' = now /\ tx' = Idle
    BY <1>3 DEF AdminNext, SetMaxRequestsPerStakingDepositTx, SetMinUnstakeOnBehalfOfAmtTx,
       SetUnstakeDelayTx, SetMaxExpirationDelayTx, SetQueuePausedTx, InOneStep
  <2> QED BY <1>1, <2>1, FairAside
<1>4. CASE LoopNext
  BY <1>4, FrontFair, BatchFair, EndFair DEF LoopNext
<1> QED BY <1>2, <1>3, <1>4, DepositorFair, VaultNextFair DEF QueueNext

-----------------------------------------------------------------------------
(* The strip *)

(* What of the excess burns, and what is the fee *)
LEMMA ExcessFacts ==
  ASSUME NEW t, VaultOK(t), NEW p \in PstStorage
  PROVE  /\ TotalExcess(t, p) \in Nat /\ TotalExcess(t, p) <= VaultShares(t)
         /\ FeeShares(t, p) \in Nat /\ BurnShare(t, p) \in Nat
         /\ TotalExcess(t, p) = BurnShare(t, p) + FeeShares(t, p)
         /\ FeeShares(t, p) > 0 => p.stripYieldFeeRecipient \in Accounts
         /\ ~FeeTaken(p) => FeeShares(t, p) = 0
         /\ Strips(t, p) =>
              (VaultShares(t) - TotalExcess(t, p)) * TotalAssets(t)
                >= p.totalSupply * (t.totalSupply - BurnShare(t, p))
<1> DEFINE A == TotalAssets(t)
           S == t.totalSupply
           V == VaultShares(t)
           P == p.totalSupply
           E == TotalExcess(t, p)
           F == FeeShares(t, p)
           f == IF FeeTaken(p) THEN p.stripYieldFeeBips ELSE 0
           B == Bips
           m == MulDivDown(P, B - f, B)
<1>1. /\ A \in Nat /\ S \in Nat \ {0} /\ V \in Nat /\ V <= S /\ P \in Nat
  BY SharesOfPst, PstFields
<1>2. f \in 0..B /\ B \in Nat
  <2>1. B \in Nat
    BY DEF Bips
  <2>2. p.stripYieldFeeBips \in 0..Bips
    BY PstFields
  <2> HIDE DEF B
  <2>3. p.stripYieldFeeBips \in 0..B
    BY <2>2 DEF B
  <2> QED BY <2>1, <2>3
<1>3. FeeTaken(p) => p.stripYieldFeeRecipient \in Accounts
  BY PstFields DEF FeeTaken, Owners
<1>4. m = MulDivDown(P, KeptBips(p), Bips)
  <2>1. KeptBips(p) = B - f
    <3> HIDE DEF B
    <3>1. KeptBips(p) = IF FeeTaken(p) THEN B - p.stripYieldFeeBips ELSE B
      BY DEF KeptBips, B
    <3> QED BY <1>2, <3>1
  <2> QED BY <2>1
<1>5. F = IF P = 0 \/ ~FeeTaken(p) THEN 0 ELSE MulDivDown(E, f, B)
  BY DEF FeeShares
<1>6. CASE P = 0
  <2>1. E = V /\ F = 0
    BY <1>5, <1>6 DEF TotalExcess
  <2>2. (V - E) * A = 0 /\ P * (S - (E - F)) = 0
    <3> HIDE DEF A, S, V, P, E, F
    <3> QED BY <1>1, <1>6, <2>1
  <2> HIDE DEF A, S, V, P, E, F
  <2>3. (V - E) * A >= P * (S - (E - F))
    BY <2>2
  <2>4. E \in Nat /\ E <= V /\ F \in Nat /\ E - F \in Nat /\ E = (E - F) + F
    BY <1>1, <2>1
  <2>5. ~(F > 0)
    BY <2>1
  <2> QED BY <2>1, <2>3, <2>4, <2>5 DEF A, S, V, P, E, F, BurnShare
<1>7. CASE P # 0 /\ (A <= P \/ ~Covers(t, V, P))
  <2>1. E = 0
    BY <1>7 DEF TotalExcess
  <2>2. F = 0
    <3> HIDE DEF E, F, f, B, P
    <3>1. E \in Nat
      BY <2>1
    <3>2. MulDivDown(E, f, B) \in Nat /\ MulDivDown(E, f, B) <= E
      BY <1>1, <1>2, <3>1, FeeBalance DEF B
    <3> QED BY <1>5, <2>1, <3>2
  <2>3. ~Strips(t, p)
    BY <2>1 DEF Strips
  <2> QED BY <1>1, <2>1, <2>2, <2>3 DEF BurnShare
<1>8. CASE P # 0 /\ A > P /\ Covers(t, V, P)
  <2>1. E = (V * A - P * S) \div (A - m)
    <3>1. ~(A <= P)
      <4> HIDE DEF A, P
      <4> QED BY <1>1, <1>8
    <3> HIDE DEF m
    <3> QED BY <1>4, <1>8, <3>1 DEF TotalExcess
  <2>2. V * A >= P * S
    BY <1>8 DEF Covers
  <2> HIDE DEF A, S, V, P, E, F, f, B
  <2>3. m \in Nat /\ m <= P
    BY <1>1, <1>2, FeeBalance DEF B
  <2> HIDE DEF m
  <2>4. P < A /\ P * S <= V * A
    <3>1. P * S \in Nat /\ V * A \in Nat
      BY <1>1
    <3> QED BY <1>1, <1>8, <2>2, <3>1
  <2>5. /\ E \in Nat /\ E <= V /\ E * (A - m) <= V * A - P * S
    BY <1>1, <2>1, <2>3, <2>4, ExcessBounds
  <2>6. /\ F \in Nat /\ F <= E /\ P * F <= E * (P - m)
    <3>1. CASE FeeTaken(p)
      <4>1. F = MulDivDown(E, f, B)
        BY <1>5, <1>8, <3>1
      <4> QED BY <1>1, <1>2, <2>5, <4>1, FeeBalance DEF B, m
    <3>2. CASE ~FeeTaken(p)
      <4>1. F = 0
        BY <1>5, <3>2
      <4>2. P * F = 0 /\ E * (P - m) \in Nat
        <5>1. P - m \in Nat
          BY <1>1, <2>3
        <5> QED BY <1>1, <2>5, <4>1, <5>1
      <4> QED BY <2>5, <4>1, <4>2
    <3> QED BY <3>1, <3>2
  <2>7. (V - E) * A >= P * (S - (E - F))
    <3>1. P <= A
      BY <1>1, <2>4
    <3> QED BY <1>1, <2>3, <2>5, <2>6, <3>1, StripAlgebra
  <2>8. E - F \in Nat /\ E = (E - F) + F
    BY <2>5, <2>6
  <2>9. F > 0 => FeeTaken(p)
    BY <1>5
  <2> QED BY <1>3, <1>5, <2>5, <2>6, <2>7, <2>8, <2>9 DEF A, S, V, P, E, F, BurnShare
<1>9. (P # 0 /\ (A <= P \/ ~Covers(t, V, P))) \/ (P # 0 /\ A > P /\ Covers(t, V, P)) \/ P = 0
  <2> HIDE DEF A, P
  <2> QED BY <1>1
<1> QED BY <1>6, <1>7, <1>8, <1>9

(* What a strip makes of the vault *)
Stripped(t, p, u) ==
  /\ TotalAssets(u) = TotalAssets(t)
  /\ u.totalSupply = t.totalSupply - BurnShare(t, p)
  /\ VaultShares(u) >= VaultShares(t) - TotalExcess(t, p)
  /\ FeeShares(t, p) = 0 => VaultShares(u) = VaultShares(t) - TotalExcess(t, p)

(* Burnt shares of the contract leave those of the queue and the assets. *)
LEMMA PstBurns ==
  ASSUME NEW t, NEW q, NEW k, WorldOK(t, q, k), NEW s \in Nat \ {0}, s <= VaultShares(t)
  PROVE  LET u == DonateYield(t, Pst, s)
         IN  /\ WorldOK(u, q, k) /\ PriceKept(t, u)
             /\ TotalAssets(u) = TotalAssets(t) /\ u.totalSupply = t.totalSupply - s
             /\ VaultShares(u) = VaultShares(t) - s
<1> DEFINE u == DonateYield(t, Pst, s)
<1>1. /\ VaultOK(t) /\ Pst \in Accounts \ {Self} /\ Queue \in Accounts /\ Pst # Queue
      /\ QueueOK(q, k) /\ t.balanceOf[Queue] >= SharesPending(q)
      /\ VaultShares(t) = t.balanceOf[Pst] /\ t.balanceOf \in [Accounts -> Nat]
  BY PstFacts, QueueFacts, SharesOfPst DEF WorldOK, QueueOK
<1>2. CanDonateYield(t, Pst, s) /\ s <= t.balanceOf[Pst]
  BY <1>1, SharesOfPst DEF CanDonateYield
<1>3. VaultOK(u) /\ PriceKept(t, u)
  BY <1>1, <1>2, DonateYieldOK
<1>4. u.totalSupply = t.totalSupply - s /\ SameCycle(t, u) /\ SameAssets(t, u)
  BY <1>1, <1>2, BurnSharesOK DEF DonateYield
<1>5. u.balanceOf = [t.balanceOf EXCEPT ![Pst] = @ - s]
  <2>1. t \in TokenStorage
    BY <1>1 DEF VaultOK
  <2> QED BY <2>1 DEF DonateYield, BurnShares, TokenStorage
<1> HIDE DEF u
<1>6. TotalAssets(u) = TotalAssets(t)
  <2>1. t.totalReleasedAssets \in Nat /\ u.totalReleasedAssets = t.totalReleasedAssets
    BY <1>1, <1>4, VaultFields DEF VaultOK, SameAssets
  <2>2. TotalAssets(t) \in Nat
    BY <1>1, SharesOfPst
  <2> QED BY <1>1, <1>4, <2>1, <2>2, TotalAssetsShift
<1>7. u.balanceOf[Queue] >= SharesPending(q) /\ VaultShares(u) = VaultShares(t) - s
  <2>1. u.balanceOf[Queue] = t.balanceOf[Queue] /\ u.balanceOf[Pst] = t.balanceOf[Pst] - s
    BY <1>1, <1>5
  <2> QED BY <1>1, <2>1 DEF VaultShares
<1>8. WorldOK(u, q, k)
  BY <1>1, <1>3, <1>7, WorldStep
<1> QED BY <1>3, <1>4, <1>6, <1>7, <1>8 DEF u

(* Shares of the contract that go to another account, or to itself *)
LEMMA PstSends ==
  ASSUME NEW t, NEW q, NEW k, WorldOK(t, q, k), NEW s \in Nat, s <= VaultShares(t),
         NEW c \in Accounts
  PROVE  LET u == TransferShares(t, Pst, c, s)
         IN  /\ WorldOK(u, q, k) /\ PriceKept(t, u)
             /\ TotalAssets(u) = TotalAssets(t) /\ u.totalSupply = t.totalSupply
             /\ VaultShares(u) >= VaultShares(t) - s
<1> DEFINE u == TransferShares(t, Pst, c, s)
<1>1. /\ VaultOK(t) /\ Pst \in Accounts \ {Self} /\ Queue \in Accounts /\ Pst # Queue
      /\ QueueOK(q, k) /\ t.balanceOf[Queue] >= SharesPending(q) /\ q \in QueueStorage
      /\ VaultShares(t) = t.balanceOf[Pst] /\ t.balanceOf \in [Accounts -> Nat]
  BY PstFacts, QueueFacts, SharesOfPst DEF WorldOK, QueueOK
<1>2. CanTransfer(t, Pst, s)
  BY <1>1, SharesOfPst DEF CanTransfer
<1>3. /\ VaultOK(u) /\ PriceKept(t, u)
      /\ TotalAssets(u) = TotalAssets(t) /\ u.totalSupply = t.totalSupply
      /\ u.balanceOf = Move(t.balanceOf, Pst, c, s)
  BY <1>1, <1>2, TransferOK
<1> HIDE DEF u
<1>4. u.balanceOf[Queue] >= t.balanceOf[Queue] /\ u.balanceOf[Pst] >= t.balanceOf[Pst] - s
  BY <1>1, <1>3, MoveOfPst
<1>5. u.balanceOf[Queue] >= SharesPending(q)
  <2>1. u.balanceOf[Queue] \in Nat /\ t.balanceOf[Queue] \in Nat /\ SharesPending(q) \in Nat
    BY <1>1, <1>3, SharesOfQueue, QueueSums
  <2> QED BY <1>1, <1>4, <2>1
<1>6. WorldOK(u, q, k)
  BY <1>1, <1>3, <1>5, WorldStep
<1> QED BY <1>1, <1>3, <1>4, <1>6 DEF u, VaultShares

(* A strip leaves the vault and the queue in order. *)
LEMMA StripOK ==
  ASSUME NEW t, NEW q, NEW k, WorldOK(t, q, k), NEW p \in PstStorage
  PROVE  LET u == StripYield(t, p)
         IN  /\ WorldOK(u, q, k) /\ VaultOK(u) /\ Stripped(t, p, u)
             /\ ~Strips(t, p) => u = t
<1> DEFINE b == BurnShare(t, p)
           F == FeeShares(t, p)
           E == TotalExcess(t, p)
           c == p.stripYieldFeeRecipient
           y == IF b > 0 THEN DonateYield(t, Pst, b) ELSE t
           u == IF F > 0 THEN TransferShares(y, Pst, c, F) ELSE y
           V == VaultShares(t)
<1>1. /\ VaultOK(t) /\ E \in Nat /\ E <= V /\ b \in Nat /\ F \in Nat /\ E = b + F
      /\ F > 0 => c \in Accounts
  BY ExcessFacts DEF WorldOK
<1>2. V \in Nat /\ t.totalSupply \in Nat
  BY <1>1, SharesOfPst
<1>3. StripYield(t, p) = u
  BY DEF StripYield
<1>4. ~Strips(t, p) => E = 0
  BY <1>1 DEF Strips
<1> HIDE DEF b, F, E, V, c
<1>5. /\ WorldOK(y, q, k)
      /\ TotalAssets(y) = TotalAssets(t) /\ y.totalSupply = t.totalSupply - b
      /\ VaultShares(y) = V - b
  <2>1. CASE b > 0
    <3>1. b \in Nat \ {0} /\ b <= VaultShares(t)
      BY <1>1, <1>2, <2>1 DEF V
    <3> QED BY <2>1, <3>1, PstBurns DEF V
  <2>2. CASE ~(b > 0)
    <3>1. b = 0
      BY <1>1, <2>2
    <3> QED BY <1>2, <2>2, <3>1 DEF V
  <2> QED BY <2>1, <2>2
<1>6. E = 0 => y = t
  BY <1>1
<1> HIDE DEF y
<1>7. VaultShares(y) \in Nat
  BY <1>5, SharesOfPst DEF WorldOK
<1>8. /\ WorldOK(u, q, k)
      /\ TotalAssets(u) = TotalAssets(y) /\ u.totalSupply = y.totalSupply
      /\ VaultShares(u) >= VaultShares(y) - F
      /\ F = 0 => VaultShares(u) = VaultShares(y)
  <2>1. CASE F > 0
    <3>1. F <= VaultShares(y) /\ F # 0
      BY <1>1, <1>2, <1>5, <2>1
    <3> QED BY <1>1, <1>5, <2>1, <3>1, PstSends
  <2>2. CASE ~(F > 0)
    <3>1. F = 0
      BY <1>1, <2>2
    <3> QED BY <1>5, <1>7, <2>2, <3>1
  <2> QED BY <2>1, <2>2
<1>9. E = 0 => u = y
  BY <1>1
<1> HIDE DEF u
<1>10. VaultOK(u) /\ VaultShares(u) \in Nat
  BY <1>8, SharesOfPst DEF WorldOK
<1>11. VaultShares(u) >= V - E /\ (F = 0 => VaultShares(u) = V - E)
  BY <1>1, <1>2, <1>5, <1>7, <1>8, <1>10
<1>12. Stripped(t, p, u)
  BY <1>5, <1>8, <1>11 DEF Stripped, b, F, E, V
<1> QED BY <1>3, <1>4, <1>6, <1>8, <1>9, <1>10, <1>12

(* After a strip the shares are worth the principal at the price of now;    *)
(* without one, they are worth what they were.                              *)
LEMMA StripCovers ==
  ASSUME NEW t, VaultOK(t), NEW p \in PstStorage, NEW u, VaultOK(u), Stripped(t, p, u),
         Strips(t, p)
  PROVE  Covers(u, VaultShares(u), p.totalSupply)
<1> DEFINE A == TotalAssets(t)
           S == t.totalSupply
           V == VaultShares(t)
           W == VaultShares(u)
           P == p.totalSupply
           E == TotalExcess(t, p)
           b == BurnShare(t, p)
<1>1. /\ A \in Nat /\ S \in Nat /\ V \in Nat /\ P \in Nat /\ W \in Nat
      /\ E \in Nat /\ E <= V /\ b \in Nat /\ (V - E) * A >= P * (S - b)
  BY SharesOfPst, PstFields, ExcessFacts
<1>2. TotalAssets(u) = A /\ u.totalSupply = S - b /\ W >= V - E /\ u.totalSupply \in Nat
  BY SharesOfPst DEF Stripped
<1> HIDE DEF A, S, V, W, P, E, b
<1>3. V - E \in Nat /\ S - b \in Nat
  BY <1>1, <1>2
<1>4. (V - E) * A <= W * A
  BY <1>1, <1>2, <1>3, ProductMonotone
<1>5. (V - E) * A \in Nat /\ W * A \in Nat /\ P * (S - b) \in Nat
  BY <1>1, <1>3
<1>6. W * A >= P * (S - b)
  BY <1>1, <1>4, <1>5
<1> QED BY <1>2, <1>6 DEF Covers, W, P

-----------------------------------------------------------------------------
(* What the token does with its shares *)

(* More shares cover no less, and what covers more covers less. *)
LEMMA CoversMore ==
  ASSUME NEW t, VaultOK(t), NEW n \in Nat, NEW m \in Nat, n <= m, NEW P \in Nat,
         Covers(t, n, P)
  PROVE  Covers(t, m, P)
<1> DEFINE A == TotalAssets(t)
           S == t.totalSupply
<1>1. A \in Nat /\ S \in Nat
  BY SharesOfPst
<1>2. n * A >= P * S
  BY DEF Covers
<1> HIDE DEF A, S
<1>3. n * A <= m * A
  BY <1>1, ProductMonotone
<1>4. n * A \in Nat /\ m * A \in Nat /\ P * S \in Nat
  BY <1>1
<1>5. m * A >= P * S
  BY <1>2, <1>3, <1>4
<1> QED BY <1>5 DEF Covers, A, S

(* A strip, or none, keeps the principal covered, and leaves no rounding    *)
(* uncounted.                                                               *)
LEMMA StripKeeps ==
  ASSUME NEW t, NEW q, NEW k, WorldOK(t, q, k), NEW p \in PstStorage, NEW n \in Nat,
         Covers(t, VaultShares(t) + n, p.totalSupply)
  PROVE  LET u == StripYield(t, p)
         IN  Covers(u, VaultShares(u) + (IF Strips(t, p) THEN 0 ELSE n), p.totalSupply)
<1> DEFINE u == StripYield(t, p)
<1>1. VaultOK(t) /\ VaultOK(u) /\ Stripped(t, p, u) /\ (~Strips(t, p) => u = t)
  BY StripOK DEF WorldOK
<1> HIDE DEF u
<1>2. CASE Strips(t, p)
  <2>1. VaultShares(u) + 0 = VaultShares(u)
    BY <1>1, SharesOfPst
  <2> QED BY <1>1, <1>2, <2>1, StripCovers DEF u
<1>3. CASE ~Strips(t, p)
  BY <1>1, <1>3 DEF u
<1> QED BY <1>2, <1>3

(* The conversion to shares loses less than one share. *)
LEMMA SharesRounded ==
  ASSUME NEW t, VaultOK(t), TotalAssets(t) > 0, NEW x \in Nat
  PROVE  LET s == ConvertToShares(t, x)
         IN  /\ s \in Nat
             /\ s * TotalAssets(t) <= x * t.totalSupply
             /\ x * t.totalSupply < (s + 1) * TotalAssets(t)
<1> DEFINE A == TotalAssets(t)
           S == t.totalSupply
           s == ConvertToShares(t, x)
<1>1. A \in Nat \ {0} /\ S \in Nat \ {0}
  BY SharesOfPst
<1>2. s = (x * S) \div A
  BY <1>1 DEF ConvertToShares, SharesFor, MulDivDown
<1> HIDE DEF A, S, s
<1>3. x * S \in Nat
  BY <1>1
<1>4. s \in Nat /\ s * A <= x * S /\ x * S < (s + 1) * A
  BY <1>1, <1>2, <1>3, DivBounds
<1> QED BY <1>4 DEF A, S, s

(* A deposit for the contract *)
LEMMA PstDeposits ==
  ASSUME NEW t, NEW q, NEW k, WorldOK(t, q, k), NEW x \in Nat, CanDepositAVAX(t, x)
  PROVE  LET u == DepositAVAX(t, Pst, x)
         IN  /\ WorldOK(u, q, k) /\ VaultOK(u) /\ Fair(t, u) /\ PriceKept(t, u)
             /\ ConvertToShares(t, x) \in Nat
             /\ VaultShares(u) = VaultShares(t) + ConvertToShares(t, x)
<1> DEFINE u == DepositAVAX(t, Pst, x)
           s == ConvertToShares(t, x)
<1>1. /\ VaultOK(t) /\ Pst \in Accounts /\ Queue \in Accounts /\ Pst # Queue
      /\ QueueOK(q, k) /\ t.balanceOf[Queue] >= SharesPending(q)
      /\ t.balanceOf \in [Accounts -> Nat]
  BY PstFacts, QueueFacts, SharesOfPst DEF WorldOK, QueueOK
<1>2. /\ s \in Nat /\ VaultOK(u) /\ PriceKept(t, u)
  BY <1>1, DepositAVAXOK
<1>3. Fair(t, u)
  BY <1>1, IncomeFair
<1>4. u.balanceOf = [t.balanceOf EXCEPT ![Pst] = @ + s]
  BY <1>1, SharesOfQueue
<1> HIDE DEF u, s
<1>5. u.balanceOf[Queue] >= SharesPending(q) /\ VaultShares(u) = VaultShares(t) + s
  BY <1>1, <1>4 DEF VaultShares
<1>6. WorldOK(u, q, k)
  BY <1>1, <1>2, <1>5, WorldStep
<1> QED BY <1>2, <1>3, <1>5, <1>6 DEF u, s

(* After a deposit of x: the strip before it, or its own part of a share    *)
LEMMA DepositKeeps ==
  ASSUME NEW t, NEW q, NEW k, WorldOK(t, q, k), NEW p \in PstStorage, NEW x \in Nat,
         NEW r \in PstStorage, r.totalSupply = p.totalSupply + x, NEW n \in Nat,
         Covers(t, VaultShares(t) + n, p.totalSupply),
         CanDepositAVAX(StripYield(t, r), x)
  PROVE  LET u == DepositAVAX(StripYield(t, r), Pst, x)
         IN  /\ WorldOK(u, q, k) /\ VaultOK(u)
             /\ Covers(u, VaultShares(u) + (IF Strips(t, r) THEN 0 ELSE n + 1),
                       r.totalSupply)
<1> DEFINE y == StripYield(t, r)
           u == DepositAVAX(y, Pst, x)
           s == ConvertToShares(y, x)
           P == p.totalSupply
           R == r.totalSupply
<1>1. /\ VaultOK(t) /\ WorldOK(y, q, k) /\ VaultOK(y) /\ Stripped(t, r, y)
      /\ ~Strips(t, r) => y = t
  BY StripOK DEF WorldOK
<1>2. P \in Nat /\ R \in Nat /\ R = P + x
  BY PstFields
<1> HIDE DEF y
<1>3. CanDepositAVAX(y, x)
  BY DEF y
<1>4. /\ WorldOK(u, q, k) /\ VaultOK(u) /\ Fair(y, u) /\ s \in Nat
      /\ VaultShares(u) = VaultShares(y) + s
  BY <1>1, <1>3, PstDeposits
<1> HIDE DEF u
<1>5. VaultShares(y) \in Nat /\ VaultShares(t) \in Nat
  BY <1>1, SharesOfPst
<1>6. CASE Strips(t, r)
  <2>1. Covers(y, VaultShares(y), R)
    BY <1>1, <1>6, StripCovers
  <2>2. Covers(u, VaultShares(y), R)
    BY <1>2, <1>4, <1>5, <2>1 DEF Fair
  <2> HIDE DEF s, R
  <2>3. VaultShares(y) <= VaultShares(u) /\ VaultShares(u) \in Nat
    BY <1>4, <1>5
  <2>4. Covers(u, VaultShares(u), R) /\ VaultShares(u) + 0 = VaultShares(u)
    BY <1>2, <1>4, <1>5, <2>2, <2>3, CoversMore
  <2> QED BY <1>4, <1>6, <2>4 DEF u, y, R
<1>7. CASE ~Strips(t, r)
  <2> DEFINE A == TotalAssets(t)
             S == t.totalSupply
             V == VaultShares(t)
  <2>1. y = t
    BY <1>1, <1>7
  <2>2. A \in Nat \ {0} /\ S \in Nat \ {0}
    <3>1. A \in Nat /\ S \in Nat \ {0}
      BY <1>1, SharesOfPst
    <3>2. A > 0
      BY <1>3, <2>1, <3>1 DEF CanDepositAVAX, Priced
    <3> QED BY <3>1, <3>2
  <2>3. (V + n) * A >= P * S
    BY DEF Covers
  <2>4. x * S < (s + 1) * A
    BY <1>1, <2>1, <2>2, SharesRounded
  <2>5. (V + s + n + 1) * A >= R * S
    <3> HIDE DEF A, S, V, s, P, R
    <3>1. /\ (V + n) * A \in Nat /\ P * S \in Nat /\ x * S \in Nat /\ (s + 1) * A \in Nat
          /\ (V + s + n + 1) * A = (V + n) * A + (s + 1) * A
          /\ R * S = P * S + x * S
      BY <1>2, <1>4, <1>5, <2>2 DEF V
    <3> QED BY <2>3, <2>4, <3>1
  <2>6. Covers(t, V + s + n + 1, R)
    BY <2>5 DEF Covers
  <2> HIDE DEF A, S, V, s, P, R
  <2>7. V \in Nat /\ V + s + n + 1 \in Nat
    BY <1>4, <1>5 DEF V
  <2>8. Covers(u, V + s + n + 1, R)
    BY <1>2, <1>4, <2>1, <2>6, <2>7 DEF Fair
  <2>9. VaultShares(u) + (n + 1) = V + s + n + 1
    BY <1>4, <2>1, <2>7 DEF V
  <2> QED BY <1>4, <1>7, <2>8, <2>9 DEF u, y, R
<1> QED BY <1>6, <1>7

(* After a withdrawal of x to c *)
LEMMA WithdrawKeeps ==
  ASSUME NEW t, NEW q, NEW k, WorldOK(t, q, k), NEW p \in PstStorage, NEW x \in Nat,
         x <= p.totalSupply, NEW n \in Nat, NEW c \in Accounts,
         Covers(t, VaultShares(t) + n, p.totalSupply),
         CanTransfer(StripYield(t, p), Pst, SharesPaid(t, p, x))
  PROVE  LET s == SharesPaid(t, p, x)
             u == TransferShares(StripYield(t, p), Pst, c, s)
         IN  /\ s \in Nat /\ WorldOK(StripYield(t, p), q, k)
             /\ WorldOK(u, q, k) /\ VaultOK(u)
             /\ Covers(u, VaultShares(u) + (IF Strips(t, p) THEN 0 ELSE n),
                       p.totalSupply - x)
<1> DEFINE y == StripYield(t, p)
           s == SharesPaid(t, p, x)
           u == TransferShares(y, Pst, c, s)
           m == IF Strips(t, p) THEN 0 ELSE n
           A == TotalAssets(y)
           S == y.totalSupply
           V == VaultShares(y)
           P == p.totalSupply
<1>1. /\ WorldOK(y, q, k) /\ VaultOK(y) /\ AtPar(y)
  BY StripOK DEF WorldOK
<1>2. Covers(y, V + m, P)
  BY StripKeeps
<1>3. s = ConvertToShares(y, x)
  BY DEF SharesPaid
<1> HIDE DEF y
<1>4. A \in Nat \ {0} /\ S \in Nat \ {0} /\ V \in Nat /\ P \in Nat /\ m \in Nat /\ x <= P
  BY <1>1, SharesOfPst, Market, PstFields
<1>5. s \in Nat /\ s * A <= x * S
  BY <1>1, <1>3, <1>4, SharesRounded
<1>6. s <= V
  BY <1>1, <1>4, <1>5, SharesOfPst DEF CanTransfer, y
<1> HIDE DEF s, m
<1>7. /\ WorldOK(u, q, k) /\ TotalAssets(u) = A /\ u.totalSupply = S
      /\ VaultShares(u) >= V - s
  BY <1>1, <1>5, <1>6, PstSends
<1>8. VaultOK(u)
  BY <1>7 DEF WorldOK
<1> HIDE DEF u
<1>9. (V + m) * A >= P * S
  BY <1>2 DEF Covers
<1>10. (V - s + m) * A >= (P - x) * S
  <2> HIDE DEF A, S, V, P
  <2>1. /\ (V + m) * A \in Nat /\ P * S \in Nat /\ s * A \in Nat /\ x * S \in Nat
        /\ (V - s + m) * A = (V + m) * A - s * A
        /\ (P - x) * S = P * S - x * S
    BY <1>4, <1>5
  <2> QED BY <1>5, <1>9, <2>1
<1>11. Covers(u, V - s + m, P - x)
  BY <1>7, <1>10 DEF Covers
<1> HIDE DEF V, P, A, S
<1>12. /\ VaultShares(u) \in Nat /\ V - s + m \in Nat /\ P - x \in Nat
       /\ V - s + m <= VaultShares(u) + m /\ VaultShares(u) + m \in Nat
  <2>1. VaultShares(u) \in Nat
    BY <1>8, SharesOfPst
  <2> QED BY <1>4, <1>5, <1>6, <1>7, <2>1
<1>13. Covers(u, VaultShares(u) + m, P - x)
  BY <1>8, <1>11, <1>12, CoversMore
<1> QED BY <1>1, <1>5, <1>7, <1>8, <1>13 DEF u, y, s, m, P

-----------------------------------------------------------------------------
(* The storage of TokenpstAVAX *)

(* The sum of the balances of pstAVAX after one of them changes *)
LEMMA SumOfPst ==
  ASSUME NEW b \in [PstHolders -> Nat], NEW a \in PstHolders, NEW v \in Nat
  PROVE  /\ SumFunctionOnSet(b, PstHolders) \in Nat
         /\ b[a] <= SumFunctionOnSet(b, PstHolders)
         /\ SumFunctionOnSet([b EXCEPT ![a] = v], PstHolders)
              = SumFunctionOnSet(b, PstHolders) - b[a] + v
<1> DEFINE h == [b EXCEPT ![a] = v]
<1>1. IsFiniteSet(PstHolders)
  BY PstFacts
<1>2. /\ \A x \in PstHolders : b[x] \in Int /\ b[x] \in Nat /\ h[x] \in Int
      /\ \A x \in PstHolders \ {a} : h[x] = b[x]
      /\ h[a] = v
  OBVIOUS
<1>3. SumFunctionOnSet(b, PstHolders) \in Nat
  BY <1>1, <1>2, SumType
<1>4. b[a] <= SumFunctionOnSet(b, PstHolders)
  BY <1>1, SumBoundsPart
<1> HIDE DEF h
<1>5. SumFunctionOnSet(h, PstHolders) = SumFunctionOnSet(b, PstHolders) - b[a] + h[a]
  BY <1>1, <1>2, SumUpdate
<1> QED BY <1>2, <1>3, <1>4, <1>5 DEF h

(* pstAVAX are what their holders have: minted, burnt, or moved from one to *)
(* another.                                                                 *)
LEMMA MintPstOK ==
  ASSUME NEW p, PstOK(p), NEW o \in PstHolders, NEW x \in Nat
  PROVE  LET r == MintPst(p, o, x)
         IN  PstOK(r) /\ r \in PstStorage /\ r.totalSupply = p.totalSupply + x
<1> DEFINE b == [p.balanceOf EXCEPT ![o] = p.balanceOf[o] + x]
           r == MintPst(p, o, x)
<1>1. /\ p \in PstStorage /\ p.totalSupply \in Nat /\ p.balanceOf \in [PstHolders -> Nat]
      /\ p.totalSupply = SumFunctionOnSet(p.balanceOf, PstHolders)
      /\ p.balanceOf[o] \in Nat
  BY PstFields DEF PstOK
<1>2. b \in [PstHolders -> Nat] /\ p.totalSupply + x \in Nat
  BY <1>1
<1>3. r = [p EXCEPT !.totalSupply = p.totalSupply + x, !.balanceOf = b]
  BY <1>1 DEF MintPst, PstStorage
<1>4. SumFunctionOnSet(b, PstHolders) = p.totalSupply + x
  <2>1. SumFunctionOnSet(b, PstHolders)
          = SumFunctionOnSet(p.balanceOf, PstHolders) - p.balanceOf[o] + (p.balanceOf[o] + x)
    BY <1>1, SumOfPst
  <2> QED BY <1>1, <2>1
<1> HIDE DEF b, r
<1>5. r \in PstStorage /\ r.totalSupply = p.totalSupply + x /\ r.balanceOf = b
  BY <1>1, <1>2, <1>3 DEF PstStorage
<1>6. PstOK(r)
  BY <1>4, <1>5 DEF PstOK
<1> QED BY <1>5, <1>6 DEF r

(* A burn takes no more than there is. *)
LEMMA BurnPstOK ==
  ASSUME NEW p, PstOK(p), NEW o \in PstHolders, NEW x \in Nat, p.balanceOf[o] >= x
  PROVE  LET r == BurnPst(p, o, x)
         IN  PstOK(r) /\ x <= p.totalSupply /\ r.totalSupply = p.totalSupply - x
<1> DEFINE b == [p.balanceOf EXCEPT ![o] = p.balanceOf[o] - x]
           r == BurnPst(p, o, x)
<1>1. /\ p \in PstStorage /\ p.totalSupply \in Nat /\ p.balanceOf \in [PstHolders -> Nat]
      /\ p.totalSupply = SumFunctionOnSet(p.balanceOf, PstHolders)
      /\ p.balanceOf[o] \in Nat /\ p.balanceOf[o] - x \in Nat
  BY PstFields DEF PstOK
<1>2. b \in [PstHolders -> Nat]
  BY <1>1
<1>3. r = [p EXCEPT !.totalSupply = p.totalSupply - x, !.balanceOf = b]
  BY <1>1 DEF BurnPst, PstStorage
<1>4. SumFunctionOnSet(b, PstHolders) = p.totalSupply - x /\ p.balanceOf[o] <= p.totalSupply
  <2>1. /\ SumFunctionOnSet(b, PstHolders)
             = SumFunctionOnSet(p.balanceOf, PstHolders) - p.balanceOf[o] + (p.balanceOf[o] - x)
        /\ p.balanceOf[o] <= SumFunctionOnSet(p.balanceOf, PstHolders)
    BY <1>1, SumOfPst
  <2> QED BY <1>1, <2>1
<1>5. x <= p.totalSupply /\ p.totalSupply - x \in Nat
  BY <1>1, <1>4
<1> HIDE DEF b, r
<1>6. r \in PstStorage /\ r.totalSupply = p.totalSupply - x /\ r.balanceOf = b
  BY <1>1, <1>2, <1>3, <1>5 DEF PstStorage
<1> QED BY <1>4, <1>5, <1>6 DEF PstOK, r

(* transfer *)
LEMMA MovePstOK ==
  ASSUME NEW p, PstOK(p), NEW a \in PstHolders, NEW c \in PstHolders, NEW x \in Nat,
         p.balanceOf[a] >= x
  PROVE  LET r == [p EXCEPT !.balanceOf = Move(@, a, c, x)]
         IN  PstOK(r) /\ r.totalSupply = p.totalSupply
<1> DEFINE d == [p.balanceOf EXCEPT ![a] = p.balanceOf[a] - x]
           b == [d EXCEPT ![c] = d[c] + x]
           r == [p EXCEPT !.balanceOf = Move(@, a, c, x)]
<1>1. /\ p \in PstStorage /\ p.totalSupply \in Nat /\ p.balanceOf \in [PstHolders -> Nat]
      /\ p.totalSupply = SumFunctionOnSet(p.balanceOf, PstHolders)
      /\ p.balanceOf[a] \in Nat /\ p.balanceOf[a] - x \in Nat
  BY PstFields DEF PstOK
<1>2. d \in [PstHolders -> Nat] /\ d[c] \in Nat /\ d[c] + x \in Nat
  BY <1>1
<1>3. SumFunctionOnSet(d, PstHolders) = p.totalSupply - x
  <2>1. SumFunctionOnSet(d, PstHolders)
          = SumFunctionOnSet(p.balanceOf, PstHolders) - p.balanceOf[a] + (p.balanceOf[a] - x)
    BY <1>1, SumOfPst
  <2> QED BY <1>1, <2>1
<1>4. r = [p EXCEPT !.balanceOf = b]
  BY <1>1 DEF Move, PstStorage
<1> HIDE DEF d
<1>5. b \in [PstHolders -> Nat]
  BY <1>2
<1>6. SumFunctionOnSet(b, PstHolders) = p.totalSupply
  <2>1. SumFunctionOnSet(b, PstHolders)
          = SumFunctionOnSet(d, PstHolders) - d[c] + (d[c] + x)
    BY <1>2, SumOfPst
  <2>2. SumFunctionOnSet(b, PstHolders) = p.totalSupply - x - d[c] + (d[c] + x)
    BY <1>3, <2>1
  <2> HIDE DEF b
  <2> QED BY <1>1, <1>2, <2>2
<1> HIDE DEF b, r
<1>7. r \in PstStorage /\ r.totalSupply = p.totalSupply /\ r.balanceOf = b
  BY <1>1, <1>4, <1>5 DEF PstStorage
<1> QED BY <1>6, <1>7 DEF PstOK, r

(* What the owner sets leaves pstAVAX alone. *)
LEMMA PstSettingOK ==
  ASSUME NEW p, PstOK(p), NEW r, r \in PstStorage, r.totalSupply = p.totalSupply,
         r.balanceOf = p.balanceOf
  PROVE  PstOK(r)
BY DEF PstOK

-----------------------------------------------------------------------------
(* The price of ggAVAX through the transactions of the token *)

(* A strip burns shares and leaves the AVAX. *)
LEMMA StripDearer ==
  ASSUME NEW t, NEW q, NEW k, WorldOK(t, q, k), NEW p \in PstStorage
  PROVE  Dearer(t, StripYield(t, p))
<1> DEFINE u == StripYield(t, p)
           A == TotalAssets(t)
           S == t.totalSupply
           R == u.totalSupply
           b == BurnShare(t, p)
<1>1. VaultOK(t) /\ VaultOK(u) /\ TotalAssets(u) = A /\ R = S - b /\ b \in Nat
  BY StripOK, ExcessFacts DEF Stripped, WorldOK
<1> HIDE DEF u
<1>2. A \in Nat /\ S \in Nat /\ R \in Nat
  BY <1>1, SharesOfPst
<1> HIDE DEF b
<1>3. ASSUME NEW n \in Nat, NEW m \in Nat, Covers(t, n, m) PROVE Covers(u, n, m)
  <2>1. n * A >= m * S
    BY <1>3 DEF Covers
  <2> HIDE DEF A, S, R
  <2>2. R <= S
    BY <1>1, <1>2
  <2>3. m * R <= m * S
    BY <1>2, <2>2, ProductMonotone
  <2>4. n * A \in Nat /\ m * S \in Nat /\ m * R \in Nat
    BY <1>2
  <2>5. n * A >= m * R
    BY <2>1, <2>3, <2>4
  <2> QED BY <1>1, <2>5 DEF Covers, R
<1> QED BY <1>3 DEF Dearer, u

(* A deposit, after its strip *)
LEMMA DepositDearer ==
  ASSUME NEW t, NEW q, NEW k, WorldOK(t, q, k), NEW r \in PstStorage, NEW x \in Nat,
         CanDepositAVAX(StripYield(t, r), x)
  PROVE  Dearer(t, DepositAVAX(StripYield(t, r), Pst, x))
<1> DEFINE y == StripYield(t, r)
<1>1. WorldOK(y, q, k) /\ Dearer(t, y)
  BY StripOK, StripDearer
<1> HIDE DEF y
<1>2. Dearer(y, DepositAVAX(y, Pst, x))
  BY <1>1, PstDeposits DEF Fair, Dearer, y
<1> QED BY <1>1, <1>2, DearerTwice DEF y

(* A withdrawal, after its strip *)
LEMMA WithdrawDearer ==
  ASSUME NEW t, NEW q, NEW k, WorldOK(t, q, k), NEW p \in PstStorage, NEW s \in Nat,
         CanTransfer(StripYield(t, p), Pst, s), NEW c \in Accounts
  PROVE  Dearer(t, TransferShares(StripYield(t, p), Pst, c, s))
<1> DEFINE y == StripYield(t, p)
           u == TransferShares(y, Pst, c, s)
<1>1. WorldOK(y, q, k) /\ VaultOK(y) /\ Dearer(t, y)
  BY StripOK, StripDearer
<1> HIDE DEF y
<1>2. s <= VaultShares(y)
  BY <1>1, SharesOfPst DEF CanTransfer, y
<1>3. VaultOK(u) /\ PriceKept(y, u)
  BY <1>1, <1>2, PstSends DEF WorldOK
<1>4. Dearer(y, u)
  BY <1>1, <1>3, DearerPrice
<1> QED BY <1>1, <1>4, DearerTwice DEF y, u

-----------------------------------------------------------------------------
(* Steps of the token *)

(* The inductive invariant: what the queue keeps, a copy under way that     *)
(* takes nothing from the contract, and the principal covered              *)
PstInv == QueueInv /\ FairCopy /\ PstOK(pst) /\ unstripped \in Nat /\ PrincipalCovered

(* A step keeps it, lowers no price, and does to the requests of the queue  *)
(* what UnstakePromise lets be done to them.                               *)
PstKept == PstInv' /\ PriceStep /\ Effect(queue, ledger, queue', ledger')

(* What is said of the price holds of a step to u.  The supply of now, at   *)
(* its price, is worth the assets of now.                                   *)
LEMMA DearerStep ==
  ASSUME VaultOK(token), NEW STATE u, VaultOK(u), Dearer(token, u),
         token' = u, now' = now
  PROVE  PriceStep
<1> DEFINE A == TotalAssets(token)
           S == token.totalSupply
<1>1. A \in Nat /\ S \in Nat
  BY SharesOfPst
<1>2. TotalAssets(token)' = TotalAssets(u)
  BY DEF TotalAssets
<1>3. Covers(token, S, A)
  <2>1. S * A >= A * S
    <3> HIDE DEF A, S
    <3> QED BY <1>1
  <2> QED BY <2>1 DEF Covers
<1> HIDE DEF A, S
<1>4. Covers(u, S, A)
  BY <1>1, <1>3 DEF Dearer
<1>5. S * TotalAssets(u) >= A * u.totalSupply
  BY <1>4 DEF Covers
<1>6. TotalAssets(u) * S >= A * u.totalSupply
  <2>1. TotalAssets(u) \in Nat
    BY SharesOfPst
  <2> QED BY <1>1, <1>5, <2>1
<1> QED BY <1>2, <1>6 DEF PriceStep, A, S

(* A transaction of the token goes from a world the queue accepts to u. *)
LEMMA PstLands ==
  ASSUME PstInv, Kept, NEW STATE u, NEW STATE n, VaultOK(u), Dearer(token, u),
         token' = u, now' = now, tx' = Idle,
         PstOK(pst'), n \in Nat, unstripped' = n,
         Covers(u, VaultShares(u) + n, pst'.totalSupply)
  PROVE  PstKept
<1>1. TotalAssets(token)' = TotalAssets(u)
  BY DEF TotalAssets
<1>2. Covers(token, VaultShares(token) + unstripped, pst.totalSupply)'
        <=> Covers(u, VaultShares(u) + n, pst'.totalSupply)
  BY <1>1 DEF Covers, VaultShares
<1>3. PrincipalCovered'
  BY <1>2 DEF PrincipalCovered
<1>4. PstOK(pst)'
  BY DEF PstOK
<1>5. FairCopy'
  BY DEF FairCopy
<1>6. PriceStep
  BY DearerStep DEF PstInv, QueueInv, WorldOK
<1> QED BY <1>3, <1>4, <1>5, <1>6 DEF PstInv, PstKept, Kept

(* A transaction of the token that asks nothing of the queue *)
LEMMA PstAside ==
  ASSUME QueueInv, NEW STATE u, WorldOK(u, queue, ledger.promised),
         token' = u, UNCHANGED <<queue, ledger>>, InOneStep
  PROVE  Kept /\ now' = now /\ tx' = Idle
<1>1. queue' = queue /\ ledger' = ledger /\ now' = now /\ tx' = Idle
  BY DEF InOneStep
<1>2. GivesBack(queue, queue)
  BY NothingGivesBack
<1> QED BY <1>1, <1>2, Quietly

(* deposit and depositAVAX *)
LEMMA DepositPstOK ==
  ASSUME PstInv, NEW o \in PstHolders, NEW x \in PstAmounts, DepositPstTx(o, x)
  PROVE  PstKept
<1> DEFINE r == MintPst(pst, o, x)
           u == DepositAVAX(StripYield(token, r), Pst, x)
           n == IF Strips(token, r) THEN 0 ELSE unstripped + 1
<1>1. /\ WorldOK(token, queue, ledger.promised) /\ QueueInv /\ PstOK(pst)
      /\ pst \in PstStorage /\ unstripped \in Nat /\ x \in Nat /\ n \in Nat
      /\ Covers(token, VaultShares(token) + unstripped, pst.totalSupply)
  BY PstFacts DEF PstInv, QueueInv, PstOK, PrincipalCovered
<1>2. /\ CanDepositAVAX(StripYield(token, r), x) /\ token' = u /\ pst' = r
      /\ unstripped' = n /\ UNCHANGED <<queue, ledger>> /\ InOneStep
  BY DEF DepositPstTx, CanDepositPst, DepositPst, VaultBeforeDeposit
<1>3. PstOK(r) /\ r \in PstStorage /\ r.totalSupply = pst.totalSupply + x
  BY <1>1, MintPstOK
<1> HIDE DEF r
<1>4. /\ WorldOK(u, queue, ledger.promised) /\ VaultOK(u)
      /\ Covers(u, VaultShares(u) + n, r.totalSupply)
  BY <1>1, <1>2, <1>3, DepositKeeps
<1>5. Dearer(token, u)
  BY <1>1, <1>2, <1>3, DepositDearer
<1> HIDE DEF u, n
<1>6. Kept /\ now' = now /\ tx' = Idle
  BY <1>1, <1>2, <1>4, PstAside
<1> QED BY <1>1, <1>2, <1>3, <1>4, <1>5, <1>6, PstLands

(* What both withdrawals do to the token: the shares go to c, pstAVAX burn. *)
LEMMA WithdrawPstOK ==
  ASSUME PstInv, NEW o \in PstHolders, NEW x \in PstAmounts, NEW c \in Accounts,
         CanWithdrawPst(token, pst, o, x)
  PROVE  LET s == SharesPaid(token, pst, x)
             y == StripYield(token, pst)
             u == TransferShares(y, Pst, c, s)
             r == BurnPst(pst, o, x)
             n == IF Strips(token, pst) THEN 0 ELSE unstripped
         IN  /\ s \in Nat /\ WorldOK(y, queue, ledger.promised)
             /\ WorldOK(u, queue, ledger.promised) /\ VaultOK(u) /\ Dearer(token, u)
             /\ PstOK(r) /\ n \in Nat
             /\ Covers(u, VaultShares(u) + n, r.totalSupply)
<1> DEFINE s == SharesPaid(token, pst, x)
           y == StripYield(token, pst)
           u == TransferShares(y, Pst, c, s)
           r == BurnPst(pst, o, x)
           n == IF Strips(token, pst) THEN 0 ELSE unstripped
<1>1. /\ WorldOK(token, queue, ledger.promised) /\ PstOK(pst)
      /\ pst \in PstStorage /\ unstripped \in Nat /\ x \in Nat /\ n \in Nat
      /\ Covers(token, VaultShares(token) + unstripped, pst.totalSupply)
  BY PstFacts DEF PstInv, QueueInv, PstOK, PrincipalCovered
<1>2. pst.balanceOf[o] >= x /\ CanTransfer(y, Pst, s)
  BY DEF CanWithdrawPst
<1>3. PstOK(r) /\ x <= pst.totalSupply /\ r.totalSupply = pst.totalSupply - x
  BY <1>1, <1>2, BurnPstOK
<1>4. /\ s \in Nat /\ WorldOK(y, queue, ledger.promised)
      /\ WorldOK(u, queue, ledger.promised) /\ VaultOK(u)
      /\ Covers(u, VaultShares(u) + n, pst.totalSupply - x)
  BY <1>1, <1>2, <1>3, WithdrawKeeps
<1>5. Dearer(token, u)
  BY <1>1, <1>2, <1>4, WithdrawDearer
<1> QED BY <1>1, <1>3, <1>4, <1>5

(* withdraw *)
LEMMA WithdrawPstTxOK ==
  ASSUME PstInv, NEW o \in PstHolders, NEW x \in PstAmounts, WithdrawPstTx(o, x)
  PROVE  PstKept
<1> DEFINE u == TransferShares(StripYield(token, pst), Pst, o, SharesPaid(token, pst, x))
           r == BurnPst(pst, o, x)
           n == IF Strips(token, pst) THEN 0 ELSE unstripped
<1>1. /\ CanWithdrawPst(token, pst, o, x) /\ token' = u /\ pst' = r
      /\ unstripped' = n /\ UNCHANGED <<queue, ledger>> /\ InOneStep
  BY DEF WithdrawPstTx, WithdrawPst
<1>2. QueueInv /\ o \in Accounts
  BY PstFacts DEF PstInv
<1>3. /\ WorldOK(u, queue, ledger.promised) /\ VaultOK(u) /\ Dearer(token, u)
      /\ PstOK(r) /\ n \in Nat
      /\ Covers(u, VaultShares(u) + n, r.totalSupply)
  BY <1>1, <1>2, WithdrawPstOK
<1> HIDE DEF u, r, n
<1>4. Kept /\ now' = now /\ tx' = Idle
  BY <1>1, <1>2, <1>3, PstAside
<1> QED BY <1>1, <1>3, <1>4, PstLands

(* withdrawViaQueue: the queue accepts the request from the world after the *)
(* strip, and the ledger writes down what it was promised.                  *)
LEMMA WithdrawViaQueueOK ==
  ASSUME PstInv, NEW o \in PstHolders, NEW x \in PstAmounts, NEW delay \in ExpirationDelays,
         WithdrawViaQueueTx(o, x, delay)
  PROVE  PstKept
<1> DEFINE i == queue.nextRequestId
           k == ledger.promised
           y == StripYield(token, pst)
           s == SharesPaid(token, pst, x)
           u == TransferShares(y, Pst, Queue, s)
           w == RequestUnstake(World(y, queue), Pst, o, s, delay)
           e == w.queue.requests[i].expectedAssets
           k2 == [k EXCEPT ![i] = e]
           m == [ledger EXCEPT !.promised = k2]
           r == BurnPst(pst, o, x)
           n == IF Strips(token, pst) THEN 0 ELSE unstripped
<1>1. /\ i < MaxRequests /\ CanWithdrawPst(token, pst, o, x)
      /\ CanRequestUnstake(World(y, queue), Pst, s, delay)
      /\ token' = w.token /\ queue' = w.queue
      /\ ledger' = [ledger EXCEPT !.promised[i] = e]
      /\ pst' = r /\ unstripped' = n /\ now' = now /\ tx' = Idle
  BY DEF WithdrawViaQueueTx, Becomes, Requested, InOneStep
<1>2. /\ QueueInv /\ o \in Accounts /\ Pst \in Accounts \ {Self, Queue} /\ Queue \in Accounts
      /\ ledger \in Ledger /\ k \in [Ids -> Nat] /\ queue \in QueueStorage /\ delay \in Nat
  BY PstFacts, QueueFacts, LedgerFields DEF PstInv, QueueInv, LedgerOK, WorldOK, QueueOK
<1>3. w.token = u
  BY DEF RequestUnstake, World
<1>4. /\ s \in Nat /\ WorldOK(y, queue, k) /\ VaultOK(u) /\ Dearer(token, u)
      /\ PstOK(r) /\ n \in Nat
      /\ Covers(u, VaultShares(u) + n, r.totalSupply)
  BY <1>1, <1>2, WithdrawPstOK
<1>5. s # 0
  BY <1>1 DEF CanRequestUnstake
<1>6. i \in Ids
  <2>1. i \in Nat /\ MaxRequests \in Nat
    BY <1>2, QueueFields, QueueFacts
  <2> QED BY <1>1, <2>1 DEF Ids
<1> HIDE DEF y, s, r, n
<1>7. /\ WorldOK(w.token, w.queue, k2)
      /\ e \in Nat \ {0} /\ i \notin Live(queue)
      /\ w.queue.nextRequestId = i + 1
      /\ w.queue.pendingRequests = queue.pendingRequests \cup {i}
      /\ w.queue.fulfilledRequests = queue.fulfilledRequests
  BY <1>1, <1>2, <1>4, <1>5, <1>6, RequestOK
<1>8. ledger' = m
  BY <1>1, <1>2 DEF Ledger
<1> HIDE DEF w, e, k2, i, u
<1>9. m.promised = k2
  BY <1>2 DEF Ledger
<1>10. Effect(queue, ledger, w.queue, m)
  <2>1. Asks(queue, ledger, w.queue, m, i)
    BY <1>7 DEF Asks, k2, i
  <2> QED BY <1>6, <2>1 DEF Effect
<1> HIDE DEF m
<1>11. WorldOK(w.token, w.queue, m.promised)
  BY <1>7, <1>9
<1>12. Kept
  BY <1>1, <1>2, <1>8, <1>10, <1>11, Lands DEF Kept
<1>13. token' = u
  BY <1>1, <1>3
<1> QED BY <1>1, <1>4, <1>12, <1>13, PstLands

(* stripYield *)
LEMMA StripYieldTxOK ==
  ASSUME PstInv, StripYieldTx
  PROVE  PstKept
<1> DEFINE u == StripYield(token, pst)
<1>1. /\ Strips(token, pst) /\ token' = u /\ unstripped' = 0 /\ pst' = pst
      /\ UNCHANGED <<queue, ledger>> /\ InOneStep
  BY DEF StripYieldTx
<1>2. /\ QueueInv /\ WorldOK(token, queue, ledger.promised) /\ VaultOK(token)
      /\ PstOK(pst) /\ pst \in PstStorage
  BY DEF PstInv, QueueInv, PstOK, WorldOK
<1>3. /\ WorldOK(u, queue, ledger.promised) /\ VaultOK(u) /\ Stripped(token, pst, u)
      /\ Dearer(token, u)
  BY <1>2, StripOK, StripDearer
<1> HIDE DEF u
<1>4. Covers(u, VaultShares(u), pst.totalSupply)
  BY <1>1, <1>2, <1>3, StripCovers
<1>5. VaultShares(u) + 0 = VaultShares(u)
  BY <1>3, SharesOfPst
<1>6. Kept /\ now' = now /\ tx' = Idle
  BY <1>1, <1>2, <1>3, PstAside
<1>7. Covers(u, VaultShares(u) + 0, pst'.totalSupply) /\ PstOK(pst') /\ 0 \in Nat
  BY <1>1, <1>2, <1>4, <1>5
<1> QED BY <1>1, <1>3, <1>6, <1>7, PstLands

(* What moves pstAVAX among their holders, or sets a fee or the pause *)
LEMMA PstOnlyOK ==
  ASSUME PstInv, PstOK(pst'), pst'.totalSupply = pst.totalSupply,
         UNCHANGED <<token, queue, ledger, unstripped>>, InOneStep
  PROVE  PstKept
<1>1. /\ token' = token /\ unstripped' = unstripped /\ now' = now /\ tx' = Idle
      /\ UNCHANGED <<queue, ledger>>
  BY DEF InOneStep
<1>2. /\ QueueInv /\ WorldOK(token, queue, ledger.promised) /\ VaultOK(token)
      /\ unstripped \in Nat
      /\ Covers(token, VaultShares(token) + unstripped, pst'.totalSupply)
  BY DEF PstInv, QueueInv, WorldOK, PrincipalCovered
<1>3. Dearer(token, token)
  BY DEF Dearer
<1>4. Kept
  BY <1>1, <1>2, PstAside
<1> QED BY <1>1, <1>2, <1>3, <1>4, PstLands

(* A step of the queue, or of the vault: it is fair to the contract, so the *)
(* principal stays covered by what its shares were, and these are no fewer. *)
LEMMA QueueStepOK ==
  ASSUME PstInv, QueueNext, UNCHANGED <<pst, unstripped>>
  PROVE  PstKept
<1> DEFINE A == TotalAssets(token)
           S == token.totalSupply
           B == TotalAssets(token)'
           R == token.totalSupply'
           V == token.balanceOf[Pst]
           W == token.balanceOf[Pst]'
           P == pst.totalSupply
           n == unstripped
<1>1. /\ QueueInv /\ FairCopy /\ VaultOK(token) /\ n \in Nat /\ PstOK(pst) /\ P \in Nat
  BY PstFields DEF PstInv, QueueInv, WorldOK, PstOK
<1>2. QueueInv' /\ VaultOK(token)' /\ Effect(queue, ledger, queue', ledger')
  BY <1>1, QueueNextOK DEF Kept, QueueInv, WorldOK
<1>3. FairStep /\ FairCopy'
  BY <1>1, QueueNextFair DEF Fairly
<1>4. A \in Nat /\ S \in Nat \ {0} /\ V \in Nat
  BY <1>1, PstTypes
<1>5. B \in Nat /\ R \in Nat \ {0} /\ W \in Nat
  <2>1. (VaultOK(token) => /\ TotalAssets(token) \in Nat /\ token.totalSupply \in Nat \ {0}
                           /\ token.balanceOf[Pst] \in Nat)'
    BY PstTypes, PTL
  <2> QED BY <1>2, <2>1
<1>6. \A i, j \in Nat : i * A >= j * S => i * B >= j * R
  BY <1>3 DEF FairStep, Covers
<1>7. W >= V
  BY <1>3 DEF FairStep
<1>8. (V + n) * A >= P * S
  BY DEF PstInv, PrincipalCovered, Covers, VaultShares
<1>9. P' = P /\ n' = n /\ PstOK(pst)'
  BY <1>1 DEF PstOK
<1> HIDE DEF A, S, B, R, V, W, P, n
<1>10. (W + n) * B >= P * R
  <2>1. (V + n) * B >= P * R
    BY <1>1, <1>4, <1>6, <1>8
  <2>2. V + n \in Nat /\ W + n \in Nat /\ V + n <= W + n
    BY <1>1, <1>4, <1>5, <1>7
  <2>3. (V + n) * B <= (W + n) * B
    BY <1>5, <2>2, ProductMonotone
  <2>4. (V + n) * B \in Nat /\ (W + n) * B \in Nat /\ P * R \in Nat
    BY <1>1, <1>5, <2>2
  <2> QED BY <2>1, <2>3, <2>4
<1>11. PrincipalCovered'
  BY <1>9, <1>10 DEF PrincipalCovered, Covers, VaultShares, W, n, B, P, R
<1>12. B * S >= A * R
  <2>1. S * A >= A * S
    BY <1>4
  <2>2. S * B >= A * R
    BY <1>4, <1>6, <2>1
  <2> QED BY <1>4, <1>5, <2>2
<1>13. PriceStep
  BY <1>12 DEF PriceStep, A, B, R, S
<1> QED BY <1>1, <1>2, <1>3, <1>9, <1>11, <1>13 DEF PstInv, PstKept, n

(* transfer *)
LEMMA TransferPstOK ==
  ASSUME PstInv, NEW a \in PstHolders, NEW c \in PstHolders, NEW x \in PstAmounts,
         TransferPstTx(a, c, x)
  PROVE  PstKept
<1>1. PstOK(pst) /\ x \in Nat
  BY PstFacts DEF PstInv
<1>2. PstOK(pst') /\ pst'.totalSupply = pst.totalSupply
  BY <1>1, MovePstOK DEF TransferPstTx
<1> QED BY <1>2, PstOnlyOK DEF TransferPstTx

(* setStripYieldFeeBips, setStripYieldFeeRecipient, pause and unpause *)
LEMMA PstOwnerOK ==
  ASSUME PstInv, PstOwnerNext
  PROVE  PstKept
<1>1. PstOK(pst) /\ pst \in PstStorage
  BY DEF PstInv, PstOK
<1>2. ASSUME NEW b \in StripFees, SetStripYieldFeeBipsTx(b) PROVE PstKept
  <2>1. b \in 0..Bips
    BY PstFacts
  <2>2. /\ pst' \in PstStorage /\ pst'.totalSupply = pst.totalSupply
        /\ pst'.balanceOf = pst.balanceOf
    BY <1>1, <1>2, <2>1 DEF SetStripYieldFeeBipsTx, PstStorage
  <2> QED BY <1>1, <1>2, <2>2, PstSettingOK, PstOnlyOK DEF SetStripYieldFeeBipsTx
<1>3. ASSUME NEW a \in FeeRecipients, SetStripYieldFeeRecipientTx(a) PROVE PstKept
  <2>1. a \in Owners
    BY PstFacts
  <2>2. /\ pst' \in PstStorage /\ pst'.totalSupply = pst.totalSupply
        /\ pst'.balanceOf = pst.balanceOf
    BY <1>1, <1>3, <2>1 DEF SetStripYieldFeeRecipientTx, PstStorage
  <2> QED BY <1>1, <1>3, <2>2, PstSettingOK, PstOnlyOK DEF SetStripYieldFeeRecipientTx
<1>4. ASSUME NEW b \in PstPauses, SetPstPausedTx(b) PROVE PstKept
  <2>1. b \in BOOLEAN
    BY PstFacts
  <2>2. /\ pst' \in PstStorage /\ pst'.totalSupply = pst.totalSupply
        /\ pst'.balanceOf = pst.balanceOf
    BY <1>1, <1>4, <2>1 DEF SetPstPausedTx, PstStorage
  <2> QED BY <1>1, <1>4, <2>2, PstSettingOK, PstOnlyOK DEF SetPstPausedTx
<1> QED BY <1>2, <1>3, <1>4 DEF PstOwnerNext

(* Every step of the token, the queue and the vault *)
LEMMA PstNextOK ==
  ASSUME PstInv, PstNext
  PROVE  PstKept
<1>1. CASE QueueNext /\ UNCHANGED <<pst, unstripped>>
  BY <1>1, QueueStepOK
<1>2. CASE PstHolderNext
  <2>1. PICK o \in PstHolders, x \in PstAmounts :
          \/ DepositPstTx(o, x) \/ WithdrawPstTx(o, x)
          \/ \E d \in ExpirationDelays : WithdrawViaQueueTx(o, x, d)
          \/ \E to \in PstHolders \ {o} : TransferPstTx(o, to, x)
    BY <1>2 DEF PstHolderNext
  <2> QED BY <2>1, DepositPstOK, WithdrawPstTxOK, WithdrawViaQueueOK, TransferPstOK
<1>3. CASE PstOwnerNext
  BY <1>3, PstOwnerOK
<1>4. CASE StripYieldTx
  BY <1>4, StripYieldTxOK
<1> QED BY <1>1, <1>2, <1>3, <1>4 DEF PstNext

(* A step that changes nothing *)
LEMMA PstStutters ==
  ASSUME PstInv, UNCHANGED pstVars
  PROVE  PstInv'
<1>1. UNCHANGED <<now, token, queue, tx, ledger, pst, unstripped>> /\ UNCHANGED queueVars
  BY DEF pstVars, queueVars
<1>2. QueueInv'
  BY <1>1, QueueStutters DEF PstInv
<1>3. TotalAssets(token)' = TotalAssets(token) /\ TotalAssets(tx.token)' = TotalAssets(tx.token)
  BY <1>1 DEF TotalAssets
<1>4. /\ \A n, p \in Nat : /\ Covers(token, n, p)' <=> Covers(token, n, p)
                           /\ Covers(tx.token, n, p)' <=> Covers(tx.token, n, p)
      /\ PrincipalCovered' <=> PrincipalCovered
  BY <1>1, <1>3 DEF Covers, PrincipalCovered, VaultShares
<1>5. FairCopy' <=> FairCopy
  BY <1>1, <1>4 DEF FairCopy, Fair
<1>6. PstOK(pst)'
  BY <1>1 DEF PstInv, PstOK
<1> QED BY <1>1, <1>2, <1>4, <1>5, <1>6 DEF PstInv

(* The token starts with nothing *)
LEMMA PstInitOK == PstInit => PstInv
<1> SUFFICES ASSUME PstInit PROVE PstInv
  OBVIOUS
<1> DEFINE b == [o \in PstHolders |-> 0]
<1>1. QueueInv /\ VaultOK(token)
  BY QueueInitOK DEF PstInit, QueueInv, WorldOK
<1>2. FairCopy
  BY DEF PstInit, QueueInit, FairCopy
<1>3. /\ pst = [totalSupply |-> 0, balanceOf |-> b, stripYieldFeeBips |-> 0,
                stripYieldFeeRecipient |-> NoAddress, paused |-> FALSE]
      /\ unstripped = 0
  BY DEF PstInit
<1>4. SumFunctionOnSet(b, PstHolders) = 0
  <2>1. IsFiniteSet(PstHolders) /\ \A o \in PstHolders : b[o] = 0
    BY PstFacts
  <2> HIDE DEF b
  <2> QED BY <2>1, SumZero
<1>5. 0 \in 0..Bips /\ NoAddress \in Owners
  BY DEF Bips, Owners
<1>6. pst \in PstStorage /\ pst.totalSupply = 0 /\ pst.balanceOf = b
  BY <1>3, <1>5 DEF PstStorage
<1>7. PstOK(pst)
  BY <1>4, <1>6 DEF PstOK
<1>8. PrincipalCovered
  <2>1. VaultShares(token) \in Nat /\ TotalAssets(token) \in Nat /\ token.totalSupply \in Nat
    BY <1>1, SharesOfPst
  <2>2. /\ (VaultShares(token) + 0) * TotalAssets(token) \in Nat
        /\ 0 * token.totalSupply = 0
    BY <2>1
  <2>3. (VaultShares(token) + 0) * TotalAssets(token) >= 0 * token.totalSupply
    BY <2>2
  <2> QED BY <1>3, <1>6, <2>3 DEF PrincipalCovered, Covers
<1> QED BY <1>1, <1>2, <1>3, <1>7, <1>8 DEF PstInv

-----------------------------------------------------------------------------
(* Theorems *)

(* When the shares of now are worth the principal, a holder can take all of *)
(* its own: after the strip of its call they still are, and what is paid    *)
(* for a part of the principal is rounded down.                             *)
LEMMA LeavesWithAll ==
  ASSUME NEW t, NEW q, NEW k, WorldOK(t, q, k), NEW p, PstOK(p),
         Covers(t, VaultShares(t), p.totalSupply), NEW o \in PstHolders
  PROVE  CanTransfer(StripYield(t, p), Pst, SharesPaid(t, p, p.balanceOf[o]))
<1> DEFINE y == StripYield(t, p)
           x == p.balanceOf[o]
           s == SharesPaid(t, p, x)
           A == TotalAssets(y)
           S == y.totalSupply
           V == VaultShares(y)
           P == p.totalSupply
<1>1. WorldOK(y, q, k) /\ VaultOK(y) /\ AtPar(y) /\ VaultOK(t)
  BY StripOK DEF WorldOK, PstOK
<1>2. x \in Nat /\ P \in Nat /\ x <= P /\ p \in PstStorage
  BY PstFields, SumOfPst DEF PstOK
<1>3. s = ConvertToShares(y, x)
  BY DEF SharesPaid
<1>4. Covers(y, V, P)
  <2>1. VaultShares(t) \in Nat /\ VaultShares(t) + 0 = VaultShares(t)
    BY <1>1, SharesOfPst
  <2>2. V \in Nat /\ V + (IF Strips(t, p) THEN 0 ELSE 0) = V
    BY <1>1, SharesOfPst
  <2>3. Covers(t, VaultShares(t) + 0, P)
    BY <2>1
  <2>4. Covers(y, V + (IF Strips(t, p) THEN 0 ELSE 0), P)
    BY <1>2, <2>3, StripKeeps
  <2> QED BY <2>2, <2>4
<1> HIDE DEF y, x
<1>5. A \in Nat \ {0} /\ S \in Nat \ {0} /\ V \in Nat
  BY <1>1, SharesOfPst, Market
<1>6. s \in Nat /\ s * A <= x * S
  BY <1>1, <1>2, <1>3, <1>5, SharesRounded
<1>7. V * A >= P * S
  BY <1>4 DEF Covers
<1> HIDE DEF s, A, S, P
<1>8. s <= V
  <2> HIDE DEF V
  <2>1. x * S <= P * S
    BY <1>2, <1>5, ProductMonotone
  <2>2. s * A \in Nat /\ x * S \in Nat /\ P * S \in Nat /\ V * A \in Nat
    BY <1>2, <1>5, <1>6
  <2>3. s * A <= V * A
    BY <1>6, <1>7, <2>1, <2>2
  <2> QED BY <1>5, <1>6, <2>3, ProductCancel
<1>9. CanTransfer(y, Pst, s)
  BY <1>1, <1>5, <1>6, <1>8, SharesOfPst DEF CanTransfer
<1> QED BY <1>9 DEF y, s, x

(* All the bips of an amount are the amount. *)
LEMMA AllBips ==
  ASSUME NEW x \in Nat
  PROVE  MulDivDown(x, Bips, Bips) = x
<1> DEFINE d == Bips
           k == (x * d) \div d
<1>1. d \in Nat \ {0}
  BY DEF Bips
<1>2. MulDivDown(x, Bips, Bips) = k
  BY DEF MulDivDown
<1> HIDE DEF d
<1>3. x * d \in Nat
  BY <1>1
<1>4. k \in Nat /\ k * d <= x * d /\ x * d < (k + 1) * d
  BY <1>1, <1>3, DivBounds
<1> HIDE DEF k
<1>5. k <= x /\ x < k + 1
  BY <1>1, <1>4, ProductCancel
<1> QED BY <1>2, <1>4, <1>5

(* Without a fee a strip leaves nothing to strip: at the price it leads to, *)
(* one share more would be missed.                                          *)
LEMMA StripsOnce ==
  ASSUME NEW t, NEW q, NEW k, WorldOK(t, q, k), NEW p \in PstStorage, ~FeeTaken(p)
  PROVE  TotalExcess(StripYield(t, p), p) = 0
<1> DEFINE u == StripYield(t, p)
           A == TotalAssets(t)
           S == t.totalSupply
           V == VaultShares(t)
           P == p.totalSupply
           E == TotalExcess(t, p)
<1>1. VaultOK(t) /\ VaultOK(u) /\ Stripped(t, p, u) /\ (~Strips(t, p) => u = t)
  BY StripOK DEF WorldOK
<1>2. /\ E \in Nat /\ E <= V /\ FeeShares(t, p) = 0 /\ BurnShare(t, p) = E
      /\ A \in Nat /\ S \in Nat /\ V \in Nat /\ P \in Nat /\ V <= S
  BY <1>1, ExcessFacts, SharesOfPst, PstFields
<1>3. TotalAssets(u) = A /\ u.totalSupply = S - E /\ VaultShares(u) = V - E
  BY <1>1, <1>2 DEF Stripped
<1> HIDE DEF u, A, S, V
<1>4. CASE P = 0
  <2>1. TotalExcess(t, p) = V /\ TotalExcess(u, p) = VaultShares(u)
    BY <1>4 DEF TotalExcess, V
  <2>2. V - E = 0
    BY <1>2, <2>1
  <2> QED BY <1>3, <2>1, <2>2 DEF u
<1>5. CASE P # 0 /\ E = 0
  BY <1>1, <1>2, <1>5 DEF Strips, u
<1>6. CASE P # 0 /\ E # 0
  <2>1. ~(A <= P) /\ Covers(t, V, P)
    BY <1>6 DEF TotalExcess, A, V
  <2>2. E = (V * A - P * S) \div (A - P)
    <3>1. MulDivDown(P, KeptBips(p), Bips) = P
      BY <1>2, AllBips DEF KeptBips
    <3> QED BY <1>6, <2>1, <3>1 DEF TotalExcess, A, V, S
  <2>3. V * A >= P * S
    BY <2>1 DEF Covers, A, S
  <2> HIDE DEF E, P
  <2>4. P < A /\ P <= P /\ A - P \in Nat \ {0} /\ V * A - P * S \in Nat
    BY <1>2, <2>1, <2>3
  <2>5. E * (A - P) <= V * A - P * S /\ V * A - P * S < (E + 1) * (A - P)
    BY <2>2, <2>4, DivBounds
  <2>6. ((V - E) * A - P * (S - E)) \div (A - P) = 0
    BY <1>2, <2>4, <2>5, StripRest
  <2>7. MulDivDown(P, KeptBips(p), Bips) = P
    BY <1>2, AllBips DEF KeptBips
  <2>8. TotalExcess(u, p) = 0
    BY <1>3, <1>6, <2>6, <2>7 DEF TotalExcess, P
  <2> QED BY <2>8 DEF u
<1> QED BY <1>4, <1>5, <1>6

(* What is said above of the three contracts holds at any time, in the copy *)
(* a loop of the queue works on as well.                                    *)
THEOREM PstInvariant == PstSpec => []PstInv
<1>1. PstInv /\ [PstNext]_pstVars => PstInv'
  BY PstNextOK, PstStutters DEF PstKept
<1> QED BY PstInitOK, <1>1, PTL DEF PstSpec

(* The storages of TokenpstAVAX and of the vault keep their shape, and      *)
(* pstAVAX are what their holders have.                                     *)
THEOREM PstTypeCorrect == PstSpec => []PstTypeOK
<1>1. PstInv => PstTypeOK
  BY DEF PstInv, PstOK, QueueInv, WorldOK, VaultOK, PstTypeOK, TokenTypeOK
<1> QED BY PstInvariant, <1>1, PTL

(* The principal is covered, but for the part of a share that each deposit  *)
(* since the last strip may have lost to rounding: no strip, with any fee,  *)
(* and nothing that anybody does to the vault or the queue takes from it.   *)
THEOREM PrincipalCorrect == PstSpec => []PrincipalCovered
<1>1. PstInv => PrincipalCovered
  BY DEF PstInv
<1> QED BY PstInvariant, <1>1, PTL

(* When the shares are worth the principal, each holder can withdraw all of *)
(* its pstAVAX in one call.                                                 *)
THEOREM LeaveCorrect == PstSpec => []HolderCanLeave
<1>1. ASSUME PstInv PROVE HolderCanLeave
  <2> SUFFICES ASSUME Covers(token, VaultShares(token), pst.totalSupply), ~pst.paused,
                      NEW o \in PstHolders
               PROVE  CanWithdrawPst(token, pst, o, pst.balanceOf[o])
    BY DEF HolderCanLeave
  <2>1. WorldOK(token, queue, ledger.promised) /\ PstOK(pst) /\ pst.balanceOf[o] \in Nat
    BY <1>1, PstFields DEF PstInv, QueueInv, PstOK
  <2>2. CanTransfer(StripYield(token, pst), Pst, SharesPaid(token, pst, pst.balanceOf[o]))
    BY <2>1, LeavesWithAll
  <2> QED BY <2>1, <2>2 DEF CanWithdrawPst
<1> QED BY PstInvariant, <1>1, PTL

(* Without a fee, a strip leaves nothing to a second one in the same block. *)
THEOREM SettlesCorrect == PstSpec => []StripSettles
<1>1. PstInv => StripSettles
  BY StripsOnce DEF PstInv, QueueInv, PstOK, StripSettles
<1> QED BY PstInvariant, <1>1, PTL

(* Whatever withdrawViaQueue and stripYield do to the vault between, the    *)
(* shares of a pending request are worth its promise.                       *)
THEOREM PstRedemptionCorrect == PstSpec => []RedemptionNeverShort
<1>1. PstInv => RedemptionNeverShort
  BY NeverShort DEF PstInv
<1> QED BY PstInvariant, <1>1, PTL

(* The strips of TokenpstAVAX, which burn shares, never lower the price of  *)
(* those that remain, and nor does anything around them.                    *)
THEOREM PstPriceCorrect == PstSpec => PriceNeverFalls
<1>1. PstInv /\ [PstNext]_pstVars => [PriceStep]_tokenVars
  <2>1. UNCHANGED pstVars => UNCHANGED tokenVars
    BY DEF pstVars, tokenVars
  <2> QED BY <2>1, PstNextOK DEF PstKept
<1>2. PstSpec => [][PriceStep]_tokenVars
  BY PstInvariant, <1>1, PTL DEF PstSpec
<1> QED BY <1>2 DEF PriceStep, PriceNeverFalls

(* TokenpstAVAX is one more requester: the queue keeps its promise to it,   *)
(* and to everybody else, through withdrawals and strips.                   *)
THEOREM PstImplementsPromise == PstSpec => Implements
<1>1. PstInv /\ [PstNext]_pstVars => [Promise!PromiseNext]_(Promise!promiseVars)
  <2> SUFFICES ASSUME PstInv, [PstNext]_pstVars
               PROVE  [Promise!PromiseNext]_(Promise!promiseVars)
    OBVIOUS
  <2>1. CASE PstNext
    <3>1. QueueInv /\ QueueInv' /\ Effect(queue, ledger, queue', ledger')
      BY <2>1, PstNextOK DEF PstInv, PstKept
    <3> QED BY <3>1, EffectOK
  <2>2. CASE UNCHANGED pstVars
    BY <2>2, PromiseStutters DEF pstVars
  <2> QED BY <2>1, <2>2
<1>2. PstInit => Promise!PromiseInit
  BY PromiseInitOK DEF PstInit
<1> QED BY PstInvariant, <1>1, <1>2, PTL DEF PstSpec, Implements, Promise!PromiseSpec

(* What is proved of the vault and of the queue by themselves holds with    *)
(* TokenpstAVAX around them: everybody could convert at once, no deposit    *)
(* gains, what is set aside is covered, the shares of who waits are there,  *)
(* and the indexes agree.                                                   *)
THEOREM PstWorldCorrect ==
  PstSpec => []( /\ VaultBacked /\ ClaimsCovered /\ NoInstantProfit
                 /\ AllocationsCovered /\ SharesHeld /\ Indexed /\ PromiseKept )
<1>1. ASSUME PstInv
      PROVE  /\ VaultBacked /\ ClaimsCovered /\ NoInstantProfit
             /\ AllocationsCovered /\ SharesHeld /\ Indexed /\ PromiseKept
  <2>1. QueueInv /\ VaultOK(token)
    BY <1>1 DEF PstInv, QueueInv, WorldOK
  <2>2. VaultBacked /\ ClaimsCovered /\ NoInstantProfit
    BY <2>1, ClaimsNow, DepositNoGain DEF VaultOK, VaultBacked, NoInstantProfit
  <2>3. AllocationsCovered /\ SharesHeld /\ Indexed /\ PromiseKept
    BY <2>1, IndexedNow
       DEF QueueInv, WorldOK, QueueOK, Funded, Entitled, LedgerOK, AllocationsCovered,
           SharesHeld, PromiseKept
  <2> QED BY <2>2, <2>3
<1> QED BY PstInvariant, <1>1, PTL
=============================================================================
