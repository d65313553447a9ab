------------------------- MODULE TokenggAVAX_proofs -------------------------
(***************************************************************************)
(* The vault keeps its type, its supply is the sum of the balances, it     *)
(* holds what it has promised, and the price of a share never falls, for   *)
(* every set of accounts, fee, reserve rate and cycle length.              *)
(*                                                                         *)
(* VaultOK is the inductive invariant.  One lemma per operation of the     *)
(* vault says that it keeps VaultOK and the price; the theorems follow by  *)
(* cases on the transaction.                                               *)
(***************************************************************************)
EXTENDS TokenggAVAX, ShareMath_proofs, SumTheorems

-----------------------------------------------------------------------------
(* The part of the assumptions on the constants that the vault rests on. *)
LEMMA Constants ==
  /\ IsFiniteSet(Accounts) /\ Self \in Accounts
  /\ Seed \in Nat \ {0} /\ RewardsCycleLength \in Nat \ {0} /\ StartTime \in Nat
BY TokenConstants

(* The fields of a vault's storage *)
LEMMA VaultFields ==
  ASSUME NEW t \in TokenStorage
  PROVE  /\ t.wavax \in Nat /\ t.totalReleasedAssets \in Nat
         /\ t.stakingTotalAssets \in Nat /\ t.lastRewardsAmt \in Nat
         /\ t.lastSync \in Nat /\ t.rewardsCycleEnd \in Nat
         /\ t.totalSupply \in Nat /\ t.balanceOf \in [Accounts -> Nat]
         /\ t.paused \in BOOLEAN
         /\ t = [wavax |-> t.wavax, totalReleasedAssets |-> t.totalReleasedAssets,
                 stakingTotalAssets |-> t.stakingTotalAssets,
                 lastRewardsAmt |-> t.lastRewardsAmt, lastSync |-> t.lastSync,
                 rewardsCycleEnd |-> t.rewardsCycleEnd, totalSupply |-> t.totalSupply,
                 balanceOf |-> t.balanceOf, paused |-> t.paused]
BY DEF TokenStorage

-----------------------------------------------------------------------------
(* Arithmetic *)

(* A fee is part of the amount it is taken from. *)
LEMMA FeeBounds ==
  ASSUME NEW amount \in Nat, NEW bips \in 0..Bips
  PROVE  Fee(amount, bips) \in 0..amount
<1> DEFINE f == MulDivDown(amount, bips, Bips)
           m == amount * bips
<1> Bips \in Nat \ {0}
  BY DEF Bips
<1>1. bips \in Nat /\ m \in Nat
  OBVIOUS
<1>2. f \in Nat /\ f * Bips <= m
  <2> HIDE DEF m
  <2>1. (m \div Bips) \in Nat /\ (m \div Bips) * Bips <= m
    BY <1>1
  <2> QED BY <2>1 DEF MulDivDown, m
<1>3. m <= amount * Bips
  <2>1. amount * Bips = m + amount * (Bips - bips)
        /\ amount * (Bips - bips) \in Nat
    OBVIOUS
  <2> QED BY <1>1, <2>1
<1> HIDE DEF f, m
<1>4. f <= amount
  BY <1>1, <1>2, <1>3
<1> QED BY <1>2, <1>4 DEF Fee, f

-----------------------------------------------------------------------------
(* The inductive invariant, on the storage t of a vault in block now.      *)

SupplyIsSum(t) == t.totalSupply = SumFunctionOnSet(t.balanceOf, Accounts)

VaultOK(t) ==
  /\ now \in Nat
  /\ t \in TokenStorage
  /\ SupplyIsSum(t)
  /\ Backed(t)
  /\ t.lastSync <= now
  /\ t.balanceOf[Self] >= Seed

(* What an operation may do to the price: the assets behind a share do not *)
(* fall, and they move only if the supply does.                            *)
PriceKept(t, u) ==
  /\ TotalAssets(u) * t.totalSupply >= TotalAssets(t) * u.totalSupply
  /\ u.totalSupply = t.totalSupply => TotalAssets(u) = TotalAssets(t)

(* No holder has more than the supply, and the seed keeps it positive. *)
LEMMA SupplyBounds ==
  ASSUME NEW t, VaultOK(t)
  PROVE  /\ \A a \in Accounts : t.balanceOf[a] \in Nat /\ t.balanceOf[a] <= t.totalSupply
         /\ t.totalSupply \in Nat \ {0}
<1>1. t.balanceOf \in [Accounts -> Nat] /\ t.totalSupply \in Nat
  BY DEF VaultOK, TokenStorage
<1>2. \A a \in Accounts : t.balanceOf[a] <= t.totalSupply
  BY <1>1, SumBoundsPart, Constants DEF VaultOK, SupplyIsSum
<1> QED BY <1>1, <1>2, Constants DEF VaultOK

(* The assets lie between what is released and what the cycle will release. *)
LEMMA TotalAssetsBounds ==
  ASSUME NEW t, VaultOK(t)
  PROVE  /\ TotalAssets(t) \in Nat
         /\ t.totalReleasedAssets <= TotalAssets(t)
         /\ TotalAssets(t) <= t.totalReleasedAssets + t.lastRewardsAmt
<1>1. /\ t.totalReleasedAssets \in Nat /\ t.lastRewardsAmt \in Nat
      /\ t.lastSync \in Nat /\ t.rewardsCycleEnd \in Nat
      /\ now \in Nat /\ t.lastSync <= now
  BY DEF VaultOK, TokenStorage
<1>2. CASE now >= t.rewardsCycleEnd
  BY <1>1, <1>2 DEF TotalAssets
<1>3. CASE ~(now >= t.rewardsCycleEnd)
  <2> DEFINE L == t.lastRewardsAmt
             y == now - t.lastSync
             d == t.rewardsCycleEnd - t.lastSync
             u == MulDivDown(L, y, d)
  <2>1. L \in Nat /\ y \in Nat /\ d \in Nat \ {0} /\ y <= d
    BY <1>1, <1>3
  <2>2. TotalAssets(t) = t.totalReleasedAssets + u
    BY <1>3 DEF TotalAssets
  <2> HIDE DEF L, y, d
  <2>3. u \in Nat /\ u <= MulDivDown(L, d, d)
    BY <2>1, MulDivDownBounds, MulDivDownMonotone
  <2>4. MulDivDown(L, d, d) <= L
    <3> DEFINE q == MulDivDown(L, d, d)
    <3>1. q \in Nat /\ q * d <= L * d
      BY <2>1, MulDivDownBounds
    <3> HIDE DEF q
    <3>2. q > L => q * d >= L * d + d
      <4>1. q * d = L * d + (q - L) * d
        BY <2>1, <3>1
      <4>2. q > L => (q - L) * d >= d
        BY <2>1, <3>1
      <4>3. L * d \in Nat
        BY <2>1
      <4> QED BY <4>1, <4>2, <4>3, <3>1, <2>1
    <3>3. L * d \in Nat
      BY <2>1
    <3>4. q <= L
      BY <3>1, <3>2, <3>3, <2>1
    <3> QED BY <3>4 DEF q
  <2>5. MulDivDown(L, d, d) \in Nat
    BY <2>1, MulDivDownBounds
  <2> HIDE DEF u
  <2>6. u <= L
    BY <2>1, <2>3, <2>4, <2>5
  <2> QED BY <1>1, <2>1, <2>2, <2>3, <2>6 DEF L
<1> QED BY <1>2, <1>3

-----------------------------------------------------------------------------
(* What the operations leave alone *)

SameCycle(t, u) == /\ u.lastRewardsAmt = t.lastRewardsAmt
                   /\ u.lastSync = t.lastSync
                   /\ u.rewardsCycleEnd = t.rewardsCycleEnd

SameAssets(t, u) == /\ u.wavax = t.wavax
                    /\ u.totalReleasedAssets = t.totalReleasedAssets
                    /\ u.stakingTotalAssets = t.stakingTotalAssets

SameShares(t, u) == u.totalSupply = t.totalSupply /\ u.balanceOf = t.balanceOf

(* Within a cycle the assets move with what is released. *)
LEMMA TotalAssetsShift ==
  ASSUME NEW t, VaultOK(t), NEW u, u.totalReleasedAssets \in Nat, SameCycle(t, u)
  PROVE  TotalAssets(u) = TotalAssets(t) + u.totalReleasedAssets - t.totalReleasedAssets
<1>1. /\ t.totalReleasedAssets \in Nat /\ t.lastRewardsAmt \in Nat
      /\ t.lastSync \in Nat /\ t.rewardsCycleEnd \in Nat
      /\ now \in Nat /\ t.lastSync <= now
  BY VaultFields DEF VaultOK
<1>2. CASE now >= t.rewardsCycleEnd
  BY <1>1, <1>2 DEF TotalAssets, SameCycle
<1>3. CASE ~(now >= t.rewardsCycleEnd)
  <2> DEFINE m == MulDivDown(t.lastRewardsAmt, now - t.lastSync,
                             t.rewardsCycleEnd - t.lastSync)
  <2>1. m \in Nat
    <3>1. /\ now - t.lastSync \in Nat
          /\ t.rewardsCycleEnd - t.lastSync \in Nat \ {0}
      BY <1>1, <1>3
    <3> QED BY <1>1, <3>1, MulDivDownBounds
  <2>2. /\ TotalAssets(t) = t.totalReleasedAssets + m
        /\ TotalAssets(u) = u.totalReleasedAssets + m
    BY <1>3 DEF TotalAssets, SameCycle
  <2> HIDE DEF m
  <2> QED BY <1>1, <2>1, <2>2
<1> QED BY <1>2, <1>3

(* New balances, and a supply that moves with them. *)
WithShares(t, n, b) == [t EXCEPT !.totalSupply = n, !.balanceOf = b]

LEMMA SharesOK ==
  ASSUME NEW t, VaultOK(t), NEW n \in Nat, NEW b \in [Accounts -> Nat],
         n = SumFunctionOnSet(b, Accounts), b[Self] >= Seed
  PROVE  LET u == WithShares(t, n, b)
         IN  /\ VaultOK(u)
             /\ u.totalSupply = n /\ u.balanceOf = b /\ u.paused = t.paused
             /\ SameCycle(t, u) /\ SameAssets(t, u)
<1> DEFINE u == WithShares(t, n, b)
<1>1. t \in TokenStorage
  BY DEF VaultOK
<1>2. u = [wavax |-> t.wavax, totalReleasedAssets |-> t.totalReleasedAssets,
           stakingTotalAssets |-> t.stakingTotalAssets,
           lastRewardsAmt |-> t.lastRewardsAmt, lastSync |-> t.lastSync,
           rewardsCycleEnd |-> t.rewardsCycleEnd, totalSupply |-> n,
           balanceOf |-> b, paused |-> t.paused]
  <2> HIDE DEF u
  <2>1. u = [t EXCEPT !.totalSupply = n, !.balanceOf = b]
    BY DEF u, WithShares
  <2> QED BY <1>1, <2>1 DEF TokenStorage
<1> HIDE DEF u
<1>3. u \in TokenStorage /\ u.totalSupply = n /\ u.balanceOf = b /\ u.paused = t.paused
  BY <1>1, <1>2 DEF TokenStorage
<1>4. SameCycle(t, u) /\ SameAssets(t, u)
  BY <1>2 DEF SameCycle, SameAssets
<1>5. VaultOK(u)
  BY <1>3, <1>4 DEF VaultOK, SupplyIsSum, Backed, SameCycle, SameAssets
<1> QED BY <1>3, <1>4, <1>5 DEF u

(* One balance moves: the sum of the balances moves with it. *)
LEMMA SumOfBalances ==
  ASSUME NEW b \in [Accounts -> Nat], NEW a \in Accounts, NEW v \in Nat
  PROVE  /\ SumFunctionOnSet(b, Accounts) \in Int
         /\ SumFunctionOnSet([b EXCEPT ![a] = v], Accounts)
              = SumFunctionOnSet(b, Accounts) - b[a] + v
<1>1. b \in [Accounts -> Int] /\ v \in Int /\ IsFiniteSet(Accounts)
  BY Constants
<1>2. SumFunctionOnSet(b, Accounts) \in Int
  BY <1>1, SumType
<1>3. SumFunctionOnSet([b EXCEPT ![a] = v], Accounts)
        = SumFunctionOnSet(b, Accounts) - b[a] + v
  <2> DEFINE h == [b EXCEPT ![a] = v]
  <2>1. /\ \A x \in Accounts : b[x] \in Int /\ h[x] \in Int
        /\ \A x \in Accounts \ {a} : h[x] = b[x]
        /\ h[a] = v
    BY <1>1
  <2> HIDE DEF h
  <2>2. SumFunctionOnSet(h, Accounts) = SumFunctionOnSet(b, Accounts) - b[a] + h[a]
    BY <1>1, <2>1, SumUpdate
  <2> QED BY <2>1, <2>2 DEF h
<1> QED BY <1>2, <1>3

LEMMA MintSharesOK ==
  ASSUME NEW t, VaultOK(t), NEW a \in Accounts, NEW s \in Nat
  PROVE  LET u == MintShares(t, a, s)
         IN  /\ VaultOK(u)
             /\ u.totalSupply = t.totalSupply + s /\ u.paused = t.paused
             /\ SameCycle(t, u) /\ SameAssets(t, u)
<1> DEFINE v == t.balanceOf[a] + s
           n == t.totalSupply + s
           b == [t.balanceOf EXCEPT ![a] = v]
<1>1. /\ t \in TokenStorage /\ t.balanceOf \in [Accounts -> Nat]
      /\ t.balanceOf[a] \in Nat /\ t.totalSupply \in Nat
  BY VaultFields DEF VaultOK
<1>2. MintShares(t, a, s) = WithShares(t, n, b)
  BY <1>1 DEF MintShares, WithShares, TokenStorage
<1>3. v \in Nat /\ n \in Nat
  BY <1>1
<1>4. b \in [Accounts -> Nat] /\ b[Self] >= Seed
  BY <1>1, <1>3, Constants DEF VaultOK
<1>5. n = SumFunctionOnSet(b, Accounts)
  <2> HIDE DEF v
  <2>1. SumFunctionOnSet(b, Accounts) = t.totalSupply - t.balanceOf[a] + v
    BY <1>1, <1>3, SumOfBalances DEF VaultOK, SupplyIsSum
  <2> QED BY <1>1, <2>1 DEF v
<1> HIDE DEF n, b
<1> QED BY <1>2, <1>3, <1>4, <1>5, SharesOK DEF n

LEMMA BurnSharesOK ==
  ASSUME NEW t, VaultOK(t), NEW a \in Accounts \ {Self}, NEW s \in Nat,
         s <= t.balanceOf[a]
  PROVE  LET u == BurnShares(t, a, s)
         IN  /\ VaultOK(u)
             /\ u.totalSupply = t.totalSupply - s /\ u.paused = t.paused
             /\ SameCycle(t, u) /\ SameAssets(t, u)
<1> DEFINE v == t.balanceOf[a] - s
           n == t.totalSupply - s
           b == [t.balanceOf EXCEPT ![a] = v]
<1>1. /\ t \in TokenStorage /\ t.balanceOf \in [Accounts -> Nat]
      /\ t.balanceOf[a] \in Nat /\ t.totalSupply \in Nat
  BY VaultFields DEF VaultOK
<1>2. BurnShares(t, a, s) = WithShares(t, n, b)
  BY <1>1 DEF BurnShares, WithShares, TokenStorage
<1>3. v \in Nat /\ n \in Nat
  BY <1>1, SupplyBounds
<1>4. b \in [Accounts -> Nat] /\ b[Self] >= Seed
  BY <1>1, <1>3, Constants DEF VaultOK
<1>5. n = SumFunctionOnSet(b, Accounts)
  <2> HIDE DEF v
  <2>1. SumFunctionOnSet(b, Accounts) = t.totalSupply - t.balanceOf[a] + v
    BY <1>1, <1>3, SumOfBalances DEF VaultOK, SupplyIsSum
  <2> QED BY <1>1, <2>1 DEF v
<1> HIDE DEF n, b
<1> QED BY <1>2, <1>3, <1>4, <1>5, SharesOK DEF n

(* A transfer moves shares and nothing else. *)
LEMMA TransferSharesOK ==
  ASSUME NEW t, VaultOK(t), NEW a \in Accounts \ {Self}, NEW c \in Accounts,
         NEW s \in Nat, s <= t.balanceOf[a]
  PROVE  LET u == TransferShares(t, a, c, s)
         IN  /\ VaultOK(u)
             /\ u.totalSupply = t.totalSupply /\ u.paused = t.paused
             /\ SameCycle(t, u) /\ SameAssets(t, u)
             /\ u.balanceOf = Move(t.balanceOf, a, c, s)
<1> DEFINE n == t.totalSupply
           v == t.balanceOf[a] - s
           d == [t.balanceOf EXCEPT ![a] = v]
           w == d[c] + s
           b == [d EXCEPT ![c] = w]
           m == Move(t.balanceOf, a, c, s)
<1>1. /\ t \in TokenStorage /\ t.balanceOf \in [Accounts -> Nat]
      /\ t.balanceOf[a] \in Nat /\ n \in Nat
  BY VaultFields DEF VaultOK
<1>2. m = b
  BY DEF Move
<1>3. TransferShares(t, a, c, s) = WithShares(t, n, m)
  <2> HIDE DEF m
  <2>1. TransferShares(t, a, c, s) = [t EXCEPT !.balanceOf = m]
    BY <1>1 DEF TransferShares, m
  <2> QED BY <1>1, <2>1 DEF WithShares, TokenStorage
<1>4. /\ v \in Nat /\ d \in [Accounts -> Nat]
      /\ d[Self] = t.balanceOf[Self] /\ d[a] = v
  BY <1>1, Constants
<1>5. SumFunctionOnSet(d, Accounts) = n - t.balanceOf[a] + v
  <2> HIDE DEF v
  <2> QED BY <1>1, <1>4, SumOfBalances DEF VaultOK, SupplyIsSum
<1>6. SumFunctionOnSet(d, Accounts) = n - s
  BY <1>1, <1>5
<1> HIDE DEF d, v
<1>7. w \in Nat /\ d[c] \in Nat /\ w >= d[c]
  BY <1>4
<1>8. SumFunctionOnSet(b, Accounts) = SumFunctionOnSet(d, Accounts) - d[c] + w
  <2> HIDE DEF w
  <2> QED BY <1>4, <1>7, SumOfBalances
<1>9. SumFunctionOnSet(b, Accounts) = n
  BY <1>1, <1>6, <1>7, <1>8
<1>10. b \in [Accounts -> Nat] /\ b[Self] >= Seed
  <2> HIDE DEF w
  <2> QED BY <1>1, <1>4, <1>7, Constants DEF VaultOK
<1> HIDE DEF b, m, n
<1>11. /\ n = SumFunctionOnSet(m, Accounts)
       /\ m \in [Accounts -> Nat] /\ m[Self] >= Seed
  BY <1>2, <1>9, <1>10
<1> QED BY <1>1, <1>3, <1>11, SharesOK DEF m, n

(* Other assets, enough for what is promised. *)
WithAssets(t, w, r, k) ==
  [t EXCEPT !.wavax = w, !.totalReleasedAssets = r, !.stakingTotalAssets = k]

LEMMA AssetsOK ==
  ASSUME NEW t, VaultOK(t), NEW w \in Nat, NEW r \in Nat, NEW k \in Nat,
         w + k >= r + t.lastRewardsAmt
  PROVE  LET u == WithAssets(t, w, r, k)
         IN  /\ VaultOK(u) /\ SameShares(t, u)
             /\ TotalAssets(u) = TotalAssets(t) + r - t.totalReleasedAssets
<1> DEFINE u == WithAssets(t, w, r, k)
<1>1. t \in TokenStorage
  BY DEF VaultOK
<1>2. u = [wavax |-> w, totalReleasedAssets |-> r, stakingTotalAssets |-> k,
           lastRewardsAmt |-> t.lastRewardsAmt, lastSync |-> t.lastSync,
           rewardsCycleEnd |-> t.rewardsCycleEnd, totalSupply |-> t.totalSupply,
           balanceOf |-> t.balanceOf, paused |-> t.paused]
  <2> HIDE DEF u
  <2>1. u = [t EXCEPT !.wavax = w, !.totalReleasedAssets = r, !.stakingTotalAssets = k]
    BY DEF u, WithAssets
  <2> QED BY <1>1, <2>1 DEF TokenStorage
<1> HIDE DEF u
<1>3. u \in TokenStorage /\ u.wavax = w /\ u.totalReleasedAssets = r /\ u.stakingTotalAssets = k
  BY <1>1, <1>2 DEF TokenStorage
<1>4. SameShares(t, u) /\ SameCycle(t, u)
  BY <1>2 DEF SameShares, SameCycle
<1>5. VaultOK(u)
  BY <1>3, <1>4 DEF VaultOK, SupplyIsSum, Backed, SameShares, SameCycle
<1>6. TotalAssets(u) = TotalAssets(t) + r - t.totalReleasedAssets
  BY <1>3, <1>4, TotalAssetsShift
<1> QED BY <1>4, <1>5, <1>6 DEF u

(* The same shares and the same assets: the price is kept. *)
LEMMA NothingMoves ==
  ASSUME NEW t, VaultOK(t), NEW u, TotalAssets(u) = TotalAssets(t),
         u.totalSupply = t.totalSupply
  PROVE  PriceKept(t, u)
<1> DEFINE p == TotalAssets(t) * t.totalSupply
<1>1. p \in Nat
  BY SupplyBounds, TotalAssetsBounds
<1>2. TotalAssets(u) * t.totalSupply = p /\ TotalAssets(t) * u.totalSupply = p
  OBVIOUS
<1> HIDE DEF p
<1> QED BY <1>1, <1>2 DEF PriceKept

-----------------------------------------------------------------------------
(* The operations, one lemma each *)

(* Assets come in for shares worth no more than they are. *)
LEMMA ReceiveDepositOK ==
  ASSUME NEW t, VaultOK(t), NEW a \in Accounts, NEW x \in Nat, NEW s \in Nat \ {0},
         s * TotalAssets(t) <= x * t.totalSupply
  PROVE  LET u == ReceiveDeposit(t, a, x, s)
         IN  /\ VaultOK(u) /\ PriceKept(t, u)
             /\ u.totalSupply = t.totalSupply + s
             /\ TotalAssets(u) = TotalAssets(t) + x
<1> DEFINE v == MintShares(t, a, s)
           w == v.wavax + x
           r == v.totalReleasedAssets + x
           k == v.stakingTotalAssets
           u == WithAssets(v, w, r, k)
<1>1. /\ VaultOK(v) /\ v.totalSupply = t.totalSupply + s
      /\ SameCycle(t, v) /\ SameAssets(t, v)
  BY MintSharesOK
<1> HIDE DEF v
<1>2. v \in TokenStorage /\ w \in Nat /\ r \in Nat /\ k \in Nat
  BY <1>1, VaultFields DEF VaultOK
<1>3. ReceiveDeposit(t, a, x, s) = u
  BY <1>2 DEF ReceiveDeposit, WithAssets, TokenStorage, v
<1>4. w + k >= r + v.lastRewardsAmt
  BY <1>1, VaultFields DEF VaultOK, Backed
<1>5. VaultOK(u) /\ SameShares(v, u)
      /\ TotalAssets(u) = TotalAssets(v) + r - v.totalReleasedAssets
  <2> HIDE DEF w, r, k
  <2> QED BY <1>1, <1>2, <1>4, AssetsOK
<1>6. TotalAssets(v) = TotalAssets(t)
  <2>1. v.totalReleasedAssets \in Nat /\ t.totalReleasedAssets = v.totalReleasedAssets
    BY <1>1, VaultFields DEF VaultOK, SameAssets
  <2>2. TotalAssets(t) \in Nat
    BY TotalAssetsBounds
  <2>3. TotalAssets(v) = TotalAssets(t) + v.totalReleasedAssets - t.totalReleasedAssets
    BY <1>1, <2>1, TotalAssetsShift
  <2> QED BY <2>1, <2>2, <2>3
<1>7. TotalAssets(t) \in Nat /\ t.totalSupply \in Nat /\ v.totalReleasedAssets \in Nat
  BY <1>1, TotalAssetsBounds, SupplyBounds, VaultFields DEF VaultOK
<1> HIDE DEF u
<1>8. TotalAssets(u) = TotalAssets(t) + x /\ u.totalSupply = t.totalSupply + s
  BY <1>1, <1>5, <1>6, <1>7 DEF SameShares
<1>9. (TotalAssets(t) + x) * t.totalSupply >= TotalAssets(t) * (t.totalSupply + s)
  BY <1>7, PriceAlgebra
<1>10. PriceKept(t, u)
  BY <1>7, <1>8, <1>9 DEF PriceKept
<1> QED BY <1>3, <1>5, <1>8, <1>10

(* Assets go out for shares worth at least as much. *)
LEMMA PayOutOK ==
  ASSUME NEW t, VaultOK(t), NEW a \in Accounts \ {Self}, NEW x \in Nat,
         NEW s \in Nat \ {0}, CanPayOut(t, a, x, s),
         x * t.totalSupply <= s * TotalAssets(t)
  PROVE  LET u == PayOut(t, a, x, s)
         IN  VaultOK(u) /\ PriceKept(t, u)
<1> DEFINE v == BurnShares(t, a, s)
           w == v.wavax - x
           r == v.totalReleasedAssets - x
           k == v.stakingTotalAssets
           u == WithAssets(v, w, r, k)
<1>1. /\ VaultOK(v) /\ v.totalSupply = t.totalSupply - s
      /\ SameCycle(t, v) /\ SameAssets(t, v)
  <2>1. t.balanceOf[a] \in Nat /\ s <= t.balanceOf[a]
    BY SupplyBounds DEF CanPayOut
  <2> QED BY <2>1, BurnSharesOK
<1> HIDE DEF v
<1>2. v \in TokenStorage /\ w \in Nat /\ r \in Nat /\ k \in Nat
  BY <1>1, VaultFields DEF VaultOK, SameAssets, CanPayOut
<1>3. PayOut(t, a, x, s) = u
  BY <1>2 DEF PayOut, WithAssets, TokenStorage, v
<1>4. w + k >= r + v.lastRewardsAmt
  BY <1>1, VaultFields DEF VaultOK, Backed
<1>5. VaultOK(u) /\ SameShares(v, u)
      /\ TotalAssets(u) = TotalAssets(v) + r - v.totalReleasedAssets
  <2> HIDE DEF w, r, k
  <2> QED BY <1>1, <1>2, <1>4, AssetsOK
<1>6. TotalAssets(v) = TotalAssets(t)
  <2>1. v.totalReleasedAssets \in Nat /\ t.totalReleasedAssets = v.totalReleasedAssets
    BY <1>1, VaultFields DEF VaultOK, SameAssets
  <2>2. TotalAssets(t) \in Nat
    BY TotalAssetsBounds
  <2>3. TotalAssets(v) = TotalAssets(t) + v.totalReleasedAssets - t.totalReleasedAssets
    BY <1>1, <2>1, TotalAssetsShift
  <2> QED BY <2>1, <2>2, <2>3
<1>7. TotalAssets(t) \in Nat /\ t.totalSupply \in Nat /\ v.totalReleasedAssets \in Nat
  BY <1>1, TotalAssetsBounds, SupplyBounds, VaultFields DEF VaultOK
<1> HIDE DEF u
<1>8. TotalAssets(u) = TotalAssets(t) - x /\ u.totalSupply = t.totalSupply - s
  BY <1>1, <1>5, <1>6, <1>7 DEF SameShares
<1>9. (TotalAssets(t) - x) * t.totalSupply >= TotalAssets(t) * (t.totalSupply - s)
  BY <1>7, PriceAlgebra
<1>10. PriceKept(t, u)
  BY <1>7, <1>8, <1>9 DEF PriceKept
<1> QED BY <1>3, <1>5, <1>10

(* depositAVAX rounds the shares down. *)
LEMMA DepositAVAXOK ==
  ASSUME NEW t, VaultOK(t), NEW a \in Accounts, NEW x \in Nat, CanDepositAVAX(t, x)
  PROVE  /\ ConvertToShares(t, x) \in Nat \ {0}
         /\ ConvertToShares(t, x) * TotalAssets(t) <= x * t.totalSupply
         /\ LET u == DepositAVAX(t, a, x)
            IN  /\ VaultOK(u) /\ PriceKept(t, u)
                /\ u.totalSupply = t.totalSupply + ConvertToShares(t, x)
                /\ TotalAssets(u) = TotalAssets(t) + x
<1> DEFINE s == ConvertToShares(t, x)
<1>1. TotalAssets(t) \in Nat \ {0} /\ t.totalSupply \in Nat \ {0}
  BY TotalAssetsBounds, SupplyBounds DEF CanDepositAVAX, Priced
<1>2. s = MulDivDown(x, t.totalSupply, TotalAssets(t)) /\ s # 0
  BY <1>1 DEF ConvertToShares, SharesFor, CanDepositAVAX
<1>3. s \in Nat \ {0} /\ s * TotalAssets(t) <= x * t.totalSupply
  <2> DEFINE A == TotalAssets(t)
             S == t.totalSupply
  <2>1. A \in Nat \ {0} /\ S \in Nat
    BY <1>1
  <2> HIDE DEF A, S
  <2>2. MulDivDown(x, S, A) \in Nat /\ MulDivDown(x, S, A) * A <= x * S
    BY <2>1, MulDivDownBounds
  <2> QED BY <1>2, <2>2 DEF A, S
<1>4. DepositAVAX(t, a, x) = ReceiveDeposit(t, a, x, s)
  BY DEF DepositAVAX
<1> HIDE DEF s
<1> QED BY <1>3, <1>4, ReceiveDepositOK DEF s

(* mint rounds the assets up. *)
LEMMA MintOK ==
  ASSUME NEW t, VaultOK(t), NEW a \in Accounts, NEW s \in Nat \ {0}
  PROVE  LET u == Mint(t, a, s) IN VaultOK(u) /\ PriceKept(t, u)
<1> DEFINE A == TotalAssets(t)
           S == t.totalSupply
           x == MulDivUp(s, A, S)
<1>1. A \in Nat /\ S \in Nat \ {0}
  BY TotalAssetsBounds, SupplyBounds
<1>2. AssetsToMint(s, S, A) = x
  BY <1>1 DEF AssetsToMint
<1>3. Mint(t, a, s) = ReceiveDeposit(t, a, x, s)
  BY <1>2 DEF Mint
<1>4. x \in Nat /\ s * A <= x * S
  <2> HIDE DEF A, S
  <2> QED BY <1>1, MulDivUpBounds
<1> HIDE DEF x
<1> QED BY <1>3, <1>4, ReceiveDepositOK

(* redeemAVAX rounds the assets down. *)
LEMMA RedeemAVAXOK ==
  ASSUME NEW t, VaultOK(t), NEW a \in Accounts \ {Self}, NEW s \in Nat \ {0},
         CanRedeemAVAX(t, a, s)
  PROVE  LET u == RedeemAVAX(t, a, s) IN VaultOK(u) /\ PriceKept(t, u)
<1> DEFINE A == TotalAssets(t)
           S == t.totalSupply
           x == ConvertToAssets(t, s)
<1>1. A \in Nat /\ S \in Nat \ {0}
  BY TotalAssetsBounds, SupplyBounds
<1>2. x = MulDivDown(s, A, S)
  BY <1>1 DEF ConvertToAssets, AssetsFor
<1>3. x \in Nat /\ x * S <= s * A
  <2> HIDE DEF A, S, x
  <2> QED BY <1>1, <1>2, MulDivDownBounds
<1>4. RedeemAVAX(t, a, s) = PayOut(t, a, x, s) /\ CanPayOut(t, a, x, s)
  BY DEF RedeemAVAX, CanRedeemAVAX
<1> HIDE DEF x
<1> QED BY <1>3, <1>4, PayOutOK

(* withdrawAVAX rounds the shares up. *)
LEMMA WithdrawAVAXOK ==
  ASSUME NEW t, VaultOK(t), NEW a \in Accounts \ {Self}, NEW x \in Nat \ {0},
         CanWithdrawAVAX(t, a, x)
  PROVE  LET u == WithdrawAVAX(t, a, x) IN VaultOK(u) /\ PriceKept(t, u)
<1> DEFINE A == TotalAssets(t)
           S == t.totalSupply
           s == PreviewWithdraw(t, x)
<1>1. A \in Nat \ {0} /\ S \in Nat \ {0}
  BY TotalAssetsBounds, SupplyBounds DEF CanWithdrawAVAX, Priced
<1>2. s = MulDivUp(x, S, A)
  BY <1>1 DEF PreviewWithdraw, SharesToWithdraw
<1>3. s \in Nat /\ s * A >= x * S
  <2> HIDE DEF A, S, s
  <2> QED BY <1>1, <1>2, MulDivUpBounds
<1>4. s # 0
  <2> HIDE DEF A, S, s
  <2> SUFFICES ASSUME s = 0 PROVE FALSE
    OBVIOUS
  <2>1. s * A = 0
    BY <1>1
  <2>2. x * S >= 1
    <3>1. x * S = S + (x - 1) * S /\ (x - 1) * S \in Nat
      BY <1>1
    <3> QED BY <1>1, <3>1
  <2>3. x * S \in Nat
    BY <1>1
  <2> DEFINE p == x * S
  <2> HIDE DEF p
  <2> QED BY <1>3, <2>1, <2>2, <2>3 DEF p
<1>5. WithdrawAVAX(t, a, x) = PayOut(t, a, x, s) /\ CanPayOut(t, a, x, s)
  BY DEF WithdrawAVAX, CanWithdrawAVAX
<1>6. x * S <= s * A
  <2> HIDE DEF A, S, s
  <2>1. x * S \in Nat /\ s * A \in Nat
    BY <1>1, <1>3
  <2> QED BY <1>3, <2>1
<1> HIDE DEF s
<1> QED BY <1>3, <1>4, <1>5, <1>6, PayOutOK

(* Shares that are donated leave their assets to the others. *)
LEMMA DonateYieldOK ==
  ASSUME NEW t, VaultOK(t), NEW a \in Accounts \ {Self}, NEW s \in Nat,
         CanDonateYield(t, a, s)
  PROVE  LET u == DonateYield(t, a, s) IN VaultOK(u) /\ PriceKept(t, u)
<1> DEFINE u == BurnShares(t, a, s)
<1>1. s # 0 /\ s <= t.balanceOf[a]
  BY SupplyBounds DEF CanDonateYield
<1>2. /\ VaultOK(u) /\ u.totalSupply = t.totalSupply - s
      /\ SameCycle(t, u) /\ SameAssets(t, u)
  BY <1>1, BurnSharesOK
<1> HIDE DEF u
<1>3. /\ t.totalReleasedAssets \in Nat /\ t.totalSupply \in Nat
      /\ TotalAssets(t) \in Nat
  BY VaultFields, TotalAssetsBounds DEF VaultOK
<1>4. TotalAssets(u) = TotalAssets(t)
  <2>1. TotalAssets(u) = TotalAssets(t) + u.totalReleasedAssets - t.totalReleasedAssets
    BY <1>2, <1>3, TotalAssetsShift DEF SameAssets
  <2> QED BY <1>2, <1>3, <2>1 DEF SameAssets
<1>5. 0 * t.totalSupply <= s * TotalAssets(t)
  BY <1>3
<1>6. (TotalAssets(t) - 0) * t.totalSupply >= TotalAssets(t) * (t.totalSupply - s)
  BY <1>3, <1>5, PriceAlgebra
<1>7. PriceKept(t, u)
  BY <1>1, <1>2, <1>3, <1>4, <1>6 DEF PriceKept
<1> QED BY <1>2, <1>7 DEF DonateYield, u

(* Yield, stakes and repaid stakes change what the vault holds and not what *)
(* it has released.                                                         *)
LEMMA HoldingsOK ==
  ASSUME NEW t, VaultOK(t), NEW w \in Nat, NEW k \in Nat,
         w + k >= t.wavax + t.stakingTotalAssets
  PROVE  LET u == WithAssets(t, w, t.totalReleasedAssets, k)
         IN  VaultOK(u) /\ PriceKept(t, u)
<1> DEFINE r == t.totalReleasedAssets
           u == WithAssets(t, w, r, k)
<1>1. /\ r \in Nat /\ t.wavax \in Nat /\ t.stakingTotalAssets \in Nat
      /\ t.lastRewardsAmt \in Nat
  BY VaultFields DEF VaultOK
<1>2. w + k >= r + t.lastRewardsAmt
  BY <1>1 DEF VaultOK, Backed
<1>3. /\ VaultOK(u) /\ SameShares(t, u)
      /\ TotalAssets(u) = TotalAssets(t) + r - t.totalReleasedAssets
  <2> HIDE DEF r
  <2> QED BY <1>1, <1>2, AssetsOK
<1> HIDE DEF u
<1>4. TotalAssets(u) = TotalAssets(t)
  BY <1>1, <1>3, TotalAssetsBounds
<1> QED BY <1>3, <1>4, NothingMoves DEF SameShares, u

LEMMA DepositYieldOK ==
  ASSUME NEW t, VaultOK(t), NEW x \in Nat, NEW bips \in 0..Bips
  PROVE  LET u == DepositYield(t, x, bips) IN VaultOK(u) /\ PriceKept(t, u)
<1> DEFINE f == Fee(x, bips)
           w == t.wavax + x - f
           k == t.stakingTotalAssets
<1>1. t \in TokenStorage /\ f \in 0..x
  <2>1. t \in TokenStorage
    BY DEF VaultOK
  <2>2. Fee(x, bips) \in 0..x
    BY FeeBounds
  <2> QED BY <2>1, <2>2
<1> HIDE DEF f
<1>2. w \in Nat /\ k \in Nat /\ w + k >= t.wavax + t.stakingTotalAssets
  BY <1>1, VaultFields
<1>3. DepositYield(t, x, bips) = WithAssets(t, w, t.totalReleasedAssets, k)
  <2>1. DepositYield(t, x, bips) = [t EXCEPT !.wavax = w]
    BY <1>1 DEF DepositYield, TokenStorage, f
  <2> HIDE DEF w
  <2> QED BY <1>1, <1>2, <2>1 DEF WithAssets, TokenStorage
<1> HIDE DEF w, k
<1> QED BY <1>2, <1>3, HoldingsOK

LEMMA DepositFromStakingOK ==
  ASSUME NEW t, VaultOK(t), NEW x \in Nat, NEW y \in Nat, NEW bips \in 0..Bips,
         CanDepositFromStaking(t, x)
  PROVE  LET u == DepositFromStaking(t, x, y, bips) IN VaultOK(u) /\ PriceKept(t, u)
<1> DEFINE f == Fee(y, bips)
           w == t.wavax + x + y - f
           k == t.stakingTotalAssets - x
<1>1. t \in TokenStorage /\ f \in 0..y
  <2>1. t \in TokenStorage
    BY DEF VaultOK
  <2>2. Fee(y, bips) \in 0..y
    BY FeeBounds
  <2> QED BY <2>1, <2>2
<1> HIDE DEF f
<1>2. w \in Nat /\ k \in Nat /\ w + k >= t.wavax + t.stakingTotalAssets
  BY <1>1, VaultFields DEF CanDepositFromStaking
<1>3. DepositFromStaking(t, x, y, bips) = WithAssets(t, w, t.totalReleasedAssets, k)
  <2>1. DepositFromStaking(t, x, y, bips)
          = [t EXCEPT !.stakingTotalAssets = k, !.wavax = w]
    BY <1>1 DEF DepositFromStaking, TokenStorage, f
  <2> HIDE DEF w, k
  <2> QED BY <1>1, <1>2, <2>1 DEF WithAssets, TokenStorage
<1> HIDE DEF w, k
<1> QED BY <1>2, <1>3, HoldingsOK

LEMMA WithdrawForStakingOK ==
  ASSUME NEW t, VaultOK(t), NEW x \in Nat, CanWithdrawForStaking(t, x)
  PROVE  LET u == WithdrawForStaking(t, x) IN VaultOK(u) /\ PriceKept(t, u)
<1> DEFINE w == t.wavax - x
           k == t.stakingTotalAssets + x
<1>1. t \in TokenStorage
  BY DEF VaultOK
<1>2. w \in Nat /\ k \in Nat /\ w + k >= t.wavax + t.stakingTotalAssets
  BY <1>1, VaultFields DEF CanWithdrawForStaking
<1>3. WithdrawForStaking(t, x) = WithAssets(t, w, t.totalReleasedAssets, k)
  BY <1>1 DEF WithdrawForStaking, WithAssets, TokenStorage
<1> HIDE DEF w, k
<1> QED BY <1>2, <1>3, HoldingsOK

LEMMA SetPausedOK ==
  ASSUME NEW t, VaultOK(t), NEW b \in BOOLEAN
  PROVE  LET u == [t EXCEPT !.paused = b] IN VaultOK(u) /\ PriceKept(t, u)
<1> DEFINE u == [t EXCEPT !.paused = b]
<1>1. t \in TokenStorage
  BY DEF VaultOK
<1>2. u \in TokenStorage /\ SameShares(t, u) /\ SameCycle(t, u) /\ SameAssets(t, u)
  BY <1>1 DEF TokenStorage, SameShares, SameCycle, SameAssets
<1> HIDE DEF u
<1>3. VaultOK(u)
  BY <1>2 DEF VaultOK, SupplyIsSum, Backed, SameShares, SameCycle, SameAssets
<1>4. TotalAssets(u) = TotalAssets(t)
  BY <1>2 DEF TotalAssets, SameCycle, SameAssets
<1> QED BY <1>2, <1>3, <1>4, NothingMoves DEF SameShares, u

(* syncRewards releases what the last cycle had and starts from there. *)
LEMMA SyncRewardsOK ==
  ASSUME NEW t, VaultOK(t), CanSyncRewards(t)
  PROVE  LET u == SyncRewards(t) IN VaultOK(u) /\ PriceKept(t, u)
<1> DEFINE u == SyncRewards(t)
           n == NextRewardsAmt(t)
           c == RewardsCycleLength
           q == (now + c) \div c
           ce == q * c
           r == t.totalReleasedAssets + t.lastRewardsAmt
<1>1. /\ t \in TokenStorage /\ now \in Nat /\ t.totalReleasedAssets \in Nat
      /\ t.lastRewardsAmt \in Nat /\ t.wavax \in Nat /\ t.stakingTotalAssets \in Nat
  BY VaultFields DEF VaultOK
<1>2. n \in Nat /\ t.wavax + t.stakingTotalAssets = r + n
  BY <1>1 DEF NextRewardsAmt, CanSyncRewards
<1>3. ce \in Nat /\ ce > now
  <2>1. c \in Nat \ {0} /\ now + c \in Nat
    BY <1>1, Constants
  <2> HIDE DEF c
  <2>2. q \in Nat /\ now + c < (q + 1) * c
    BY <2>1, DivBounds
  <2> HIDE DEF q
  <2>3. (q + 1) * c = q * c + c /\ q * c \in Nat
    BY <2>1, <2>2
  <2> QED BY <1>1, <2>1, <2>2, <2>3
<1>4. r \in Nat /\ TotalAssets(t) = r
  BY <1>1 DEF TotalAssets, CanSyncRewards
<1>5. u = [wavax |-> t.wavax, totalReleasedAssets |-> r,
           stakingTotalAssets |-> t.stakingTotalAssets, lastRewardsAmt |-> n,
           lastSync |-> now, rewardsCycleEnd |-> ce,
           totalSupply |-> t.totalSupply, balanceOf |-> t.balanceOf,
           paused |-> t.paused]
  <2> HIDE DEF u, n
  <2>1. u = [t EXCEPT !.lastRewardsAmt = n, !.lastSync = now,
                      !.rewardsCycleEnd = ce, !.totalReleasedAssets = r]
    BY <1>1 DEF SyncRewards, TokenStorage, u, n
  <2> HIDE DEF ce, r
  <2> QED BY <1>1, <2>1 DEF TokenStorage
<1> HIDE DEF u, n, ce, r
<1>6. /\ u \in TokenStorage /\ u.wavax = t.wavax /\ u.totalReleasedAssets = r
      /\ u.stakingTotalAssets = t.stakingTotalAssets /\ u.lastRewardsAmt = n
      /\ u.lastSync = now /\ u.rewardsCycleEnd = ce
      /\ SameShares(t, u)
  BY <1>1, <1>2, <1>3, <1>4, <1>5 DEF TokenStorage, SameShares
<1>7. VaultOK(u)
  BY <1>1, <1>2, <1>4, <1>6 DEF VaultOK, SupplyIsSum, Backed, SameShares
<1>8. TotalAssets(u) = r
  <2>1. MulDivDown(n, 0, ce - now) = 0
    <3>1. n * 0 = 0 /\ ce - now \in Nat \ {0}
      BY <1>1, <1>2, <1>3
    <3> QED BY <3>1 DEF MulDivDown
  <2>2. TotalAssets(u) = r + MulDivDown(n, now - now, ce - now)
    BY <1>1, <1>3, <1>6 DEF TotalAssets
  <2> QED BY <1>1, <1>4, <2>1, <2>2
<1> QED BY <1>4, <1>6, <1>7, <1>8, NothingMoves DEF SameShares, u

-----------------------------------------------------------------------------
(* The steps *)

PriceStep == TotalAssets(token)' * token.totalSupply
               >= TotalAssets(token) * token.totalSupply'

DeferStep == now' = now /\ token.totalSupply' = token.totalSupply
               => TotalAssets(token)' = TotalAssets(token)

(* initialize leaves a vault that is backed by the seed. *)
LEMMA InitOK == TokenInit => VaultOK(token)
<1> SUFFICES ASSUME TokenInit PROVE VaultOK(token)
  OBVIOUS
<1> DEFINE b == [a \in Accounts |-> IF a = Self THEN Seed ELSE 0]
           z == [a \in Accounts |-> 0]
<1>1. b \in [Accounts -> Nat] /\ b[Self] = Seed
  BY Constants
<1>2. /\ \A x \in Accounts : z[x] \in Int /\ b[x] \in Int /\ z[x] = 0
      /\ \A x \in Accounts \ {Self} : b[x] = z[x]
      /\ z[Self] = 0 /\ IsFiniteSet(Accounts) /\ Self \in Accounts
  BY Constants
<1> DEFINE e == (StartTime \div RewardsCycleLength) * RewardsCycleLength
<1>3. token = [wavax |-> Seed, totalReleasedAssets |-> Seed,
               stakingTotalAssets |-> 0, lastRewardsAmt |-> 0,
               lastSync |-> 0, rewardsCycleEnd |-> e,
               totalSupply |-> Seed, balanceOf |-> b, paused |-> FALSE]
      /\ now = StartTime
  BY DEF TokenInit
<1>9. e \in Nat /\ now >= e
  <2> DEFINE c == RewardsCycleLength
             q == StartTime \div c
  <2>1. c \in Nat \ {0} /\ StartTime \in Nat
    BY Constants
  <2> HIDE DEF c
  <2>2. q \in Nat /\ q * c <= StartTime
    BY <2>1, DivBounds
  <2> HIDE DEF q
  <2>3. q * c \in Nat
    BY <2>1, <2>2
  <2> QED BY <1>3, <2>2, <2>3 DEF q, c
<1> HIDE DEF e
<1> HIDE DEF b, z
<1>4. SumFunctionOnSet(z, Accounts) = 0
  BY <1>2, SumZero
<1>5. SumFunctionOnSet(b, Accounts) = SumFunctionOnSet(z, Accounts) - z[Self] + b[Self]
  BY <1>2, SumUpdate
<1>6. SumFunctionOnSet(b, Accounts) = Seed
  BY <1>1, <1>2, <1>4, <1>5, Constants
<1>7. token \in TokenStorage
  BY <1>1, <1>3, <1>9, Constants DEF TokenStorage
<1>8. /\ token.totalSupply = Seed /\ token.balanceOf = b /\ token.lastSync = 0
      /\ token.wavax = Seed /\ token.totalReleasedAssets = Seed
      /\ token.stakingTotalAssets = 0 /\ token.lastRewardsAmt = 0
      /\ token.rewardsCycleEnd = e
  BY <1>3
<1> QED BY <1>1, <1>3, <1>6, <1>7, <1>8, <1>9, Constants DEF VaultOK, SupplyIsSum, Backed

(* A transaction is a step from one storage to another within a block. *)
LEMMA TxOK ==
  ASSUME VaultOK(token), NEW STATE u, VaultOK(u), PriceKept(token, u),
         token' = u, now' = now
  PROVE  VaultOK(token)' /\ PriceStep /\ DeferStep
<1>1. TotalAssets(token)' = TotalAssets(u)
  BY DEF TotalAssets
<1>2. VaultOK(token)'
  BY DEF VaultOK, SupplyIsSum, Backed
<1> QED BY <1>1, <1>2 DEF PriceKept, PriceStep, DeferStep

(* Time unlocks more of the current cycle, never less. *)
LEMMA TickOK ==
  ASSUME VaultOK(token), Tick
  PROVE  VaultOK(token)' /\ PriceStep /\ DeferStep
<1>1. now' = now + 1 /\ token' = token /\ now \in Nat
  BY DEF Tick, VaultOK
<1> DEFINE R == token.totalReleasedAssets
           L == token.lastRewardsAmt
           s == token.lastSync
           e == token.rewardsCycleEnd
           A == TotalAssets(token)
           B == TotalAssets(token)'
           S == token.totalSupply
<1>2. /\ R \in Nat /\ L \in Nat /\ s \in Nat /\ e \in Nat /\ s <= now
      /\ S \in Nat /\ A \in Nat /\ A <= R + L
  BY VaultFields, TotalAssetsBounds DEF VaultOK
<1>3. VaultOK(token)'
  BY <1>1, <1>2 DEF VaultOK, SupplyIsSum, Backed
<1>4. B \in Nat /\ A <= B
  <2>1. CASE now' >= e
    <3>1. B = R + L
      BY <1>1, <2>1 DEF TotalAssets
    <3> QED BY <1>2, <3>1
  <2>2. CASE ~(now' >= e)
    <3>1. /\ A = R + MulDivDown(L, now - s, e - s)
          /\ B = R + MulDivDown(L, now + 1 - s, e - s)
      BY <1>1, <1>2, <2>2 DEF TotalAssets
    <3>2. /\ now - s \in Nat /\ now + 1 - s \in Nat /\ e - s \in Nat \ {0}
          /\ now - s <= now + 1 - s
      BY <1>1, <1>2, <2>2
    <3> DEFINE x == now - s
               y == now + 1 - s
               d == e - s
    <3>3. MulDivDown(L, x, d) <= MulDivDown(L, y, d) /\ MulDivDown(L, y, d) \in Nat
          /\ MulDivDown(L, x, d) \in Nat
      <4> HIDE DEF x, y, d
      <4> QED BY <1>2, <3>2, MulDivDownMonotone, MulDivDownBounds DEF x, y, d
    <3> QED BY <1>2, <3>1, <3>3
  <2> QED BY <2>1, <2>2
<1>5. token.totalSupply' = S
  BY <1>1
<1> HIDE DEF A, B, S
<1>6. B * S >= A * S
  <2>1. B * S = A * S + (B - A) * S /\ (B - A) * S \in Nat /\ A * S \in Nat
    BY <1>2, <1>4
  <2> QED BY <2>1
<1>7. PriceStep
  BY <1>5, <1>6 DEF PriceStep, A, B, S
<1>8. DeferStep
  BY <1>1 DEF DeferStep
<1> QED BY <1>3, <1>7, <1>8

(* Every step keeps the invariant and the price. *)
LEMMA NextOK ==
  ASSUME VaultOK(token), [TokenNext]_tokenVars
  PROVE  VaultOK(token)' /\ PriceStep /\ DeferStep
<1> DEFINE Goal == VaultOK(token)' /\ PriceStep /\ DeferStep
<1> USE DEF tokenVars
<1>1. /\ Amounts \subseteq Nat \ {0} /\ FeeBips \subseteq 0..Bips /\ Pauses \subseteq BOOLEAN
      /\ Receivers \subseteq Accounts
  BY TokenConstants
<1>2. ASSUME NEW a \in Accounts, NEW x \in Amounts, DepositTx(a, x)
      PROVE  Goal
  BY <1>1, <1>2, DepositAVAXOK, TxOK DEF DepositTx
<1>3. ASSUME NEW a \in Accounts, NEW x \in Amounts, MintTx(a, x)
      PROVE  Goal
  BY <1>1, <1>3, MintOK, TxOK DEF MintTx
<1>4. ASSUME NEW a \in Accounts, NEW x \in Amounts, DonateYieldTx(a, x)
      PROVE  Goal
  BY <1>1, <1>4, DonateYieldOK, TxOK DEF DonateYieldTx
<1>5. ASSUME NEW a \in Accounts, NEW b \in Accounts, NEW x \in Amounts,
             TransferTx(a, b, x)
      PROVE  Goal
  <2> DEFINE u == TransferShares(token, a, b, x)
  <2>1. a # Self /\ x \in Nat /\ x <= token.balanceOf[a]
    BY <1>1, <1>5, SupplyBounds DEF TransferTx, CanTransfer
  <2>2. VaultOK(u) /\ u.totalSupply = token.totalSupply
        /\ SameCycle(token, u) /\ SameAssets(token, u)
    BY <2>1, TransferSharesOK
  <2>3. token' = u /\ now' = now
    BY <1>5 DEF TransferTx
  <2> HIDE DEF u
  <2>4. TotalAssets(u) = TotalAssets(token)
    BY <2>2 DEF TotalAssets, SameCycle, SameAssets
  <2>5. PriceKept(token, u)
    BY <2>2, <2>4, NothingMoves
  <2> QED BY <2>2, <2>3, <2>5, TxOK
<1>6. ASSUME NEW f \in FeeBips, NEW x \in Amounts, DepositYieldTx(x, f)
      PROVE  Goal
  BY <1>1, <1>6, DepositYieldOK, TxOK DEF DepositYieldTx
<1>7. ASSUME NEW f \in FeeBips, NEW x \in Amounts \cup {0}, NEW y \in Amounts \cup {0},
             DepositFromStakingTx(x, y, f)
      PROVE  Goal
  BY <1>1, <1>7, DepositFromStakingOK, TxOK DEF DepositFromStakingTx
<1>8. ASSUME NEW x \in Amounts, WithdrawForStakingTx(x) \/ WithdrawForMinipoolTx(x)
      PROVE  Goal
  BY <1>1, <1>8, WithdrawForStakingOK, TxOK
     DEF WithdrawForStakingTx, WithdrawForMinipoolTx
<1>9. CASE SyncRewardsTx
  BY <1>9, SyncRewardsOK, TxOK DEF SyncRewardsTx
<1>10. ASSUME NEW b \in Pauses, SetTokenPausedTx(b)
       PROVE  Goal
  BY <1>1, <1>10, SetPausedOK, TxOK DEF SetTokenPausedTx
<1>11. CASE Tick
  BY <1>11, TickOK
<1>12. ASSUME NEW a \in Accounts, NEW x \in Amounts, RedeemTx(a, x)
       PROVE  Goal
  BY <1>1, <1>12, RedeemAVAXOK, TxOK DEF RedeemTx
<1>13. ASSUME NEW a \in Accounts, NEW x \in Amounts, WithdrawTx(a, x)
       PROVE  Goal
  BY <1>1, <1>13, WithdrawAVAXOK, TxOK DEF WithdrawTx
<1>14. CASE UNCHANGED tokenVars
  <2>1. token' = token /\ now' = now
    BY <1>14
  <2>2. PriceKept(token, token)
    BY NothingMoves
  <2> QED BY <2>1, <2>2, TxOK
<1>15. CASE HolderNext(Accounts)
  BY <1>1, <1>15, <1>2, <1>3, <1>4, <1>5 DEF HolderNext
<1>16. CASE YieldNext
  BY <1>16, <1>6, <1>7 DEF YieldNext
<1>17. CASE ProtocolNext
  BY <1>17, <1>8, <1>9, <1>10, <1>11 DEF ProtocolNext
<1>18. CASE RedeemerNext
  BY <1>18, <1>12, <1>13 DEF RedeemerNext
<1>19. CASE MinipoolsNext
  BY <1>19, <1>8 DEF MinipoolsNext
<1> QED BY <1>14, <1>15, <1>16, <1>17, <1>18, <1>19 DEF TokenNext

-----------------------------------------------------------------------------
(* The theorems *)

(* VaultOK is an invariant of the vault. *)
THEOREM VaultInvariant == TokenSpec => []VaultOK(token)
<1>1. VaultOK(token) /\ [TokenNext]_tokenVars => VaultOK(token)'
  BY NextOK
<1> QED BY InitOK, <1>1, PTL DEF TokenSpec

(* The storage keeps its type: no subtraction goes below zero, the         *)
(* unchecked one of _burn included.                                        *)
THEOREM TypeCorrect == TokenSpec => []TokenTypeOK
<1>1. VaultOK(token) => TokenTypeOK
  BY DEF VaultOK, TokenTypeOK
<1> QED BY VaultInvariant, <1>1, PTL

(* The supply of shares is the sum of the balances. *)
THEOREM SupplyCorrect == TokenSpec => []SupplyIsSumOfBalances
<1>1. VaultOK(token) => SupplyIsSumOfBalances
  BY DEF VaultOK, SupplyIsSum, SupplyIsSumOfBalances
<1> QED BY VaultInvariant, <1>1, PTL

(* WAVAX and stakes cover what is released and what the cycle unlocks, so  *)
(* the subtraction of syncRewards never reverts.                           *)
THEOREM AlwaysBacked == TokenSpec => []VaultBacked
<1>1. VaultOK(token) => VaultBacked
  BY DEF VaultOK, VaultBacked
<1> QED BY VaultInvariant, <1>1, PTL

(* A deposit redeemed in the same block pays no more than it took: the      *)
(* shares are rounded down, and so is what they are worth afterwards.       *)
LEMMA DepositNoGain ==
  ASSUME VaultOK(token), NEW x \in Amounts, NEW a \in Accounts, CanDepositAVAX(token, x)
  PROVE  ConvertToAssets(DepositAVAX(token, a, x), ConvertToShares(token, x)) <= x
<1> DEFINE A == TotalAssets(token)
           S == token.totalSupply
           s == ConvertToShares(token, x)
           u == DepositAVAX(token, a, x)
           q == MulDivDown(s, A + x, S + s)
<1>1. x \in Nat /\ A \in Nat /\ S \in Nat \ {0}
  BY TokenConstants, TotalAssetsBounds, SupplyBounds
<1>2. s \in Nat \ {0} /\ s * A <= x * S
  BY <1>1, DepositAVAXOK
<1>3. u.totalSupply = S + s /\ TotalAssets(u) = A + x
  BY <1>1, DepositAVAXOK
<1> HIDE DEF A, S, s, u
<1>4. q \in Nat /\ q * (S + s) <= s * (A + x)
  <2>1. S + s \in Nat \ {0} /\ A + x \in Nat
    BY <1>1, <1>2
  <2> QED BY <1>2, <2>1, MulDivDownBounds
<1>5. ConvertToAssets(u, s) = q
  BY <1>1, <1>2, <1>3 DEF ConvertToAssets, AssetsFor
<1> HIDE DEF q
<1>6. q * (S + s) <= x * (S + s)
  <2>1. s * (A + x) = s * A + s * x /\ x * (S + s) = x * S + s * x
    BY <1>1, <1>2
  <2>2. s * A \in Nat /\ s * x \in Nat /\ x * S \in Nat /\ q * (S + s) \in Nat
    BY <1>1, <1>2, <1>4
  <2> DEFINE m == q * (S + s)
             n == s * (A + x)
             k == x * (S + s)
             g == s * A
             h == s * x
             j == x * S
  <2>3. m <= n /\ n = g + h /\ k = j + h /\ g <= j
        /\ g \in Nat /\ h \in Nat /\ j \in Nat /\ m \in Nat
    BY <1>2, <1>4, <2>1, <2>2
  <2> HIDE DEF m, n, k, g, h, j
  <2>4. m <= k
    BY <2>3
  <2> QED BY <2>4 DEF m, k
<1>7. q <= x
  <2> SUFFICES ASSUME q > x PROVE FALSE
    BY <1>1, <1>4
  <2> DEFINE d == S + s
  <2>1. d \in Nat \ {0}
    BY <1>1, <1>2
  <2> HIDE DEF d
  <2>2. q * d = x * d + (q - x) * d
    BY <1>1, <1>4, <2>1
  <2>3. (q - x) * d = d + (q - x - 1) * d /\ (q - x - 1) * d \in Nat
    BY <1>1, <1>4, <2>1
  <2>4. x * d \in Nat
    BY <1>1, <2>1
  <2>5. q * d <= x * d
    BY <1>6 DEF d
  <2> QED BY <2>1, <2>2, <2>3, <2>4, <2>5
<1> QED BY <1>5, <1>7 DEF s, u

(* No deposit can be redeemed for more in the same block. *)
THEOREM NoProfit == TokenSpec => []NoInstantProfit
<1>1. VaultOK(token) => NoInstantProfit
  BY DepositNoGain DEF NoInstantProfit
<1> QED BY VaultInvariant, <1>1, PTL

(* The proportions of the holders, rounded down, add up to no more than the *)
(* assets they are proportions of.                                          *)
LEMMA ClaimsNow ==
  ASSUME VaultOK(token)
  PROVE  ClaimsCovered
<1> DEFINE A == TotalAssets(token)
           S == token.totalSupply
           b == token.balanceOf
           h == [a \in Accounts |-> ConvertToAssets(token, b[a])]
           H == SumFunctionOnSet(h, Accounts)
<1>1. A \in Nat /\ S \in Nat \ {0} /\ b \in [Accounts -> Nat]
  BY TotalAssetsBounds, SupplyBounds, VaultFields DEF VaultOK
<1>2. \A a \in Accounts : b[a] \in Nat /\ h[a] \in Nat /\ h[a] * S <= b[a] * A
  <2> SUFFICES ASSUME NEW a \in Accounts
               PROVE  b[a] \in Nat /\ h[a] \in Nat /\ h[a] * S <= b[a] * A
    OBVIOUS
  <2>1. h[a] = MulDivDown(b[a], A, S) /\ b[a] \in Nat
    BY <1>1 DEF ConvertToAssets, AssetsFor
  <2> HIDE DEF A, S, b, h
  <2> QED BY <1>1, <2>1, MulDivDownBounds
<1>3. A <= token.wavax + token.stakingTotalAssets
  BY TotalAssetsBounds, VaultFields DEF VaultOK, Backed
<1>4. SumFunctionOnSet(b, Accounts) = S
  BY DEF VaultOK, SupplyIsSum
<1>5. IsFiniteSet(Accounts)
  BY Constants
<1> HIDE DEF A, S, b, h
<1>6. H \in Nat
  BY <1>2, <1>5, SumType
<1>7. H * S <= S * A
  BY <1>1, <1>2, <1>4, <1>5, SumProportion
<1>8. H <= A
  <2> HIDE DEF H
  <2> SUFFICES ASSUME H > A PROVE FALSE
    BY <1>1, <1>6
  <2>1. H * S = S * A + (H - A) * S
    BY <1>1, <1>6
  <2>2. (H - A) * S = S + (H - A - 1) * S /\ (H - A - 1) * S \in Nat /\ S * A \in Nat
    BY <1>1, <1>6
  <2> QED BY <1>1, <1>7, <2>1, <2>2
<1>9. token.wavax + token.stakingTotalAssets \in Nat
  BY VaultFields DEF VaultOK
<1>10. H <= token.wavax + token.stakingTotalAssets
  BY <1>1, <1>3, <1>6, <1>8, <1>9
<1> QED BY <1>10 DEF ClaimsCovered, H, h, b

(* Every claim on the vault, converted at once, is covered. *)
THEOREM ClaimsCorrect == TokenSpec => []ClaimsCovered
<1>1. VaultOK(token) => ClaimsCovered
  BY ClaimsNow
<1> QED BY VaultInvariant, <1>1, PTL

(* The assets behind a share never fall. *)
THEOREM PriceCorrect == TokenSpec => PriceNeverFalls
<1>1. VaultOK(token) /\ [TokenNext]_tokenVars => [PriceStep]_tokenVars
  BY NextOK
<1>2. TokenSpec => [][PriceStep]_tokenVars
  BY VaultInvariant, <1>1, PTL DEF TokenSpec
<1> QED BY <1>2 DEF PriceStep, PriceNeverFalls

(* Within a block the assets move only with the supply. *)
THEOREM DeferCorrect == TokenSpec => YieldIsDeferred
<1>1. VaultOK(token) /\ [TokenNext]_tokenVars => [DeferStep]_tokenVars
  BY NextOK
<1>2. TokenSpec => [][DeferStep]_tokenVars
  BY VaultInvariant, <1>1, PTL DEF TokenSpec
<1> QED BY <1>2 DEF DeferStep, YieldIsDeferred
=============================================================================
