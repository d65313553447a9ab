--------------------------- MODULE Rewards_proofs ---------------------------
(***************************************************************************)
(* The rewards in GGP keep to what Rewards promises of them, for every set *)
(* of owners and multisigs, every inflation rate, cycle length, supply and *)
(* collateral ratio: stakes are banked, the rewards that orderly rounds    *)
(* have credited are funded, inflation is on schedule, a due cycle can     *)
(* start and an orderly round goes through.                                *)
(*                                                                         *)
(* IInv is the inductive invariant.  What makes it inductive is FundsInv:  *)
(* that the GGP behind the rewards covers what is credited does not follow *)
(* from a payment alone, one has to know that, multiplied by the total of  *)
(* the round, it still covers the part of the total of those who are left. *)
(***************************************************************************)
EXTENDS Rewards, ShareMath_proofs, SumTheorems

(* The part of the assumptions on the constants that the proofs rest on. *)
LEMMA Constants ==
  /\ Ether \in Nat \ {0} /\ IsFiniteSet(Owners) /\ IsFiniteSet(Multisigs)
  /\ MaxCollateralizationRatio \in Nat
  /\ InflationIntervalRate \in Nat /\ InflationIntervalRate >= Ether
  /\ InflationIntervalSeconds \in Nat \ {0} /\ RewardsCycleSeconds \in Nat \ {0}
  /\ InitialSupply \in Nat /\ MaxSupply \in Nat /\ InitialSupply <= MaxSupply
  /\ FirstPcts \in [Claimers -> 0..Ether] /\ PctChoices \subseteq Claimers \X (0..Ether)
  /\ GGPPrices \subseteq Nat \ {0} /\ FirstPrice \in Nat \ {0}
  /\ GGPAmounts \subseteq Nat /\ ClaimAmounts \subseteq Nat /\ Slashes \subseteq Nat
  /\ Assignments \subseteq Nat \ {0} /\ Compounded \subseteq Nat
  /\ PausedContracts \subseteq {"RewardsPool", "Staking"}
  /\ StartTime \in Nat \ {0} /\ InitializedAt \in Nat /\ InitializedAt <= StartTime
BY RewardsConstants

-----------------------------------------------------------------------------
(* Inflation *)

Grow(supply) == MulWadDown(supply, InflationIntervalRate)

(* The recursion of inflate has a solution: it is built one interval at a  *)
(* time.                                                                   *)
LEMMA InflatedExists ==
  ASSUME NEW s
  PROVE  \E g : g = [i \in Nat |-> IF i = 0 THEN s ELSE Grow(g[i - 1])]
<1> DEFINE Upto(n, g) == g = [i \in 0..n |-> IF i = 0 THEN s ELSE Grow(g[i - 1])]
           Has == {n \in Nat : \E g : Upto(n, g)}
<1>1. 0 \in Has
  <2>1. Upto(0, [i \in 0..0 |-> s])
    OBVIOUS
  <2> QED BY <2>1
<1>2. ASSUME NEW n \in Nat, n \in Has PROVE n + 1 \in Has
  <2>1. PICK g : Upto(n, g)
    BY <1>2
  <2> DEFINE h == [i \in 0..(n + 1) |-> IF i = n + 1 THEN Grow(g[n]) ELSE g[i]]
  <2>2. ASSUME NEW i \in 0..(n + 1)
        PROVE  h[i] = IF i = 0 THEN s ELSE Grow(h[i - 1])
    <3>1. CASE i = n + 1
      <4>1. h[i] = Grow(g[n]) /\ h[n] = g[n] /\ i - 1 = n /\ i # 0
        BY <3>1
      <4> QED BY <4>1
    <3>2. CASE i # n + 1
      <4>1. i \in 0..n /\ h[i] = g[i]
        BY <3>2
      <4>2. g[i] = IF i = 0 THEN s ELSE Grow(g[i - 1])
        BY <2>1, <4>1
      <4>3. i # 0 => h[i - 1] = g[i - 1]
        BY <4>1
      <4> QED BY <4>1, <4>2, <4>3
    <3> QED BY <3>1, <3>2
  <2>3. Upto(n + 1, h)
    <3>1. h = [i \in 0..(n + 1) |-> h[i]]
      OBVIOUS
    <3> HIDE DEF h
    <3> QED BY <3>1, <2>2
  <2> HIDE DEF h
  <2> QED BY <2>3
<1>3. \A n \in Nat : \E g : Upto(n, g)
  <2> HIDE DEF Has
  <2>1. Nat \subseteq Has
    BY <1>1, <1>2, NatSetInduction
  <2> QED BY <2>1 DEF Has
<1> DEFINE Sol(n) == CHOOSE g : Upto(n, g)
           G == [i \in Nat |-> Sol(i)[i]]
<1>4. \A n \in Nat : Upto(n, Sol(n))
  BY <1>3
<1>5. \A n \in Nat : \A i \in 0..n : Sol(n)[i] = IF i = 0 THEN s ELSE Grow(Sol(n)[i - 1])
  <2> SUFFICES ASSUME NEW n \in Nat, NEW i \in 0..n
               PROVE  Sol(n)[i] = IF i = 0 THEN s ELSE Grow(Sol(n)[i - 1])
    OBVIOUS
  <2> HIDE DEF Sol
  <2> QED BY <1>4
<1> HIDE DEF Sol
<1>6. ASSUME NEW n \in Nat
      PROVE  \A i \in 0..n : Sol(n + 1)[i] = Sol(n)[i]
  <2> DEFINE Same == {i \in Nat : i <= n => Sol(n + 1)[i] = Sol(n)[i]}
  <2>1. 0 \in Same
    BY <1>5
  <2>2. ASSUME NEW i \in Nat, i \in Same PROVE i + 1 \in Same
    <3> SUFFICES ASSUME i + 1 <= n PROVE Sol(n + 1)[i + 1] = Sol(n)[i + 1]
      OBVIOUS
    <3>1. Sol(n + 1)[i] = Sol(n)[i]
      BY <2>2
    <3>2. Sol(n + 1)[i + 1] = Grow(Sol(n + 1)[i]) /\ Sol(n)[i + 1] = Grow(Sol(n)[i])
      <4>1. i + 1 \in 0..n /\ i + 1 \in 0..(n + 1) /\ (i + 1) - 1 = i /\ i + 1 # 0 /\ n + 1 \in Nat
        OBVIOUS
      <4> QED BY <4>1, <1>5
    <3> QED BY <3>1, <3>2
  <2> HIDE DEF Same
  <2>3. Nat \subseteq Same
    BY <2>1, <2>2, NatSetInduction
  <2> QED BY <2>3 DEF Same
<1>7. \A i \in Nat : G[i] = IF i = 0 THEN s ELSE Grow(G[i - 1])
  <2> SUFFICES ASSUME NEW i \in Nat PROVE G[i] = IF i = 0 THEN s ELSE Grow(G[i - 1])
    OBVIOUS
  <2>1. G[i] = Sol(i)[i] /\ (i # 0 => G[i - 1] = Sol(i - 1)[i - 1])
    OBVIOUS
  <2>2. Sol(i)[i] = IF i = 0 THEN s ELSE Grow(Sol(i)[i - 1])
    BY <1>5
  <2>3. i # 0 => Sol(i)[i - 1] = Sol(i - 1)[i - 1]
    <3> SUFFICES ASSUME i # 0 PROVE Sol(i)[i - 1] = Sol(i - 1)[i - 1]
      OBVIOUS
    <3>1. i - 1 \in Nat /\ (i - 1) + 1 = i /\ i - 1 \in 0..(i - 1)
      OBVIOUS
    <3> QED BY <3>1, <1>6
  <2> QED BY <2>1, <2>2, <2>3
<1>8. G = [i \in Nat |-> IF i = 0 THEN s ELSE Grow(G[i - 1])]
  <2>1. G = [i \in Nat |-> G[i]]
    OBVIOUS
  <2> HIDE DEF G
  <2> QED BY <2>1, <1>7
<1> QED BY <1>8

(* What a supply grows to follows the recursion. *)
LEMMA InflatedUnfold ==
  ASSUME NEW s
  PROVE  /\ Inflated(s)[0] = s
         /\ \A i \in Nat : Inflated(s)[i + 1] = Grow(Inflated(s)[i])
<1> DEFINE G == Inflated(s)
<1>1. G = [i \in Nat |-> IF i = 0 THEN s ELSE Grow(G[i - 1])]
  BY InflatedExists DEF Inflated, Grow
<1> HIDE DEF G
<1>2. G[0] = s
  BY <1>1
<1>3. ASSUME NEW i \in Nat PROVE G[i + 1] = Grow(G[i])
  <2>1. i + 1 \in Nat /\ i + 1 # 0 /\ (i + 1) - 1 = i
    OBVIOUS
  <2> QED BY <1>1, <2>1
<1> QED BY <1>2, <1>3 DEF G

(* Inflation never shrinks a supply, a larger supply grows to a larger one, *)
(* and intervals add up.                                                    *)
LEMMA GrowFacts ==
  ASSUME NEW s \in Nat
  PROVE  /\ Grow(s) \in Nat /\ Grow(s) >= s
         /\ \A t \in Nat : s <= t => Grow(s) <= Grow(t)
<1> DEFINE R == InflationIntervalRate
<1>1. R \in Nat /\ Ether \in Nat \ {0} /\ R >= Ether
  BY Constants
<1>2. s * Ether <= s * R
  <2>1. s * R = s * Ether + s * (R - Ether) /\ s * (R - Ether) \in Nat /\ s * Ether \in Nat
    BY <1>1
  <2> QED BY <2>1
<1>3. s * R \in Nat
  BY <1>1
<1>4. (s * R) \div Ether \in Nat /\ s <= (s * R) \div Ether
  BY <1>1, <1>2, <1>3, DivBounds, DivLowerBound
<1>5. ASSUME NEW t \in Nat, s <= t PROVE (s * R) \div Ether <= (t * R) \div Ether
  <2>1. s * R <= t * R
    BY <1>1, <1>5, ProductMonotone
  <2>2. ((s * R) \div Ether) * Ether <= s * R /\ t * R \in Nat
    BY <1>1, <1>3, DivBounds
  <2>3. ((s * R) \div Ether) * Ether <= t * R
    <3> HIDE DEF R
    <3>1. ((s * R) \div Ether) * Ether \in Nat
      BY <1>1, <1>4
    <3> QED BY <2>1, <2>2, <3>1, <1>3
  <2> QED BY <1>1, <1>4, <2>2, <2>3, DivLowerBound
<1> QED BY <1>4, <1>5 DEF Grow, MulWadDown, MulDivDown

(* It is a number, and grows with the intervals. *)
LEMMA InflatedType ==
  ASSUME NEW s \in Nat
  PROVE  \A i \in Nat : Inflated(s)[i] \in Nat /\ Inflated(s)[i] <= Inflated(s)[i + 1]
<1> DEFINE G == Inflated(s)
           Good == {i \in Nat : G[i] \in Nat}
<1>1. G[0] = s /\ \A i \in Nat : G[i + 1] = Grow(G[i])
  BY InflatedUnfold
<1> HIDE DEF G
<1>2. 0 \in Good
  BY <1>1
<1>3. ASSUME NEW i \in Nat, i \in Good PROVE i + 1 \in Good
  <2>1. G[i] \in Nat
    BY <1>3
  <2>2. Grow(G[i]) \in Nat
    BY <2>1, GrowFacts
  <2> QED BY <1>1, <2>2
<1> HIDE DEF Good
<1>4. Nat \subseteq Good
  BY <1>2, <1>3, NatSetInduction
<1>5. \A i \in Nat : G[i] \in Nat
  BY <1>4 DEF Good
<1> QED BY <1>1, <1>5, GrowFacts DEF G

(* More intervals, a larger supply. *)
LEMMA InflatedMonotone ==
  ASSUME NEW s \in Nat, NEW i \in Nat, NEW j \in Nat, i <= j
  PROVE  Inflated(s)[i] <= Inflated(s)[j]
<1> DEFINE G == Inflated(s)
           Good == {k \in Nat : G[i] <= G[i + k]}
<1>1. \A k \in Nat : G[k] \in Nat /\ G[k] <= G[k + 1]
  BY InflatedType
<1> HIDE DEF G
<1>2. 0 \in Good
  BY <1>1
<1>3. ASSUME NEW k \in Nat, k \in Good PROVE k + 1 \in Good
  <2>1. G[i + k] <= G[(i + k) + 1] /\ (i + k) + 1 = i + (k + 1) /\ i + k \in Nat
    BY <1>1
  <2>2. G[i + k] \in Nat /\ G[i] \in Nat /\ G[i + (k + 1)] \in Nat
    BY <1>1
  <2> QED BY <1>3, <2>1, <2>2
<1> HIDE DEF Good
<1>4. Nat \subseteq Good
  BY <1>2, <1>3, NatSetInduction
<1>5. j - i \in Good /\ i + (j - i) = j
  BY <1>4
<1> QED BY <1>5 DEF G, Good

(* A supply that has grown no more than another did in m intervals grows   *)
(* on to no more than the other does in m + k: starting a cycle between    *)
(* does not add inflation.                                                 *)
LEMMA InflatedCompose ==
  ASSUME NEW s \in Nat, NEW t \in Nat, NEW m \in Nat, s <= Inflated(t)[m]
  PROVE  \A k \in Nat : Inflated(s)[k] <= Inflated(t)[m + k]
<1> DEFINE F == Inflated(s)
           G == Inflated(t)
           Good == {k \in Nat : F[k] <= G[m + k]}
<1>1. F[0] = s /\ \A k \in Nat : F[k] \in Nat /\ F[k + 1] = Grow(F[k])
  BY InflatedType, InflatedUnfold
<1>2. \A k \in Nat : G[k] \in Nat /\ G[k + 1] = Grow(G[k])
  BY InflatedType, InflatedUnfold
<1>3. F[0] <= G[m]
  BY <1>1
<1> HIDE DEF F, G
<1>4. 0 \in Good
  BY <1>3
<1>5. ASSUME NEW k \in Nat, k \in Good PROVE k + 1 \in Good
  <2>1. G[(m + k) + 1] = Grow(G[m + k]) /\ (m + k) + 1 = m + (k + 1) /\ m + k \in Nat
    BY <1>2
  <2>2. F[k] <= G[m + k] /\ F[k] \in Nat /\ G[m + k] \in Nat
    BY <1>1, <1>2, <1>5
  <2>3. Grow(F[k]) <= Grow(G[m + k])
    BY <2>2, GrowFacts
  <2>4. F[k + 1] = Grow(F[k])
    BY <1>1
  <2> QED BY <2>1, <2>3, <2>4
<1> HIDE DEF Good
<1>6. Nat \subseteq Good
  BY <1>4, <1>5, NatSetInduction
<1> QED BY <1>6 DEF F, G, Good

-----------------------------------------------------------------------------
(* The Vault *)

InAllVault(v) == SumFunctionOnSet(v.ggp, NetworkContracts)

(* The contracts that bank in the Vault are finitely many. *)
LEMMA ContractsFinite == IsFiniteSet(NetworkContracts)
<1>1. IsFiniteSet({"Staking"})
  BY FS_Singleton
<1>2. IsFiniteSet({"Staking"} \cup {"ProtocolDAO"})
  BY <1>1, FS_AddElement
<1>3. IsFiniteSet({"Staking"} \cup {"ProtocolDAO"} \cup {"RewardsPool"})
  BY <1>2, FS_AddElement
<1>4. IsFiniteSet({"Staking"} \cup {"ProtocolDAO"} \cup {"RewardsPool"} \cup {"ClaimNodeOp"})
  BY <1>3, FS_AddElement
<1>5. IsFiniteSet({"Staking"} \cup {"ProtocolDAO"} \cup {"RewardsPool"} \cup {"ClaimNodeOp"}
                  \cup {"ClaimProtocolDAO"})
  BY <1>4, FS_AddElement
<1>6. IsFiniteSet({"Staking"} \cup {"ProtocolDAO"} \cup {"RewardsPool"} \cup {"ClaimNodeOp"}
                  \cup {"ClaimProtocolDAO"} \cup {"MultisigManager"})
  BY <1>5, FS_AddElement
<1>7. NetworkContracts = {"Staking"} \cup {"ProtocolDAO"} \cup {"RewardsPool"} \cup {"ClaimNodeOp"}
                         \cup {"ClaimProtocolDAO"} \cup {"MultisigManager"}
  BY DEF NetworkContracts
<1> QED BY <1>6, <1>7

(* A change of one balance *)
WithBalance(v, c, x) == [v EXCEPT !.ggp[c] = x]

(* Vault u is v but for the GGP of c, which is x. *)
BalanceIs(v, c, x, u) ==
  /\ u \in Vault!VaultStorage /\ u.ggp[c] = x
  /\ \A d \in NetworkContracts \ {c} : u.ggp[d] = v.ggp[d]
  /\ \A d \in NetworkContracts : v.ggp[d] \in Nat
  /\ InAllVault(u) = InAllVault(v) - v.ggp[c] + x
  /\ InAllVault(v) \in Nat

(* It changes this balance alone, and the sum by the difference. *)
LEMMA BalanceSet ==
  ASSUME NEW v \in Vault!VaultStorage, NEW c \in NetworkContracts, NEW x \in Nat
  PROVE  BalanceIs(v, c, x, WithBalance(v, c, x))
<1> DEFINE u == WithBalance(v, c, x)
<1>1. v.ggp \in [NetworkContracts -> Nat] /\ v.avax \in [NetworkContracts -> Nat]
  BY DEF Vault!VaultStorage
<1>2. u = [avax |-> v.avax, ggp |-> [v.ggp EXCEPT ![c] = x]]
  BY DEF Vault!VaultStorage, WithBalance
<1> HIDE DEF u
<1>3. u.ggp = [v.ggp EXCEPT ![c] = x] /\ u \in Vault!VaultStorage
  BY <1>1, <1>2 DEF Vault!VaultStorage
<1>4. /\ u.ggp[c] = x
      /\ \A d \in NetworkContracts \ {c} : u.ggp[d] = v.ggp[d]
      /\ \A d \in NetworkContracts : v.ggp[d] \in Nat /\ u.ggp[d] \in Nat
  BY <1>1, <1>3
<1>5. SumFunctionOnSet(u.ggp, NetworkContracts)
        = SumFunctionOnSet(v.ggp, NetworkContracts) - v.ggp[c] + u.ggp[c]
  <2> DEFINE f == v.ggp
             h == u.ggp
  <2>1. /\ \A d \in NetworkContracts : f[d] \in Int /\ h[d] \in Int
        /\ \A d \in NetworkContracts \ {c} : h[d] = f[d]
    BY <1>4
  <2> HIDE DEF f, h
  <2>2. SumFunctionOnSet(h, NetworkContracts) = SumFunctionOnSet(f, NetworkContracts) - f[c] + h[c]
    BY <2>1, ContractsFinite, SumUpdate
  <2> QED BY <2>2 DEF f, h
<1>6. SumFunctionOnSet(v.ggp, NetworkContracts) \in Nat
  BY <1>4, ContractsFinite, SumType
<1> QED BY <1>3, <1>4, <1>5, <1>6 DEF BalanceIs, InAllVault, u

(* What Vault.depositToken does to the balances and to their sum. *)
LEMMA DepositTokenSets ==
  ASSUME NEW v \in Vault!VaultStorage, NEW c \in NetworkContracts, NEW x \in Nat
  PROVE  v.ggp[c] \in Nat /\ BalanceIs(v, c, v.ggp[c] + x, Vault!DepositToken(v, c, x))
<1> DEFINE y == v.ggp[c] + x
<1>1. v.ggp[c] \in Nat /\ y \in Nat
  BY DEF Vault!VaultStorage
<1>2. Vault!DepositToken(v, c, x) = WithBalance(v, c, y)
  BY DEF Vault!DepositToken, WithBalance
<1> HIDE DEF y
<1>3. BalanceIs(v, c, y, WithBalance(v, c, y))
  BY <1>1, BalanceSet
<1> QED BY <1>1, <1>2, <1>3 DEF y

(* The same, in the terms of its callers. *)
LEMMA DepositTokenOK ==
  ASSUME NEW v \in Vault!VaultStorage, NEW c \in NetworkContracts, NEW x \in Nat
  PROVE  LET u == Vault!DepositToken(v, c, x)
         IN  /\ u \in Vault!VaultStorage /\ u.ggp[c] = v.ggp[c] + x
             /\ \A d \in NetworkContracts \ {c} : u.ggp[d] = v.ggp[d]
             /\ \A d \in NetworkContracts : v.ggp[d] \in Nat /\ u.ggp[d] \in Nat
             /\ InAllVault(u) = InAllVault(v) + x /\ InAllVault(v) \in Nat
<1> DEFINE u == Vault!DepositToken(v, c, x)
<1>1. v.ggp[c] \in Nat /\ BalanceIs(v, c, v.ggp[c] + x, u)
  BY DepositTokenSets
<1> HIDE DEF u
<1>2. /\ u \in Vault!VaultStorage /\ u.ggp[c] = v.ggp[c] + x
      /\ \A d \in NetworkContracts \ {c} : u.ggp[d] = v.ggp[d]
      /\ \A d \in NetworkContracts : v.ggp[d] \in Nat
      /\ InAllVault(u) = InAllVault(v) - v.ggp[c] + (v.ggp[c] + x)
      /\ InAllVault(v) \in Nat
  BY <1>1 DEF BalanceIs
<1>3. \A d \in NetworkContracts : u.ggp[d] \in Nat
  BY <1>1, <1>2
<1> QED BY <1>1, <1>2, <1>3 DEF u

(* What Vault.withdrawToken does, within the balance. *)
LEMMA WithdrawTokenOK ==
  ASSUME NEW v \in Vault!VaultStorage, NEW c \in NetworkContracts, NEW x \in Nat,
         x <= v.ggp[c]
  PROVE  LET u == Vault!WithdrawToken(v, c, x)
         IN  /\ u \in Vault!VaultStorage /\ u.ggp[c] = v.ggp[c] - x
             /\ \A d \in NetworkContracts \ {c} : u.ggp[d] = v.ggp[d]
             /\ \A d \in NetworkContracts : v.ggp[d] \in Nat /\ u.ggp[d] \in Nat
             /\ InAllVault(u) = InAllVault(v) - x /\ InAllVault(v) \in Nat
<1> DEFINE u == Vault!WithdrawToken(v, c, x)
           y == v.ggp[c] - x
<1>1. v.ggp[c] \in Nat /\ y \in Nat
  BY DEF Vault!VaultStorage
<1>2. u = WithBalance(v, c, y)
  BY DEF Vault!WithdrawToken, WithBalance
<1> HIDE DEF u, y
<1>3. /\ u \in Vault!VaultStorage /\ u.ggp[c] = y
      /\ \A d \in NetworkContracts \ {c} : u.ggp[d] = v.ggp[d]
      /\ \A d \in NetworkContracts : v.ggp[d] \in Nat
      /\ InAllVault(u) = InAllVault(v) - v.ggp[c] + y
      /\ InAllVault(v) \in Nat
  <2>1. BalanceIs(v, c, y, u)
    BY <1>1, <1>2, BalanceSet
  <2> QED BY <2>1 DEF BalanceIs
<1>4. \A d \in NetworkContracts : u.ggp[d] \in Nat
  BY <1>3, <1>1
<1> QED BY <1>1, <1>3, <1>4 DEF u, y

(* What Vault.transferToken does: the sum stays. *)
LEMMA TransferTokenOK ==
  ASSUME NEW v \in Vault!VaultStorage, NEW c \in NetworkContracts,
         NEW e \in NetworkContracts \ {c}, NEW x \in Nat, x <= v.ggp[c]
  PROVE  LET u == Vault!TransferToken(v, c, e, x)
         IN  /\ u \in Vault!VaultStorage
             /\ u.ggp[c] = v.ggp[c] - x /\ u.ggp[e] = v.ggp[e] + x
             /\ \A d \in NetworkContracts \ {c, e} : u.ggp[d] = v.ggp[d]
             /\ \A d \in NetworkContracts : v.ggp[d] \in Nat /\ u.ggp[d] \in Nat
             /\ InAllVault(u) = InAllVault(v) /\ InAllVault(v) \in Nat
<1> DEFINE w == Vault!WithdrawToken(v, c, x)
           u == Vault!DepositToken(w, e, x)
<1>1. /\ w \in Vault!VaultStorage /\ w.ggp[c] = v.ggp[c] - x
      /\ \A d \in NetworkContracts \ {c} : w.ggp[d] = v.ggp[d]
      /\ \A d \in NetworkContracts : v.ggp[d] \in Nat /\ w.ggp[d] \in Nat
      /\ InAllVault(w) = InAllVault(v) - x /\ InAllVault(v) \in Nat
  BY WithdrawTokenOK
<1> HIDE DEF w
<1>0. e \in NetworkContracts /\ w \in Vault!VaultStorage
  BY <1>1
<1>2. /\ u \in Vault!VaultStorage /\ u.ggp[e] = w.ggp[e] + x
      /\ \A d \in NetworkContracts \ {e} : u.ggp[d] = w.ggp[d]
      /\ \A d \in NetworkContracts : u.ggp[d] \in Nat
      /\ InAllVault(u) = InAllVault(w) + x
  <2>1. w.ggp[e] \in Nat /\ BalanceIs(w, e, w.ggp[e] + x, u)
    BY <1>0, DepositTokenSets
  <2> HIDE DEF u
  <2>2. /\ u \in Vault!VaultStorage /\ u.ggp[e] = w.ggp[e] + x
        /\ \A d \in NetworkContracts \ {e} : u.ggp[d] = w.ggp[d]
        /\ \A d \in NetworkContracts : w.ggp[d] \in Nat
        /\ InAllVault(u) = InAllVault(w) - w.ggp[e] + (w.ggp[e] + x)
        /\ InAllVault(w) \in Nat
    BY <2>1 DEF BalanceIs
  <2> QED BY <2>1, <2>2
<1>3. u = Vault!TransferToken(v, c, e, x)
  BY DEF Vault!TransferToken, w
<1> HIDE DEF u
<1>4. InAllVault(u) = InAllVault(v)
  BY <1>1, <1>2
<1> QED BY <1>1, <1>2, <1>3, <1>4

-----------------------------------------------------------------------------
(* The record of a staker: its counters are nested, and it is in the       *)
(* rewards program as long as it has to be.                                *)
StakerOK(s) ==
  /\ s \in Staking!Staker
  /\ s.avaxValidating <= s.avaxAssigned /\ s.avaxAssigned <= s.avaxStaked
  /\ s.avaxValidating <= s.avaxValidatingHighWater
  /\ s.avaxAssigned > 0 \/ s.avaxValidatingHighWater > 0 => s.rewardsStartTime > 0

(* What has to do with GGP and with the payments stays as it is *)
SameMoney(s, t) ==
  /\ t.ggpStaked = s.ggpStaked /\ t.ggpRewards = s.ggpRewards /\ t.exists = s.exists
  /\ t.lastRewardsCycleCompleted = s.lastRewardsCycleCompleted

(* The types of the fields of a record. *)
LEMMA StakerFields ==
  ASSUME NEW s \in Staking!Staker
  PROVE  /\ s.ggpStaked \in Nat /\ s.avaxStaked \in Nat /\ s.avaxAssigned \in Nat
         /\ s.avaxValidating \in Nat /\ s.avaxValidatingHighWater \in Nat
         /\ s.rewardsStartTime \in Nat /\ s.ggpLockedUntil \in Nat /\ s.ggpRewards \in Nat
         /\ s.lastRewardsCycleCompleted \in Nat /\ s.exists \in BOOLEAN
BY DEF Staking!Staker

(* A record that does not exist yet. *)
LEMMA NoStakerOK == StakerOK(Staking!NoStaker)
BY DEF StakerOK, Staking!Staker, Staking!NoStaker

(* One more minipool. *)
LEMMA CreateOK ==
  ASSUME NEW s, StakerOK(s), NEW x \in Nat, NEW time \in Nat \ {0}
  PROVE  LET t == Staking!StakerAfterCreate(s, x, time)
         IN  StakerOK(t) /\ SameMoney(s, t)
<1> DEFINE a == s.avaxStaked + x
           b == s.avaxAssigned + x
           r == IF s.rewardsStartTime = 0 THEN time ELSE s.rewardsStartTime
           t == [[[s EXCEPT !.avaxStaked = a] EXCEPT !.avaxAssigned = b]
                   EXCEPT !.rewardsStartTime = r]
<1>0. s \in Staking!Staker
  BY DEF StakerOK
<1>1. a \in Nat /\ b \in Nat /\ r \in Nat
  BY <1>0 DEF Staking!Staker, StakerOK
<1>2. t = Staking!StakerAfterCreate(s, x, time)
  BY <1>0 DEF Staking!Staker, Staking!StakerAfterCreate,
       Staking!IncreaseAVAXStake, Staking!IncreaseAVAXAssigned
<1>3. t \in Staking!Staker
  <2> HIDE DEF a, b, r
  <2> QED BY <1>0, <1>1 DEF Staking!Staker
<1>4. /\ t.avaxStaked = a /\ t.avaxAssigned = b /\ t.rewardsStartTime = r
      /\ t.exists = s.exists /\ t.ggpStaked = s.ggpStaked
      /\ t.avaxValidating = s.avaxValidating
      /\ t.avaxValidatingHighWater = s.avaxValidatingHighWater
      /\ t.ggpLockedUntil = s.ggpLockedUntil /\ t.ggpRewards = s.ggpRewards
      /\ t.lastRewardsCycleCompleted = s.lastRewardsCycleCompleted
  <2> HIDE DEF a, b, r
  <2> QED BY <1>0, <1>1 DEF Staking!Staker
<1> HIDE DEF t
<1>5. StakerOK(t)
  BY <1>0, <1>1, <1>3, <1>4 DEF StakerOK, Staking!Staker
<1> QED BY <1>2, <1>4, <1>5 DEF SameMoney

(* One minipool less. *)
LEMMA CancelOK ==
  ASSUME NEW s, StakerOK(s), NEW x \in Nat, x <= s.avaxAssigned - s.avaxValidating
  PROVE  LET t == Staking!StakerAfterCancel(s, x, x)
         IN  StakerOK(t) /\ SameMoney(s, t)
<1> DEFINE a == s.avaxStaked - x
           b == s.avaxAssigned - x
           r == IF s.avaxValidatingHighWater = 0 /\ b = 0 THEN 0 ELSE s.rewardsStartTime
           t == [[[s EXCEPT !.avaxStaked = a] EXCEPT !.avaxAssigned = b]
                   EXCEPT !.rewardsStartTime = r]
<1>0. s \in Staking!Staker
  BY DEF StakerOK
<1>1. a \in Nat /\ b \in Nat /\ r \in Nat
  BY <1>0 DEF Staking!Staker, StakerOK
<1>2. t = Staking!StakerAfterCancel(s, x, x)
  BY <1>0 DEF Staking!Staker, Staking!StakerAfterCancel,
       Staking!DecreaseAVAXStake, Staking!DecreaseAVAXAssigned
<1>3. t \in Staking!Staker
  <2> HIDE DEF a, b, r
  <2> QED BY <1>0, <1>1 DEF Staking!Staker
<1>4. /\ t.avaxStaked = a /\ t.avaxAssigned = b /\ t.rewardsStartTime = r
      /\ t.exists = s.exists /\ t.ggpStaked = s.ggpStaked
      /\ t.avaxValidating = s.avaxValidating
      /\ t.avaxValidatingHighWater = s.avaxValidatingHighWater
      /\ t.ggpLockedUntil = s.ggpLockedUntil /\ t.ggpRewards = s.ggpRewards
      /\ t.lastRewardsCycleCompleted = s.lastRewardsCycleCompleted
  <2> HIDE DEF a, b, r
  <2> QED BY <1>0, <1>1 DEF Staking!Staker
<1> HIDE DEF t
<1>5. StakerOK(t)
  BY <1>0, <1>1, <1>3, <1>4 DEF StakerOK, Staking!Staker
<1> QED BY <1>2, <1>4, <1>5 DEF SameMoney

(* A validation starts. *)
LEMMA StartOK ==
  ASSUME NEW s, StakerOK(s), NEW x \in Nat \ {0}, x <= s.avaxAssigned - s.avaxValidating
  PROVE  LET t == Staking!IncreaseAVAXValidating(s, x)
         IN  StakerOK(t) /\ SameMoney(s, t)
<1> DEFINE a == s.avaxValidating + x
           b == IF s.avaxValidatingHighWater < a THEN a ELSE s.avaxValidatingHighWater
           t == [[s EXCEPT !.avaxValidating = a] EXCEPT !.avaxValidatingHighWater = b]
<1>0. s \in Staking!Staker
  BY DEF StakerOK
<1>1. a \in Nat /\ b \in Nat
  BY <1>0 DEF Staking!Staker, StakerOK
<1>2. t = Staking!IncreaseAVAXValidating(s, x)
  BY <1>0 DEF Staking!Staker, Staking!IncreaseAVAXValidating
<1>3. t \in Staking!Staker
  <2> HIDE DEF a, b
  <2> QED BY <1>0, <1>1 DEF Staking!Staker
<1>4. /\ t.avaxValidating = a /\ t.avaxValidatingHighWater = b /\ t.exists = s.exists
      /\ t.ggpStaked = s.ggpStaked /\ t.avaxStaked = s.avaxStaked
      /\ t.avaxAssigned = s.avaxAssigned /\ t.rewardsStartTime = s.rewardsStartTime
      /\ t.ggpLockedUntil = s.ggpLockedUntil /\ t.ggpRewards = s.ggpRewards
      /\ t.lastRewardsCycleCompleted = s.lastRewardsCycleCompleted
  <2> HIDE DEF a, b
  <2> QED BY <1>0, <1>1 DEF Staking!Staker
<1> HIDE DEF t
<1>5. StakerOK(t)
  BY <1>0, <1>1, <1>3, <1>4 DEF StakerOK, Staking!Staker
<1> QED BY <1>2, <1>4, <1>5 DEF SameMoney

(* A launch fails. *)
LEMMA ErrorOK ==
  ASSUME NEW s, StakerOK(s), NEW x \in Nat, x <= s.avaxAssigned - s.avaxValidating
  PROVE  LET t == Staking!StakerAfterError(s, x)
         IN  StakerOK(t) /\ SameMoney(s, t)
<1> DEFINE a == s.avaxAssigned - x
           t == [s EXCEPT !.avaxAssigned = a]
<1>0. s \in Staking!Staker
  BY DEF StakerOK
<1>1. a \in Nat
  BY <1>0 DEF Staking!Staker, StakerOK
<1>2. t = Staking!StakerAfterError(s, x)
  BY <1>0 DEF Staking!Staker, Staking!StakerAfterError,
       Staking!DecreaseAVAXAssigned
<1>3. t \in Staking!Staker
  <2> HIDE DEF a
  <2> QED BY <1>0, <1>1 DEF Staking!Staker
<1>4. /\ t.avaxAssigned = a /\ t.exists = s.exists /\ t.ggpStaked = s.ggpStaked
      /\ t.avaxStaked = s.avaxStaked /\ t.avaxValidating = s.avaxValidating
      /\ t.avaxValidatingHighWater = s.avaxValidatingHighWater
      /\ t.rewardsStartTime = s.rewardsStartTime /\ t.ggpLockedUntil = s.ggpLockedUntil
      /\ t.ggpRewards = s.ggpRewards
      /\ t.lastRewardsCycleCompleted = s.lastRewardsCycleCompleted
  <2> HIDE DEF a
  <2> QED BY <1>0, <1>1 DEF Staking!Staker
<1> HIDE DEF t
<1>5. StakerOK(t)
  BY <1>0, <1>1, <1>3, <1>4 DEF StakerOK, Staking!Staker
<1> QED BY <1>2, <1>4, <1>5 DEF SameMoney

(* A validation ends, with a slash perhaps. *)
LEMMA EndOK ==
  ASSUME NEW s, StakerOK(s), NEW x \in Nat, x <= s.avaxValidating,
         NEW g \in Nat, g <= s.ggpStaked
  PROVE  LET t == Staking!StakerAfterEnd(s, x, g)
         IN  /\ StakerOK(t) /\ t.ggpStaked = s.ggpStaked - g /\ t.ggpRewards = s.ggpRewards
             /\ t.exists = s.exists
             /\ t.lastRewardsCycleCompleted = s.lastRewardsCycleCompleted
<1> DEFINE a == s.ggpStaked - g
           b == s.avaxAssigned - x
           c == s.avaxValidating - x
           t == [[[s EXCEPT !.ggpStaked = a] EXCEPT !.avaxAssigned = b]
                   EXCEPT !.avaxValidating = c]
<1>0. s \in Staking!Staker
  BY DEF StakerOK
<1>1. a \in Nat /\ b \in Nat /\ c \in Nat
  BY <1>0 DEF Staking!Staker, StakerOK
<1>2. t = Staking!StakerAfterEnd(s, x, g)
  BY <1>0 DEF Staking!Staker, Staking!StakerAfterEnd,
       Staking!DecreaseAVAXValidating, Staking!DecreaseAVAXAssigned, Staking!DecreaseGGPStake
<1>3. t \in Staking!Staker
  <2> HIDE DEF a, b, c
  <2> QED BY <1>0, <1>1 DEF Staking!Staker
<1>4. /\ t.ggpStaked = a /\ t.avaxAssigned = b /\ t.avaxValidating = c
      /\ t.exists = s.exists /\ t.avaxStaked = s.avaxStaked
      /\ t.avaxValidatingHighWater = s.avaxValidatingHighWater
      /\ t.rewardsStartTime = s.rewardsStartTime /\ t.ggpLockedUntil = s.ggpLockedUntil
      /\ t.ggpRewards = s.ggpRewards
      /\ t.lastRewardsCycleCompleted = s.lastRewardsCycleCompleted
  <2> HIDE DEF a, b, c
  <2> QED BY <1>0, <1>1 DEF Staking!Staker
<1> HIDE DEF t
<1>5. StakerOK(t)
  BY <1>0, <1>1, <1>3, <1>4 DEF StakerOK, Staking!Staker
<1> QED BY <1>2, <1>4, <1>5 DEF SameMoney

(* A validation ends and the next one is prepared, for more. *)
LEMMA CycleOK ==
  ASSUME NEW s, StakerOK(s), NEW x \in Nat \ {0}, x <= s.avaxValidating, NEW y \in Nat
  PROVE  LET t == Staking!StakerAfterRecreate(Staking!StakerAfterEnd(s, x, 0), y, x + y)
         IN  StakerOK(t) /\ SameMoney(s, t)
<1> DEFINE g == s.ggpStaked - 0
           b == s.avaxAssigned - x
           c == s.avaxValidating - x
           d == s.avaxStaked + y
           e == b + (x + y)
           t == [[[[[s EXCEPT !.ggpStaked = g] EXCEPT !.avaxAssigned = b]
                   EXCEPT !.avaxValidating = c] EXCEPT !.avaxStaked = d]
                   EXCEPT !.avaxAssigned = e]
<1>0. s \in Staking!Staker
  BY DEF StakerOK
<1>1. g \in Nat /\ b \in Nat /\ c \in Nat /\ d \in Nat /\ e \in Nat
  BY <1>0 DEF Staking!Staker, StakerOK
<1>2. t = Staking!StakerAfterRecreate(Staking!StakerAfterEnd(s, x, 0), y, x + y)
  BY <1>0 DEF Staking!Staker, Staking!StakerAfterEnd,
       Staking!DecreaseAVAXValidating, Staking!DecreaseAVAXAssigned, Staking!DecreaseGGPStake,
       Staking!StakerAfterRecreate, Staking!IncreaseAVAXStake, Staking!IncreaseAVAXAssigned
<1>3. t \in Staking!Staker
  <2> HIDE DEF g, b, c, d, e
  <2> QED BY <1>0, <1>1 DEF Staking!Staker
<1>4. /\ t.ggpStaked = g /\ t.avaxStaked = d /\ t.avaxAssigned = e /\ t.avaxValidating = c
      /\ t.exists = s.exists /\ t.avaxValidatingHighWater = s.avaxValidatingHighWater
      /\ t.rewardsStartTime = s.rewardsStartTime /\ t.ggpLockedUntil = s.ggpLockedUntil
      /\ t.ggpRewards = s.ggpRewards
      /\ t.lastRewardsCycleCompleted = s.lastRewardsCycleCompleted
  <2> HIDE DEF g, b, c, d, e
  <2> QED BY <1>0, <1>1 DEF Staking!Staker
<1> HIDE DEF t
<1>5. StakerOK(t)
  BY <1>0, <1>1, <1>3, <1>4 DEF StakerOK, Staking!Staker
<1>6. s.ggpStaked - 0 = s.ggpStaked
  BY <1>0 DEF Staking!Staker
<1> QED BY <1>2, <1>4, <1>5, <1>6 DEF SameMoney

(* AVAX that is not assigned any more leaves. *)
LEMMA WithdrawnOK ==
  ASSUME NEW s, StakerOK(s), NEW x \in Nat, x <= s.avaxStaked - s.avaxAssigned
  PROVE  LET t == Staking!DecreaseAVAXStake(s, x)
         IN  StakerOK(t) /\ SameMoney(s, t)
<1> DEFINE a == s.avaxStaked - x
           t == [s EXCEPT !.avaxStaked = a]
<1>0. s \in Staking!Staker
  BY DEF StakerOK
<1>1. a \in Nat
  BY <1>0 DEF Staking!Staker, StakerOK
<1>2. t = Staking!DecreaseAVAXStake(s, x)
  BY <1>0 DEF Staking!Staker, Staking!DecreaseAVAXStake
<1>3. t \in Staking!Staker
  <2> HIDE DEF a
  <2> QED BY <1>0, <1>1 DEF Staking!Staker
<1>4. /\ t.avaxStaked = a /\ t.exists = s.exists /\ t.ggpStaked = s.ggpStaked
      /\ t.avaxAssigned = s.avaxAssigned /\ t.avaxValidating = s.avaxValidating
      /\ t.avaxValidatingHighWater = s.avaxValidatingHighWater
      /\ t.rewardsStartTime = s.rewardsStartTime /\ t.ggpLockedUntil = s.ggpLockedUntil
      /\ t.ggpRewards = s.ggpRewards
      /\ t.lastRewardsCycleCompleted = s.lastRewardsCycleCompleted
  <2> HIDE DEF a
  <2> QED BY <1>0, <1>1 DEF Staking!Staker
<1> HIDE DEF t
<1>5. StakerOK(t)
  BY <1>0, <1>1, <1>3, <1>4 DEF StakerOK, Staking!Staker
<1> QED BY <1>2, <1>4, <1>5 DEF SameMoney

(* GGP is staked, by a newcomer perhaps. *)
LEMMA StakeOK ==
  ASSUME NEW s, StakerOK(s), NEW g \in Nat
  PROVE  LET t == Staking!StakeGGP(s, g)
         IN  /\ StakerOK(t) /\ t.ggpStaked = s.ggpStaked + g /\ t.ggpRewards = s.ggpRewards
             /\ t.exists
             /\ t.lastRewardsCycleCompleted = s.lastRewardsCycleCompleted
<1> DEFINE e == TRUE
           a == s.ggpStaked + g
           t == [[s EXCEPT !.exists = e] EXCEPT !.ggpStaked = a]
<1>0. s \in Staking!Staker
  BY DEF StakerOK
<1>1. a \in Nat
  BY <1>0 DEF Staking!Staker, StakerOK
<1>2. t = Staking!StakeGGP(s, g)
  BY <1>0 DEF Staking!Staker, Staking!StakeGGP
<1>3. t \in Staking!Staker
  <2> HIDE DEF a
  <2> QED BY <1>0, <1>1 DEF Staking!Staker
<1>4. /\ t.ggpStaked = a /\ t.exists /\ t.avaxStaked = s.avaxStaked
      /\ t.avaxAssigned = s.avaxAssigned /\ t.avaxValidating = s.avaxValidating
      /\ t.avaxValidatingHighWater = s.avaxValidatingHighWater
      /\ t.rewardsStartTime = s.rewardsStartTime /\ t.ggpLockedUntil = s.ggpLockedUntil
      /\ t.ggpRewards = s.ggpRewards
      /\ t.lastRewardsCycleCompleted = s.lastRewardsCycleCompleted
  <2> HIDE DEF a
  <2> QED BY <1>0, <1>1 DEF Staking!Staker
<1> HIDE DEF t
<1>5. StakerOK(t)
  BY <1>0, <1>1, <1>3, <1>4 DEF StakerOK, Staking!Staker
<1> QED BY <1>2, <1>4, <1>5 DEF SameMoney

(* GGP that was staked leaves. *)
LEMMA UnstakeOK ==
  ASSUME NEW s, StakerOK(s), NEW g \in Nat, g <= s.ggpStaked
  PROVE  LET t == Staking!DecreaseGGPStake(s, g)
         IN  /\ StakerOK(t) /\ t.ggpStaked = s.ggpStaked - g /\ t.ggpRewards = s.ggpRewards
             /\ t.exists = s.exists
             /\ t.lastRewardsCycleCompleted = s.lastRewardsCycleCompleted
<1> DEFINE a == s.ggpStaked - g
           t == [s EXCEPT !.ggpStaked = a]
<1>0. s \in Staking!Staker
  BY DEF StakerOK
<1>1. a \in Nat
  BY <1>0 DEF Staking!Staker, StakerOK
<1>2. t = Staking!DecreaseGGPStake(s, g)
  BY <1>0 DEF Staking!Staker, Staking!DecreaseGGPStake
<1>3. t \in Staking!Staker
  <2> HIDE DEF a
  <2> QED BY <1>0, <1>1 DEF Staking!Staker
<1>4. /\ t.ggpStaked = a /\ t.exists = s.exists /\ t.avaxStaked = s.avaxStaked
      /\ t.avaxAssigned = s.avaxAssigned /\ t.avaxValidating = s.avaxValidating
      /\ t.avaxValidatingHighWater = s.avaxValidatingHighWater
      /\ t.rewardsStartTime = s.rewardsStartTime /\ t.ggpLockedUntil = s.ggpLockedUntil
      /\ t.ggpRewards = s.ggpRewards
      /\ t.lastRewardsCycleCompleted = s.lastRewardsCycleCompleted
  <2> HIDE DEF a
  <2> QED BY <1>0, <1>1 DEF Staking!Staker
<1> HIDE DEF t
<1>5. StakerOK(t)
  BY <1>0, <1>1, <1>3, <1>4 DEF StakerOK, Staking!Staker
<1> QED BY <1>2, <1>4, <1>5 DEF SameMoney

(* The rewards are taken. *)
LEMMA ClaimedOK ==
  ASSUME NEW s, StakerOK(s)
  PROVE  LET t == [s EXCEPT !.ggpRewards = 0]
         IN  /\ StakerOK(t) /\ t.ggpStaked = s.ggpStaked /\ t.ggpRewards = 0
             /\ t.exists = s.exists
             /\ t.lastRewardsCycleCompleted = s.lastRewardsCycleCompleted
<1> DEFINE a == 0
           t == [s EXCEPT !.ggpRewards = a]
<1>0. s \in Staking!Staker
  BY DEF StakerOK
<1>1. a \in Nat
  BY <1>0 DEF Staking!Staker, StakerOK
<1>2. t = [s EXCEPT !.ggpRewards = 0]
  OBVIOUS
<1>3. t \in Staking!Staker
  <2> HIDE DEF a
  <2> QED BY <1>0, <1>1 DEF Staking!Staker
<1>4. /\ t.ggpRewards = a /\ t.exists = s.exists /\ t.ggpStaked = s.ggpStaked
      /\ t.avaxStaked = s.avaxStaked /\ t.avaxAssigned = s.avaxAssigned
      /\ t.avaxValidating = s.avaxValidating
      /\ t.avaxValidatingHighWater = s.avaxValidatingHighWater
      /\ t.rewardsStartTime = s.rewardsStartTime /\ t.ggpLockedUntil = s.ggpLockedUntil
      /\ t.lastRewardsCycleCompleted = s.lastRewardsCycleCompleted
  <2> HIDE DEF a
  <2> QED BY <1>0, <1>1 DEF Staking!Staker
<1> HIDE DEF t
<1>5. StakerOK(t)
  BY <1>0, <1>1, <1>3, <1>4 DEF StakerOK, Staking!Staker
<1> QED BY <1>2, <1>4, <1>5 DEF SameMoney

(* A payment: the high water starts again from what validates now. *)
LEMMA PaidOK ==
  ASSUME NEW s, StakerOK(s), NEW x \in Nat, pool.rewardsCycleCount \in Nat
  PROVE  LET t == StakerAfterRewards(s, x)
         IN  /\ StakerOK(t) /\ t.ggpStaked = s.ggpStaked /\ t.ggpRewards = s.ggpRewards + x
             /\ t.exists = s.exists
             /\ t.lastRewardsCycleCompleted = pool.rewardsCycleCount
<1> DEFINE n == pool.rewardsCycleCount
           h == s.avaxValidating
           a == s.ggpRewards + x
           r == IF s.avaxAssigned = 0 THEN 0 ELSE s.rewardsStartTime
           t == [[[[s EXCEPT !.lastRewardsCycleCompleted = n]
                   EXCEPT !.avaxValidatingHighWater = h] EXCEPT !.ggpRewards = a]
                   EXCEPT !.rewardsStartTime = r]
<1>0. s \in Staking!Staker
  BY DEF StakerOK
<1>1. n \in Nat /\ h \in Nat /\ a \in Nat /\ r \in Nat
  BY <1>0 DEF Staking!Staker, StakerOK
<1>2. t = StakerAfterRewards(s, x)
  BY <1>0 DEF Staking!Staker, StakerAfterRewards
<1>3. t \in Staking!Staker
  <2> HIDE DEF n, h, a, r
  <2> QED BY <1>0, <1>1 DEF Staking!Staker
<1>4. /\ t.avaxValidatingHighWater = h /\ t.rewardsStartTime = r /\ t.ggpRewards = a
      /\ t.lastRewardsCycleCompleted = n /\ t.exists = s.exists
      /\ t.ggpStaked = s.ggpStaked /\ t.avaxStaked = s.avaxStaked
      /\ t.avaxAssigned = s.avaxAssigned /\ t.avaxValidating = s.avaxValidating
      /\ t.ggpLockedUntil = s.ggpLockedUntil
  <2> HIDE DEF n, h, a, r
  <2> QED BY <1>0, <1>1 DEF Staking!Staker
<1> HIDE DEF t
<1>5. StakerOK(t)
  BY <1>0, <1>1, <1>3, <1>4 DEF StakerOK, Staking!Staker
<1> QED BY <1>2, <1>4, <1>5 DEF SameMoney

-----------------------------------------------------------------------------
(* All the stakers *)

StakedIn(S) == SumFunctionOnSet([p \in Owners |-> S[p].ggpStaked], Owners)
RewardsIn(S) == SumFunctionOnSet([p \in Owners |-> S[p].ggpRewards], Owners)

(* A sum over the owners, when the term of one changes. *)
LEMMA SumOverOwners ==
  ASSUME NEW f, NEW h, NEW o \in Owners,
         \A p \in Owners : f[p] \in Int /\ h[p] \in Int,
         \A p \in Owners \ {o} : h[p] = f[p]
  PROVE  SumFunctionOnSet(h, Owners) = SumFunctionOnSet(f, Owners) - f[o] + h[o]
<1>1. IsFiniteSet(Owners)
  BY Constants
<1> QED BY <1>1, SumUpdate

(* A change of one record changes the sums by what it changes. *)
LEMMA StakersSet ==
  ASSUME NEW S \in [Owners -> Staking!Staker], NEW o \in Owners, NEW t \in Staking!Staker
  PROVE  LET R == [S EXCEPT ![o] = t]
         IN  /\ R \in [Owners -> Staking!Staker] /\ R[o] = t
             /\ \A p \in Owners \ {o} : R[p] = S[p]
             /\ StakedIn(R) = StakedIn(S) - S[o].ggpStaked + t.ggpStaked
             /\ RewardsIn(R) = RewardsIn(S) - S[o].ggpRewards + t.ggpRewards
             /\ StakedIn(S) \in Nat /\ RewardsIn(S) \in Nat
<1> DEFINE R == [S EXCEPT ![o] = t]
           f == [p \in Owners |-> S[p].ggpStaked]
           h == [p \in Owners |-> R[p].ggpStaked]
           a == [p \in Owners |-> S[p].ggpRewards]
           b == [p \in Owners |-> R[p].ggpRewards]
<1>1. R \in [Owners -> Staking!Staker] /\ R[o] = t /\ \A p \in Owners \ {o} : R[p] = S[p]
  OBVIOUS
<1>2. \A p \in Owners : S[p].ggpStaked \in Nat /\ S[p].ggpRewards \in Nat
  BY StakerFields
<1>3. t.ggpStaked \in Nat /\ t.ggpRewards \in Nat
  BY StakerFields
<1> HIDE DEF R
<1>4. /\ \A p \in Owners : f[p] \in Int /\ h[p] \in Int /\ f[p] \in Nat
      /\ \A p \in Owners \ {o} : h[p] = f[p]
      /\ f[o] = S[o].ggpStaked /\ h[o] = t.ggpStaked
  BY <1>1, <1>2, <1>3
<1>5. /\ \A p \in Owners : a[p] \in Int /\ b[p] \in Int /\ a[p] \in Nat
      /\ \A p \in Owners \ {o} : b[p] = a[p]
      /\ a[o] = S[o].ggpRewards /\ b[o] = t.ggpRewards
  BY <1>1, <1>2, <1>3
<1>6. IsFiniteSet(Owners)
  BY Constants
<1> HIDE DEF f, h, a, b
<1>7. SumFunctionOnSet(h, Owners) = SumFunctionOnSet(f, Owners) - f[o] + h[o]
  <2>1. /\ \A p \in Owners : f[p] \in Int /\ h[p] \in Int
        /\ \A p \in Owners \ {o} : h[p] = f[p]
    BY <1>4
  <2> QED BY <2>1, SumOverOwners
<1>8. SumFunctionOnSet(b, Owners) = SumFunctionOnSet(a, Owners) - a[o] + b[o]
  <2>1. /\ \A p \in Owners : a[p] \in Int /\ b[p] \in Int
        /\ \A p \in Owners \ {o} : b[p] = a[p]
    BY <1>5
  <2> QED BY <2>1, SumOverOwners
<1>9. SumFunctionOnSet(f, Owners) \in Nat /\ SumFunctionOnSet(a, Owners) \in Nat
  BY <1>4, <1>5, <1>6, SumType
<1>10. StakedIn(S) = SumFunctionOnSet(f, Owners) /\ RewardsIn(S) = SumFunctionOnSet(a, Owners)
  BY DEF StakedIn, RewardsIn, f, a
<1>11. StakedIn(R) = SumFunctionOnSet(h, Owners) /\ RewardsIn(R) = SumFunctionOnSet(b, Owners)
  BY DEF StakedIn, RewardsIn, h, b
<1> QED BY <1>1, <1>4, <1>5, <1>7, <1>8, <1>9, <1>10, <1>11 DEF R

-----------------------------------------------------------------------------
(* The invariant *)

TypeInv ==
  /\ now \in Nat \ {0} /\ pool \in PoolStorage /\ pcts \in [Claimers -> 0..Ether]
  /\ stakers \in [Owners -> Staking!Staker] /\ vault \in Vault!VaultStorage
  /\ enabled \subseteq Multisigs /\ paused \subseteq {"RewardsPool", "Staking"}
  /\ ggpPrice \in Nat \ {0} /\ round \in Round /\ history \in History

StakersInv == \A o \in Owners : StakerOK(stakers[o])

(* The stakes lie in the Vault, and the Vault has no more than was minted *)
BankInv ==
  /\ vault.ggp["Staking"] = StakedIn(stakers)
  /\ InAllVault(vault) <= pool.totalSupply

ScheduleInv ==
  /\ InitializedAt <= pool.inflationIntervalStartTime /\ pool.inflationIntervalStartTime <= now
  /\ InitialSupply <= pool.totalSupply /\ pool.totalSupply <= MaxSupply
  /\ InflationOnSchedule

(* The script knows only stakers, and the total is theirs *)
RoundInv ==
  /\ round.phase # "idle" => \A o \in round.eligible : stakers[o].exists
  /\ round.phase = "paying" =>
       /\ round.left \subseteq round.eligible
       /\ round.totalEligibleGGPStaked = SumFunctionOnSet(round.ggpStaked, round.eligible)

(* A record says of no cycle but this one that it was paid in it *)
PaidInv ==
  \A o \in Owners :
     /\ stakers[o].lastRewardsCycleCompleted <= pool.rewardsCycleCount
     /\ stakers[o].lastRewardsCycleCompleted = pool.rewardsCycleCount /\ pool.rewardsCycleCount # 0
          => o \in history.paid

(* What ClaimNodeOp holds beyond what it has credited: all of the total    *)
(* before the first payment of a cycle, and in the one round of a cycle at *)
(* least the part of the total that goes to those who are left.            *)
Backing == vault.ggp["ClaimNodeOp"] - RewardsIn(stakers)
LeftStaked == SumFunctionOnSet(round.ggpStaked, round.left)

FundsInv ==
  history.orderly =>
    /\ Backing >= 0
    /\ history.paid = {} => Backing >= pool.nopRewardsCycleTotal
    /\ round.phase = "paying" /\ OneRound
         => Backing * round.totalEligibleGGPStaked >= pool.nopRewardsCycleTotal * LeftStaked

IInv ==
  TypeInv /\ StakersInv /\ BankInv /\ ScheduleInv /\ RoundInv /\ PaidInv /\ FundsInv

(* The types of the fields of RewardsPool. *)
LEMMA PoolFields ==
  ASSUME TypeInv
  PROVE  /\ pool.rewardsCycleCount \in Nat /\ pool.rewardsCycleStartTime \in Nat
         /\ pool.inflationIntervalStartTime \in Nat /\ pool.rewardsCycleTotalAmt \in Nat
         /\ pool.nopRewardsCycleTotal \in Nat /\ pool.totalSupply \in Nat
BY DEF TypeInv, PoolStorage

(* The types of the fields of a round. *)
LEMMA RoundFields ==
  ASSUME TypeInv
  PROVE  /\ round.eligible \subseteq Owners /\ round.left \subseteq Owners
         /\ round.ggpStaked \in [Owners -> Nat] /\ round.totalEligibleGGPStaked \in Nat
         /\ round.phase \in {"idle", "checking", "paying"}
BY DEF TypeInv, Round

(* The contracts that bank in the Vault, by name. *)
LEMMA Names ==
  /\ "Staking" \in NetworkContracts /\ "ProtocolDAO" \in NetworkContracts
  /\ "RewardsPool" \in NetworkContracts /\ "ClaimNodeOp" \in NetworkContracts
  /\ "ClaimProtocolDAO" \in NetworkContracts /\ "MultisigManager" \in NetworkContracts
BY DEF NetworkContracts

(* The types of what the invariant compares. *)
LEMMA BackingType ==
  ASSUME TypeInv
  PROVE  /\ Backing \in Int /\ vault.ggp["ClaimNodeOp"] \in Nat /\ RewardsIn(stakers) \in Nat
         /\ LeftStaked \in Nat
<1>1. vault.ggp["ClaimNodeOp"] \in Nat
  BY Names DEF TypeInv, Vault!VaultStorage
<1>2. RewardsIn(stakers) \in Nat
  <2> DEFINE f == [p \in Owners |-> stakers[p].ggpRewards]
  <2>1. \A p \in Owners : f[p] \in Nat
    BY StakerFields DEF TypeInv
  <2> HIDE DEF f
  <2>2. SumFunctionOnSet(f, Owners) \in Nat
    BY <2>1, Constants, SumType
  <2> QED BY <2>2 DEF RewardsIn, f
<1>3. LeftStaked \in Nat
  <2>1. IsFiniteSet(round.left) /\ \A p \in round.left : round.ggpStaked[p] \in Nat
    BY RoundFields, Constants, FS_Subset
  <2> QED BY <2>1, SumType DEF LeftStaked
<1> QED BY <1>1, <1>2, <1>3 DEF Backing

-----------------------------------------------------------------------------
(* The invariant holds when RewardsPool was initialized. *)
LEMMA InitOK == RewardsInit => IInv
<1> SUFFICES ASSUME RewardsInit PROVE IInv
  OBVIOUS
<1>1. pool = [rewardsCycleCount |-> 0, rewardsCycleStartTime |-> InitializedAt,
              inflationIntervalStartTime |-> InitializedAt, rewardsCycleTotalAmt |-> 0,
              nopRewardsCycleTotal |-> 0, totalSupply |-> InitialSupply]
  BY DEF RewardsInit
<1>2. pool \in PoolStorage
  BY <1>1, Constants DEF PoolStorage
<1>3. round = NoRound /\ NoRound \in Round
  BY DEF RewardsInit, NoRound, Round
<1>4. history = [paid |-> {}, orderly |-> TRUE] /\ history \in History
  BY DEF RewardsInit, History
<1>5. vault = Vault!EmptyVault /\ vault \in Vault!VaultStorage
  BY DEF RewardsInit, Vault!EmptyVault, Vault!VaultStorage
<1>6. \A o \in Owners : stakers[o] = Staking!NoStaker /\ StakerOK(stakers[o])
  BY NoStakerOK DEF RewardsInit
<1>7. TypeInv
  <2>1. stakers \in [Owners -> Staking!Staker]
    BY NoStakerOK DEF RewardsInit, StakerOK
  <2>2. now \in Nat \ {0} /\ pcts \in [Claimers -> 0..Ether] /\ ggpPrice \in Nat \ {0}
        /\ enabled \subseteq Multisigs /\ paused \subseteq {"RewardsPool", "Staking"}
    BY Constants DEF RewardsInit
  <2> QED BY <1>2, <1>3, <1>4, <1>5, <2>1, <2>2 DEF TypeInv
<1>8. StakersInv
  BY <1>6 DEF StakersInv
<1>9. StakedIn(stakers) = 0 /\ RewardsIn(stakers) = 0
  <2> DEFINE f == [p \in Owners |-> stakers[p].ggpStaked]
             h == [p \in Owners |-> stakers[p].ggpRewards]
  <2>1. \A p \in Owners : f[p] = 0 /\ h[p] = 0
    BY <1>6 DEF Staking!NoStaker
  <2> HIDE DEF f, h
  <2>2. SumFunctionOnSet(f, Owners) = 0 /\ SumFunctionOnSet(h, Owners) = 0
    BY <2>1, Constants, SumZero
  <2> QED BY <2>2 DEF StakedIn, RewardsIn, f, h
<1>10. InAllVault(vault) = 0 /\ vault.ggp["Staking"] = 0 /\ vault.ggp["ClaimNodeOp"] = 0
  <2> DEFINE f == vault.ggp
  <2>1. \A c \in NetworkContracts : f[c] = 0
    BY <1>5 DEF Vault!EmptyVault
  <2> HIDE DEF f
  <2>2. SumFunctionOnSet(f, NetworkContracts) = 0
    BY <2>1, ContractsFinite, SumZero
  <2> QED BY <2>1, <2>2, Names DEF InAllVault, f
<1>11. BankInv
  BY <1>1, <1>9, <1>10, Constants DEF BankInv
<1>12. ScheduleInv
  <2>1. (pool.inflationIntervalStartTime - InitializedAt) \div InflationIntervalSeconds = 0
    BY <1>1, Constants
  <2>2. Inflated(InitialSupply)[0] = InitialSupply
    BY InflatedUnfold
  <2>3. InflationOnSchedule
    BY <1>1, <2>1, <2>2, Constants DEF InflationOnSchedule
  <2> QED BY <1>1, <2>3, Constants DEF ScheduleInv, RewardsInit
<1>13. RoundInv
  BY <1>3 DEF RoundInv, NoRound
<1>14. PaidInv
  BY <1>1, <1>6 DEF PaidInv, Staking!NoStaker
<1>15. FundsInv
  BY <1>1, <1>3, <1>4, <1>9, <1>10 DEF FundsInv, Backing, NoRound
<1> QED BY <1>7, <1>8, <1>11, <1>12, <1>13, <1>14, <1>15 DEF IInv

-----------------------------------------------------------------------------
(* Money moves, with the record of one staker *)

SetStaker(o, t) == [stakers EXCEPT ![o] = t]

Frame == UNCHANGED <<now, pool, pcts, enabled, paused, ggpPrice, round, history>>

(* What leaves the round and the cycle as they are, changes the record of  *)
(* one staker, and moves in the Vault the GGP it moves in the record.      *)
LEMMA MoneyMoves ==
  ASSUME IInv, NEW o \in Owners, NEW t, StakerOK(t),
         stakers' = SetStaker(o, t),
         stakers[o].exists => t.exists,
         t.lastRewardsCycleCompleted = stakers[o].lastRewardsCycleCompleted,
         vault' \in Vault!VaultStorage,
         vault'.ggp["Staking"] - t.ggpStaked = vault.ggp["Staking"] - stakers[o].ggpStaked,
         vault'.ggp["ClaimNodeOp"] - t.ggpRewards
           = vault.ggp["ClaimNodeOp"] - stakers[o].ggpRewards,
         InAllVault(vault') <= pool.totalSupply,
         Frame
  PROVE  IInv'
<1>0. TypeInv /\ StakersInv /\ BankInv /\ ScheduleInv /\ RoundInv /\ PaidInv /\ FundsInv
  BY DEF IInv
<1>1. t \in Staking!Staker /\ stakers \in [Owners -> Staking!Staker]
  BY <1>0 DEF StakerOK, TypeInv
<1>2. /\ stakers' \in [Owners -> Staking!Staker] /\ stakers'[o] = t
      /\ \A p \in Owners \ {o} : stakers'[p] = stakers[p]
      /\ StakedIn(stakers') = StakedIn(stakers) - stakers[o].ggpStaked + t.ggpStaked
      /\ RewardsIn(stakers') = RewardsIn(stakers) - stakers[o].ggpRewards + t.ggpRewards
      /\ StakedIn(stakers) \in Nat /\ RewardsIn(stakers) \in Nat
  <2> DEFINE R == [stakers EXCEPT ![o] = t]
  <2>1. stakers' = R
    BY DEF SetStaker
  <2>2. /\ R \in [Owners -> Staking!Staker] /\ R[o] = t
        /\ \A p \in Owners \ {o} : R[p] = stakers[p]
        /\ StakedIn(R) = StakedIn(stakers) - stakers[o].ggpStaked + t.ggpStaked
        /\ RewardsIn(R) = RewardsIn(stakers) - stakers[o].ggpRewards + t.ggpRewards
        /\ StakedIn(stakers) \in Nat /\ RewardsIn(stakers) \in Nat
    BY <1>1, StakersSet
  <2> HIDE DEF R
  <2> QED BY <2>1, <2>2
<1>3. /\ t.ggpStaked \in Nat /\ t.ggpRewards \in Nat
      /\ stakers[o].ggpStaked \in Nat /\ stakers[o].ggpRewards \in Nat
  BY <1>1, StakerFields
<1>4. /\ vault.ggp["Staking"] \in Nat /\ vault.ggp["ClaimNodeOp"] \in Nat
      /\ vault'.ggp["Staking"] \in Nat /\ vault'.ggp["ClaimNodeOp"] \in Nat
  BY <1>0, Names DEF TypeInv, Vault!VaultStorage
<1>5. TypeInv'
  BY <1>0, <1>2 DEF TypeInv, Frame
<1>6. StakersInv'
  BY <1>0, <1>2 DEF StakersInv
<1>7. BankInv'
  <2>1. vault'.ggp["Staking"] = StakedIn(stakers')
    BY <1>0, <1>2, <1>3, <1>4 DEF BankInv
  <2> QED BY <2>1 DEF BankInv, Frame
<1>8. ScheduleInv'
  BY <1>0 DEF ScheduleInv, InflationOnSchedule, Frame
<1>9. RoundInv'
  <2>1. \A p \in Owners : stakers[p].exists => stakers'[p].exists
    BY <1>2
  <2>2. round.eligible \subseteq Owners
    BY <1>0, RoundFields
  <2> QED BY <1>0, <2>1, <2>2 DEF RoundInv, Frame
<1>10. PaidInv'
  <2>1. \A p \in Owners : stakers'[p].lastRewardsCycleCompleted = stakers[p].lastRewardsCycleCompleted
    BY <1>2
  <2> QED BY <1>0, <2>1 DEF PaidInv, Frame
<1>11. FundsInv'
  <2>1. Backing' = Backing
    <3> DEFINE w == vault'.ggp["ClaimNodeOp"]
               r == RewardsIn(stakers')
    <3>1. Backing' = w - r
      BY DEF Backing
    <3>2. /\ w \in Nat /\ r = RewardsIn(stakers) - stakers[o].ggpRewards + t.ggpRewards
          /\ w - t.ggpRewards = vault.ggp["ClaimNodeOp"] - stakers[o].ggpRewards
      BY <1>2, <1>4
    <3>3. Backing = vault.ggp["ClaimNodeOp"] - RewardsIn(stakers)
      BY DEF Backing
    <3>4. w - r = vault.ggp["ClaimNodeOp"] - RewardsIn(stakers)
      <4> DEFINE q == RewardsIn(stakers)
                 y == stakers[o].ggpRewards
                 z == t.ggpRewards
                 v == vault.ggp["ClaimNodeOp"]
      <4>1. w \in Nat /\ q \in Nat /\ y \in Nat /\ z \in Nat /\ v \in Nat
        BY <1>2, <1>3, <1>4
      <4>2. r = q - y + z /\ w - z = v - y
        BY <3>2
      <4> HIDE DEF w, r, q, y, z, v
      <4>3. w - r = v - q
        BY <4>1, <4>2
      <4> QED BY <4>3 DEF q, v
    <3> QED BY <3>1, <3>3, <3>4
  <2>2. LeftStaked' = LeftStaked /\ (OneRound' <=> OneRound)
    BY DEF LeftStaked, OneRound, Frame
  <2> QED BY <1>0, <2>1, <2>2 DEF FundsInv, Frame
<1> QED BY <1>5, <1>6, <1>7, <1>8, <1>9, <1>10, <1>11 DEF IInv

(* Without money, it is the record alone that changes *)
LEMMA RecordChanges ==
  ASSUME IInv, NEW o \in Owners, NEW t, StakerOK(t), SameMoney(stakers[o], t),
         StakerChanges(o, t)
  PROVE  IInv'
<1>1. /\ stakers' = SetStaker(o, t) /\ vault' = vault /\ Frame
  BY DEF StakerChanges, SetStaker, Frame
<1>2. vault \in Vault!VaultStorage /\ InAllVault(vault) <= pool.totalSupply
  BY DEF IInv, TypeInv, BankInv
<1>3. /\ vault'.ggp["Staking"] - t.ggpStaked = vault.ggp["Staking"] - stakers[o].ggpStaked
      /\ vault'.ggp["ClaimNodeOp"] - t.ggpRewards = vault.ggp["ClaimNodeOp"] - stakers[o].ggpRewards
      /\ stakers[o].exists => t.exists
      /\ t.lastRewardsCycleCompleted = stakers[o].lastRewardsCycleCompleted
      /\ vault' \in Vault!VaultStorage /\ InAllVault(vault') <= pool.totalSupply
  BY <1>1, <1>2 DEF SameMoney
<1> QED BY <1>1, <1>3, MoneyMoves

(* GGP moves or leaves that is neither stake nor rewards *)
LEMMA MoneyElsewhere ==
  ASSUME IInv, UNCHANGED stakers, Frame, vault' \in Vault!VaultStorage,
         vault'.ggp["Staking"] = vault.ggp["Staking"],
         vault'.ggp["ClaimNodeOp"] = vault.ggp["ClaimNodeOp"],
         InAllVault(vault') <= pool.totalSupply
  PROVE  IInv'
<1>0. TypeInv /\ StakersInv /\ BankInv /\ ScheduleInv /\ RoundInv /\ PaidInv /\ FundsInv
  BY DEF IInv
<1>1. TypeInv'
  BY <1>0 DEF TypeInv, Frame
<1>2. StakersInv' /\ RoundInv' /\ PaidInv' /\ ScheduleInv'
  BY <1>0 DEF StakersInv, RoundInv, PaidInv, ScheduleInv, InflationOnSchedule, Frame
<1>3. BankInv'
  BY <1>0 DEF BankInv, Frame
<1>4. FundsInv'
  <2>1. Backing' = Backing
    BY DEF Backing
  <2>2. LeftStaked' = LeftStaked /\ (OneRound' <=> OneRound)
    BY DEF LeftStaked, OneRound, Frame
  <2> QED BY <1>0, <2>1, <2>2 DEF FundsInv, Frame
<1> QED BY <1>1, <1>2, <1>3, <1>4 DEF IInv

(* Pauses, multisigs, percentages, prices and time touch no money *)
LEMMA SettingsChange ==
  ASSUME IInv, UNCHANGED <<pool, stakers, vault, round, history>>,
         now' \in Nat, now' >= now, pcts' \in [Claimers -> 0..Ether], enabled' \subseteq Multisigs,
         paused' \subseteq {"RewardsPool", "Staking"}, ggpPrice' \in Nat \ {0}
  PROVE  IInv'
<1>0. TypeInv /\ StakersInv /\ BankInv /\ ScheduleInv /\ RoundInv /\ PaidInv /\ FundsInv
  BY DEF IInv
<1>1. TypeInv'
  BY <1>0 DEF TypeInv
<1>2. StakersInv' /\ RoundInv' /\ PaidInv' /\ BankInv'
  BY <1>0 DEF StakersInv, RoundInv, PaidInv, BankInv
<1>3. ScheduleInv'
  <2>1. now \in Nat /\ pool.inflationIntervalStartTime \in Nat
    BY <1>0, PoolFields DEF TypeInv
  <2> QED BY <1>0, <2>1 DEF ScheduleInv, InflationOnSchedule
<1>4. FundsInv'
  <2>1. Backing' = Backing /\ LeftStaked' = LeftStaked /\ (OneRound' <=> OneRound)
    BY DEF Backing, LeftStaked, OneRound
  <2> QED BY <1>0, <2>1 DEF FundsInv
<1> QED BY <1>1, <1>2, <1>3, <1>4 DEF IInv

-----------------------------------------------------------------------------
(* The minipools *)

(* What the invariant says, as the steps need it. *)
LEMMA InvFacts ==
  ASSUME IInv
  PROVE  /\ \A o \in Owners : StakerOK(stakers[o]) /\ stakers[o] \in Staking!Staker
         /\ now \in Nat \ {0} /\ vault \in Vault!VaultStorage
         /\ InAllVault(vault) <= pool.totalSupply /\ InAllVault(vault) \in Nat
         /\ pool.totalSupply \in Nat
         /\ \A c \in NetworkContracts : vault.ggp[c] \in Nat
         /\ vault.ggp["Staking"] = StakedIn(stakers)
         /\ \A o \in Owners : stakers[o].ggpStaked <= vault.ggp["Staking"]
<1>1. TypeInv /\ StakersInv /\ BankInv
  BY DEF IInv
<1>2. \A o \in Owners : StakerOK(stakers[o]) /\ stakers[o] \in Staking!Staker
  BY <1>1 DEF StakersInv, StakerOK
<1>3. pool.totalSupply \in Nat
  BY <1>1, PoolFields
<1>4. \A c \in NetworkContracts : vault.ggp[c] \in Nat
  BY <1>1 DEF TypeInv, Vault!VaultStorage
<1>5. InAllVault(vault) \in Nat
  BY <1>4, ContractsFinite, SumType DEF InAllVault
<1>6. \A o \in Owners : stakers[o].ggpStaked <= StakedIn(stakers)
  <2> SUFFICES ASSUME NEW o \in Owners PROVE stakers[o].ggpStaked <= StakedIn(stakers)
    OBVIOUS
  <2> DEFINE f == [p \in Owners |-> stakers[p].ggpStaked]
  <2>1. f \in [Owners -> Nat] /\ f[o] = stakers[o].ggpStaked
    BY <1>2, StakerFields
  <2> HIDE DEF f
  <2>2. f[o] <= SumFunctionOnSet(f, Owners)
    BY <2>1, Constants, SumBoundsPart
  <2> QED BY <2>1, <2>2 DEF StakedIn, f
<1> QED BY <1>1, <1>2, <1>3, <1>4, <1>5, <1>6 DEF TypeInv, BankInv

(* The operations on minipools that change only the record of the owner. *)
LEMMA RecordsKeep ==
  ASSUME IInv, NEW o \in Owners, NEW x \in Assignments
  PROVE  /\ CreateMinipool(o, x) => IInv'
         /\ CancelMinipool(o, x) => IInv'
         /\ RecordStakingStart(o, x) => IInv'
         /\ RecordStakingError(o, x) => IInv'
         /\ RecordStakingEnd(o, x) => IInv'
         /\ WithdrawMinipoolFunds(o, x) => IInv'
<1> DEFINE s == stakers[o]
<1>1. StakerOK(s) /\ s \in Staking!Staker /\ now \in Nat \ {0} /\ x \in Nat \ {0}
  BY InvFacts, Constants
<1>2. s.ggpStaked \in Nat /\ s.ggpStaked - 0 = s.ggpStaked
  BY <1>1, StakerFields
<1>3. ASSUME CreateMinipool(o, x) PROVE IInv'
  <2> DEFINE t == Staking!StakerAfterCreate(s, x, now)
  <2>1. StakerOK(t) /\ SameMoney(s, t)
    BY <1>1, CreateOK
  <2>2. StakerChanges(o, t)
    BY <1>3 DEF CreateMinipool
  <2> HIDE DEF t
  <2> QED BY <2>1, <2>2, RecordChanges
<1>4. ASSUME CancelMinipool(o, x) PROVE IInv'
  <2> DEFINE t == Staking!StakerAfterCancel(s, x, x)
  <2>1. x <= s.avaxAssigned - s.avaxValidating /\ StakerChanges(o, t)
    BY <1>4 DEF CancelMinipool, Waiting
  <2>2. StakerOK(t) /\ SameMoney(s, t)
    BY <1>1, <2>1, CancelOK
  <2> HIDE DEF t
  <2> QED BY <2>1, <2>2, RecordChanges
<1>5. ASSUME RecordStakingStart(o, x) PROVE IInv'
  <2> DEFINE t == Staking!IncreaseAVAXValidating(s, x)
  <2>1. x <= s.avaxAssigned - s.avaxValidating /\ StakerChanges(o, t)
    BY <1>5 DEF RecordStakingStart, Waiting
  <2>2. StakerOK(t) /\ SameMoney(s, t)
    BY <1>1, <2>1, StartOK
  <2> HIDE DEF t
  <2> QED BY <2>1, <2>2, RecordChanges
<1>6. ASSUME RecordStakingError(o, x) PROVE IInv'
  <2> DEFINE t == Staking!StakerAfterError(s, x)
  <2>1. x <= s.avaxAssigned - s.avaxValidating /\ StakerChanges(o, t)
    BY <1>6 DEF RecordStakingError, Waiting
  <2>2. StakerOK(t) /\ SameMoney(s, t)
    BY <1>1, <2>1, ErrorOK
  <2> HIDE DEF t
  <2> QED BY <2>1, <2>2, RecordChanges
<1>7. ASSUME RecordStakingEnd(o, x) PROVE IInv'
  <2> DEFINE t == Staking!StakerAfterEnd(s, x, 0)
  <2>1. x <= s.avaxValidating /\ StakerChanges(o, t)
    BY <1>7 DEF RecordStakingEnd
  <2>2. /\ StakerOK(t) /\ t.ggpStaked = s.ggpStaked - 0 /\ t.ggpRewards = s.ggpRewards
        /\ t.exists = s.exists
        /\ t.lastRewardsCycleCompleted = s.lastRewardsCycleCompleted
    <3>1. x \in Nat /\ 0 \in Nat /\ 0 <= s.ggpStaked
      BY <1>1, <1>2
    <3> QED BY <1>1, <2>1, <3>1, EndOK
  <2>3. SameMoney(s, t)
    BY <1>2, <2>2 DEF SameMoney
  <2> HIDE DEF t
  <2> QED BY <2>1, <2>2, <2>3, RecordChanges
<1>8. ASSUME WithdrawMinipoolFunds(o, x) PROVE IInv'
  <2> DEFINE t == Staking!DecreaseAVAXStake(s, x)
  <2>1. x <= s.avaxStaked - s.avaxAssigned /\ StakerChanges(o, t)
    BY <1>8 DEF WithdrawMinipoolFunds
  <2>2. StakerOK(t) /\ SameMoney(s, t)
    BY <1>1, <2>1, WithdrawnOK
  <2> HIDE DEF t
  <2> QED BY <2>1, <2>2, RecordChanges
<1> QED BY <1>3, <1>4, <1>5, <1>6, <1>7, <1>8

(* The same of recordStakingEndThenMaybeCycle. *)
LEMMA NextCycleKeeps ==
  ASSUME IInv, NEW o \in Owners, NEW x \in Assignments, NEW y \in Compounded,
         RecordStakingEndThenCycle(o, x, y)
  PROVE  IInv'
<1> DEFINE s == stakers[o]
           t == Staking!StakerAfterRecreate(Staking!StakerAfterEnd(s, x, 0), y, x + y)
<1>1. StakerOK(s) /\ x \in Nat \ {0} /\ y \in Nat
  BY InvFacts, Constants
<1>2. x <= s.avaxValidating /\ StakerChanges(o, t)
  BY DEF RecordStakingEndThenCycle
<1>3. StakerOK(t) /\ SameMoney(s, t)
  BY <1>1, <1>2, CycleOK
<1> HIDE DEF t
<1> QED BY <1>2, <1>3, RecordChanges

(* A slash moves to ProtocolDAO what it takes from the record. *)
LEMMA SlashKeeps ==
  ASSUME IInv, NEW o \in Owners, NEW x \in Assignments, NEW due \in Slashes,
         RecordStakingEndAndSlash(o, x, due)
  PROVE  IInv'
<1> DEFINE s == stakers[o]
           g == IF s.ggpStaked < due THEN s.ggpStaked ELSE due
           t == Staking!StakerAfterEnd(s, x, g)
           u == Vault!TransferToken(vault, "Staking", "ProtocolDAO", g)
<1>1. /\ StakerOK(s) /\ s.ggpStaked \in Nat /\ due \in Nat /\ x \in Nat
      /\ vault \in Vault!VaultStorage /\ s.ggpStaked <= vault.ggp["Staking"]
      /\ vault.ggp["Staking"] \in Nat
  BY InvFacts, Constants, StakerFields, Names
<1>2. g \in Nat /\ g <= s.ggpStaked
  BY <1>1
<1>3. /\ x <= s.avaxValidating /\ stakers' = SetStaker(o, t) /\ vault' = u /\ Frame
  BY DEF RecordStakingEndAndSlash, SetStaker, Frame
<1> HIDE DEF g
<1>4. /\ StakerOK(t) /\ t.ggpStaked = s.ggpStaked - g /\ t.ggpRewards = s.ggpRewards
      /\ t.exists = s.exists
      /\ t.lastRewardsCycleCompleted = s.lastRewardsCycleCompleted
  BY <1>1, <1>2, <1>3, EndOK
<1>5. /\ u \in Vault!VaultStorage
      /\ u.ggp["Staking"] = vault.ggp["Staking"] - g
      /\ u.ggp["ClaimNodeOp"] = vault.ggp["ClaimNodeOp"]
      /\ InAllVault(u) = InAllVault(vault)
  <2>1. /\ g \in Nat /\ g <= vault.ggp["Staking"]
        /\ "Staking" \in NetworkContracts /\ "ProtocolDAO" \in NetworkContracts \ {"Staking"}
        /\ "ClaimNodeOp" \in NetworkContracts \ {"Staking", "ProtocolDAO"}
    BY <1>1, <1>2, Names
  <2> QED BY <1>1, <2>1, TransferTokenOK
<1> HIDE DEF t, u
<1>6. /\ vault'.ggp["Staking"] - t.ggpStaked = vault.ggp["Staking"] - s.ggpStaked
      /\ vault'.ggp["ClaimNodeOp"] - t.ggpRewards = vault.ggp["ClaimNodeOp"] - s.ggpRewards
      /\ s.exists => t.exists
      /\ vault' \in Vault!VaultStorage /\ InAllVault(vault') <= pool.totalSupply
  BY <1>1, <1>2, <1>3, <1>4, <1>5, InvFacts
<1> QED BY <1>3, <1>4, <1>6, MoneyMoves

-----------------------------------------------------------------------------
(* The stakers *)

(* A stake brings the GGP it adds to the record. *)
LEMMA StakeKeeps ==
  ASSUME IInv, NEW o \in Owners, NEW g \in GGPAmounts, StakeGGPTx(o, g)
  PROVE  IInv'
<1> DEFINE s == stakers[o]
           t == Staking!StakeGGP(s, g)
           u == Vault!DepositToken(vault, "Staking", g)
<1>1. /\ StakerOK(s) /\ s.ggpStaked \in Nat /\ g \in Nat /\ vault \in Vault!VaultStorage
      /\ vault.ggp["Staking"] \in Nat /\ InAllVault(vault) \in Nat /\ pool.totalSupply \in Nat
  BY InvFacts, Constants, StakerFields, Names
<1>2. /\ stakers' = SetStaker(o, t) /\ vault' = u /\ Frame
      /\ g <= pool.totalSupply - InAllVault(vault)
  BY DEF StakeGGPTx, SetStaker, Frame, Circulating, GGPOf, InAllVault
<1>3. /\ StakerOK(t) /\ t.ggpStaked = s.ggpStaked + g /\ t.ggpRewards = s.ggpRewards
      /\ t.exists
      /\ t.lastRewardsCycleCompleted = s.lastRewardsCycleCompleted
  BY <1>1, StakeOK
<1>4. /\ u \in Vault!VaultStorage
      /\ u.ggp["Staking"] = vault.ggp["Staking"] + g
      /\ u.ggp["ClaimNodeOp"] = vault.ggp["ClaimNodeOp"]
      /\ InAllVault(u) = InAllVault(vault) + g
  <2>1. "Staking" \in NetworkContracts /\ "ClaimNodeOp" \in NetworkContracts \ {"Staking"}
    BY Names
  <2> QED BY <1>1, <2>1, DepositTokenOK
<1> HIDE DEF t, u
<1>5. /\ vault'.ggp["Staking"] - t.ggpStaked = vault.ggp["Staking"] - s.ggpStaked
      /\ vault'.ggp["ClaimNodeOp"] - t.ggpRewards = vault.ggp["ClaimNodeOp"] - s.ggpRewards
      /\ s.exists => t.exists
      /\ vault' \in Vault!VaultStorage /\ InAllVault(vault') <= pool.totalSupply
  BY <1>1, <1>2, <1>3, <1>4
<1> QED BY <1>2, <1>3, <1>5, MoneyMoves

(* A withdrawal takes the GGP it takes from the record. *)
LEMMA UnstakeKeeps ==
  ASSUME IInv, NEW o \in Owners, NEW g \in Nat, WithdrawGGPTx(o, g)
  PROVE  IInv'
<1> DEFINE s == stakers[o]
           t == Staking!DecreaseGGPStake(s, g)
           u == Vault!WithdrawToken(vault, "Staking", g)
<1>1. /\ StakerOK(s) /\ s.ggpStaked \in Nat /\ g \in Nat /\ vault \in Vault!VaultStorage
      /\ vault.ggp["Staking"] \in Nat /\ InAllVault(vault) \in Nat /\ pool.totalSupply \in Nat
      /\ InAllVault(vault) <= pool.totalSupply
  BY InvFacts, Constants, StakerFields, Names
<1>2. /\ stakers' = SetStaker(o, t) /\ vault' = u /\ Frame
      /\ g <= s.ggpStaked /\ vault.ggp["Staking"] >= g
  BY DEF WithdrawGGPTx, SetStaker, Frame, Staking!CanWithdrawGGP, Vault!CanWithdrawToken
<1>3. /\ StakerOK(t) /\ t.ggpStaked = s.ggpStaked - g /\ t.ggpRewards = s.ggpRewards
      /\ t.exists = s.exists
      /\ t.lastRewardsCycleCompleted = s.lastRewardsCycleCompleted
  BY <1>1, <1>2, UnstakeOK
<1>4. /\ u \in Vault!VaultStorage
      /\ u.ggp["Staking"] = vault.ggp["Staking"] - g
      /\ u.ggp["ClaimNodeOp"] = vault.ggp["ClaimNodeOp"]
      /\ InAllVault(u) = InAllVault(vault) - g
  <2>1. /\ "Staking" \in NetworkContracts /\ "ClaimNodeOp" \in NetworkContracts \ {"Staking"}
        /\ g <= vault.ggp["Staking"]
    BY <1>1, <1>2, Names
  <2> QED BY <1>1, <2>1, WithdrawTokenOK
<1> HIDE DEF t, u
<1>5. /\ vault'.ggp["Staking"] - t.ggpStaked = vault.ggp["Staking"] - s.ggpStaked
      /\ vault'.ggp["ClaimNodeOp"] - t.ggpRewards = vault.ggp["ClaimNodeOp"] - s.ggpRewards
      /\ s.exists => t.exists
      /\ vault' \in Vault!VaultStorage /\ InAllVault(vault') <= pool.totalSupply
  BY <1>1, <1>2, <1>3, <1>4
<1> QED BY <1>2, <1>3, <1>5, MoneyMoves

(* A claim: what is restaked moves to Staking, the rest leaves. *)
LEMMA ClaimVault ==
  ASSUME NEW r \in Nat, NEW c \in Nat, c <= r, vault \in Vault!VaultStorage,
         r <= vault.ggp["ClaimNodeOp"]
  PROVE  LET u == VaultAfterClaim(r, c)
         IN  /\ u \in Vault!VaultStorage
             /\ u.ggp["Staking"] = vault.ggp["Staking"] + (r - c)
             /\ u.ggp["ClaimNodeOp"] = vault.ggp["ClaimNodeOp"] - r
             /\ InAllVault(u) <= InAllVault(vault) /\ InAllVault(u) \in Nat
<1> DEFINE w == IF c = r THEN vault
                ELSE Vault!TransferToken(vault, "ClaimNodeOp", "Staking", r - c)
           u == IF c = 0 THEN w ELSE Vault!WithdrawToken(w, "ClaimNodeOp", c)
<1>0. /\ "Staking" \in NetworkContracts \ {"ClaimNodeOp"} /\ "ClaimNodeOp" \in NetworkContracts
      /\ "Staking" \in NetworkContracts
      /\ vault.ggp["Staking"] \in Nat /\ vault.ggp["ClaimNodeOp"] \in Nat
      /\ InAllVault(vault) \in Nat
  <2>1. \A d \in NetworkContracts : vault.ggp[d] \in Nat
    BY DEF Vault!VaultStorage
  <2>2. InAllVault(vault) \in Nat
    BY <2>1, ContractsFinite, SumType DEF InAllVault
  <2> QED BY <2>1, <2>2, Names
<1>1. /\ w \in Vault!VaultStorage
      /\ w.ggp["Staking"] = vault.ggp["Staking"] + (r - c)
      /\ w.ggp["ClaimNodeOp"] = vault.ggp["ClaimNodeOp"] - (r - c)
      /\ InAllVault(w) = InAllVault(vault)
  <2>1. CASE c = r
    BY <2>1, <1>0
  <2>2. CASE c # r
    <3> DEFINE x == Vault!TransferToken(vault, "ClaimNodeOp", "Staking", r - c)
    <3>1. r - c \in Nat /\ r - c <= vault.ggp["ClaimNodeOp"]
      BY <1>0
    <3>2. /\ x \in Vault!VaultStorage
          /\ x.ggp["Staking"] = vault.ggp["Staking"] + (r - c)
          /\ x.ggp["ClaimNodeOp"] = vault.ggp["ClaimNodeOp"] - (r - c)
          /\ InAllVault(x) = InAllVault(vault)
      BY <1>0, <3>1, TransferTokenOK
    <3>3. w = x
      BY <2>2
    <3> HIDE DEF w, x
    <3> QED BY <3>2, <3>3
  <2> QED BY <2>1, <2>2
<1> HIDE DEF w
<1>2. /\ u \in Vault!VaultStorage
      /\ u.ggp["Staking"] = w.ggp["Staking"]
      /\ u.ggp["ClaimNodeOp"] = w.ggp["ClaimNodeOp"] - c
      /\ InAllVault(u) = InAllVault(w) - c /\ InAllVault(u) \in Nat
  <2>0. c <= w.ggp["ClaimNodeOp"] /\ w.ggp["ClaimNodeOp"] \in Nat /\ InAllVault(w) \in Nat
    BY <1>0, <1>1
  <2>1. CASE c = 0
    BY <2>0, <2>1, <1>1
  <2>2. CASE c # 0
    <3> DEFINE x == Vault!WithdrawToken(w, "ClaimNodeOp", c)
    <3>1. w \in Vault!VaultStorage /\ c <= w.ggp["ClaimNodeOp"]
      BY <1>1, <2>0
    <3>2. /\ x \in Vault!VaultStorage
          /\ x.ggp["Staking"] = w.ggp["Staking"]
          /\ x.ggp["ClaimNodeOp"] = w.ggp["ClaimNodeOp"] - c
          /\ InAllVault(x) = InAllVault(w) - c
      BY <1>0, <3>1, WithdrawTokenOK
    <3>4. InAllVault(x) \in Nat
      <4>1. \A d \in NetworkContracts : x.ggp[d] \in Nat
        <5> HIDE DEF x
        <5> QED BY <3>2 DEF Vault!VaultStorage
      <4> HIDE DEF x
      <4> QED BY <4>1, ContractsFinite, SumType DEF InAllVault
    <3>3. u = x
      BY <2>2
    <3> HIDE DEF u, x
    <3> QED BY <3>2, <3>3, <3>4
  <2> QED BY <2>1, <2>2
<1>3. u = VaultAfterClaim(r, c)
  BY DEF VaultAfterClaim, w
<1> HIDE DEF u
<1>4. /\ u \in Vault!VaultStorage
      /\ u.ggp["Staking"] = vault.ggp["Staking"] + (r - c)
      /\ u.ggp["ClaimNodeOp"] = vault.ggp["ClaimNodeOp"] - r
      /\ InAllVault(u) <= InAllVault(vault) /\ InAllVault(u) \in Nat
  BY <1>0, <1>1, <1>2
<1> QED BY <1>3, <1>4

(* A claim takes from ClaimNodeOp what it takes from the record, and a     *)
(* restake brings Staking what it adds to it.                              *)
LEMMA ClaimKeeps ==
  ASSUME IInv, NEW o \in Owners, NEW c \in Nat, ClaimAndRestakeTx(o, c)
  PROVE  IInv'
<1> DEFINE s == stakers[o]
           r == s.ggpRewards
           z == [s EXCEPT !.ggpRewards = 0]
           t == IF c = r THEN z ELSE Staking!StakeGGP(z, r - c)
           u == VaultAfterClaim(r, c)
<1>1. /\ StakerOK(s) /\ s.ggpStaked \in Nat /\ r \in Nat /\ vault \in Vault!VaultStorage
      /\ vault.ggp["Staking"] \in Nat /\ vault.ggp["ClaimNodeOp"] \in Nat
      /\ InAllVault(vault) \in Nat /\ pool.totalSupply \in Nat
      /\ InAllVault(vault) <= pool.totalSupply
  BY InvFacts, StakerFields, Names
<1>2. /\ stakers' = SetStaker(o, t) /\ vault' = u /\ Frame
      /\ c <= r /\ r <= vault.ggp["ClaimNodeOp"]
  BY <1>1 DEF ClaimAndRestakeTx, SetStaker, Frame
<1>3. /\ StakerOK(z) /\ z.ggpStaked = s.ggpStaked /\ z.ggpRewards = 0 /\ z.exists = s.exists
      /\ z.lastRewardsCycleCompleted = s.lastRewardsCycleCompleted
  BY <1>1, ClaimedOK
<1> HIDE DEF z
<1>4. /\ StakerOK(t) /\ t.ggpStaked = s.ggpStaked + (r - c) /\ t.ggpRewards = 0
      /\ s.exists => t.exists
      /\ t.lastRewardsCycleCompleted = s.lastRewardsCycleCompleted
  <2>1. CASE c = r
    BY <2>1, <1>1, <1>3
  <2>2. CASE c # r
    <3> DEFINE y == Staking!StakeGGP(z, r - c)
    <3>1. r - c \in Nat /\ StakerOK(z)
      BY <1>1, <1>2, <1>3
    <3>2. /\ StakerOK(y) /\ y.ggpStaked = z.ggpStaked + (r - c) /\ y.ggpRewards = z.ggpRewards
          /\ y.exists
          /\ y.lastRewardsCycleCompleted = z.lastRewardsCycleCompleted
      BY <3>1, StakeOK
    <3>3. t = y
      BY <2>2
    <3> HIDE DEF y, t
    <3> QED BY <1>3, <3>2, <3>3
  <2> QED BY <2>1, <2>2
<1>5. /\ u \in Vault!VaultStorage
      /\ u.ggp["Staking"] = vault.ggp["Staking"] + (r - c)
      /\ u.ggp["ClaimNodeOp"] = vault.ggp["ClaimNodeOp"] - r
      /\ InAllVault(u) <= InAllVault(vault) /\ InAllVault(u) \in Nat
  BY <1>1, <1>2, ClaimVault
<1> HIDE DEF t, u
<1>6. /\ vault'.ggp["Staking"] - t.ggpStaked = vault.ggp["Staking"] - s.ggpStaked
      /\ vault'.ggp["ClaimNodeOp"] - t.ggpRewards = vault.ggp["ClaimNodeOp"] - s.ggpRewards
      /\ vault' \in Vault!VaultStorage /\ InAllVault(vault') <= pool.totalSupply
  BY <1>1, <1>2, <1>4, <1>5
<1> QED BY <1>2, <1>4, <1>6, MoneyMoves

-----------------------------------------------------------------------------
(* The guardian and the multisigs *)

(* What the other contracts spend is neither stake nor rewards. *)
LEMMA SpendKeeps ==
  ASSUME IInv, NEW c \in NetworkContracts \ {"Staking", "ClaimNodeOp"}, NEW g \in Nat,
         g <= vault.ggp[c], vault' = Vault!WithdrawToken(vault, c, g),
         UNCHANGED stakers, Frame
  PROVE  IInv'
<1> DEFINE u == Vault!WithdrawToken(vault, c, g)
<1>1. /\ vault \in Vault!VaultStorage
      /\ InAllVault(vault) \in Nat /\ pool.totalSupply \in Nat
      /\ InAllVault(vault) <= pool.totalSupply
  BY InvFacts
<1>2. /\ u \in Vault!VaultStorage
      /\ u.ggp["Staking"] = vault.ggp["Staking"]
      /\ u.ggp["ClaimNodeOp"] = vault.ggp["ClaimNodeOp"]
      /\ InAllVault(u) = InAllVault(vault) - g
  <2>1. /\ "Staking" \in NetworkContracts \ {c} /\ "ClaimNodeOp" \in NetworkContracts \ {c}
        /\ c \in NetworkContracts
    BY Names
  <2> QED BY <1>1, <2>1, WithdrawTokenOK
<1>3. vault' = u
  OBVIOUS
<1> HIDE DEF u
<1>4. /\ vault' \in Vault!VaultStorage
      /\ vault'.ggp["Staking"] = vault.ggp["Staking"]
      /\ vault'.ggp["ClaimNodeOp"] = vault.ggp["ClaimNodeOp"]
      /\ InAllVault(vault') <= pool.totalSupply
  BY <1>1, <1>2, <1>3
<1> QED BY <1>4, MoneyElsewhere

(* So is all that the guardian and the multisigs can do. *)
LEMMA GuardianKeeps ==
  ASSUME IInv, GuardianNext
  PROVE  IInv'
<1>0. TypeInv
  BY DEF IInv
<1>1. ASSUME NEW c \in {"ClaimProtocolDAO", "ProtocolDAO"}, SpendTx(c, vault.ggp[c])
      PROVE  IInv'
  <2> DEFINE g == vault.ggp[c]
  <2>1. c \in NetworkContracts \ {"Staking", "ClaimNodeOp"}
    BY Names
  <2>2. g \in Nat /\ g <= vault.ggp[c]
    BY <2>1, InvFacts
  <2>3. vault' = Vault!WithdrawToken(vault, c, g) /\ UNCHANGED stakers /\ Frame
    BY <1>1 DEF SpendTx, Frame
  <2> HIDE DEF g
  <2> QED BY <2>1, <2>2, <2>3, SpendKeeps
<1>2. ASSUME WithdrawUnclaimedGGPTx PROVE IInv'
  <2> DEFINE c == "MultisigManager"
             g == vault.ggp[c]
  <2>1. c \in NetworkContracts \ {"Staking", "ClaimNodeOp"}
    BY Names
  <2>2. g \in Nat /\ g <= vault.ggp[c]
    BY <2>1, InvFacts
  <2>3. vault' = Vault!WithdrawToken(vault, c, g) /\ UNCHANGED stakers /\ Frame
    BY <1>2 DEF WithdrawUnclaimedGGPTx, Frame
  <2> HIDE DEF g, c
  <2> QED BY <2>1, <2>2, <2>3, SpendKeeps
<1>3. ASSUME NEW a \in Multisigs, EnableMultisigTx(a) \/ DisableMultisigTx(a) PROVE IInv'
  <2>1. enabled' \subseteq Multisigs
    BY <1>0, <1>3 DEF TypeInv, EnableMultisigTx, DisableMultisigTx
  <2>2. UNCHANGED <<now, pool, pcts, stakers, vault, paused, ggpPrice, round, history>>
    BY <1>3 DEF EnableMultisigTx, DisableMultisigTx
  <2> QED BY <1>0, <2>1, <2>2, SettingsChange DEF TypeInv
<1>4. ASSUME NEW c \in PausedContracts, PauseContractTx(c) \/ ResumeContractTx(c) PROVE IInv'
  <2>1. paused' \subseteq {"RewardsPool", "Staking"}
    BY <1>0, <1>4, Constants DEF TypeInv, PauseContractTx, ResumeContractTx
  <2>2. UNCHANGED <<now, pool, pcts, stakers, vault, enabled, ggpPrice, round, history>>
    BY <1>4 DEF PauseContractTx, ResumeContractTx
  <2> QED BY <1>0, <2>1, <2>2, SettingsChange DEF TypeInv
<1>5. ASSUME NEW p \in PctChoices, SetClaimingContractPctTx(p[1], p[2]) PROVE IInv'
  <2>1. pcts' \in [Claimers -> 0..Ether]
    <3>1. p \in Claimers \X (0..Ether)
      BY Constants
    <3>2. p[1] \in Claimers /\ p[2] \in 0..Ether
      BY <3>1
    <3> QED BY <1>0, <1>5, <3>2 DEF TypeInv, SetClaimingContractPctTx
  <2> QED BY <1>0, <1>5, <2>1, SettingsChange DEF TypeInv, SetClaimingContractPctTx
<1>6. ASSUME NEW p \in GGPPrices, SetGGPPriceTx(p) PROVE IInv'
  BY <1>0, <1>6, SettingsChange, Constants DEF TypeInv, SetGGPPriceTx
<1> QED BY <1>1, <1>2, <1>3, <1>4, <1>5, <1>6 DEF GuardianNext

(* Time passes. *)
LEMMA TickKeeps ==
  ASSUME IInv, Tick
  PROVE  IInv'
<1>1. TypeInv
  BY DEF IInv
<1> QED BY <1>1, SettingsChange DEF TypeInv, Tick

-----------------------------------------------------------------------------
(* A rewards cycle starts *)

(* What is minted keeps the supply on its schedule and below its maximum. *)
LEMMA MintedOnSchedule ==
  ASSUME IInv, InflationIntervalsElapsed > 0
  PROVE  /\ NewTokens \in Nat
         /\ pool.totalSupply + NewTokens <= MaxSupply
         /\ pool.totalSupply + NewTokens <=
              Inflated(InitialSupply)[(now - InitializedAt) \div InflationIntervalSeconds]
<1> DEFINE L == InflationIntervalSeconds
           start == pool.inflationIntervalStartTime
           k == (now - start) \div L
           m == (start - InitializedAt) \div L
           n == (now - InitializedAt) \div L
           ts == pool.totalSupply
           g == Inflated(ts)[k]
<1>1. /\ L \in Nat \ {0} /\ now \in Nat /\ start \in Nat /\ InitializedAt \in Nat /\ ts \in Nat
      /\ MaxSupply \in Nat /\ InitialSupply \in Nat
      /\ InitializedAt <= start /\ start <= now /\ ts <= MaxSupply
      /\ ts <= Inflated(InitialSupply)[m]
  BY Constants, InvFacts, PoolFields DEF IInv, ScheduleInv, InflationOnSchedule
<1>2. k \in Nat /\ m \in Nat /\ n \in Nat /\ m + k <= n
  <2>1. now - start \in Nat /\ start - InitializedAt \in Nat /\ now - InitializedAt \in Nat
    BY <1>1
  <2>2. /\ k \in Nat /\ m \in Nat /\ n \in Nat
        /\ k * L <= now - start /\ m * L <= start - InitializedAt
    BY <1>1, <2>1, DivBounds
  <2> HIDE DEF k, m, L, start
  <2>3. (m + k) * L = m * L + k * L /\ m * L \in Nat /\ k * L \in Nat
    BY <1>1, <2>2
  <2>4. (m + k) * L <= now - InitializedAt /\ m + k \in Nat
    BY <1>1, <2>1, <2>2, <2>3
  <2>5. m + k <= (now - InitializedAt) \div L
    BY <1>1, <2>1, <2>4, DivLowerBound
  <2> QED BY <2>2, <2>5
<1> HIDE DEF k, m, n
<1>3. g \in Nat /\ ts <= g
  <2>1. Inflated(ts)[0] = ts /\ Inflated(ts)[k] \in Nat
    BY <1>1, <1>2, InflatedUnfold, InflatedType
  <2>2. Inflated(ts)[0] <= Inflated(ts)[k]
    <3>1. 0 \in Nat /\ 0 <= k
      BY <1>2
    <3> QED BY <1>1, <1>2, <3>1, InflatedMonotone
  <2> QED BY <2>1, <2>2
<1>4. g <= Inflated(InitialSupply)[n]
  <2>1. g <= Inflated(InitialSupply)[m + k]
    BY <1>1, <1>2, InflatedCompose
  <2>2. m + k \in Nat /\ Inflated(InitialSupply)[m + k] <= Inflated(InitialSupply)[n]
    BY <1>1, <1>2, InflatedMonotone
  <2>3. Inflated(InitialSupply)[m + k] \in Nat /\ Inflated(InitialSupply)[n] \in Nat
    BY <1>1, <1>2, <2>2, InflatedType
  <2> QED BY <1>3, <2>1, <2>2, <2>3
<1>5. NewTokens = IF g > MaxSupply THEN MaxSupply - ts ELSE g - ts
  BY DEF NewTokens, InflationIntervalsElapsed, k
<1>6. Inflated(InitialSupply)[n] \in Nat
  BY <1>1, <1>2, InflatedType
<1> HIDE DEF g
<1>7. NewTokens \in Nat /\ ts + NewTokens <= MaxSupply /\ ts + NewTokens <= g
  <2> DEFINE x == NewTokens
  <2>1. x = IF g > MaxSupply THEN MaxSupply - ts ELSE g - ts
    BY <1>5
  <2> HIDE DEF x, ts
  <2> QED BY <1>1, <1>3, <2>1 DEF x
<1>8. ts + NewTokens <= Inflated(InitialSupply)[n]
  BY <1>1, <1>3, <1>4, <1>6, <1>7
<1> QED BY <1>7, <1>8 DEF n

(* An allotment is a number. *)
LEMMA AllotmentType ==
  ASSUME TypeInv, NEW total \in Nat
  PROVE  \A c \in Claimers : Allotment(c, total) \in Nat
<1> SUFFICES ASSUME NEW c \in Claimers PROVE Allotment(c, total) \in Nat
  OBVIOUS
<1>1. pcts[c] \in Nat /\ Ether \in Nat \ {0}
  BY Constants DEF TypeInv
<1> QED BY <1>1, MulDivDownBounds DEF Allotment, MulWadDown

(* The claimers, by name. *)
LEMMA ClaimerNames ==
  "ClaimProtocolDAO" \in Claimers /\ "ClaimNodeOp" \in Claimers /\ "MultisigManager" \in Claimers
BY DEF Claimers

(* The parts leave RewardsPool, which had received all that was minted. *)
LEMMA DistributeOK ==
  ASSUME TypeInv, NEW x \in Nat, AllotmentsFit(x), IsFiniteSet(Multisigs)
  PROVE  LET u == Distribute(vault, x)
         IN  /\ u \in Vault!VaultStorage
             /\ u.ggp["Staking"] = vault.ggp["Staking"]
             /\ u.ggp["ClaimNodeOp"] = vault.ggp["ClaimNodeOp"] + Allotment("ClaimNodeOp", x)
             /\ InAllVault(u) <= InAllVault(vault) + x
<1> DEFINE p == Allotment("ClaimProtocolDAO", x)
           q == Allotment("ClaimNodeOp", x)
           r == Allotment("MultisigManager", x)
           A == Vault!DepositToken(vault, "RewardsPool", x)
           B == Transferred(A, "ClaimProtocolDAO", p)
           C == PayMultisigs(B, r)
           D == Transferred(C, "ClaimNodeOp", q)
<1>1. p \in Nat /\ q \in Nat /\ r \in Nat /\ p + q + r <= x
  BY AllotmentType, ClaimerNames DEF AllotmentsFit
<1> HIDE DEF p, q, r
<1>2. /\ A \in Vault!VaultStorage /\ A.ggp["RewardsPool"] >= x
      /\ A.ggp["Staking"] = vault.ggp["Staking"] /\ A.ggp["ClaimNodeOp"] = vault.ggp["ClaimNodeOp"]
      /\ InAllVault(A) = InAllVault(vault) + x /\ A.ggp["RewardsPool"] \in Nat
      /\ InAllVault(vault) \in Nat
  <2>1. /\ "RewardsPool" \in NetworkContracts
        /\ "Staking" \in NetworkContracts \ {"RewardsPool"}
        /\ "ClaimNodeOp" \in NetworkContracts \ {"RewardsPool"}
        /\ vault \in Vault!VaultStorage
    BY Names DEF TypeInv
  <2>2. /\ A \in Vault!VaultStorage /\ A.ggp["RewardsPool"] = vault.ggp["RewardsPool"] + x
        /\ A.ggp["Staking"] = vault.ggp["Staking"] /\ A.ggp["ClaimNodeOp"] = vault.ggp["ClaimNodeOp"]
        /\ InAllVault(A) = InAllVault(vault) + x /\ vault.ggp["RewardsPool"] \in Nat
        /\ InAllVault(vault) \in Nat
    <3>1. "RewardsPool" \in NetworkContracts /\ x \in Nat /\ vault \in Vault!VaultStorage
      BY <2>1
    <3>2. /\ A \in Vault!VaultStorage /\ A.ggp["RewardsPool"] = vault.ggp["RewardsPool"] + x
          /\ \A d \in NetworkContracts \ {"RewardsPool"} : A.ggp[d] = vault.ggp[d]
          /\ \A d \in NetworkContracts : vault.ggp[d] \in Nat
          /\ InAllVault(A) = InAllVault(vault) + x /\ InAllVault(vault) \in Nat
      BY <3>1, DepositTokenOK
    <3> HIDE DEF A
    <3> QED BY <2>1, <3>2
  <2> HIDE DEF A
  <2> QED BY <2>2
<1> HIDE DEF A
<1>3. /\ B \in Vault!VaultStorage /\ B.ggp["RewardsPool"] = A.ggp["RewardsPool"] - p
      /\ B.ggp["Staking"] = A.ggp["Staking"] /\ B.ggp["ClaimNodeOp"] = A.ggp["ClaimNodeOp"]
      /\ InAllVault(B) = InAllVault(A) /\ InAllVault(A) \in Nat
  <2>0. InAllVault(A) \in Nat
    BY <1>2
  <2>1. CASE p = 0
    BY <2>0, <2>1, <1>2 DEF Transferred
  <2>2. CASE p # 0
    <3> DEFINE w == Vault!TransferToken(A, "RewardsPool", "ClaimProtocolDAO", p)
    <3>1. /\ "RewardsPool" \in NetworkContracts /\ A \in Vault!VaultStorage
          /\ "ClaimProtocolDAO" \in NetworkContracts \ {"RewardsPool"}
          /\ "Staking" \in NetworkContracts \ {"RewardsPool", "ClaimProtocolDAO"}
          /\ "ClaimNodeOp" \in NetworkContracts \ {"RewardsPool", "ClaimProtocolDAO"}
          /\ p \in Nat /\ p <= A.ggp["RewardsPool"]
      BY <1>1, <1>2, Names
    <3>2. /\ w \in Vault!VaultStorage /\ w.ggp["RewardsPool"] = A.ggp["RewardsPool"] - p
          /\ w.ggp["Staking"] = A.ggp["Staking"] /\ w.ggp["ClaimNodeOp"] = A.ggp["ClaimNodeOp"]
          /\ InAllVault(w) = InAllVault(A)
      BY <3>1, TransferTokenOK
    <3>3. B = w
      BY <2>2 DEF Transferred
    <3> HIDE DEF B, w
    <3> QED BY <2>0, <3>2, <3>3
  <2> QED BY <2>1, <2>2
<1> HIDE DEF B
<1>4. /\ C \in Vault!VaultStorage /\ C.ggp["RewardsPool"] >= q /\ C.ggp["RewardsPool"] \in Nat
      /\ C.ggp["Staking"] = B.ggp["Staking"] /\ C.ggp["ClaimNodeOp"] = B.ggp["ClaimNodeOp"]
      /\ InAllVault(C) <= InAllVault(B) /\ InAllVault(C) \in Nat
  <2>0. /\ B.ggp["RewardsPool"] \in Nat /\ B.ggp["RewardsPool"] >= r + q
        /\ InAllVault(B) \in Nat
    BY <1>1, <1>2, <1>3
  <2>1. CASE r = 0
    BY <1>1, <1>3, <2>0, <2>1 DEF PayMultisigs
  <2>2. CASE r # 0 /\ enabled = {}
    <3> DEFINE w == Vault!TransferToken(B, "RewardsPool", "MultisigManager", r)
    <3>1. /\ "RewardsPool" \in NetworkContracts /\ B \in Vault!VaultStorage
          /\ "MultisigManager" \in NetworkContracts \ {"RewardsPool"}
          /\ "Staking" \in NetworkContracts \ {"RewardsPool", "MultisigManager"}
          /\ "ClaimNodeOp" \in NetworkContracts \ {"RewardsPool", "MultisigManager"}
          /\ r \in Nat /\ r <= B.ggp["RewardsPool"]
      BY <1>1, <1>3, <2>0, Names
    <3>2. /\ w \in Vault!VaultStorage /\ w.ggp["RewardsPool"] = B.ggp["RewardsPool"] - r
          /\ w.ggp["Staking"] = B.ggp["Staking"] /\ w.ggp["ClaimNodeOp"] = B.ggp["ClaimNodeOp"]
          /\ InAllVault(w) = InAllVault(B)
      BY <3>1, TransferTokenOK
    <3>3. C = w
      BY <2>2 DEF PayMultisigs
    <3> HIDE DEF C, w
    <3> QED BY <1>1, <2>0, <3>2, <3>3
  <2>3. CASE r # 0 /\ enabled # {}
    <3> DEFINE n == Cardinality(enabled)
               e == r \div n
               y == e * n
               w == Vault!WithdrawToken(B, "RewardsPool", y)
    <3>1. n \in Nat \ {0}
      <4>1. IsFiniteSet(enabled)
        BY FS_Subset DEF TypeInv
      <4> QED BY <2>3, <4>1, FS_CardinalityType, FS_EmptySet
    <3> HIDE DEF n
    <3>2. e \in Nat /\ y <= r
      BY <1>1, <3>1, DivBounds
    <3>3. y \in Nat
      <4> HIDE DEF e
      <4> QED BY <3>1, <3>2
    <3>4. C = w
      BY <2>3 DEF PayMultisigs, TokensPerMultisig, n
    <3> HIDE DEF e, y
    <3>5. /\ "RewardsPool" \in NetworkContracts /\ B \in Vault!VaultStorage
          /\ "Staking" \in NetworkContracts \ {"RewardsPool"}
          /\ "ClaimNodeOp" \in NetworkContracts \ {"RewardsPool"}
          /\ y \in Nat /\ y <= B.ggp["RewardsPool"]
      BY <1>1, <1>3, <2>0, <3>2, <3>3, Names
    <3>6. /\ w \in Vault!VaultStorage /\ w.ggp["RewardsPool"] = B.ggp["RewardsPool"] - y
          /\ w.ggp["Staking"] = B.ggp["Staking"] /\ w.ggp["ClaimNodeOp"] = B.ggp["ClaimNodeOp"]
          /\ InAllVault(w) = InAllVault(B) - y
          /\ \A d \in NetworkContracts : w.ggp[d] \in Nat
      BY <3>5, WithdrawTokenOK
    <3> HIDE DEF w
    <3>7. InAllVault(w) \in Nat
      BY <3>6, ContractsFinite, SumType DEF InAllVault
    <3> HIDE DEF C
    <3> QED BY <1>1, <2>0, <3>2, <3>3, <3>4, <3>6, <3>7
  <2> QED BY <2>1, <2>2, <2>3
<1> HIDE DEF C
<1>5. /\ D \in Vault!VaultStorage
      /\ D.ggp["Staking"] = C.ggp["Staking"] /\ D.ggp["ClaimNodeOp"] = C.ggp["ClaimNodeOp"] + q
      /\ InAllVault(D) = InAllVault(C)
  <2>1. CASE q = 0
    <3>1. C.ggp["ClaimNodeOp"] \in Nat
      BY <1>4, Names DEF Vault!VaultStorage
    <3> QED BY <2>1, <3>1, <1>4 DEF Transferred
  <2>2. CASE q # 0
    <3> DEFINE w == Vault!TransferToken(C, "RewardsPool", "ClaimNodeOp", q)
    <3>1. /\ "RewardsPool" \in NetworkContracts /\ C \in Vault!VaultStorage
          /\ "ClaimNodeOp" \in NetworkContracts \ {"RewardsPool"}
          /\ "Staking" \in NetworkContracts \ {"RewardsPool", "ClaimNodeOp"}
          /\ q \in Nat /\ q <= C.ggp["RewardsPool"]
      BY <1>1, <1>4, Names
    <3>2. /\ w \in Vault!VaultStorage /\ w.ggp["ClaimNodeOp"] = C.ggp["ClaimNodeOp"] + q
          /\ w.ggp["Staking"] = C.ggp["Staking"]
          /\ InAllVault(w) = InAllVault(C)
      BY <3>1, TransferTokenOK
    <3>3. D = w
      BY <2>2 DEF Transferred
    <3> HIDE DEF D, w
    <3> QED BY <3>2, <3>3
  <2> QED BY <2>1, <2>2
<1>6. D = Distribute(vault, x)
  BY DEF Distribute, A, B, C, p, q, r
<1> HIDE DEF D
<1>7. /\ D \in Vault!VaultStorage
      /\ D.ggp["Staking"] = vault.ggp["Staking"]
      /\ D.ggp["ClaimNodeOp"] = vault.ggp["ClaimNodeOp"] + q
      /\ InAllVault(D) <= InAllVault(vault) + x
  BY <1>2, <1>3, <1>4, <1>5
<1> QED BY <1>6, <1>7 DEF q

(* The storage of RewardsPool after it. *)
LEMMA PoolAfterCycleOK ==
  ASSUME TypeInv, NEW x \in Nat
  PROVE  LET q == PoolAfterCycle(x)
         IN  /\ q \in PoolStorage /\ q.rewardsCycleCount = pool.rewardsCycleCount + 1
             /\ q.inflationIntervalStartTime = now /\ q.totalSupply = pool.totalSupply + x
             /\ Allotment("ClaimNodeOp", x) > 0
                  => q.nopRewardsCycleTotal = Allotment("ClaimNodeOp", x)
<1> DEFINE a == Allotment("ClaimNodeOp", x)
           c == pool.rewardsCycleCount + 1
           t == pool.totalSupply + x
           n == IF a > 0 THEN a ELSE pool.nopRewardsCycleTotal
           q == [pool EXCEPT !.rewardsCycleCount = c, !.rewardsCycleStartTime = now,
                             !.inflationIntervalStartTime = now, !.rewardsCycleTotalAmt = x,
                             !.totalSupply = t, !.nopRewardsCycleTotal = n]
<1>1. a \in Nat /\ now \in Nat /\ pool \in PoolStorage
  BY AllotmentType, ClaimerNames DEF TypeInv
<1>2. c \in Nat /\ t \in Nat /\ n \in Nat
  <2> HIDE DEF a
  <2> QED BY <1>1, PoolFields
<1>3. q = PoolAfterCycle(x)
  BY <1>1 DEF PoolAfterCycle, PoolStorage
<1>4. q \in PoolStorage
  <2> HIDE DEF c, t, n
  <2> QED BY <1>1, <1>2 DEF PoolStorage
<1>5. /\ q.rewardsCycleCount = c /\ q.inflationIntervalStartTime = now /\ q.totalSupply = t
      /\ q.nopRewardsCycleTotal = n
  <2> HIDE DEF c, t, n
  <2> QED BY <1>1, <1>2 DEF PoolStorage
<1> HIDE DEF q, a
<1> QED BY <1>3, <1>4, <1>5 DEF a

(* Those who are left count for no more than the total. *)
LEMMA LeftBounded ==
  ASSUME TypeInv, RoundInv, round.phase = "paying"
  PROVE  LeftStaked \in Nat /\ LeftStaked <= round.totalEligibleGGPStaked
<1> DEFINE f == round.ggpStaked
           S == round.eligible
           L == round.left
<1>1. S \subseteq Owners /\ L \subseteq S /\ f \in [Owners -> Nat]
  BY RoundFields DEF RoundInv
<1>2. round.totalEligibleGGPStaked = SumFunctionOnSet(f, S)
  BY DEF RoundInv
<1>3. LeftStaked = SumFunctionOnSet(f, L)
  BY DEF LeftStaked
<1> HIDE DEF f, S, L
<1>4. IsFiniteSet(S) /\ IsFiniteSet(L) /\ L \in SUBSET S /\ \A p \in S : f[p] \in Nat
  BY <1>1, Constants, FS_Subset
<1>5. SumFunctionOnSet(f, L) <= SumFunctionOnSet(f, S)
  BY <1>4, SumSubset
<1>6. \A p \in L : f[p] \in Nat
  BY <1>4
<1>7. SumFunctionOnSet(f, L) \in Nat
  BY <1>4, <1>6, SumType
<1> QED BY <1>2, <1>3, <1>5, <1>7

(* The cycle that starts brings ClaimNodeOp at least the total it sets. *)
LEMMA CycleKeeps ==
  ASSUME IInv, StartRewardsCycleTx
  PROVE  IInv'
<1> DEFINE x == NewTokens
           a == Allotment("ClaimNodeOp", x)
           q == PoolAfterCycle(x)
           u == Distribute(vault, x)
<1>0. TypeInv /\ StakersInv /\ BankInv /\ ScheduleInv /\ RoundInv /\ PaidInv /\ FundsInv
  BY DEF IInv
<1>1. /\ InflationIntervalsElapsed > 0 /\ AllotmentsFit(x)
      /\ pool' = q /\ vault' = u /\ history' = HistoryAfterCycle(x)
      /\ UNCHANGED <<now, pcts, stakers, enabled, paused, ggpPrice, round>>
  BY DEF StartRewardsCycleTx, CanStartRewardsCycle
<1>2. /\ x \in Nat /\ pool.totalSupply + x <= MaxSupply
      /\ pool.totalSupply + x <=
           Inflated(InitialSupply)[(now - InitializedAt) \div InflationIntervalSeconds]
  BY <1>1, MintedOnSchedule
<1> HIDE DEF x
<1>3. a \in Nat
  BY <1>0, <1>2, AllotmentType, ClaimerNames
<1>4. /\ q \in PoolStorage /\ q.rewardsCycleCount = pool.rewardsCycleCount + 1
      /\ q.inflationIntervalStartTime = now /\ q.totalSupply = pool.totalSupply + x
      /\ a > 0 => q.nopRewardsCycleTotal = a
  BY <1>0, <1>2, PoolAfterCycleOK
<1>5. /\ u \in Vault!VaultStorage
      /\ u.ggp["Staking"] = vault.ggp["Staking"]
      /\ u.ggp["ClaimNodeOp"] = vault.ggp["ClaimNodeOp"] + a
      /\ InAllVault(u) <= InAllVault(vault) + x
  BY <1>0, <1>1, <1>2, Constants, DistributeOK
<1>6. history' = [paid |-> {}, orderly |-> history.orderly /\ a > 0]
  BY <1>1 DEF HistoryAfterCycle
<1> HIDE DEF a, q, u
<1>7. /\ now \in Nat /\ InitialSupply \in Nat /\ pool.totalSupply \in Nat
      /\ pool.rewardsCycleCount \in Nat
      /\ InitializedAt \in Nat /\ InitializedAt <= now /\ MaxSupply \in Nat
      /\ InitialSupply <= pool.totalSupply
  <2>1. InitializedAt <= pool.inflationIntervalStartTime /\ pool.inflationIntervalStartTime <= now
        /\ InitialSupply <= pool.totalSupply
    BY <1>0 DEF ScheduleInv
  <2> QED BY <1>0, <2>1, PoolFields, InvFacts, Constants
<1>8. TypeInv'
  <2>1. history' \in History
    BY <1>0, <1>6 DEF TypeInv, History
  <2> QED BY <1>0, <1>1, <1>4, <1>5, <2>1 DEF TypeInv
<1>9. StakersInv' /\ RoundInv'
  BY <1>0, <1>1 DEF StakersInv, RoundInv
<1>10. BankInv'
  <2>1. InAllVault(u) <= pool.totalSupply + x
    <3>1. InAllVault(u) \in Nat
      <4>1. \A d \in NetworkContracts : u.ggp[d] \in Nat
        BY <1>5 DEF Vault!VaultStorage
      <4> QED BY <4>1, ContractsFinite, SumType DEF InAllVault
    <3> QED BY <1>2, <1>5, <1>7, <3>1, InvFacts
  <2> QED BY <1>0, <1>1, <1>4, <1>5, <2>1 DEF BankInv
<1>11. ScheduleInv'
  <2>1. InflationOnSchedule'
    BY <1>1, <1>2, <1>4 DEF InflationOnSchedule
  <2>2. now' = now /\ pool'.inflationIntervalStartTime = now
        /\ pool'.totalSupply = pool.totalSupply + x
    BY <1>1, <1>4
  <2>3. /\ InitializedAt <= pool'.inflationIntervalStartTime
        /\ pool'.inflationIntervalStartTime <= now'
        /\ InitialSupply <= pool'.totalSupply /\ pool'.totalSupply <= MaxSupply
    BY <1>2, <1>7, <2>2
  <2> QED BY <2>1, <2>3 DEF ScheduleInv
<1>12. PaidInv'
  <2> SUFFICES ASSUME NEW o \in Owners
               PROVE  /\ stakers[o].lastRewardsCycleCompleted <= pool.rewardsCycleCount + 1
                      /\ stakers[o].lastRewardsCycleCompleted # pool.rewardsCycleCount + 1
    BY <1>1, <1>4 DEF PaidInv
  <2>1. stakers[o].lastRewardsCycleCompleted \in Nat
    BY InvFacts, StakerFields
  <2>2. stakers[o].lastRewardsCycleCompleted <= pool.rewardsCycleCount
    BY <1>0 DEF PaidInv
  <2> QED BY <1>7, <2>1, <2>2
<1>13. FundsInv'
  <2> SUFFICES ASSUME history.orderly, a > 0
               PROVE  /\ Backing' >= 0 /\ Backing' >= a
                      /\ round.phase = "paying" =>
                           Backing' * round.totalEligibleGGPStaked >= a * LeftStaked
    <3>1. LeftStaked' = LeftStaked
      BY <1>1 DEF LeftStaked
    <3>2. history'.orderly => history.orderly /\ a > 0
      BY <1>6
    <3>3. history'.orderly => pool'.nopRewardsCycleTotal = a
      BY <1>1, <1>4, <3>2
    <3> QED BY <1>1, <3>1, <3>2, <3>3 DEF FundsInv
  <2>1. Backing >= 0 /\ Backing \in Int
    BY <1>0, BackingType DEF FundsInv
  <2>2. Backing' = Backing + a
    <3>1. vault.ggp["ClaimNodeOp"] \in Nat /\ RewardsIn(stakers) \in Nat
      BY <1>0, BackingType
    <3>2. Backing' = (vault.ggp["ClaimNodeOp"] + a) - RewardsIn(stakers)
      BY <1>1, <1>5 DEF Backing
    <3>3. Backing = vault.ggp["ClaimNodeOp"] - RewardsIn(stakers)
      BY DEF Backing
    <3> QED BY <1>3, <3>1, <3>2, <3>3
  <2>3. Backing' >= a /\ Backing' \in Int /\ Backing' >= 0
    BY <1>3, <2>1, <2>2
  <2>4. ASSUME round.phase = "paying"
        PROVE  Backing' * round.totalEligibleGGPStaked >= a * LeftStaked
    <3> DEFINE T == round.totalEligibleGGPStaked
               W == LeftStaked
               b == Backing'
    <3>1. T \in Nat /\ W \in Nat /\ W <= T
      BY <1>0, <2>4, RoundFields, LeftBounded
    <3>2. b \in Int /\ b >= a
      BY <2>3
    <3> HIDE DEF T, W, b
    <3>3. W * a <= T * a /\ a * T <= b * T
      BY <1>3, <3>1, <3>2, ProductMonotone
    <3>4. W * a = a * W /\ T * a = a * T /\ a * W \in Nat /\ a * T \in Nat /\ b * T \in Int
      BY <1>3, <3>1, <3>2
    <3>5. b * T >= a * W
      BY <3>3, <3>4
    <3> QED BY <3>5 DEF T, W, b
  <2> QED BY <2>3, <2>4
<1> QED BY <1>8, <1>9, <1>10, <1>11, <1>12, <1>13 DEF IInv

-----------------------------------------------------------------------------
(* The rounds *)

(* What a round that does not pay changes *)
LEMMA RoundChanges ==
  ASSUME IInv, UNCHANGED <<now, pool, pcts, stakers, vault, enabled, paused, ggpPrice, history>>,
         round' \in Round, RoundInv',
         round'.phase = "paying" /\ history.orderly /\ history.paid = {} =>
           Backing * round'.totalEligibleGGPStaked >= pool.nopRewardsCycleTotal * LeftStaked',
         round'.phase = "paying" => round'.left = round'.eligible
  PROVE  IInv'
<1>0. TypeInv /\ StakersInv /\ BankInv /\ ScheduleInv /\ PaidInv /\ FundsInv
  BY DEF IInv
<1>1. TypeInv'
  BY <1>0 DEF TypeInv
<1>2. StakersInv' /\ PaidInv' /\ BankInv' /\ ScheduleInv'
  BY <1>0 DEF StakersInv, PaidInv, BankInv, ScheduleInv, InflationOnSchedule
<1>3. FundsInv'
  <2>1. Backing' = Backing
    BY DEF Backing
  <2>2. round'.phase = "paying" /\ OneRound' => history.paid = {}
    BY DEF OneRound
  <2> QED BY <1>0, <2>1, <2>2 DEF FundsInv
<1> QED BY <1>1, <1>2, <1>3 DEF IInv

(* A round that ends, or dies, leaves everything else as it is. *)
LEMMA RoundEnds ==
  ASSUME IInv, UNCHANGED <<now, pool, pcts, stakers, vault, enabled, paused, ggpPrice, history>>,
         round' = NoRound
  PROVE  IInv'
<1>1. round' \in Round /\ round'.phase = "idle"
  BY DEF NoRound, Round
<1>2. RoundInv'
  BY <1>1 DEF RoundInv
<1> QED BY <1>1, <1>2, RoundChanges

(* A round begins with stakers, and pays nobody yet. *)
LEMMA RoundBeginKeeps ==
  ASSUME IInv, NEW read \in SUBSET Owners, RoundBegin(read)
  PROVE  IInv'
<1> DEFINE gs == [o \in Owners |-> stakers[o].ggpStaked]
<1>1. gs \in [Owners -> Nat]
  BY InvFacts, StakerFields
<1>2. round' = [NoRound EXCEPT !.phase = "checking", !.eligible = read, !.ggpStaked = gs]
  BY DEF RoundBegin
<1> HIDE DEF gs
<1>3. round' = [phase |-> "checking", eligible |-> read, left |-> {}, ggpStaked |-> gs,
                totalEligibleGGPStaked |-> 0]
  BY <1>2 DEF NoRound
<1>4. round' \in Round /\ round'.phase = "checking" /\ round'.eligible = read
  BY <1>1, <1>3 DEF Round
<1>5. RoundInv'
  BY <1>4 DEF RoundInv, RoundBegin
<1>6. UNCHANGED <<now, pool, pcts, stakers, vault, enabled, paused, ggpPrice, history>>
  BY DEF RoundBegin
<1> QED BY <1>4, <1>5, <1>6, RoundChanges

(* When a round starts to pay, all that it has counted is left to pay. *)
LEMMA RoundCheckKeeps ==
  ASSUME IInv, RoundCheck
  PROVE  IInv'
<1> DEFINE E == {o \in round.eligible : IsEligible(o)}
           gs == [o \in Owners |-> IF o \in E THEN round.ggpStaked[o] ELSE 0]
           tot == TotalEligible(E)
<1>0. TypeInv /\ RoundInv /\ FundsInv
  BY DEF IInv
<1>1. /\ round.eligible \subseteq Owners /\ E \subseteq round.eligible
      /\ round.ggpStaked \in [Owners -> Nat] /\ round \in Round
  BY <1>0, RoundFields DEF TypeInv
<1>2. /\ UNCHANGED <<now, pool, pcts, stakers, vault, enabled, paused, ggpPrice, history>>
      /\ round.phase = "checking"
      /\ round' = IF E = {} THEN NoRound
                  ELSE [round EXCEPT !.phase = "paying", !.eligible = E, !.left = E,
                                     !.ggpStaked = gs, !.totalEligibleGGPStaked = tot]
  BY DEF RoundCheck
<1> HIDE DEF E
<1>3. gs \in [Owners -> Nat] /\ \A o \in E : gs[o] = round.ggpStaked[o]
  BY <1>1
<1>4. tot = SumFunctionOnSet(gs, E) /\ tot \in Nat
  <2> DEFINE f == round.ggpStaked
  <2>0. tot = SumFunctionOnSet(f, E)
    BY DEF TotalEligible
  <2>1. IsFiniteSet(E) /\ \A o \in E : f[o] \in Nat
    BY <1>1, Constants, FS_Subset
  <2>2. \A o \in E : gs[o] = f[o]
    BY <1>3
  <2> HIDE DEF f, gs, tot
  <2>3. SumFunctionOnSet(gs, E) = SumFunctionOnSet(f, E)
    BY <2>1, <2>2, SumAgree
  <2>4. SumFunctionOnSet(f, E) \in Nat
    BY <2>1, SumType
  <2> QED BY <2>0, <2>3, <2>4
<1> HIDE DEF gs, tot
<1>5. CASE E = {}
  BY <1>2, <1>5, RoundEnds
<1>6. CASE E # {}
  <2>1. round' = [phase |-> "paying", eligible |-> E, left |-> E, ggpStaked |-> gs,
                  totalEligibleGGPStaked |-> tot]
    BY <1>1, <1>2, <1>6 DEF Round
  <2>2. round' \in Round
    BY <1>1, <1>3, <1>4, <2>1 DEF Round
  <2>3. RoundInv'
    <3>1. \A o \in E : stakers[o].exists
      BY <1>0, <1>1, <1>2 DEF RoundInv
    <3> QED BY <1>2, <1>4, <2>1, <3>1 DEF RoundInv
  <2>4. LeftStaked' = tot /\ round'.totalEligibleGGPStaked = tot
    BY <1>4, <2>1 DEF LeftStaked
  <2>5. ASSUME history.orderly, history.paid = {}
        PROVE  Backing * tot >= pool.nopRewardsCycleTotal * tot
    <3> DEFINE b == Backing
               c == pool.nopRewardsCycleTotal
    <3>1. b \in Int /\ c \in Nat /\ c <= b
      BY <1>0, <2>5, BackingType, PoolFields DEF FundsInv
    <3> HIDE DEF b, c
    <3>2. c * tot <= b * tot
      BY <1>4, <3>1, ProductMonotone
    <3>3. c * tot \in Int /\ b * tot \in Int
      BY <1>4, <3>1
    <3>4. b * tot >= c * tot
      BY <3>2, <3>3
    <3> QED BY <3>4 DEF b, c
  <2>6. round'.phase = "paying" /\ round'.left = round'.eligible
    BY <2>1
  <2> QED BY <1>2, <2>2, <2>3, <2>4, <2>5, <2>6, RoundChanges
<1> QED BY <1>5, <1>6

(* A share of a total, rounded down twice, is no more than the share. *)
LEMMA ShareOfTotal ==
  ASSUME NEW e \in Nat, NEW T \in Nat \ {0}, NEW c \in Nat
  PROVE  LET x == MulWadDown(DivWadDown(e, T), c)
         IN  x \in Nat /\ x * T <= e * c
<1> DEFINE q == DivWadDown(e, T)
           x == MulWadDown(q, c)
           E == Ether
<1>0. E \in Nat \ {0}
  BY Constants
<1>1. q \in Nat /\ q * T <= e * E
  BY <1>0, MulDivDownBounds DEF DivWadDown
<1> HIDE DEF q
<1>2. x \in Nat /\ x * E <= q * c
  BY <1>0, <1>1, MulDivDownBounds DEF MulWadDown
<1> HIDE DEF x, E
<1>3. (x * E) * T <= (q * c) * T /\ (q * T) * c <= (e * E) * c
  <2>1. x * E \in Int /\ q * c \in Int /\ q * T \in Int /\ e * E \in Int
    BY <1>0, <1>1, <1>2
  <2> QED BY <1>1, <1>2, <2>1, ProductMonotone
<1>4. (x * E) * T = (x * T) * E /\ (q * c) * T = (q * T) * c /\ (e * E) * c = (e * c) * E
  BY <1>0, <1>1, <1>2
<1>5. (x * T) * E \in Int /\ (q * T) * c \in Int /\ (e * c) * E \in Int /\ x * T \in Int /\ e * c \in Int
  BY <1>0, <1>1, <1>2
<1>6. (x * T) * E <= (e * c) * E
  BY <1>3, <1>4, <1>5
<1>7. x * T <= e * c
  BY <1>0, <1>5, <1>6, ProductCancel
<1> QED BY <1>2, <1>7 DEF x, q

(* What the GGP of a staker counts for is a number. *)
LEMMA EffectiveType ==
  ASSUME TypeInv, NEW o \in Owners
  PROVE  EffectiveGGPStaked(o) \in Nat
<1> DEFINE s == stakers[o]
           h == s.avaxValidatingHighWater
           p == ggpPrice
           v == Staking!GGPStakedInAVAX(s, p)
           r == Staking!EffectiveRewardsRatio(s, p)
<1>1. /\ h \in Nat /\ s.ggpStaked \in Nat /\ p \in Nat \ {0} /\ Ether \in Nat \ {0}
      /\ MaxCollateralizationRatio \in Nat
  BY StakerFields, Constants DEF TypeInv
<1>2. v \in Nat
  BY <1>1, MulDivDownBounds DEF Staking!GGPStakedInAVAX, Staking!MulWadDown, Staking!MulDivDown,
                                MulDivDown
<1>3. r \in Nat
  <2> HIDE DEF v
  <2>1. h # 0 => Staking!DivWadDown(v, h) \in Nat
    BY <1>1, <1>2, MulDivDownBounds DEF Staking!DivWadDown, Staking!MulDivDown, MulDivDown
  <2> DEFINE d == Staking!DivWadDown(v, h)
  <2>2. r = IF h = 0 \/ ~Staking!IsCollateralized(s, p, Staking!Tenth) THEN 0
            ELSE IF d > MaxCollateralizationRatio THEN MaxCollateralizationRatio ELSE d
    BY DEF Staking!EffectiveRewardsRatio, v
  <2> HIDE DEF d, r, h
  <2>3. h # 0 => d \in Nat
    BY <2>1 DEF d, h
  <2> QED BY <1>1, <2>2, <2>3
<1> HIDE DEF r
<1>4. Staking!MulWadDown(h, r) \in Nat
  BY <1>1, <1>3, MulDivDownBounds DEF Staking!MulWadDown, Staking!MulDivDown, MulDivDown
<1> DEFINE w == Staking!MulWadDown(h, r)
<1>5. EffectiveGGPStaked(o) = Staking!DivWadDown(w, p)
  BY DEF EffectiveGGPStaked, Staking!EffectiveGGPStaked, r
<1> HIDE DEF w
<1>6. w \in Nat
  BY <1>4 DEF w
<1>7. Staking!DivWadDown(w, p) \in Nat
  BY <1>1, <1>6, MulDivDownBounds DEF Staking!DivWadDown, Staking!MulDivDown, MulDivDown
<1> QED BY <1>5, <1>7

(* A payment takes from what backs the rewards no more than the part of    *)
(* the total that went to the one that is paid.                            *)
LEMMA RoundPayKeeps ==
  ASSUME IInv, NEW o \in Owners, RoundPay(o)
  PROVE  IInv'
<1> DEFINE s == stakers[o]
           T == round.totalEligibleGGPStaked
           x == RewardsAmt(o, T)
           t == StakerAfterRewards(s, x)
           c == pool.nopRewardsCycleTotal
           e == EffectiveGGPStaked(o)
           g == round.ggpStaked[o]
<1>0. TypeInv /\ StakersInv /\ BankInv /\ ScheduleInv /\ RoundInv /\ PaidInv /\ FundsInv
  BY DEF IInv
<1>1. /\ round.phase = "paying" /\ o \in round.left /\ T # 0
      /\ pool.rewardsCycleCount # 0
      /\ stakers' = [stakers EXCEPT ![o] = t]
      /\ round' = IF round.left = {o} THEN NoRound ELSE [round EXCEPT !.left = @ \ {o}]
      /\ history' = [history EXCEPT !.paid = @ \cup {o},
                                    !.orderly = @ /\ OneRound /\ e <= g]
      /\ UNCHANGED <<now, pool, pcts, vault, enabled, paused, ggpPrice>>
  BY DEF RoundPay, CanDistribute
<1>2. /\ T \in Nat \ {0} /\ c \in Nat /\ e \in Nat /\ g \in Nat
      /\ pool.rewardsCycleCount \in Nat
  BY <1>0, <1>1, RoundFields, PoolFields, EffectiveType
<1>3. x \in Nat /\ x * T <= e * c
  <2>1. x = MulWadDown(DivWadDown(e, T), c)
    BY DEF RewardsAmt
  <2> HIDE DEF x, e, T, c
  <2>2. LET y == MulWadDown(DivWadDown(e, T), c) IN y \in Nat /\ y * T <= e * c
    BY <1>2, ShareOfTotal
  <2> QED BY <2>1, <2>2
<1> HIDE DEF x, T, e, g
<1>4. StakerOK(s) /\ s \in Staking!Staker /\ s.ggpRewards \in Nat /\ s.ggpStaked \in Nat
  BY InvFacts, StakerFields
<1>5. /\ StakerOK(t) /\ t.ggpStaked = s.ggpStaked /\ t.ggpRewards = s.ggpRewards + x
      /\ t.exists = s.exists
      /\ t.lastRewardsCycleCompleted = pool.rewardsCycleCount
  BY <1>2, <1>3, <1>4, PaidOK
<1> HIDE DEF t
<1>6. /\ stakers' \in [Owners -> Staking!Staker] /\ stakers'[o] = t
      /\ \A p \in Owners \ {o} : stakers'[p] = stakers[p]
      /\ StakedIn(stakers') = StakedIn(stakers) - s.ggpStaked + t.ggpStaked
      /\ RewardsIn(stakers') = RewardsIn(stakers) - s.ggpRewards + t.ggpRewards
      /\ StakedIn(stakers) \in Nat /\ RewardsIn(stakers) \in Nat
  <2> DEFINE R == [stakers EXCEPT ![o] = t]
  <2>1. stakers' = R
    BY <1>1
  <2>2. t \in Staking!Staker /\ stakers \in [Owners -> Staking!Staker]
    BY <1>0, <1>5 DEF StakerOK, TypeInv
  <2>3. /\ R \in [Owners -> Staking!Staker] /\ R[o] = t
        /\ \A p \in Owners \ {o} : R[p] = stakers[p]
        /\ StakedIn(R) = StakedIn(stakers) - stakers[o].ggpStaked + t.ggpStaked
        /\ RewardsIn(R) = RewardsIn(stakers) - stakers[o].ggpRewards + t.ggpRewards
        /\ StakedIn(stakers) \in Nat /\ RewardsIn(stakers) \in Nat
    BY <2>2, StakersSet
  <2> HIDE DEF R
  <2> QED BY <2>1, <2>3
<1>7. /\ round \in Round /\ NoRound \in Round /\ history \in History
      /\ round.left \subseteq round.eligible
  BY <1>0, <1>1 DEF TypeInv, RoundInv, NoRound, Round
<1>8. /\ history' \in History /\ history'.paid = history.paid \cup {o}
      /\ history'.orderly => history.orderly /\ OneRound /\ e <= g
  <2> DEFINE b == history.orderly /\ OneRound /\ e <= g
             q == history.paid \cup {o}
  <2>1. history' = [paid |-> q, orderly |-> b]
    BY <1>1, <1>7 DEF History
  <2>2. q \in SUBSET Owners /\ b \in BOOLEAN
    BY <1>7 DEF History
  <2> HIDE DEF q, b
  <2>3. history' \in History /\ history'.paid = q /\ history'.orderly = b
    BY <2>1, <2>2 DEF History
  <2> QED BY <2>3 DEF q, b
<1>9. /\ round' \in Round
      /\ round'.phase # "paying" => round' = NoRound
      /\ round'.phase = "paying" =>
           /\ round'.left = round.left \ {o} /\ round'.eligible = round.eligible
           /\ round'.totalEligibleGGPStaked = T /\ round'.ggpStaked = round.ggpStaked
  <2>1. CASE round.left = {o}
    BY <1>1, <1>7, <2>1 DEF NoRound
  <2>2. CASE round.left # {o}
    <3> DEFINE l == round.left \ {o}
    <3>1. l \in SUBSET Owners
      BY <1>0, RoundFields
    <3>2. round' = [round EXCEPT !.left = l]
      BY <1>1, <2>2
    <3> HIDE DEF l
    <3>3. /\ round' \in Round /\ round'.phase = "paying" /\ round'.left = l
          /\ round'.eligible = round.eligible /\ round'.ggpStaked = round.ggpStaked
          /\ round'.totalEligibleGGPStaked = round.totalEligibleGGPStaked
      BY <1>1, <1>7, <3>1, <3>2 DEF Round
    <3> QED BY <3>3 DEF l, T
  <2> QED BY <2>1, <2>2
<1>10. TypeInv'
  BY <1>0, <1>1, <1>6, <1>8, <1>9 DEF TypeInv
<1>11. StakersInv'
  BY <1>0, <1>5, <1>6 DEF StakersInv
<1>12. BankInv'
  <2>1. StakedIn(stakers') = StakedIn(stakers)
    BY <1>4, <1>5, <1>6
  <2> QED BY <1>0, <1>1, <2>1 DEF BankInv
<1>13. ScheduleInv'
  BY <1>0, <1>1 DEF ScheduleInv, InflationOnSchedule
<1>14. RoundInv'
  <2>1. CASE round'.phase = "paying"
    <3>1. \A p \in round.eligible : stakers'[p].exists
      <4>1. \A p \in round.eligible : stakers[p].exists /\ p \in Owners
        BY <1>0, <1>1, RoundFields DEF RoundInv
      <4> QED BY <1>5, <1>6, <4>1
    <3>2. round.totalEligibleGGPStaked = SumFunctionOnSet(round.ggpStaked, round.eligible)
      BY <1>0, <1>1 DEF RoundInv
    <3> QED BY <1>7, <1>9, <2>1, <3>1, <3>2 DEF RoundInv, T
  <2>2. CASE round'.phase # "paying"
    BY <1>9, <2>2 DEF RoundInv, NoRound
  <2> QED BY <2>1, <2>2
<1>15. PaidInv'
  <2> SUFFICES ASSUME NEW p \in Owners
               PROVE  /\ stakers'[p].lastRewardsCycleCompleted <= pool.rewardsCycleCount
                      /\ stakers'[p].lastRewardsCycleCompleted = pool.rewardsCycleCount
                         /\ pool.rewardsCycleCount # 0 => p \in history'.paid
    BY <1>1 DEF PaidInv
  <2>1. CASE p = o
    BY <1>2, <1>5, <1>6, <1>8, <2>1
  <2>2. CASE p # o
    BY <1>0, <1>6, <1>8, <2>2 DEF PaidInv
  <2> QED BY <2>1, <2>2
<1>16. ASSUME history'.orderly
       PROVE  /\ Backing' >= 0
              /\ round'.phase = "paying" => Backing' * T >= c * LeftStaked'
  <2> DEFINE b == Backing
             W == LeftStaked
             V == SumFunctionOnSet(round.ggpStaked, round.left \ {o})
  <2>1. b \in Int /\ W \in Nat /\ Backing' = b - x
    <3>1. Backing' = vault.ggp["ClaimNodeOp"] - RewardsIn(stakers')
      BY <1>1 DEF Backing
    <3>2. RewardsIn(stakers') = RewardsIn(stakers) + x
      BY <1>3, <1>4, <1>5, <1>6
    <3>3. Backing = vault.ggp["ClaimNodeOp"] - RewardsIn(stakers)
      BY DEF Backing
    <3>4. vault.ggp["ClaimNodeOp"] \in Nat /\ RewardsIn(stakers) \in Nat /\ Backing \in Int
          /\ LeftStaked \in Nat
      BY <1>0, BackingType
    <3> QED BY <1>3, <3>1, <3>2, <3>3, <3>4
  <2>2. b * T >= c * W
    BY <1>0, <1>1, <1>8, <1>16 DEF FundsInv, T
  <2>3. W = g + V /\ V \in Nat
    <3> DEFINE f == round.ggpStaked
               L == round.left
    <3>1. f \in [Owners -> Nat] /\ L \subseteq Owners /\ o \in L
      BY <1>0, <1>1, RoundFields
    <3>2. W = SumFunctionOnSet(f, L) /\ V = SumFunctionOnSet(f, L \ {o}) /\ g = f[o]
      BY DEF LeftStaked, g
    <3> HIDE DEF f, L, V, W
    <3>3. /\ IsFiniteSet(L) /\ IsFiniteSet(L \ {o})
          /\ \A p \in L : f[p] \in Int
      BY <3>1, Constants, FS_Subset
    <3>4. SumFunctionOnSet(f, L) = f[o] + SumFunctionOnSet(f, L \ {o})
      BY <3>1, <3>3, SumRemove
    <3>5. \A p \in L \ {o} : f[p] \in Nat
      BY <3>1
    <3>6. SumFunctionOnSet(f, L \ {o}) \in Nat
      BY <3>3, <3>5, SumType
    <3> QED BY <3>2, <3>4, <3>6
  <2>4. e <= g
    BY <1>8, <1>16
  <2>5. round'.phase = "paying" => LeftStaked' = V
    BY <1>9 DEF LeftStaked
  <2>0. c \in Nat
    BY <1>2
  <2> HIDE DEF b, W, V, c
  <2>6. (b - x) * T >= c * V
    <3>1. e * c <= g * c
      BY <1>2, <2>0, <2>4, ProductMonotone
    <3>2. x * T <= g * c
      <4>1. x * T \in Int /\ e * c \in Int /\ g * c \in Int
        BY <1>2, <1>3, <2>0
      <4>2. x * T <= e * c
        BY <1>3 DEF c
      <4> QED BY <3>1, <4>1, <4>2
    <3>3. (b - x) * T = b * T - x * T /\ c * W = g * c + c * V
      BY <1>2, <1>3, <2>0, <2>1, <2>3
    <3>4. b * T \in Int /\ x * T \in Int /\ c * W \in Int /\ g * c \in Int /\ c * V \in Int
      BY <1>2, <1>3, <2>0, <2>1, <2>3
    <3> QED BY <2>2, <3>2, <3>3, <3>4
  <2>7. b - x >= 0
    <3>1. c * V \in Nat /\ b - x \in Int
      BY <1>3, <2>0, <2>1, <2>3
    <3>2. (b - x) * T \in Int
      BY <1>2, <3>1
    <3>3. 0 * T <= (b - x) * T
      BY <1>2, <2>6, <3>1, <3>2
    <3> QED BY <1>2, <3>1, <3>3, ProductCancel
  <2> QED BY <2>1, <2>5, <2>6, <2>7 DEF c
<1>17. FundsInv'
  <2>1. history'.paid # {}
    BY <1>8
  <2> QED BY <1>1, <1>9, <1>16, <2>1 DEF FundsInv
<1> QED BY <1>10, <1>11, <1>12, <1>13, <1>14, <1>15, <1>17 DEF IInv

-----------------------------------------------------------------------------
(* Every step keeps the invariant. *)
LEMMA NextOK == IInv /\ [RewardsNext]_vars => IInv'
<1> SUFFICES ASSUME IInv, [RewardsNext]_vars PROVE IInv'
  OBVIOUS
<1>1. CASE StartRewardsCycleTx
  BY <1>1, CycleKeeps
<1>2. CASE RoundNext
  <2>1. CASE RoundCheck
    BY <2>1, RoundCheckKeeps
  <2>2. CASE RoundDies
    <3>1. round' = NoRound
          /\ UNCHANGED <<now, pool, pcts, stakers, vault, enabled, paused, ggpPrice, history>>
      BY <2>2 DEF RoundDies
    <3> QED BY <3>1, RoundEnds
  <2>3. ASSUME NEW read \in SUBSET Owners \ {{}}, RoundBegin(read) PROVE IInv'
    BY <2>3, RoundBeginKeeps
  <2>4. ASSUME NEW o \in Owners, RoundPay(o) PROVE IInv'
    BY <2>4, RoundPayKeeps
  <2> QED BY <1>2, <2>1, <2>2, <2>3, <2>4 DEF RoundNext
<1>3. CASE StakerNext
  <2>1. ASSUME NEW o \in Owners, NEW a \in GGPAmounts, StakeGGPTx(o, a) PROVE IInv'
    BY <2>1, StakeKeeps
  <2>2. ASSUME NEW o \in Owners, NEW a \in GGPAmounts \cup {stakers[o].ggpStaked},
               WithdrawGGPTx(o, a)
        PROVE  IInv'
    <3>1. a \in Nat
      BY InvFacts, StakerFields, Constants
    <3> QED BY <2>2, <3>1, UnstakeKeeps
  <2>3. ASSUME NEW o \in Owners, NEW c \in ClaimAmounts \cup {0, stakers[o].ggpRewards},
               ClaimAndRestakeTx(o, c)
        PROVE  IInv'
    <3>1. c \in Nat
      BY InvFacts, StakerFields, Constants
    <3> QED BY <2>3, <3>1, ClaimKeeps
  <2> QED BY <1>3, <2>1, <2>2, <2>3 DEF StakerNext
<1>4. CASE Tick
  BY <1>4, TickKeeps
<1>5. CASE MinipoolNext
  <2>1. PICK o \in Owners, a \in Assignments :
           \/ CreateMinipool(o, a)
           \/ CancelMinipool(o, a)
           \/ RecordStakingStart(o, a)
           \/ RecordStakingError(o, a)
           \/ RecordStakingEnd(o, a)
           \/ \E g \in Slashes : RecordStakingEndAndSlash(o, a, g)
           \/ \E c \in Compounded : RecordStakingEndThenCycle(o, a, c)
           \/ WithdrawMinipoolFunds(o, a)
    BY <1>5 DEF MinipoolNext
  <2>2. ASSUME NEW c \in Compounded, RecordStakingEndThenCycle(o, a, c) PROVE IInv'
    BY <2>2, NextCycleKeeps
  <2>3. ASSUME NEW g \in Slashes, RecordStakingEndAndSlash(o, a, g) PROVE IInv'
    BY <2>3, SlashKeeps
  <2>4. ASSUME \/ CreateMinipool(o, a) \/ CancelMinipool(o, a) \/ RecordStakingStart(o, a)
               \/ RecordStakingError(o, a) \/ RecordStakingEnd(o, a)
               \/ WithdrawMinipoolFunds(o, a)
        PROVE  IInv'
    BY <2>4, RecordsKeep
  <2> QED BY <2>1, <2>2, <2>3, <2>4
<1>6. CASE GuardianNext
  BY <1>6, GuardianKeeps
<1>7. CASE UNCHANGED vars
  <2>1. /\ UNCHANGED <<pool, stakers, vault, round, history>> /\ UNCHANGED stakers /\ Frame
        /\ vault' = vault
    BY <1>7 DEF vars, Frame
  <2>2. vault \in Vault!VaultStorage /\ InAllVault(vault) <= pool.totalSupply
    BY InvFacts
  <2> QED BY <2>1, <2>2, MoneyElsewhere
<1> QED BY <1>1, <1>2, <1>3, <1>4, <1>5, <1>6, <1>7 DEF RewardsNext

(* Every reachable state satisfies the invariant. *)
THEOREM RewardsInvariant == RewardsSpec => []IInv
<1>1. RewardsInit => IInv
  BY InitOK
<1>2. IInv /\ [RewardsNext]_vars => IInv'
  BY NextOK
<1> QED BY <1>1, <1>2, PTL DEF RewardsSpec

-----------------------------------------------------------------------------
(* The properties *)

(* The storage keeps its shape, and no more GGP lies in the Vault than was *)
(* minted, nor was more minted than TokenGGP allows.                       *)
THEOREM TypeCorrect == RewardsSpec => []RewardsTypeOK
<1>1. IInv => RewardsTypeOK
  <2> SUFFICES ASSUME IInv PROVE RewardsTypeOK
    OBVIOUS
  <2>1. InAllVault(vault) <= pool.totalSupply /\ InAllVault(vault) \in Nat /\ pool.totalSupply \in Nat
    BY InvFacts
  <2>2. Circulating >= 0
    BY <2>1 DEF Circulating, GGPOf, InAllVault
  <2>3. now \in Nat /\ pool.totalSupply <= MaxSupply
    BY DEF IInv, TypeInv, ScheduleInv
  <2> QED BY <2>2, <2>3 DEF IInv, TypeInv, RewardsTypeOK
<1> QED BY <1>1, RewardsInvariant, PTL

(* The GGP the Vault keeps for Staking is the GGP of the stakers. *)
THEOREM StakesAreBanked == RewardsSpec => []StakesBanked
<1>1. IInv => StakesBanked
  BY DEF IInv, BankInv, StakesBanked, StakedIn, GGPStaked
<1> QED BY <1>1, RewardsInvariant, PTL

(* While the rounds were orderly, ClaimNodeOp has the GGP of all the       *)
(* rewards it has credited and that were not claimed.                      *)
THEOREM RewardsAreFunded == RewardsSpec => []RewardsFunded
<1>1. IInv => RewardsFunded
  <2> SUFFICES ASSUME IInv, history.orderly
               PROVE  SumFunctionOnSet(GGPRewards, Owners) <= vault.ggp["ClaimNodeOp"]
    BY DEF RewardsFunded
  <2>1. Backing >= 0
    BY DEF IInv, FundsInv
  <2>2. vault.ggp["ClaimNodeOp"] \in Nat /\ RewardsIn(stakers) \in Nat
    BY BackingType DEF IInv
  <2>3. RewardsIn(stakers) = SumFunctionOnSet(GGPRewards, Owners)
    BY DEF RewardsIn, GGPRewards
  <2>4. vault.ggp["ClaimNodeOp"] - RewardsIn(stakers) >= 0
    BY <2>1 DEF Backing
  <2> QED BY <2>2, <2>3, <2>4
<1> QED BY <1>1, RewardsInvariant, PTL

(* Who has AVAX assigned or has had AVAX validate in this cycle is in the  *)
(* rewards program.                                                        *)
THEOREM StaysInProgram == RewardsSpec => []InProgram
<1>1. IInv => InProgram
  BY DEF IInv, StakersInv, StakerOK, InProgram
<1> QED BY <1>1, RewardsInvariant, PTL

(* Never has more been minted than the intervals that have passed allow,   *)
(* however late and however often a cycle was started.                     *)
THEOREM InflationKeepsSchedule == RewardsSpec => []InflationOnSchedule
<1>1. IInv => InflationOnSchedule
  BY DEF IInv, ScheduleInv
<1> QED BY <1>1, RewardsInvariant, PTL

(* Parts of a whole, each rounded down, fit into it. *)
LEMMA PartsFit ==
  ASSUME NEW p \in Nat, NEW q \in Nat, NEW r \in Nat, p + q + r <= Ether, NEW x \in Nat
  PROVE  MulWadDown(p, x) + MulWadDown(q, x) + MulWadDown(r, x) <= x
<1> DEFINE a == MulWadDown(p, x)
           b == MulWadDown(q, x)
           c == MulWadDown(r, x)
           E == Ether
<1>0. E \in Nat \ {0} /\ p + q + r <= E
  BY Constants
<1>1. a \in Nat /\ a * E <= p * x /\ b \in Nat /\ b * E <= q * x /\ c \in Nat /\ c * E <= r * x
  BY <1>0, MulDivDownBounds DEF MulWadDown
<1> HIDE DEF a, b, c, E
<1>2. (p + q + r) * x <= E * x
  BY <1>0, ProductMonotone
<1>3. /\ (a + b + c) * E = a * E + b * E + c * E
      /\ (p + q + r) * x = p * x + q * x + r * x
      /\ E * x = x * E
  BY <1>0, <1>1
<1>4. /\ a * E \in Int /\ b * E \in Int /\ c * E \in Int /\ p * x \in Int /\ q * x \in Int
      /\ r * x \in Int /\ x * E \in Int
  BY <1>0, <1>1
<1>5. (a + b + c) * E <= x * E
  BY <1>1, <1>2, <1>3, <1>4
<1>6. a + b + c \in Int
  BY <1>1
<1>7. a + b + c <= x
  BY <1>0, <1>5, <1>6, ProductCancel
<1> QED BY <1>7 DEF a, b, c

(* A cycle that is due can start, however late, below the maximum of the   *)
(* supply.                                                                 *)
THEOREM CycleCanStart == RewardsSpec => []CycleStartable
<1>1. IInv => CycleStartable
  <2> SUFFICES ASSUME IInv, CanStartRewardsCycle, GrowsByOne, pool.totalSupply < MaxSupply,
                      pcts["ClaimProtocolDAO"] + pcts["ClaimNodeOp"] + pcts["MultisigManager"] <= Ether
               PROVE  CanMintGGP(NewTokens) /\ AllotmentsFit(NewTokens)
    BY DEF CycleStartable
  <2> DEFINE x == NewTokens
             ts == pool.totalSupply
             k == InflationIntervalsElapsed
             g == Inflated(ts)[k]
  <2>0. TypeInv /\ ScheduleInv /\ k > 0
    BY DEF IInv, CanStartRewardsCycle
  <2>1. x \in Nat /\ ts + x <= MaxSupply
    BY <2>0, MintedOnSchedule
  <2>2. k \in Nat \ {0}
    <3> DEFINE d == now - pool.inflationIntervalStartTime
    <3>1. d \in Nat /\ InflationIntervalSeconds \in Nat \ {0}
      BY <2>0, PoolFields, Constants DEF TypeInv, ScheduleInv
    <3>2. k = d \div InflationIntervalSeconds
      BY DEF InflationIntervalsElapsed
    <3> HIDE DEF d, k
    <3>3. d \div InflationIntervalSeconds \in Nat
      BY <3>1, DivBounds
    <3> QED BY <2>0, <3>2, <3>3
  <2>3. ts \in Nat /\ ts \in InitialSupply..MaxSupply /\ MaxSupply \in Nat /\ InitialSupply \in Nat
    BY <2>0, PoolFields, Constants DEF ScheduleInv
  <2>4. Grow(ts) > ts
    BY <2>3 DEF GrowsByOne, Grow
  <2> HIDE DEF k
  <2>5. g \in Nat /\ g > ts
    <3>1. Inflated(ts)[1] = Grow(ts)
      <4>1. Inflated(ts)[0 + 1] = Grow(Inflated(ts)[0]) /\ Inflated(ts)[0] = ts
        BY InflatedUnfold
      <4> QED BY <4>1
    <3>2. Inflated(ts)[1] <= g
      <4>1. 1 \in Nat /\ 1 <= k /\ k \in Nat
        BY <2>2
      <4> QED BY <2>3, <4>1, InflatedMonotone
    <3>3. g \in Nat /\ Grow(ts) \in Nat
      BY <2>2, <2>3, InflatedType, GrowFacts
    <3> HIDE DEF g, ts
    <3> QED BY <2>3, <2>4, <3>1, <3>2, <3>3
  <2>6. x = IF g > MaxSupply THEN MaxSupply - ts ELSE g - ts
    BY DEF NewTokens, k
  <2>7. x # 0
    <3> HIDE DEF x, g, ts
    <3>1. ts < MaxSupply
      BY DEF ts
    <3> QED BY <2>3, <2>5, <2>6, <3>1
  <2>8. CanMintGGP(x)
    BY <2>1, <2>7 DEF CanMintGGP, Vault!CanDepositToken
  <2>9. AllotmentsFit(x)
    <3> DEFINE p == pcts["ClaimProtocolDAO"]
               q == pcts["ClaimNodeOp"]
               r == pcts["MultisigManager"]
    <3>1. p \in Nat /\ q \in Nat /\ r \in Nat /\ p + q + r <= Ether
      BY <2>0, ClaimerNames, Constants DEF TypeInv
    <3> HIDE DEF x
    <3>2. AllotmentsFit(x) <=> MulWadDown(p, x) + MulWadDown(q, x) + MulWadDown(r, x) <= x
      <4>1. /\ MulWadDown(p, x) \in Nat /\ MulWadDown(q, x) \in Nat /\ MulWadDown(r, x) \in Nat
        BY <2>1, <3>1, Constants, MulDivDownBounds DEF MulWadDown
      <4>2. AllotmentsFit(x) <=> MulWadDown(p, x) + MulWadDown(q, x) + MulWadDown(r, x) <= x
        BY DEF AllotmentsFit, Allotment
      <4> QED BY <4>2
    <3> HIDE DEF p, q, r
    <3> QED BY <2>1, <3>1, <3>2, PartsFit
  <2> QED BY <2>8, <2>9
<1> QED BY <1>1, RewardsInvariant, PTL

(* A round that is the only one to pay in a cycle can pay whoever is left  *)
(* and counts for no more GGP than the round has counted.                  *)
THEOREM RoundsGoThrough == RewardsSpec => []RoundGoesThrough
<1>1. IInv => RoundGoesThrough
  <2> SUFFICES ASSUME IInv, round.phase = "paying", OneRound, Rialto \in enabled,
                      pool.rewardsCycleCount # 0, round.totalEligibleGGPStaked # 0,
                      NEW o \in round.left, EffectiveGGPStaked(o) <= round.ggpStaked[o]
               PROVE  CanDistribute(o, round.totalEligibleGGPStaked)
    BY DEF RoundGoesThrough
  <2> DEFINE T == round.totalEligibleGGPStaked
             c == pool.nopRewardsCycleTotal
             e == EffectiveGGPStaked(o)
             g == round.ggpStaked[o]
             x == RewardsAmt(o, T)
  <2>0. TypeInv /\ RoundInv /\ PaidInv
    BY DEF IInv
  <2>1. o \in Owners /\ o \in round.eligible /\ stakers[o].exists
    BY <2>0, RoundFields DEF RoundInv
  <2>2. stakers[o].lastRewardsCycleCompleted # pool.rewardsCycleCount
    BY <2>0, <2>1 DEF PaidInv, OneRound
  <2>3. T \in Nat \ {0} /\ c \in Nat /\ e \in Nat /\ g \in Nat /\ e <= g
    BY <2>0, <2>1, RoundFields, PoolFields, EffectiveType
  <2>4. g <= T
    <3> DEFINE f == round.ggpStaked
               L == round.left
    <3>1. f \in [Owners -> Nat] /\ L \subseteq Owners /\ o \in L
      BY <2>0, RoundFields
    <3>2. LeftStaked <= T /\ LeftStaked = SumFunctionOnSet(f, L)
      BY <2>0, LeftBounded DEF LeftStaked
    <3> HIDE DEF f, L
    <3>3. IsFiniteSet(L) /\ IsFiniteSet(L \ {o}) /\ \A p \in L : f[p] \in Int /\ f[p] \in Nat
      BY <3>1, Constants, FS_Subset
    <3>4. \A p \in L : f[p] \in Int
      BY <3>3
    <3>5. SumFunctionOnSet(f, L) = f[o] + SumFunctionOnSet(f, L \ {o})
      BY <3>1, <3>3, <3>4, SumRemove
    <3>6. SumFunctionOnSet(f, L \ {o}) \in Nat
      <4>1. \A p \in L \ {o} : f[p] \in Nat
        BY <3>3
      <4> QED BY <3>3, <4>1, SumType
    <3>7. f[o] = g
      BY DEF f
    <3> HIDE DEF g, T
    <3> QED BY <2>3, <3>2, <3>5, <3>6, <3>7
  <2>5. x <= c
    <3>1. x = MulWadDown(DivWadDown(e, T), c)
      BY DEF RewardsAmt
    <3> HIDE DEF x, e, T, c, g
    <3>2. LET y == MulWadDown(DivWadDown(e, T), c) IN y \in Nat /\ y * T <= e * c
      BY <2>3, ShareOfTotal
    <3>3. x \in Nat /\ x * T <= e * c
      BY <3>1, <3>2
    <3>4. e <= T
      BY <2>3, <2>4
    <3>5. e * c <= T * c /\ T * c = c * T
      BY <2>3, <3>4, ProductMonotone
    <3>6. x * T \in Int /\ e * c \in Int /\ T * c \in Int
      BY <2>3, <3>3
    <3>7. x * T <= c * T
      BY <3>3, <3>5, <3>6
    <3> QED BY <2>3, <3>3, <3>7, ProductCancel
  <2> QED BY <2>1, <2>2, <2>5 DEF CanDistribute
<1> QED BY <1>1, RewardsInvariant, PTL
=============================================================================
