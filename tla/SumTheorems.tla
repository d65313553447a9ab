---------------------------- MODULE SumTheorems ----------------------------
(***************************************************************************)
(* What SumFunctionOnSet of the community modules returns, for every       *)
(* finite set of indices: the ledgers of the protocol (share balances,     *)
(* AVAX set aside per request, AVAX per contract in the Vault) are all     *)
(* related to a total by such a sum.  The library states no fact about it, *)
(* so the ones the invariants need are proved here once.                   *)
(***************************************************************************)
EXTENDS Integers, FiniteSets, Functions,
        FiniteSetTheorems, WellFoundedInduction, TLAPS

(* A set that has 0 and the successor of each natural it has, has them all. *)
LEMMA NatSetInduction ==
  ASSUME NEW S, 0 \in S, \A n \in Nat : n \in S => n + 1 \in S
  PROVE  Nat \subseteq S
<1> DEFINE Bad == {n \in Nat : n \notin S}
<1> SUFFICES ASSUME Bad # {} PROVE FALSE
  OBVIOUS
<1>1. PICK m \in Bad : \A y \in Bad : ~ (<<y, m>> \in OpToRel(<, Nat))
  <2>1. IsWellFoundedOn(OpToRel(<, Nat), Nat)
    BY NatLessThanWellFounded
  <2>2. Bad \subseteq Nat
    OBVIOUS
  <2> HIDE DEF Bad
  <2> QED BY <2>1, <2>2, WFMin
<1>2. m # 0 /\ m - 1 \in Nat
  OBVIOUS
<1>3. <<m - 1, m>> \in OpToRel(<, Nat)
  BY <1>2 DEF OpToRel
<1>4. m - 1 \in S
  BY <1>1, <1>2, <1>3
<1> QED BY <1>2, <1>4

(* One unfolding of the recursion by which MapThenFoldSet sums f. *)
SumStep(f, g, s) == IF s = {} THEN 0
                    ELSE LET x == CHOOSE y \in s : TRUE
                         IN  f[x] + g[s \ {x}]

(* The recursive function over the subsets of S that the sum is read from. *)
SumIter(f, S) == CHOOSE g : g = [s \in SUBSET S |-> SumStep(f, g, s)]

(* The library's sum is the value of that function at the whole set. *)
LEMMA SumIsIter ==
  ASSUME NEW f, NEW S
  PROVE  SumFunctionOnSet(f, S) = SumIter(f, S)[S]
BY DEF SumFunctionOnSet, FoldFunctionOnSet, MapThenFoldSet, SumIter, SumStep

(* A function that satisfies the recursion exists on the subsets of a      *)
(* finite set: it is built one cardinality at a time.                      *)
LEMMA SumIterExists ==
  ASSUME NEW f, NEW S, IsFiniteSet(S)
  PROVE  \E g : g = [s \in SUBSET S |-> SumStep(f, g, s)]
<1> DEFINE Small(n) == {s \in SUBSET S : Cardinality(s) <= n}
           Has == {n \in Nat : \E g : g = [s \in Small(n) |-> SumStep(f, g, s)]}
<1>0. \A s \in SUBSET S : IsFiniteSet(s) /\ Cardinality(s) \in Nat
                          /\ Cardinality(s) <= Cardinality(S)
  BY FS_Subset, FS_CardinalityType
<1>1. \A s \in SUBSET S : s # {} =>
         LET x == CHOOSE y \in s : TRUE
         IN  /\ s \ {x} \in SUBSET S
             /\ Cardinality(s \ {x}) = Cardinality(s) - 1
  <2> SUFFICES ASSUME NEW s \in SUBSET S, s # {}
               PROVE  LET x == CHOOSE y \in s : TRUE
                      IN  /\ s \ {x} \in SUBSET S
                          /\ Cardinality(s \ {x}) = Cardinality(s) - 1
    OBVIOUS
  <2>1. (CHOOSE y \in s : TRUE) \in s
    OBVIOUS
  <2> QED BY <2>1, <1>0, FS_RemoveElement
<1>2. 0 \in Has
  <2>1. \A s \in Small(0) : s = {}
    BY <1>0, FS_EmptySet
  <2> DEFINE g == [s \in Small(0) |-> 0]
  <2>2. g = [s \in Small(0) |-> SumStep(f, g, s)]
    BY <2>1 DEF SumStep
  <2> QED BY <2>2
<1>3. \A n \in Nat : n \in Has => n + 1 \in Has
  <2> TAKE n \in Nat
  <2> HAVE n \in Has
  <2> SUFFICES \E h : h = [s \in Small(n + 1) |-> SumStep(f, h, s)]
    <3> HIDE DEF Small
    <3> QED OBVIOUS
  <2>0. PICK g : g = [s \in Small(n) |-> SumStep(f, g, s)]
    <3> HIDE DEF Small
    <3> QED OBVIOUS
  <2> DEFINE h == [s \in Small(n + 1) |-> SumStep(f, g, s)]
  <2>1. \A s \in Small(n + 1) : s # {} =>
           s \ {CHOOSE y \in s : TRUE} \in Small(n)
    BY <1>0, <1>1
  <2>2. Small(n) \subseteq Small(n + 1)
    BY <1>0
  <2>3. \A s \in Small(n) : h[s] = g[s]
    <3> SUFFICES ASSUME NEW s \in Small(n) PROVE h[s] = g[s]
      OBVIOUS
    <3>1. h[s] = SumStep(f, g, s)
      BY <2>2
    <3>2. g[s] = SumStep(f, g, s)
      <4> HIDE DEF Small
      <4> QED BY <2>0
    <3> QED BY <3>1, <3>2
  <2>4. \A s \in Small(n + 1) : SumStep(f, g, s) = SumStep(f, h, s)
    <3> TAKE s \in Small(n + 1)
    <3> DEFINE x == CHOOSE y \in s : TRUE
    <3>1. CASE s = {}
      BY <3>1 DEF SumStep
    <3>2. CASE s # {}
      <4>1. h[s \ {x}] = g[s \ {x}]
        <5>1. s \ {x} \in Small(n)
          BY <2>1, <3>2
        <5> HIDE DEF h, Small, x
        <5> QED BY <5>1, <2>3
      <4>2. /\ SumStep(f, g, s) = f[x] + g[s \ {x}]
            /\ SumStep(f, h, s) = f[x] + h[s \ {x}]
        <5> HIDE DEF h, Small
        <5> QED BY <3>2 DEF SumStep
      <4> QED BY <4>1, <4>2
    <3> QED BY <3>1, <3>2
  <2>5. h = [s \in Small(n + 1) |-> SumStep(f, h, s)]
    <3> HIDE DEF Small
    <3>1. [s \in Small(n + 1) |-> SumStep(f, g, s)]
            = [s \in Small(n + 1) |-> SumStep(f, h, s)]
      <4> HIDE DEF h
      <4> QED BY <2>4
    <3> QED BY <3>1
  <2> QED BY <2>5
<1>4. Cardinality(S) \in Has
  <2> HIDE DEF Has
  <2> QED BY <1>2, <1>3, <1>0, NatSetInduction
<1>5. Small(Cardinality(S)) = SUBSET S
  BY <1>0
<1> QED BY <1>4, <1>5

(* The recursion holds of the chosen function. *)
LEMMA SumIterUnfold ==
  ASSUME NEW f, NEW S, IsFiniteSet(S), NEW s \in SUBSET S
  PROVE  SumIter(f, S)[s] = SumStep(f, SumIter(f, S), s)
<1> DEFINE G == SumIter(f, S)
<1>1. G = [u \in SUBSET S |-> SumStep(f, G, u)]
  BY SumIterExists DEF SumIter
<1> HIDE DEF G
<1>2. G[s] = SumStep(f, G, s)
  BY <1>1
<1> QED BY <1>2 DEF G

(* Two sums of functions that agree on the smaller set agree on its subsets. *)
LEMMA SumIterAgree ==
  ASSUME NEW f, NEW h, NEW S, IsFiniteSet(S), NEW T \in SUBSET S,
         \A x \in T : f[x] = h[x]
  PROVE  \A s \in SUBSET T : SumIter(f, S)[s] = SumIter(h, T)[s]
<1> DEFINE F == SumIter(f, S)
           H == SumIter(h, T)
           Bad == {s \in SUBSET T : F[s] # H[s]}
<1>0. IsFiniteSet(T)
  BY FS_Subset
<1>1. \A s \in SUBSET T : F[s] = SumStep(f, F, s) /\ H[s] = SumStep(h, H, s)
  BY <1>0, SumIterUnfold
<1> HIDE DEF F, H
<1> SUFFICES ASSUME Bad # {} PROVE FALSE
  BY DEF F, H
<1>2. PICK m \in Bad : \A y \in Bad : ~ (<<y, m>> \in StrictSubsetOrdering(T))
  <2>1. Bad \subseteq FiniteSubsetsOf(T)
    BY <1>0, FS_FiniteSubsetsOfFinite
  <2> HIDE DEF Bad
  <2> QED BY <2>1, FS_StrictSubsetOrderingWellFounded, WFMin
<1>3. m # {}
  BY <1>1 DEF SumStep
<1> DEFINE x == CHOOSE y \in m : TRUE
<1>4. x \in m
  BY <1>3
<1> HIDE DEF x
<1>5. <<m \ {x}, m>> \in StrictSubsetOrdering(T)
  BY <1>4 DEF StrictSubsetOrdering
<1>6. F[m \ {x}] = H[m \ {x}]
  BY <1>2, <1>5
<1>7. F[m] = f[x] + F[m \ {x}] /\ H[m] = h[x] + H[m \ {x}]
  BY <1>1, <1>3 DEF SumStep, x
<1> QED BY <1>2, <1>4, <1>6, <1>7

(* The sum over no index is zero. *)
THEOREM SumEmpty ==
  ASSUME NEW f
  PROVE  SumFunctionOnSet(f, {}) = 0
<1>1. SumIter(f, {})[{}] = SumStep(f, SumIter(f, {}), {})
  BY FS_EmptySet, SumIterUnfold
<1> QED BY <1>1, SumIsIter DEF SumStep

(* Functions that agree on the indices have the same sum. *)
THEOREM SumAgree ==
  ASSUME NEW f, NEW h, NEW S, IsFiniteSet(S), \A x \in S : f[x] = h[x]
  PROVE  SumFunctionOnSet(f, S) = SumFunctionOnSet(h, S)
<1>1. \A s \in SUBSET S : SumIter(f, S)[s] = SumIter(h, S)[s]
  BY SumIterAgree
<1> QED BY <1>1, SumIsIter

(* The sum of a nonempty set, by the element the library takes first. *)
LEMMA SumChosen ==
  ASSUME NEW f, NEW S, IsFiniteSet(S), S # {}
  PROVE  LET x == CHOOSE y \in S : TRUE
         IN  SumFunctionOnSet(f, S) = f[x] + SumFunctionOnSet(f, S \ {x})
<1> DEFINE x == CHOOSE y \in S : TRUE
<1>1. SumIter(f, S)[S] = f[x] + SumIter(f, S)[S \ {x}]
  <2>1. SumIter(f, S)[S] = SumStep(f, SumIter(f, S), S)
    BY SumIterUnfold
  <2> QED BY <2>1 DEF SumStep
<1>2. SumIter(f, S)[S \ {x}] = SumIter(f, S \ {x})[S \ {x}]
  <2> HIDE DEF x
  <2>1. S \ {x} \in SUBSET S
    OBVIOUS
  <2>2. \A s \in SUBSET (S \ {x}) : SumIter(f, S)[s] = SumIter(f, S \ {x})[s]
    BY <2>1, SumIterAgree
  <2> QED BY <2>2
<1> QED BY <1>1, <1>2, SumIsIter

(* Integers have an integer sum, naturals a natural one. *)
THEOREM SumType ==
  ASSUME NEW f, NEW S, IsFiniteSet(S)
  PROVE  /\ (\A x \in S : f[x] \in Int) => SumFunctionOnSet(f, S) \in Int
         /\ (\A x \in S : f[x] \in Nat) => SumFunctionOnSet(f, S) \in Nat
<1> DEFINE Sum(T) == SumFunctionOnSet(f, T)
           Bad == {T \in SUBSET S :
                     \/ (\A x \in S : f[x] \in Int) /\ Sum(T) \notin Int
                     \/ (\A x \in S : f[x] \in Nat) /\ Sum(T) \notin Nat}
<1> SUFFICES ASSUME Bad # {} PROVE FALSE
  OBVIOUS
<1>1. PICK m \in Bad : \A y \in Bad : ~ (<<y, m>> \in StrictSubsetOrdering(S))
  <2>1. Bad \subseteq FiniteSubsetsOf(S)
    BY FS_FiniteSubsetsOfFinite
  <2> HIDE DEF Bad
  <2> QED BY <2>1, FS_StrictSubsetOrderingWellFounded, WFMin
<1>2. m \in SUBSET S /\ IsFiniteSet(m)
  BY FS_Subset
<1>3. m # {}
  BY SumEmpty
<1> DEFINE x == CHOOSE y \in m : TRUE
<1>4. x \in m
  BY <1>3
<1>5. Sum(m) = f[x] + Sum(m \ {x})
  BY <1>2, <1>3, SumChosen
<1>6. m \ {x} \notin Bad
  <2> HIDE DEF x, Bad
  <2> QED BY <1>1, <1>2, <1>4 DEF StrictSubsetOrdering
<1> HIDE DEF x
<1>7. /\ (\A z \in S : f[z] \in Int) => Sum(m \ {x}) \in Int /\ f[x] \in Int
      /\ (\A z \in S : f[z] \in Nat) => Sum(m \ {x}) \in Nat /\ f[x] \in Nat
  BY <1>2, <1>4, <1>6
<1> HIDE DEF Sum
<1> QED BY <1>5, <1>7

(* The order in which the elements are taken does not matter. *)
THEOREM SumRemove ==
  ASSUME NEW f, NEW S, IsFiniteSet(S), \A x \in S : f[x] \in Int, NEW a \in S
  PROVE  SumFunctionOnSet(f, S) = f[a] + SumFunctionOnSet(f, S \ {a})
<1> DEFINE Sum(T) == SumFunctionOnSet(f, T)
           Bad == {T \in SUBSET S : \E b \in T : Sum(T) # f[b] + Sum(T \ {b})}
<1> SUFFICES ASSUME Bad # {} PROVE FALSE
  OBVIOUS
<1>1. PICK m \in Bad : \A y \in Bad : ~ (<<y, m>> \in StrictSubsetOrdering(S))
  <2>1. Bad \subseteq FiniteSubsetsOf(S)
    BY FS_FiniteSubsetsOfFinite
  <2> HIDE DEF Bad
  <2> QED BY <2>1, FS_StrictSubsetOrderingWellFounded, WFMin
<1>2. PICK b \in m : Sum(m) # f[b] + Sum(m \ {b})
  OBVIOUS
<1>3. m \in SUBSET S /\ IsFiniteSet(m)
  BY FS_Subset
<1> DEFINE c == CHOOSE y \in m : TRUE
<1>4. c \in m
  OBVIOUS
<1>5. Sum(m) = f[c] + Sum(m \ {c})
  BY <1>3, SumChosen
<1> HIDE DEF c
<1>6. c # b
  BY <1>2, <1>5
<1>7. m \ {b} \notin Bad /\ m \ {c} \notin Bad
  <2> HIDE DEF Bad
  <2> QED BY <1>1, <1>2, <1>3, <1>4 DEF StrictSubsetOrdering
<1> DEFINE d == (m \ {b}) \ {c}
<1>8. Sum(m \ {b}) = f[c] + Sum(d)
  BY <1>3, <1>4, <1>6, <1>7
<1>9. Sum(m \ {c}) = f[b] + Sum(d)
  <2>1. (m \ {c}) \ {b} = d
    OBVIOUS
  <2>2. Sum(m \ {c}) = f[b] + Sum((m \ {c}) \ {b})
    BY <1>2, <1>3, <1>6, <1>7
  <2> QED BY <2>1, <2>2
<1>10. f[b] \in Int /\ f[c] \in Int /\ Sum(d) \in Int
  <2>1. IsFiniteSet(d) /\ \A x \in d : f[x] \in Int
    BY <1>3, FS_Subset
  <2> HIDE DEF d
  <2> QED BY <2>1, <1>2, <1>3, <1>4, SumType
<1> HIDE DEF Sum, d
<1> QED BY <1>2, <1>5, <1>8, <1>9, <1>10

(* Functions that differ at one index have sums that differ by as much. *)
THEOREM SumUpdate ==
  ASSUME NEW S, IsFiniteSet(S), NEW f, NEW h, NEW a \in S,
         \A x \in S : f[x] \in Int /\ h[x] \in Int,
         \A x \in S \ {a} : h[x] = f[x]
  PROVE  SumFunctionOnSet(h, S) = SumFunctionOnSet(f, S) - f[a] + h[a]
<1> DEFINE R == S \ {a}
<1>1. IsFiniteSet(R) /\ \A x \in R : f[x] \in Int /\ h[x] = f[x]
  BY FS_Subset
<1>2. SumFunctionOnSet(h, R) = SumFunctionOnSet(f, R)
  <2> HIDE DEF R
  <2> QED BY <1>1, SumAgree
<1>3. SumFunctionOnSet(f, R) \in Int
  <2> HIDE DEF R
  <2> QED BY <1>1, SumType
<1>4. SumFunctionOnSet(f, S) = f[a] + SumFunctionOnSet(f, R)
  BY SumRemove
<1>5. SumFunctionOnSet(h, S) = h[a] + SumFunctionOnSet(h, R)
  BY SumRemove
<1>6. f[a] \in Int /\ h[a] \in Int
  OBVIOUS
<1> HIDE DEF R
<1> QED BY <1>2, <1>3, <1>4, <1>5, <1>6

(* No part of a sum of naturals exceeds it. *)
THEOREM SumBoundsPart ==
  ASSUME NEW S, IsFiniteSet(S), NEW f \in [S -> Nat], NEW a \in S
  PROVE  f[a] <= SumFunctionOnSet(f, S)
<1>1. SumFunctionOnSet(f, S) = f[a] + SumFunctionOnSet(f, S \ {a})
  BY SumRemove
<1>2. SumFunctionOnSet(f, S \ {a}) \in Nat
  <2>1. IsFiniteSet(S \ {a}) /\ \A x \in S \ {a} : f[x] \in Nat
    BY FS_Subset
  <2> QED BY <2>1, SumType
<1> QED BY <1>1, <1>2

(* An inequality between multiples holds of the sums if it holds of the    *)
(* terms.                                                                  *)
THEOREM SumProportion ==
  ASSUME NEW S, IsFiniteSet(S), NEW f, NEW h, NEW c \in Nat, NEW d \in Nat,
         \A x \in S : f[x] \in Nat /\ h[x] \in Nat /\ h[x] * c <= f[x] * d
  PROVE  SumFunctionOnSet(h, S) * c <= SumFunctionOnSet(f, S) * d
<1> DEFINE F(T) == SumFunctionOnSet(f, T)
           H(T) == SumFunctionOnSet(h, T)
           Bad == {T \in SUBSET S : ~ (H(T) * c <= F(T) * d)}
<1> SUFFICES ASSUME Bad # {} PROVE FALSE
  OBVIOUS
<1>1. PICK m \in Bad : \A y \in Bad : ~ (<<y, m>> \in StrictSubsetOrdering(S))
  <2>1. Bad \subseteq FiniteSubsetsOf(S)
    BY FS_FiniteSubsetsOfFinite
  <2> HIDE DEF Bad
  <2> QED BY <2>1, FS_StrictSubsetOrderingWellFounded, WFMin
<1>2. m \in SUBSET S /\ IsFiniteSet(m)
  BY FS_Subset
<1>3. m # {}
  <2> SUFFICES ASSUME m = {} PROVE FALSE
    OBVIOUS
  <2>1. H(m) = 0 /\ F(m) = 0
    BY SumEmpty
  <2> HIDE DEF H, F
  <2> QED BY <2>1 DEF Bad
<1>4. PICK x : x \in m
  BY <1>3
<1> DEFINE n == m \ {x}
<1>5. n \in SUBSET S /\ IsFiniteSet(n)
  BY <1>2, FS_Subset
<1>6. n \notin Bad
  <2>1. <<n, m>> \in StrictSubsetOrdering(S)
    BY <1>2, <1>4 DEF StrictSubsetOrdering
  <2> HIDE DEF Bad, n
  <2> QED BY <1>1, <2>1
<1>7. H(n) * c <= F(n) * d
  BY <1>5, <1>6
<1>8. \A y \in m : f[y] \in Int /\ h[y] \in Int
  BY <1>2
<1>9. H(m) = h[x] + H(n) /\ F(m) = f[x] + F(n)
  BY <1>2, <1>4, <1>8, SumRemove
<1>10. H(n) \in Nat /\ F(n) \in Nat
  <2>1. \A y \in n : f[y] \in Nat /\ h[y] \in Nat
    BY <1>5
  <2> HIDE DEF n
  <2> QED BY <1>5, <2>1, SumType
<1>11. h[x] \in Nat /\ f[x] \in Nat /\ h[x] * c <= f[x] * d
  BY <1>2, <1>4
<1> HIDE DEF H, F, n
<1>12. H(m) * c = h[x] * c + H(n) * c /\ F(m) * d = f[x] * d + F(n) * d
  BY <1>9, <1>10, <1>11
<1>13. /\ h[x] * c \in Nat /\ H(n) * c \in Nat
       /\ f[x] * d \in Nat /\ F(n) * d \in Nat
  BY <1>10, <1>11
<1>14. H(m) * c <= F(m) * d
  BY <1>7, <1>11, <1>12, <1>13
<1> QED BY <1>1, <1>14 DEF Bad

(* Zeros add up to zero. *)
THEOREM SumZero ==
  ASSUME NEW S, IsFiniteSet(S), NEW f, \A x \in S : f[x] = 0
  PROVE  SumFunctionOnSet(f, S) = 0
<1> DEFINE F == SumFunctionOnSet(f, S)
<1>1. \A x \in S : f[x] \in Nat
  OBVIOUS
<1>2. F \in Nat
  BY <1>1, SumType
<1>3. F * 1 <= F * 0
  BY <1>1, SumProportion
<1> HIDE DEF F
<1>4. F = 0
  BY <1>2, <1>3
<1> QED BY <1>4 DEF F

(* The sum over a part is no more than the sum over the whole. *)
THEOREM SumSubset ==
  ASSUME NEW S, IsFiniteSet(S), NEW f, \A x \in S : f[x] \in Nat, NEW L \in SUBSET S
  PROVE  SumFunctionOnSet(f, L) <= SumFunctionOnSet(f, S)
<1> DEFINE Sum(T) == SumFunctionOnSet(f, T)
           Bad == {T \in SUBSET S : L \subseteq T /\ ~ (Sum(L) <= Sum(T))}
<1>0. \A T \in SUBSET S : IsFiniteSet(T) /\ Sum(T) \in Nat
  <2> SUFFICES ASSUME NEW T \in SUBSET S PROVE IsFiniteSet(T) /\ Sum(T) \in Nat
    OBVIOUS
  <2>1. IsFiniteSet(T)
    BY FS_Subset
  <2>2. \A x \in T : f[x] \in Nat
    OBVIOUS
  <2> QED BY <2>1, <2>2, SumType
<1> SUFFICES ASSUME Bad # {} PROVE FALSE
  OBVIOUS
<1>1. PICK m \in Bad : \A y \in Bad : ~ (<<y, m>> \in StrictSubsetOrdering(S))
  <2>1. Bad \subseteq FiniteSubsetsOf(S)
    BY FS_FiniteSubsetsOfFinite
  <2> HIDE DEF Bad
  <2> QED BY <2>1, FS_StrictSubsetOrderingWellFounded, WFMin
<1>2. m \in SUBSET S /\ L \subseteq m /\ ~ (Sum(L) <= Sum(m))
  OBVIOUS
<1>3. Sum(L) \in Nat /\ Sum(m) \in Nat
  BY <1>0, <1>2
<1>4. PICK b \in m : b \notin L
  <2>1. m # L
    <3> HIDE DEF Sum
    <3> QED BY <1>2, <1>3
  <2> QED BY <1>2, <2>1
<1>5. Sum(m) = f[b] + Sum(m \ {b})
  <2>1. IsFiniteSet(m) /\ \A x \in m : f[x] \in Int
    BY <1>0, <1>2
  <2> QED BY <2>1, SumRemove
<1>6. m \ {b} \notin Bad
  <2> HIDE DEF Bad
  <2> QED BY <1>1, <1>2, <1>4 DEF StrictSubsetOrdering
<1>7. Sum(L) <= Sum(m \ {b})
  BY <1>2, <1>4, <1>6
<1>8. Sum(m \ {b}) \in Nat /\ f[b] \in Nat
  BY <1>0, <1>2
<1> HIDE DEF Sum, Bad
<1> QED BY <1>2, <1>3, <1>5, <1>7, <1>8

(* What is zero outside a part adds nothing. *)
THEOREM SumOfPart ==
  ASSUME NEW S, IsFiniteSet(S), NEW L \in SUBSET S, NEW f, \A x \in S : f[x] \in Int,
         \A x \in S \ L : f[x] = 0
  PROVE  SumFunctionOnSet(f, L) = SumFunctionOnSet(f, S)
<1> DEFINE Sum(T) == SumFunctionOnSet(f, T)
           Bad == {T \in SUBSET S : L \subseteq T /\ Sum(L) # Sum(T)}
<1>0. \A T \in SUBSET S : IsFiniteSet(T) /\ Sum(T) \in Int
  <2> SUFFICES ASSUME NEW T \in SUBSET S PROVE IsFiniteSet(T) /\ Sum(T) \in Int
    OBVIOUS
  <2>1. IsFiniteSet(T)
    BY FS_Subset
  <2>2. \A x \in T : f[x] \in Int
    OBVIOUS
  <2> QED BY <2>1, <2>2, SumType
<1> SUFFICES ASSUME Bad # {} PROVE FALSE
  OBVIOUS
<1>1. PICK m \in Bad : \A y \in Bad : ~ (<<y, m>> \in StrictSubsetOrdering(S))
  <2>1. Bad \subseteq FiniteSubsetsOf(S)
    BY FS_FiniteSubsetsOfFinite
  <2> HIDE DEF Bad
  <2> QED BY <2>1, FS_StrictSubsetOrderingWellFounded, WFMin
<1>2. m \in SUBSET S /\ L \subseteq m /\ Sum(L) # Sum(m)
  OBVIOUS
<1>3. PICK b \in m : b \notin L
  <2>1. m # L
    <3> HIDE DEF Sum
    <3> QED BY <1>2
  <2> QED BY <1>2, <2>1
<1>4. Sum(m) = f[b] + Sum(m \ {b})
  <2>1. IsFiniteSet(m) /\ \A x \in m : f[x] \in Int
    BY <1>0, <1>2
  <2> QED BY <2>1, SumRemove
<1>5. m \ {b} \notin Bad
  <2>1. m \ {b} \in SUBSET S /\ m \in SUBSET S /\ m \ {b} # m
    BY <1>2, <1>3
  <2>2. <<m \ {b}, m>> \in StrictSubsetOrdering(S)
    BY <2>1 DEF StrictSubsetOrdering
  <2> HIDE DEF Bad
  <2> QED BY <1>1, <2>2
<1>6. Sum(L) = Sum(m \ {b})
  BY <1>2, <1>3, <1>5
<1>7. Sum(m \ {b}) \in Int /\ f[b] = 0
  BY <1>0, <1>2, <1>3
<1> HIDE DEF Sum, Bad
<1> QED BY <1>2, <1>4, <1>6, <1>7

(* The sum over two parts that share nothing is the sum of their sums. *)
THEOREM SumDisjoint ==
  ASSUME NEW S, IsFiniteSet(S), NEW f, \A x \in S : f[x] \in Int,
         NEW L \in SUBSET S, NEW R \in SUBSET S, L \cap R = {}
  PROVE  SumFunctionOnSet(f, L \cup R) = SumFunctionOnSet(f, L) + SumFunctionOnSet(f, R)
<1> DEFINE Sum(T) == SumFunctionOnSet(f, T)
           Bad == {T \in SUBSET R : Sum(L \cup T) # Sum(L) + Sum(T)}
<1>0. \A T \in SUBSET S : IsFiniteSet(T) /\ Sum(T) \in Int
  <2> SUFFICES ASSUME NEW T \in SUBSET S PROVE IsFiniteSet(T) /\ Sum(T) \in Int
    OBVIOUS
  <2>1. IsFiniteSet(T)
    BY FS_Subset
  <2>2. \A x \in T : f[x] \in Int
    OBVIOUS
  <2> QED BY <2>1, <2>2, SumType
<1> SUFFICES ASSUME Bad # {} PROVE FALSE
  OBVIOUS
<1>1. PICK m \in Bad : \A y \in Bad : ~ (<<y, m>> \in StrictSubsetOrdering(R))
  <2>1. Bad \subseteq FiniteSubsetsOf(R)
    BY <1>0, FS_FiniteSubsetsOfFinite
  <2> HIDE DEF Bad
  <2> QED BY <2>1, FS_StrictSubsetOrderingWellFounded, WFMin
<1>2. m \in SUBSET R /\ Sum(L \cup m) # Sum(L) + Sum(m)
  OBVIOUS
<1>3. Sum(L) \in Int
  BY <1>0
<1>4. PICK b : b \in m
  <2> SUFFICES ASSUME m = {} PROVE FALSE
    OBVIOUS
  <2>1. Sum(m) = 0 /\ L \cup m = L
    BY SumEmpty
  <2> HIDE DEF Sum
  <2> QED BY <1>2, <1>3, <2>1
<1>5. Sum(m) = f[b] + Sum(m \ {b})
  <2>1. m \in SUBSET S
    BY <1>2
  <2>2. IsFiniteSet(m) /\ \A x \in m : f[x] \in Int
    BY <1>0, <2>1
  <2> QED BY <1>4, <2>2, SumRemove
<1> DEFINE n == L \cup m
<1>6. Sum(n) = f[b] + Sum(n \ {b})
  <2>1. n \in SUBSET S /\ b \in n
    BY <1>2, <1>4
  <2> HIDE DEF n
  <2>2. IsFiniteSet(n) /\ \A x \in n : f[x] \in Int
    BY <1>0, <2>1
  <2> QED BY <2>1, <2>2, SumRemove
<1>7. m \ {b} \notin Bad
  <2>1. m \ {b} \in SUBSET R /\ m \in SUBSET R /\ m \ {b} # m
    BY <1>2, <1>4
  <2>2. <<m \ {b}, m>> \in StrictSubsetOrdering(R)
    BY <2>1 DEF StrictSubsetOrdering
  <2> HIDE DEF Bad
  <2> QED BY <1>1, <2>2
<1>8. n \ {b} = L \cup (m \ {b})
  BY <1>2, <1>4
<1>9. Sum(n \ {b}) = Sum(L) + Sum(m \ {b})
  <2>1. m \ {b} \in SUBSET R
    BY <1>2
  <2>2. Sum(L \cup (m \ {b})) = Sum(L) + Sum(m \ {b})
    BY <1>7, <2>1
  <2> HIDE DEF Sum
  <2> QED BY <1>8, <2>2
<1>10. Sum(m \ {b}) \in Int /\ f[b] \in Int /\ Sum(n) # Sum(L) + Sum(m)
  BY <1>0, <1>2, <1>4
<1> HIDE DEF Sum, Bad, n
<1> QED BY <1>3, <1>5, <1>6, <1>9, <1>10
=============================================================================
