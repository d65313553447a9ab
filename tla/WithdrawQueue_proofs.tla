------------------------ MODULE WithdrawQueue_proofs ------------------------
(***************************************************************************)
(* That WithdrawQueue keeps what it promises, for any holders, requests,   *)
(* delays, limits and amounts.                                             *)
(*                                                                         *)
(* The inductive invariant QueueInv is of three parts.  WorldOK, of the    *)
(* two contracts: the vault is as TokenggAVAX_proofs has it and a share is *)
(* worth an asset at least; the requests are indexed, lined up, entitled   *)
(* and funded; the queue holds the shares of who waits and they are worth  *)
(* the promise.  LedgerOK, of the history.  LoopOK, of the copy a loop     *)
(* works on: it is in order too, and what it changed so far is an effect   *)
(* the requests may see.  Each handler keeps it and has one of four        *)
(* effects (Asks, Pays, Reserves, GivesBack), which are the actions of     *)
(* UnstakePromise.                                                         *)
(*                                                                         *)
(* What a deposit may leave waiting needs one more part, QueueServes: the  *)
(* deque of the copy is the one the loop began with, less one entry for    *)
(* each iteration, and the loop's own count of what is available is what   *)
(* the vault of the copy has.                                              *)
(***************************************************************************)
EXTENDS WithdrawQueue, TokenggAVAX_proofs, SequenceTheorems

(* The part of the assumptions on the constants that the proofs rest on. *)
LEMMA QueueFacts ==
  /\ Queue \in Accounts /\ Queue # Self /\ QueueRole = {Queue}
  /\ Requesters \subseteq Accounts /\ Receivers \subseteq Accounts
  /\ MinExpirationDelay \in Nat /\ UnstakeDelays \subseteq Nat /\ ExpirationDelays \subseteq Nat
  /\ RequestLimits \subseteq Nat /\ OnBehalfAmounts \subseteq Nat /\ BatchSizes \subseteq Nat
  /\ StuckAVAX \subseteq Nat /\ MaxRequests \in Nat
  /\ Amounts \subseteq Nat \ {0} /\ FeeBips \subseteq 0..Bips /\ Pauses \subseteq BOOLEAN
  /\ Callers \subseteq Accounts \ {Self, Queue, NoAddress}
  /\ IsFiniteSet(Ids) /\ Ids \subseteq Nat
<1>1. Ids \in SUBSET Nat /\ IsFiniteSet(Ids)
  <2>1. 0 \in Int /\ MaxRequests - 1 \in Int
    BY QueueConstants
  <2>2. IsFiniteSet(0 .. MaxRequests - 1)
    BY <2>1, FS_Interval
  <2> QED BY <2>2, QueueConstants DEF Ids
<1> QED BY <1>1, QueueConstants, TokenConstants DEF Callers

-----------------------------------------------------------------------------
(* The price of a share *)

(* The assets behind the shares are never fewer than the shares. *)
AtPar(t) == TotalAssets(t) >= t.totalSupply

(* shares are worth the assets promised for them. *)
WorthIt(t, shares, assets) == assets * t.totalSupply <= shares * TotalAssets(t)

(* Both survive whatever does not lower the price. *)
LEMMA PriceUp ==
  ASSUME NEW A \in Nat, NEW S \in Nat \ {0}, NEW B \in Nat, NEW R \in Nat, B * S >= A * R
  PROVE  /\ A >= S => B >= R
         /\ \A s \in Nat, e \in Nat : e * S <= s * A => e * R <= s * B
<1>1. ASSUME A >= S PROVE B >= R
  <2>1. S * R <= A * R
    BY <1>1, ProductMonotone
  <2>2. A * R \in Int /\ B * S \in Int /\ S * R \in Int /\ R * S \in Int /\ S * R = R * S
    OBVIOUS
  <2>3. R * S <= B * S
    BY <2>1, <2>2
  <2> QED BY <2>3, ProductCancel
<1>2. ASSUME NEW s \in Nat, NEW e \in Nat, e * S <= s * A PROVE e * R <= s * B
  <2>1. /\ e * S \in Nat /\ s * A \in Nat /\ A * R \in Nat /\ B * S \in Nat
        /\ e * R \in Nat /\ s * B \in Nat
    OBVIOUS
  <2>2. (e * S) * R <= (s * A) * R
    BY <1>2, <2>1, ProductMonotone
  <2>3. (A * R) * s <= (B * S) * s
    BY <2>1, ProductMonotone
  <2>4. (e * S) * R = (e * R) * S /\ (s * A) * R = (A * R) * s /\ (B * S) * s = (s * B) * S
    OBVIOUS
  <2>5. (e * R) * S <= (s * B) * S
    <3>1. /\ (e * S) * R \in Int /\ (s * A) * R \in Int /\ (B * S) * s \in Int
      BY <2>1
    <3> QED BY <2>2, <2>3, <2>4, <3>1
  <2> QED BY <2>1, <2>5, ProductCancel
<1> QED BY <1>1, <1>2

(* What shares at that price convert to *)
LEMMA WorthBounds ==
  ASSUME NEW A \in Nat \ {0}, NEW S \in Nat \ {0}, NEW s \in Nat, NEW e \in Nat
  PROVE  /\ e * S <= s * A => e <= MulDivDown(s, A, S) /\ MulDivDown(e, S, A) <= s
         /\ MulDivDown(s, A, S) * S <= s * A
         /\ MulDivDown(s, A, S) \in Nat /\ MulDivDown(e, S, A) \in Nat
<1>1. /\ MulDivDown(s, A, S) \in Nat /\ MulDivDown(e, S, A) \in Nat
      /\ MulDivDown(s, A, S) * S <= s * A /\ MulDivDown(e, S, A) * A <= e * S
  BY MulDivDownBounds
<1>2. ASSUME e * S <= s * A PROVE e <= MulDivDown(s, A, S) /\ MulDivDown(e, S, A) <= s
  <2>1. s * A \in Nat /\ e * S \in Nat
    OBVIOUS
  <2>2. e <= MulDivDown(s, A, S)
    BY <1>2, <2>1, DivLowerBound DEF MulDivDown
  <2>3. MulDivDown(e, S, A) * A \in Int
    BY <1>1
  <2>4. MulDivDown(e, S, A) * A <= s * A
    BY <1>1, <1>2, <2>1, <2>3
  <2>5. MulDivDown(e, S, A) <= s
    BY <1>1, <2>4, ProductCancel
  <2> QED BY <2>2, <2>5
<1> QED BY <1>1, <1>2

(* The vault, in the terms of the queue *)
LEMMA Market ==
  ASSUME NEW t, VaultOK(t), AtPar(t)
  PROVE  /\ TotalAssets(t) \in Nat \ {0} /\ t.totalSupply \in Nat \ {0} /\ Priced(t)
         /\ t.balanceOf \in [Accounts -> Nat]
         /\ \A s \in Nat :
              /\ ConvertToAssets(t, s) \in Nat /\ ConvertToAssets(t, s) >= s
              /\ ConvertToShares(t, s) \in Nat
              /\ WorthIt(t, s, ConvertToAssets(t, s))
         /\ \A s, e \in Nat :
              WorthIt(t, s, e) => ConvertToAssets(t, s) >= e /\ ConvertToShares(t, e) <= s
<1>1. /\ TotalAssets(t) \in Nat \ {0} /\ t.totalSupply \in Nat \ {0}
      /\ t.balanceOf \in [Accounts -> Nat]
  <2>1. TotalAssets(t) \in Nat /\ t.totalSupply \in Nat \ {0}
    BY TotalAssetsBounds, SupplyBounds
  <2>2. TotalAssets(t) # 0
    BY <2>1 DEF AtPar
  <2> QED BY <2>1, <2>2, VaultFields DEF VaultOK
<1>2. Priced(t)
  BY <1>1 DEF Priced
<1> DEFINE A == TotalAssets(t)
           S == t.totalSupply
<1>3. \A x \in Nat : /\ ConvertToAssets(t, x) = MulDivDown(x, A, S)
                     /\ ConvertToShares(t, x) = MulDivDown(x, S, A)
  BY <1>1 DEF ConvertToAssets, ConvertToShares, AssetsFor, SharesFor
<1>4. A \in Nat \ {0} /\ S \in Nat \ {0} /\ A >= S
  BY <1>1 DEF AtPar
<1>5. ASSUME NEW s \in Nat
      PROVE  /\ ConvertToAssets(t, s) \in Nat /\ ConvertToAssets(t, s) >= s
             /\ ConvertToShares(t, s) \in Nat
             /\ WorthIt(t, s, ConvertToAssets(t, s))
  <2> HIDE DEF A, S
  <2>1. s * S <= s * A
    <3>1. S * s <= A * s
      BY <1>4, ProductMonotone
    <3> QED BY <1>4, <3>1
  <2>2. /\ s <= MulDivDown(s, A, S) /\ MulDivDown(s, A, S) \in Nat
        /\ MulDivDown(s, S, A) \in Nat /\ MulDivDown(s, A, S) * S <= s * A
    BY <1>4, <2>1, WorthBounds
  <2>3. WorthIt(t, s, MulDivDown(s, A, S))
    BY <2>2 DEF WorthIt, A, S
  <2> QED BY <1>3, <2>2, <2>3
<1>6. ASSUME NEW s \in Nat, NEW e \in Nat, WorthIt(t, s, e)
      PROVE  ConvertToAssets(t, s) >= e /\ ConvertToShares(t, e) <= s
  <2>1. e * S <= s * A
    BY <1>6 DEF WorthIt
  <2> HIDE DEF A, S
  <2>2. e <= MulDivDown(s, A, S) /\ MulDivDown(e, S, A) <= s /\ MulDivDown(s, A, S) \in Nat
    BY <1>4, <2>1, WorthBounds
  <2> QED BY <1>3, <2>2
<1> QED BY <1>1, <1>2, <1>5, <1>6

-----------------------------------------------------------------------------
(* The storage of the queue *)

(* What the storage of the queue is made of *)
LEMMA QueueFields ==
  ASSUME NEW q \in QueueStorage
  PROVE  /\ q.balance \in Nat /\ q.totalAllocatedFunds \in Nat /\ q.nextRequestId \in Nat
         /\ q.requests \in [Ids -> UnstakeRequest]
         /\ q.pendingRequests \in SUBSET Ids /\ q.fulfilledRequests \in SUBSET Ids
         /\ q.pendingRequestsQueue \in Seq(Ids)
         /\ q.requestsByOwner \in [Owners -> SUBSET Ids]
         /\ q.unstakeDelay \in Nat /\ q.maxExpirationDelay \in Nat
         /\ q.maxRequestsPerStakingDeposit \in Nat /\ q.minUnstakeOnBehalfOfAmt \in Nat
         /\ q.paused \in BOOLEAN
         /\ q = [balance |-> q.balance, totalAllocatedFunds |-> q.totalAllocatedFunds,
                 nextRequestId |-> q.nextRequestId, requests |-> q.requests,
                 pendingRequests |-> q.pendingRequests,
                 fulfilledRequests |-> q.fulfilledRequests,
                 pendingRequestsQueue |-> q.pendingRequestsQueue,
                 requestsByOwner |-> q.requestsByOwner,
                 unstakeDelay |-> q.unstakeDelay,
                 maxExpirationDelay |-> q.maxExpirationDelay,
                 maxRequestsPerStakingDeposit |-> q.maxRequestsPerStakingDeposit,
                 minUnstakeOnBehalfOfAmt |-> q.minUnstakeOnBehalfOfAmt,
                 paused |-> q.paused]
BY DEF QueueStorage

(* What a request is made of *)
LEMMA RequestFields ==
  ASSUME NEW req \in UnstakeRequest
  PROVE  /\ req.requester \in Owners /\ req.shares \in Nat /\ req.expectedAssets \in Nat
         /\ req.claimableTime \in Nat /\ req.expirationTime \in Nat /\ req.allocatedFunds \in Nat
BY DEF UnstakeRequest

(* A deleted request has no shares, no funds and no requester. *)
LEMMA NoRequestFields ==
  /\ NoRequest \in UnstakeRequest /\ NoRequest.shares = 0 /\ NoRequest.allocatedFunds = 0
  /\ NoRequest.requester = NoAddress
BY DEF NoRequest, UnstakeRequest, Owners

(* The queue with new requests, indexes and funds *)
Put(q, b, l, n, m, p, f, d, o) ==
  [q EXCEPT !.balance = b, !.totalAllocatedFunds = l, !.nextRequestId = n, !.requests = m,
            !.pendingRequests = p, !.fulfilledRequests = f, !.pendingRequestsQueue = d,
            !.requestsByOwner = o]

-----------------------------------------------------------------------------
(* The deque *)

(* A new id, later than all, leaves the deque in order. *)
LEMMA DequeAppend ==
  ASSUME NEW d \in Seq(Ids), Increasing(d), NEW n \in Ids, \A r \in Range(d) : r < n
  PROVE  /\ Append(d, n) \in Seq(Ids) /\ Increasing(Append(d, n))
         /\ Range(Append(d, n)) = Range(d) \cup {n}
<1> DEFINE e == Append(d, n)
<1>1. /\ e \in Seq(Ids) /\ Len(d) \in Nat /\ Len(e) = Len(d) + 1
      /\ DOMAIN d = 1 .. Len(d) /\ DOMAIN e = 1 .. Len(d) + 1
      /\ \A i \in 1 .. Len(d) : e[i] = d[i]
      /\ e[Len(d) + 1] = n
  OBVIOUS
<1> HIDE DEF e
<1>2. Range(e) = Range(d) \cup {n}
  <2>1. ASSUME NEW x \in Range(e) PROVE x \in Range(d) \cup {n}
    <3>1. PICK i \in 1 .. Len(d) + 1 : x = e[i]
      BY <1>1 DEF Range
    <3>2. i \in 1 .. Len(d) \/ i = Len(d) + 1
      BY <1>1
    <3> QED BY <1>1, <3>1, <3>2 DEF Range
  <2>2. ASSUME NEW x \in Range(d) PROVE x \in Range(e)
    <3>1. PICK i \in 1 .. Len(d) : x = d[i]
      BY <1>1 DEF Range
    <3>2. i \in 1 .. Len(d) + 1 /\ e[i] = x
      BY <1>1, <3>1
    <3> QED BY <1>1, <3>2 DEF Range
  <2>3. n \in Range(e)
    <3>1. Len(d) + 1 \in 1 .. Len(d) + 1
      BY <1>1
    <3> QED BY <1>1, <3>1 DEF Range
  <2> QED BY <2>1, <2>2, <2>3
<1>3. Increasing(e)
  <2> SUFFICES ASSUME NEW i \in 1 .. Len(d) + 1, NEW j \in 1 .. Len(d) + 1, i < j
               PROVE  e[i] < e[j]
    BY <1>1 DEF Increasing
  <2>1. i \in 1 .. Len(d) /\ e[i] = d[i] /\ d[i] \in Range(d)
    BY <1>1 DEF Range
  <2>2. CASE j \in 1 .. Len(d)
    BY <1>1, <2>1, <2>2 DEF Increasing
  <2>3. CASE j = Len(d) + 1
    BY <1>1, <2>1, <2>3
  <2> QED BY <1>1, <2>2, <2>3
<1> QED BY <1>1, <1>2, <1>3 DEF e

(* So does the removal of the front, which was the earliest id. *)
LEMMA DequeTail ==
  ASSUME NEW d \in Seq(Ids), Increasing(d), d # <<>>
  PROVE  /\ Tail(d) \in Seq(Ids) /\ Increasing(Tail(d))
         /\ Head(d) \in Range(d) /\ Head(d) \in Ids
         /\ Range(d) = Range(Tail(d)) \cup {Head(d)}
         /\ \A r \in Range(Tail(d)) : Head(d) < r
<1> DEFINE e == Tail(d)
           h == Head(d)
<1>1. /\ e \in Seq(Ids) /\ Len(d) \in Nat \ {0} /\ Len(e) = Len(d) - 1
      /\ DOMAIN d = 1 .. Len(d) /\ DOMAIN e = 1 .. Len(d) - 1
      /\ \A i \in 1 .. Len(d) - 1 : e[i] = d[i + 1]
      /\ h = d[1] /\ h \in Ids
  OBVIOUS
<1> HIDE DEF e, h
<1>2. /\ 1 \in 1 .. Len(d) /\ h \in Range(d)
  BY <1>1 DEF Range
<1>3. \A r \in Range(e) : h < r /\ r \in Range(d)
  <2> SUFFICES ASSUME NEW i \in 1 .. Len(d) - 1 PROVE h < e[i] /\ e[i] \in Range(d)
    BY <1>1 DEF Range
  <2>1. i + 1 \in 1 .. Len(d) /\ 1 < i + 1 /\ e[i] = d[i + 1]
    BY <1>1
  <2>2. d[1] < d[i + 1]
    BY <1>1, <1>2, <2>1 DEF Increasing
  <2>3. d[i + 1] \in Range(d)
    BY <1>1, <2>1 DEF Range
  <2> QED BY <1>1, <2>1, <2>2, <2>3
<1>4. \A r \in Range(d) : r = h \/ r \in Range(e)
  <2> SUFFICES ASSUME NEW i \in 1 .. Len(d), i # 1 PROVE d[i] \in Range(e)
    BY <1>1 DEF Range
  <2>1. i - 1 \in 1 .. Len(d) - 1 /\ (i - 1) + 1 = i
    BY <1>1
  <2>2. e[i - 1] = d[i]
    BY <1>1, <2>1
  <2> QED BY <1>1, <2>1, <2>2 DEF Range
<1>5. Increasing(e)
  <2> SUFFICES ASSUME NEW i \in 1 .. Len(d) - 1, NEW j \in 1 .. Len(d) - 1, i < j
               PROVE  e[i] < e[j]
    BY <1>1 DEF Increasing
  <2>1. i + 1 \in 1 .. Len(d) /\ j + 1 \in 1 .. Len(d) /\ i + 1 < j + 1
    BY <1>1
  <2> QED BY <1>1, <2>1 DEF Increasing
<1> QED BY <1>1, <1>2, <1>3, <1>4, <1>5 DEF e, h

-----------------------------------------------------------------------------
(* The invariant of the queue *)

Live(q) == q.pendingRequests \cup q.fulfilledRequests

(* An id is pending, fulfilled or deleted, and listed for its requester. *)
Listed(q) ==
  /\ q.pendingRequests \cap q.fulfilledRequests = {}
  /\ \A r \in Ids \ Live(q) : q.requests[r] = NoRequest
  /\ \A r \in Live(q) : /\ q.requests[r].shares > 0 /\ r < q.nextRequestId
                         /\ q.requests[r].requester \in Accounts
  /\ \A r \in Ids, a \in Owners :
       r \in q.requestsByOwner[a] <=> r \in Live(q) /\ q.requests[r].requester = a

(* The pending ids are in the deque, in the order of the requests. *)
Lined(q) ==
  /\ q.pendingRequests \subseteq Range(q.pendingRequestsQueue)
  /\ Increasing(q.pendingRequestsQueue)
  /\ \A r \in Range(q.pendingRequestsQueue) : r < q.nextRequestId

(* Each request has what its state entitles it to of what it was promised. *)
Entitled(q, promised) ==
  /\ \A r \in Live(q) : promised[r] > 0
  /\ \A r \in q.pendingRequests :
       q.requests[r].allocatedFunds = 0 /\ q.requests[r].expectedAssets = promised[r]
  /\ \A r \in q.fulfilledRequests : q.requests[r].allocatedFunds = promised[r]
  /\ \A r \in Ids : r >= q.nextRequestId => promised[r] = 0

(* It is set aside, and the balance has it. *)
Funded(q) ==
  q.totalAllocatedFunds = Allocated(q) /\ q.balance >= q.totalAllocatedFunds

QueueOK(q, promised) ==
  /\ q \in QueueStorage
  /\ Listed(q) /\ Lined(q) /\ Entitled(q, promised) /\ Funded(q)

(* The sums of the queue *)
AllocatedIn(m) == [r \in Ids |-> m[r].allocatedFunds]
SharesIn(m, p) == [r \in Ids |-> IF r \in p THEN m[r].shares ELSE 0]

(* The two sums are natural numbers that no single request exceeds. *)
LEMMA QueueSums ==
  ASSUME NEW q \in QueueStorage
  PROVE  /\ Allocated(q) = SumFunctionOnSet(AllocatedIn(q.requests), Ids)
         /\ SharesPending(q) = SumFunctionOnSet(SharesIn(q.requests, q.pendingRequests), Ids)
         /\ Allocated(q) \in Nat /\ SharesPending(q) \in Nat
         /\ AllocatedIn(q.requests) \in [Ids -> Nat]
         /\ SharesIn(q.requests, q.pendingRequests) \in [Ids -> Nat]
         /\ \A r \in q.pendingRequests : q.requests[r].shares <= SharesPending(q)
         /\ \A r \in Ids : q.requests[r].allocatedFunds <= Allocated(q)
<1> DEFINE f == AllocatedIn(q.requests)
           g == SharesIn(q.requests, q.pendingRequests)
<1>1. \A r \in Ids : q.requests[r].shares \in Nat /\ q.requests[r].allocatedFunds \in Nat
  BY QueueFields, RequestFields
<1>2. f \in [Ids -> Nat] /\ g \in [Ids -> Nat]
  BY <1>1 DEF AllocatedIn, SharesIn
<1>3. /\ Allocated(q) = SumFunctionOnSet(f, Ids)
      /\ SharesPending(q) = SumFunctionOnSet(g, Ids)
  BY DEF Allocated, SharesPending, AllocatedIn, SharesIn
<1>4. /\ \A r \in Ids : f[r] = q.requests[r].allocatedFunds
      /\ \A r \in q.pendingRequests : g[r] = q.requests[r].shares /\ r \in Ids
  BY QueueFields DEF AllocatedIn, SharesIn
<1> HIDE DEF f, g
<1>5. IsFiniteSet(Ids) /\ (\A r \in Ids : f[r] \in Nat) /\ (\A r \in Ids : g[r] \in Nat)
  BY <1>2, QueueFacts
<1>6. SumFunctionOnSet(f, Ids) \in Nat
  BY <1>5, SumType
<1>7. SumFunctionOnSet(g, Ids) \in Nat
  BY <1>5, SumType
<1>8. \A r \in Ids : f[r] <= SumFunctionOnSet(f, Ids)
  BY <1>2, <1>5, SumBoundsPart
<1>9. \A r \in Ids : g[r] <= SumFunctionOnSet(g, Ids)
  BY <1>2, <1>5, SumBoundsPart
<1> QED BY <1>2, <1>3, <1>4, <1>6, <1>7, <1>8, <1>9 DEF f, g

(* When one part of a sum over the requests changes, so does the sum. *)
LEMMA SumOfRequests ==
  ASSUME NEW f \in [Ids -> Nat], NEW h \in [Ids -> Nat], NEW r \in Ids,
         \A x \in Ids \ {r} : h[x] = f[x]
  PROVE  SumFunctionOnSet(h, Ids) = SumFunctionOnSet(f, Ids) - f[r] + h[r]
<1>1. IsFiniteSet(Ids)
  BY QueueFacts
<1>2. /\ \A x \in Ids : f[x] \in Int /\ h[x] \in Int
      /\ \A x \in Ids \ {r} : h[x] = f[x]
  OBVIOUS
<1>3. SumFunctionOnSet(h, Ids) = SumFunctionOnSet(f, Ids) - f[r] + h[r]
  BY <1>1, <1>2, SumUpdate
<1> QED BY <1>3

(* Writing one request moves one part of the sums. *)
LEMMA QueueSumsUpdate ==
  ASSUME NEW q \in QueueStorage, NEW u \in QueueStorage, NEW r \in Ids,
         NEW req \in UnstakeRequest, u.requests = [q.requests EXCEPT ![r] = req],
         \A x \in Ids \ {r} : x \in u.pendingRequests <=> x \in q.pendingRequests
  PROVE  /\ Allocated(u)
              = Allocated(q) - q.requests[r].allocatedFunds + req.allocatedFunds
         /\ SharesPending(u)
              = SharesPending(q)
                  - (IF r \in q.pendingRequests THEN q.requests[r].shares ELSE 0)
                  + (IF r \in u.pendingRequests THEN req.shares ELSE 0)
<1> DEFINE f == AllocatedIn(q.requests)
           f2 == AllocatedIn(u.requests)
           g == SharesIn(q.requests, q.pendingRequests)
           g2 == SharesIn(u.requests, u.pendingRequests)
<1>1. /\ Allocated(q) = SumFunctionOnSet(f, Ids) /\ SharesPending(q) = SumFunctionOnSet(g, Ids)
      /\ f \in [Ids -> Nat] /\ g \in [Ids -> Nat]
  BY QueueSums
<1>2. /\ Allocated(u) = SumFunctionOnSet(f2, Ids) /\ SharesPending(u) = SumFunctionOnSet(g2, Ids)
      /\ f2 \in [Ids -> Nat] /\ g2 \in [Ids -> Nat]
  BY QueueSums
<1>3. /\ \A x \in Ids \ {r} : u.requests[x] = q.requests[x]
      /\ u.requests[r] = req
  BY QueueFields
<1>4. /\ \A x \in Ids \ {r} : f2[x] = f[x] /\ g2[x] = g[x]
      /\ f[r] = q.requests[r].allocatedFunds /\ f2[r] = req.allocatedFunds
      /\ g[r] = IF r \in q.pendingRequests THEN q.requests[r].shares ELSE 0
      /\ g2[r] = IF r \in u.pendingRequests THEN req.shares ELSE 0
  BY <1>3 DEF AllocatedIn, SharesIn
<1> HIDE DEF f, f2, g, g2
<1>5. \A x \in Ids \ {r} : f2[x] = f[x]
  BY <1>4
<1>6. SumFunctionOnSet(f2, Ids) = SumFunctionOnSet(f, Ids) - f[r] + f2[r]
  BY <1>1, <1>2, <1>5, SumOfRequests
<1>7. \A x \in Ids \ {r} : g2[x] = g[x]
  BY <1>4
<1>8. SumFunctionOnSet(g2, Ids) = SumFunctionOnSet(g, Ids) - g[r] + g2[r]
  BY <1>1, <1>2, <1>7, SumOfRequests
<1> QED BY <1>1, <1>2, <1>4, <1>6, <1>8

-----------------------------------------------------------------------------
(* What the functions do to the invariant of the queue *)

(* A request that is deleted takes its part of every index and sum along. *)
Removed(q, r, u) ==
  /\ u \in QueueStorage
  /\ u.requests = [q.requests EXCEPT ![r] = NoRequest]
  /\ u.requestsByOwner = [q.requestsByOwner EXCEPT ![q.requests[r].requester] = @ \ {r}]
  /\ u.pendingRequests = q.pendingRequests \ {r}
  /\ u.fulfilledRequests = q.fulfilledRequests \ {r}
  /\ u.pendingRequestsQueue = q.pendingRequestsQueue
  /\ u.nextRequestId = q.nextRequestId
  /\ u.totalAllocatedFunds = q.totalAllocatedFunds - q.requests[r].allocatedFunds
  /\ u.balance >= u.totalAllocatedFunds

(* The end of a request keeps the invariant and frees its shares and funds. *)
LEMMA RemoveOK ==
  ASSUME NEW q, NEW k, QueueOK(q, k), NEW r \in Live(q), NEW u, Removed(q, r, u)
  PROVE  /\ QueueOK(u, k)
         /\ SharesPending(u)
              = SharesPending(q)
                  - (IF r \in q.pendingRequests THEN q.requests[r].shares ELSE 0)
         /\ \A x \in u.pendingRequests :
              x \in q.pendingRequests /\ u.requests[x] = q.requests[x]
<1>1. /\ q \in QueueStorage /\ r \in Ids /\ q.requests \in [Ids -> UnstakeRequest]
      /\ q.requests[r].requester \in Owners
      /\ q.requestsByOwner \in [Owners -> SUBSET Ids]
      /\ q.pendingRequests \in SUBSET Ids /\ q.fulfilledRequests \in SUBSET Ids
  <2>1. q \in QueueStorage
    BY DEF QueueOK
  <2>2. /\ q.requests \in [Ids -> UnstakeRequest]
        /\ q.requestsByOwner \in [Owners -> SUBSET Ids]
        /\ q.pendingRequests \in SUBSET Ids /\ q.fulfilledRequests \in SUBSET Ids
    BY <2>1, QueueFields
  <2>3. r \in Ids
    BY <2>2 DEF Live
  <2> QED BY <2>1, <2>2, <2>3, RequestFields
<1> USE DEF Removed
<1>2. /\ Live(u) = Live(q) \ {r}
      /\ u.requests[r] = NoRequest
      /\ \A x \in Ids \ {r} : u.requests[x] = q.requests[x]
  BY <1>1 DEF Live
<1>3. Listed(u)
  <2>1. u.pendingRequests \cap u.fulfilledRequests = {}
    BY DEF QueueOK, Listed
  <2>2. \A x \in Ids \ Live(u) : u.requests[x] = NoRequest
    BY <1>2 DEF QueueOK, Listed
  <2>3. \A x \in Live(u) : /\ u.requests[x].shares > 0 /\ x < u.nextRequestId
                           /\ u.requests[x].requester \in Accounts
    BY <1>1, <1>2 DEF QueueOK, Listed, Live
  <2>4. ASSUME NEW x \in Ids, NEW a \in Owners
        PROVE  x \in u.requestsByOwner[a] <=> x \in Live(u) /\ u.requests[x].requester = a
    <3>1. x \in q.requestsByOwner[a] <=> x \in Live(q) /\ q.requests[x].requester = a
      BY DEF QueueOK, Listed
    <3>2. CASE x = r
      BY <1>1, <1>2, <3>1, <3>2
    <3>3. CASE x # r
      <4>1. x \in u.requestsByOwner[a] <=> x \in q.requestsByOwner[a]
        BY <1>1, <3>3
      <4> QED BY <1>2, <3>1, <3>3, <4>1
    <3> QED BY <3>2, <3>3
  <2> QED BY <2>1, <2>2, <2>3, <2>4 DEF Listed
<1>4. Lined(u)
  BY DEF QueueOK, Lined
<1>5. Entitled(u, k)
  <2>1. /\ \A x \in Live(u) : x \in Live(q)
        /\ \A x \in u.pendingRequests : x \in q.pendingRequests /\ u.requests[x] = q.requests[x]
        /\ \A x \in u.fulfilledRequests :
             x \in q.fulfilledRequests /\ u.requests[x] = q.requests[x]
    BY <1>1, <1>2
  <2> QED BY <2>1 DEF QueueOK, Entitled
<1>6. /\ Allocated(u) = Allocated(q) - q.requests[r].allocatedFunds + NoRequest.allocatedFunds
      /\ SharesPending(u)
           = SharesPending(q)
               - (IF r \in q.pendingRequests THEN q.requests[r].shares ELSE 0)
               + (IF r \in u.pendingRequests THEN NoRequest.shares ELSE 0)
  <2>1. \A x \in Ids \ {r} : x \in u.pendingRequests <=> x \in q.pendingRequests
    OBVIOUS
  <2> QED BY <1>1, <2>1, NoRequestFields, QueueSumsUpdate
<1>7. /\ Allocated(q) \in Nat /\ SharesPending(q) \in Nat
      /\ q.requests[r].allocatedFunds \in Nat /\ q.requests[r].shares \in Nat
  BY <1>1, QueueSums, RequestFields
<1>8. Funded(u)
  BY <1>6, <1>7, NoRequestFields DEF QueueOK, Funded
<1>9. SharesPending(u)
        = SharesPending(q) - (IF r \in q.pendingRequests THEN q.requests[r].shares ELSE 0)
  BY <1>6, <1>7
<1>10. \A x \in u.pendingRequests : x \in q.pendingRequests /\ u.requests[x] = q.requests[x]
  BY <1>1, <1>2
<1> QED BY <1>3, <1>4, <1>5, <1>8, <1>9, <1>10 DEF QueueOK

(* A new request is the last in the deque. *)
Added(q, n, req, u) ==
  /\ u \in QueueStorage
  /\ u.requests = [q.requests EXCEPT ![n] = req]
  /\ u.requestsByOwner = [q.requestsByOwner EXCEPT ![req.requester] = @ \cup {n}]
  /\ u.pendingRequests = q.pendingRequests \cup {n}
  /\ u.fulfilledRequests = q.fulfilledRequests
  /\ u.pendingRequestsQueue = Append(q.pendingRequestsQueue, n)
  /\ u.nextRequestId = n + 1
  /\ u.totalAllocatedFunds = q.totalAllocatedFunds
  /\ u.balance = q.balance

PromisedFor(k, n, req, k2) ==
  /\ req \in UnstakeRequest /\ req.shares > 0 /\ req.allocatedFunds = 0
  /\ req.requester \in Accounts /\ req.expectedAssets = k2[n] /\ k2[n] > 0
  /\ \A x \in Ids \ {n} : k2[x] = k[x]

(* A new request, promised something, keeps the invariant. *)
LEMMA AddOK ==
  ASSUME NEW q, NEW k, QueueOK(q, k), NEW n \in Ids, n = q.nextRequestId,
         NEW req, NEW k2, PromisedFor(k, n, req, k2), NEW u, Added(q, n, req, u)
  PROVE  /\ QueueOK(u, k2)
         /\ SharesPending(u) = SharesPending(q) + req.shares
         /\ u.requests[n] = req /\ n \notin Live(q)
         /\ \A x \in q.pendingRequests : u.requests[x] = q.requests[x]
<1> USE DEF Added, PromisedFor
<1>1. /\ q \in QueueStorage /\ q.requests \in [Ids -> UnstakeRequest]
      /\ req.requester \in Owners /\ n \in Nat
      /\ q.requestsByOwner \in [Owners -> SUBSET Ids]
      /\ q.pendingRequests \in SUBSET Ids /\ q.fulfilledRequests \in SUBSET Ids
      /\ q.pendingRequestsQueue \in Seq(Ids) /\ Ids \subseteq Nat
  BY QueueFields, RequestFields, QueueFacts DEF QueueOK
<1>2. /\ n \notin Live(q) /\ q.requests[n] = NoRequest /\ Live(q) \subseteq Ids
  BY <1>1 DEF QueueOK, Listed, Live
<1>3. /\ Live(u) = Live(q) \cup {n} /\ u.requests[n] = req
      /\ \A x \in Ids \ {n} : u.requests[x] = q.requests[x]
      /\ \A x \in Live(q) : x # n /\ u.requests[x] = q.requests[x] /\ k2[x] = k[x]
  BY <1>1, <1>2 DEF Live
<1>4. Listed(u)
  <2>1. u.pendingRequests \cap u.fulfilledRequests = {}
    BY <1>2 DEF QueueOK, Listed, Live
  <2>2. \A x \in Ids \ Live(u) : u.requests[x] = NoRequest
    BY <1>3 DEF QueueOK, Listed
  <2>3. \A x \in Live(u) : /\ u.requests[x].shares > 0 /\ x < u.nextRequestId
                           /\ u.requests[x].requester \in Accounts
    <3>1. \A x \in Live(q) : /\ q.requests[x].shares > 0 /\ x < n /\ x \in Nat
                             /\ q.requests[x].requester \in Accounts
      BY <1>1, <1>2 DEF QueueOK, Listed
    <3> QED BY <1>1, <1>3, <3>1
  <2>4. ASSUME NEW x \in Ids, NEW a \in Owners
        PROVE  x \in u.requestsByOwner[a] <=> x \in Live(u) /\ u.requests[x].requester = a
    <3>1. x \in q.requestsByOwner[a] <=> x \in Live(q) /\ q.requests[x].requester = a
      BY DEF QueueOK, Listed
    <3>2. CASE x = n
      BY <1>1, <1>2, <1>3, <3>1, <3>2
    <3>3. CASE x # n
      <4>1. x \in u.requestsByOwner[a] <=> x \in q.requestsByOwner[a]
        BY <1>1, <3>3
      <4> QED BY <1>3, <3>1, <3>3, <4>1
    <3> QED BY <3>2, <3>3
  <2> QED BY <2>1, <2>2, <2>3, <2>4 DEF Listed
<1>5. Lined(u)
  <2>1. /\ q.pendingRequests \subseteq Range(q.pendingRequestsQueue)
        /\ Increasing(q.pendingRequestsQueue)
        /\ \A x \in Range(q.pendingRequestsQueue) : x < n
    BY DEF QueueOK, Lined
  <2>2. /\ Increasing(u.pendingRequestsQueue)
        /\ Range(u.pendingRequestsQueue) = Range(q.pendingRequestsQueue) \cup {n}
    BY <1>1, <2>1, DequeAppend
  <2>3. Range(q.pendingRequestsQueue) \subseteq Ids
    BY <1>1 DEF Range
  <2>4. \A x \in Range(u.pendingRequestsQueue) : x < u.nextRequestId
    BY <1>1, <2>1, <2>2, <2>3
  <2> QED BY <2>1, <2>2, <2>4 DEF Lined
<1>6. Entitled(u, k2)
  <2>1. \A x \in Ids : x >= u.nextRequestId => k2[x] = 0
    <3> SUFFICES ASSUME NEW x \in Ids, x >= n + 1 PROVE k2[x] = 0
      OBVIOUS
    <3>1. x \in Nat /\ x # n /\ x >= n
      BY <1>1
    <3> QED BY <3>1 DEF QueueOK, Entitled
  <2>2. \A x \in Live(u) : k2[x] > 0
    BY <1>3 DEF QueueOK, Entitled
  <2>3. ASSUME NEW x \in u.pendingRequests
        PROVE  u.requests[x].allocatedFunds = 0 /\ u.requests[x].expectedAssets = k2[x]
    <3>1. CASE x = n
      BY <1>3, <3>1
    <3>2. CASE x # n
      <4>1. x \in q.pendingRequests /\ x \in Live(q)
        BY <3>2 DEF Live
      <4> QED BY <1>3, <4>1 DEF QueueOK, Entitled
    <3> QED BY <3>1, <3>2
  <2>4. \A x \in u.fulfilledRequests : u.requests[x].allocatedFunds = k2[x]
    <3>1. \A x \in u.fulfilledRequests : x \in q.fulfilledRequests /\ x \in Live(q)
      BY DEF Live
    <3> QED BY <1>3, <3>1 DEF QueueOK, Entitled
  <2> QED BY <2>1, <2>2, <2>3, <2>4 DEF Entitled
<1>7. /\ Allocated(u) = Allocated(q) - q.requests[n].allocatedFunds + req.allocatedFunds
      /\ SharesPending(u)
           = SharesPending(q)
               - (IF n \in q.pendingRequests THEN q.requests[n].shares ELSE 0)
               + (IF n \in u.pendingRequests THEN req.shares ELSE 0)
  <2>1. /\ u \in QueueStorage /\ req \in UnstakeRequest
        /\ u.requests = [q.requests EXCEPT ![n] = req]
        /\ \A x \in Ids \ {n} : x \in u.pendingRequests <=> x \in q.pendingRequests
    OBVIOUS
  <2> HIDE DEF Added, PromisedFor
  <2> QED BY <1>1, <2>1, QueueSumsUpdate
<1>8. Allocated(q) \in Nat /\ SharesPending(q) \in Nat /\ req.shares \in Nat
  BY <1>1, QueueSums, RequestFields
<1>9. Funded(u)
  BY <1>2, <1>7, <1>8, NoRequestFields DEF QueueOK, Funded
<1>10. SharesPending(u) = SharesPending(q) + req.shares
  <2>1. n \notin q.pendingRequests /\ n \in u.pendingRequests
    BY <1>2 DEF Live
  <2> QED BY <1>7, <1>8, <2>1
<1>11. \A x \in q.pendingRequests : u.requests[x] = q.requests[x]
  BY <1>3 DEF Live
<1> QED BY <1>2, <1>3, <1>4, <1>5, <1>6, <1>9, <1>10, <1>11 DEF QueueOK

(* Who waits is in the deque, so the deque has a front. *)
LEMMA DequeFront ==
  ASSUME NEW q, NEW k, QueueOK(q, k), q.pendingRequests # {}
  PROVE  LET d == q.pendingRequestsQueue
         IN  /\ d \in Seq(Ids) /\ d # <<>> /\ Head(d) \in Ids
             /\ Tail(d) \in Seq(Ids) /\ Increasing(Tail(d))
             /\ Range(d) = Range(Tail(d)) \cup {Head(d)}
             /\ \A r \in Range(Tail(d)) : Head(d) < r
<1> DEFINE d == q.pendingRequestsQueue
<1>1. d \in Seq(Ids) /\ Increasing(d) /\ q.pendingRequests \subseteq Range(d)
  BY QueueFields DEF QueueOK, Lined
<1>2. d # <<>>
  <2>1. Range(<<>>) = {}
    BY DEF Range
  <2> HIDE DEF d
  <2> QED BY <1>1, <2>1
<1> HIDE DEF d
<1>3. /\ Tail(d) \in Seq(Ids) /\ Increasing(Tail(d))
      /\ Head(d) \in Range(d) /\ Head(d) \in Ids
      /\ Range(d) = Range(Tail(d)) \cup {Head(d)}
      /\ \A r \in Range(Tail(d)) : Head(d) < r
  BY <1>1, <1>2, DequeTail
<1> QED BY <1>1, <1>2, <1>3 DEF d

(* Only the balance, a setting or nothing changes. *)
LEMMA SameOK ==
  ASSUME NEW q, NEW k, QueueOK(q, k), NEW u \in QueueStorage,
         u.requests = q.requests, u.requestsByOwner = q.requestsByOwner,
         u.pendingRequests = q.pendingRequests, u.fulfilledRequests = q.fulfilledRequests,
         u.pendingRequestsQueue = q.pendingRequestsQueue,
         u.nextRequestId = q.nextRequestId, u.totalAllocatedFunds = q.totalAllocatedFunds,
         u.balance >= u.totalAllocatedFunds
  PROVE  QueueOK(u, k) /\ SharesPending(u) = SharesPending(q)
<1>1. Allocated(u) = Allocated(q) /\ SharesPending(u) = SharesPending(q)
  BY DEF Allocated, SharesPending
<1>2. Live(u) = Live(q)
  BY DEF Live
<1>3. Listed(u) /\ Lined(u) /\ Entitled(u, k)
  BY <1>2 DEF QueueOK, Listed, Lined, Entitled
<1> QED BY <1>1, <1>3 DEF QueueOK, Funded

(* The front of the deque, which nobody waits for any more, is dropped. *)
LEMMA CleanOK ==
  ASSUME NEW q, NEW k, QueueOK(q, k), q.pendingRequests # {},
         Head(q.pendingRequestsQueue) \notin q.pendingRequests
  PROVE  LET u == [q EXCEPT !.pendingRequestsQueue = Tail(@)]
         IN  /\ QueueOK(u, k) /\ SharesPending(u) = SharesPending(q)
             /\ u.requests = q.requests /\ u.pendingRequests = q.pendingRequests
             /\ u.fulfilledRequests = q.fulfilledRequests
             /\ u.nextRequestId = q.nextRequestId
             /\ u.totalAllocatedFunds = q.totalAllocatedFunds /\ u.balance = q.balance
<1> DEFINE d == q.pendingRequestsQueue
           e == Tail(d)
           u == [q EXCEPT !.pendingRequestsQueue = Tail(@)]
<1>1. q \in QueueStorage
  BY DEF QueueOK
<1>2. /\ e \in Seq(Ids) /\ Increasing(e) /\ Range(d) = Range(e) \cup {Head(d)}
  BY DequeFront
<1>3. /\ u \in QueueStorage /\ u.requests = q.requests
      /\ u.requestsByOwner = q.requestsByOwner
      /\ u.pendingRequests = q.pendingRequests /\ u.fulfilledRequests = q.fulfilledRequests
      /\ u.pendingRequestsQueue = e
      /\ u.nextRequestId = q.nextRequestId /\ u.totalAllocatedFunds = q.totalAllocatedFunds
      /\ u.balance = q.balance
  <2>1. u = [q EXCEPT !.pendingRequestsQueue = e]
    BY <1>1
  <2> HIDE DEF e, u
  <2> QED BY <1>1, <1>2, <2>1 DEF QueueStorage
<1> HIDE DEF u, e
<1>4. Allocated(u) = Allocated(q) /\ SharesPending(u) = SharesPending(q) /\ Live(u) = Live(q)
  BY <1>3 DEF Allocated, SharesPending, Live
<1>5. Lined(u)
  <2>1. /\ q.pendingRequests \subseteq Range(d) /\ Head(d) \notin q.pendingRequests
        /\ \A r \in Range(d) : r < q.nextRequestId
    BY DEF QueueOK, Lined
  <2>2. q.pendingRequests \subseteq Range(e)
    BY <1>2, <2>1
  <2>3. \A r \in Range(e) : r < q.nextRequestId
    BY <1>2, <2>1
  <2> QED BY <1>2, <1>3, <2>2, <2>3 DEF Lined
<1>6. Listed(u) /\ Entitled(u, k) /\ Funded(u)
  BY <1>3, <1>4 DEF QueueOK, Listed, Entitled, Funded
<1>7. QueueOK(u, k)
  BY <1>3, <1>5, <1>6 DEF QueueOK
<1> QED BY <1>3, <1>4, <1>7 DEF u

(* A request that is fulfilled gets its part; all who wait came later. *)
Fulfilled(q, r, u) ==
  /\ u \in QueueStorage
  /\ u.requests = [q.requests EXCEPT ![r].allocatedFunds = q.requests[r].expectedAssets]
  /\ u.requestsByOwner = q.requestsByOwner
  /\ u.pendingRequests = q.pendingRequests \ {r}
  /\ u.fulfilledRequests = q.fulfilledRequests \cup {r}
  /\ u.pendingRequestsQueue = Tail(q.pendingRequestsQueue)
  /\ u.nextRequestId = q.nextRequestId
  /\ u.totalAllocatedFunds = q.totalAllocatedFunds + q.requests[r].expectedAssets
  /\ u.balance >= u.totalAllocatedFunds

(* The fulfilment of the front of the deque keeps the invariant. *)
LEMMA FulfilledOK ==
  ASSUME NEW q, NEW k, QueueOK(q, k), NEW r \in q.pendingRequests,
         r = Head(q.pendingRequestsQueue), NEW u, Fulfilled(q, r, u)
  PROVE  /\ QueueOK(u, k)
         /\ SharesPending(u) = SharesPending(q) - q.requests[r].shares
         /\ \A x \in u.pendingRequests :
              x \in q.pendingRequests /\ u.requests[x] = q.requests[x] /\ r < x
<1> DEFINE d == q.pendingRequestsQueue
           e == Tail(d)
           req == [q.requests[r] EXCEPT !.allocatedFunds = q.requests[r].expectedAssets]
<1>1. /\ q \in QueueStorage /\ r \in Ids /\ q.requests \in [Ids -> UnstakeRequest]
      /\ q.requests[r] \in UnstakeRequest
      /\ q.pendingRequests \in SUBSET Ids /\ q.fulfilledRequests \in SUBSET Ids
  BY QueueFields DEF QueueOK
<1>2. /\ req \in UnstakeRequest /\ req.allocatedFunds = q.requests[r].expectedAssets
      /\ req.shares = q.requests[r].shares /\ req.requester = q.requests[r].requester
      /\ u.requests = [q.requests EXCEPT ![r] = req]
  <2>1. u.requests = [q.requests EXCEPT ![r] = req]
    BY DEF Fulfilled
  <2>2. q.requests[r].expectedAssets \in Nat
    BY <1>1, RequestFields
  <2>3. /\ req \in UnstakeRequest /\ req.allocatedFunds = q.requests[r].expectedAssets
        /\ req.shares = q.requests[r].shares /\ req.requester = q.requests[r].requester
    BY <1>1, <2>2 DEF UnstakeRequest
  <2> HIDE DEF req
  <2> QED BY <2>1, <2>3
<1> USE DEF Fulfilled
<1>3. /\ e \in Seq(Ids) /\ Increasing(e) /\ Range(d) = Range(e) \cup {r}
      /\ \A x \in Range(e) : r < x
  BY DequeFront
<1> HIDE DEF req, e
<1>4. /\ Live(u) = Live(q) /\ r \in Live(q) /\ r \notin q.fulfilledRequests
      /\ u.requests[r] = req
      /\ \A x \in Ids \ {r} : u.requests[x] = q.requests[x]
  <2>1. r \notin q.fulfilledRequests
    BY DEF QueueOK, Listed
  <2>2. Live(u) = Live(q) /\ r \in Live(q)
    BY DEF Live
  <2>3. /\ u.requests[r] = req
        /\ \A x \in Ids \ {r} : u.requests[x] = q.requests[x]
    BY <1>1, <1>2
  <2> QED BY <2>1, <2>2, <2>3
<1>5. Listed(u)
  <2>1. u.pendingRequests \cap u.fulfilledRequests = {}
    BY DEF QueueOK, Listed
  <2>2. \A x \in Ids \ Live(u) : u.requests[x] = NoRequest
    BY <1>4 DEF QueueOK, Listed
  <2>3. \A x \in Ids : /\ u.requests[x].shares = q.requests[x].shares
                       /\ u.requests[x].requester = q.requests[x].requester
    BY <1>2, <1>4
  <2>4. Live(q) \subseteq Ids
    BY <1>1 DEF Live
  <2>5. \A x \in Live(u) : /\ u.requests[x].shares > 0 /\ x < u.nextRequestId
                           /\ u.requests[x].requester \in Accounts
    BY <1>4, <2>3, <2>4 DEF QueueOK, Listed
  <2>6. ASSUME NEW x \in Ids, NEW a \in Owners
        PROVE  x \in u.requestsByOwner[a] <=> x \in Live(u) /\ u.requests[x].requester = a
    <3>1. x \in q.requestsByOwner[a] <=> x \in Live(q) /\ q.requests[x].requester = a
      BY DEF QueueOK, Listed
    <3> QED BY <1>4, <2>3, <3>1
  <2> QED BY <2>1, <2>2, <2>5, <2>6 DEF Listed
<1>6. q.pendingRequests \subseteq Range(d) /\ \A x \in Range(d) : x < q.nextRequestId
  BY DEF QueueOK, Lined
<1>7. u.pendingRequests \subseteq Range(e)
  BY <1>3, <1>6
<1>8. Lined(u)
  <2>1. u.pendingRequestsQueue = e
    BY DEF e
  <2> QED BY <1>3, <1>6, <1>7, <2>1 DEF Lined
<1>9. Entitled(u, k)
  <2>1. \A x \in u.pendingRequests : x \in q.pendingRequests /\ u.requests[x] = q.requests[x]
    BY <1>1, <1>4
  <2>2. u.requests[r].allocatedFunds = k[r]
    BY <1>2, <1>4 DEF QueueOK, Entitled
  <2>3. \A x \in q.fulfilledRequests : u.requests[x] = q.requests[x]
    BY <1>1, <1>4
  <2>4. Entitled(q, k)
    BY DEF QueueOK
  <2>5. \A x \in u.fulfilledRequests : x = r \/ x \in q.fulfilledRequests
    OBVIOUS
  <2>6. u.nextRequestId = q.nextRequestId
    OBVIOUS
  <2> HIDE DEF Fulfilled
  <2>7. \A x \in Live(u) : k[x] > 0
    BY <1>4, <2>4 DEF Entitled
  <2>8. \A x \in u.pendingRequests :
          u.requests[x].allocatedFunds = 0 /\ u.requests[x].expectedAssets = k[x]
    BY <2>1, <2>4 DEF Entitled
  <2>9. \A x \in u.fulfilledRequests : u.requests[x].allocatedFunds = k[x]
    BY <2>2, <2>3, <2>4, <2>5 DEF Entitled
  <2> QED BY <2>4, <2>6, <2>7, <2>8, <2>9 DEF Entitled
<1>10. /\ Allocated(u) = Allocated(q) - q.requests[r].allocatedFunds + req.allocatedFunds
       /\ SharesPending(u)
            = SharesPending(q)
                - (IF r \in q.pendingRequests THEN q.requests[r].shares ELSE 0)
                + (IF r \in u.pendingRequests THEN req.shares ELSE 0)
  <2>1. \A x \in Ids \ {r} : x \in u.pendingRequests <=> x \in q.pendingRequests
    OBVIOUS
  <2> QED BY <1>1, <1>2, <2>1, QueueSumsUpdate
<1>11. /\ Allocated(q) \in Nat /\ SharesPending(q) \in Nat /\ q.requests[r].shares \in Nat
       /\ q.requests[r].expectedAssets \in Nat /\ q.requests[r].allocatedFunds = 0
  BY <1>1, QueueSums, RequestFields DEF QueueOK, Entitled
<1>12. Funded(u)
  <2>1. /\ u.totalAllocatedFunds = q.totalAllocatedFunds + q.requests[r].expectedAssets
        /\ u.balance >= u.totalAllocatedFunds
    OBVIOUS
  <2>2. q.totalAllocatedFunds = Allocated(q)
    BY DEF QueueOK, Funded
  <2> HIDE DEF Fulfilled
  <2>3. Allocated(u) = Allocated(q) - q.requests[r].allocatedFunds + req.allocatedFunds
    BY <1>10
  <2>4. /\ q.requests[r].allocatedFunds = 0 /\ Allocated(q) \in Nat
        /\ req.allocatedFunds = q.requests[r].expectedAssets
        /\ q.requests[r].expectedAssets \in Nat
    BY <1>2, <1>11
  <2>5. u.totalAllocatedFunds = Allocated(u)
    BY <2>1, <2>2, <2>3, <2>4
  <2> QED BY <2>1, <2>5 DEF Funded
<1>13. SharesPending(u) = SharesPending(q) - q.requests[r].shares
  BY <1>10, <1>11
<1>14. \A x \in u.pendingRequests :
         x \in q.pendingRequests /\ u.requests[x] = q.requests[x] /\ r < x
  BY <1>1, <1>3, <1>4, <1>7
<1> QED BY <1>5, <1>8, <1>9, <1>12, <1>13, <1>14 DEF QueueOK

-----------------------------------------------------------------------------
(* The two contracts together *)

(* The queue holds the shares of who waits, and they are worth the promise. *)
WorldOK(t, q, promised) ==
  /\ VaultOK(t) /\ AtPar(t)
  /\ QueueOK(q, promised)
  /\ t.balanceOf[Queue] >= SharesPending(q)
  /\ \A r \in q.pendingRequests :
       WorthIt(t, q.requests[r].shares, q.requests[r].expectedAssets)

(* The price may rise while requests go, or come at a price that is right. *)
LEMMA WorldStep ==
  ASSUME NEW t, NEW q, NEW k, WorldOK(t, q, k), NEW u, VaultOK(u), PriceKept(t, u),
         NEW v, NEW k2, QueueOK(v, k2), u.balanceOf[Queue] >= SharesPending(v),
         \A r \in v.pendingRequests :
           \/ r \in q.pendingRequests /\ v.requests[r] = q.requests[r]
           \/ WorthIt(u, v.requests[r].shares, v.requests[r].expectedAssets)
  PROVE  WorldOK(u, v, k2)
<1> DEFINE A == TotalAssets(t)
           S == t.totalSupply
           B == TotalAssets(u)
           R == u.totalSupply
<1>1. /\ A \in Nat /\ S \in Nat \ {0} /\ B \in Nat /\ R \in Nat /\ B * S >= A * R /\ A >= S
  <2>1. /\ TotalAssets(t) \in Nat /\ t.totalSupply \in Nat \ {0}
    BY TotalAssetsBounds, SupplyBounds DEF WorldOK
  <2>2. /\ TotalAssets(u) \in Nat /\ u.totalSupply \in Nat \ {0}
    BY TotalAssetsBounds, SupplyBounds
  <2> QED BY <2>1, <2>2 DEF WorldOK, PriceKept, AtPar
<1>2. /\ B >= R
      /\ \A s \in Nat, e \in Nat : e * S <= s * A => e * R <= s * B
  <2> HIDE DEF A, S, B, R
  <2> QED BY <1>1, PriceUp
<1>3. AtPar(u)
  BY <1>2 DEF AtPar
<1>4. ASSUME NEW r \in v.pendingRequests
      PROVE  WorthIt(u, v.requests[r].shares, v.requests[r].expectedAssets)
  <2>1. CASE r \in q.pendingRequests /\ v.requests[r] = q.requests[r]
    <3>1. q.requests[r].shares \in Nat /\ q.requests[r].expectedAssets \in Nat
      BY <2>1, QueueFields, RequestFields DEF WorldOK, QueueOK
    <3>2. q.requests[r].expectedAssets * S <= q.requests[r].shares * A
      BY <2>1 DEF WorldOK, WorthIt
    <3>3. q.requests[r].expectedAssets * R <= q.requests[r].shares * B
      <4> HIDE DEF A, S, B, R
      <4> QED BY <1>2, <3>1, <3>2
    <3> QED BY <2>1, <3>3 DEF WorthIt
  <2> QED BY <2>1
<1> QED BY <1>3, <1>4 DEF WorldOK

(* Nothing happens to the vault *)
LEMMA SameVault ==
  ASSUME NEW t, NEW q, NEW k, WorldOK(t, q, k), NEW v, NEW k2, QueueOK(v, k2),
         SharesPending(v) <= SharesPending(q),
         \A r \in v.pendingRequests : r \in q.pendingRequests /\ v.requests[r] = q.requests[r]
  PROVE  WorldOK(t, v, k2)
<1>1. VaultOK(t) /\ PriceKept(t, t)
  BY NothingMoves DEF WorldOK
<1>2. /\ SharesPending(q) \in Nat /\ SharesPending(v) \in Nat /\ t.balanceOf[Queue] \in Nat
  BY <1>1, QueueSums, QueueFacts, VaultFields DEF WorldOK, QueueOK, VaultOK
<1>3. t.balanceOf[Queue] >= SharesPending(v)
  BY <1>2 DEF WorldOK
<1> QED BY <1>1, <1>3, WorldStep

(* The shares of the queue, when shares move *)
LEMMA MoveOfQueue ==
  ASSUME NEW b \in [Accounts -> Nat], NEW a \in Accounts, NEW c \in Accounts, NEW s \in Nat
  PROVE  /\ a = Queue => Move(b, a, c, s)[Queue] >= b[Queue] - s
         /\ a # Queue => Move(b, a, c, s)[Queue] >= b[Queue]
         /\ a # Queue /\ c = Queue => Move(b, a, c, s)[Queue] = b[Queue] + s
BY QueueFacts DEF Move

(* The balances after each operation of the vault the queue calls *)
LEMMA SharesOfQueue ==
  ASSUME NEW t, VaultOK(t)
  PROVE  /\ t.balanceOf \in [Accounts -> Nat] /\ t.balanceOf[Queue] \in Nat
         /\ \A a, s : /\ BurnShares(t, a, s).balanceOf = [t.balanceOf EXCEPT ![a] = @ - s]
                      /\ DonateYield(t, a, s).balanceOf = [t.balanceOf EXCEPT ![a] = @ - s]
                      /\ RedeemAVAX(t, a, s).balanceOf = [t.balanceOf EXCEPT ![a] = @ - s]
         /\ \A a, x : DepositAVAX(t, a, x).balanceOf
                        = [t.balanceOf EXCEPT ![a] = @ + ConvertToShares(t, x)]
         /\ \A a, c, s : TransferShares(t, a, c, s).balanceOf = Move(t.balanceOf, a, c, s)
         /\ \A x, y, bips : DepositFromStaking(t, x, y, bips).balanceOf = t.balanceOf
         /\ \A x, bips : DepositYield(t, x, bips).balanceOf = t.balanceOf
<1>1. t \in TokenStorage
  BY DEF VaultOK
<1>2. t.balanceOf \in [Accounts -> Nat] /\ t.balanceOf[Queue] \in Nat
  BY <1>1, QueueFacts, VaultFields
<1>3. \A a, s : /\ BurnShares(t, a, s).balanceOf = [t.balanceOf EXCEPT ![a] = @ - s]
                /\ DonateYield(t, a, s).balanceOf = [t.balanceOf EXCEPT ![a] = @ - s]
  BY <1>1 DEF BurnShares, DonateYield, TokenStorage
<1>4. \A a, s : RedeemAVAX(t, a, s).balanceOf = [t.balanceOf EXCEPT ![a] = @ - s]
  BY <1>1 DEF RedeemAVAX, PayOut, BurnShares, TokenStorage
<1>5. \A a, x : DepositAVAX(t, a, x).balanceOf
                  = [t.balanceOf EXCEPT ![a] = @ + ConvertToShares(t, x)]
  BY <1>1 DEF DepositAVAX, ReceiveDeposit, MintShares, TokenStorage
<1>6. \A a, c, s : TransferShares(t, a, c, s).balanceOf = Move(t.balanceOf, a, c, s)
  BY <1>1 DEF TransferShares, TokenStorage
<1>7. /\ \A x, y, bips : DepositFromStaking(t, x, y, bips).balanceOf = t.balanceOf
      /\ \A x, bips : DepositYield(t, x, bips).balanceOf = t.balanceOf
  BY <1>1 DEF DepositFromStaking, DepositYield, TokenStorage
<1>8. \A a, s : /\ BurnShares(t, a, s).balanceOf = [t.balanceOf EXCEPT ![a] = @ - s]
                /\ DonateYield(t, a, s).balanceOf = [t.balanceOf EXCEPT ![a] = @ - s]
                /\ RedeemAVAX(t, a, s).balanceOf = [t.balanceOf EXCEPT ![a] = @ - s]
  BY <1>3, <1>4, ZenonT(60)
<1> QED BY <1>2, <1>5, <1>6, <1>7, <1>8, ZenonT(60)

(* A transfer leaves the price as it is. *)
LEMMA TransferOK ==
  ASSUME NEW t, VaultOK(t), NEW a \in Accounts \ {Self}, NEW c \in Accounts,
         NEW s \in Nat, CanTransfer(t, a, s)
  PROVE  LET u == TransferShares(t, a, c, s)
         IN  /\ VaultOK(u) /\ PriceKept(t, u)
             /\ TotalAssets(u) = TotalAssets(t) /\ u.totalSupply = t.totalSupply
             /\ u.balanceOf = Move(t.balanceOf, a, c, s)
<1> DEFINE u == TransferShares(t, a, c, s)
<1>1. /\ VaultOK(u) /\ u.totalSupply = t.totalSupply
      /\ SameCycle(t, u) /\ SameAssets(t, u) /\ u.balanceOf = Move(t.balanceOf, a, c, s)
  BY TransferSharesOK DEF CanTransfer
<1> HIDE DEF u
<1>2. TotalAssets(t) \in Nat /\ t.totalReleasedAssets \in Nat
  BY TotalAssetsBounds, VaultFields DEF VaultOK
<1>3. u.totalReleasedAssets = t.totalReleasedAssets
  BY <1>1 DEF SameAssets
<1>4. TotalAssets(u) = TotalAssets(t)
  BY <1>1, <1>2, <1>3, TotalAssetsShift
<1>5. PriceKept(t, u)
  BY <1>1, <1>4, NothingMoves
<1> QED BY <1>1, <1>4, <1>5 DEF u

(* requestUnstake: the shares are worth what is promised for them. *)
LEMMA RequestOK ==
  ASSUME NEW t, NEW q, NEW k, WorldOK(t, q, k), NEW a \in Accounts \ {Self, Queue},
         NEW b \in Accounts, NEW s \in Nat \ {0}, NEW delay \in Nat,
         CanRequestUnstake(World(t, q), a, s, delay), q.nextRequestId \in Ids, k \in [Ids -> Nat]
  PROVE  LET n == q.nextRequestId
             u == RequestUnstake(World(t, q), a, b, s, delay)
             x == u.queue.requests[n].expectedAssets
         IN  /\ WorldOK(u.token, u.queue, [k EXCEPT ![n] = x])
             /\ x \in Nat \ {0} /\ n \notin Live(q)
             /\ u.queue.nextRequestId = n + 1
             /\ u.queue.pendingRequests = q.pendingRequests \cup {n}
             /\ u.queue.fulfilledRequests = q.fulfilledRequests
             /\ u.queue.totalAllocatedFunds = q.totalAllocatedFunds
<1> DEFINE n == q.nextRequestId
           w == World(t, q)
           req == NewRequest(w, b, s, delay)
           u == RequestUnstake(w, a, b, s, delay)
           m == [q.requests EXCEPT ![n] = req]
           o == [q.requestsByOwner EXCEPT ![b] = @ \cup {n}]
           p == q.pendingRequests \cup {n}
           f == q.fulfilledRequests
           d == Append(q.pendingRequestsQueue, n)
           x == ConvertToAssets(t, s)
           k2 == [k EXCEPT ![n] = x]
           v == Put(q, q.balance, q.totalAllocatedFunds, n + 1, m, p, f, d, o)
           y == TransferShares(t, a, Queue, s)
<1>1. /\ VaultOK(t) /\ AtPar(t) /\ QueueOK(q, k) /\ q \in QueueStorage
      /\ now \in Nat /\ CanTransfer(t, a, s) /\ b \in Owners /\ n \in Ids /\ n \in Nat
  BY QueueFields DEF WorldOK, QueueOK, VaultOK, CanRequestUnstake, World, Owners
<1>2. u.token = y /\ u.queue = v
  <2>1. w.token = t /\ w.queue = q
    BY DEF World
  <2> HIDE DEF w
  <2>2. /\ u.token = y
        /\ u.queue = [q EXCEPT !.nextRequestId = n + 1,
                               !.requests[n] = req,
                               !.requestsByOwner[b] = @ \cup {n},
                               !.pendingRequests = @ \cup {n},
                               !.pendingRequestsQueue = Append(@, n)]
    <3> HIDE DEF req
    <3> QED BY <2>1 DEF RequestUnstake, World, req
  <2> HIDE DEF req
  <2>3. u.queue = [q EXCEPT !.nextRequestId = n + 1, !.requests = m, !.requestsByOwner = o,
                            !.pendingRequests = @ \cup {n}, !.pendingRequestsQueue = d]
    <3> HIDE DEF u
    <3> QED BY <1>1, <2>2, QueueFields
  <2> HIDE DEF m, o, d, u, y
  <2>4. u.queue = v
    <3> HIDE DEF n
    <3> QED BY <1>1, <2>3, QueueFields DEF Put
  <2> QED BY <2>2, <2>4
<1>3. /\ x \in Nat /\ x >= s /\ WorthIt(t, s, x)
  BY <1>1, Market
<1>4. /\ req \in UnstakeRequest /\ req.requester = b /\ req.shares = s
      /\ req.expectedAssets = x /\ req.allocatedFunds = 0
  <2>1. now + q.unstakeDelay \in Nat /\ ExpirationDelay(delay) \in Nat
    <3>1. q.unstakeDelay \in Nat
      BY <1>1, QueueFields
    <3>2. ExpirationDelay(delay) \in Nat
      BY QueueFacts DEF ExpirationDelay
    <3> QED BY <1>1, <3>1, <3>2
  <2>2. w.queue = q /\ w.token = t
    BY DEF World
  <2> HIDE DEF w, x
  <2>3. x = ConvertToAssets(t, s)
    BY DEF x
  <2> QED BY <1>1, <1>3, <2>1, <2>2, <2>3 DEF NewRequest, UnstakeRequest
<1> HIDE DEF req, w, x, u
<1>5. /\ m \in [Ids -> UnstakeRequest] /\ o \in [Owners -> SUBSET Ids]
      /\ p \in SUBSET Ids /\ f \in SUBSET Ids /\ d \in Seq(Ids)
      /\ q.balance \in Nat /\ q.totalAllocatedFunds \in Nat /\ n + 1 \in Nat
  BY <1>1, <1>4, QueueFields
<1>6. Added(q, n, req, v)
  <2>1. o = [q.requestsByOwner EXCEPT ![req.requester] = @ \cup {n}]
    BY <1>4
  <2> HIDE DEF m, o, p, f, d, n, v
  <2>2. /\ v \in QueueStorage
        /\ v.balance = q.balance /\ v.totalAllocatedFunds = q.totalAllocatedFunds
        /\ v.nextRequestId = n + 1
        /\ v.requests = m /\ v.pendingRequests = p /\ v.fulfilledRequests = f
        /\ v.pendingRequestsQueue = d /\ v.requestsByOwner = o
    BY <1>1, <1>5 DEF v, Put, QueueStorage
  <2>3. /\ m = [q.requests EXCEPT ![n] = req] /\ p = q.pendingRequests \cup {n}
        /\ f = q.fulfilledRequests /\ d = Append(q.pendingRequestsQueue, n)
    BY DEF m, p, f, d, n
  <2> QED BY <2>1, <2>2, <2>3 DEF Added
<1> HIDE DEF v, k2
<1>7. PromisedFor(k, n, req, k2)
  <2>1. k2[n] = x /\ x > 0 /\ \A i \in Ids \ {n} : k2[i] = k[i]
    BY <1>1, <1>3 DEF k2
  <2> QED BY <1>1, <1>3, <1>4, <2>1 DEF PromisedFor
<1>8. /\ QueueOK(v, k2) /\ SharesPending(v) = SharesPending(q) + s
      /\ v.requests[n] = req /\ n \notin Live(q)
      /\ \A i \in q.pendingRequests : v.requests[i] = q.requests[i]
  <2> HIDE DEF n, m, o, p, f, d
  <2>1. n \in Ids /\ n = q.nextRequestId
    BY <1>1 DEF n
  <2>2. /\ QueueOK(v, k2)
        /\ SharesPending(v) = SharesPending(q) + req.shares
        /\ v.requests[n] = req /\ n \notin Live(q)
        /\ \A i \in q.pendingRequests : v.requests[i] = q.requests[i]
    BY <1>1, <1>6, <1>7, <2>1, AddOK
  <2> QED BY <1>4, <2>2
<1>9. /\ VaultOK(y) /\ PriceKept(t, y)
      /\ TotalAssets(y) = TotalAssets(t) /\ y.totalSupply = t.totalSupply
      /\ y.balanceOf[Queue] = t.balanceOf[Queue] + s
  <2>1. /\ VaultOK(y) /\ PriceKept(t, y)
        /\ TotalAssets(y) = TotalAssets(t) /\ y.totalSupply = t.totalSupply
        /\ y.balanceOf = Move(t.balanceOf, a, Queue, s)
    BY <1>1, QueueFacts, TransferOK
  <2>2. t.balanceOf \in [Accounts -> Nat]
    BY <1>1, SharesOfQueue
  <2> QED BY <2>1, <2>2, QueueFacts, MoveOfQueue
<1> HIDE DEF y
<1>10. y.balanceOf[Queue] >= SharesPending(v)
  <2>1. t.balanceOf[Queue] >= SharesPending(q)
    BY DEF WorldOK
  <2>2. t.balanceOf[Queue] \in Nat /\ SharesPending(q) \in Nat
    BY <1>1, SharesOfQueue, QueueSums
  <2> QED BY <1>8, <1>9, <2>1, <2>2
<1>11. WorthIt(y, v.requests[n].shares, v.requests[n].expectedAssets)
  BY <1>3, <1>4, <1>8, <1>9 DEF WorthIt
<1>12. \A i \in v.pendingRequests :
          \/ i \in q.pendingRequests /\ v.requests[i] = q.requests[i]
          \/ WorthIt(y, v.requests[i].shares, v.requests[i].expectedAssets)
  BY <1>6, <1>8, <1>11 DEF Added
<1>13. WorldOK(y, v, k2)
  BY <1>8, <1>9, <1>10, <1>12, WorldStep
<1>14. v.requests[n].expectedAssets = x
  BY <1>4, <1>8
<1>15. /\ WorldOK(u.token, u.queue, [k EXCEPT ![n] = u.queue.requests[n].expectedAssets])
       /\ u.queue.requests[n].expectedAssets \in Nat \ {0} /\ n \notin Live(q)
       /\ u.queue.nextRequestId = n + 1
       /\ u.queue.pendingRequests = q.pendingRequests \cup {n}
       /\ u.queue.fulfilledRequests = q.fulfilledRequests
       /\ u.queue.totalAllocatedFunds = q.totalAllocatedFunds
  <2>1. k2 = [k EXCEPT ![n] = x] /\ x \in Nat \ {0}
    BY <1>3 DEF k2
  <2> QED BY <1>2, <1>6, <1>8, <1>13, <1>14, <2>1 DEF Added
<1> QED BY <1>15 DEF u, w

-----------------------------------------------------------------------------
(* Requests that end *)

(* A pending request that ends is removed, as RemoveOK asks. *)
LEMMA DropPendingRemoves ==
  ASSUME NEW q, NEW k, QueueOK(q, k), NEW r \in q.pendingRequests
  PROVE  /\ Removed(q, r, DropPending(q, r)) /\ r \in Live(q)
         /\ DropPending(q, r).balance = q.balance
<1> DEFINE u == DropPending(q, r)
           m == [q.requests EXCEPT ![r] = NoRequest]
           o == [q.requestsByOwner EXCEPT ![q.requests[r].requester] = @ \ {r}]
           p == q.pendingRequests \ {r}
<1>1. /\ q \in QueueStorage /\ r \in Ids /\ r \in Live(q) /\ r \notin q.fulfilledRequests
      /\ q.requests[r].requester \in Owners /\ q.requests[r].allocatedFunds = 0
      /\ q.totalAllocatedFunds \in Nat /\ q.balance >= q.totalAllocatedFunds
  BY QueueFields, RequestFields DEF QueueOK, Listed, Entitled, Funded, Live
<1>2. u = [q EXCEPT !.requestsByOwner = o, !.requests = m, !.pendingRequests = p]
  <2>1. Delete(q, r) = [q EXCEPT !.requestsByOwner = o, !.requests = m]
    BY <1>1, QueueFields DEF Delete
  <2> HIDE DEF o, m
  <2>2. Delete(q, r).pendingRequests = q.pendingRequests
    BY <1>1, <2>1, QueueFields
  <2> QED BY <1>1, <2>1, <2>2, QueueFields DEF DropPending
<1>3. m \in [Ids -> UnstakeRequest] /\ o \in [Owners -> SUBSET Ids] /\ p \in SUBSET Ids
  BY <1>1, QueueFields, NoRequestFields
<1> HIDE DEF u, m, o, p
<1>4. /\ u \in QueueStorage /\ u.requests = m /\ u.requestsByOwner = o
      /\ u.pendingRequests = p /\ u.fulfilledRequests = q.fulfilledRequests
      /\ u.pendingRequestsQueue = q.pendingRequestsQueue
      /\ u.nextRequestId = q.nextRequestId
      /\ u.totalAllocatedFunds = q.totalAllocatedFunds /\ u.balance = q.balance
  BY <1>1, <1>2, <1>3 DEF QueueStorage
<1>5. /\ u.fulfilledRequests = q.fulfilledRequests \ {r}
      /\ u.totalAllocatedFunds = q.totalAllocatedFunds - q.requests[r].allocatedFunds
      /\ u.balance >= u.totalAllocatedFunds
  BY <1>1, <1>4
<1>6. Removed(q, r, u)
  BY <1>4, <1>5 DEF Removed, m, o, p
<1> QED BY <1>1, <1>4, <1>6 DEF u

(* The queue after a fulfilled request has left with its AVAX: claimed, or *)
(* bought back.                                                            *)
LEMMA ClaimRemoves ==
  ASSUME NEW q, NEW k, QueueOK(q, k), NEW r \in q.fulfilledRequests
  PROVE  /\ Removed(q, r, Claim(q, r)) /\ r \in Live(q) /\ r \notin q.pendingRequests
         /\ q.requests[r].allocatedFunds \in Nat
<1> DEFINE u == Claim(q, r)
           a == q.requests[r].allocatedFunds
           m == [q.requests EXCEPT ![r] = NoRequest]
           o == [q.requestsByOwner EXCEPT ![q.requests[r].requester] = @ \ {r}]
           f == q.fulfilledRequests \ {r}
           l == q.totalAllocatedFunds - a
           b == q.balance - a
<1>1. /\ q \in QueueStorage /\ r \in Ids /\ r \in Live(q) /\ r \notin q.pendingRequests
      /\ q.requests[r].requester \in Owners /\ a \in Nat
      /\ q.totalAllocatedFunds \in Nat /\ q.balance \in Nat
      /\ q.balance >= q.totalAllocatedFunds
      /\ q.totalAllocatedFunds = Allocated(q)
  BY QueueFields, RequestFields DEF QueueOK, Listed, Funded, Live
<1>2. a <= Allocated(q)
  BY <1>1, QueueSums
<1>3. u = [q EXCEPT !.requestsByOwner = o, !.requests = m, !.fulfilledRequests = f,
                    !.totalAllocatedFunds = l, !.balance = b]
  <2>1. Delete(q, r) = [q EXCEPT !.requestsByOwner = o, !.requests = m]
    BY <1>1, QueueFields DEF Delete
  <2> HIDE DEF o, m, a
  <2>2. /\ Delete(q, r).fulfilledRequests = q.fulfilledRequests
        /\ Delete(q, r).totalAllocatedFunds = q.totalAllocatedFunds
    BY <1>1, <2>1, QueueFields
  <2>3. DropFulfilled(q, r)
          = [q EXCEPT !.requestsByOwner = o, !.requests = m, !.fulfilledRequests = f,
                      !.totalAllocatedFunds = l]
    BY <1>1, <2>1, <2>2, QueueFields DEF DropFulfilled, a
  <2>4. DropFulfilled(q, r).balance = q.balance
    BY <1>1, <2>3, QueueFields
  <2> QED BY <1>1, <2>3, <2>4, QueueFields DEF Claim, a
<1>4. /\ m \in [Ids -> UnstakeRequest] /\ o \in [Owners -> SUBSET Ids] /\ f \in SUBSET Ids
  BY <1>1, QueueFields, NoRequestFields
<1>5. l \in Nat /\ b \in Nat /\ b >= l
  BY <1>1, <1>2
<1> HIDE DEF u, m, o, f, l, b, a
<1>6. /\ u \in QueueStorage /\ u.requests = m /\ u.requestsByOwner = o
      /\ u.fulfilledRequests = f /\ u.pendingRequests = q.pendingRequests
      /\ u.pendingRequestsQueue = q.pendingRequestsQueue
      /\ u.nextRequestId = q.nextRequestId
      /\ u.totalAllocatedFunds = l /\ u.balance = b
  BY <1>1, <1>3, <1>4, <1>5 DEF QueueStorage
<1>7. u.pendingRequests = q.pendingRequests \ {r}
  BY <1>1, <1>6
<1>8. Removed(q, r, u)
  BY <1>5, <1>6, <1>7 DEF Removed, m, o, f, l, a
<1> QED BY <1>1, <1>8 DEF u, a

(* What one request less means to the two contracts *)
LEMMA RemoveFromWorld ==
  ASSUME NEW t, NEW q, NEW k, WorldOK(t, q, k), NEW r \in Live(q), NEW v, Removed(q, r, v),
         NEW u, VaultOK(u), PriceKept(t, u), u.balanceOf[Queue] >= SharesPending(v)
  PROVE  WorldOK(u, v, k)
<1>1. QueueOK(q, k)
  BY DEF WorldOK
<1>2. QueueOK(v, k) /\ \A x \in v.pendingRequests :
                         x \in q.pendingRequests /\ v.requests[x] = q.requests[x]
  BY <1>1, RemoveOK
<1> QED BY <1>2, WorldStep

(* The shares a request that ends frees *)
LEMMA SharesFreed ==
  ASSUME NEW t, NEW q, NEW k, WorldOK(t, q, k), NEW r \in Live(q), NEW v, Removed(q, r, v)
  PROVE  /\ SharesPending(v) \in Nat /\ t.balanceOf[Queue] \in Nat
         /\ t.balanceOf[Queue] >= SharesPending(v)
         /\ r \in q.pendingRequests =>
              /\ q.requests[r].shares \in Nat \ {0} /\ q.requests[r].expectedAssets \in Nat
              /\ t.balanceOf[Queue] - q.requests[r].shares >= SharesPending(v)
              /\ WorthIt(t, q.requests[r].shares, q.requests[r].expectedAssets)
         /\ q.requests[r].requester \in Accounts /\ r \in Ids
<1>1. /\ QueueOK(q, k) /\ VaultOK(t) /\ q \in QueueStorage /\ r \in Ids
      /\ t.balanceOf[Queue] >= SharesPending(q)
  BY QueueFields DEF WorldOK, QueueOK, Live
<1>2. v \in QueueStorage
  BY DEF Removed
<1>3. /\ SharesPending(q) \in Nat /\ SharesPending(v) \in Nat /\ t.balanceOf[Queue] \in Nat
  BY <1>1, <1>2, QueueSums, SharesOfQueue
<1>4. SharesPending(v)
        = SharesPending(q) - (IF r \in q.pendingRequests THEN q.requests[r].shares ELSE 0)
  BY <1>1, RemoveOK
<1>5. /\ q.requests[r].shares \in Nat \ {0} /\ q.requests[r].expectedAssets \in Nat
      /\ q.requests[r].requester \in Accounts
  BY <1>1, QueueFields, RequestFields DEF QueueOK, Listed
<1>6. r \in q.pendingRequests
        => WorthIt(t, q.requests[r].shares, q.requests[r].expectedAssets)
  BY DEF WorldOK
<1> QED BY <1>1, <1>3, <1>4, <1>5, <1>6

(* claimUnstake *)
LEMMA ClaimOK ==
  ASSUME NEW t, NEW q, NEW k, WorldOK(t, q, k), NEW r \in q.fulfilledRequests
  PROVE  WorldOK(t, Claim(q, r), k) /\ Removed(q, r, Claim(q, r))
<1> DEFINE v == Claim(q, r)
<1>1. Removed(q, r, v) /\ r \in Live(q)
  BY ClaimRemoves DEF WorldOK
<1> HIDE DEF v
<1>2. VaultOK(t) /\ PriceKept(t, t)
  BY NothingMoves DEF WorldOK
<1>3. t.balanceOf[Queue] >= SharesPending(v)
  BY <1>1, SharesFreed
<1>4. WorldOK(t, v, k)
  BY <1>1, <1>2, <1>3, RemoveFromWorld
<1> QED BY <1>1, <1>4 DEF v

(* The AVAX of a request buys shares, and its requester gets them. *)
LEMMA BuyBackOK ==
  ASSUME NEW t, NEW q, NEW k, WorldOK(t, q, k), NEW r \in q.fulfilledRequests,
         CanBuyBack(World(t, q), r)
  PROVE  LET u == BuyBack(World(t, q), r)
         IN  WorldOK(u.token, u.queue, k) /\ Removed(q, r, u.queue)
<1> DEFINE u == BuyBack(World(t, q), r)
           x == q.requests[r].allocatedFunds
           c == q.requests[r].requester
           s == ConvertToShares(t, x)
           y == DepositAVAX(t, Queue, x)
           z == TransferShares(y, Queue, c, s)
           v == Claim(q, r)
<1>1. u.token = z /\ u.queue = v /\ CanDepositAVAX(t, x)
  BY DEF BuyBack, CanBuyBack, World, Claim
<1>2. /\ Removed(q, r, v) /\ r \in Live(q) /\ x \in Nat /\ VaultOK(t) /\ c \in Accounts
      /\ t.balanceOf[Queue] >= SharesPending(v) /\ SharesPending(v) \in Nat
      /\ t.balanceOf[Queue] \in Nat /\ Queue \in Accounts \ {Self}
  <2>1. Removed(q, r, v) /\ r \in Live(q) /\ x \in Nat
    BY ClaimRemoves DEF WorldOK
  <2> HIDE DEF v, x
  <2> QED BY <2>1, SharesFreed, QueueFacts DEF WorldOK
<1> HIDE DEF u, v, x
<1>3. /\ VaultOK(y) /\ PriceKept(t, y) /\ s \in Nat
  BY <1>1, <1>2, DepositAVAXOK
<1>4. y.balanceOf[Queue] = t.balanceOf[Queue] + s
  <2>1. /\ t.balanceOf \in [Accounts -> Nat]
        /\ y.balanceOf = [t.balanceOf EXCEPT ![Queue] = @ + s]
    BY <1>2, SharesOfQueue
  <2> HIDE DEF y, s
  <2> QED BY <1>2, <2>1
<1> HIDE DEF y, s
<1>5. WorldOK(y, v, k)
  <2>1. y.balanceOf[Queue] >= SharesPending(v)
    BY <1>2, <1>3, <1>4
  <2> QED BY <1>2, <1>3, <2>1, RemoveFromWorld
<1>6. CanTransfer(y, Queue, s)
  BY <1>2, <1>3, <1>4 DEF CanTransfer
<1>7. /\ VaultOK(z) /\ PriceKept(y, z) /\ z.balanceOf = Move(y.balanceOf, Queue, c, s)
  BY <1>2, <1>3, <1>6, TransferOK
<1>8. z.balanceOf[Queue] >= SharesPending(v)
  <2>1. y.balanceOf \in [Accounts -> Nat]
    BY <1>3, SharesOfQueue
  <2>2. z.balanceOf[Queue] >= y.balanceOf[Queue] - s
    BY <1>2, <1>3, <1>7, <2>1, MoveOfQueue
  <2>3. z.balanceOf[Queue] \in Nat
    BY <1>7, SharesOfQueue
  <2> QED BY <1>2, <1>3, <1>4, <2>2, <2>3
<1> HIDE DEF z
<1>9. QueueOK(v, k)
  BY <1>5 DEF WorldOK
<1>10. WorldOK(z, v, k)
  BY <1>5, <1>7, <1>8, <1>9, WorldStep
<1> QED BY <1>1, <1>2, <1>10 DEF u

(* Shares of a request that still waits go to whoever is to have them. *)
LEMMA ReturnOK ==
  ASSUME NEW t, NEW q, NEW k, WorldOK(t, q, k), NEW c \in Accounts, NEW s \in Nat,
         t.balanceOf[Queue] - s >= SharesPending(q), SharesPending(q) \in Nat
  PROVE  WorldOK(TransferShares(t, Queue, c, s), q, k)
<1> DEFINE z == TransferShares(t, Queue, c, s)
<1>1. /\ VaultOK(t) /\ QueueOK(q, k) /\ Queue \in Accounts \ {Self}
      /\ t.balanceOf \in [Accounts -> Nat] /\ t.balanceOf[Queue] \in Nat
  BY QueueFacts, SharesOfQueue DEF WorldOK
<1>2. CanTransfer(t, Queue, s)
  BY <1>1 DEF CanTransfer
<1>3. /\ VaultOK(z) /\ PriceKept(t, z) /\ z.balanceOf = Move(t.balanceOf, Queue, c, s)
  BY <1>1, <1>2, TransferOK
<1>4. z.balanceOf[Queue] >= t.balanceOf[Queue] - s
  BY <1>1, <1>3, MoveOfQueue
<1>5. z.balanceOf[Queue] \in Nat
  BY <1>3, SharesOfQueue
<1> HIDE DEF z
<1>6. z.balanceOf[Queue] >= SharesPending(q)
  BY <1>1, <1>4, <1>5
<1>7. WorldOK(z, q, k)
  BY <1>1, <1>3, <1>6, WorldStep
<1> QED BY <1>7 DEF z

(* The excess shares of a request that waits burn. *)
LEMMA BurnOK ==
  ASSUME NEW t, NEW q, NEW k, WorldOK(t, q, k), NEW s \in Nat,
         t.balanceOf[Queue] - s >= SharesPending(q), SharesPending(q) \in Nat,
         CanDonateYield(t, Queue, s)
  PROVE  /\ WorldOK(DonateYield(t, Queue, s), q, k)
         /\ DonateYield(t, Queue, s).balanceOf[Queue] = t.balanceOf[Queue] - s
<1> DEFINE z == DonateYield(t, Queue, s)
<1>1. /\ VaultOK(t) /\ QueueOK(q, k) /\ Queue \in Accounts \ {Self}
      /\ t.balanceOf \in [Accounts -> Nat] /\ t.balanceOf[Queue] \in Nat
  BY QueueFacts, SharesOfQueue DEF WorldOK
<1>2. VaultOK(z) /\ PriceKept(t, z)
  BY <1>1, DonateYieldOK
<1>3. z.balanceOf[Queue] = t.balanceOf[Queue] - s
  <2>1. z.balanceOf = [t.balanceOf EXCEPT ![Queue] = @ - s]
    <3>1. t \in TokenStorage
      BY <1>1 DEF VaultOK
    <3> QED BY <3>1 DEF DonateYield, BurnShares, TokenStorage
  <2> HIDE DEF z
  <2> QED BY <1>1, <2>1
<1> HIDE DEF z
<1>4. z.balanceOf[Queue] >= SharesPending(q)
  BY <1>3
<1>5. WorldOK(z, q, k)
  BY <1>1, <1>2, <1>4, WorldStep
<1> QED BY <1>3, <1>5 DEF z

(* A pending request goes from the indexes before its shares do. *)
LEMMA DropPendingOK ==
  ASSUME NEW t, NEW q, NEW k, WorldOK(t, q, k), NEW r \in q.pendingRequests
  PROVE  LET v == DropPending(q, r)
         IN  /\ WorldOK(t, v, k) /\ Removed(q, r, v)
             /\ SharesPending(v) \in Nat /\ t.balanceOf[Queue] \in Nat
             /\ q.requests[r].shares \in Nat \ {0} /\ q.requests[r].expectedAssets \in Nat
             /\ t.balanceOf[Queue] - q.requests[r].shares >= SharesPending(v)
             /\ WorthIt(t, q.requests[r].shares, q.requests[r].expectedAssets)
             /\ q.requests[r].requester \in Accounts
<1> DEFINE v == DropPending(q, r)
<1>1. Removed(q, r, v) /\ r \in Live(q)
  BY DropPendingRemoves DEF WorldOK
<1> HIDE DEF v
<1>2. VaultOK(t) /\ PriceKept(t, t)
  BY NothingMoves DEF WorldOK
<1>3. /\ SharesPending(v) \in Nat /\ t.balanceOf[Queue] \in Nat
      /\ t.balanceOf[Queue] >= SharesPending(v)
      /\ q.requests[r].shares \in Nat \ {0} /\ q.requests[r].expectedAssets \in Nat
      /\ t.balanceOf[Queue] - q.requests[r].shares >= SharesPending(v)
      /\ WorthIt(t, q.requests[r].shares, q.requests[r].expectedAssets)
      /\ q.requests[r].requester \in Accounts
  BY <1>1, SharesFreed
<1>4. WorldOK(t, v, k)
  BY <1>1, <1>2, <1>3, RemoveFromWorld
<1> QED BY <1>1, <1>3, <1>4 DEF v

(* reclaimExpiredRequest of a pending request *)
LEMMA ReclaimPendingOK ==
  ASSUME NEW t, NEW q, NEW k, WorldOK(t, q, k), NEW r \in q.pendingRequests
  PROVE  LET v == DropPending(q, r)
         IN  /\ WorldOK(TransferShares(t, Queue, q.requests[r].requester,
                                       q.requests[r].shares), v, k)
             /\ Removed(q, r, v)
<1> DEFINE v == DropPending(q, r)
           c == q.requests[r].requester
           s == q.requests[r].shares
<1>1. /\ WorldOK(t, v, k) /\ Removed(q, r, v) /\ SharesPending(v) \in Nat
      /\ s \in Nat /\ c \in Accounts /\ t.balanceOf[Queue] - s >= SharesPending(v)
  BY DropPendingOK
<1> HIDE DEF v, c, s
<1>2. WorldOK(TransferShares(t, Queue, c, s), v, k)
  BY <1>1, ReturnOK
<1> QED BY <1>1, <1>2 DEF v, c, s

(* cancelRequest of a pending request *)
LEMMA CancelPendingOK ==
  ASSUME NEW t, NEW q, NEW k, WorldOK(t, q, k), NEW r \in q.pendingRequests,
         CanCancelPending(World(t, q), r)
  PROVE  LET u == CancelPending(World(t, q), r)
         IN  WorldOK(u.token, u.queue, k) /\ Removed(q, r, u.queue)
<1> DEFINE w == World(t, q)
           u == CancelPending(w, r)
           v == DropPending(q, r)
           c == q.requests[r].requester
           s == q.requests[r].shares
           e == q.requests[r].expectedAssets
           h == ConvertToShares(t, e)
           b == s - h
           y == AfterBurn(w, r)
<1>1. /\ WorldOK(t, v, k) /\ Removed(q, r, v) /\ SharesPending(v) \in Nat
      /\ t.balanceOf[Queue] \in Nat
      /\ s \in Nat \ {0} /\ c \in Accounts /\ t.balanceOf[Queue] - s >= SharesPending(v)
      /\ e \in Nat /\ WorthIt(t, s, e)
  BY DropPendingOK
<1>2. w.token = t /\ w.queue = q
  BY DEF World
<1> HIDE DEF w
<1>3. SharesToReturn(w, r) = h /\ SharesToBurn(w, r) = b
  BY <1>2 DEF SharesToReturn, SharesToBurn
<1>4. /\ u.token = TransferShares(y, Queue, c, h) /\ u.queue = v
      /\ y = (IF b > 0 THEN DonateYield(t, Queue, b) ELSE t)
      /\ b > 0 => CanDonateYield(t, Queue, b)
  <2> HIDE DEF y, v, b, h
  <2>1. y = IF b > 0 THEN DonateYield(t, Queue, b) ELSE t
    BY <1>2, <1>3 DEF AfterBurn, y
  <2>2. b > 0 => CanDonateYield(t, Queue, b)
    BY <1>2, <1>3, w = World(t, q) DEF CanCancelPending, w
  <2>3. u.token = TransferShares(y, Queue, c, h) /\ u.queue = v
    BY <1>2, <1>3 DEF CancelPending, World, y, v
  <2> QED BY <2>1, <2>2, <2>3
<1>5. h \in Nat /\ h <= s
  <2>1. VaultOK(t) /\ AtPar(t)
    BY DEF WorldOK
  <2> HIDE DEF s, e
  <2>2. s \in Nat
    BY <1>1
  <2>3. h <= s
    BY <1>1, <2>1, <2>2, Market
  <2>4. h \in Nat
    BY <1>1, <2>1, Market
  <2> QED BY <2>3, <2>4
<1> HIDE DEF u, v, c, s, e, h, y
<1>6. b \in Nat /\ b + h = s
  BY <1>1, <1>5
<1> HIDE DEF b
<1>7. WorldOK(y, v, k) /\ y.balanceOf[Queue] - h >= SharesPending(v)
  <2>1. CASE b > 0
    <3>1. t.balanceOf[Queue] - b >= SharesPending(v)
      BY <1>1, <1>5, <1>6
    <3>2. WorldOK(y, v, k) /\ y.balanceOf[Queue] = t.balanceOf[Queue] - b
      BY <1>1, <1>4, <1>6, <2>1, <3>1, BurnOK
    <3> QED BY <1>1, <1>5, <1>6, <3>2
  <2>2. CASE ~(b > 0)
    BY <1>1, <1>4, <1>5, <1>6, <2>2
  <2> QED BY <2>1, <2>2
<1>8. WorldOK(TransferShares(y, Queue, c, h), v, k)
  BY <1>1, <1>5, <1>7, ReturnOK
<1> QED BY <1>1, <1>4, <1>8 DEF u, w

(* cancelRequest and reclaimExpiredRequest *)
LEMMA CancelOK ==
  ASSUME NEW t, NEW q, NEW k, WorldOK(t, q, k), NEW r, NEW a,
         CanCancel(World(t, q), a, r)
  PROVE  LET u == Cancel(World(t, q), r)
         IN  WorldOK(u.token, u.queue, k) /\ Removed(q, r, u.queue) /\ r \in Live(q)
<1> DEFINE w == World(t, q)
           u == Cancel(w, r)
<1>1. w.queue = q /\ q.pendingRequests \cap q.fulfilledRequests = {}
  BY DEF World, WorldOK, QueueOK, Listed
<1> HIDE DEF w
<1>2. CASE r \in q.pendingRequests
  <2>1. CanCancelPending(w, r)
    <3>1. CanCancelPending(w, r) \/ CanCancelFulfilled(w, r)
      BY DEF CanCancel, w
    <3>2. ~CanCancelFulfilled(w, r)
      BY <1>1, <1>2 DEF CanCancelFulfilled
    <3> QED BY <3>1, <3>2
  <2>2. u = CancelPending(w, r)
    BY <1>1, <1>2 DEF Cancel
  <2> HIDE DEF u
  <2>3. /\ WorldOK(CancelPending(w, r).token, CancelPending(w, r).queue, k)
        /\ Removed(q, r, CancelPending(w, r).queue)
    BY <1>2, <2>1, CancelPendingOK DEF w
  <2>4. r \in Live(q)
    BY <1>2 DEF Live
  <2> QED BY <2>2, <2>3, <2>4 DEF u, w
<1>3. CASE r \notin q.pendingRequests
  <2>1. r \in q.fulfilledRequests /\ CanBuyBack(w, r)
    <3>1. CanCancelPending(w, r) \/ CanCancelFulfilled(w, r)
      BY DEF CanCancel, w
    <3>2. ~CanCancelPending(w, r)
      BY <1>1, <1>3 DEF CanCancelPending
    <3> QED BY <1>1, <3>1, <3>2 DEF CanCancelFulfilled
  <2>2. u = BuyBack(w, r)
    BY <1>1, <1>3 DEF Cancel
  <2> HIDE DEF u
  <2>3. /\ WorldOK(BuyBack(w, r).token, BuyBack(w, r).queue, k)
        /\ Removed(q, r, BuyBack(w, r).queue)
    BY <2>1, BuyBackOK DEF w
  <2>4. r \in Live(q)
    BY <2>1 DEF Live
  <2> QED BY <2>2, <2>3, <2>4 DEF u, w
<1> QED BY <1>2, <1>3

(* reclaimExpiredRequest leaves the two contracts in order. *)
LEMMA ReclaimOK ==
  ASSUME NEW t, NEW q, NEW k, WorldOK(t, q, k), NEW r, CanReclaim(World(t, q), r)
  PROVE  LET u == Reclaim(World(t, q), r)
         IN  WorldOK(u.token, u.queue, k) /\ Removed(q, r, u.queue) /\ r \in Live(q)
<1> DEFINE w == World(t, q)
           u == Reclaim(w, r)
<1>1. w.queue = q /\ w.token = t /\ q.pendingRequests \cap q.fulfilledRequests = {}
  BY DEF World, WorldOK, QueueOK, Listed
<1> HIDE DEF w
<1>2. CASE r \in q.fulfilledRequests
  <2>1. CanBuyBack(w, r)
    <3>1. CanReclaim(w, r)
      BY DEF w
    <3> QED BY <1>1, <1>2, <3>1 DEF CanReclaim
  <2>2. u = BuyBack(w, r)
    BY <1>1, <1>2 DEF Reclaim
  <2> HIDE DEF u
  <2>3. /\ WorldOK(BuyBack(w, r).token, BuyBack(w, r).queue, k)
        /\ Removed(q, r, BuyBack(w, r).queue)
    BY <1>2, <2>1, BuyBackOK DEF w
  <2>4. r \in Live(q)
    BY <1>2 DEF Live
  <2> QED BY <2>2, <2>3, <2>4 DEF u, w
<1>3. CASE r \notin q.fulfilledRequests
  <2> DEFINE y == TransferShares(t, Queue, q.requests[r].requester, q.requests[r].shares)
             v == DropPending(q, r)
  <2>1. r \in q.pendingRequests
    <3>1. CanReclaim(w, r)
      BY DEF w
    <3> QED BY <1>1, <1>3, <3>1 DEF CanReclaim
  <2>2. WorldOK(y, v, k) /\ Removed(q, r, v)
    BY <2>1, ReclaimPendingOK
  <2>3. u.token = y /\ u.queue = v
    BY <1>1, <1>3 DEF Reclaim, World
  <2>4. r \in Live(q)
    BY <2>1 DEF Live
  <2> HIDE DEF u, y, v
  <2> QED BY <2>2, <2>3, <2>4 DEF u, w
<1> QED BY <1>2, <1>3

-----------------------------------------------------------------------------
(* What depositFromStaking does *)

(* One request gets its AVAX; what its shares bring beyond it stays over. *)
LEMMA FulfilOK ==
  ASSUME NEW t, NEW q, NEW k, WorldOK(t, q, k), NEW r \in q.pendingRequests,
         r = Head(q.pendingRequestsQueue), NEW x \in Nat,
         q.balance >= q.totalAllocatedFunds + x,
         CanRedeemAVAX(t, Queue, q.requests[r].shares),
         Redeemed(World(t, q), r) >= q.requests[r].expectedAssets
  PROVE  LET w == World(t, q)
             u == Fulfil(w, r)
             y == x + Redeemed(w, r) - q.requests[r].expectedAssets
         IN  /\ WorldOK(u.token, u.queue, k) /\ Fulfilled(q, r, u.queue)
             /\ \A i \in u.queue.pendingRequests : r < i
             /\ y \in Nat /\ u.queue.balance >= u.queue.totalAllocatedFunds + y
             /\ Redeemed(w, r) \in Nat
<1> DEFINE w == World(t, q)
           s == q.requests[r].shares
           e == q.requests[r].expectedAssets
           g == Redeemed(w, r)
           z == RedeemAVAX(t, Queue, s)
           u == Fulfil(w, r)
           m == [q.requests EXCEPT ![r].allocatedFunds = e]
           p == q.pendingRequests \ {r}
           f == q.fulfilledRequests \cup {r}
           d == Tail(q.pendingRequestsQueue)
           b == q.balance + g
           l == q.totalAllocatedFunds + e
           v == [q EXCEPT !.balance = b, !.totalAllocatedFunds = l, !.requests = m,
                          !.pendingRequests = p, !.pendingRequestsQueue = d,
                          !.fulfilledRequests = f]
<1>1. /\ VaultOK(t) /\ AtPar(t) /\ QueueOK(q, k) /\ q \in QueueStorage /\ r \in Ids
      /\ s \in Nat \ {0} /\ e \in Nat /\ q.requests \in [Ids -> UnstakeRequest]
      /\ q.pendingRequests \in SUBSET Ids /\ q.fulfilledRequests \in SUBSET Ids
      /\ q.balance \in Nat /\ q.totalAllocatedFunds \in Nat
      /\ t.balanceOf[Queue] >= SharesPending(q)
  <2>1. /\ VaultOK(t) /\ AtPar(t) /\ QueueOK(q, k) /\ q \in QueueStorage
        /\ t.balanceOf[Queue] >= SharesPending(q)
    BY DEF WorldOK, QueueOK
  <2>2. /\ q.requests \in [Ids -> UnstakeRequest]
        /\ q.pendingRequests \in SUBSET Ids /\ q.fulfilledRequests \in SUBSET Ids
        /\ q.balance \in Nat /\ q.totalAllocatedFunds \in Nat
    BY <2>1, QueueFields
  <2>3. r \in Ids /\ s \in Nat /\ e \in Nat
    BY <2>2, RequestFields
  <2>4. s > 0
    BY DEF WorldOK, QueueOK, Listed, Live
  <2> HIDE DEF s, e
  <2> QED BY <2>1, <2>2, <2>3, <2>4
<1>2. w.token = t /\ w.queue = q
  BY DEF World
<1>3. g \in Nat /\ g >= e
  <2>1. \A i \in Nat : ConvertToAssets(t, i) \in Nat
    BY <1>1, Market
  <2> HIDE DEF w
  <2>2. g = ConvertToAssets(t, s)
    BY <1>2 DEF Redeemed
  <2>3. g \in Nat
    BY <1>1, <2>1, <2>2
  <2>4. g >= e
    BY DEF w
  <2> QED BY <2>3, <2>4
<1>4. u.token = z /\ u.queue = v
  <2> HIDE DEF w
  <2>1. u.token = z
    BY <1>2 DEF Fulfil, World
  <2>2. u.queue = [q EXCEPT !.balance = @ + g, !.totalAllocatedFunds = @ + e,
                            !.requests[r].allocatedFunds = e,
                            !.pendingRequests = @ \ {r},
                            !.pendingRequestsQueue = Tail(@),
                            !.fulfilledRequests = @ \cup {r}]
    <3> HIDE DEF g
    <3> QED BY <1>2 DEF Fulfil, World, g
  <2> HIDE DEF e, g, u
  <2>3. u.queue = v
    BY <1>1, <2>2, QueueFields
  <2> QED BY <2>1, <2>3
<1>5. VaultOK(z) /\ PriceKept(t, z)
  <2>1. Queue \in Accounts \ {Self}
    BY QueueFacts
  <2> HIDE DEF s
  <2>2. CanRedeemAVAX(t, Queue, s)
    BY DEF s
  <2> QED BY <1>1, <2>1, <2>2, RedeemAVAXOK
<1>6. z.balanceOf[Queue] = t.balanceOf[Queue] - s /\ t.balanceOf[Queue] \in Nat
  <2>1. t \in TokenStorage /\ Queue \in Accounts
    BY <1>1, QueueFacts DEF VaultOK
  <2> HIDE DEF s
  <2>2. z.balanceOf = [t.balanceOf EXCEPT ![Queue] = @ - s]
    BY <2>1 DEF RedeemAVAX, PayOut, BurnShares, TokenStorage
  <2>3. t.balanceOf \in [Accounts -> Nat]
    BY <2>1, VaultFields
  <2> HIDE DEF z
  <2> QED BY <2>1, <2>2, <2>3
<1>7. /\ m \in [Ids -> UnstakeRequest] /\ p \in SUBSET Ids /\ f \in SUBSET Ids
      /\ d \in Seq(Ids) /\ b \in Nat /\ l \in Nat
  <2>1. d \in Seq(Ids)
    BY <1>1, DequeFront
  <2>2. m \in [Ids -> UnstakeRequest]
    <3> DEFINE req == [q.requests[r] EXCEPT !.allocatedFunds = e]
    <3>1. req \in UnstakeRequest
      BY <1>1 DEF UnstakeRequest
    <3>2. m = [q.requests EXCEPT ![r] = req]
      OBVIOUS
    <3>3. q.requests \in [Ids -> UnstakeRequest]
      BY <1>1
    <3> HIDE DEF req, m
    <3> QED BY <3>1, <3>2, <3>3
  <2>3. p \in SUBSET Ids /\ f \in SUBSET Ids
    BY <1>1
  <2>4. b \in Nat /\ l \in Nat
    BY <1>1, <1>3
  <2> HIDE DEF m, p, f, d, b, l
  <2> QED BY <2>1, <2>2, <2>3, <2>4
<1> HIDE DEF w, u, z, g
<1>8. Fulfilled(q, r, v)
  <2>1. b >= l
    BY <1>1, <1>3
  <2> HIDE DEF m, p, f, d, b, l
  <2>2. /\ v \in QueueStorage /\ v.balance = b /\ v.totalAllocatedFunds = l
        /\ v.requests = m /\ v.pendingRequests = p /\ v.pendingRequestsQueue = d
        /\ v.fulfilledRequests = f /\ v.requestsByOwner = q.requestsByOwner
        /\ v.nextRequestId = q.nextRequestId
    BY <1>1, <1>7 DEF QueueStorage
  <2> HIDE DEF v
  <2> QED BY <2>1, <2>2 DEF Fulfilled, m, p, f, d, l
<1>9. v.balance = b /\ v.totalAllocatedFunds = l
  <2> HIDE DEF m, p, f, d, b, l
  <2> QED BY <1>1, <1>7 DEF QueueStorage
<1> HIDE DEF v, m, p, f, d
<1>10. /\ QueueOK(v, k) /\ SharesPending(v) = SharesPending(q) - s
       /\ \A i \in v.pendingRequests :
            i \in q.pendingRequests /\ v.requests[i] = q.requests[i] /\ r < i
  BY <1>1, <1>8, FulfilledOK
<1>11. z.balanceOf[Queue] >= SharesPending(v)
  <2>1. SharesPending(q) \in Nat
    BY <1>1, QueueSums
  <2> QED BY <1>1, <1>6, <1>10, <2>1
<1>12. WorldOK(z, v, k)
  BY <1>5, <1>10, <1>11, WorldStep
<1>13. x + g - e \in Nat /\ b >= l + (x + g - e)
  BY <1>1, <1>3
<1> QED BY <1>3, <1>4, <1>8, <1>9, <1>10, <1>12, <1>13 DEF u, w, g

(* AVAX comes back to the vault from staking. *)
LEMMA FromStakingOK ==
  ASSUME NEW t, NEW q, NEW k, WorldOK(t, q, k), NEW x \in Nat, NEW y \in Nat,
         NEW bips \in 0..Bips, x + y > 0 => CanDepositFromStaking(t, x)
  PROVE  WorldOK(DepositFromStaking(t, x, y, bips), q, k)
<1> DEFINE u == DepositFromStaking(t, x, y, bips)
<1>1. VaultOK(t) /\ QueueOK(q, k) /\ t.balanceOf[Queue] >= SharesPending(q)
  BY DEF WorldOK
<1>2. CanDepositFromStaking(t, x)
  <2>1. t.stakingTotalAssets \in Nat
    BY <1>1, VaultFields DEF VaultOK
  <2> QED BY <2>1 DEF CanDepositFromStaking
<1>3. VaultOK(u) /\ PriceKept(t, u)
  BY <1>1, <1>2, DepositFromStakingOK
<1>4. u.balanceOf = t.balanceOf
  BY <1>1 DEF DepositFromStaking, VaultOK, TokenStorage
<1> HIDE DEF u
<1>5. WorldOK(u, q, k)
  BY <1>1, <1>3, <1>4, WorldStep
<1> QED BY <1>5 DEF u

(* AVAX leaves the queue that is set aside for nobody. *)
LEMMA SpendOK ==
  ASSUME NEW t, NEW q, NEW k, WorldOK(t, q, k), NEW x \in Nat,
         q.balance >= q.totalAllocatedFunds + x
  PROVE  LET u == [q EXCEPT !.balance = @ - x]
         IN  /\ WorldOK(t, u, k) /\ u.nextRequestId = q.nextRequestId
             /\ u.pendingRequests = q.pendingRequests
             /\ u.fulfilledRequests = q.fulfilledRequests
             /\ u.totalAllocatedFunds = q.totalAllocatedFunds
             /\ u.balance = q.balance - x
<1> DEFINE b == q.balance - x
           u == [q EXCEPT !.balance = @ - x]
<1>1. /\ q \in QueueStorage /\ QueueOK(q, k) /\ q.balance \in Nat
      /\ q.totalAllocatedFunds \in Nat
  BY QueueFields DEF WorldOK, QueueOK
<1>2. b \in Nat /\ b >= q.totalAllocatedFunds
  BY <1>1
<1>3. u = [q EXCEPT !.balance = b]
  BY <1>1
<1> HIDE DEF b, u
<1>4. /\ u \in QueueStorage /\ u.balance = b
      /\ u.requests = q.requests /\ u.requestsByOwner = q.requestsByOwner
      /\ u.pendingRequests = q.pendingRequests /\ u.fulfilledRequests = q.fulfilledRequests
      /\ u.pendingRequestsQueue = q.pendingRequestsQueue
      /\ u.nextRequestId = q.nextRequestId /\ u.totalAllocatedFunds = q.totalAllocatedFunds
  BY <1>1, <1>2, <1>3 DEF QueueStorage
<1>5. QueueOK(u, k) /\ SharesPending(u) = SharesPending(q)
  BY <1>1, <1>2, <1>4, SameOK
<1>6. WorldOK(t, u, k)
  BY <1>4, <1>5 DEF WorldOK
<1> QED BY <1>4, <1>6 DEF u, b

(* Yield comes to the vault. *)
LEMMA YieldOK ==
  ASSUME NEW t, NEW q, NEW k, WorldOK(t, q, k), NEW x \in Nat, NEW bips \in 0..Bips
  PROVE  WorldOK(DepositYield(t, x, bips), q, k)
<1> DEFINE u == DepositYield(t, x, bips)
<1>1. VaultOK(t) /\ QueueOK(q, k) /\ t.balanceOf[Queue] >= SharesPending(q)
  BY DEF WorldOK
<1>2. VaultOK(u) /\ PriceKept(t, u)
  BY <1>1, DepositYieldOK
<1>3. u.balanceOf = t.balanceOf
  BY <1>1 DEF DepositYield, VaultOK, TokenStorage
<1> HIDE DEF u
<1>4. WorldOK(u, q, k)
  BY <1>1, <1>2, <1>3, WorldStep
<1> QED BY <1>4 DEF u

-----------------------------------------------------------------------------
(* What a transaction may do to the requests, as their owners see it *)

(* One is made: it waits, and is promised something. *)
Asks(q, l, u, m, r) ==
  /\ r = q.nextRequestId /\ r \notin Live(q) /\ u.nextRequestId = r + 1
  /\ u.pendingRequests = q.pendingRequests \cup {r}
  /\ u.fulfilledRequests = q.fulfilledRequests
  /\ \E x \in Nat \ {0} : m = [l EXCEPT !.promised = [l.promised EXCEPT ![r] = x]]

(* One that was fulfilled is paid. *)
Pays(q, l, u, m, r) ==
  /\ r \in q.fulfilledRequests /\ u.nextRequestId = q.nextRequestId
  /\ u.pendingRequests = q.pendingRequests
  /\ u.fulfilledRequests = q.fulfilledRequests \ {r}
  /\ m = [l EXCEPT !.paid = [l.paid EXCEPT ![r] = l.promised[r]]]

(* Those who have waited longest are fulfilled. *)
Reserves(q, u) ==
  /\ u.nextRequestId = q.nextRequestId
  /\ u.pendingRequests \subseteq q.pendingRequests
  /\ u.fulfilledRequests = q.fulfilledRequests \cup (q.pendingRequests \ u.pendingRequests)
  /\ \A a \in q.pendingRequests \ u.pendingRequests, b \in u.pendingRequests : a < b

(* Some end without a payment. *)
GivesBack(q, u) ==
  /\ u.nextRequestId = q.nextRequestId
  /\ u.pendingRequests \subseteq q.pendingRequests
  /\ u.fulfilledRequests \subseteq q.fulfilledRequests

Effect(q, l, u, m) ==
  \/ \E r \in Ids : Asks(q, l, u, m, r) \/ Pays(q, l, u, m, r)
  \/ m = l /\ (Reserves(q, u) \/ GivesBack(q, u))

(* Who is listed has not been paid, and nobody is paid but the promise. *)
LedgerOK(q, l) ==
  /\ l \in Ledger
  /\ \A r \in Ids : l.paid[r] \in {0, l.promised[r]}
  /\ \A r \in Live(q) : l.paid[r] = 0

(* What the ledger is made of *)
LEMMA LedgerFields ==
  ASSUME NEW l \in Ledger
  PROVE  l.promised \in [Ids -> Nat] /\ l.paid \in [Ids -> Nat]
BY DEF Ledger

(* The ledger stays right in every step with the effects above. *)
LEMMA LedgerKept ==
  ASSUME NEW q, NEW l, NEW u, NEW m, q \in QueueStorage, LedgerOK(q, l), Entitled(q, l.promised),
         Listed(q), Effect(q, l, u, m)
  PROVE  LedgerOK(u, m)
<1>1. /\ l \in Ledger /\ l.promised \in [Ids -> Nat] /\ l.paid \in [Ids -> Nat]
      /\ q.pendingRequests \in SUBSET Ids /\ q.fulfilledRequests \in SUBSET Ids
      /\ q.nextRequestId \in Nat
      /\ \A r \in Ids : l.paid[r] \in {0, l.promised[r]}
      /\ \A r \in Live(q) : l.paid[r] = 0
      /\ \A r \in Ids : r >= q.nextRequestId => l.promised[r] = 0
  BY LedgerFields, QueueFields DEF LedgerOK, Entitled
<1>2. ASSUME NEW r \in Ids, Asks(q, l, u, m, r) PROVE LedgerOK(u, m)
  <2>1. PICK x \in Nat \ {0} : m = [l EXCEPT !.promised = [l.promised EXCEPT ![r] = x]]
    BY <1>2 DEF Asks
  <2>2. l.promised[r] = 0 /\ l.paid[r] = 0
    <3>1. r >= q.nextRequestId
      BY <1>1, <1>2 DEF Asks
    <3> QED BY <1>1, <3>1
  <2> DEFINE k == [l.promised EXCEPT ![r] = x]
  <2>3. k \in [Ids -> Nat] /\ \A i \in Ids \ {r} : k[i] = l.promised[i]
    BY <1>1
  <2> HIDE DEF k
  <2>4. m.paid = l.paid /\ m.promised = k /\ m \in Ledger
    <3>1. m = [l EXCEPT !.promised = k]
      BY <2>1 DEF k
    <3> QED BY <1>1, <2>3, <3>1 DEF Ledger
  <2>5. \A i \in Ids : m.paid[i] \in {0, m.promised[i]}
    BY <1>1, <2>2, <2>3, <2>4
  <2>6. \A i \in Live(u) : m.paid[i] = 0
    BY <1>1, <1>2, <2>2, <2>4 DEF Asks, Live
  <2> QED BY <2>4, <2>5, <2>6 DEF LedgerOK
<1>3. ASSUME NEW r \in Ids, Pays(q, l, u, m, r) PROVE LedgerOK(u, m)
  <2> DEFINE d == [l.paid EXCEPT ![r] = l.promised[r]]
  <2>1. /\ d \in [Ids -> Nat] /\ d[r] = l.promised[r]
        /\ \A i \in Ids \ {r} : d[i] = l.paid[i]
    BY <1>1
  <2>2. m = [l EXCEPT !.paid = d]
    BY <1>3 DEF Pays
  <2> HIDE DEF d
  <2>3. m.paid = d /\ m.promised = l.promised /\ m \in Ledger
    BY <1>1, <2>1, <2>2 DEF Ledger
  <2>4. \A i \in Ids : m.paid[i] \in {0, m.promised[i]}
    BY <1>1, <2>1, <2>3
  <2>5. \A i \in Live(u) : i \in Live(q) /\ i \in Ids /\ i # r
    BY <1>1, <1>3 DEF Pays, Live, Listed
  <2> QED BY <1>1, <2>1, <2>3, <2>4, <2>5 DEF LedgerOK
<1>4. CASE m = l /\ (Reserves(q, u) \/ GivesBack(q, u))
  <2>1. Live(u) \subseteq Live(q)
    BY <1>4 DEF Reserves, GivesBack, Live
  <2> QED BY <1>1, <1>4, <2>1 DEF LedgerOK
<1> QED BY <1>2, <1>3, <1>4 DEF Effect

(* The total that is set aside is what the fulfilled requests were promised. *)
LEMMA TotalIsPromised ==
  ASSUME NEW q, NEW k, QueueOK(q, k), k \in [Ids -> Nat]
  PROVE  q.totalAllocatedFunds = SumFunctionOnSet(k, q.fulfilledRequests)
<1> DEFINE f == AllocatedIn(q.requests)
           F == q.fulfilledRequests
<1>1. /\ q \in QueueStorage /\ F \in SUBSET Ids /\ IsFiniteSet(Ids)
      /\ q.totalAllocatedFunds = Allocated(q)
  BY QueueFields, QueueFacts DEF QueueOK, Funded
<1>2. Allocated(q) = SumFunctionOnSet(f, Ids) /\ f \in [Ids -> Nat]
  BY <1>1, QueueSums
<1>3. \A r \in F : f[r] = k[r]
  BY <1>1 DEF AllocatedIn, QueueOK, Entitled
<1>4. \A r \in Ids \ F : f[r] = 0
  BY NoRequestFields DEF AllocatedIn, QueueOK, Entitled, Listed, Live
<1> HIDE DEF f, F
<1>5. SumFunctionOnSet(f, F) = SumFunctionOnSet(f, Ids)
  <2>1. \A r \in Ids : f[r] \in Int
    BY <1>2
  <2> QED BY <1>1, <1>4, <2>1, SumOfPart
<1>6. SumFunctionOnSet(f, F) = SumFunctionOnSet(k, F)
  <2>1. IsFiniteSet(F)
    BY <1>1, FS_Subset
  <2> QED BY <1>3, <2>1, SumAgree
<1> QED BY <1>1, <1>2, <1>5, <1>6 DEF F

(* How the total moves when requests join the fulfilled ones, or leave. *)
LEMMA TotalMoves ==
  ASSUME NEW q, NEW k, QueueOK(q, k), k \in [Ids -> Nat], NEW u, QueueOK(u, k),
         NEW S \in SUBSET Ids
  PROVE  /\ /\ u.fulfilledRequests = q.fulfilledRequests \cup S
            /\ q.fulfilledRequests \cap S = {}
            => u.totalAllocatedFunds = q.totalAllocatedFunds + SumFunctionOnSet(k, S)
         /\ q.fulfilledRequests = u.fulfilledRequests \cup S /\ u.fulfilledRequests \cap S = {}
            => u.totalAllocatedFunds = q.totalAllocatedFunds - SumFunctionOnSet(k, S)
<1> DEFINE F == q.fulfilledRequests
           G == u.fulfilledRequests
           s == SumFunctionOnSet(k, S)
<1>1. /\ F \in SUBSET Ids /\ G \in SUBSET Ids /\ IsFiniteSet(Ids)
      /\ q.totalAllocatedFunds \in Nat /\ u.totalAllocatedFunds \in Nat
  BY QueueFields, QueueFacts DEF QueueOK
<1>2. /\ q.totalAllocatedFunds = SumFunctionOnSet(k, F)
      /\ u.totalAllocatedFunds = SumFunctionOnSet(k, G)
  BY TotalIsPromised
<1>3. \A x \in Ids : k[x] \in Int
  OBVIOUS
<1> HIDE DEF F, G
<1>4. F \cap S = {} => SumFunctionOnSet(k, F \cup S) = SumFunctionOnSet(k, F) + s
  BY <1>1, <1>3, SumDisjoint
<1>5. G \cap S = {} => SumFunctionOnSet(k, G \cup S) = SumFunctionOnSet(k, G) + s
  BY <1>1, <1>3, SumDisjoint
<1>6. s \in Int
  <2>1. IsFiniteSet(S) /\ \A x \in S : k[x] \in Int
    BY <1>1, FS_Subset
  <2> QED BY <2>1, SumType
<1> HIDE DEF s
<1>7. G = F \cup S /\ F \cap S = {} => u.totalAllocatedFunds = q.totalAllocatedFunds + s
  BY <1>1, <1>2, <1>4
<1>8. F = G \cup S /\ G \cap S = {} => u.totalAllocatedFunds = q.totalAllocatedFunds - s
  BY <1>1, <1>2, <1>5, <1>6
<1> QED BY <1>7, <1>8 DEF F, G, s

-----------------------------------------------------------------------------
(* The inductive invariant *)

(* The copy x that a loop works on: what has become of queue q in it. *)
LoopOK(q, x, k) ==
  /\ x \in Loops /\ x.bips \in 0..Bips
  /\ WorldOK(x.token, x.queue, k)
  /\ x.op = "fulfil" => /\ Reserves(q, x.queue)
                        /\ x.queue.balance >= x.queue.totalAllocatedFunds + x.excess
  /\ x.op # "fulfil" => GivesBack(q, x.queue)

QueueInv ==
  /\ WorldOK(token, queue, ledger.promised)
  /\ LedgerOK(queue, ledger)
  /\ tx = Idle \/ LoopOK(queue, tx, ledger.promised)

(* A loop is not idle. *)
LEMMA LoopFields ==
  ASSUME NEW x \in Loops
  PROVE  /\ x.op \in {"fulfil", "cancel", "reclaim"} /\ x.token \in TokenStorage
         /\ x.queue \in QueueStorage /\ x.excess \in Nat /\ x.bips \in Nat
         /\ x.left \in Nat /\ x.avail \in Nat /\ x.owner \in Owners
BY DEF Loops

(* The copy of a loop that runs is in order. *)
LEMMA Busy ==
  ASSUME QueueInv, NEW op, Running(op), op \in {"fulfil", "cancel", "reclaim"}
  PROVE  LoopOK(queue, tx, ledger.promised) /\ tx.op = op /\ tx \in Loops
<1>1. tx # Idle
  BY DEF Running, Idle
<1> QED BY <1>1 DEF QueueInv, Running, LoopOK

(* A transaction is over: the storages are those it leaves. *)
LEMMA Lands ==
  ASSUME QueueInv, NEW STATE u, NEW STATE v, NEW STATE m, WorldOK(u, v, m.promised),
         token' = u, queue' = v, ledger' = m, now' = now, tx' = Idle,
         Effect(queue, ledger, v, m)
  PROVE  QueueInv' /\ Effect(queue, ledger, queue', ledger')
<1>1. WorldOK(token, queue, ledger.promised)'
  <2>1. VaultOK(token)'
    BY DEF WorldOK, VaultOK, SupplyIsSum, Backed
  <2>2. TotalAssets(token)' = TotalAssets(u)
    BY DEF TotalAssets
  <2>3. AtPar(token)'
    BY <2>2 DEF WorldOK, AtPar
  <2>4. \A r \in queue'.pendingRequests :
          (WorthIt(token, queue.requests[r].shares, queue.requests[r].expectedAssets))'
    BY <2>2 DEF WorldOK, WorthIt
  <2>5. QueueOK(queue', ledger'.promised) /\ token'.balanceOf[Queue] >= SharesPending(queue')
    BY DEF WorldOK
  <2> QED BY <2>1, <2>3, <2>4, <2>5 DEF WorldOK
<1>2. LedgerOK(queue', ledger')
  <2>1. /\ queue \in QueueStorage /\ LedgerOK(queue, ledger)
        /\ Entitled(queue, ledger.promised) /\ Listed(queue)
        /\ Effect(queue, ledger, queue', ledger')
    BY DEF QueueInv, WorldOK, QueueOK
  <2> QED BY <2>1, LedgerKept
<1> QED BY <1>1, <1>2 DEF QueueInv

(* A loop goes on: only the copy changes. *)
LEMMA GoesOn ==
  ASSUME QueueInv, NEW STATE x, LoopOK(queue, x, ledger.promised),
         tx' = x, UNCHANGED <<now, token, queue, ledger>>
  PROVE  QueueInv' /\ Effect(queue, ledger, queue', ledger')
<1>1. VaultOK(token)' /\ VaultOK(tx.token)'
  BY DEF QueueInv, LoopOK, WorldOK, VaultOK, SupplyIsSum, Backed
<1>2. TotalAssets(token)' = TotalAssets(token) /\ TotalAssets(tx.token)' = TotalAssets(x.token)
  BY DEF TotalAssets
<1>3. WorldOK(token, queue, ledger.promised)'
  BY <1>1, <1>2 DEF QueueInv, WorldOK, AtPar, WorthIt
<1>4. WorldOK(tx.token, tx.queue, ledger.promised)'
  BY <1>1, <1>2 DEF LoopOK, WorldOK, AtPar, WorthIt
<1>5. LoopOK(queue, tx, ledger.promised)'
  BY <1>4 DEF LoopOK
<1>6. LedgerOK(queue, ledger)'
  BY DEF QueueInv
<1>7. GivesBack(queue, queue')
  BY DEF GivesBack
<1> QED BY <1>3, <1>5, <1>6, <1>7 DEF QueueInv, Effect

(* initialize leaves a queue nobody waits in. *)
LEMMA QueueInitOK == QueueInit => QueueInv
<1> SUFFICES ASSUME QueueInit PROVE QueueInv
  OBVIOUS
<1>1. VaultOK(token) /\ token.totalSupply \in Nat /\ token.balanceOf[Queue] \in Nat
  BY InitOK, SupplyBounds, QueueFacts DEF QueueInit
<1>2. AtPar(token)
  <2>1. /\ now = StartTime /\ token.totalSupply = Seed /\ token.totalReleasedAssets = Seed
        /\ token.lastRewardsAmt = 0
    BY DEF QueueInit, TokenInit
  <2>2. TotalAssets(token) \in Nat /\ token.totalReleasedAssets <= TotalAssets(token)
    BY <1>1, TotalAssetsBounds
  <2>3. Seed \in Nat
    BY Constants
  <2> QED BY <2>1, <2>2, <2>3 DEF AtPar
<1>3. PICK unstake \in UnstakeDelays, expiration \in ExpirationDelays,
           limit \in RequestLimits, amount \in OnBehalfAmounts, stuck \in StuckAVAX :
        queue = [balance |-> stuck, totalAllocatedFunds |-> 0, nextRequestId |-> 0,
                 requests |-> [r \in Ids |-> NoRequest],
                 pendingRequests |-> {}, fulfilledRequests |-> {},
                 pendingRequestsQueue |-> <<>>,
                 requestsByOwner |-> [a \in Owners |-> {}],
                 unstakeDelay |-> unstake, maxExpirationDelay |-> expiration,
                 maxRequestsPerStakingDeposit |-> limit,
                 minUnstakeOnBehalfOfAmt |-> amount, paused |-> FALSE]
  BY DEF QueueInit
<1>4. queue \in QueueStorage
  <2>1. /\ unstake \in Nat /\ expiration \in Nat /\ limit \in Nat /\ amount \in Nat
        /\ stuck \in Nat
    BY QueueFacts
  <2>2. <<>> \in Seq(Ids)
    OBVIOUS
  <2>3. [r \in Ids |-> NoRequest] \in [Ids -> UnstakeRequest]
    BY NoRequestFields
  <2>4. [a \in Owners |-> {}] \in [Owners -> SUBSET Ids]
    OBVIOUS
  <2> QED BY <1>3, <2>1, <2>2, <2>3, <2>4 DEF QueueStorage
<1>5. /\ queue.pendingRequests = {} /\ queue.fulfilledRequests = {} /\ Live(queue) = {}
      /\ queue.pendingRequestsQueue = <<>> /\ queue.nextRequestId = 0
      /\ queue.totalAllocatedFunds = 0 /\ queue.balance \in Nat
      /\ \A r \in Ids : queue.requests[r] = NoRequest
      /\ \A a \in Owners : queue.requestsByOwner[a] = {}
  BY <1>3, <1>4, QueueFields DEF Live
<1>6. Listed(queue)
  BY <1>5 DEF Listed
<1>7. Lined(queue)
  <2>1. Range(queue.pendingRequestsQueue) = {} /\ DOMAIN queue.pendingRequestsQueue = {}
    BY <1>5 DEF Range
  <2> QED BY <1>5, <2>1 DEF Lined, Increasing
<1>8. ledger = [promised |-> [r \in Ids |-> 0], paid |-> [r \in Ids |-> 0]] /\ tx = Idle
  BY DEF QueueInit
<1>9. LedgerOK(queue, ledger) /\ Entitled(queue, ledger.promised)
  BY <1>5, <1>8 DEF LedgerOK, Entitled, Ledger
<1>10. Allocated(queue) = 0 /\ SharesPending(queue) = 0
  <2> DEFINE f == AllocatedIn(queue.requests)
             g == SharesIn(queue.requests, queue.pendingRequests)
  <2>1. /\ Allocated(queue) = SumFunctionOnSet(f, Ids)
        /\ SharesPending(queue) = SumFunctionOnSet(g, Ids)
    BY <1>4, QueueSums
  <2>2. \A r \in Ids : f[r] = 0 /\ g[r] = 0
    BY <1>5, NoRequestFields DEF AllocatedIn, SharesIn
  <2> HIDE DEF f, g
  <2>3. SumFunctionOnSet(f, Ids) = 0
    BY <2>2, QueueFacts, SumZero
  <2>4. SumFunctionOnSet(g, Ids) = 0
    BY <2>2, QueueFacts, SumZero
  <2> QED BY <2>1, <2>3, <2>4
<1>11. Funded(queue)
  BY <1>5, <1>10 DEF Funded
<1>12. QueueOK(queue, ledger.promised)
  BY <1>4, <1>6, <1>7, <1>9, <1>11 DEF QueueOK
<1>13. WorldOK(token, queue, ledger.promised)
  BY <1>1, <1>2, <1>5, <1>10, <1>12 DEF WorldOK
<1> QED BY <1>8, <1>9, <1>13 DEF QueueInv

-----------------------------------------------------------------------------
(* The transactions *)

Kept == QueueInv' /\ Effect(queue, ledger, queue', ledger')

(* requestUnstake and requestUnstakeOnBehalfOf *)
LEMMA RequestTxOK ==
  ASSUME QueueInv, NEW a \in Callers, NEW b \in Accounts, NEW s \in Amounts,
         NEW delay \in ExpirationDelays, queue.nextRequestId < MaxRequests,
         CanRequestUnstake(TheWorld, a, s, delay),
         LET w == RequestUnstake(TheWorld, a, b, s, delay)
         IN  Becomes(w) /\ Requested(queue.nextRequestId, w),
         InOneStep
  PROVE  Kept
<1> DEFINE n == queue.nextRequestId
           k == ledger.promised
           w == RequestUnstake(TheWorld, a, b, s, delay)
           x == w.queue.requests[n].expectedAssets
           k2 == [k EXCEPT ![n] = x]
           m == [ledger EXCEPT !.promised = k2]
<1>1. /\ WorldOK(token, queue, k) /\ ledger \in Ledger /\ k \in [Ids -> Nat]
      /\ queue \in QueueStorage
  BY LedgerFields DEF QueueInv, LedgerOK, WorldOK, QueueOK
<1>2. /\ a \in Accounts \ {Self, Queue} /\ s \in Nat \ {0} /\ delay \in Nat
  BY QueueFacts
<1>3. n \in Ids
  <2>1. n \in Nat /\ MaxRequests \in Nat
    BY <1>1, QueueFields, QueueFacts
  <2> QED BY <2>1 DEF Ids
<1>4. TheWorld = World(token, queue)
  BY DEF TheWorld
<1>5. /\ WorldOK(w.token, w.queue, k2)
      /\ x \in Nat \ {0} /\ n \notin Live(queue)
      /\ w.queue.nextRequestId = n + 1
      /\ w.queue.pendingRequests = queue.pendingRequests \cup {n}
      /\ w.queue.fulfilledRequests = queue.fulfilledRequests
  BY <1>1, <1>2, <1>3, <1>4, RequestOK
<1>6. token' = w.token /\ queue' = w.queue /\ tx = Idle /\ tx' = Idle /\ now' = now
  BY DEF Becomes, InOneStep
<1>7. ledger' = m
  BY <1>1 DEF Requested, Ledger
<1> HIDE DEF w, x, k2, n
<1>8. m.promised = k2
  BY <1>1 DEF Ledger
<1>9. Effect(queue, ledger, w.queue, m)
  <2>1. Asks(queue, ledger, w.queue, m, n)
    BY <1>5 DEF Asks, k2, n
  <2> QED BY <1>3, <2>1 DEF Effect
<1> HIDE DEF m
<1>10. WorldOK(w.token, w.queue, m.promised)
  BY <1>5, <1>8
<1> QED BY <1>6, <1>7, <1>9, <1>10, Lands DEF Kept

(* claimUnstake *)
LEMMA ClaimTxOK ==
  ASSUME QueueInv, NEW a \in Callers, NEW r \in Ids, ClaimUnstakeTx(a, r)
  PROVE  Kept
<1> DEFINE v == Claim(queue, r)
           m == [ledger EXCEPT !.paid = [ledger.paid EXCEPT ![r] = ledger.promised[r]]]
<1>1. /\ WorldOK(token, queue, ledger.promised) /\ ledger \in Ledger
      /\ r \in queue.fulfilledRequests /\ r \in Live(queue)
      /\ queue.requests[r].allocatedFunds = ledger.promised[r]
      /\ ledger.paid[r] = 0 /\ ledger.promised[r] \in Nat
  BY LedgerFields
     DEF QueueInv, LedgerOK, ClaimUnstakeTx, CanClaim, Live, WorldOK, QueueOK, Entitled
<1>2. WorldOK(token, v, ledger.promised) /\ Removed(queue, r, v)
  BY <1>1, ClaimOK
<1>3. ledger' = m /\ m.promised = ledger.promised
  <2>1. ledger' = [ledger EXCEPT !.paid[r] = @ + queue.requests[r].allocatedFunds]
    BY DEF ClaimUnstakeTx
  <2>2. ledger' = [ledger EXCEPT !.paid[r] = ledger.promised[r]]
    BY <1>1, <2>1 DEF Ledger
  <2> QED BY <1>1, <2>2 DEF Ledger
<1>4. token' = token /\ queue' = v /\ now' = now /\ tx' = Idle
  BY DEF ClaimUnstakeTx, InOneStep
<1>5. Pays(queue, ledger, v, m, r)
  <2>1. r \notin queue.pendingRequests
    BY <1>1 DEF WorldOK, QueueOK, Listed
  <2> HIDE DEF v
  <2> QED BY <1>1, <1>2, <2>1 DEF Pays, Removed
<1> HIDE DEF v, m
<1>6. Effect(queue, ledger, v, m)
  BY <1>5 DEF Effect
<1>7. WorldOK(token, v, m.promised)
  BY <1>2, <1>3
<1> QED BY <1>3, <1>4, <1>6, <1>7, Lands DEF Kept

(* The transactions that leave the ledger alone *)
LEMMA Quietly ==
  ASSUME QueueInv, NEW STATE u, NEW STATE v, WorldOK(u, v, ledger.promised),
         token' = u, queue' = v, ledger' = ledger, now' = now, tx' = Idle,
         Reserves(queue, v) \/ GivesBack(queue, v)
  PROVE  Kept
<1>1. Effect(queue, ledger, v, ledger)
  BY DEF Effect
<1> QED BY <1>1, Lands DEF Kept

(* A request that is removed is one that is given back. *)
LEMMA RemovedGivesBack ==
  ASSUME NEW q, NEW r, NEW u, Removed(q, r, u)
  PROVE  GivesBack(q, u)
BY DEF Removed, GivesBack

(* A queue whose requests stay as they are gives back none. *)
LEMMA NothingGivesBack ==
  ASSUME NEW q, NEW u, u.nextRequestId = q.nextRequestId,
         u.pendingRequests = q.pendingRequests, u.fulfilledRequests = q.fulfilledRequests
  PROVE  GivesBack(q, u) /\ Reserves(q, u)
BY DEF GivesBack, Reserves

(* cancelRequest and reclaimExpiredRequest *)
LEMMA CancelTxOK ==
  ASSUME QueueInv, NEW a, NEW r, CancelRequestTx(a, r)
  PROVE  Kept
<1> DEFINE u == Cancel(TheWorld, r)
<1>1. WorldOK(token, queue, ledger.promised) /\ TheWorld = World(token, queue)
  BY DEF QueueInv, TheWorld
<1>2. CanCancel(TheWorld, a, r)
  BY DEF CancelRequestTx
<1>3. WorldOK(u.token, u.queue, ledger.promised) /\ Removed(queue, r, u.queue)
  BY <1>1, <1>2, CancelOK
<1>4. /\ token' = u.token /\ queue' = u.queue /\ ledger' = ledger /\ now' = now /\ tx' = Idle
  BY DEF CancelRequestTx, Becomes, InOneStep
<1> HIDE DEF u
<1>5. GivesBack(queue, u.queue)
  BY <1>3, RemovedGivesBack
<1> QED BY <1>3, <1>4, <1>5, Quietly

(* reclaimExpiredRequest as a transaction keeps the invariant. *)
LEMMA ReclaimTxOK ==
  ASSUME QueueInv, NEW r, ReclaimExpiredRequestTx(r)
  PROVE  Kept
<1> DEFINE u == Reclaim(TheWorld, r)
<1>1. WorldOK(token, queue, ledger.promised) /\ TheWorld = World(token, queue)
  BY DEF QueueInv, TheWorld
<1>2. CanReclaim(TheWorld, r)
  BY DEF ReclaimExpiredRequestTx
<1>3. WorldOK(u.token, u.queue, ledger.promised) /\ Removed(queue, r, u.queue)
  BY <1>1, <1>2, ReclaimOK
<1>4. /\ token' = u.token /\ queue' = u.queue /\ ledger' = ledger /\ now' = now /\ tx' = Idle
  BY DEF ReclaimExpiredRequestTx, Becomes, InOneStep
<1> HIDE DEF u
<1>5. GivesBack(queue, u.queue)
  BY <1>3, RemovedGivesBack
<1> QED BY <1>3, <1>4, <1>5, Quietly

(* getNextPendingRequestAmount *)
LEMMA GetNextTxOK ==
  ASSUME QueueInv, GetNextPendingRequestAmountTx
  PROVE  Kept
<1> DEFINE v == [queue EXCEPT !.pendingRequestsQueue = Tail(@)]
           k == ledger.promised
<1>1. WorldOK(token, queue, k) /\ QueueOK(queue, k)
  BY DEF QueueInv, WorldOK
<1>2. /\ queue.pendingRequests # {}
      /\ Head(queue.pendingRequestsQueue) \notin queue.pendingRequests
  BY DEF GetNextPendingRequestAmountTx
<1>3. /\ QueueOK(v, k) /\ SharesPending(v) = SharesPending(queue)
      /\ v.requests = queue.requests /\ v.pendingRequests = queue.pendingRequests
      /\ v.fulfilledRequests = queue.fulfilledRequests
      /\ v.nextRequestId = queue.nextRequestId
  BY <1>1, <1>2, CleanOK
<1>4. token' = token /\ queue' = v /\ ledger' = ledger /\ now' = now /\ tx' = Idle
  BY DEF GetNextPendingRequestAmountTx, InOneStep
<1> HIDE DEF v
<1>5. WorldOK(token, v, k)
  BY <1>1, <1>3 DEF WorldOK
<1>6. GivesBack(queue, v)
  BY <1>3, NothingGivesBack
<1> QED BY <1>4, <1>5, <1>6, Quietly

(* rescueStuckAVAX *)
LEMMA RescueTxOK ==
  ASSUME QueueInv, NEW x \in Nat, NEW y \in Nat, NEW bips \in 0..Bips,
         RescueStuckAVAXTx(x, y, bips)
  PROVE  Kept
<1> DEFINE w == RescueStuck(TheWorld, x, y, bips)
           k == ledger.promised
           z == x + y
           t2 == DepositFromStaking(token, x, y, bips)
           v == [queue EXCEPT !.balance = @ - z]
<1>1. /\ WorldOK(token, queue, k) /\ TheWorld.token = token /\ TheWorld.queue = queue
      /\ queue \in QueueStorage /\ queue.balance \in Nat /\ queue.totalAllocatedFunds \in Nat
  BY QueueFields DEF QueueInv, TheWorld, World, WorldOK, QueueOK
<1>2. /\ z = queue.balance - queue.totalAllocatedFunds /\ z \in Nat
      /\ z > 0 => CanDepositFromStaking(token, x)
  BY <1>1 DEF RescueStuckAVAXTx, CanRescueStuck, Stuck
<1>3. /\ token' = w.token /\ queue' = w.queue /\ ledger' = ledger /\ now' = now /\ tx' = Idle
  BY DEF RescueStuckAVAXTx, Becomes, InOneStep
<1>4. CASE z = 0
  <2>1. w = TheWorld
    BY <1>1, <1>2, <1>4 DEF RescueStuck, Stuck
  <2>2. token' = token /\ queue' = queue
    BY <1>1, <1>3, <2>1
  <2>3. GivesBack(queue, queue)
    BY NothingGivesBack
  <2> QED BY <1>1, <1>3, <2>2, <2>3, Quietly
<1>5. CASE z # 0
  <2>1. w.token = t2 /\ w.queue = v
    <3>1. w = World(DepositFromStaking(token, x, y, bips),
                    [queue EXCEPT !.balance = @ - x - y])
      BY <1>1, <1>2, <1>5 DEF RescueStuck, Stuck
    <3>2. queue.balance - x - y = queue.balance - z
      BY <1>1
    <3> HIDE DEF w, z
    <3>3. [queue EXCEPT !.balance = @ - x - y] = v
      BY <1>1, <3>2
    <3> HIDE DEF v
    <3> QED BY <3>1, <3>3 DEF World
  <2>2. queue.balance >= queue.totalAllocatedFunds + z
    BY <1>1, <1>2
  <2>3. x + y > 0 => CanDepositFromStaking(token, x)
    BY <1>2
  <2> HIDE DEF z, w
  <2>4. WorldOK(t2, queue, k)
    BY <1>1, <2>3, FromStakingOK
  <2> HIDE DEF t2
  <2>5. /\ WorldOK(t2, v, k) /\ v.nextRequestId = queue.nextRequestId
        /\ v.pendingRequests = queue.pendingRequests
        /\ v.fulfilledRequests = queue.fulfilledRequests
    BY <1>2, <2>2, <2>4, SpendOK
  <2> HIDE DEF v
  <2>6. GivesBack(queue, v)
    BY <2>5, NothingGivesBack
  <2> QED BY <1>3, <2>1, <2>5, <2>6, Quietly
<1> QED BY <1>4, <1>5

(* The settings *)
LEMMA SettingOK ==
  ASSUME QueueInv, queue' \in QueueStorage, queue'.requests = queue.requests,
         queue'.requestsByOwner = queue.requestsByOwner,
         queue'.pendingRequests = queue.pendingRequests,
         queue'.fulfilledRequests = queue.fulfilledRequests,
         queue'.pendingRequestsQueue = queue.pendingRequestsQueue,
         queue'.nextRequestId = queue.nextRequestId,
         queue'.totalAllocatedFunds = queue.totalAllocatedFunds,
         queue'.balance = queue.balance,
         UNCHANGED <<token, ledger>>, InOneStep
  PROVE  Kept
<1> DEFINE k == ledger.promised
           v == queue'
<1>1. WorldOK(token, queue, k) /\ QueueOK(queue, k) /\ queue.balance >= queue.totalAllocatedFunds
  BY DEF QueueInv, WorldOK, QueueOK, Funded
<1>2. QueueOK(v, k) /\ SharesPending(v) = SharesPending(queue)
  BY <1>1, SameOK
<1>3. WorldOK(token, v, k)
  BY <1>1, <1>2 DEF WorldOK
<1>4. Reserves(queue, v)
  BY NothingGivesBack
<1>5. token' = token /\ ledger' = ledger /\ now' = now /\ tx' = Idle
  BY DEF InOneStep
<1>6. Effect(queue, ledger, queue', ledger')
  BY <1>4, <1>5 DEF Effect
<1>7. TotalAssets(token)' = TotalAssets(token)
  BY <1>5 DEF TotalAssets
<1>8. WorldOK(token, queue, ledger.promised)'
  BY <1>3, <1>5, <1>7 DEF WorldOK, VaultOK, AtPar, WorthIt, SupplyIsSum, Backed
<1>9. LedgerOK(queue', ledger')
  BY <1>5 DEF QueueInv, LedgerOK, Live
<1> QED BY <1>5, <1>6, <1>8, <1>9 DEF Kept, QueueInv

(* The settings keep the invariant: no request depends on them. *)
LEMMA AdminOK ==
  ASSUME QueueInv, AdminNext
  PROVE  Kept
<1>1. queue \in QueueStorage
  BY DEF QueueInv, WorldOK, QueueOK
<1>2. ASSUME NEW n \in Nat, SetMaxRequestsPerStakingDepositTx(n) PROVE Kept
  BY <1>1, <1>2, SettingOK DEF SetMaxRequestsPerStakingDepositTx, QueueStorage
<1>3. ASSUME NEW n \in Nat, SetMinUnstakeOnBehalfOfAmtTx(n) PROVE Kept
  BY <1>1, <1>3, SettingOK DEF SetMinUnstakeOnBehalfOfAmtTx, QueueStorage
<1>4. ASSUME NEW n \in Nat, SetUnstakeDelayTx(n) PROVE Kept
  BY <1>1, <1>4, SettingOK DEF SetUnstakeDelayTx, QueueStorage
<1>5. ASSUME NEW n \in Nat, SetMaxExpirationDelayTx(n) PROVE Kept
  BY <1>1, <1>5, SettingOK DEF SetMaxExpirationDelayTx, QueueStorage
<1>6. ASSUME NEW b \in BOOLEAN, SetQueuePausedTx(b) PROVE Kept
  BY <1>1, <1>6, SettingOK DEF SetQueuePausedTx, QueueStorage
<1> QED BY <1>2, <1>3, <1>4, <1>5, <1>6, QueueFacts DEF AdminNext

(* What the vault does for everybody else leaves the shares of the queue,  *)
(* and of any other account that does not call, which only it can spend.   *)
LEMMA OthersShares ==
  ASSUME VaultOK(token), VaultNext, NEW o \in Accounts \ Callers
  PROVE  token'.balanceOf[o] >= token.balanceOf[o]
<1> DEFINE b == token.balanceOf
<1>1. /\ token \in TokenStorage /\ b \in [Accounts -> Nat]
      /\ TotalAssets(token) \in Nat /\ token.totalSupply \in Nat \ {0}
      /\ b[o] \in Nat
  BY VaultFields, QueueFacts, TotalAssetsBounds, SupplyBounds DEF VaultOK
<1>2. ASSUME NEW a \in Accounts, NEW x \in Amounts, DepositTx(a, x)
      PROVE  token'.balanceOf[o] >= b[o]
  <2> DEFINE s == ConvertToShares(token, x)
  <2>1. s \in Nat
    BY <1>2, QueueFacts, DepositAVAXOK DEF DepositTx
  <2>2. token' = DepositAVAX(token, a, x)
    BY <1>2 DEF DepositTx
  <2>3. token'.balanceOf = [b EXCEPT ![a] = @ + s]
    BY <1>1, <2>2 DEF DepositAVAX, ReceiveDeposit, MintShares, TokenStorage
  <2> HIDE DEF s
  <2> QED BY <1>1, <2>1, <2>3
<1>3. ASSUME NEW a \in Accounts, NEW x \in Amounts, MintTx(a, x)
      PROVE  token'.balanceOf[o] >= b[o]
  <2>1. x \in Nat
    BY QueueFacts
  <2>2. token'.balanceOf = [b EXCEPT ![a] = @ + x]
    BY <1>1, <1>3 DEF MintTx, Mint, ReceiveDeposit, MintShares, TokenStorage
  <2> QED BY <1>1, <2>1, <2>2
<1>4. ASSUME NEW a \in Callers, NEW x \in Amounts, DonateYieldTx(a, x)
      PROVE  token'.balanceOf[o] >= b[o]
  <2>1. a # o
    OBVIOUS
  <2>2. token'.balanceOf = [b EXCEPT ![a] = @ - x]
    BY <1>1, <1>4 DEF DonateYieldTx, DonateYield, BurnShares, TokenStorage
  <2> QED BY <1>1, <2>1, <2>2
<1>5. ASSUME NEW a \in Callers, NEW c \in Accounts, NEW x \in Amounts, TransferTx(a, c, x)
      PROVE  token'.balanceOf[o] >= b[o]
  <2>1. a # o /\ a \in Accounts /\ x \in Nat
    BY QueueFacts
  <2>2. token' = TransferShares(token, a, c, x)
    BY <1>5 DEF TransferTx
  <2>3. token'.balanceOf = Move(b, a, c, x)
    BY <1>1, <2>2 DEF TransferShares, TokenStorage
  <2> HIDE DEF b
  <2>4. b \in [Accounts -> Nat] /\ b[o] \in Nat
    BY <1>1 DEF b
  <2> QED BY <2>1, <2>3, <2>4 DEF Move
<1>6. ASSUME token'.balanceOf = b PROVE token'.balanceOf[o] >= b[o]
  BY <1>1, <1>6
<1>7. CASE YieldNext
  <2>1. token'.balanceOf = b
    BY <1>1, <1>7 DEF YieldNext, DepositYieldTx, DepositYield, DepositFromStakingTx,
                      DepositFromStaking, TokenStorage
  <2> QED BY <1>6, <2>1
<1>8. CASE ProtocolNext \/ MinipoolsNext
  <2>1. token'.balanceOf = b
    BY <1>1, <1>8 DEF ProtocolNext, MinipoolsNext, WithdrawForStakingTx,
       WithdrawForMinipoolTx, WithdrawForStaking, SyncRewardsTx, SyncRewards,
       SetTokenPausedTx, Tick, TokenStorage
  <2> QED BY <1>6, <2>1
<1>9. CASE HolderNext(Callers)
  BY <1>2, <1>3, <1>4, <1>5, <1>9, QueueFacts DEF HolderNext
<1> QED BY <1>7, <1>8, <1>9 DEF VaultNext

(* The sums of the vault, stated so that they hold of the next state as well *)
LEMMA VaultTypes ==
  VaultOK(token) => /\ TotalAssets(token) \in Nat /\ token.totalSupply \in Nat \ {0}
                    /\ token.balanceOf[Queue] \in Nat
BY TotalAssetsBounds, SupplyBounds, QueueFacts

(* The price does not fall, so the shares who wait locked keep their worth. *)
LEMMA VaultNextOK ==
  ASSUME QueueInv, VaultNext
  PROVE  Kept
<1> DEFINE A == TotalAssets(token)
           S == token.totalSupply
           B == TotalAssets(token)'
           R == token'.totalSupply
<1>1. /\ VaultOK(token) /\ QueueOK(queue, ledger.promised) /\ AtPar(token)
      /\ token.balanceOf[Queue] >= SharesPending(queue)
      /\ \A r \in queue.pendingRequests :
           WorthIt(token, queue.requests[r].shares, queue.requests[r].expectedAssets)
  BY DEF QueueInv, WorldOK
<1>2. /\ queue' = queue /\ tx' = tx /\ ledger' = ledger /\ tx = Idle
  BY DEF VaultNext, QueueStands
<1>3. [TokenNext]_tokenVars
  <2>1. HolderNext(Callers) => HolderNext(Accounts)
    BY QueueFacts DEF HolderNext
  <2> QED BY <2>1 DEF VaultNext, TokenNext
<1>4. VaultOK(token)' /\ PriceStep
  BY <1>1, <1>3, NextOK
<1>5. A \in Nat /\ S \in Nat \ {0}
  BY <1>1, TotalAssetsBounds, SupplyBounds
<1>6. B \in Nat /\ R \in Nat \ {0} /\ token'.balanceOf[Queue] \in Nat
  <2>1. (VaultOK(token) => /\ TotalAssets(token) \in Nat /\ token.totalSupply \in Nat \ {0}
                           /\ token.balanceOf[Queue] \in Nat)'
    BY VaultTypes, PTL
  <2> QED BY <1>4, <2>1
<1>7. B * S >= A * R /\ A >= S
  BY <1>1, <1>4 DEF PriceStep, AtPar
<1>8. /\ B >= R
      /\ \A s \in Nat, e \in Nat : e * S <= s * A => e * R <= s * B
  <2> HIDE DEF A, S, B, R
  <2> QED BY <1>5, <1>6, <1>7, PriceUp
<1>9. AtPar(token)'
  BY <1>8 DEF AtPar
<1>10. ASSUME NEW r \in queue.pendingRequests
       PROVE  WorthIt(token, queue.requests[r].shares, queue.requests[r].expectedAssets)'
  <2> DEFINE s == queue.requests[r].shares
             e == queue.requests[r].expectedAssets
  <2>1. s \in Nat /\ e \in Nat
    BY <1>1, QueueFields, RequestFields DEF QueueOK
  <2>2. e * S <= s * A
    BY <1>1 DEF WorthIt
  <2> HIDE DEF A, S, B, R, s, e
  <2>3. e * R <= s * B
    BY <1>8, <2>1, <2>2
  <2>4. s = queue'.requests[r].shares /\ e = queue'.requests[r].expectedAssets
    BY <1>2 DEF s, e
  <2> QED BY <2>3, <2>4 DEF WorthIt, R, B
<1>11. token'.balanceOf[Queue] >= SharesPending(queue)
  <2>1. token'.balanceOf[Queue] >= token.balanceOf[Queue]
    BY <1>1, QueueFacts, OthersShares
  <2>2. token.balanceOf[Queue] \in Nat /\ SharesPending(queue) \in Nat
    BY <1>1, SharesOfQueue, QueueSums DEF QueueOK
  <2> QED BY <1>1, <1>6, <2>1, <2>2
<1>12. WorldOK(token, queue, ledger.promised)'
  <2>1. QueueOK(queue', ledger'.promised) /\ token'.balanceOf[Queue] >= SharesPending(queue')
    BY <1>1, <1>2, <1>11
  <2>2. \A r \in queue'.pendingRequests :
          WorthIt(token, queue.requests[r].shares, queue.requests[r].expectedAssets)'
    BY <1>2, <1>10
  <2> QED BY <1>4, <1>9, <2>1, <2>2 DEF WorldOK
<1>13. LedgerOK(queue', ledger')
  BY <1>2 DEF QueueInv
<1>14. Effect(queue, ledger, queue', ledger')
  BY <1>2 DEF Effect, GivesBack
<1> QED BY <1>2, <1>12, <1>13, <1>14 DEF Kept, QueueInv

-----------------------------------------------------------------------------
(* The loops *)

(* A loop begins on a copy that is in order. *)
LEMMA BeginOK ==
  ASSUME QueueInv, NEW op \in {"fulfil", "cancel", "reclaim"}, NEW STATE t, NEW owner \in Owners,
         NEW STATE left, left \in Nat, NEW bips \in 0..Bips, Begin(op, t, owner, left, bips),
         WorldOK(t, queue, ledger.promised)
  PROVE  Kept
<1> DEFINE x == [op |-> op, token |-> t, queue |-> queue, owner |-> owner, left |-> left,
                 avail |-> Available(t), excess |-> 0, bips |-> bips]
<1>1. /\ t \in TokenStorage /\ VaultOK(t) /\ queue \in QueueStorage /\ bips \in Nat
      /\ queue.balance >= queue.totalAllocatedFunds
      /\ queue.balance \in Nat /\ queue.totalAllocatedFunds \in Nat
  BY QueueFields DEF WorldOK, VaultOK, QueueOK, Funded
<1>2. Available(t) \in Nat
  <2>1. TotalAssets(t) \in Nat /\ t.stakingTotalAssets \in Nat
    BY <1>1, TotalAssetsBounds, VaultFields
  <2> QED BY <2>1 DEF Available
<1>3. /\ x.op = op /\ x.token = t /\ x.queue = queue /\ x.bips = bips /\ x.excess = 0
      /\ x \in Loops
  BY <1>1, <1>2 DEF Loops
<1>4. tx' = x /\ UNCHANGED <<now, token, queue, ledger>>
  BY DEF Begin, OnTheCopy
<1> HIDE DEF x
<1>5. Reserves(queue, x.queue) /\ GivesBack(queue, x.queue)
  BY <1>3, NothingGivesBack
<1>6. x.queue.balance >= x.queue.totalAllocatedFunds + x.excess
  BY <1>1, <1>3
<1>7. WorldOK(x.token, x.queue, ledger.promised)
  BY <1>3
<1>8. LoopOK(queue, x, ledger.promised)
  BY <1>3, <1>5, <1>6, <1>7 DEF LoopOK
<1> QED BY <1>4, <1>8, GoesOn DEF Kept

(* depositFromStaking begins with a deposit, which only raises the price. *)
LEMMA BeginDepositOK ==
  ASSUME QueueInv, NEW x \in Nat, NEW y \in Nat, NEW bips \in 0..Bips,
         BeginDepositFromStaking(x, y, bips)
  PROVE  Kept
<1> DEFINE t == DepositFromStaking(token, x, y, bips)
           left == queue.maxRequestsPerStakingDeposit
<1>1. /\ WorldOK(token, queue, ledger.promised)
      /\ x + y > 0 => CanDepositFromStaking(token, x)
  BY DEF QueueInv, BeginDepositFromStaking
<1>2. WorldOK(t, queue, ledger.promised)
  BY <1>1, FromStakingOK
<1>3. left \in Nat /\ NoAddress \in Owners
  BY <1>1, QueueFields DEF WorldOK, QueueOK, Owners
<1>4. Begin("fulfil", t, NoAddress, left, bips)
  BY DEF BeginDepositFromStaking
<1> HIDE DEF t, left
<1> QED BY <1>2, <1>3, <1>4, BeginOK

(* cancelRequests and reclaimExpiredFunds begin on the storages as they are. *)
LEMMA BeginBatchOK ==
  ASSUME QueueInv, NEW size \in BatchSizes,
         \/ \E a \in Callers : BeginCancelRequests(a, size)
         \/ BeginReclaimExpiredFunds(size)
  PROVE  Kept
<1>1. /\ WorldOK(token, queue, ledger.promised) /\ queue \in QueueStorage /\ size \in Nat
      /\ 0 \in 0..Bips
  <2>1. WorldOK(token, queue, ledger.promised) /\ queue \in QueueStorage
    BY DEF QueueInv, WorldOK, QueueOK
  <2>2. Bips \in Nat
    BY DEF Bips
  <2> QED BY <2>1, <2>2, QueueFacts
<1>2. \A S \in SUBSET Ids : Cardinality(S) \in Nat
  BY QueueFacts, FS_Subset, FS_CardinalityType
<1>3. ASSUME NEW a \in Callers, BeginCancelRequests(a, size) PROVE Kept
  <2> DEFINE n == Cardinality(queue.requestsByOwner[a])
             left == BatchLeft(size, n)
  <2>1. a \in Owners
    BY QueueFacts DEF Owners
  <2>2. n \in Nat
    BY <1>1, <1>2, <2>1, QueueFields
  <2> HIDE DEF n
  <2>3. left \in Nat
    BY <1>1, <2>2 DEF BatchLeft
  <2>4. Begin("cancel", token, a, left, 0)
    BY <1>3 DEF BeginCancelRequests, n
  <2> HIDE DEF left
  <2> QED BY <1>1, <2>1, <2>3, <2>4, BeginOK
<1>4. CASE BeginReclaimExpiredFunds(size)
  <2> DEFINE n == Cardinality(queue.fulfilledRequests) + Cardinality(queue.pendingRequests)
             left == BatchLeft(size, n)
  <2>1. n \in Nat
    BY <1>1, <1>2, QueueFields
  <2>2. Begin("reclaim", token, NoAddress, left, 0) /\ NoAddress \in Owners
    BY <1>4 DEF BeginReclaimExpiredFunds, Owners
  <2> HIDE DEF n
  <2>3. left \in Nat
    BY <1>1, <2>1 DEF BatchLeft
  <2> HIDE DEF left
  <2> QED BY <1>1, <2>2, <2>3, BeginOK
<1> QED BY <1>3, <1>4

(* A revert leaves everything as it was. *)
LEMMA RevertOK ==
  ASSUME QueueInv, Revert
  PROVE  Kept
<1>1. WorldOK(token, queue, ledger.promised)
  BY DEF QueueInv
<1>2. token' = token /\ queue' = queue /\ ledger' = ledger /\ now' = now /\ tx' = Idle
  BY DEF Revert, OnTheCopy
<1>3. GivesBack(queue, queue)
  BY NothingGivesBack
<1> QED BY <1>1, <1>2, <1>3, Quietly

(* One iteration of cancelRequests or of reclaimExpiredFunds *)
LEMMA ContinueOK ==
  ASSUME QueueInv, NEW STATE t, NEW STATE v, NEW r,
         LoopOK(queue, tx, ledger.promised), tx.op # "fulfil", tx.left > 0,
         WorldOK(t, v, ledger.promised), Removed(tx.queue, r, v),
         tx' = [tx EXCEPT !.token = t, !.queue = v, !.left = @ - 1], OnTheCopy
  PROVE  Kept
<1> DEFINE x == [tx EXCEPT !.token = t, !.queue = v, !.left = @ - 1]
<1>1. tx \in Loops /\ t \in TokenStorage /\ v \in QueueStorage /\ tx.left - 1 \in Nat
  BY LoopFields DEF LoopOK, WorldOK, VaultOK, QueueOK
<1>2. x \in Loops /\ x.token = t /\ x.queue = v /\ x.op = tx.op /\ x.bips = tx.bips
  BY <1>1 DEF Loops
<1> HIDE DEF x
<1>3. GivesBack(queue, v)
  BY DEF LoopOK, GivesBack, Removed
<1>4. LoopOK(queue, x, ledger.promised)
  BY <1>2, <1>3 DEF LoopOK
<1>5. tx' = x /\ UNCHANGED <<now, token, queue, ledger>>
  BY DEF OnTheCopy, x
<1> QED BY <1>4, <1>5, GoesOn DEF Kept

(* An iteration of cancelRequests keeps the copy in order, or reverts. *)
LEMMA CancelNextOK ==
  ASSUME QueueInv, NEW r, CancelNext(r)
  PROVE  Kept
<1>1. /\ LoopOK(queue, tx, ledger.promised) /\ tx.op = "cancel"
      /\ WorldOK(tx.token, tx.queue, ledger.promised) /\ Copy = World(tx.token, tx.queue)
      /\ tx.left > 0
  BY Busy DEF CancelNext, LoopOK, Copy
<1>2. CASE CanCancel(Copy, tx.owner, r)
  <2> DEFINE u == Cancel(Copy, r)
  <2>1. WorldOK(u.token, u.queue, ledger.promised) /\ Removed(tx.queue, r, u.queue)
    BY <1>1, <1>2, CancelOK
  <2>2. tx' = [tx EXCEPT !.token = u.token, !.queue = u.queue, !.left = @ - 1] /\ OnTheCopy
    BY <1>2 DEF CancelNext, Continue
  <2> HIDE DEF u
  <2> QED BY <1>1, <2>1, <2>2, ContinueOK
<1>3. CASE ~CanCancel(Copy, tx.owner, r)
  BY <1>3, RevertOK DEF CancelNext
<1> QED BY <1>2, <1>3

(* So does an iteration of reclaimExpiredFunds. *)
LEMMA ReclaimNextOK ==
  ASSUME QueueInv, NEW r, ReclaimNext(r)
  PROVE  Kept
<1>1. /\ LoopOK(queue, tx, ledger.promised) /\ tx.op = "reclaim"
      /\ WorldOK(tx.token, tx.queue, ledger.promised) /\ Copy = World(tx.token, tx.queue)
      /\ tx.left > 0
  BY Busy DEF ReclaimNext, LoopOK, Copy
<1>2. CASE CanReclaim(Copy, r)
  <2> DEFINE u == Reclaim(Copy, r)
  <2>1. WorldOK(u.token, u.queue, ledger.promised) /\ Removed(tx.queue, r, u.queue)
    BY <1>1, <1>2, ReclaimOK
  <2>2. tx' = [tx EXCEPT !.token = u.token, !.queue = u.queue, !.left = @ - 1] /\ OnTheCopy
    BY <1>2 DEF ReclaimNext, Continue
  <2> HIDE DEF u
  <2> QED BY <1>1, <2>1, <2>2, ContinueOK
<1>3. CASE ~CanReclaim(Copy, r)
  BY <1>3, RevertOK DEF ReclaimNext
<1> QED BY <1>2, <1>3

(* The end of cancelRequests and of reclaimExpiredFunds *)
LEMMA EndBatchOK ==
  ASSUME QueueInv, EndCancelRequests \/ EndReclaimExpiredFunds
  PROVE  Kept
<1>1. LoopOK(queue, tx, ledger.promised) /\ tx.op # "fulfil"
  BY Busy DEF EndCancelRequests, EndReclaimExpiredFunds
<1>2. /\ token' = tx.token /\ queue' = tx.queue /\ ledger' = ledger
      /\ now' = now /\ tx' = Idle
  BY DEF EndCancelRequests, EndReclaimExpiredFunds, Commit, Becomes, Copy, World
<1>3. WorldOK(tx.token, tx.queue, ledger.promised) /\ GivesBack(queue, tx.queue)
  BY <1>1 DEF LoopOK
<1> QED BY <1>2, <1>3, Quietly

(* depositFromStaking drops the front of the deque *)
LEMMA CleanFrontOK ==
  ASSUME QueueInv, CleanFront
  PROVE  Kept
<1> DEFINE q == tx.queue
           v == [q EXCEPT !.pendingRequestsQueue = Tail(@)]
           x == [tx EXCEPT !.queue = v, !.left = @ - 1]
           k == ledger.promised
<1>1. /\ LoopOK(queue, tx, k) /\ tx.op = "fulfil" /\ tx \in Loops
      /\ WorldOK(tx.token, q, k) /\ QueueOK(q, k)
      /\ q.pendingRequests # {} /\ tx.left > 0
      /\ Head(q.pendingRequestsQueue) \notin q.pendingRequests
  BY Busy DEF CleanFront, Looping, FrontIsPending, Front, LoopOK, WorldOK
<1>2. tx' = x /\ UNCHANGED <<now, token, queue, ledger>>
  <2>1. tx' = [tx EXCEPT !.token = tx.token, !.queue = v, !.left = @ - 1]
    BY DEF CleanFront, Continue, World
  <2> HIDE DEF v
  <2>2. tx' = x
    BY <1>1, <2>1 DEF Loops
  <2> QED BY <2>2 DEF CleanFront, Continue, OnTheCopy
<1>3. /\ QueueOK(v, k) /\ SharesPending(v) = SharesPending(q)
      /\ v.requests = q.requests /\ v.pendingRequests = q.pendingRequests
      /\ v.fulfilledRequests = q.fulfilledRequests
      /\ v.nextRequestId = q.nextRequestId
      /\ v.totalAllocatedFunds = q.totalAllocatedFunds /\ v.balance = q.balance
  BY <1>1, CleanOK
<1> HIDE DEF v
<1>4. WorldOK(tx.token, v, k)
  BY <1>1, <1>3 DEF WorldOK
<1>5. Reserves(queue, v)
  BY <1>1, <1>3 DEF LoopOK, Reserves
<1>6. /\ x \in Loops /\ x.token = tx.token /\ x.queue = v /\ x.op = tx.op
      /\ x.bips = tx.bips /\ x.excess = tx.excess
  <2>1. v \in QueueStorage /\ tx.left - 1 \in Nat
    BY <1>1, <1>3, LoopFields DEF QueueOK
  <2> QED BY <1>1, <2>1 DEF Loops
<1> HIDE DEF x
<1>7. v.balance >= v.totalAllocatedFunds + tx.excess
  BY <1>1, <1>3 DEF LoopOK
<1>8. LoopOK(queue, x, k)
  BY <1>1, <1>4, <1>5, <1>6, <1>7 DEF LoopOK
<1> QED BY <1>2, <1>8, GoesOn DEF Kept

(* depositFromStaking fulfils the request at the front *)
LEMMA FulfilFrontOK ==
  ASSUME QueueInv, FulfilFront
  PROVE  Kept
<1> DEFINE q == tx.queue
           t == tx.token
           r == Head(q.pendingRequestsQueue)
           w == World(t, q)
           u == Fulfil(w, r)
           g == Redeemed(w, r)
           y == tx.excess + g - q.requests[r].expectedAssets
           x == [tx EXCEPT !.token = u.token, !.queue = u.queue, !.left = @ - 1,
                           !.avail = @ - g, !.excess = y]
           k == ledger.promised
<1>1. /\ LoopOK(queue, tx, k) /\ tx.op = "fulfil" /\ tx \in Loops
      /\ WorldOK(t, q, k) /\ q.balance >= q.totalAllocatedFunds + tx.excess
      /\ tx.left > 0 /\ r \in q.pendingRequests
  BY Busy DEF FulfilFront, Looping, FrontIsPending, Front, LoopOK
<1>2. /\ CanRedeemAVAX(t, Queue, q.requests[r].shares)
      /\ g >= q.requests[r].expectedAssets /\ tx.avail >= g
  BY DEF FulfilFront, CanFulfil, Front, Expected, Copy
<1>3. tx' = x /\ UNCHANGED <<now, token, queue, ledger>>
  BY DEF FulfilFront, Front, Expected, Copy, OnTheCopy
<1>4. tx.excess \in Nat /\ tx.left - 1 \in Nat /\ tx.avail \in Nat
  BY <1>1, LoopFields
<1>5. /\ WorldOK(u.token, u.queue, k) /\ Fulfilled(q, r, u.queue)
      /\ \A i \in u.queue.pendingRequests : r < i
      /\ y \in Nat /\ u.queue.balance >= u.queue.totalAllocatedFunds + y
      /\ g \in Nat
  <2> DEFINE e == tx.excess
  <2> HIDE DEF q, t, r, e
  <2>1. e \in Nat /\ q.balance >= q.totalAllocatedFunds + e
    BY <1>1, <1>4 DEF e
  <2>2. /\ r = Head(q.pendingRequestsQueue)
        /\ Redeemed(World(t, q), r) >= q.requests[r].expectedAssets
    BY <1>2 DEF r
  <2>3. /\ WorldOK(u.token, u.queue, k) /\ Fulfilled(q, r, u.queue)
        /\ \A i \in u.queue.pendingRequests : r < i
        /\ e + g - q.requests[r].expectedAssets \in Nat
        /\ u.queue.balance
             >= u.queue.totalAllocatedFunds + (e + g - q.requests[r].expectedAssets)
        /\ g \in Nat
    BY <1>1, <1>2, <2>1, <2>2, FulfilOK
  <2> QED BY <2>3 DEF e
<1> HIDE DEF u, g, y
<1>6. /\ x \in Loops /\ x.token = u.token /\ x.queue = u.queue /\ x.op = tx.op
      /\ x.bips = tx.bips /\ x.excess = y
  <2>1. /\ u.token \in TokenStorage /\ u.queue \in QueueStorage /\ tx.avail - g \in Nat
    BY <1>2, <1>4, <1>5 DEF WorldOK, VaultOK, QueueOK
  <2> QED BY <1>1, <1>4, <1>5, <2>1 DEF Loops
<1> HIDE DEF x
<1>7. Reserves(queue, u.queue)
  <2>1. Reserves(queue, q)
    BY <1>1 DEF LoopOK
  <2>2. /\ u.queue.nextRequestId = q.nextRequestId
        /\ u.queue.pendingRequests = q.pendingRequests \ {r}
        /\ u.queue.fulfilledRequests = q.fulfilledRequests \cup {r}
    BY <1>5 DEF Fulfilled
  <2> HIDE DEF q, r
  <2>3. u.queue.fulfilledRequests
          = queue.fulfilledRequests \cup (queue.pendingRequests \ u.queue.pendingRequests)
    BY <1>1, <2>1, <2>2 DEF Reserves
  <2>4. \A a \in queue.pendingRequests \ u.queue.pendingRequests,
           b \in u.queue.pendingRequests : a < b
    BY <1>5, <2>1, <2>2 DEF Reserves
  <2> QED BY <2>1, <2>2, <2>3, <2>4 DEF Reserves
<1>8. LoopOK(queue, x, k)
  BY <1>1, <1>5, <1>6, <1>7 DEF LoopOK
<1> QED BY <1>3, <1>8, GoesOn DEF Kept

(* depositFromStaking ends: what is over is yield *)
LEMMA EndDepositOK ==
  ASSUME QueueInv, EndDepositFromStaking
  PROVE  Kept
<1> DEFINE q == tx.queue
           e == tx.excess
           t == DepositYield(tx.token, e, tx.bips)
           v == [q EXCEPT !.balance = @ - e]
           k == ledger.promised
<1>1. /\ LoopOK(queue, tx, k) /\ tx.op = "fulfil" /\ tx \in Loops
  BY Busy DEF EndDepositFromStaking
<1>2. /\ WorldOK(tx.token, q, k) /\ q.balance >= q.totalAllocatedFunds + e
      /\ e \in Nat /\ tx.bips \in 0..Bips /\ Reserves(queue, q)
  BY <1>1, LoopFields DEF LoopOK
<1>3. token' = t /\ queue' = v /\ ledger' = ledger /\ now' = now /\ tx' = Idle
  BY DEF EndDepositFromStaking, Commit, Becomes, World
<1>4. WorldOK(t, q, k)
  BY <1>2, YieldOK
<1> HIDE DEF t
<1>5. /\ WorldOK(t, v, k) /\ v.nextRequestId = q.nextRequestId
      /\ v.pendingRequests = q.pendingRequests /\ v.fulfilledRequests = q.fulfilledRequests
  <2> HIDE DEF q, e
  <2> QED BY <1>2, <1>4, SpendOK
<1> HIDE DEF v
<1>6. Reserves(queue, v)
  BY <1>2, <1>5 DEF Reserves
<1> QED BY <1>3, <1>5, <1>6, Quietly

(* Every step of the queue *)
LEMMA QueueNextOK ==
  ASSUME QueueInv, QueueNext
  PROVE  Kept
<1>1. CASE HolderQueueNext
  <2>1. ASSUME NEW a \in Callers, NEW s \in Amounts, NEW delay \in ExpirationDelays,
               RequestUnstakeTx(a, s, delay)
        PROVE  Kept
    BY <2>1, QueueFacts, RequestTxOK DEF RequestUnstakeTx
  <2>2. ASSUME NEW a \in Callers, NEW s \in Amounts, NEW delay \in ExpirationDelays,
               NEW b \in Requesters, RequestUnstakeOnBehalfOfTx(a, b, s, delay)
        PROVE  Kept
    BY <2>2, QueueFacts, RequestTxOK DEF RequestUnstakeOnBehalfOfTx
  <2> QED BY <1>1, <2>1, <2>2, ClaimTxOK, CancelTxOK, ReclaimTxOK, BeginBatchOK, GetNextTxOK
          DEF HolderQueueNext
<1>2. CASE DepositorNext
  <2>1. FeeBips \subseteq 0..Bips /\ Amounts \cup {0} \subseteq Nat
    BY QueueFacts
  <2> QED BY <1>2, <2>1, BeginDepositOK, RescueTxOK DEF DepositorNext
<1>3. CASE LoopNext
  <2>1. CASE RevertDepositFromStaking
    BY <2>1, RevertOK DEF RevertDepositFromStaking
  <2> QED BY <1>3, <2>1, CleanFrontOK, FulfilFrontOK, EndDepositOK, CancelNextOK,
             ReclaimNextOK, EndBatchOK DEF LoopNext
<1> QED BY <1>1, <1>2, <1>3, AdminOK, VaultNextOK DEF QueueNext

-----------------------------------------------------------------------------
(* The theorems *)

(* Nor does a step that changes nothing break the invariant. *)
LEMMA QueueStutters ==
  ASSUME QueueInv, UNCHANGED queueVars
  PROVE  QueueInv'
<1>1. UNCHANGED <<now, token, queue, tx, ledger>>
  BY DEF queueVars
<1>2. CASE tx = Idle
  <2>1. Effect(queue, ledger, queue, ledger)
    BY DEF Effect, GivesBack
  <2>2. WorldOK(token, queue, ledger.promised)
    BY DEF QueueInv
  <2> QED BY <1>1, <1>2, <2>1, <2>2, Lands
<1>3. CASE LoopOK(queue, tx, ledger.promised)
  BY <1>1, <1>3, GoesOn
<1> QED BY <1>2, <1>3 DEF QueueInv

(* What is said above of the two contracts holds at any time, between the  *)
(* iterations of a loop and in the copy it works on as well.               *)
THEOREM QueueInvariant == QueueSpec => []QueueInv
<1>1. QueueInv /\ [QueueNext]_queueVars => QueueInv'
  BY QueueNextOK, QueueStutters DEF Kept
<1> QED BY QueueInitOK, <1>1, PTL DEF QueueSpec

(* The storages of the queue, of the vault and of a loop keep their shape: *)
(* no subtraction in WithdrawQueue.sol goes below 0.                       *)
THEOREM QueueTypeCorrect == QueueSpec => []QueueTypeOK
<1>1. QueueInv => QueueTypeOK
  BY DEF QueueInv, WorldOK, VaultOK, QueueOK, LedgerOK, LoopOK, QueueTypeOK, TokenTypeOK
<1> QED BY QueueInvariant, <1>1, PTL

(* The balance of the queue covers what is set aside, and that is the sum  *)
(* of what the requests that wait for a claim were given.                  *)
THEOREM AllocationsCorrect == QueueSpec => []AllocationsCovered
<1>1. QueueInv => AllocationsCovered
  BY DEF QueueInv, WorldOK, QueueOK, Funded, AllocationsCovered
<1> QED BY QueueInvariant, <1>1, PTL

(* The queue holds the shares of every pending request. *)
THEOREM SharesCorrect == QueueSpec => []SharesHeld
<1>1. QueueInv => SharesHeld
  BY DEF QueueInv, WorldOK, SharesHeld
<1> QED BY QueueInvariant, <1>1, PTL

(* The five structures that index the requests agree. *)
LEMMA IndexedNow ==
  ASSUME QueueInv
  PROVE  Indexed
<1>1. queue \in QueueStorage /\ Listed(queue) /\ Lined(queue)
  BY DEF QueueInv, WorldOK, QueueOK
<1>2. \A r \in Ids : queue.requests[r] # NoRequest <=> r \in Live(queue)
  BY <1>1, NoRequestFields DEF Listed
<1> QED BY <1>1, <1>2 DEF Indexed, Listed, Lined, Live

(* They agree between any two transactions. *)
THEOREM IndexCorrect == QueueSpec => []Indexed
<1>1. QueueInv => Indexed
  BY IndexedNow
<1> QED BY QueueInvariant, <1>1, PTL

(* What a request is given, and what its owner is paid, is what it was     *)
(* promised when it was made.                                              *)
THEOREM PromiseCorrect == QueueSpec => []PromiseKept
<1>1. QueueInv => PromiseKept
  BY DEF QueueInv, WorldOK, QueueOK, Entitled, LedgerOK, PromiseKept
<1> QED BY QueueInvariant, <1>1, PTL

(* The shares of a pending request are worth its promise.                  *)
LEMMA NeverShort ==
  ASSUME QueueInv
  PROVE  RedemptionNeverShort
<1> SUFFICES ASSUME NEW r \in queue.pendingRequests
             PROVE  LET s == queue.requests[r].shares
                        e == queue.requests[r].expectedAssets
                    IN  ConvertToAssets(token, s) >= e /\ ConvertToShares(token, e) <= s
  BY DEF RedemptionNeverShort
<1>1. /\ VaultOK(token) /\ AtPar(token) /\ queue \in QueueStorage
      /\ WorthIt(token, queue.requests[r].shares, queue.requests[r].expectedAssets)
  BY DEF QueueInv, WorldOK, QueueOK
<1>2. queue.requests[r].shares \in Nat /\ queue.requests[r].expectedAssets \in Nat
  BY <1>1, QueueFields, RequestFields
<1> QED BY <1>1, <1>2, Market

(* So its redemption does not fail with InvalidRedemptionAmount, and its   *)
(* cancellation does not return more shares than were locked.              *)
THEOREM RedemptionCorrect == QueueSpec => []RedemptionNeverShort
<1>1. QueueInv => RedemptionNeverShort
  BY NeverShort
<1> QED BY QueueInvariant, <1>1, PTL

-----------------------------------------------------------------------------
(* What a deposit takes off the deque *)

(* Deque e is deque d without its first n entries. *)
Taken(d, e, n) == n \in 0 .. Len(d) /\ e = SubSeq(d, n + 1, Len(d))

(* A loop x of depositFromStaking on queue q: each iteration took the      *)
(* front of the deque, and its count of what is available is the vault's.  *)
Serving(q, x) ==
  /\ Taken(q.pendingRequestsQueue, x.queue.pendingRequestsQueue,
           q.maxRequestsPerStakingDeposit - x.left)
  /\ x.avail = Available(x.token)

QueueServes == tx.op = "fulfil" => Serving(queue, tx)

(* One more entry is taken. *)
LEMMA TakeFront ==
  ASSUME NEW d \in Seq(Ids), NEW e, NEW n, Taken(d, e, n), e # <<>>
  PROVE  Taken(d, Tail(e), n + 1)
<1>1. n \in Nat /\ n <= Len(d) /\ Len(d) \in Nat /\ e = SubSeq(d, n + 1, Len(d))
  BY DEF Taken
<1>2. n # Len(d)
  BY <1>1, SubSeqEmpty
<1>3. n + 1 \in 1 .. Len(d) /\ Len(d) \in n + 1 .. Len(d)
  BY <1>1, <1>2
<1>4. Tail(SubSeq(d, n + 1, Len(d))) = SubSeq(d, (n + 1) + 1, Len(d))
  BY <1>3, HeadTailOfSubSeq
<1>5. n + 1 \in 0 .. Len(d)
  BY <1>1, <1>3
<1> QED BY <1>1, <1>4, <1>5 DEF Taken

(* All of the deque is left when nothing is taken. *)
LEMMA TakeNothing ==
  ASSUME NEW d \in Seq(Ids)
  PROVE  Taken(d, d, 0)
<1>1. Len(d) \in Nat /\ SubSeq(d, 1, Len(d)) = d /\ 0 + 1 = 1
  BY SubSeqFull
<1> QED BY <1>1 DEF Taken

(* What is available is not more than the vault has. *)
LEMMA AvailableBounds ==
  ASSUME NEW t, VaultOK(t)
  PROVE  /\ Available(t) \in Nat /\ Available(t) <= t.wavax
         /\ t.wavax \in Nat /\ TotalAssets(t) \in Nat /\ t.stakingTotalAssets \in Nat
<1>1. /\ t.wavax \in Nat /\ t.stakingTotalAssets \in Nat
      /\ t.totalReleasedAssets \in Nat /\ t.lastRewardsAmt \in Nat
      /\ TotalAssets(t) \in Nat
      /\ TotalAssets(t) <= t.totalReleasedAssets + t.lastRewardsAmt
      /\ t.wavax + t.stakingTotalAssets >= t.totalReleasedAssets + t.lastRewardsAmt
  BY VaultFields, TotalAssetsBounds DEF VaultOK, Backed
<1> QED BY <1>1 DEF Available

(* A redemption lowers what is available by what it pays. *)
LEMMA RedeemAvailable ==
  ASSUME NEW t, VaultOK(t), NEW a \in Accounts, NEW s, CanRedeemAVAX(t, a, s),
         ConvertToAssets(t, s) \in Nat, Available(t) >= ConvertToAssets(t, s)
  PROVE  Available(RedeemAVAX(t, a, s)) = Available(t) - ConvertToAssets(t, s)
<1> DEFINE g == ConvertToAssets(t, s)
           u == RedeemAVAX(t, a, s)
<1>1. /\ g \in Nat /\ g # 0 /\ t \in TokenStorage /\ t.totalReleasedAssets \in Nat
      /\ t.totalReleasedAssets >= g
  BY VaultFields DEF CanRedeemAVAX, CanPayOut, VaultOK
<1>2. /\ u.totalReleasedAssets = t.totalReleasedAssets - g /\ SameCycle(t, u)
      /\ u.stakingTotalAssets = t.stakingTotalAssets
  <2>1. u = PayOut(t, a, g, s)
    BY DEF RedeemAVAX
  <2> HIDE DEF g, u
  <2> QED BY <1>1, <2>1 DEF PayOut, BurnShares, SameCycle, TokenStorage
<1> HIDE DEF u
<1>3. u.totalReleasedAssets \in Nat
  BY <1>1, <1>2
<1>4. TotalAssets(u) = TotalAssets(t) + u.totalReleasedAssets - t.totalReleasedAssets
  BY <1>2, <1>3, TotalAssetsShift
<1>5. TotalAssets(t) \in Nat /\ t.stakingTotalAssets \in Nat
  BY AvailableBounds
<1> HIDE DEF g
<1>6. TotalAssets(u) = TotalAssets(t) - g
  BY <1>1, <1>2, <1>4, <1>5
<1>7. Available(t) >= g
  BY DEF g
<1>8. Available(u) = Available(t) - g
  BY <1>1, <1>2, <1>5, <1>6, <1>7 DEF Available
<1> QED BY <1>8 DEF g, u

(* A loop begins with all of the deque and the vault after the deposit. *)
LEMMA BeginServes ==
  ASSUME QueueInv, NEW x \in Nat, NEW y \in Nat, NEW bips \in 0..Bips,
         BeginDepositFromStaking(x, y, bips)
  PROVE  QueueServes'
<1> DEFINE t == DepositFromStaking(token, x, y, bips)
           d == queue.pendingRequestsQueue
           m == queue.maxRequestsPerStakingDeposit
<1>1. d \in Seq(Ids) /\ m \in Nat
  BY QueueFields DEF QueueInv, WorldOK, QueueOK
<1>2. /\ tx'.token = t /\ tx'.queue = queue /\ tx'.left = m /\ tx'.avail = Available(t)
      /\ queue' = queue /\ now' = now
  <2> HIDE DEF t
  <2> QED BY DEF BeginDepositFromStaking, Begin, OnTheCopy, t
<1> HIDE DEF t
<1>3. Available(tx.token)' = Available(t)
  BY <1>2 DEF Available, TotalAssets
<1>4. Taken(d, d, m - m)
  BY <1>1, TakeNothing
<1> QED BY <1>2, <1>3, <1>4 DEF QueueServes, Serving

(* An iteration on a stale entry takes it off. *)
LEMMA CleanServes ==
  ASSUME QueueInv, QueueServes, CleanFront
  PROVE  QueueServes'
<1> DEFINE d == queue.pendingRequestsQueue
           e == tx.queue.pendingRequestsQueue
           n == queue.maxRequestsPerStakingDeposit - tx.left
           v == [tx.queue EXCEPT !.pendingRequestsQueue = Tail(@)]
<1>1. /\ tx.op = "fulfil" /\ tx \in Loops /\ tx.queue \in QueueStorage /\ tx.left \in Nat
      /\ d \in Seq(Ids) /\ queue.maxRequestsPerStakingDeposit \in Nat
      /\ e # <<>>
  <2>1. tx.op = "fulfil" /\ tx \in Loops /\ QueueOK(tx.queue, ledger.promised)
    BY Busy DEF CleanFront, LoopOK, WorldOK
  <2>2. e # <<>>
    BY <2>1, DequeFront DEF CleanFront, Looping
  <2>3. queue \in QueueStorage
    BY DEF QueueInv, WorldOK, QueueOK
  <2> QED BY <2>1, <2>2, <2>3, QueueFields, LoopFields
<1>2. Taken(d, e, n) /\ tx.avail = Available(tx.token)
  BY <1>1 DEF QueueServes, Serving
<1>3. Taken(d, Tail(e), n + 1)
  <2> HIDE DEF d, e, n
  <2> QED BY <1>1, <1>2, TakeFront
<1>4. v.pendingRequestsQueue = Tail(e)
  BY <1>1 DEF QueueStorage
<1> HIDE DEF v
<1>5. tx' = [tx EXCEPT !.token = tx.token, !.queue = v, !.left = @ - 1]
      /\ queue' = queue /\ now' = now
  BY DEF CleanFront, Continue, OnTheCopy, World, v
<1>6. tx'.token = tx.token /\ tx'.queue = v /\ tx'.left = tx.left - 1 /\ tx'.avail = tx.avail
  BY <1>1, <1>5 DEF Loops
<1>7. Available(tx.token)' = Available(tx.token)
  BY <1>5, <1>6 DEF Available, TotalAssets
<1>8. n + 1 = queue.maxRequestsPerStakingDeposit - (tx.left - 1)
  BY <1>1
<1> HIDE DEF n
<1> QED BY <1>2, <1>3, <1>4, <1>5, <1>6, <1>7, <1>8 DEF QueueServes, Serving

(* So does one that fulfils a request, and what it pays is available no more. *)
LEMMA FulfilServes ==
  ASSUME QueueInv, QueueServes, FulfilFront
  PROVE  QueueServes'
<1> DEFINE d == queue.pendingRequestsQueue
           q == tx.queue
           e == q.pendingRequestsQueue
           n == queue.maxRequestsPerStakingDeposit - tx.left
           r == Head(e)
           s == q.requests[r].shares
           g == ConvertToAssets(tx.token, s)
           t == RedeemAVAX(tx.token, Queue, s)
           v == Fulfil(World(tx.token, q), r).queue
<1>1. /\ tx.op = "fulfil" /\ tx \in Loops /\ q \in QueueStorage /\ tx.left \in Nat
      /\ d \in Seq(Ids) /\ queue.maxRequestsPerStakingDeposit \in Nat
      /\ e # <<>> /\ VaultOK(tx.token) /\ AtPar(tx.token) /\ s \in Nat
  <2>1. /\ tx.op = "fulfil" /\ tx \in Loops /\ QueueOK(q, ledger.promised)
        /\ VaultOK(tx.token) /\ AtPar(tx.token)
    BY Busy DEF FulfilFront, LoopOK, WorldOK
  <2>2. e # <<>> /\ r \in Ids
    BY <2>1, DequeFront DEF FulfilFront, Looping
  <2>3. queue \in QueueStorage /\ q \in QueueStorage
    BY <2>1 DEF QueueInv, WorldOK, QueueOK
  <2>4. s \in Nat
    BY <2>2, <2>3, QueueFields, RequestFields
  <2> QED BY <2>1, <2>2, <2>3, <2>4, QueueFields, LoopFields
<1>2. Taken(d, e, n) /\ tx.avail = Available(tx.token)
  BY <1>1 DEF QueueServes, Serving
<1>3. Taken(d, Tail(e), n + 1)
  <2> HIDE DEF d, e, n
  <2> QED BY <1>1, <1>2, TakeFront
<1>4. g = Redeemed(World(tx.token, q), r)
  BY DEF Redeemed, World
<1>5. CanRedeemAVAX(tx.token, Queue, s) /\ tx.avail >= g
  BY <1>4 DEF FulfilFront, CanFulfil, Front, Copy
<1>6. Available(t) = tx.avail - g
  <2>1. g \in Nat
    BY <1>1, Market
  <2>2. Queue \in Accounts
    BY QueueFacts
  <2> HIDE DEF s
  <2> QED BY <1>1, <1>2, <1>5, <2>1, <2>2, RedeemAvailable
<1>7. v.pendingRequestsQueue = Tail(e)
  BY <1>1 DEF Fulfil, World, QueueStorage
<1>8. /\ tx'.token = t /\ tx'.queue = v /\ tx'.left = tx.left - 1 /\ tx'.avail = tx.avail - g
      /\ queue' = queue /\ now' = now
  <2> DEFINE w == Fulfil(World(tx.token, q), r)
             x == tx.excess + Redeemed(World(tx.token, q), r) - q.requests[r].expectedAssets
  <2>1. /\ tx' = [tx EXCEPT !.token = w.token, !.queue = w.queue, !.left = @ - 1,
                            !.avail = @ - Redeemed(World(tx.token, q), r), !.excess = x]
        /\ queue' = queue /\ now' = now
    BY DEF FulfilFront, Front, Expected, Copy, OnTheCopy
  <2>2. w.token = t
    BY DEF Fulfil, World
  <2> HIDE DEF w, x, g, t
  <2> QED BY <1>1, <1>4, <2>1, <2>2 DEF Loops, v, w
<1> HIDE DEF g, t, v
<1>9. Available(tx.token)' = Available(t)
  BY <1>8 DEF Available, TotalAssets
<1>10. n + 1 = queue.maxRequestsPerStakingDeposit - (tx.left - 1)
  BY <1>1
<1> HIDE DEF n
<1> QED BY <1>3, <1>6, <1>7, <1>8, <1>9, <1>10 DEF QueueServes, Serving

(* No other step works for depositFromStaking. *)
LEMMA ServesOK ==
  ASSUME QueueInv, QueueServes, [QueueNext]_queueVars
  PROVE  QueueServes'
<1>1. ASSUME tx'.op # "fulfil" PROVE QueueServes'
  BY <1>1 DEF QueueServes
<1>2. ASSUME tx' = Idle PROVE QueueServes'
  BY <1>1, <1>2 DEF Idle
<1>3. ASSUME InOneStep PROVE QueueServes'
  BY <1>2, <1>3 DEF InOneStep
<1>4. CASE HolderQueueNext
  <2>1. ASSUME NEW op \in {"cancel", "reclaim"}, NEW t, NEW o, NEW left, Begin(op, t, o, left, 0)
        PROVE  QueueServes'
    BY <1>1, <2>1 DEF Begin
  <2> QED BY <1>3, <1>4, <2>1
          DEF HolderQueueNext, RequestUnstakeTx, RequestUnstakeOnBehalfOfTx, ClaimUnstakeTx,
              CancelRequestTx, ReclaimExpiredRequestTx, GetNextPendingRequestAmountTx,
              BeginCancelRequests, BeginReclaimExpiredFunds
<1>5. CASE DepositorNext
  <2>1. FeeBips \subseteq 0..Bips /\ Amounts \cup {0} \subseteq Nat
    BY QueueFacts
  <2> QED BY <1>3, <1>5, <2>1, BeginServes DEF DepositorNext, RescueStuckAVAXTx
<1>6. CASE AdminNext
  BY <1>3, <1>6 DEF AdminNext, SetMaxRequestsPerStakingDepositTx,
     SetMinUnstakeOnBehalfOfAmtTx, SetUnstakeDelayTx, SetMaxExpirationDelayTx, SetQueuePausedTx
<1>7. CASE VaultNext
  <2>1. tx' = Idle
    BY <1>7 DEF VaultNext, QueueStands
  <2> QED BY <1>2, <2>1
<1>8. CASE LoopNext
  <2>1. ASSUME NEW op \in {"cancel", "reclaim"}, Running(op), NEW w, Continue(w) \/ Revert
        PROVE  QueueServes'
    <3>1. CASE Revert
      BY <1>2, <3>1 DEF Revert
    <3>2. CASE Continue(w)
      <4>1. tx \in Loops /\ tx.op # "fulfil"
        BY <2>1, Busy
      <4>2. tx'.op = tx.op
        BY <3>2, <4>1 DEF Continue, Loops
      <4> QED BY <1>1, <4>1, <4>2
    <3> QED BY <2>1, <3>1, <3>2
  <2>2. ASSUME NEW r \in Ids, CancelNext(r) \/ ReclaimNext(r) PROVE QueueServes'
    BY <2>1, <2>2 DEF CancelNext, ReclaimNext
  <2>3. ASSUME \/ EndDepositFromStaking \/ RevertDepositFromStaking
               \/ EndCancelRequests \/ EndReclaimExpiredFunds
        PROVE  QueueServes'
    BY <1>2, <2>3 DEF EndDepositFromStaking, RevertDepositFromStaking, EndCancelRequests,
                      EndReclaimExpiredFunds, Commit, Revert
  <2> QED BY <1>8, <2>2, <2>3, CleanServes, FulfilServes DEF LoopNext
<1>9. CASE UNCHANGED queueVars
  <2>1. tx' = tx /\ queue' = queue /\ now' = now
    BY <1>9 DEF queueVars
  <2>2. Available(tx.token)' = Available(tx.token)
    BY <2>1 DEF Available, TotalAssets
  <2> QED BY <2>1, <2>2 DEF QueueServes, Serving
<1> QED BY <1>4, <1>5, <1>6, <1>7, <1>8, <1>9 DEF QueueNext

(* The yield a loop ends with changes neither the price nor what is available. *)
LEMMA YieldAvailable ==
  ASSUME NEW t, VaultOK(t), NEW x \in Nat, NEW bips \in 0..Bips, NEW s
  PROVE  LET u == DepositYield(t, x, bips)
         IN  Available(u) = Available(t) /\ ConvertToAssets(u, s) = ConvertToAssets(t, s)
<1> DEFINE u == DepositYield(t, x, bips)
<1>1. /\ u.totalSupply = t.totalSupply /\ u.stakingTotalAssets = t.stakingTotalAssets
  BY DEF DepositYield, VaultOK, TokenStorage
<1>2. PriceKept(t, u)
  BY DepositYieldOK
<1> HIDE DEF u
<1>3. TotalAssets(u) = TotalAssets(t)
  BY <1>1, <1>2 DEF PriceKept
<1>4. Available(u) = Available(t) /\ ConvertToAssets(u, s) = ConvertToAssets(t, s)
  BY <1>1, <1>3 DEF Available, ConvertToAssets
<1> QED BY <1>4 DEF u

(* A loop that ends with requests left ends at one it cannot pay for. *)
LEMMA EndServes ==
  ASSUME QueueInv, QueueServes, EndDepositFromStaking
  PROVE  ServesFront
<1> DEFINE q == tx.queue
           t == DepositYield(tx.token, tx.excess, tx.bips)
           v == [q EXCEPT !.balance = @ - tx.excess]
           d == queue.pendingRequestsQueue
           e == q.pendingRequestsQueue
           m == queue.maxRequestsPerStakingDeposit
           r == Head(e)
           s == q.requests[r].shares
           x == q.requests[r].expectedAssets
           g == ConvertToAssets(tx.token, s)
<1>1. /\ tx.op = "fulfil" /\ tx \in Loops /\ WorldOK(tx.token, q, ledger.promised)
      /\ tx.bips \in 0..Bips
  BY Busy DEF EndDepositFromStaking, LoopOK
<1>2. /\ VaultOK(tx.token) /\ AtPar(tx.token) /\ QueueOK(q, ledger.promised)
      /\ q \in QueueStorage /\ queue \in QueueStorage /\ tx.excess \in Nat /\ tx.left \in Nat
      /\ tx.avail \in Nat
  BY <1>1, LoopFields DEF WorldOK, QueueOK, QueueInv
<1>3. token' = t /\ queue' = v /\ now' = now
  BY DEF EndDepositFromStaking, Commit, Becomes, World
<1>4. /\ v.pendingRequestsQueue = e /\ v.pendingRequests = q.pendingRequests
      /\ v.requests = q.requests
  BY <1>2 DEF QueueStorage
<1>5. d \in Seq(Ids) /\ m \in Nat /\ Taken(d, e, m - tx.left) /\ tx.avail = Available(tx.token)
  BY <1>1, <1>2, QueueFields DEF QueueServes, Serving
<1> HIDE DEF t, v, d, e, m
<1>6. Len(d) - Len(e) = m - tx.left
  <2> DEFINE n == m - tx.left
  <2>1. n \in 0 .. Len(d) /\ e = SubSeq(d, n + 1, Len(d)) /\ Len(d) \in Nat
    BY <1>5 DEF Taken
  <2> HIDE DEF n
  <2>2. \A i \in n + 1 .. Len(d) : d[i] \in Ids
    BY <1>5, <2>1
  <2>3. Len(e) = IF n + 1 <= Len(d) THEN Len(d) - (n + 1) + 1 ELSE 0
    BY <2>1, <2>2, SubSeqProperties
  <2>4. Len(d) - Len(e) = n
    BY <2>1, <2>3
  <2> QED BY <2>4 DEF n
<1>7. ASSUME q.pendingRequests # {}, tx.left # 0 PROVE FrontUnpayable'
  <2>1. r \in q.pendingRequests /\ (tx.avail < x \/ (g # 0 /\ tx.token.wavax < g))
    BY <1>2, <1>7 DEF EndDepositFromStaking, Looping, FrontIsPending, Front, OutOfLiquidity,
                      Expected, Illiquid, Redeemed, Copy, World, e
  <2>2. s \in Nat /\ x \in Nat /\ WorthIt(tx.token, s, x)
    BY <1>1, <1>2, <2>1, QueueFields, RequestFields DEF WorldOK
  <2>3. g \in Nat /\ g >= x
    <3> HIDE DEF s, x
    <3> QED BY <1>2, <2>2, Market
  <2>4. Available(tx.token) < g
    <3>1. /\ Available(tx.token) \in Nat /\ tx.token.wavax \in Nat
          /\ Available(tx.token) <= tx.token.wavax
      BY <1>2, AvailableBounds
    <3> HIDE DEF x, g
    <3> QED BY <1>5, <2>1, <2>2, <2>3, <3>1
  <2>5. Available(t) < ConvertToAssets(t, s)
    <3>1. Available(t) = Available(tx.token) /\ ConvertToAssets(t, s) = g
      <4> HIDE DEF s
      <4> QED BY <1>1, <1>2, YieldAvailable DEF t, g
    <3> QED BY <2>4, <3>1
  <2>6. /\ FirstWaiting' = r /\ queue'.requests[r].shares = s
        /\ queue'.pendingRequests = q.pendingRequests
    BY <1>3, <1>4 DEF FirstWaiting
  <2>7. Redeemed(TheWorld, FirstWaiting)' = ConvertToAssets(t, s)
    BY <1>3, <2>6 DEF Redeemed, TheWorld, World, ConvertToAssets, TotalAssets
  <2>8. Available(token)' = Available(t)
    BY <1>3 DEF Available, TotalAssets
  <2> HIDE DEF r, s
  <2> QED BY <2>1, <2>5, <2>6, <2>7, <2>8 DEF FrontUnpayable
<1>8. tx.left = 0 => m - tx.left = m
  BY <1>5
<1>9. m - tx.left \in 0 .. m
  BY <1>2, <1>5 DEF Taken
<1>10. e = SubSeq(d, (m - tx.left) + 1, Len(d))
  BY <1>5 DEF Taken
<1>11. queue'.pendingRequestsQueue = e /\ queue'.pendingRequests = q.pendingRequests
  BY <1>3, <1>4
<1> QED BY <1>6, <1>7, <1>8, <1>9, <1>10, <1>11 DEF ServesFront, d, m

(* A deposit takes entries off the front of the deque, no more than its    *)
(* limit, and stops before that only with nobody left or before a request  *)
(* it cannot pay for.                                                      *)
THEOREM DepositServesCorrect == QueueSpec => DepositServesFront
<1> DEFINE Inv == QueueInv /\ QueueServes
<1>1. QueueInit => QueueServes
  BY DEF QueueInit, Idle, QueueServes
<1>2. Inv /\ [QueueNext]_queueVars => Inv'
  <2>1. QueueInv /\ [QueueNext]_queueVars => QueueInv'
    BY QueueNextOK, QueueStutters DEF Kept
  <2> QED BY <2>1, ServesOK
<1>3. ASSUME Inv PROVE [ EndDepositFromStaking => ServesFront ]_queueVars
  BY <1>3, EndServes
<1> QED BY QueueInitOK, <1>1, <1>2, <1>3, PTL DEF QueueSpec, DepositServesFront

-----------------------------------------------------------------------------
(* The promise: what the requests are to UnstakePromise *)

StatusIn(q, l, r) ==
  IF r >= q.nextRequestId THEN "none"
  ELSE IF r \in q.pendingRequests THEN "waiting"
  ELSE IF r \in q.fulfilledRequests THEN "reserved"
  ELSE IF l.paid[r] > 0 THEN "paid" ELSE "returned"

Statuses(q, l) == [r \in Ids |-> StatusIn(q, l, r)]

(* The mapping of the refinement, of the state and of the next one *)
LEMMA StatusMapped ==
  /\ [r \in Ids |-> Status(r)] = Statuses(queue, ledger)
  /\ [r \in Ids |-> Status(r)]' = Statuses(queue', ledger')
BY DEF Status, Statuses, StatusIn

(* What an id is, from where it is listed *)
LEMMA StatusFacts ==
  ASSUME NEW q, NEW l, QueueOK(q, l.promised), LedgerOK(q, l)
  PROVE  \A r \in Ids :
           /\ Statuses(q, l)[r] = "none" <=> r >= q.nextRequestId
           /\ Statuses(q, l)[r] = "waiting" <=> r \in q.pendingRequests
           /\ Statuses(q, l)[r] = "reserved" <=> r \in q.fulfilledRequests
           /\ r < q.nextRequestId /\ r \notin Live(q) /\ l.paid[r] > 0
                => Statuses(q, l)[r] = "paid"
           /\ r < q.nextRequestId /\ r \notin Live(q) /\ l.paid[r] = 0
                => Statuses(q, l)[r] = "returned"
<1> SUFFICES ASSUME NEW r \in Ids
             PROVE  /\ StatusIn(q, l, r) = "none" <=> r >= q.nextRequestId
                    /\ StatusIn(q, l, r) = "waiting" <=> r \in q.pendingRequests
                    /\ StatusIn(q, l, r) = "reserved" <=> r \in q.fulfilledRequests
                    /\ r < q.nextRequestId /\ r \notin Live(q) /\ l.paid[r] > 0
                         => StatusIn(q, l, r) = "paid"
                    /\ r < q.nextRequestId /\ r \notin Live(q) /\ l.paid[r] = 0
                         => StatusIn(q, l, r) = "returned"
  BY DEF Statuses
<1>1. r \in Nat /\ q.nextRequestId \in Nat /\ l.paid[r] \in Nat
  BY QueueFields, LedgerFields, QueueFacts DEF QueueOK, LedgerOK
<1>2. r \in Live(q) => r < q.nextRequestId
  BY DEF QueueOK, Listed
<1>3. r \in q.pendingRequests => r \notin q.fulfilledRequests
  BY DEF QueueOK, Listed
<1> QED BY <1>1, <1>2, <1>3 DEF StatusIn, Live

(* The sets of the promise are those of the queue. *)
LEMMA WithIsListed ==
  ASSUME QueueInv
  PROVE  /\ Promise!Requests = Ids
         /\ Promise!With("none") = {r \in Ids : r >= queue.nextRequestId}
         /\ Promise!With("waiting") = queue.pendingRequests
         /\ Promise!With("reserved") = queue.fulfilledRequests
<1>1. /\ QueueOK(queue, ledger.promised) /\ LedgerOK(queue, ledger)
      /\ queue.pendingRequests \in SUBSET Ids /\ queue.fulfilledRequests \in SUBSET Ids
  BY QueueFields DEF QueueInv, WorldOK, QueueOK
<1>2. Promise!Requests = Ids
  BY DEF Promise!Requests, Ids
<1>3. \A s : Promise!With(s) = {r \in Ids : Statuses(queue, ledger)[r] = s}
  BY <1>2, StatusMapped DEF Promise!With
<1> QED BY <1>1, <1>2, <1>3, StatusFacts

(* A request is made *)
LEMMA AsksOK ==
  ASSUME QueueInv, QueueInv', NEW r \in Ids, Asks(queue, ledger, queue', ledger', r)
  PROVE  Promise!Ask(r)
<1> DEFINE s == Statuses(queue, ledger)
           t == Statuses(queue', ledger')
           k == ledger.promised
<1>1. /\ QueueOK(queue, k) /\ LedgerOK(queue, ledger) /\ k \in [Ids -> Nat]
      /\ queue.nextRequestId \in Nat /\ r \in Nat /\ ledger \in Ledger
      /\ queue.fulfilledRequests \in SUBSET Ids
  BY LedgerFields, QueueFields, QueueFacts DEF QueueInv, WorldOK, QueueOK, LedgerOK
<1>2. QueueOK(queue', ledger'.promised) /\ ledger'.promised \in [Ids -> Nat]
  BY LedgerFields DEF QueueInv, WorldOK, LedgerOK
<1>3. PICK x \in Nat \ {0} : ledger' = [ledger EXCEPT !.promised = [k EXCEPT ![r] = x]]
  BY DEF Asks
<1>4. /\ ledger'.promised = [k EXCEPT ![r] = x] /\ ledger'.promised[r] = x
      /\ ledger'.paid = ledger.paid
  BY <1>1, <1>3 DEF Ledger
<1>5. s[r] = "none" /\ \A o \in Promise!With("none") : r <= o
  BY <1>1, StatusFacts, WithIsListed, QueueFacts DEF Asks
<1>6. t = [i \in Ids |-> IF i \in {r} THEN "waiting" ELSE s[i]]
  <2> SUFFICES ASSUME NEW i \in Ids
               PROVE  StatusIn(queue', ledger', i)
                        = IF i \in {r} THEN "waiting" ELSE StatusIn(queue, ledger, i)
    BY DEF Statuses
  <2>1. i \in Nat
    BY QueueFacts
  <2> QED BY <1>1, <1>4, <2>1 DEF StatusIn, Asks
<1>7. queue'.totalAllocatedFunds = queue.totalAllocatedFunds
  <2> DEFINE F == queue.fulfilledRequests
             k2 == ledger'.promised
  <2>1. \A i \in F : k2[i] = k[i]
    BY <1>1, <1>4 DEF Asks, Live
  <2>2. IsFiniteSet(F)
    BY <1>1, QueueFacts, FS_Subset
  <2>3. /\ queue.totalAllocatedFunds = SumFunctionOnSet(k, F)
        /\ queue'.totalAllocatedFunds = SumFunctionOnSet(k2, F)
    <3>1. queue'.fulfilledRequests = F
      BY DEF Asks
    <3>2. queue'.totalAllocatedFunds = SumFunctionOnSet(k2, queue'.fulfilledRequests)
      BY <1>2, TotalIsPromised
    <3> QED BY <1>1, <3>1, <3>2, TotalIsPromised
  <2> HIDE DEF F, k2, k
  <2>4. SumFunctionOnSet(k2, F) = SumFunctionOnSet(k, F)
    BY <2>1, <2>2, SumAgree
  <2> QED BY <2>3, <2>4
<1> HIDE DEF s, t
<1>8. Promise!Set({r}, "waiting")
  BY <1>6, WithIsListed, StatusMapped DEF Promise!Set, s, t
<1>9. [i \in Ids |-> Status(i)][r] = "none"
  BY <1>5, StatusMapped DEF s
<1> QED BY <1>4, <1>5, <1>7, <1>8, <1>9 DEF Promise!Ask

(* UnstakePromise has its own copy of the sum of the library. *)
LEMMA SameSum ==
  ASSUME NEW f, NEW S
  PROVE  Promise!SumFunctionOnSet(f, S) = SumFunctionOnSet(f, S)
BY DEF Promise!SumFunctionOnSet, Promise!FoldFunctionOnSet, Promise!MapThenFoldSet,
       SumFunctionOnSet, FoldFunctionOnSet, MapThenFoldSet

(* A request is paid *)
LEMMA PaysOK ==
  ASSUME QueueInv, QueueInv', NEW r \in Ids, Pays(queue, ledger, queue', ledger', r)
  PROVE  Promise!Pay(r)
<1> DEFINE s == Statuses(queue, ledger)
           t == Statuses(queue', ledger')
           k == ledger.promised
<1>1. /\ QueueOK(queue, k) /\ LedgerOK(queue, ledger) /\ k \in [Ids -> Nat]
      /\ ledger \in Ledger /\ ledger.paid \in [Ids -> Nat]
      /\ queue.pendingRequests \in SUBSET Ids /\ queue.fulfilledRequests \in SUBSET Ids
  BY LedgerFields, QueueFields DEF QueueInv, WorldOK, QueueOK, LedgerOK
<1>2. /\ ledger' = [ledger EXCEPT !.paid = [ledger.paid EXCEPT ![r] = k[r]]]
      /\ r \in queue.fulfilledRequests
  BY DEF Pays
<1>3. /\ ledger'.paid = [ledger.paid EXCEPT ![r] = k[r]] /\ ledger'.paid[r] = k[r]
      /\ ledger'.promised = k
  BY <1>1, <1>2 DEF Ledger
<1>4. QueueOK(queue', k) /\ QueueOK(queue', ledger'.promised) /\ LedgerOK(queue', ledger')
  BY <1>3 DEF QueueInv, WorldOK
<1>5. s[r] = "reserved"
  BY <1>1, <1>2, StatusFacts
<1>6. /\ r \notin queue.pendingRequests /\ r \in Live(queue) /\ r < queue.nextRequestId
      /\ k[r] > 0
  BY <1>1, <1>2 DEF QueueOK, Listed, Live, Entitled
<1>7. t = [i \in Ids |-> IF i \in {r} THEN "paid" ELSE s[i]]
  <2>1. t[r] = "paid"
    <3>1. r \notin Live(queue') /\ r < queue'.nextRequestId
      BY <1>6 DEF Pays, Live
    <3> QED BY <1>3, <1>4, <1>6, <3>1, StatusFacts
  <2>2. ASSUME NEW i \in Ids, i # r
        PROVE  StatusIn(queue', ledger', i) = StatusIn(queue, ledger, i)
    <3>1. ledger'.paid[i] = ledger.paid[i]
      BY <1>1, <1>3, <2>2
    <3> QED BY <2>2, <3>1 DEF StatusIn, Pays
  <2> QED BY <2>1, <2>2 DEF Statuses
<1>8. queue'.totalAllocatedFunds = queue.totalAllocatedFunds - k[r]
  <2> DEFINE u == queue'
  <2>1. u.fulfilledRequests \cap {r} = {}
        /\ queue.fulfilledRequests = u.fulfilledRequests \cup {r}
    BY <1>2 DEF Pays
  <2>2. SumFunctionOnSet(k, {r}) = k[r]
    <3>1. IsFiniteSet({r}) /\ {r} \ {r} = {}
      BY FS_Singleton, Zenon
    <3>2. (\A x \in {r} : k[x] \in Int) /\ r \in {r}
      BY <1>1
    <3> HIDE DEF k
    <3>3. SumFunctionOnSet(k, {r}) = k[r] + SumFunctionOnSet(k, {r} \ {r})
      BY <3>1, <3>2, SumRemove
    <3>4. SumFunctionOnSet(k, {}) = 0 /\ k[r] \in Int
      BY <3>2, SumEmpty
    <3> QED BY <3>1, <3>3, <3>4
  <2> HIDE DEF u, k
  <2>3. QueueOK(u, k)
    BY <1>4 DEF u
  <2>4. u.totalAllocatedFunds = queue.totalAllocatedFunds - SumFunctionOnSet(k, {r})
    BY <1>1, <2>1, <2>3, TotalMoves
  <2> QED BY <2>2, <2>4 DEF u
<1> HIDE DEF s, t
<1>9. Promise!Set({r}, "paid")
  BY <1>7, WithIsListed, StatusMapped DEF Promise!Set, s, t
<1>10. [i \in Ids |-> Status(i)][r] = "reserved"
  BY <1>5, StatusMapped DEF s
<1> QED BY <1>3, <1>8, <1>9, <1>10 DEF Promise!Pay

(* What a step of the queue is to the promise, the ledger untouched: one of *)
(* its actions if the set of requests it is about is not empty.             *)
LEMMA ReservesOK ==
  ASSUME QueueInv, QueueInv', ledger' = ledger, Reserves(queue, queue')
  PROVE  [Promise!PromiseNext]_(Promise!promiseVars)
<1> DEFINE s == Statuses(queue, ledger)
           t == Statuses(queue', ledger')
           k == ledger.promised
           u == queue'
           S == queue.pendingRequests \ u.pendingRequests
<1>1. /\ QueueOK(queue, k) /\ QueueOK(u, k) /\ LedgerOK(queue, ledger) /\ LedgerOK(u, ledger)
      /\ k \in [Ids -> Nat] /\ S \in SUBSET Ids /\ queue.pendingRequests \in SUBSET Ids
  BY LedgerFields, QueueFields DEF QueueInv, WorldOK, QueueOK, LedgerOK
<1>2. /\ u.nextRequestId = queue.nextRequestId
      /\ u.pendingRequests \subseteq queue.pendingRequests
      /\ u.fulfilledRequests = queue.fulfilledRequests \cup S
      /\ \A a \in S, b \in u.pendingRequests : a < b
  BY DEF Reserves
<1>3. queue.fulfilledRequests \cap S = {}
  BY <1>1 DEF QueueOK, Listed
<1>4. u.totalAllocatedFunds = queue.totalAllocatedFunds + SumFunctionOnSet(k, S)
  <2> HIDE DEF u, S, k
  <2> QED BY <1>1, <1>2, <1>3, TotalMoves
<1>5. t = [i \in Ids |-> IF i \in S THEN "reserved" ELSE s[i]]
  <2>1. ASSUME NEW i \in Ids PROVE t[i] = IF i \in S THEN "reserved" ELSE s[i]
    <3>1. CASE i \in S
      <4>1. i \in u.fulfilledRequests
        BY <1>2, <3>1
      <4> QED BY <1>1, <3>1, <4>1, StatusFacts
    <3>2. CASE i \notin S
      <4>1. /\ i \in u.pendingRequests <=> i \in queue.pendingRequests
            /\ i \in u.fulfilledRequests <=> i \in queue.fulfilledRequests
        BY <1>2, <3>2
      <4> QED BY <1>2, <3>2, <4>1 DEF Statuses, StatusIn
    <3> QED BY <3>1, <3>2
  <2> QED BY <2>1 DEF Statuses
<1> HIDE DEF s, t
<1>6. CASE S # {}
  <2>1. Promise!Set(S, "reserved")
    BY <1>5, WithIsListed, StatusMapped DEF Promise!Set, s, t
  <2>2. /\ S \subseteq Promise!With("waiting")
        /\ \A r \in S, o \in Promise!With("waiting") \ S : r < o
    BY <1>2, WithIsListed
  <2>3. u.totalAllocatedFunds = queue.totalAllocatedFunds + Promise!PromisedTo(S)
    BY <1>4, SameSum DEF Promise!PromisedTo
  <2>4. Promise!Reserve(S)
    BY <1>6, <2>1, <2>2, <2>3 DEF Promise!Reserve
  <2>5. S \in SUBSET Promise!Requests
    BY <1>1, WithIsListed
  <2> QED BY <2>4, <2>5 DEF Promise!PromiseNext
<1>7. CASE S = {}
  <2>1. t = s
    BY <1>5, <1>7 DEF s, t, Statuses
  <2>2. u.totalAllocatedFunds = queue.totalAllocatedFunds
    <3>1. SumFunctionOnSet(k, {}) = 0 /\ queue.totalAllocatedFunds \in Nat
      BY <1>1, SumEmpty, QueueFields DEF QueueOK
    <3> QED BY <1>4, <1>7, <3>1
  <2>3. UNCHANGED Promise!promiseVars
    BY <2>1, <2>2, StatusMapped DEF Promise!promiseVars, s, t
  <2> QED BY <2>3
<1> QED BY <1>6, <1>7

(* The same of the requests that are cancelled or reclaimed, however many. *)
LEMMA GivesBackOK ==
  ASSUME QueueInv, QueueInv', ledger' = ledger, GivesBack(queue, queue')
  PROVE  [Promise!PromiseNext]_(Promise!promiseVars)
<1> DEFINE s == Statuses(queue, ledger)
           t == Statuses(queue', ledger')
           k == ledger.promised
           u == queue'
           S == Live(queue) \ Live(u)
           T == S \cap queue.fulfilledRequests
<1>1. /\ QueueOK(queue, k) /\ QueueOK(u, k) /\ LedgerOK(queue, ledger) /\ LedgerOK(u, ledger)
      /\ k \in [Ids -> Nat] /\ S \in SUBSET Ids /\ T \in SUBSET Ids
      /\ queue.nextRequestId \in Nat
  BY LedgerFields, QueueFields DEF QueueInv, WorldOK, QueueOK, LedgerOK, Live
<1>2. /\ u.nextRequestId = queue.nextRequestId
      /\ u.pendingRequests \subseteq queue.pendingRequests
      /\ u.fulfilledRequests \subseteq queue.fulfilledRequests
      /\ queue.pendingRequests \cap queue.fulfilledRequests = {}
  BY <1>1 DEF GivesBack, QueueOK, Listed
<1>3. queue.fulfilledRequests = u.fulfilledRequests \cup T /\ u.fulfilledRequests \cap T = {}
  BY <1>2 DEF Live
<1>4. u.totalAllocatedFunds = queue.totalAllocatedFunds - SumFunctionOnSet(k, T)
  <2> HIDE DEF u, S, T, k
  <2> QED BY <1>1, <1>3, TotalMoves
<1>5. t = [i \in Ids |-> IF i \in S THEN "returned" ELSE s[i]]
  <2>1. ASSUME NEW i \in Ids PROVE t[i] = IF i \in S THEN "returned" ELSE s[i]
    <3>1. CASE i \in S
      <4>1. i \notin Live(u) /\ i < u.nextRequestId /\ ledger.paid[i] = 0
        BY <1>1, <1>2, <3>1 DEF QueueOK, Listed, LedgerOK
      <4> QED BY <1>1, <3>1, <4>1, StatusFacts
    <3>2. CASE i \notin S
      <4>1. /\ i \in u.pendingRequests <=> i \in queue.pendingRequests
            /\ i \in u.fulfilledRequests <=> i \in queue.fulfilledRequests
        BY <1>2, <3>2 DEF Live
      <4> QED BY <1>2, <3>2, <4>1 DEF Statuses, StatusIn
    <3> QED BY <3>1, <3>2
  <2> QED BY <2>1 DEF Statuses
<1> HIDE DEF s, t
<1>6. CASE S # {}
  <2>1. Promise!Set(S, "returned")
    BY <1>5, WithIsListed, StatusMapped DEF Promise!Set, s, t
  <2>2. S \subseteq Promise!With("waiting") \cup Promise!With("reserved")
    BY WithIsListed DEF Live
  <2>3. u.totalAllocatedFunds
          = queue.totalAllocatedFunds - Promise!PromisedTo(S \cap Promise!With("reserved"))
    BY <1>4, SameSum, WithIsListed DEF Promise!PromisedTo
  <2>4. Promise!GiveBack(S)
    BY <1>6, <2>1, <2>2, <2>3 DEF Promise!GiveBack
  <2>5. S \in SUBSET Promise!Requests
    BY <1>1, WithIsListed
  <2> QED BY <2>4, <2>5 DEF Promise!PromiseNext
<1>7. CASE S = {}
  <2>1. t = s
    BY <1>5, <1>7 DEF s, t, Statuses
  <2>2. u.totalAllocatedFunds = queue.totalAllocatedFunds
    <3>1. T = {}
      BY <1>7
    <3>2. SumFunctionOnSet(k, {}) = 0 /\ queue.totalAllocatedFunds \in Nat
      BY <1>1, SumEmpty, QueueFields DEF QueueOK
    <3> QED BY <1>4, <3>1, <3>2
  <2>3. UNCHANGED Promise!promiseVars
    BY <2>1, <2>2, StatusMapped DEF Promise!promiseVars, s, t
  <2> QED BY <2>3
<1> QED BY <1>6, <1>7

(* Nobody has asked for anything. *)
LEMMA PromiseInitOK == QueueInit => Promise!PromiseInit
<1> SUFFICES ASSUME QueueInit PROVE Promise!PromiseInit
  OBVIOUS
<1>1. /\ queue.nextRequestId = 0 /\ queue.totalAllocatedFunds = 0
      /\ ledger.promised = [r \in Ids |-> 0] /\ ledger.paid = [r \in Ids |-> 0]
  BY DEF QueueInit
<1>2. \A r \in Ids : StatusIn(queue, ledger, r) = "none"
  <2>1. \A r \in Ids : r \in Nat /\ r >= 0
    BY QueueFacts
  <2> QED BY <1>1, <2>1 DEF StatusIn
<1>3. [r \in Ids |-> Status(r)] = [r \in Ids |-> "none"]
  BY <1>2, StatusMapped DEF Statuses
<1> QED BY <1>1, <1>3 DEF Promise!PromiseInit, Promise!Requests, Ids

(* An effect on the requests is an operation of the promise, or none. *)
LEMMA EffectOK ==
  ASSUME QueueInv, QueueInv', Effect(queue, ledger, queue', ledger')
  PROVE  [Promise!PromiseNext]_(Promise!promiseVars)
<1>1. ASSUME NEW r \in Ids,
             \/ Asks(queue, ledger, queue', ledger', r)
             \/ Pays(queue, ledger, queue', ledger', r)
      PROVE  Promise!PromiseNext
  <2>1. r \in Promise!Requests
    BY WithIsListed
  <2>2. Promise!Ask(r) \/ Promise!Pay(r)
    BY <1>1, AsksOK, PaysOK
  <2> QED BY <2>1, <2>2 DEF Promise!PromiseNext
<1> QED BY <1>1, ReservesOK, GivesBackOK DEF Effect

(* A step that leaves queue and ledger alone leaves the promise alone. *)
LEMMA PromiseStutters ==
  ASSUME UNCHANGED <<queue, ledger>>
  PROVE  [Promise!PromiseNext]_(Promise!promiseVars)
<1>1. [r \in Ids |-> Status(r)]' = [r \in Ids |-> Status(r)]
  BY StatusMapped
<1>2. UNCHANGED Promise!promiseVars
  BY <1>1 DEF Promise!promiseVars
<1> QED BY <1>2

(* The queue keeps the promise of UnstakePromise: requests are served in    *)
(* the order they were made, each is paid once what it was promised or      *)
(* given back once, and the reserve is exact, through every loop, price and *)
(* expiry.                                                                  *)
THEOREM ImplementsPromise == QueueSpec => Implements
<1>1. QueueInv /\ [QueueNext]_queueVars
        => [Promise!PromiseNext]_(Promise!promiseVars)
  BY QueueNextOK, EffectOK, PromiseStutters DEF Kept, queueVars
<1> QED BY QueueInvariant, PromiseInitOK, <1>1, PTL
        DEF QueueSpec, Implements, Promise!PromiseSpec
=============================================================================
