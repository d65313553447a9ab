--------------------------- MODULE UnstakePromise ---------------------------
(***************************************************************************)
(* What WithdrawQueue promises to the people who unstake, without a word   *)
(* about shares, prices, queues or time.  A request is promised an amount  *)
(* of AVAX.  AVAX is reserved for the requests in the order they were      *)
(* made.  A reserved request is paid, once, what it was promised; a        *)
(* request that is not paid may be given back (as shares), once.  The      *)
(* reserve is what the reserved requests were promised, at any time.       *)
(***************************************************************************)
EXTENDS Integers, FiniteSets, Functions

CONSTANT MaxRequests

VARIABLES
  status,     \* of each request
  promised,   \* the AVAX promised to it; 0 if it was never made
  paid,       \* the AVAX paid to its owner
  reserve     \* the AVAX set aside

promiseVars == <<status, promised, paid, reserve>>

Requests == 0 .. MaxRequests - 1
With(s) == {r \in Requests : status[r] = s}
PromisedTo(S) == SumFunctionOnSet(promised, S)
Set(S, s) == status' = [r \in Requests |-> IF r \in S THEN s ELSE status[r]]

PromiseInit ==
  /\ status = [r \in Requests |-> "none"]
  /\ promised = [r \in Requests |-> 0]
  /\ paid = [r \in Requests |-> 0]
  /\ reserve = 0

(* Requests are numbered in the order they are made; any amount will do *)
Ask(r) ==
  /\ status[r] = "none" /\ \A o \in With("none") : r <= o
  /\ Set({r}, "waiting")
  /\ promised'[r] > 0
  /\ promised' = [promised EXCEPT ![r] = promised'[r]]
  /\ UNCHANGED <<paid, reserve>>

(* Nobody who waits is passed over by a later request *)
Reserve(S) ==
  /\ S # {} /\ S \subseteq With("waiting")
  /\ \A r \in S, o \in With("waiting") \ S : r < o
  /\ Set(S, "reserved")
  /\ reserve' = reserve + PromisedTo(S)
  /\ UNCHANGED <<promised, paid>>

Pay(r) ==
  /\ status[r] = "reserved"
  /\ Set({r}, "paid")
  /\ paid' = [paid EXCEPT ![r] = promised[r]]
  /\ reserve' = reserve - promised[r]
  /\ UNCHANGED promised

GiveBack(S) ==
  /\ S # {} /\ S \subseteq With("waiting") \cup With("reserved")
  /\ Set(S, "returned")
  /\ reserve' = reserve - PromisedTo(S \cap With("reserved"))
  /\ UNCHANGED <<promised, paid>>

PromiseNext ==
  \/ \E r \in Requests : Ask(r) \/ Pay(r)
  \/ \E S \in SUBSET Requests : Reserve(S) \/ GiveBack(S)

PromiseSpec == PromiseInit /\ [][PromiseNext]_promiseVars
=============================================================================
