----------------------------- MODULE NodeLedger -----------------------------
(***************************************************************************)
(* What the protocol promises a node operator and the liquid stakers about *)
(* the AVAX of a minipool, without a word about statuses, rewards splits,  *)
(* GGP or time.  AVAX the operator puts in is held for it.  It is at work  *)
(* only together with as much from the pool.  What was at work comes back  *)
(* in full, the pool's to the pool and the operator's to its account, with *)
(* what was earned.  What is held is paid out once, and what is held for   *)
(* one node is never paid for another.                                     *)
(***************************************************************************)
EXTENDS Integers

CONSTANT Nodes

VARIABLES
  held,     \* of each node, the AVAX the custodian holds for its operator
  atWork,   \* the AVAX of its operator that is at work
  cash,     \* what the custodian holds in all
  lent      \* what the pool has lent

ledgerVars == <<held, atWork, cash, lent>>

LedgerInit ==
  /\ held = [n \in Nodes |-> 0]
  /\ atWork = [n \in Nodes |-> 0]
  /\ cash = 0
  /\ lent = 0

(* Nothing happens to the other nodes *)
Only(n) ==
  /\ held' = [held EXCEPT ![n] = held'[n]]
  /\ atWork' = [atWork EXCEPT ![n] = atWork'[n]]

(* The custodian moves what the account of the node moves *)
Booked(n) == cash' - cash = held'[n] - held[n]

Open(n) ==
  /\ held[n] = 0 /\ atWork[n] = 0
  /\ held'[n] > 0 /\ atWork'[n] = 0
  /\ Only(n) /\ Booked(n) /\ UNCHANGED lent

(* All of it, or the gain of a node that is opened again at once *)
PayOut(n) ==
  /\ held'[n] \in 0 .. held[n] - 1
  /\ Only(n) /\ Booked(n) /\ UNCHANGED <<atWork, lent>>

Launch(n) ==
  /\ held[n] > 0 /\ held'[n] = 0
  /\ atWork'[n] = held[n]
  /\ lent' = lent + held[n]
  /\ Only(n) /\ Booked(n)

Return(n) ==
  /\ atWork[n] > 0 /\ atWork'[n] = 0
  /\ held'[n] >= atWork[n]
  /\ lent' = lent - atWork[n]
  /\ Only(n) /\ Booked(n)

(* What comes back goes out again with part of what it earned; the rest    *)
(* stays with the custodian, on nobody's account.                          *)
Renew(n) ==
  /\ atWork[n] > 0 /\ atWork'[n] >= atWork[n]
  /\ lent' = lent + atWork'[n] - atWork[n]
  /\ cash' >= cash
  /\ Only(n) /\ UNCHANGED held

LedgerNext ==
  \E n \in Nodes : Open(n) \/ PayOut(n) \/ Launch(n) \/ Return(n) \/ Renew(n)

LedgerSpec == LedgerInit /\ [][LedgerNext]_ledgerVars
=============================================================================
