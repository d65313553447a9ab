-------------------------- MODULE MCWithdrawQueue --------------------------
(* WithdrawQueue on small instances: see the README for the bounds *)
EXTENDS WithdrawQueue

MCAccounts == {"vault", "queue", "alice"}
MCAccountsAndZero == MCAccounts \cup {"zero"}
MCQueueRole == {"queue"}
=============================================================================
