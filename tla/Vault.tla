------------------------------- MODULE Vault -------------------------------
(***************************************************************************)
(* Vault, the ledger of the AVAX and the GGP that the contracts of the     *)
(* protocol keep: one balance per contract name.  A call is an operator on *)
(* the storage, with a Can... operator for the conditions under which it   *)
(* does not revert.  Every call refuses an amount of zero.                 *)
(*                                                                         *)
(* The tokens are GGP only, the one token the other contracts bank here.   *)
(***************************************************************************)
EXTENDS Integers

CONSTANT NetworkContracts   \* the names of the contracts that bank here

VaultStorage == [avax : [NetworkContracts -> Nat], ggp : [NetworkContracts -> Nat]]

EmptyVault == [avax |-> [c \in NetworkContracts |-> 0],
               ggp |-> [c \in NetworkContracts |-> 0]]

CanDepositAVAX(amount) == amount # 0
DepositAVAX(v, contract, amount) == [v EXCEPT !.avax[contract] = @ + amount]

CanWithdrawAVAX(v, contract, amount) == amount # 0 /\ v.avax[contract] >= amount
WithdrawAVAX(v, contract, amount) == [v EXCEPT !.avax[contract] = @ - amount]

CanDepositToken(amount) == amount # 0
DepositToken(v, contract, amount) == [v EXCEPT !.ggp[contract] = @ + amount]

CanWithdrawToken(v, contract, amount) == amount # 0 /\ v.ggp[contract] >= amount
WithdrawToken(v, contract, amount) == [v EXCEPT !.ggp[contract] = @ - amount]

CanTransferToken(v, from, amount) == amount # 0 /\ v.ggp[from] >= amount
TransferToken(v, from, to, amount) ==
  DepositToken(WithdrawToken(v, from, amount), to, amount)
=============================================================================
