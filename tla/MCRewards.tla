----------------------------- MODULE MCRewards -----------------------------
(* Rewards on small instances: see the README for the bounds *)
EXTENDS Rewards, TLC

MCFirstPcts == [ClaimProtocolDAO |-> 3, ClaimNodeOp |-> 6, MultisigManager |-> 1]
MCPctChoices == {<<"ClaimNodeOp", 0>>}

(* Nothing tells one owner from another *)
MCSymmetry == Permutations(Owners)
=============================================================================
