------------------------- MODULE MCMinipoolManager -------------------------
(* MinipoolManager on small instances: see the README for the bounds *)
EXTENDS MinipoolManager, TLC

MCAccounts == {"vault", "alice"}
MCQueueRole == {"alice"}
MCFirstMultisigs == <<"rialto1">>
MCNoMultisigs == << >>
MCOwners == {"op1"}
MCTwoOwners == {"op1", "op2"}

(* Nothing tells one node from another *)
MCSymmetry == Permutations(NodeIDs)
=============================================================================
