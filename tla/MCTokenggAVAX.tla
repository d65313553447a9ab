--------------------------- MODULE MCTokenggAVAX ---------------------------
(* TokenggAVAX on a small instance: see the README for the bounds *)
EXTENDS TokenggAVAX

MCAccounts == {"vault", "alice", "bob"}
MCQueueRole == {"bob"}
=============================================================================
