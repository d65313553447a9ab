--------------------------- MODULE MCTokenpstAVAX ---------------------------
(* TokenpstAVAX on small instances: see the README for the bounds *)
EXTENDS TokenpstAVAX

MCAccounts == {"vault", "queue", "pst", "alice", "bob"}
MCQueueRole == {"queue"}
=============================================================================
