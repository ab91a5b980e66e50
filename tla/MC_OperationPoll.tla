--------------------------- MODULE MC_OperationPoll ---------------------------
(* OperationPoll on a short deadline: a few polls, each with its failures. *)
EXTENDS OperationPoll
=============================================================================
