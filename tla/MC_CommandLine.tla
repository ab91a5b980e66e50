--------------------------- MODULE MC_CommandLine ---------------------------
(* Two calls or commands in a row: whatever the first leaves, the second meets. *)
EXTENDS CommandLine
=============================================================================
