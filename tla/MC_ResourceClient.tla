-------------------------- MODULE MC_ResourceClient --------------------------
(* Two scripts and one name in two spellings. *)
EXTENDS ResourceClient

MCCanon == [n \in Spellings |-> "web"]
=============================================================================
