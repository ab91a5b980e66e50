------------------------------ MODULE MC_DBaaS ------------------------------
(* DBaaS with two types, one of which has another form in URLs. *)
EXTENDS DBaaS
=============================================================================
