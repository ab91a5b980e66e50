------------------------------ MODULE MC_Upkeep ------------------------------
(* Two schemas, of which one may refer to the other and to itself; a property *)
(* of a known family and one of any; three resources, each in the last one.   *)
EXTENDS Upkeep
MCFamily == [a \in {"x", "y"} |-> IF a = "x" THEN "string" ELSE "wildcard"]
=============================================================================
