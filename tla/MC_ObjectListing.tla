-------------------------- MODULE MC_ObjectListing --------------------------
(* ObjectListing with two keys to a page and changes between the pages. *)
EXTENDS ObjectListing

MCLimits == {NoLimit, 0, 1, 2, 3}
=============================================================================
