---------------------------- MODULE MCMobileCache ----------------------------
(* MobileCache with edits "e1" and "e2" of the transactions "t1" and "t2". *)
EXTENDS MobileCache

MCTarget == [e \in Edits |-> IF e = "e1" THEN "t1" ELSE "t2"]
=============================================================================
