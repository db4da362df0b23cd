----------------------------- MODULE MCJobQueue -----------------------------
(* JobQueue with small sets of model values. *)
EXTENDS JobQueue

(* Of a crash, a stop and an exception, any two in one run. *)
FewTroubles == crashes + stops + faults <= 2
=============================================================================
