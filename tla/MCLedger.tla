------------------------------ MODULE MCLedger ------------------------------
(* Ledger with one transaction or two: the worker's batch "batch" books     *)
(* them, its later batch "edit" applies a WhatsApp edit of one and a revoke *)
(* of the other; "again" is a second worker with a copy of the first job,   *)
(* and an administrator acts at the same time.                              *)
EXTENDS Ledger, TLC

MCValues == {"10", "12", "20", "50", "paid", "paid, wrong",
             "parsed", "review_needed", "corrected", "invalidated"}

MCAnnotate(old, reason) ==
    IF old = "paid" THEN "paid, wrong" ELSE old

Operation(kind, t, amount, remarks, status) ==
    [kind |-> kind, txn |-> t,
     set |-> ("amount" :> amount) @@ ("remarks" :> remarks) @@ ("status" :> status)]

Upsert(t, amount, status) == Operation("upsert", t, amount, "paid", status)

Correct(t, amount, remarks) == Operation("correct", t, amount, remarks, None)

Invalidate(t) == Operation("invalidate", t, None, "paid", None)

MCPlan ==
    [s \in Sessions |->
       CASE s = "batch" -> <<Upsert("t1", "10", "parsed"), Upsert("t1", "12", "review_needed"),
                             Upsert("t2", "50", "parsed")>>
         [] s = "again" -> <<Upsert("t1", "10", "parsed")>>
         [] s = "edit" -> <<Correct("t1", "20", None), Invalidate("t2")>>
         [] s = "third" -> <<Invalidate("t1")>>]
=============================================================================
