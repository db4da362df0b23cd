------------------------------- MODULE MCPaging -------------------------------
(* Paging over two batches, one of them of two rows.  By date the rows come *)
(* in another order than they were booked in, and what is created on the    *)
(* phone comes between them.                                                *)
EXTENDS Paging

MCBatch == <<1, 2, 2>>

MCCached == <<2, -1, 1, 3>>

(* Of a creation, an open entry, a review of it, a refresh and a restart,   *)
(* any two in one run.                                                      *)
FewEvents ==
    spent["creations"] + spent["visits"] + spent["edits"]
        + spent["refreshes"] + spent["starts"] <= 2
=============================================================================
