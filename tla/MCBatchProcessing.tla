------------------------- MODULE MCBatchProcessing -------------------------
(* BatchProcessing with messages named for what they are: "pay", a "twin"  *)
(* and an "echo" of it with the same text and time, an "edit" and a        *)
(* "revoke" of pay, a "chat" line and a "gone" row.                        *)
EXTENDS BatchProcessing

MCKind == [m \in Messages |->
             IF m \in {"pay", "twin", "echo"} THEN "payment" ELSE m]

MCOriginal == [m \in Messages |->
                 IF m \in {"edit", "revoke"} THEN "pay" ELSE None]

MCContent == [m \in Messages |-> IF m \in {"twin", "echo"} THEN "pay" ELSE m]
=============================================================================
