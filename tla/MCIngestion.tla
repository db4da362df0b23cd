---------------------------- MODULE MCIngestion ----------------------------
(* Ingestion with senders who are called after their messages: "ann" and    *)
(* "dup" write directly, "bob" quotes ann, so his message goes to the group *)
(* of ann's number.  "dup" has the user name that ann had.                  *)
EXTENDS Ingestion

MCSender == [m \in Messages |-> m]

MCUsername == [m \in Messages |-> IF m = "dup" THEN "ann" ELSE m]

MCGroup == [m \in Messages |-> IF m \in {"ann", "bob"} THEN "ann" ELSE m]

\* Payload "A" holds ann's message, "BD" bob's and dup's, and so on.
MCBody == [p \in Payloads |->
    CASE p = "A" -> <<"ann">> [] p = "B" -> <<"bob">>
      [] p = "BD" -> <<"bob", "dup">> [] p = "D" -> <<"dup">>]
=============================================================================
