---------------------------- MODULE MCExtraction ----------------------------
(* Extraction with three payments, two of them with the same text, a chat  *)
(* message and a job without a row; "p2" is stamped ahead of the clock.    *)
EXTENDS Extraction, TLC

MCText == "p1" :> "lunch" @@ "p2" :> "lunch" @@ "p3" :> "rent" @@ "chat" :> "how much?"
          @@ "gone" :> "rent"

MCSignals == "lunch" :> {"amount", "verb"} @@ "rent" :> {"amount", "verb", "currency"}
             @@ "how much?" :> {"amount", "currency", "date"}

MCEpoch == "p1" :> 0 @@ "p2" :> 2 @@ "p3" :> None @@ "chat" :> 1 @@ "gone" :> 0

MCReceived == "p1" :> 0 @@ "p2" :> 1 @@ "p3" :> 1 @@ "chat" :> 2 @@ "gone" :> 2

Item(id, amount, verb, date, confidence) ==
    [id |-> id, amount |-> amount, verb |-> verb, date |-> date, confidence |-> confidence]

\* Sure, over-sure and low answers, no transaction, nothing usable, and an
\* id nobody asked about; dates on the day, too late and in range.
MCItems ==
    {Item("p1", 5, "debit", 0, 20000), Item("p1", None, None, None, 0),
     Item("p2", 5, "debit", 4, 6500), Item("p2", 0, "unknown", None, 64),
     Item("p3", 7, "credit", 1, 60), Item("p3", 7, "credit", Malformed, Absent),
     Item(None, 9, "debit", 0, 99)}
=============================================================================
