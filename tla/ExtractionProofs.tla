-------------------------- MODULE ExtractionProofs --------------------------
(***************************************************************************)
(* What a verdict rests on, for any messages, texts, workers and answers   *)
(* of the LLM, any thresholds of time, and any failures on the way.        *)
(*                                                                         *)
(* Results carry the id of the message they answered.  The proof follows   *)
(* that id from the answer into the cache, out of it for another message   *)
(* with the same text, and into the verdict; and it shows that a message   *)
(* is in one batch at a time, in one place of it.                          *)
(***************************************************************************)
EXTENDS Extraction, SequenceTheorems, WellFoundedInduction, TLAPS

-----------------------------------------------------------------------------
(* The inductive invariant *)

\* A result answers a message with this text.
Answers(result, text) == result.id \in Messages /\ Text[result.id] = text

\* A worker has a batch from its start to its end.
IdleEmpty == \A w \in Workers : place[w] = "idle" <=> batch[w] = <<>>

\* A request is not made again after its last attempt.
AttemptsLeft ==
    \A w \in Workers : place[w] \in {"idle", "lookup", "ask"} => attempt[w] < MaxAttempts

\* A message has one place in a batch.
Distinct ==
    \A w \in Workers : \A j, k \in DOMAIN batch[w] :
        batch[w][j].msg = batch[w][k].msg => j = k

\* No message is in two batches.
Disjoint ==
    \A v, w \in Workers : v # w => MessagesOf(v) \cap MessagesOf(w) = {}

\* No verdict is given twice.
BusyUndecided == \A w \in Workers : \A m \in MessagesOf(w) : verdict[m] = None

\* What a worker has found for a message answers its text.
FoundBelongs ==
    \A w \in Workers : \A m \in Messages :
        found[w][m] # None => Answers(found[w][m], Text[m])

\* What the cache has for a text answers it.
CacheBelongs ==
    \A t \in Texts : cache[t] # None /\ ~Bad(t) => Answers(cache[t].result, t)

\* What is to be cached has been found.
UnsavedFound ==
    \A w \in Workers : \A k \in unsaved[w] :
        place[w] = "save" /\ k \in DOMAIN batch[w] /\ found[w][batch[w][k].msg] # None

BatchInv == IdleEmpty /\ Distinct /\ Disjoint /\ BusyUndecided

IInv ==
    /\ TypeOK /\ AttemptsLeft /\ UnsavedFound
    /\ BatchInv
    /\ FoundBelongs /\ CacheBelongs /\ ResultsBelong
    /\ NothingSilentlyDropped

-----------------------------------------------------------------------------
(* Results *)

(* A non-empty set of places has a last one, the one Max chooses: of the    *)
(* items with one id the last counts.                                       *)
LEMMA MaxInSet ==
    ASSUME NEW n \in Nat, NEW I \in SUBSET (1 .. n), I # {}
    PROVE  Max(I) \in I
<1> DEFINE R == OpToRel(<, Nat)
           D == {n - i : i \in I}
<1>1. IsWellFoundedOn(R, Nat)
  BY NatLessThanWellFounded
<1>2. R = {ss \in Nat \X Nat : ss[1] < ss[2]}
  BY DEF R, OpToRel
<1> HIDE DEF R
<1>3. D \subseteq Nat /\ D # {}
  <2>1. PICK i \in I : TRUE
    OBVIOUS
  <2>2. n - i \in D
    BY <2>1
  <2>3. D \subseteq Nat
    OBVIOUS
  <2> QED
    BY <2>2, <2>3
<1>4. PICK d \in D : \A e \in D : ~(<<e, d>> \in R)
  BY <1>1, <1>3, WFMin
<1>5. PICK x \in I : d = n - x
  BY <1>4
<1>6. \A y \in I : x >= y
  <2> SUFFICES ASSUME NEW y \in I, y > x PROVE FALSE
    BY SMT
  <2>1. n - y \in D /\ n - y \in Nat /\ d \in Nat /\ n - y < d
    BY <1>5
  <2>2. <<n - y, d>> \in Nat \X Nat
    BY <2>1
  <2>3. <<n - y, d>> \in R
    BY <1>2, <2>1, <2>2
  <2> QED
    BY <1>4, <2>1, <2>3
<1> QED
  BY <1>6 DEF Max

(* Normalising gives a percentage, and leaves one as it is. *)
LEMMA NormalizedTwice ==
    ASSUME NEW v \in Int \cup {None}
    PROVE  /\ Normalized(v) \in 0 .. 100
           /\ Normalized(Normalized(v)) = Normalized(v)
<1>1. None \notin Int
  BY ExtractionAssumption
<1>2. Normalized(v) \in 0 .. 100
  <2>1. CASE v = None \/ v < 0
    BY <2>1 DEF Normalized
  <2>2. CASE v # None /\ ~(v < 0)
    <3>1. v \in Int /\ v >= 0
      BY <2>2
    <3>2. v > 100 /\ v <= 10000 => v \div 100 \in 0 .. 100
      BY <3>1
    <3> QED
      BY <2>2, <3>1, <3>2 DEF Normalized
  <2> QED
    BY <2>1, <2>2
<1>3. \A p \in 0 .. 100 : Normalized(p) = p
  BY <1>1 DEF Normalized
<1> QED
  BY <1>2, <1>3

(* A valid result is a record with the id of its item, a date and a        *)
(* confidence, and is valid as it is.                                       *)
LEMMA ResultFacts ==
    ASSUME NEW r \in Results
    PROVE  /\ r # None
           /\ r.id \in Messages \cup {None}
           /\ r.date \in Dates
           /\ Validated(r) = r
<1>1. PICK item \in Items : r = Validated(item) /\ r # None
  BY DEF Results
<1> DEFINE c == Normalized(item.confidence)
<1>2. PassesSchema(item) /\ r = [item EXCEPT !.confidence = c]
  BY <1>1 DEF Validated
<1>3. item \in [id : Messages \cup {None}, amount : Int \cup {None},
                verb : STRING \cup {None}, date : Int \cup {None, Malformed},
                confidence : Int \cup {None, Absent}]
  BY ExtractionAssumption
<1>4. item.confidence \in Int \cup {None}
  BY <1>2, <1>3 DEF PassesSchema
<1>5. c \in 0 .. 100 /\ Normalized(c) = c
  BY <1>4, NormalizedTwice
<1> HIDE DEF c
<1>6. /\ r.id = item.id /\ r.amount = item.amount /\ r.verb = item.verb
      /\ r.date = item.date /\ r.confidence = c
      /\ [r EXCEPT !.confidence = c] = r
  BY <1>2, <1>3
<1>7. c # Absent
  BY <1>5, ExtractionAssumption
<1>8. PassesSchema(r)
  BY <1>2, <1>6, <1>7 DEF PassesSchema
<1>9. r.date \in Dates
  BY <1>2, <1>3, <1>6 DEF PassesSchema, Dates
<1>10. Validated(r) = r
  BY <1>5, <1>6, <1>8 DEF Validated
<1> QED
  BY <1>1, <1>3, <1>6, <1>9, <1>10

(* An answer has no result for a message, or a valid one with its id. *)
LEMMA ParsedFacts ==
    ASSUME NEW items \in BoundedSeq(Items, MaxItems), NEW m \in Messages
    PROVE  /\ Parsed(items, m) \in Found
           /\ Parsed(items, m) # None => Parsed(items, m).id = m
<1>1. PICK n \in 0 .. MaxItems : items \in [1 .. n -> Items]
  BY DEF BoundedSeq, SeqOf
<1> DEFINE own == {i \in DOMAIN items : items[i].id = m}
           last == items[Max(own)]
<1>2. CASE own = {}
  BY <1>2 DEF Parsed, Found
<1>3. CASE own # {}
  <2>1. own \in SUBSET (1 .. n) /\ n \in Nat
    BY <1>1, ExtractionAssumption
  <2>2. Max(own) \in own
    BY <1>3, <2>1, MaxInSet
  <2>3. last \in Items /\ last.id = m
    BY <1>1, <2>2
  <2>4. Parsed(items, m) = Validated(last)
    BY <1>3 DEF Parsed
  <2> HIDE DEF last
  <2>5. Validated(last) \in Found
    BY <2>3 DEF Found, Results
  <2>6. last \in [id : Messages \cup {None}, amount : Int \cup {None},
                  verb : STRING \cup {None}, date : Int \cup {None, Malformed},
                  confidence : Int \cup {None, Absent}]
    BY <2>3, ExtractionAssumption
  <2>7. Validated(last) # None => Validated(last).id = last.id
    BY <2>6 DEF Validated
  <2> QED
    BY <2>3, <2>4, <2>5, <2>7
<1> QED
  BY <1>2, <1>3

(* The date booked is the message's own or lies near it. *)
LEMMA DateNear ==
    ASSUME NEW r \in Found, NEW at \in Int
    PROVE  TxnDate(r, at) \in Int /\ TxnDate(r, at) >= at - Past
             /\ TxnDate(r, at) <= at + Future
<1>1. Past \in Nat /\ Future \in Nat /\ None \notin Int
  BY ExtractionAssumption
<1>2. CASE r = None
  BY <1>1, <1>2 DEF TxnDate
<1>3. CASE r \in Results
  <2>1. r.date \in Int \cup {None}
    BY <1>3, ResultFacts DEF Dates
  <2> QED
    BY <1>1, <1>3, <2>1, ResultFacts DEF TxnDate
<1> QED
  BY <1>2, <1>3 DEF Found
-----------------------------------------------------------------------------
(* The model's operators *)

(* The entries of a batch. *)
LEMMA BatchFacts ==
    ASSUME TypeOK, NEW w \in Workers
    PROVE  /\ DOMAIN batch[w] = 1 .. Len(batch[w]) /\ Len(batch[w]) \in Nat
           /\ \A k \in DOMAIN batch[w] :
                /\ batch[w][k].msg \in MessagesOf(w)
                /\ batch[w][k].msg \in Messages /\ batch[w][k].at \in Int
           /\ MessagesOf(w) \subseteq Messages
           /\ CandidatesOf(w) \subseteq MessagesOf(w)
<1> DEFINE E == [msg : Messages, at : Int]
<1>1. batch[w] \in Seq(E)
  BY DEF TypeOK
<1>2. \A k \in 1 .. Len(batch[w]) : batch[w][k] \in E
  <2> HIDE DEF E
  <2> QED
    BY <1>1
<1>3. DOMAIN batch[w] = 1 .. Len(batch[w]) /\ Len(batch[w]) \in Nat
  BY <1>1
<1>4. \A k \in DOMAIN batch[w] : batch[w][k].msg \in Messages /\ batch[w][k].at \in Int
  BY <1>2, <1>3
<1> QED
  BY <1>3, <1>4 DEF MessagesOf, CandidatesOf

(* The timestamp a message is given is a day. *)
LEMMA TimestampType ==
    ASSUME TypeOK, NEW m \in Messages
    PROVE  FinalTimestamp(m) \in Int
<1>1. Epoch[m] \in Int \cup {None} /\ Received[m] \in Int
  BY ExtractionAssumption
<1> QED
  BY <1>1 DEF FinalTimestamp

(* Every result is routed, to a status with its audit row.  *)
LEMMA RouteFacts ==
    ASSUME NEW r \in Found
    PROVE  /\ Route(r) \in {"NON_TRANSACTION", "AI_EXTRACTION_FAILED",
                            "REJECTED_LOW_CONFIDENCE"} \cup Booked
           /\ \/ Route(r) \in Booked
              \/ Route(r) \in {"AI_EXTRACTION_FAILED", "REJECTED_LOW_CONFIDENCE"}
              \/ r # None /\ ~IsTransaction(r)
<1>1. CASE r = None
  BY <1>1 DEF Route
<1>2. CASE r # None /\ ~IsTransaction(r)
  BY <1>2 DEF Route
<1>3. CASE r # None /\ IsTransaction(r)
  BY <1>3 DEF Route, Booked
<1> QED
  BY <1>1, <1>2, <1>3

(* A job that went to the dead letters rests on nothing. *)
LEMMA BuriedType == Buried \in Verdicts
  BY DEF Buried, Verdicts, Dates, Found

(* The verdict of the message in one place of a batch. *)
LEMMA VerdictFacts ==
    ASSUME TypeOK, NEW w \in Workers, NEW k \in DOMAIN batch[w],
           NEW m, m = batch[w][k].msg
    PROVE  /\ Verdict(w, k) \in Verdicts
           /\ m \in Missing => Verdict(w, k) = Buried
           /\ m \notin Missing =>
                /\ Verdict(w, k).result = found[w][m]
                /\ Verdict(w, k).status = IF IsCandidate(m) THEN Route(found[w][m])
                                          ELSE "NON_TRANSACTION"
                /\ Verdict(w, k).status \in Booked =>
                     Verdict(w, k).date = TxnDate(found[w][m], batch[w][k].at)
                /\ Verdict(w, k).review =
                     (Verdict(w, k).status \in {"AI_EXTRACTION_FAILED",
                                                "REJECTED_LOW_CONFIDENCE"})
<1> DEFINE r == found[w][m]
           status == IF IsCandidate(m) THEN Route(r) ELSE "NON_TRANSACTION"
           date == IF status \in Booked THEN TxnDate(r, batch[w][k].at) ELSE None
           review == status \in {"AI_EXTRACTION_FAILED", "REJECTED_LOW_CONFIDENCE"}
           routed == [status |-> status, date |-> date, result |-> r, review |-> review]
<1>1. Verdict(w, k) = IF m \in Missing THEN Buried ELSE routed
  BY Zenon DEF Verdict
<1>2. m \in Messages /\ batch[w][k].at \in Int
  BY BatchFacts
<1>3. r \in Found
  BY <1>2 DEF TypeOK
<1>4. status \in {"NON_TRANSACTION", "AI_EXTRACTION_FAILED", "REJECTED_LOW_CONFIDENCE",
                  "DEAD_LETTER"} \cup Booked
  BY <1>3, RouteFacts
<1>5. date \in Dates
  BY <1>2, <1>3, DateNear DEF Dates
<1>6. review \in BOOLEAN
  OBVIOUS
<1>7. status \in Booked => date = TxnDate(r, batch[w][k].at)
  OBVIOUS
<1>8. review = (status \in {"AI_EXTRACTION_FAILED", "REJECTED_LOW_CONFIDENCE"})
  OBVIOUS
<1>9. status = IF IsCandidate(m) THEN Route(found[w][m]) ELSE "NON_TRANSACTION"
  OBVIOUS
<1>10. r = found[w][m]
  OBVIOUS
<1>11. /\ routed.status = status /\ routed.date = date
       /\ routed.result = r /\ routed.review = review
  OBVIOUS
<1> HIDE DEF r, status, date, review
<1>12. routed \in Verdicts
  BY <1>3, <1>4, <1>5, <1>6 DEF Verdicts
<1> HIDE DEF routed
<1>13. Verdict(w, k) \in Verdicts
  BY <1>1, <1>12, BuriedType
<1>14. CASE m \in Missing
  BY <1>1, <1>13, <1>14
<1>15. CASE m \notin Missing
  <2>1. Verdict(w, k) = routed
    BY <1>1, <1>15
  <2> QED
    BY <1>7, <1>8, <1>9, <1>10, <1>11, <1>13, <1>15, <2>1
<1> QED
  BY <1>14, <1>15
-----------------------------------------------------------------------------
(* Every step keeps the types *)

(* A worker that is done has nothing left. *)
LEMMA ResetFacts ==
    ASSUME TypeOK, NEW w \in Workers, Reset(w)
    PROVE  /\ place' \in [Workers -> {"idle", "lookup", "ask", "save", "decide"}]
           /\ batch' \in [Workers -> Seq([msg : Messages, at : Int])]
           /\ attempt' \in [Workers -> 0 .. MaxAttempts]
           /\ found' \in [Workers -> [Messages -> Found]]
           /\ unsaved' \in [Workers -> SUBSET Nat]
           /\ place'[w] = "idle" /\ batch'[w] = <<>> /\ attempt'[w] = 0
           /\ found'[w] = [m \in Messages |-> None] /\ unsaved'[w] = {}
           /\ \A v \in Workers \ {w} :
                /\ place'[v] = place[v] /\ batch'[v] = batch[v]
                /\ attempt'[v] = attempt[v]
                /\ found'[v] = found[v] /\ unsaved'[v] = unsaved[v]
<1>1. MaxAttempts \in Nat
  BY ExtractionAssumption
<1>2. [m \in Messages |-> None] \in [Messages -> Found]
  BY DEF Found
<1>3. <<>> \in Seq([msg : Messages, at : Int])
  OBVIOUS
<1>4. /\ place' \in [Workers -> {"idle", "lookup", "ask", "save", "decide"}]
      /\ place'[w] = "idle" /\ \A v \in Workers \ {w} : place'[v] = place[v]
  BY DEF Reset, TypeOK
<1>5. /\ batch' \in [Workers -> Seq([msg : Messages, at : Int])]
      /\ batch'[w] = <<>> /\ \A v \in Workers \ {w} : batch'[v] = batch[v]
  BY <1>3 DEF Reset, TypeOK
<1>6. /\ attempt' \in [Workers -> 0 .. MaxAttempts]
      /\ attempt'[w] = 0 /\ \A v \in Workers \ {w} : attempt'[v] = attempt[v]
  BY <1>1 DEF Reset, TypeOK
<1>7. /\ found' \in [Workers -> [Messages -> Found]]
      /\ found'[w] = [m \in Messages |-> None]
      /\ \A v \in Workers \ {w} : found'[v] = found[v]
  BY <1>2 DEF Reset, TypeOK
<1>8. /\ unsaved' \in [Workers -> SUBSET Nat]
      /\ unsaved'[w] = {} /\ \A v \in Workers \ {w} : unsaved'[v] = unsaved[v]
  BY DEF Reset, TypeOK
<1> QED
  BY <1>4, <1>5, <1>6, <1>7, <1>8

(* The jobs a worker begins with. *)
Chosen(w, jobs) ==
    /\ IsInjective(jobs)
    /\ \A m \in Range(jobs) :
         verdict[m] = None /\ \A v \in Workers : m \notin MessagesOf(v)
    /\ batch' = [batch EXCEPT ![w] =
                   [k \in DOMAIN jobs |-> [msg |-> jobs[k], at |-> FinalTimestamp(jobs[k])]]]

LEMMA BeginBatch ==
    ASSUME TypeOK, NEW w \in Workers, Begin(w)
    PROVE  \E n \in Nat \ {0} : \E jobs \in [1 .. n -> Messages] :
             /\ Chosen(w, jobs)
             /\ batch'[w] \in Seq([msg : Messages, at : Int])
             /\ DOMAIN batch'[w] = 1 .. n /\ batch'[w] # <<>>
             /\ \A k \in 1 .. n : batch'[w][k].msg = jobs[k]
             /\ \A v \in Workers \ {w} : batch'[v] = batch[v]
<1>1. PICK n \in 1 .. MaxBatch : \E jobs \in [1 .. n -> Messages] : Chosen(w, jobs)
  <2>1. PICK jobs \in UNION {[1 .. n -> Messages] : n \in 1 .. MaxBatch} :
          /\ IsInjective(jobs)
          /\ \A m \in Range(jobs) :
               /\ verdict[m] = None
               /\ Received[m] <= now
               /\ \A v \in Workers : m \notin MessagesOf(v)
          /\ batch' = [batch EXCEPT ![w] =
                         [k \in DOMAIN jobs |->
                            [msg |-> jobs[k], at |-> FinalTimestamp(jobs[k])]]]
    BY Zenon DEF Begin
  <2>2. Chosen(w, jobs)
    BY <2>1 DEF Chosen
  <2>3. PICK n \in 1 .. MaxBatch : jobs \in [1 .. n -> Messages]
    BY <2>1
  <2> QED
    BY <2>2, <2>3
<1>2. PICK jobs \in [1 .. n -> Messages] : Chosen(w, jobs)
  BY <1>1
<1> DEFINE new == [k \in 1 .. n |-> [msg |-> jobs[k], at |-> FinalTimestamp(jobs[k])]]
<1>3. n \in Nat \ {0}
  BY ExtractionAssumption
<1>4. \A k \in 1 .. n : jobs[k] \in Messages /\ FinalTimestamp(jobs[k]) \in Int
  BY <1>2, TimestampType
<1>5. new \in [1 .. n -> [msg : Messages, at : Int]]
  BY <1>4
<1>6. DOMAIN new = 1 .. n /\ \A k \in 1 .. n : new[k].msg = jobs[k]
  OBVIOUS
<1>7. batch' = [batch EXCEPT ![w] = new]
  <2>1. DOMAIN jobs = 1 .. n
    BY <1>2
  <2> QED
    BY <1>2, <2>1 DEF Chosen
<1> HIDE DEF new
<1>8. batch'[w] = new /\ \A v \in Workers \ {w} : batch'[v] = batch[v]
  BY <1>7 DEF TypeOK
<1>9. new \in Seq([msg : Messages, at : Int])
  <2> DEFINE E == [msg : Messages, at : Int]
  <2>1. new \in [1 .. n -> E] /\ n \in Nat
    BY <1>3, <1>5
  <2> HIDE DEF E
  <2>2. new \in Seq(E)
    BY <2>1, SeqDef
  <2> QED
    BY <2>2 DEF E
<1>10. new # <<>>
  <2>1. 1 \in DOMAIN new
    BY <1>3, <1>6
  <2> QED
    BY <2>1
<1> QED
  BY <1>2, <1>3, <1>6, <1>8, <1>9, <1>10

(* What an answer says of the messages asked about. *)
LEMMA OutcomeFacts ==
    ASSUME NEW asked \in SUBSET Messages, NEW results \in Outcomes(asked)
    PROVE  /\ DOMAIN results = asked
           /\ \A m \in asked :
                /\ results[m] \in Found
                /\ results[m] # None => results[m].id = m
<1>1. PICK items \in BoundedSeq(Items, MaxItems) :
        results = [m \in asked |-> Parsed(items, m)]
  BY DEF Outcomes
<1> QED
  BY <1>1, ParsedFacts

LEMMA MissesFacts ==
    ASSUME TypeOK, NEW w \in Workers
    PROVE  Misses(w) \subseteq MessagesOf(w) /\ Misses(w) \subseteq Messages
  BY BatchFacts DEF Misses

(* What an answer changes. *)
LEMMA AnswerFacts ==
    ASSUME TypeOK, NEW w \in Workers, Answer(w)
    PROVE  /\ found' \in [Workers -> [Messages -> Found]]
           /\ unsaved' \in [Workers -> SUBSET Nat]
           /\ \A v \in Workers \ {w} : found'[v] = found[v] /\ unsaved'[v] = unsaved[v]
           /\ \A m \in Messages :
                found'[w][m] # None => found'[w][m] = found[w][m] \/ found'[w][m].id = m
           /\ \A k \in unsaved'[w] :
                k \in DOMAIN batch[w] /\ found'[w][batch[w][k].msg] # None
<1>1. PICK results \in Outcomes(Misses(w)) :
        /\ found' = [found EXCEPT ![w] = [m \in Messages |->
                       IF m \in DOMAIN results THEN results[m] ELSE found[w][m]]]
        /\ unsaved' = [unsaved EXCEPT ![w] =
             {k \in DOMAIN batch[w] : batch[w][k].msg \in DOMAIN results
                                        /\ results[batch[w][k].msg] # None}]
  BY Zenon DEF Answer
<1> DEFINE new == [m \in Messages |->
                     IF m \in DOMAIN results THEN results[m] ELSE found[w][m]]
           save == {k \in DOMAIN batch[w] : batch[w][k].msg \in DOMAIN results
                                              /\ results[batch[w][k].msg] # None}
<1>2. Misses(w) \subseteq Messages
  BY MissesFacts
<1>3. DOMAIN results = Misses(w)
  BY <1>2, OutcomeFacts
<1>4. \A m \in Misses(w) : results[m] \in Found /\ (results[m] # None => results[m].id = m)
  BY <1>2, OutcomeFacts
<1>5. \A m \in Messages : found[w][m] \in Found
  BY DEF TypeOK
<1>6. new \in [Messages -> Found]
  BY <1>3, <1>4, <1>5
<1>7. \A m \in Messages :
        new[m] # None => new[m] = found[w][m] \/ new[m].id = m
  BY <1>3, <1>4
<1>8. \A k \in save : k \in DOMAIN batch[w] /\ new[batch[w][k].msg] # None
  BY <1>2, <1>3
<1>9. save \in SUBSET Nat
  BY BatchFacts
<1>10. found' = [found EXCEPT ![w] = new] /\ unsaved' = [unsaved EXCEPT ![w] = save]
  BY <1>1
<1> HIDE DEF new, save
<1>11. /\ found'[w] = new /\ unsaved'[w] = save
       /\ \A v \in Workers \ {w} : found'[v] = found[v] /\ unsaved'[v] = unsaved[v]
  BY <1>10 DEF TypeOK
<1>12. /\ found' \in [Workers -> [Messages -> Found]]
       /\ unsaved' \in [Workers -> SUBSET Nat]
  BY <1>6, <1>9, <1>10 DEF TypeOK
<1> QED
  BY <1>7, <1>8, <1>11, <1>12

(* What is read from the cache. *)
LEMMA LookupFacts ==
    ASSUME TypeOK, NEW w \in Workers, Lookup(w)
    PROVE  /\ found' \in [Workers -> [Messages -> Found]]
           /\ \A v \in Workers \ {w} : found'[v] = found[v]
           /\ \A m \in Messages : found'[w][m] # None =>
                /\ cache[Text[m]] # None /\ ~Bad(Text[m])
                /\ found'[w][m] = cache[Text[m]].result
<1> DEFINE new == [m \in Messages |->
                     IF m \in CandidatesOf(w) /\ cache[Text[m]] # None
                     THEN Validated(cache[Text[m]].result) ELSE None]
<1>1. found' = [found EXCEPT ![w] = new] /\ \A m \in CandidatesOf(w) : ~Bad(Text[m])
  BY DEF Lookup, AfterLookup
<1>2. ASSUME NEW m \in Messages, m \in CandidatesOf(w), cache[Text[m]] # None
      PROVE  /\ ~Bad(Text[m])
             /\ cache[Text[m]].result \in Results
             /\ Validated(cache[Text[m]].result) = cache[Text[m]].result
  <2>1. ~Bad(Text[m])
    BY <1>1, <1>2
  <2>2. Text[m] \in Texts
    BY ExtractionAssumption
  <2>3. cache[Text[m]] \in Entries
    BY <1>2, <2>2 DEF TypeOK
  <2>4. cache[Text[m]].result \in Results
    BY <1>2, <2>1, <2>3 DEF Bad, Entries
  <2> QED
    BY <2>1, <2>4, ResultFacts
<1>3. new \in [Messages -> Found]
  BY <1>2 DEF Found
<1>4. \A m \in Messages : new[m] # None =>
        /\ cache[Text[m]] # None /\ ~Bad(Text[m])
        /\ new[m] = cache[Text[m]].result
  BY <1>2
<1> HIDE DEF new
<1>5. /\ found' \in [Workers -> [Messages -> Found]] /\ found'[w] = new
      /\ \A v \in Workers \ {w} : found'[v] = found[v]
  BY <1>1, <1>3 DEF TypeOK
<1> QED
  BY <1>4, <1>5
(* What a save changes. *)
LEMMA SaveFacts ==
    ASSUME TypeOK, UnsavedFound, NEW w \in Workers, Save(w)
    PROVE  /\ \E m \in Messages :
                /\ found[w][m] \in Results
                /\ cache' = [cache EXCEPT ![Text[m]] =
                               [result |-> found[w][m], on |-> now]]
           /\ unsaved' \in [Workers -> SUBSET Nat]
           /\ unsaved'[w] \subseteq unsaved[w]
           /\ \A v \in Workers \ {w} : unsaved'[v] = unsaved[v]
<1>1. PICK k \in unsaved[w] :
        /\ cache' = [cache EXCEPT ![Text[batch[w][k].msg]] =
                       [result |-> found[w][batch[w][k].msg], on |-> now]]
        /\ unsaved' = [unsaved EXCEPT ![w] = @ \ {k}]
  BY DEF Save
<1>2. k \in DOMAIN batch[w] /\ found[w][batch[w][k].msg] # None
  BY DEF UnsavedFound
<1>3. batch[w][k].msg \in Messages
  BY <1>2, BatchFacts
<1>4. found[w][batch[w][k].msg] \in Results
  BY <1>2, <1>3 DEF TypeOK, Found
<1>5. /\ unsaved' \in [Workers -> SUBSET Nat]
      /\ unsaved'[w] = unsaved[w] \ {k}
      /\ \A v \in Workers \ {w} : unsaved'[v] = unsaved[v]
  BY <1>1 DEF TypeOK
<1> QED
  BY <1>1, <1>3, <1>4, <1>5

(* The verdicts of a batch that is over without a commit. *)
LEMMA BuryFacts ==
    ASSUME TypeOK, NEW w \in Workers, NEW D \in SUBSET MessagesOf(w), Bury(w, D)
    PROVE  /\ verdict' \in [Messages -> Verdicts \cup {None}]
           /\ \A m \in Messages : verdict'[m] = IF m \in D THEN Buried ELSE verdict[m]
           /\ Reset(w) /\ now' = now /\ cache' = cache
<1>1. verdict' = [m \in Messages |-> IF m \in D THEN Buried ELSE verdict[m]]
  BY DEF Bury
<1>2. verdict \in [Messages -> Verdicts \cup {None}]
  BY DEF TypeOK
<1>3. Reset(w) /\ now' = now /\ cache' = cache
  BY DEF Bury
<1> QED
  BY <1>1, <1>2, <1>3, BuriedType

(* A batch that ends without a commit: a bad entry, a fatal or a transient  *)
(* exception, or a crash.                                                   *)
Ends(w) == Poisoned(w) \/ Fatal(w) \/ GiveBack(w)

LEMMA EndsBury ==
    ASSUME NEW w \in Workers, Ends(w)
    PROVE  place[w] # "idle" /\ \E D \in SUBSET MessagesOf(w) : Bury(w, D)
  BY DEF Ends, Poisoned, Fatal, GiveBack

LEMMA EndsFacts ==
    ASSUME TypeOK, NEW w \in Workers, Ends(w)
    PROVE  /\ verdict' \in [Messages -> Verdicts \cup {None}]
           /\ \A m \in Messages :
                verdict'[m] # verdict[m] => m \in MessagesOf(w) /\ verdict'[m] = Buried
           /\ \A m \in Messages \ MessagesOf(w) : verdict'[m] = verdict[m]
           /\ place[w] # "idle" /\ Reset(w) /\ now' = now /\ cache' = cache
<1>1. PICK D \in SUBSET MessagesOf(w) : place[w] # "idle" /\ Bury(w, D)
  BY EndsBury
<1> QED
  BY <1>1, BuryFacts

(* The verdicts of a commit. *)
LEMMA DecideFacts ==
    ASSUME TypeOK, NEW w \in Workers, Decide(w)
    PROVE  /\ verdict' \in [Messages -> Verdicts \cup {None}]
           /\ \A m \in MessagesOf(w) :
                \E k \in DOMAIN batch[w] :
                  batch[w][k].msg = m /\ verdict'[m] = Verdict(w, k)
           /\ \A m \in Messages \ MessagesOf(w) : verdict'[m] = verdict[m]
<1> DEFINE at(m) == CHOOSE k \in DOMAIN batch[w] : batch[w][k].msg = m
           new(m) == Verdict(w, at(m))
<1>1. verdict' = [m \in Messages |-> IF m \in MessagesOf(w) THEN new(m) ELSE verdict[m]]
  BY DEF Decide
<1>2. ASSUME NEW m \in MessagesOf(w)
      PROVE  at(m) \in DOMAIN batch[w] /\ batch[w][at(m)].msg = m
  BY DEF MessagesOf
<1>3. \A m \in MessagesOf(w) : new(m) \in Verdicts
  BY <1>2, VerdictFacts
<1> HIDE DEF at
<1>4. \A m \in MessagesOf(w) : verdict'[m] = Verdict(w, at(m))
  BY <1>1, BatchFacts
<1>5. \A m \in Messages \ MessagesOf(w) : verdict'[m] = verdict[m]
  BY <1>1
<1> HIDE DEF new
<1>6. verdict \in [Messages -> Verdicts \cup {None}]
  BY DEF TypeOK
<1>7. verdict' \in [Messages -> Verdicts \cup {None}]
  BY <1>1, <1>3, <1>6
<1> QED
  BY <1>2, <1>4, <1>5, <1>7

LEMMA TypeStep ==
    TypeOK /\ AttemptsLeft /\ UnsavedFound /\ [Next]_vars => TypeOK'
<1> SUFFICES ASSUME TypeOK, AttemptsLeft, UnsavedFound, [Next]_vars PROVE TypeOK'
  OBVIOUS
<1> USE DEF shared, local
<1>1. MaxDay \in Nat /\ MaxAttempts \in Nat
  BY ExtractionAssumption
<1>2. CASE Tick
  <2>1. now' \in 0 .. MaxDay
    BY <1>1, <1>2 DEF Tick, TypeOK
  <2>2. cache' \in [Texts -> Entries \cup {None}]
    BY <1>2 DEF Tick, TypeOK
  <2> QED
    BY <1>2, <2>1, <2>2 DEF Tick, TypeOK
<1>3. ASSUME NEW w \in Workers, Begin(w) PROVE TypeOK'
  <2>1. batch' = [batch EXCEPT ![w] = batch'[w]]
    BY <1>3 DEF Begin, TypeOK
  <2>2. batch'[w] \in Seq([msg : Messages, at : Int])
    BY <1>3, BeginBatch
  <2>3. batch' \in [Workers -> Seq([msg : Messages, at : Int])]
    BY <2>1, <2>2 DEF TypeOK
  <2>4. place' \in [Workers -> {"idle", "lookup", "ask", "save", "decide"}]
    BY <1>3 DEF Begin, TypeOK
  <2> QED
    BY <1>3, <2>3, <2>4 DEF Begin, TypeOK
<1>4. ASSUME NEW w \in Workers, Lookup(w) PROVE TypeOK'
  <2>1. found' \in [Workers -> [Messages -> Found]]
    BY <1>4, LookupFacts
  <2>2. place' \in [Workers -> {"idle", "lookup", "ask", "save", "decide"}]
    BY <1>4 DEF Lookup, AfterLookup, TypeOK
  <2> QED
    BY <1>4, <2>1, <2>2 DEF Lookup, AfterLookup, TypeOK
<1>5. ASSUME NEW w \in Workers, LookupFails(w) PROVE TypeOK'
  <2>1. found' = found
    BY <1>5 DEF LookupFails, AfterLookup, TypeOK
  <2>2. place' \in [Workers -> {"idle", "lookup", "ask", "save", "decide"}]
    BY <1>5 DEF LookupFails, AfterLookup, TypeOK
  <2> QED
    BY <1>5, <2>1, <2>2 DEF LookupFails, AfterLookup, TypeOK
<1>6. ASSUME NEW w \in Workers, Ends(w) PROVE TypeOK'
  BY <1>6, EndsFacts, ResetFacts DEF TypeOK
<1>7. ASSUME NEW w \in Workers, AttemptFails(w) PROVE TypeOK'
  <2>1. attempt[w] \in 0 .. MaxAttempts /\ attempt[w] < MaxAttempts
    BY <1>7 DEF AttemptFails, AttemptsLeft, TypeOK
  <2>2. attempt' \in [Workers -> 0 .. MaxAttempts]
    BY <1>1, <1>7, <2>1 DEF AttemptFails, TypeOK
  <2>3. place' \in [Workers -> {"idle", "lookup", "ask", "save", "decide"}]
    BY <1>7 DEF AttemptFails, TypeOK
  <2> QED
    BY <1>7, <2>2, <2>3 DEF AttemptFails, TypeOK
<1>8. ASSUME NEW w \in Workers, Unusable(w) PROVE TypeOK'
  BY <1>8 DEF Unusable, TypeOK
<1>9. ASSUME NEW w \in Workers, Answer(w) PROVE TypeOK'
  <2>1. place' \in [Workers -> {"idle", "lookup", "ask", "save", "decide"}]
    BY <1>9 DEF Answer, TypeOK
  <2> QED
    BY <1>9, <2>1, AnswerFacts DEF Answer, TypeOK
<1>10. ASSUME NEW w \in Workers, Save(w) PROVE TypeOK'
  <2>1. PICK m \in Messages :
          /\ found[w][m] \in Results
          /\ cache' = [cache EXCEPT ![Text[m]] = [result |-> found[w][m], on |-> now]]
    BY <1>10, SaveFacts
  <2>2. [result |-> found[w][m], on |-> now] \in Entries
    BY <1>1, <2>1 DEF Entries, TypeOK
  <2>3. cache' \in [Texts -> Entries \cup {None}]
    BY <2>1, <2>2 DEF TypeOK
  <2>4. place' \in [Workers -> {"idle", "lookup", "ask", "save", "decide"}]
    BY <1>10 DEF Save, TypeOK
  <2> QED
    BY <1>10, <2>3, <2>4, SaveFacts DEF Save, TypeOK
<1>11. ASSUME NEW w \in Workers, SaveFails(w) PROVE TypeOK'
  BY <1>11 DEF SaveFails, TypeOK
<1>12. ASSUME NEW w \in Workers, Decide(w) PROVE TypeOK'
  BY <1>12, DecideFacts, ResetFacts DEF Decide, TypeOK
<1>13. CASE UNCHANGED vars
  BY <1>13 DEF vars, TypeOK
<1> QED
  BY <1>2, <1>3, <1>4, <1>5, <1>6, <1>7, <1>8, <1>9, <1>10, <1>11, <1>12, <1>13
     DEF Next, Step, Ends
-----------------------------------------------------------------------------
(* Batches *)

\* A step of a worker in its batch that decides nothing.
Inside(w) ==
    /\ place[w] # "idle" /\ batch' = batch /\ verdict' = verdict
    /\ place'[w] \in {"lookup", "ask", "save", "decide"}
    /\ \A v \in Workers \ {w} :
         /\ place'[v] = place[v] /\ attempt'[v] = attempt[v]
         /\ found'[v] = found[v] /\ unsaved'[v] = unsaved[v]

\* The end of a batch, which decides nothing else.
Over(w) ==
    /\ place[w] # "idle" /\ Reset(w)
    /\ \A m \in Messages \ MessagesOf(w) : verdict'[m] = verdict[m]

LEMMA ClosingIsOver ==
    ASSUME TypeOK, NEW w \in Workers, Ends(w) \/ Decide(w)
    PROVE  Over(w)
<1>1. CASE Ends(w)
  BY <1>1, EndsFacts DEF Over
<1>2. CASE Decide(w)
  BY <1>2, DecideFacts DEF Decide, Over
<1> QED
  BY <1>1, <1>2

LEMMA StepCases ==
    ASSUME TypeOK, UnsavedFound, [Next]_vars
    PROVE  \/ \E w \in Workers : Begin(w) \/ Inside(w) \/ Over(w)
           \/ UNCHANGED <<verdict, local>>
<1> USE DEF shared, local
<1>1. ASSUME NEW w \in Workers, Lookup(w) PROVE Inside(w)
  BY <1>1, LookupFacts DEF Lookup, AfterLookup, Inside, TypeOK
<1>2. ASSUME NEW w \in Workers, LookupFails(w) PROVE Inside(w)
  BY <1>2 DEF LookupFails, AfterLookup, Inside, TypeOK
<1>3. ASSUME NEW w \in Workers, AttemptFails(w) PROVE Inside(w)
  BY <1>3 DEF AttemptFails, Inside, TypeOK
<1>4. ASSUME NEW w \in Workers, Unusable(w) PROVE Inside(w)
  BY <1>4 DEF Unusable, Inside, TypeOK
<1>5. ASSUME NEW w \in Workers, Answer(w) PROVE Inside(w)
  <2>1. /\ place'[w] \in {"decide", "save"}
        /\ \A v \in Workers \ {w} : place'[v] = place[v]
    BY <1>5 DEF Answer, TypeOK
  <2>2. /\ place[w] = "ask" /\ batch' = batch /\ verdict' = verdict
        /\ attempt' = attempt
    BY <1>5 DEF Answer
  <2> QED
    BY <1>5, <2>1, <2>2, AnswerFacts DEF Inside
<1>6. ASSUME NEW w \in Workers, Save(w) PROVE Inside(w)
  <2>1. /\ place'[w] \in {"decide", "save"}
        /\ \A v \in Workers \ {w} : place'[v] = place[v]
    BY <1>6 DEF Save, TypeOK
  <2>2. /\ place[w] = "save" /\ batch' = batch /\ verdict' = verdict
        /\ attempt' = attempt /\ found' = found
    BY <1>6 DEF Save
  <2> QED
    BY <1>6, <2>1, <2>2, SaveFacts DEF Inside
<1>7. ASSUME NEW w \in Workers, SaveFails(w) PROVE Inside(w)
  BY <1>7 DEF SaveFails, Inside, TypeOK
<1>8. ASSUME NEW w \in Workers, Ends(w) \/ Decide(w) PROVE Over(w)
  BY <1>8, ClosingIsOver
<1>9. CASE Tick \/ UNCHANGED vars
  BY <1>9 DEF Tick, vars
<1> QED
  BY <1>1, <1>2, <1>3, <1>4, <1>5, <1>6, <1>7, <1>8, <1>9 DEF Next, Step, Ends

LEMMA AttemptsStep ==
    TypeOK /\ AttemptsLeft /\ UnsavedFound /\ [Next]_vars => AttemptsLeft'
<1> SUFFICES ASSUME TypeOK, AttemptsLeft, UnsavedFound, [Next]_vars, NEW v \in Workers,
                    place'[v] \in {"idle", "lookup", "ask"}
             PROVE  attempt'[v] < MaxAttempts
  BY DEF AttemptsLeft
<1> USE DEF shared, local
<1>1. ASSUME place'[v] = place[v], attempt'[v] = attempt[v]
      PROVE  attempt'[v] < MaxAttempts
  BY <1>1 DEF AttemptsLeft
<1>2. ASSUME NEW w \in Workers, Begin(w) PROVE attempt'[v] < MaxAttempts
  BY <1>2 DEF Begin, AttemptsLeft, TypeOK
<1>3. ASSUME NEW w \in Workers, Inside(w), w # v PROVE attempt'[v] < MaxAttempts
  BY <1>1, <1>3 DEF Inside
<1>4. ASSUME NEW w \in Workers, Over(w) PROVE attempt'[v] < MaxAttempts
  <2>1. MaxAttempts \in Nat \ {0}
    BY ExtractionAssumption
  <2> QED
    BY <1>1, <1>4, <2>1, ResetFacts DEF Over
<1>5. CASE UNCHANGED <<verdict, local>>
  BY <1>1, <1>5
<1>6. CASE Lookup(v) \/ LookupFails(v)
  BY <1>6 DEF Lookup, LookupFails, AfterLookup, AttemptsLeft
<1>7. CASE AttemptFails(v)
  BY <1>7 DEF AttemptFails, TypeOK
<1>8. CASE Unusable(v) \/ Answer(v) \/ Save(v) \/ SaveFails(v)
  BY <1>8 DEF Unusable, Answer, Save, SaveFails, TypeOK
<1>9. ASSUME NEW w \in Workers, w # v, Step(w) PROVE attempt'[v] < MaxAttempts
  <2>1. CASE Poisoned(w) \/ Decide(w)
    BY <1>4, <2>1, ClosingIsOver DEF Ends
  <2>2. CASE ~Poisoned(w) /\ ~Decide(w)
    <3>1. place'[v] = place[v] /\ attempt'[v] = attempt[v]
      BY <1>9, <2>2 DEF Step, Lookup, LookupFails, AfterLookup, AttemptFails, Unusable,
                        Answer, Save, SaveFails, TypeOK
    <3> QED
      BY <1>1, <3>1
  <2> QED
    BY <2>1, <2>2
<1>10. CASE Poisoned(v) \/ Decide(v)
  BY <1>4, <1>10, ClosingIsOver DEF Ends
<1>11. ASSUME NEW w \in Workers, Fatal(w) \/ GiveBack(w) PROVE attempt'[v] < MaxAttempts
  BY <1>4, <1>11, ClosingIsOver DEF Ends
<1>12. CASE Tick \/ UNCHANGED vars
  BY <1>5, <1>12 DEF Tick, vars
<1> QED
  BY <1>2, <1>6, <1>7, <1>8, <1>9, <1>10, <1>11, <1>12 DEF Next, Step
(* The messages of a batch that stays, ends or begins. *)
LEMMA MessagesKept ==
    ASSUME NEW v \in Workers, batch'[v] = batch[v]
    PROVE  MessagesOf(v)' = MessagesOf(v)
  BY DEF MessagesOf

LEMMA MessagesOver ==
    ASSUME NEW w \in Workers, batch'[w] = <<>>
    PROVE  MessagesOf(w)' = {}
  BY DEF MessagesOf

LEMMA MessagesBegun ==
    ASSUME TypeOK, NEW w \in Workers, Begin(w)
    PROVE  /\ batch'[w] # <<>>
           /\ \A j, k \in DOMAIN batch'[w] :
                batch'[w][j].msg = batch'[w][k].msg => j = k
           /\ MessagesOf(w)' # {} /\ MessagesOf(w)' \subseteq Messages
           /\ \A m \in MessagesOf(w)' :
                verdict[m] = None /\ \A v \in Workers : m \notin MessagesOf(v)
           /\ \A v \in Workers \ {w} : batch'[v] = batch[v]
<1>1. PICK n \in Nat \ {0} : \E jobs \in [1 .. n -> Messages] :
        /\ Chosen(w, jobs)
        /\ batch'[w] \in Seq([msg : Messages, at : Int])
        /\ DOMAIN batch'[w] = 1 .. n /\ batch'[w] # <<>>
        /\ \A k \in 1 .. n : batch'[w][k].msg = jobs[k]
        /\ \A v \in Workers \ {w} : batch'[v] = batch[v]
  BY BeginBatch
<1>2. PICK jobs \in [1 .. n -> Messages] :
        /\ Chosen(w, jobs)
        /\ DOMAIN batch'[w] = 1 .. n /\ batch'[w] # <<>>
        /\ \A k \in 1 .. n : batch'[w][k].msg = jobs[k]
        /\ \A v \in Workers \ {w} : batch'[v] = batch[v]
  BY <1>1
<1>3. DOMAIN jobs = 1 .. n /\ 1 \in 1 .. n /\ \A k \in 1 .. n : jobs[k] \in Messages
  BY <1>2
<1>4. MessagesOf(w)' = {jobs[k] : k \in 1 .. n}
  BY <1>2 DEF MessagesOf
<1>5. \A m \in Range(jobs) :
        verdict[m] = None /\ \A v \in Workers : m \notin MessagesOf(v)
  BY <1>2 DEF Chosen
<1>6. Range(jobs) = {jobs[k] : k \in 1 .. n}
  BY <1>3 DEF Range
<1>7. \A j, k \in 1 .. n : jobs[j] = jobs[k] => j = k
  BY <1>2, <1>3 DEF Chosen, IsInjective
<1>8. MessagesOf(w)' # {} /\ MessagesOf(w)' \subseteq Messages
  BY <1>3, <1>4
<1>9. \A j, k \in DOMAIN batch'[w] :
        batch'[w][j].msg = batch'[w][k].msg => j = k
  BY <1>2, <1>7
<1> QED
  BY <1>2, <1>4, <1>5, <1>6, <1>8, <1>9

LEMMA IdleStep ==
    TypeOK /\ UnsavedFound /\ IdleEmpty /\ [Next]_vars => IdleEmpty'
<1> SUFFICES ASSUME TypeOK, UnsavedFound, IdleEmpty, [Next]_vars, NEW v \in Workers
             PROVE  place'[v] = "idle" <=> batch'[v] = <<>>
  BY DEF IdleEmpty
<1>1. ASSUME place'[v] = place[v], batch'[v] = batch[v]
      PROVE  place'[v] = "idle" <=> batch'[v] = <<>>
  BY <1>1 DEF IdleEmpty
<1>2. ASSUME NEW w \in Workers, Begin(w) PROVE place'[v] = "idle" <=> batch'[v] = <<>>
  <2>1. place'[w] = "lookup" /\ (w # v => place'[v] = place[v])
    BY <1>2 DEF Begin, TypeOK
  <2> QED
    BY <1>1, <1>2, <2>1, MessagesBegun
<1>3. ASSUME NEW w \in Workers, Inside(w) PROVE place'[v] = "idle" <=> batch'[v] = <<>>
  BY <1>1, <1>3 DEF Inside, IdleEmpty
<1>4. ASSUME NEW w \in Workers, Over(w) PROVE place'[v] = "idle" <=> batch'[v] = <<>>
  BY <1>1, <1>4, ResetFacts DEF Over
<1>5. CASE UNCHANGED <<verdict, local>>
  BY <1>1, <1>5 DEF local
<1> QED
  BY <1>2, <1>3, <1>4, <1>5, StepCases

LEMMA DistinctStep ==
    TypeOK /\ UnsavedFound /\ Distinct /\ [Next]_vars => Distinct'
<1> SUFFICES ASSUME TypeOK, UnsavedFound, Distinct, [Next]_vars, NEW v \in Workers
             PROVE  \A j, k \in DOMAIN batch'[v] :
                      batch'[v][j].msg = batch'[v][k].msg => j = k
  BY DEF Distinct
<1>1. CASE batch'[v] = batch[v]
  BY <1>1 DEF Distinct
<1>2. CASE batch'[v] = <<>>
  BY <1>2
<1>3. ASSUME NEW w \in Workers, Begin(w), batch'[v] # batch[v]
      PROVE  \A j, k \in DOMAIN batch'[v] :
               batch'[v][j].msg = batch'[v][k].msg => j = k
  <2>1. v = w
    BY <1>3, MessagesBegun
  <2> QED
    BY <1>3, <2>1, MessagesBegun
<1>4. ASSUME NEW w \in Workers, Inside(w) \/ Over(w)
      PROVE  batch'[v] = batch[v] \/ batch'[v] = <<>>
  BY <1>4, ResetFacts DEF Inside, Over
<1>5. CASE UNCHANGED <<verdict, local>>
  BY <1>1, <1>5 DEF local
<1> QED
  BY <1>1, <1>2, <1>3, <1>4, <1>5, StepCases

LEMMA DisjointStep ==
    TypeOK /\ UnsavedFound /\ Disjoint /\ [Next]_vars => Disjoint'
<1> SUFFICES ASSUME TypeOK, UnsavedFound, Disjoint, [Next]_vars,
                    NEW u \in Workers, NEW v \in Workers, u # v
             PROVE  MessagesOf(u)' \cap MessagesOf(v)' = {}
  BY DEF Disjoint
<1>1. MessagesOf(u) \cap MessagesOf(v) = {}
  BY DEF Disjoint
<1>2. ASSUME batch'[u] = batch[u] \/ batch'[u] = <<>>,
             batch'[v] = batch[v] \/ batch'[v] = <<>>
      PROVE  MessagesOf(u)' \cap MessagesOf(v)' = {}
  BY <1>1, <1>2, MessagesKept, MessagesOver
<1>3. ASSUME NEW w \in Workers, Begin(w)
      PROVE  MessagesOf(u)' \cap MessagesOf(v)' = {}
  <2>1. CASE w # u /\ w # v
    <3>1. batch'[u] = batch[u] /\ batch'[v] = batch[v]
      BY <1>3, <2>1, MessagesBegun
    <3> QED
      BY <1>2, <3>1
  <2>2. CASE w = u
    <3>1. MessagesOf(v)' = MessagesOf(v)
      BY <1>3, <2>2, MessagesBegun, MessagesKept
    <3> QED
      BY <1>3, <2>2, <3>1, MessagesBegun
  <2>3. CASE w = v
    <3>1. MessagesOf(u)' = MessagesOf(u)
      BY <1>3, <2>3, MessagesBegun, MessagesKept
    <3> QED
      BY <1>3, <2>3, <3>1, MessagesBegun
  <2> QED
    BY <2>1, <2>2, <2>3
<1>4. ASSUME NEW w \in Workers, Inside(w)
      PROVE  batch' = batch
  BY <1>4 DEF Inside
<1>5. ASSUME NEW w \in Workers, Over(w), NEW x \in Workers
      PROVE  batch'[x] = batch[x] \/ batch'[x] = <<>>
  BY <1>5, ResetFacts DEF Over
<1>6. CASE UNCHANGED <<verdict, local>>
  BY <1>2, <1>6 DEF local
<1> QED
  BY <1>2, <1>3, <1>4, <1>5, <1>6, StepCases

LEMMA UndecidedStep ==
    TypeOK /\ UnsavedFound /\ Disjoint /\ BusyUndecided /\ [Next]_vars => BusyUndecided'
<1> SUFFICES ASSUME TypeOK, UnsavedFound, Disjoint, BusyUndecided, [Next]_vars,
                    NEW v \in Workers, NEW m \in MessagesOf(v)'
             PROVE  verdict'[m] = None
  BY DEF BusyUndecided
<1>1. ASSUME batch'[v] = batch[v], verdict'[m] = verdict[m]
      PROVE  verdict'[m] = None
  BY <1>1, MessagesKept DEF BusyUndecided
<1>2. ASSUME NEW w \in Workers, Begin(w) PROVE verdict'[m] = None
  <2>1. verdict' = verdict
    BY <1>2 DEF Begin, shared
  <2> QED
    BY <1>1, <1>2, <2>1, MessagesBegun
<1>3. ASSUME NEW w \in Workers, Inside(w) PROVE verdict'[m] = None
  BY <1>1, <1>3 DEF Inside
<1>4. ASSUME NEW w \in Workers, Over(w) PROVE verdict'[m] = None
  <2>1. v # w /\ batch'[v] = batch[v]
    BY <1>4, ResetFacts, MessagesOver DEF Over
  <2>2. m \in MessagesOf(v) /\ m \notin MessagesOf(w)
    BY <2>1, MessagesKept DEF Disjoint
  <2>3. m \in Messages
    BY <2>2, BatchFacts
  <2> QED
    BY <1>1, <1>4, <2>1, <2>2, <2>3 DEF Over
<1>5. CASE UNCHANGED <<verdict, local>>
  BY <1>1, <1>5 DEF local
<1> QED
  BY <1>2, <1>3, <1>4, <1>5, StepCases
-----------------------------------------------------------------------------
(* What is found, cached and decided *)

LEMMA UnsavedStep ==
    TypeOK /\ UnsavedFound /\ [Next]_vars => UnsavedFound'
<1> SUFFICES ASSUME TypeOK, UnsavedFound, [Next]_vars,
                    NEW v \in Workers, NEW k \in unsaved'[v]
             PROVE  /\ place'[v] = "save" /\ k \in DOMAIN batch'[v]
                    /\ found'[v][batch'[v][k].msg] # None
  BY DEF UnsavedFound
<1> DEFINE Goal == /\ place'[v] = "save" /\ k \in DOMAIN batch'[v]
                   /\ found'[v][batch'[v][k].msg] # None
<1> USE DEF shared, local
<1>1. ASSUME place'[v] = place[v], batch'[v] = batch[v], found'[v] = found[v],
             k \in unsaved[v]
      PROVE  Goal
  BY <1>1 DEF UnsavedFound
<1>2. place[v] # "save" => unsaved[v] = {}
  BY DEF UnsavedFound
<1>3. ASSUME NEW w \in Workers, Begin(w) PROVE Goal
  <2>1. w # v
    BY <1>2, <1>3 DEF Begin
  <2>2. place'[v] = place[v] /\ found'[v] = found[v] /\ unsaved'[v] = unsaved[v]
    BY <1>3, <2>1 DEF Begin, TypeOK
  <2> QED
    BY <1>1, <1>3, <2>1, <2>2, MessagesBegun
<1>4. ASSUME NEW w \in Workers, Inside(w), w # v PROVE Goal
  BY <1>1, <1>4 DEF Inside
<1>5. ASSUME NEW w \in Workers, Over(w) PROVE Goal
  <2>1. w # v
    BY <1>5, ResetFacts DEF Over
  <2> QED
    BY <1>1, <1>5, <2>1, ResetFacts DEF Over
<1>6. CASE UNCHANGED <<verdict, local>>
  BY <1>1, <1>6
<1>7. CASE Lookup(v) \/ LookupFails(v) \/ AttemptFails(v) \/ Unusable(v)
  <2>1. place[v] # "save" /\ unsaved' = unsaved
    BY <1>7 DEF Lookup, LookupFails, AfterLookup, AttemptFails, Unusable
  <2> QED
    BY <1>2, <2>1
<1>8. CASE Answer(v)
  <2>1. place'[v] = "save" /\ batch' = batch
    BY <1>8 DEF Answer, TypeOK
  <2> QED
    BY <1>8, <2>1, AnswerFacts
<1>9. CASE Save(v)
  <2>1. place'[v] = "save" /\ place[v] = "save" /\ batch' = batch /\ found' = found
    BY <1>9 DEF Save, TypeOK
  <2> QED
    BY <1>1, <1>9, <2>1, SaveFacts
<1>10. CASE SaveFails(v)
  BY <1>10 DEF SaveFails, TypeOK
<1>11. ASSUME NEW w \in Workers, Step(w), w # v PROVE Goal
  <2>1. CASE Poisoned(w) \/ Decide(w)
    BY <1>5, <2>1, ClosingIsOver DEF Ends
  <2>2. CASE Lookup(w) \/ LookupFails(w) \/ AttemptFails(w) \/ Unusable(w) \/ SaveFails(w)
    <3>1. batch' = batch /\ place'[v] = place[v] /\ found'[v] = found[v]
            /\ unsaved'[v] = unsaved[v]
      BY <1>11, <2>2 DEF Lookup, LookupFails, AfterLookup, AttemptFails, Unusable,
                         SaveFails, TypeOK
    <3> QED
      BY <1>1, <3>1
  <2>3. CASE Answer(w)
    <3>1. batch' = batch /\ place'[v] = place[v]
      BY <1>11, <2>3 DEF Answer, TypeOK
    <3> QED
      BY <1>1, <1>11, <2>3, <3>1, AnswerFacts
  <2>4. CASE Save(w)
    <3>1. batch' = batch /\ place'[v] = place[v] /\ found' = found
      BY <1>11, <2>4 DEF Save, TypeOK
    <3> QED
      BY <1>1, <1>11, <2>4, <3>1, SaveFacts
  <2> QED
    BY <1>11, <2>1, <2>2, <2>3, <2>4 DEF Step
<1>12. CASE Poisoned(v) \/ Decide(v)
  BY <1>5, <1>12, ClosingIsOver DEF Ends
<1>13. ASSUME NEW w \in Workers, Fatal(w) \/ GiveBack(w) PROVE Goal
  BY <1>5, <1>13, ClosingIsOver DEF Ends
<1>14. CASE Tick \/ UNCHANGED vars
  BY <1>6, <1>14 DEF Tick, vars
<1>15. CASE Step(v)
  BY <1>7, <1>8, <1>9, <1>10, <1>12, <1>15 DEF Step
<1>16. ASSUME NEW w \in Workers, Step(w) PROVE Goal
  BY <1>11, <1>15, <1>16
<1> QED
  BY <1>3, <1>13, <1>14, <1>16 DEF Next

LEMMA FoundStep ==
    TypeOK /\ UnsavedFound /\ CacheBelongs /\ FoundBelongs /\ [Next]_vars => FoundBelongs'
<1> SUFFICES ASSUME TypeOK, UnsavedFound, CacheBelongs, FoundBelongs, [Next]_vars,
                    NEW v \in Workers, NEW m \in Messages, found'[v][m] # None
             PROVE  Answers(found'[v][m], Text[m])
  BY DEF FoundBelongs
<1> USE DEF shared, local
<1>1. ASSUME found'[v][m] = found[v][m] PROVE Answers(found'[v][m], Text[m])
  BY <1>1 DEF FoundBelongs
<1>2. ASSUME NEW w \in Workers, Begin(w) PROVE found' = found
  BY <1>2 DEF Begin
<1>3. ASSUME NEW w \in Workers, Inside(w), w # v PROVE Answers(found'[v][m], Text[m])
  BY <1>1, <1>3 DEF Inside
<1>4. ASSUME NEW w \in Workers, Over(w) PROVE Answers(found'[v][m], Text[m])
  <2>1. w # v
    BY <1>4, ResetFacts DEF Over
  <2> QED
    BY <1>1, <1>4, <2>1, ResetFacts DEF Over
<1>5. CASE UNCHANGED <<verdict, local>>
  BY <1>1, <1>5
<1>6. ASSUME NEW w \in Workers, Lookup(w) PROVE Answers(found'[v][m], Text[m])
  <2>1. CASE w = v
    <3>1. /\ cache[Text[m]] # None /\ ~Bad(Text[m])
          /\ found'[v][m] = cache[Text[m]].result
      BY <1>6, <2>1, LookupFacts
    <3>2. Text[m] \in Texts
      BY ExtractionAssumption
    <3> QED
      BY <3>1, <3>2 DEF CacheBelongs
  <2>2. CASE w # v
    BY <1>1, <1>6, <2>2, LookupFacts
  <2> QED
    BY <2>1, <2>2
<1>7. ASSUME NEW w \in Workers, Answer(w) PROVE Answers(found'[v][m], Text[m])
  <2>1. CASE w = v
    <3>1. found'[v][m] = found[v][m] \/ found'[v][m].id = m
      BY <1>7, <2>1, AnswerFacts
    <3> QED
      BY <1>1, <3>1 DEF Answers
  <2>2. CASE w # v
    BY <1>1, <1>7, <2>2, AnswerFacts
  <2> QED
    BY <2>1, <2>2
<1>8. ASSUME NEW w \in Workers,
             LookupFails(w) \/ AttemptFails(w) \/ Unusable(w) \/ Save(w) \/ SaveFails(w)
      PROVE  Answers(found'[v][m], Text[m])
  <2>1. found' = found
    BY <1>8 DEF LookupFails, AfterLookup, AttemptFails, Unusable, Save, SaveFails, TypeOK
  <2> QED
    BY <1>1, <2>1
<1>9. ASSUME NEW w \in Workers, Ends(w) \/ Decide(w)
      PROVE  Answers(found'[v][m], Text[m])
  BY <1>4, <1>9, ClosingIsOver
<1>10. CASE Tick \/ UNCHANGED vars
  BY <1>5, <1>10 DEF Tick, vars
<1> QED
  BY <1>1, <1>2, <1>6, <1>7, <1>8, <1>9, <1>10 DEF Next, Step, Ends

LEMMA CacheStep ==
    TypeOK /\ UnsavedFound /\ FoundBelongs /\ CacheBelongs /\ [Next]_vars => CacheBelongs'
<1> SUFFICES ASSUME TypeOK, UnsavedFound, FoundBelongs, CacheBelongs, [Next]_vars,
                    NEW t \in Texts, cache'[t] # None, cache'[t].result # Legacy
             PROVE  Answers(cache'[t].result, t)
  BY DEF CacheBelongs, Bad
<1> USE DEF shared, local
<1>1. ASSUME cache'[t] = cache[t] PROVE Answers(cache'[t].result, t)
  BY <1>1 DEF CacheBelongs, Bad
<1>2. CASE Tick
  <2>1. cache'[t] = cache[t]
    BY <1>2 DEF Tick
  <2> QED
    BY <1>1, <2>1
<1>3. ASSUME NEW w \in Workers, Save(w) PROVE Answers(cache'[t].result, t)
  <2>1. PICK m \in Messages :
          /\ found[w][m] \in Results
          /\ cache' = [cache EXCEPT ![Text[m]] = [result |-> found[w][m], on |-> now]]
    BY <1>3, SaveFacts
  <2>2. found[w][m] # None
    BY <2>1 DEF Results
  <2>3. Answers(found[w][m], Text[m])
    BY <2>2 DEF FoundBelongs
  <2>4. CASE t = Text[m]
    <3>1. cache'[t] = [result |-> found[w][m], on |-> now]
      BY <2>1, <2>4 DEF TypeOK
    <3> QED
      BY <2>3, <2>4, <3>1
  <2>5. CASE t # Text[m]
    BY <1>1, <2>1, <2>5 DEF TypeOK
  <2> QED
    BY <2>4, <2>5
<1>4. ASSUME NEW w \in Workers, Begin(w) \/ Step(w) \/ Ends(w), ~Save(w)
      PROVE  cache' = cache
  <2>1. CASE Ends(w)
    BY <2>1, EndsFacts
  <2>2. CASE ~Ends(w)
    BY <1>4, <2>2 DEF Begin, Step, Ends, Lookup, LookupFails, AfterLookup,
                      AttemptFails, Unusable, Answer, SaveFails, Decide
  <2> QED
    BY <2>1, <2>2
<1>5. CASE UNCHANGED vars
  BY <1>1, <1>5 DEF vars
<1> QED
  BY <1>1, <1>2, <1>3, <1>4, <1>5 DEF Next, Ends

(* Each verdict of a step is that of a batch buried, or of a commit. *)
LEMMA VerdictCases ==
    ASSUME TypeOK, [Next]_vars, NEW m \in Messages, verdict'[m] # verdict[m]
    PROVE  \/ verdict'[m] = Buried
           \/ \E w \in Workers : Decide(w) /\ m \in MessagesOf(w)
<1> USE DEF shared, local
<1>1. ASSUME NEW w \in Workers, Ends(w) PROVE verdict'[m] = Buried
  BY <1>1, EndsFacts
<1>2. ASSUME NEW w \in Workers, Decide(w) PROVE m \in MessagesOf(w)
  BY <1>2, DecideFacts
<1>3. ASSUME NEW w \in Workers,
             Begin(w) \/ Step(w), ~Ends(w), ~Decide(w)
      PROVE  FALSE
  BY <1>3 DEF Begin, Step, Ends, Lookup, LookupFails, AfterLookup,
              AttemptFails, Unusable, Answer, Save, SaveFails
<1>4. ~Tick /\ ~UNCHANGED vars
  BY DEF Tick, vars
<1> QED
  BY <1>1, <1>2, <1>3, <1>4 DEF Next, Ends

(* The verdicts of a commit rest on what was found in their place. *)
LEMMA CommitFacts ==
    ASSUME TypeOK, NEW w \in Workers, Decide(w), NEW m \in MessagesOf(w)
    PROVE  /\ m \in Messages /\ found[w][m] \in Found
           /\ m \in Missing => verdict'[m] = Buried
           /\ m \notin Missing =>
                /\ verdict'[m].result = found[w][m]
                /\ verdict'[m].status = IF IsCandidate(m) THEN Route(found[w][m])
                                        ELSE "NON_TRANSACTION"
                /\ verdict'[m].review =
                     (verdict'[m].status \in {"AI_EXTRACTION_FAILED",
                                              "REJECTED_LOW_CONFIDENCE"})
<1>1. PICK k \in DOMAIN batch[w] : batch[w][k].msg = m /\ verdict'[m] = Verdict(w, k)
  BY DecideFacts
<1>2. m \in Messages
  BY BatchFacts
<1>3. found[w][m] \in Found
  BY <1>2 DEF TypeOK
<1> QED
  BY <1>1, <1>2, <1>3, VerdictFacts

LEMMA BelongStep ==
    TypeOK /\ FoundBelongs /\ ResultsBelong /\ [Next]_vars => ResultsBelong'
<1> SUFFICES ASSUME TypeOK, FoundBelongs, ResultsBelong, [Next]_vars,
                    NEW m \in Messages, verdict'[m] # None, verdict'[m].result # None
             PROVE  \E origin \in Messages :
                      verdict'[m].result.id = origin /\ Text[origin] = Text[m]
  BY DEF ResultsBelong
<1>1. CASE verdict'[m] = verdict[m]
  BY <1>1 DEF ResultsBelong
<1>2. ASSUME NEW w \in Workers, Decide(w), m \in MessagesOf(w), m \notin Missing
      PROVE  \E origin \in Messages :
               verdict'[m].result.id = origin /\ Text[origin] = Text[m]
  <2>1. verdict'[m].result = found[w][m]
    BY <1>2, CommitFacts
  <2>2. Answers(found[w][m], Text[m])
    BY <2>1 DEF FoundBelongs
  <2> QED
    BY <2>1, <2>2 DEF Answers
<1>3. CASE verdict'[m] = Buried
  BY <1>3 DEF Buried
<1> QED
  BY <1>1, <1>2, <1>3, VerdictCases, CommitFacts

LEMMA DroppedStep ==
    TypeOK /\ NothingSilentlyDropped /\ [Next]_vars => NothingSilentlyDropped'
<1> SUFFICES ASSUME TypeOK, NothingSilentlyDropped, [Next]_vars,
                    NEW m \in Messages, verdict'[m] # None, IsCandidate(m)
             PROVE  \/ verdict'[m].status \in Booked \cup {"DEAD_LETTER"}
                    \/ verdict'[m].review
                    \/ verdict'[m].result # None /\ ~IsTransaction(verdict'[m].result)
  BY DEF NothingSilentlyDropped, IsTransaction, ValidAmount, ValidVerb
<1>1. CASE verdict'[m] = verdict[m]
  BY <1>1 DEF NothingSilentlyDropped
<1>2. ASSUME NEW w \in Workers, Decide(w), m \in MessagesOf(w), m \notin Missing
      PROVE  \/ verdict'[m].status \in Booked
             \/ verdict'[m].review
             \/ verdict'[m].result # None /\ ~IsTransaction(verdict'[m].result)
  <2>1. /\ found[w][m] \in Found
        /\ verdict'[m].result = found[w][m]
        /\ verdict'[m].status = Route(found[w][m])
    BY <1>2, CommitFacts
  <2>2. CASE Route(found[w][m]) \in Booked
    BY <2>1, <2>2
  <2>3. CASE Route(found[w][m]) \in {"AI_EXTRACTION_FAILED", "REJECTED_LOW_CONFIDENCE"}
    BY <1>2, <2>1, <2>3, CommitFacts
  <2>4. CASE found[w][m] # None /\ ~IsTransaction(found[w][m])
    BY <2>1, <2>4
  <2> QED
    BY <2>1, <2>2, <2>3, <2>4, RouteFacts
<1>3. CASE verdict'[m] = Buried
  BY <1>3 DEF Buried
<1> QED
  BY <1>1, <1>2, <1>3, VerdictCases, CommitFacts

LEMMA IInvStep == IInv /\ [Next]_vars => IInv'
  BY TypeStep, AttemptsStep, UnsavedStep, IdleStep, DistinctStep, DisjointStep,
     UndecidedStep, FoundStep, CacheStep, BelongStep, DroppedStep DEF IInv, BatchInv

LEMMA IInvInit == Init => IInv
<1> SUFFICES ASSUME Init PROVE IInv
  OBVIOUS
<1>1. MaxDay \in Nat /\ MaxAttempts \in Nat \ {0}
  BY ExtractionAssumption
<1>2. [m \in Messages |-> None] \in [Messages -> Found]
  BY DEF Found
<1>3. <<>> \in Seq([msg : Messages, at : Int])
  OBVIOUS
<1>4. TypeOK
  <2>1. [result |-> Legacy, on |-> 0] \in Entries
    BY DEF Entries
  <2>2. cache \in [Texts -> Entries \cup {None}]
    BY <2>1 DEF Init
  <2>3. batch \in [Workers -> Seq([msg : Messages, at : Int])]
    BY <1>3 DEF Init
  <2>4. found \in [Workers -> [Messages -> Found]]
    BY <1>2 DEF Init
  <2>5. now \in 0 .. MaxDay /\ attempt \in [Workers -> 0 .. MaxAttempts]
    BY <1>1 DEF Init
  <2> QED
    BY <2>2, <2>3, <2>4, <2>5 DEF Init, TypeOK
<1>5. AttemptsLeft /\ UnsavedFound
  BY <1>1 DEF Init, AttemptsLeft, UnsavedFound
<1>6. \A w \in Workers : batch[w] = <<>>
  BY DEF Init
<1>7. BatchInv
  <2>1. \A w \in Workers : MessagesOf(w) = {} /\ DOMAIN batch[w] = {}
    BY <1>6 DEF MessagesOf
  <2> QED
    BY <1>6, <2>1 DEF Init, BatchInv, IdleEmpty, Distinct, Disjoint, BusyUndecided
<1>8. FoundBelongs
  BY DEF Init, FoundBelongs
<1>9. CacheBelongs
  <2>1. \A t \in Texts : cache[t] # None => cache[t].result = Legacy
    BY DEF Init
  <2> QED
    BY <2>1 DEF CacheBelongs, Bad
<1>10. ResultsBelong /\ NothingSilentlyDropped
  BY DEF Init, ResultsBelong, NothingSilentlyDropped
<1> QED
  BY <1>4, <1>5, <1>7, <1>8, <1>9, <1>10 DEF IInv
-----------------------------------------------------------------------------
(* Theorems *)

(* Verdicts, cache entries, batches and what is found have their types; a   *)
(* worker has a batch from its start to its end.                            *)
THEOREM TypeCorrect == Spec => []TypeOK
<1>1. IInv => TypeOK
  BY DEF IInv
<1> QED
  BY <1>1, IInvInit, IInvStep, PTL DEF Spec

(* Whatever ids the LLM leaves out, repeats or invents, and whoever filled  *)
(* the cache, a verdict rests on an answer to a message with its text.      *)
THEOREM VerdictsBelong == Spec => []ResultsBelong
<1>1. IInv => ResultsBelong
  BY DEF IInv
<1> QED
  BY <1>1, IInvInit, IInvStep, PTL DEF Spec

(* What was stored in the cache is validated to itself when it is read.     *)
THEOREM CacheIsStable == Spec => []CacheRoundTrip
<1>1. IInv => CacheRoundTrip
  <2> SUFFICES ASSUME TypeOK, NEW t \in Texts, cache[t] # None, ~Bad(t)
               PROVE  Validated(cache[t].result) = cache[t].result
    BY DEF IInv, CacheRoundTrip
  <2>1. cache[t] \in Entries
    BY DEF TypeOK
  <2>2. cache[t].result \in Results
    BY <2>1 DEF Entries, Bad
  <2> QED
    BY <2>2, ResultFacts
<1> QED
  BY <1>1, IInvInit, IInvStep, PTL DEF Spec

(* No failing request, answer, cache or commit makes a candidate disappear. *)
THEOREM CandidatesAreShown == Spec => []NothingSilentlyDropped
<1>1. IInv => NothingSilentlyDropped
  BY DEF IInv
<1> QED
  BY <1>1, IInvInit, IInvStep, PTL DEF Spec

(* A commit gives the message in one place of a batch the verdict of that   *)
(* place: no other place and no other worker has it.                        *)
LEMMA OwnVerdict ==
    ASSUME IInv, [Next]_vars, NEW w \in Workers, NEW k \in DOMAIN batch[w],
           verdict'[batch[w][k].msg] # verdict[batch[w][k].msg],
           verdict'[batch[w][k].msg].status # "DEAD_LETTER"
    PROVE  /\ Decide(w)
           /\ \A j \in DOMAIN batch[w] : verdict'[batch[w][j].msg] = Verdict(w, j)
<1> DEFINE m == batch[w][k].msg
<1> USE DEF IInv, BatchInv
<1>1. m \in MessagesOf(w) /\ m \in Messages
  BY BatchFacts
<1>2. Buried.status = "DEAD_LETTER"
  BY DEF Buried
<1>3. PICK v \in Workers : Decide(v) /\ m \in MessagesOf(v)
  BY <1>1, <1>2, VerdictCases
<1>4. v = w
  BY <1>1, <1>3 DEF Disjoint
<1>5. Decide(w)
  BY <1>3, <1>4
<1>6. ASSUME NEW j \in DOMAIN batch[w] PROVE verdict'[batch[w][j].msg] = Verdict(w, j)
  <2>1. batch[w][j].msg \in MessagesOf(w)
    BY BatchFacts
  <2>2. PICK i \in DOMAIN batch[w] :
          batch[w][i].msg = batch[w][j].msg /\ verdict'[batch[w][j].msg] = Verdict(w, i)
    BY <1>5, <2>1, DecideFacts
  <2>3. i = j
    BY <2>2 DEF Distinct
  <2> QED
    BY <2>2, <2>3
<1> QED
  BY <1>5, <1>6

(* Every date that is booked is near the timestamp its message was given,   *)
(* also when the result was found for another message with the same text.   *)
THEOREM DatesAreNear == Spec => BookedNearMessage
<1> DEFINE Near ==
      \A w \in Workers : \A k \in DOMAIN batch[w] :
        LET m == batch[w][k].msg
        IN  verdict'[m] # verdict[m] /\ verdict'[m].status \in Booked =>
              /\ verdict'[m].date >= batch[w][k].at - Past
              /\ verdict'[m].date <= batch[w][k].at + Future
<1>1. IInv /\ [Next]_vars => Near
  <2> SUFFICES ASSUME IInv, [Next]_vars, NEW w \in Workers, NEW k \in DOMAIN batch[w],
                      verdict'[batch[w][k].msg] # verdict[batch[w][k].msg],
                      verdict'[batch[w][k].msg].status \in Booked
               PROVE  /\ verdict'[batch[w][k].msg].date >= batch[w][k].at - Past
                      /\ verdict'[batch[w][k].msg].date <= batch[w][k].at + Future
    BY Zenon DEF Near
  <2> DEFINE m == batch[w][k].msg
  <2>1. verdict'[m].status # "DEAD_LETTER"
    BY DEF Booked
  <2>2. verdict'[m] = Verdict(w, k)
    BY <2>1, OwnVerdict
  <2>3. m \notin Missing
    BY <2>1, <2>2, VerdictFacts DEF IInv, Buried
  <2>4. verdict'[m].date = TxnDate(found[w][m], batch[w][k].at)
    BY <2>2, <2>3, VerdictFacts DEF IInv
  <2>5. m \in Messages /\ batch[w][k].at \in Int
    BY BatchFacts DEF IInv
  <2>6. found[w][m] \in Found
    BY <2>5 DEF IInv, TypeOK
  <2> QED
    BY <2>4, <2>5, <2>6, DateNear
<1>2. IInv /\ [Next]_vars => [Near]_vars
  BY <1>1
<1> QED
  BY <1>2, IInvInit, IInvStep, PTL DEF Spec, BookedNearMessage

-----------------------------------------------------------------------------
(* The contract *)

\* A message is busy while it is in some worker's batch.
Busy == UNION {MessagesOf(w) : w \in Workers}

(* How the batch of one worker counts among the busy messages. *)
LEMMA BusyFacts ==
    ASSUME TypeOK, Disjoint, NEW w \in Workers,
           \A v \in Workers \ {w} : batch'[v] = batch[v]
    PROVE  /\ Busy' = (Busy \ MessagesOf(w)) \cup MessagesOf(w)'
           /\ MessagesOf(w) \subseteq Busy /\ Busy \subseteq Messages
<1>1. \A v \in Workers \ {w} : MessagesOf(v)' = MessagesOf(v)
  BY MessagesKept
<1>2. \A v \in Workers \ {w} : MessagesOf(v) \cap MessagesOf(w) = {}
  BY DEF Disjoint
<1>3. Busy' = UNION {MessagesOf(v)' : v \in Workers}
  BY DEF Busy
<1>4. ASSUME NEW m \in Busy' PROVE m \in (Busy \ MessagesOf(w)) \cup MessagesOf(w)'
  <2>1. PICK v \in Workers : m \in MessagesOf(v)'
    BY <1>3, <1>4
  <2> QED
    BY <1>1, <1>2, <2>1 DEF Busy
<1>5. ASSUME NEW m \in (Busy \ MessagesOf(w)) \cup MessagesOf(w)' PROVE m \in Busy'
  <2>1. CASE m \in MessagesOf(w)'
    BY <1>3, <2>1
  <2>2. CASE m \in Busy \ MessagesOf(w)
    <3>1. PICK v \in Workers \ {w} : m \in MessagesOf(v)
      BY <2>2 DEF Busy
    <3> QED
      BY <1>1, <1>3, <3>1
  <2> QED
    BY <1>5, <2>1, <2>2
<1>6. Busy \subseteq Messages
  BY BatchFacts DEF Busy
<1>7. MessagesOf(w) \subseteq Busy
  BY DEF Busy
<1> QED
  BY <1>4, <1>5, <1>6, <1>7

\* A step of the contract or none, over the busy messages and the verdicts.
Outside == [Contract!Next]_(Contract!vars)

LEMMA BeginTakes ==
    ASSUME IInv, NEW w \in Workers, Begin(w)
    PROVE  Contract!Take
<1> USE DEF IInv, BatchInv
<1> DEFINE S == MessagesOf(w)'
<1>1. /\ S # {} /\ S \subseteq Messages
      /\ \A m \in S : verdict[m] = None /\ m \notin Busy
      /\ \A v \in Workers \ {w} : batch'[v] = batch[v]
  BY MessagesBegun DEF Busy
<1>2. MessagesOf(w) = {}
  BY DEF Begin, IdleEmpty, MessagesOf
<1>3. Busy' = Busy \cup S
  BY <1>1, <1>2, BusyFacts
<1>4. verdict' = verdict
  BY DEF Begin, shared
<1> HIDE DEF S
<1>5. S \in SUBSET (Messages \ Busy)
  BY <1>1
<1> QED
  BY <1>1, <1>3, <1>4, <1>5 DEF Contract!Take, Busy

(* A worker that is not idle has messages. *)
LEMMA HasMessages ==
    ASSUME TypeOK, IdleEmpty, NEW w \in Workers, place[w] # "idle"
    PROVE  MessagesOf(w) # {}
<1>1. batch[w] # <<>> /\ batch[w] \in Seq([msg : Messages, at : Int])
  BY DEF IdleEmpty, TypeOK
<1>2. 1 \in DOMAIN batch[w]
  BY <1>1
<1> QED
  BY <1>2 DEF MessagesOf

LEMMA EndsGiveBack ==
    ASSUME IInv, NEW w \in Workers, Ends(w)
    PROVE  Contract!GiveBack
<1> USE DEF IInv, BatchInv
<1>1. PICK D \in SUBSET MessagesOf(w) : place[w] # "idle" /\ Bury(w, D)
  BY EndsBury
<1>2. verdict' = [m \in Messages |-> IF m \in D THEN Buried ELSE verdict[m]]
  BY <1>1 DEF Bury
<1>3. batch'[w] = <<>> /\ \A v \in Workers \ {w} : batch'[v] = batch[v]
  BY <1>1, BuryFacts, ResetFacts
<1>4. Busy' = Busy \ MessagesOf(w) /\ MessagesOf(w) \subseteq Busy
  BY <1>3, BusyFacts, MessagesOver
<1>5. MessagesOf(w) # {} /\ \A m \in D : verdict[m] = None
  BY <1>1, HasMessages DEF BusyUndecided
<1> QED
  BY <1>1, <1>2, <1>4, <1>5 DEF Contract!GiveBack, Busy

LEMMA CommitSettles ==
    ASSUME IInv, NEW w \in Workers, Decide(w)
    PROVE  Contract!Settle
<1> USE DEF IInv, BatchInv
<1> DEFINE S == MessagesOf(w)
<1>1. S # {}
  BY HasMessages DEF Decide
<1>2. batch'[w] = <<>> /\ \A v \in Workers \ {w} : batch'[v] = batch[v]
  BY ResetFacts DEF Decide
<1>3. Busy' = Busy \ S /\ S \subseteq Busy /\ S \subseteq Messages
  BY <1>2, BusyFacts, MessagesOver
<1>4. verdict' \in [Messages -> Verdicts \cup {None}]
  BY DecideFacts
<1>5. \A m \in S : verdict[m] = None
  BY DEF BusyUndecided
<1>6. \A m \in S : verdict'[m] \in Verdicts
  BY DecideFacts, VerdictFacts
<1>7. \A m \in Messages \ S : verdict'[m] = verdict[m]
  BY DecideFacts
<1> HIDE DEF S
<1> QED
  BY <1>1, <1>3, <1>4, <1>5, <1>6, <1>7 DEF Contract!Settle, Busy

(* Every step of extraction takes, settles or gives back a whole batch, or  *)
(* changes nothing that the contract speaks of.                             *)
LEMMA ContractStep == IInv /\ [Next]_vars => Outside
<1> SUFFICES ASSUME IInv, [Next]_vars PROVE Outside
  OBVIOUS
<1> USE DEF shared, local
<1>1. ASSUME batch' = batch, verdict' = verdict PROVE Outside
  <2>1. \A w \in Workers : MessagesOf(w)' = MessagesOf(w)
    BY <1>1, MessagesKept
  <2>2. Busy' = Busy
    BY <2>1 DEF Busy
  <2> QED
    BY <1>1, <2>2 DEF Outside, Contract!vars, Busy
<1>2. ASSUME NEW w \in Workers, Begin(w) PROVE Outside
  BY <1>2, BeginTakes DEF Outside, Contract!Next
<1>3. ASSUME NEW w \in Workers, Ends(w) PROVE Outside
  BY <1>3, EndsGiveBack DEF Outside, Contract!Next
<1>4. ASSUME NEW w \in Workers, Decide(w) PROVE Outside
  BY <1>4, CommitSettles DEF Outside, Contract!Next
<1>5. ASSUME NEW w \in Workers, Step(w), ~Decide(w), ~Ends(w) PROVE Outside
  <2>1. batch' = batch /\ verdict' = verdict
    BY <1>5 DEF Step, Ends, Lookup, LookupFails, AfterLookup, AttemptFails, Unusable,
                Answer, Save, SaveFails
  <2> QED
    BY <1>1, <2>1
<1>6. CASE Tick \/ UNCHANGED vars
  BY <1>1, <1>6 DEF Tick, vars
<1> QED
  BY <1>2, <1>3, <1>4, <1>5, <1>6 DEF Next, Ends

(* Extraction implements its contract: batches are taken and settled as     *)
(* wholes, or given back with nothing decided but the jobs that are buried, *)
(* one batch to a message, and a verdict is final.                          *)
THEOREM ImplementsContract == Spec => ContractSpec
<1>1. Init => Contract!Init
  <2> SUFFICES ASSUME Init PROVE Contract!Init
    OBVIOUS
  <2>1. \A w \in Workers : MessagesOf(w) = {}
    BY DEF Init, MessagesOf
  <2> QED
    BY <2>1 DEF Init, Contract!Init
<1>2. IInv /\ [Next]_vars => [Contract!Next]_(Contract!vars)
  BY ContractStep DEF Outside
<1> QED
  BY <1>1, <1>2, IInvInit, IInvStep, PTL DEF Spec, ContractSpec, Contract!Spec
=============================================================================
