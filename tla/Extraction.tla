----------------------------- MODULE Extraction -----------------------------
(***************************************************************************)
(* From the text of a message to a verdict: the scoring of                 *)
(* src/backend/app/parsing, the extraction cache, client and parser of     *)
(* src/backend/app/ai, and the routing of                                  *)
(* src/backend/app/workers/job_handler.py that uses them.                  *)
(*                                                                         *)
(* A worker scores the messages of its batch, looks the candidates up in   *)
(* the cache, which is shared and keyed by the text alone, sends the rest  *)
(* to Gemini in one request, stores the answers one by one, and decides    *)
(* all messages in one database commit.  Time is in days, confidence in    *)
(* hundredths.  BatchProcessing has the edits, revokes and replays, and    *)
(* JobQueue counts the retries.                                            *)
(***************************************************************************)
EXTENDS Integers, Sequences, FiniteSets, FiniteSetsExt, SequencesExt, Functions

CONSTANTS
    Messages, Texts, Workers,
    Text,           \* [Messages -> Texts], the normalised text; it is its own hash
    Signals,        \* [Texts -> SUBSET DOMAIN Weight], what the patterns find in it
    Negative,       \* texts that detect_negative_context finds to be talk
    Missing,        \* messages whose job finds no raw_messages row
    Epoch,          \* [Messages -> Int \cup {None}], the timestamp WhatsApp gave
    Received,       \* [Messages -> Int], the day the webhook stored it
    Items,          \* the objects an answer of the LLM may contain
    MaxItems,       \* the longest answer
    MaxBatch,       \* WORKER_BATCH_SIZE
    MaxAttempts,    \* max_retries of GeminiClient
    Past, Future,   \* the days a transaction may lie before and after its message
    TTL,            \* EXTRACTION_CACHE_TTL
    Legacy,         \* a cache entry that does not pass LLMExtractionSchema
    Malformed,      \* a date that is no YYYY-MM-DD
    Absent,         \* a confidence that the answer leaves out
    None, MaxDay

ASSUME ExtractionAssumption ==
    /\ Text \in [Messages -> Texts]
    /\ Missing \subseteq Messages
    /\ Epoch \in [Messages -> Int \cup {None}]
    /\ Received \in [Messages -> Int]
    /\ {MaxItems, MaxBatch, MaxAttempts, Past, Future, TTL, MaxDay} \subseteq Nat \ {0}
    /\ None \notin Int \cup Messages
    /\ Items \subseteq
         [id : Messages \cup {None}, amount : Int \cup {None}, verb : STRING \cup {None},
          date : Int \cup {None, Malformed}, confidence : Int \cup {None, Absent}]
    /\ Cardinality({None, Absent, Malformed}) = 3 /\ {Absent, Malformed} \cap Int = {}

\* SCORING_WEIGHTS; "date" is detected and weighs nothing.
Weight == [amount |-> 2, currency |-> 2, verb |-> 2, date |-> 0, negative |-> -4]

ScoringThreshold == 2
AutoParseThreshold == 85
ExtractionThreshold == 65

\* What the patterns find in a text, talk that is no payment among it.
Detected(text) == Signals[text] \cup (IF text \in Negative THEN {"negative"} ELSE {})

\* TransactionScorer.evaluate
Score(text) == MapThenSumSet(LAMBDA s : Weight[s], Detected(text))

IsCandidate(m) == Score(Text[m]) >= ScoringThreshold

VARIABLES
    now,        \* today
    cache,      \* the entry Redis has for each text
    verdict,    \* what became of each message: its row, or the dead letters
    place,      \* where each worker stands
    batch,      \* its messages, in job order, with their final timestamps
    attempt,    \* the attempts its request has taken
    found,      \* extracted_data_map
    unsaved     \* places in the batch whose result is yet to be cached

shared == <<now, cache, verdict>>
local == <<place, batch, attempt, found, unsaved>>
vars == <<shared, local>>

-----------------------------------------------------------------------------
(* Pure parts: validation, normalisation, routing *)

\* Mutant: a confidence of 1.0 is read as one per cent.
Normalized_FromOne(v) ==
    IF v = None \/ v < 0 THEN 0
    ELSE IF v < 100 THEN v
    ELSE IF v <= 10000 THEN v \div 100
    ELSE 100

\* normalize_confidence, with 1.0 as 100: a number over 1 and up to 100 is
\* read as a percentage.
Normalized(v) ==
    IF v = None \/ v < 0 THEN 0
    ELSE IF v <= 100 THEN v
    ELSE IF v <= 10000 THEN v \div 100
    ELSE 100

\* LLMExtractionSchema.  The score that the parser puts in for a missing
\* one has the wrong key: the field is known by its alias only.
PassesSchema(item) ==
    /\ item.amount # None
    /\ item.verb \in {"credit", "debit", "unknown"}
    /\ item.date # Malformed
    /\ item.confidence # Absent

\* validate_extraction_item
Validated(item) ==
    IF PassesSchema(item)
    THEN [item EXCEPT !.confidence = Normalized(item.confidence)]
    ELSE None

\* Mutant: the ids of the items are not compared.
Parsed_AnyId(items, m) ==
    IF items = <<>> THEN None ELSE Validated(items[Len(items)])

\* The results of parse_batch_response: items without a known id are
\* skipped, and the last item of an id counts, be it valid or not.
Parsed(items, m) ==
    LET own == {i \in DOMAIN items : items[i].id = m}
    IN  IF own = {} THEN None ELSE Validated(items[Max(own)])

\* validate_and_convert_amount
ValidAmount(result) == result.amount > 0

\* normalize_transaction_verb
ValidVerb(result) == result.verb \in {"credit", "debit"}

IsTransaction(result) == ValidAmount(result) /\ ValidVerb(result)

\* Mutant: no result is taken for no transaction.
Route_NoResult(result) ==
    IF result = None \/ ~IsTransaction(result) THEN "NON_TRANSACTION"
    ELSE IF result.confidence >= AutoParseThreshold THEN "PARSED"
    ELSE IF result.confidence >= ExtractionThreshold THEN "REVIEW_NEEDED"
    ELSE "REJECTED_LOW_CONFIDENCE"

Route(result) ==
    CASE result = None -> "AI_EXTRACTION_FAILED"
      [] result # None /\ ~IsTransaction(result) -> "NON_TRANSACTION"
      [] result # None /\ IsTransaction(result) ->
           IF result.confidence >= AutoParseThreshold THEN "PARSED"
           ELSE IF result.confidence >= ExtractionThreshold THEN "REVIEW_NEEDED"
           ELSE "REJECTED_LOW_CONFIDENCE"

Booked == {"PARSED", "REVIEW_NEEDED"}

\* Mutant: a date ahead of the message is taken as it is.
TxnDate_Ahead(result, at) ==
    IF result = None \/ result.date = None THEN at
    ELSE IF result.date < at - Past THEN at
    ELSE result.date

\* normalize_extracted_date: a date out of range gives way to the message's.
TxnDate(result, at) ==
    IF result = None \/ result.date = None THEN at
    ELSE IF result.date < at - Past \/ result.date > at + Future THEN at
    ELSE result.date

\* convert_epoch_to_utc_datetime, or else received_at.
FinalTimestamp(m) ==
    IF Epoch[m] # None /\ Epoch[m] >= 0 /\ Epoch[m] <= now THEN Epoch[m] ELSE Received[m]

-----------------------------------------------------------------------------
Dates == Int \cup {None}

Results == {Validated(item) : item \in Items} \ {None}

Found == Results \cup {None}

Entries == [result : Results \cup {Legacy}, on : Int]

\* status, the date booked, the result it rests on, and whether an AuditLog
\* row asks for review.
Verdicts ==
    [status : {"NON_TRANSACTION", "AI_EXTRACTION_FAILED", "REJECTED_LOW_CONFIDENCE",
               "DEAD_LETTER"} \cup Booked,
     date : Dates, result : Found, review : BOOLEAN]

\* A job in the dead-letter list has left nothing in the database.
Buried == [status |-> "DEAD_LETTER", date |-> None, result |-> None, review |-> FALSE]

TypeOK ==
    /\ now \in 0 .. MaxDay
    /\ cache \in [Texts -> Entries \cup {None}]
    /\ verdict \in [Messages -> Verdicts \cup {None}]
    /\ place \in [Workers -> {"idle", "lookup", "ask", "save", "decide"}]
    /\ batch \in [Workers -> Seq([msg : Messages, at : Int])]
    /\ attempt \in [Workers -> 0 .. MaxAttempts]
    /\ found \in [Workers -> [Messages -> Found]]
    /\ unsaved \in [Workers -> SUBSET Nat]

MessagesOf(w) == {batch[w][k].msg : k \in DOMAIN batch[w]}

CandidatesOf(w) == {m \in MessagesOf(w) \ Missing : IsCandidate(m)}

\* The cache has an entry for the text that does not pass the schema.
Bad(t) == cache[t] # None /\ cache[t].result = Legacy

Misses(w) == {m \in CandidatesOf(w) : found[w][m] = None}

\* Only candidates were ever cached; some entries may be of an older schema.
Init ==
    /\ now = 0
    /\ cache \in [Texts -> {None, [result |-> Legacy, on |-> 0]}]
    /\ \A t \in Texts : cache[t] # None => Score(t) >= ScoringThreshold
    /\ verdict = [m \in Messages |-> None]
    /\ place = [w \in Workers |-> "idle"]
    /\ batch = [w \in Workers |-> <<>>]
    /\ attempt = [w \in Workers |-> 0]
    /\ found = [w \in Workers |-> [m \in Messages |-> None]]
    /\ unsaved = [w \in Workers |-> {}]

\* Redis drops an entry when its time is over.
Tick ==
    /\ now < MaxDay
    /\ now' = now + 1
    /\ cache' = [t \in Texts |->
                   IF cache[t] # None /\ now' >= cache[t].on + TTL THEN None ELSE cache[t]]
    /\ UNCHANGED <<verdict, local>>

\* The worker begins with jobs nobody else has, and fixes their timestamps.
Begin(w) ==
    /\ place[w] = "idle"
    /\ \E jobs \in UNION {[1 .. n -> Messages] : n \in 1 .. MaxBatch} :
         /\ IsInjective(jobs)
         /\ \A m \in Range(jobs) :
              /\ verdict[m] = None
              /\ Received[m] <= now
              /\ \A v \in Workers : m \notin MessagesOf(v)
         /\ batch' = [batch EXCEPT ![w] =
                        [k \in DOMAIN jobs |-> [msg |-> jobs[k], at |-> FinalTimestamp(jobs[k])]]]
    /\ place' = [place EXCEPT ![w] = "lookup"]
    /\ UNCHANGED <<shared, attempt, found, unsaved>>

\* The job is over: what the worker knew of it is gone.
Reset(w) ==
    /\ place' = [place EXCEPT ![w] = "idle"]
    /\ batch' = [batch EXCEPT ![w] = <<>>]
    /\ attempt' = [attempt EXCEPT ![w] = 0]
    /\ found' = [found EXCEPT ![w] = [m \in Messages |-> None]]
    /\ unsaved' = [unsaved EXCEPT ![w] = {}]

\* Where extraction stands once `results` are known: any misses are asked for.
AfterLookup(w, results) ==
    /\ found' = [found EXCEPT ![w] = results]
    /\ place' = [place EXCEPT ![w] =
                   IF \E m \in CandidatesOf(w) : results[m] = None THEN "ask" ELSE "decide"]
    /\ UNCHANGED <<shared, batch, attempt, unsaved>>

\* get_cached_extractions_batch: what is read is validated once more.
Lookup(w) ==
    /\ place[w] = "lookup"
    /\ ~\E m \in CandidatesOf(w) : Bad(Text[m])
    /\ AfterLookup(w, [m \in Messages |->
         IF m \in CandidatesOf(w) /\ cache[Text[m]] # None
         THEN Validated(cache[Text[m]].result) ELSE None])

\* Redis does not answer: every candidate is a miss.
LookupFails(w) ==
    /\ place[w] = "lookup"
    /\ AfterLookup(w, found[w])

\* The batch is over with nothing committed; the jobs D go to the dead letters.
Bury(w, D) ==
    /\ verdict' = [m \in Messages |-> IF m \in D THEN Buried ELSE verdict[m]]
    /\ Reset(w)
    /\ UNCHANGED <<now, cache>>

\* An entry that does not pass the schema raises RuntimeError out of the
\* batch, and every job of it goes to the dead letters.
Poisoned(w) ==
    /\ place[w] = "lookup"
    /\ \E m \in CandidatesOf(w) : Bad(Text[m])
    /\ Bury(w, MessagesOf(w))

\* Mutant: the extraction starts over, with its attempts uncounted.
AttemptFails_Restarts(w) ==
    /\ place[w] = "ask"
    /\ place' = [place EXCEPT ![w] = "lookup"]
    /\ found' = [found EXCEPT ![w] = [m \in Messages |-> None]]
    /\ UNCHANGED <<shared, batch, attempt, unsaved>>

\* GeminiClient: an attempt fails and, but for the last, is made again.
AttemptFails(w) ==
    /\ place[w] = "ask"
    /\ attempt' = [attempt EXCEPT ![w] = @ + 1]
    /\ place' = [place EXCEPT ![w] = IF attempt'[w] < MaxAttempts THEN "ask" ELSE "decide"]
    /\ UNCHANGED <<shared, batch, found, unsaved>>

\* No candidates in the answer, malformed JSON, an item that is no object, a
\* root that is no list: every miss stays without a result.
Unusable(w) ==
    /\ place[w] = "ask"
    /\ place' = [place EXCEPT ![w] = "decide"]
    /\ UNCHANGED <<shared, batch, attempt, found, unsaved>>

\* What an answer can come to for messages that were asked about.
Outcomes(asked) ==
    {[m \in asked |-> Parsed(items, m)] : items \in BoundedSeq(Items, MaxItems)}

\* An answer is parsed, and its valid results are queued for the cache.
Answer(w) ==
    /\ place[w] = "ask"
    /\ \E results \in Outcomes(Misses(w)) :
         /\ found' = [found EXCEPT ![w] = [m \in Messages |->
                        IF m \in DOMAIN results THEN results[m] ELSE @[m]]]
         /\ unsaved' = [unsaved EXCEPT ![w] =
              {k \in DOMAIN batch[w] : LET m == batch[w][k].msg IN
                 m \in DOMAIN results /\ results[m] # None}]
    /\ place' = [place EXCEPT ![w] = IF unsaved'[w] = {} THEN "decide" ELSE "save"]
    /\ UNCHANGED <<shared, batch, attempt>>

\* cache_extraction_result, one SETEX after another, in the batch's order.
Save(w) ==
    /\ place[w] = "save"
    /\ \E k \in unsaved[w] :
         LET m == batch[w][k].msg IN
         /\ \A j \in unsaved[w] : k <= j
         /\ cache' = [cache EXCEPT ![Text[m]] = [result |-> found[w][m], on |-> now]]
         /\ unsaved' = [unsaved EXCEPT ![w] = @ \ {k}]
    /\ place' = [place EXCEPT ![w] = IF unsaved'[w] = {} THEN "decide" ELSE "save"]
    /\ UNCHANGED <<now, verdict, batch, attempt, found>>

\* A SETEX fails: the exception is logged, and the rest is not cached.
SaveFails(w) ==
    /\ place[w] = "save"
    /\ unsaved' = [unsaved EXCEPT ![w] = {}]
    /\ place' = [place EXCEPT ![w] = "decide"]
    /\ UNCHANGED <<shared, batch, attempt, found>>

\* The k-th message is routed; without a row its job alone is buried.
Verdict(w, k) ==
    LET m == batch[w][k].msg
        result == found[w][m]
        status == IF IsCandidate(m) THEN Route(result) ELSE "NON_TRANSACTION"
    IN  IF m \in Missing THEN Buried
        ELSE [status |-> status,
              date |-> IF status \in Booked THEN TxnDate(result, batch[w][k].at) ELSE None,
              result |-> result,
              review |-> status \in {"AI_EXTRACTION_FAILED", "REJECTED_LOW_CONFIDENCE"}]

\* Mutant: the messages that are no candidates are left as they were.
Decide_Candidates(w) ==
    /\ place[w] = "decide"
    /\ verdict' = [m \in Messages |->
                     IF m \in CandidatesOf(w)
                     THEN Verdict(w, CHOOSE k \in DOMAIN batch[w] : batch[w][k].msg = m)
                     ELSE verdict[m]]
    /\ Reset(w)
    /\ UNCHANGED <<now, cache>>

\* Routing and the commit of the whole batch.
Decide(w) ==
    /\ place[w] = "decide"
    /\ verdict' = [m \in Messages |->
                     IF m \in MessagesOf(w)
                     THEN Verdict(w, CHOOSE k \in DOMAIN batch[w] : batch[w][k].msg = m)
                     ELSE verdict[m]]
    /\ Reset(w)
    /\ UNCHANGED <<now, cache>>

\* Any other exception that is not transient buries the batch.
Fatal(w) ==
    /\ place[w] # "idle"
    /\ Bury(w, MessagesOf(w))

\* The database or the process fails: the jobs come back, but for those
\* whose retries are used up.
GiveBack(w) ==
    /\ place[w] # "idle"
    /\ \E usedUp \in SUBSET MessagesOf(w) : Bury(w, usedUp)

Step(w) ==
    \/ Lookup(w) \/ LookupFails(w) \/ Poisoned(w)
    \/ AttemptFails(w) \/ Unusable(w) \/ Answer(w)
    \/ Save(w) \/ SaveFails(w)
    \/ Decide(w)

Next == Tick \/ \E w \in Workers : Begin(w) \/ Step(w) \/ Fatal(w) \/ GiveBack(w)

Spec == Init /\ [][Next]_vars

\* What a worker waits for comes, or it is given up: a request has a timeout,
\* and a command of Redis returns or raises.
GivesUp(w) == LookupFails(w) \/ AttemptFails(w) \/ SaveFails(w)

FairSpec == Spec /\ \A w \in Workers : WF_vars(GivesUp(w) \/ Decide(w))

-----------------------------------------------------------------------------
(* Properties *)

\* Whatever ids the LLM leaves out, repeats or invents, and whoever filled
\* the cache: a verdict rests on an answer to a message with the same text
\* (batch_response_parser.py:47, extraction_cache.py:53).
ResultsBelong ==
    \A m \in Messages :
        verdict[m] # None /\ verdict[m].result # None =>
            \E origin \in Messages :
                verdict[m].result.id = origin /\ Text[origin] = Text[m]

\* A result comes out of the cache as it went in: normalising a confidence
\* twice does not take a certainty for one per cent
\* (confidence_normalization.py:19, extraction_cache.py:32).
CacheRoundTrip ==
    \A t \in Texts :
        cache[t] # None /\ ~Bad(t)
            => Validated(cache[t].result) = cache[t].result

\* A candidate that is neither booked nor dead-lettered is put before a
\* person, unless a valid result says that it is no transaction: a failing
\* LLM, client or parser never makes one disappear (job_handler.py:437).
NothingSilentlyDropped ==
    \A m \in Messages :
        verdict[m] # None /\ IsCandidate(m) =>
            \/ verdict[m].status \in Booked \cup {"DEAD_LETTER"}
            \/ verdict[m].review
            \/ verdict[m].result # None /\ ~IsTransaction(verdict[m].result)

\* The date booked is near the message it is booked for, even when it was
\* found for an earlier message with the same text (date_normalization.py:62).
BookedNearMessage ==
    [][\A w \in Workers : \A k \in DOMAIN batch[w] :
         LET m == batch[w][k].msg
         IN  verdict'[m] # verdict[m] /\ verdict'[m].status \in Booked =>
               /\ verdict'[m].date >= batch[w][k].at - Past
               /\ verdict'[m].date <= batch[w][k].at + Future]_vars

\* A batch comes to an end: the request is given up after MaxAttempts.
BatchesEnd == \A w \in Workers : place[w] # "idle" ~> place[w] = "idle"

\* Extraction implements its contract: a batch is settled as a whole or given
\* back with some jobs buried, and no verdict changes (job_handler.py:466-486).
Contract == INSTANCE ExtractionContract WITH
    busy <- UNION {MessagesOf(w) : w \in Workers}, Undecided <- None,
    Dead <- Buried

ContractSpec == Contract!Spec
=============================================================================
