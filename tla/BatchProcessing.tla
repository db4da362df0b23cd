--------------------------- MODULE BatchProcessing ---------------------------
(***************************************************************************)
(* One batch through the worker: process_webhook_batch of                  *)
(* src/backend/app/workers/job_handler.py, with the transaction services   *)
(* and crud functions it calls, inside one database transaction.           *)
(*                                                                         *)
(* The session does not flush on a query; it flushes in every insert or    *)
(* update of a transaction.  Until the commit its rows are a draft that no *)
(* other session sees and that the rows' locks keep others from touching.  *)
(* Administrators work in sessions of their own, at any time.              *)
(*                                                                         *)
(* JobQueue models the lists a batch comes from and the counting of        *)
(* retries.  Here a message has a number of payloads waiting: more than    *)
(* one after a crash between LPUSH and LREM.                               *)
(***************************************************************************)
EXTENDS Integers, FiniteSets, SequencesExt

CONSTANTS
    Messages,     \* raw messages
    Kind,         \* [Messages -> Kinds], what the webhook stored
    Original,     \* [Messages -> Messages \cup {None}]: the message whose
                  \*   wamid is the context.id of an edit or a revoke
    Content,      \* [Messages -> hashes] of normalized text and timestamp
    Fallback,     \* messages without a wamid: identified by their content
    None,
    Extractions,  \* outcomes of extraction to be considered
    MaxBatch,     \* WORKER_BATCH_SIZE
    MaxBatches,   \* bound: batches begun
    MaxReviews,   \* bound: corrections and invalidations by administrators
    MaxCrashes,   \* bound: process deaths
    MaxErrors     \* bound: exceptions in a batch

Kinds == {"payment", "chat", "edit", "revoke", "gone"}

\* SUCCESS with a confidence above either threshold is "parsed" or
\* "review_needed"; the others are extraction_status as it stands.
AllExtractions == {"parsed", "review_needed", "REJECTED_LOW_CONFIDENCE",
                   "NON_TRANSACTION", "AI_EXTRACTION_FAILED"}

ASSUME BatchAssumption ==
    /\ Kind \in [Messages -> Kinds]
    /\ Original \in [Messages -> Messages \cup {None}]
    /\ DOMAIN Content = Messages
    /\ Fallback \subseteq Messages
    /\ None \notin Messages
    /\ Extractions \subseteq AllExtractions
    /\ {MaxBatch, MaxBatches, MaxReviews, MaxCrashes, MaxErrors} \subseteq Nat

VARIABLES
    outcome,      \* raw_messages.processing_status; "pending": not processed
    meta,         \* raw_messages.parsing_meta: what the committed row says
    rehashed,     \* rows whose hash column holds their content hash
    txns,         \* transactions, by raw_message_id
    audit,        \* transaction_audit, in commit order
    flagged,      \* raw messages with a review_needed row in audit_logs
    extracted,    \* history: how the extraction of a processed message ended
    writtenBy,    \* history: the batch that committed a message as processed
    copies,       \* payloads of the message in the Redis lists
    dead,         \* messages in the dead letter list
    phase,        \* where the batch stands
    jobs,         \* the batch
    todo,         \* jobs, then candidates_for_ai, not yet handled
    cands,        \* candidates_for_ai
    extraction,   \* extracted_data_map
    session,      \* the uncommitted changes
    results,      \* job_results
    batchNo,      \* history: batches begun
    reviews, crashes, errors

ledger == <<outcome, meta, rehashed, txns, audit, flagged, extracted, writtenBy>>
redis == <<copies, dead>>
work == <<jobs, todo, cands, extraction, session, results, batchNo>>
budget == <<reviews, crashes, errors>>
vars == <<ledger, redis, phase, work, budget>>

-----------------------------------------------------------------------------
Outcomes == {"pending", "NON_TRANSACTION", "REVOKED", "success", "review_needed"}

Metas == {"none", "scored"} \cup AllExtractions

Statuses == {"parsed", "review_needed", "corrected", "invalidated"}

Actions == {"created", "updated", "corrected", "invalidated"}

Verdicts == {"success", "retry", "dlq"}

NoRow == [status |-> "none"]

Rows == [status : Statuses, hash : Range(Content)] \cup {NoRow}

AuditRows == [txn : Messages, action : Actions, status : Statuses,
              cause : Messages \cup {None}, batch : Nat]

\* Staged columns of raw messages ("pending" and "none": not staged), flushed
\* transactions, new audit rows, and the messages whose parsing_meta has been
\* flushed and not been replaced since.
Sessions == [outcome : [Messages -> Outcomes], meta : [Messages -> Metas],
             txns : [Messages -> Rows], audit : Seq(AuditRows),
             flagged : SUBSET Messages, flushed : SUBSET Messages]

NewSession == [outcome |-> [m \in Messages |-> "pending"],
               meta |-> [m \in Messages |-> "none"],
               txns |-> [m \in Messages |-> NoRow],
               audit |-> <<>>, flagged |-> {}, flushed |-> {}]

TypeOK ==
    /\ outcome \in [Messages -> Outcomes]
    /\ meta \in [Messages -> Metas]
    /\ rehashed \subseteq Fallback
    /\ txns \in [Messages -> Rows]
    /\ audit \in Seq(AuditRows)
    /\ flagged \subseteq Messages
    /\ extracted \in [Messages -> AllExtractions \cup {"none"}]
    /\ writtenBy \in [Messages -> Nat]
    /\ copies \in [Messages -> Nat]
    /\ dead \subseteq Messages
    /\ phase \in {"idle", "preprocess", "extract", "route", "commit", "settle"}
    /\ jobs \in Seq(Messages) /\ todo \in Seq(Messages) /\ cands \in Seq(Messages)
    /\ extraction \in [Messages -> AllExtractions \cup {"none"}]
    /\ session \in Sessions
    /\ results \in [Messages -> Verdicts]
    /\ {batchNo, reviews, crashes, errors} \subseteq Nat

Init ==
    /\ outcome = [m \in Messages |-> "pending"]
    /\ meta = [m \in Messages |-> "none"]
    /\ rehashed = {}
    /\ txns = [m \in Messages |-> NoRow]
    /\ audit = <<>>
    /\ flagged = {}
    /\ extracted = [m \in Messages |-> "none"]
    /\ writtenBy = [m \in Messages |-> 0]
    /\ copies = [m \in Messages |-> 1]
    /\ dead = {}
    /\ phase = "idle"
    /\ jobs = <<>> /\ todo = <<>> /\ cands = <<>>
    /\ extraction = [m \in Messages |-> "none"]
    /\ session = NewSession
    /\ results = [m \in Messages |-> "retry"]
    /\ batchNo = 0 /\ reviews = 0 /\ crashes = 0 /\ errors = 0

-----------------------------------------------------------------------------
(* The transaction services, in the session of the batch. *)

\* A query for a transaction: the session's own flushed row, or the committed.
Find(t) == IF session.txns[t] # NoRow THEN session.txns[t] ELSE txns[t]

Entry(t, action, status, cause) ==
    [txn |-> t, action |-> action, status |-> status,
     cause |-> cause, batch |-> batchNo]

\* db.flush() with a changed transaction and its audit row: every staged
\* column of the session goes with it.
Flush(s, t, row, action, cause) ==
    [s EXCEPT !.txns[t] = row,
              !.audit = Append(@, Entry(t, action, row.status, cause)),
              !.flushed = {m \in Messages : s.meta[m] # "none"}]

\* Mutant: the status is changed without an audit row.
Invalidate_Unaudited(s, t, cause) ==
    [s EXCEPT !.txns[t] = [Find(t) EXCEPT !.status = "invalidated"]]

\* invalidate_transaction_service
Invalidate(s, t, cause) ==
    Flush(s, t, [Find(t) EXCEPT !.status = "invalidated"], "invalidated", cause)

\* correct_transaction_service
Correct(s, t, cause) ==
    Flush(s, t, [Find(t) EXCEPT !.status = "corrected"], "corrected", cause)

\* Mutant: no look-up by hash before the insert.
HashTaken_Never(m) == FALSE

\* get_transaction_by_hash finds a transaction of another message.
HashTaken(m) == \E t \in Messages \ {m} :
                   Find(t) # NoRow /\ Find(t).hash = Content[m]

\* upsert_transaction: a protected transaction is left alone, a taken hash
\* raises ValueError, which the caller skips.
Upsert(s, m, status) ==
    LET row == [status |-> status, hash |-> Content[m]] IN
    CASE Find(m).status \in {"corrected", "invalidated"} -> s
      [] HashTaken(m) -> s
      [] OTHER -> Flush(s, m, row,
                        IF Find(m) = NoRow THEN "created" ELSE "updated", m)

-----------------------------------------------------------------------------
(* The worker hands over a batch: some payloads, two copies of a message    *)
(* among them when there are two.  The raw messages are read once, here.    *)
Begin ==
    /\ phase = "idle"
    /\ batchNo < MaxBatches
    /\ \E n \in 1 .. MaxBatch : \E b \in [1 .. n -> Messages] :
         /\ \A m \in Messages : Cardinality({i \in 1 .. n : b[i] = m}) <= copies[m]
         /\ jobs' = b
         /\ todo' = b
    /\ batchNo' = batchNo + 1
    /\ phase' = "preprocess"
    /\ UNCHANGED <<ledger, redis, cands, extraction, session, results, budget>>

\* Mutant: replay protection looks at this session only.
Handled_InSession(m) == session.outcome[m] # "pending"

Handled(m) == outcome[m] # "pending" \/ session.outcome[m] # "pending"

\* Mutant: the revoking message is taken for the revoked one.
RevokeTarget_Own(m) == m

RevokeTarget(m) == IF Original[m] # None THEN Original[m] ELSE m

(* The first loop: one job is filtered, applied or made a candidate. *)
Preprocess ==
    /\ phase = "preprocess"
    /\ todo # <<>>
    /\ todo' = Tail(todo)
    /\ LET m == Head(todo)
           done(s, how) == [s EXCEPT !.outcome[m] = how]
           scored == [session EXCEPT !.meta[m] = "scored", !.flushed = @ \ {m}]
           verdict(v) == results' = [results EXCEPT ![m] = v]
       IN
       \/ /\ Kind[m] = "gone"
          /\ verdict("dlq")
          /\ UNCHANGED <<session, cands>>
       \/ /\ Kind[m] # "gone" /\ Handled(m)
          /\ verdict("success")
          /\ UNCHANGED <<session, cands>>
       \/ /\ Kind[m] = "revoke" /\ ~Handled(m)
          /\ verdict("success")
          /\ LET t == RevokeTarget(m) IN
               session' = done(IF Find(t) # NoRow THEN Invalidate(session, t, m)
                               ELSE session, "REVOKED")
          /\ UNCHANGED cands
       \/ /\ Kind[m] = "chat" /\ ~Handled(m)
          /\ verdict("success")
          /\ session' = done(scored, "NON_TRANSACTION")
          /\ UNCHANGED cands
       \/ /\ Kind[m] \in {"payment", "edit"} /\ ~Handled(m)
          /\ cands' = Append(cands, m)
          /\ session' = scored
          /\ UNCHANGED results
    /\ UNCHANGED <<ledger, redis, phase, jobs, extraction, batchNo, budget>>

(* No candidate: commit and return early. *)
EndPreprocess ==
    /\ phase = "preprocess"
    /\ todo = <<>>
    /\ phase' = IF cands = <<>> THEN "commit" ELSE "extract"
    /\ UNCHANGED <<ledger, redis, work, budget>>

(* The cache lookup and the LLM call: an outcome for each candidate.  When  *)
(* the call fails for good, every miss ends as AI_EXTRACTION_FAILED.        *)
Extract ==
    /\ phase = "extract"
    /\ \E e \in [Range(cands) -> Extractions] :
         extraction' = [m \in Messages |->
                          IF m \in Range(cands) THEN e[m] ELSE "none"]
    /\ todo' = cands
    /\ phase' = "route"
    /\ UNCHANGED <<ledger, redis, jobs, cands, session, results, batchNo, budget>>

\* Mutant: an edit is an ordinary message.
IsEdit_Never(m) == FALSE

IsEdit(m) == Kind[m] = "edit" /\ Original[m] # None

\* Mutant: parsing_meta is changed in place and not assigned again.
Recorded_InPlace(m) == session

Recorded(m) ==
    [session EXCEPT !.meta[m] = IF m \in session.flushed THEN @
                                ELSE extraction[m]]

\* Mutant: the extraction status is stored as the processing status.
Closed_RawStatus(s, m) == [s EXCEPT !.outcome[m] = extraction[m]]

\* Mutant: nobody is told that the message needs a review.
Closed_Silent(s, m) ==
    [s EXCEPT !.outcome[m] =
        IF extraction[m] \in {"parsed", "review_needed", "NON_TRANSACTION"}
        THEN "success" ELSE "review_needed"]

Closed(s, m) ==
    IF extraction[m] \in {"parsed", "review_needed", "NON_TRANSACTION"}
    THEN [s EXCEPT !.outcome[m] = "success"]
    ELSE [s EXCEPT !.outcome[m] = "review_needed", !.flagged = @ \cup {m}]

\* Mutant: an edit whose original has no transaction is dropped.
Routed_EditsOnlyCorrect(m) ==
    CASE extraction[m] \notin {"parsed", "review_needed"} -> Recorded(m)
      [] extraction[m] \in {"parsed", "review_needed"} /\ IsEdit(m) ->
           IF Find(Original[m]) # NoRow
           THEN Correct(Recorded(m), Original[m], m) ELSE Recorded(m)
      [] OTHER -> Upsert(Recorded(m), m, extraction[m])

Routed(m) ==
    CASE extraction[m] \notin {"parsed", "review_needed"} -> Recorded(m)
      [] extraction[m] \in {"parsed", "review_needed"} /\ IsEdit(m)
           /\ Find(Original[m]) # NoRow -> Correct(Recorded(m), Original[m], m)
      [] OTHER -> Upsert(Recorded(m), m, extraction[m])

(* The second loop: confidence routing of one candidate.  parsing_meta is   *)
(* changed in place, so a value flushed before the change is not written    *)
(* again.                                                                   *)
Route ==
    /\ phase = "route"
    /\ todo # <<>>
    /\ LET m == Head(todo) IN
         /\ session' = Closed(Routed(m), m)
         /\ results' = [results EXCEPT ![m] = "success"]
    /\ todo' = Tail(todo)
    /\ UNCHANGED <<ledger, redis, phase, jobs, cands, extraction, batchNo, budget>>

EndRoute ==
    /\ phase = "route"
    /\ todo = <<>>
    /\ phase' = "commit"
    /\ UNCHANGED <<ledger, redis, work, budget>>

-----------------------------------------------------------------------------
(* The messages this batch has staged, and their new hash values: a row     *)
(* without a wamid takes its content hash, which is unique in the table.    *)
Staged == {m \in Messages : session.outcome[m] # "pending"}

Rehash == Staged \cap Fallback

HashesClash ==
    \E m \in Rehash : \E k \in (rehashed \cup Rehash) \ {m} :
        Content[k] = Content[m]

Write ==
    /\ outcome' = [m \in Messages |->
                     IF m \in Staged THEN session.outcome[m] ELSE outcome[m]]
    /\ meta' = [m \in Messages |->
                  IF session.meta[m] # "none" THEN session.meta[m] ELSE meta[m]]
    /\ rehashed' = rehashed \cup Rehash
    /\ txns' = [t \in Messages |-> Find(t)]
    /\ audit' = audit \o session.audit
    /\ flagged' = flagged \cup session.flagged
    /\ extracted' = [m \in Messages |->
                       IF m \in Staged THEN extraction[m] ELSE extracted[m]]
    /\ writtenBy' = [m \in Messages |->
                       IF m \in Staged THEN batchNo ELSE writtenBy[m]]

\* The batch is over, with these results and without a session.
Return(verdict) ==
    /\ results' = verdict
    /\ phase' = "settle"
    /\ todo' = <<>> /\ cands' = <<>>
    /\ extraction' = [m \in Messages |-> "none"]
    /\ session' = NewSession
    /\ UNCHANGED <<redis, jobs, batchNo, reviews, crashes>>

AllJobs(verdict) ==
    [m \in Messages |-> IF m \in Range(jobs) THEN verdict ELSE "retry"]

Commit ==
    /\ phase = "commit"
    /\ ~HashesClash
    /\ Write
    /\ Return(results)
    /\ UNCHANGED errors

(* IntegrityError, at the commit or at an earlier flush of the same rows:   *)
(* rolled back, the whole batch to be retried.                              *)
CommitClashes ==
    /\ phase = "commit"
    /\ HashesClash
    /\ Return(AllJobs("retry"))
    /\ UNCHANGED <<ledger, errors>>

(* An exception in the batch: rolled back, all retried or all dead.  The    *)
(* commit that raises may have been carried out.                            *)
Fail ==
    /\ phase \in {"preprocess", "extract", "route", "commit"}
    /\ errors < MaxErrors
    /\ errors' = errors + 1
    /\ \/ \E v \in {"retry", "dlq"} : Return(AllJobs(v)) /\ UNCHANGED ledger
       \/ /\ phase = "commit" /\ ~HashesClash
          /\ Return(AllJobs("retry"))
          /\ Write

-----------------------------------------------------------------------------
(* The clean-up of the worker loop.  A retried job goes back to the queue   *)
(* or, its retries used up, to the dead letter list.                        *)
Forgotten ==
    /\ phase' = "idle"
    /\ jobs' = <<>> /\ todo' = <<>> /\ cands' = <<>>
    /\ extraction' = [m \in Messages |-> "none"]
    /\ session' = NewSession
    /\ results' = [m \in Messages |-> "retry"]
    /\ UNCHANGED batchNo

InBatch(m) == Cardinality({i \in DOMAIN jobs : jobs[i] = m})

Settle ==
    /\ phase = "settle"
    /\ \E spent \in SUBSET {m \in Range(jobs) : results[m] = "retry"} :
         LET buried == spent \cup {m \in Range(jobs) : results[m] = "dlq"}
             kept == {m \in Range(jobs) : results[m] = "retry"} \ spent
         IN  /\ dead' = dead \cup buried
             /\ copies' = [m \in Messages |->
                   IF m \in kept THEN copies[m] ELSE copies[m] - InBatch(m)]
    /\ Forgotten
    /\ UNCHANGED <<ledger, budget>>

(* The process dies and start-up recovery puts the batch back.  A job that  *)
(* was being put back to the queue is then there twice.                     *)
Crash ==
    /\ phase # "idle"
    /\ crashes < MaxCrashes
    /\ crashes' = crashes + 1
    /\ \/ UNCHANGED copies
       \/ /\ phase = "settle"
          /\ \E m \in Range(jobs) :
               results[m] = "retry" /\ copies' = [copies EXCEPT ![m] = @ + 1]
    /\ Forgotten
    /\ UNCHANGED <<ledger, dead, reviews, errors>>

(* An administrator corrects or invalidates a committed transaction that    *)
(* the batch has not locked.                                                *)
Review(t, status) ==
    /\ reviews < MaxReviews
    /\ reviews' = reviews + 1
    /\ txns[t] # NoRow
    /\ session.txns[t] = NoRow
    /\ txns' = [txns EXCEPT ![t].status = status]
    /\ audit' = Append(audit, [Entry(t, status, status, None) EXCEPT !.batch = 0])
    /\ UNCHANGED <<outcome, meta, rehashed, flagged, extracted, writtenBy,
                   redis, phase, work, crashes, errors>>

-----------------------------------------------------------------------------
Batch == \/ Begin \/ Preprocess \/ EndPreprocess \/ Extract \/ Route \/ EndRoute
         \/ Commit \/ CommitClashes \/ Settle

Next ==
    \/ Batch
    \/ Fail \/ Crash
    \/ \E t \in Messages, s \in {"corrected", "invalidated"} : Review(t, s)

Spec == Init /\ [][Next]_vars

-----------------------------------------------------------------------------
(* Properties *)

\* Trail a does not mention t / its first entry about t says that t was
\* created / its last entry about t says that t has this status.
Silent(a, t) == \A i \in DOMAIN a : a[i].txn # t

Creates(a, t) ==
    \E i \in DOMAIN a : /\ a[i].txn = t /\ a[i].action = "created"
                        /\ \A k \in 1 .. i - 1 : a[k].txn # t

LeavesAs(a, t, status) ==
    \E i \in DOMAIN a : /\ a[i].txn = t /\ a[i].status = status
                        /\ \A k \in i + 1 .. Len(a) : a[k].txn # t

(* Replays are harmless: whatever a message did to the books, it did in the *)
(* one batch that committed it as processed.  Retries, crashes after the    *)
(* commit, lost commit replies and extra copies add nothing later.          *)
EffectsInOneCommit ==
    \A i \in DOMAIN audit :
        audit[i].cause # None => audit[i].batch = writtenBy[audit[i].cause]

(* A payment is booked once: no two transactions have the same content.     *)
OneTransactionPerContent ==
    \A t, u \in Messages :
        t # u /\ txns[t] # NoRow /\ txns[u] # NoRow => txns[t].hash # txns[u].hash

(* No payment falls between the two loops: a message that was extracted as  *)
(* a payment and is closed as a success is in the books, under its own or a *)
(* twin's name, or as the correction of the message it edits.               *)
PaymentAccounted ==
    \A m \in Messages :
        outcome[m] = "success" /\ extracted[m] \in {"parsed", "review_needed"} =>
            \/ \E t \in Messages : txns[t] # NoRow /\ txns[t].hash = Content[m]
            \/ \E i \in DOMAIN audit :
                  audit[i].cause = m /\ audit[i].txn = Original[m]

(* The books agree with their audit trail: it begins with the creation and  *)
(* its last entry has the status that stands, whoever changed it.           *)
BooksMatchAudit ==
    \A t \in Messages :
        IF txns[t] = NoRow THEN Silent(audit, t)
        ELSE Creates(audit, t) /\ LeavesAs(audit, t, txns[t].status)

(* A revocation reaches every transaction committed by an earlier batch.    *)
(* (In the same batch the revoke comes first, whatever the order of jobs.)  *)
RevokeHonoured ==
    \A m \in Messages :
        /\ Kind[m] = "revoke" /\ outcome[m] = "REVOKED" /\ Original[m] # None
        /\ txns[Original[m]] # NoRow
        /\ writtenBy[Original[m]] < writtenBy[m]
        => \E i \in DOMAIN audit :
              /\ audit[i].txn = Original[m] /\ audit[i].cause = m
              /\ audit[i].action = "invalidated"

(* An edit never books a second transaction beside that of its original: it *)
(* creates one only if the original has none yet (or is the edit itself).   *)
EditNotDuplicated ==
    \A i, k \in DOMAIN audit :
        /\ Kind[audit[i].txn] = "edit" /\ audit[i].action = "created"
        /\ Original[audit[i].txn] = audit[k].txn
        => i <= k

(* A message that needs a person's eye is flagged in the audit log in the   *)
(* same commit, and no other message is.                                    *)
ReviewsRaised ==
    \A m \in Messages : outcome[m] = "review_needed" <=> m \in flagged

(* How the extraction of a message ended is on its row, unless its scores   *)
(* were flushed before it was routed: parsing_meta is changed in place, and *)
(* what was flushed is not written again.  Then the same commit has a       *)
(* change of the books that another message made (a revoke of the first     *)
(* loop, a booking, an edit's correction), ahead of any of its own.         *)
RoutingLostOnlyBehindFlush ==
    \A m \in Messages :
        outcome[m] \in {"success", "review_needed"} /\ meta[m] # extracted[m] =>
            /\ meta[m] = "scored"
            /\ \E i \in DOMAIN audit :
                 /\ audit[i].batch = writtenBy[m]
                 /\ audit[i].cause \in Messages \ {m}
                 /\ \A k \in DOMAIN audit : audit[k].cause = m => i < k

(* What tests/integration/test_transaction_reversal_logic.py:135 says: the  *)
(* worker cannot overwrite INVALIDATED transactions.                        *)
InvalidationStands ==
    [][phase = "commit" /\ phase' = "settle" =>
         \A t \in Messages :
             txns[t].status = "invalidated" => txns'[t] = txns[t]]_vars
=============================================================================
