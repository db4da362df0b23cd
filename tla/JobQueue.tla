------------------------------ MODULE JobQueue ------------------------------
(***************************************************************************)
(* The reliable queue between the webhook and the batch worker:            *)
(* src/backend/app/workers/worker_service.py over three Redis lists.       *)
(*                                                                         *)
(* The left end of a Redis list is index 1 of a sequence, so LPUSH is Cons *)
(* and RPOPLPUSH moves Last of one list to the front of another.  Nothing  *)
(* reads the dead letter list, so it is a set.  One Redis command is one   *)
(* step; the two commands that settle a job (LPUSH, then LREM) are two     *)
(* steps, with the whole world in between.                                 *)
(*                                                                         *)
(* process_webhook_batch appears as its contract with this loop: which     *)
(* jobs it has committed and the verdict it returns for each.  The module  *)
(* BatchProcessing opens it up.                                            *)
(***************************************************************************)
EXTENDS Integers, SequencesExt

CONSTANTS
    Jobs,         \* job_ids of well-formed payloads, one per raw message
    Poison,       \* payload strings that do not parse as a WebhookJobPayload
    Missing,      \* jobs whose raw_messages row does not exist
    Workers,      \* worker processes
    MaxRetries,   \* MAX_RETRIES
    BatchSize,    \* WORKER_BATCH_SIZE
    MaxCrashes,   \* bound: process deaths
    MaxStops,     \* bound: SIGINT / SIGTERM
    MaxFaults     \* bound: exceptions that reach the worker's outer except

ASSUME QueueAssumption ==
    /\ Missing \subseteq Jobs
    /\ Jobs \cap Poison = {}
    /\ MaxRetries \in Nat
    /\ BatchSize \in Nat \ {0}
    /\ MaxCrashes \in Nat
    /\ MaxStops \in Nat
    /\ MaxFaults \in Nat

VARIABLES
    queue,      \* cledger:webhook_processing_queue
    active,     \* cledger:webhook_active_queue
    dlq,        \* cledger:webhook_dead_letter_queue
    accepted,   \* history: ids the webhook has enqueued
    processed,  \* jobs whose raw message is committed as processed = TRUE
    effects,    \* history: how often a job's effects were committed, to 2
    attempts,   \* history: calls of process_webhook_batch per job, capped
    wpc,        \* where each worker's loop stands
    batch,      \* batch_payloads, in gathering order
    seen,       \* the jobs the worker read as processed in this batch
    results,    \* the verdict per job returned by process_webhook_batch
    stopping,   \* not is_running
    crashes, stops, faults

lists == <<queue, active, dlq>>
database == <<processed, effects>>
locals == <<wpc, batch, seen, results, stopping>>
budget == <<crashes, stops, faults>>
vars == <<lists, accepted, database, attempts, locals, budget>>

-----------------------------------------------------------------------------
Ids == Jobs \cup Poison

\* A payload string: the job it names and its retry_count.  What waits in a
\* list may still be retried; a dead letter may have gone one beyond.
Waiting == [id : Ids, retry : 0 .. MaxRetries]
Payload == [id : Ids, retry : 0 .. MaxRetries + 1]

Verdicts == {"success", "retry", "dlq"}

Places == {"down", "recover", "gather", "bury", "discard",
           "fetch", "commit", "cleanup", "drop"}

TypeOK ==
    /\ queue \in Seq(Waiting)
    /\ active \in Seq(Waiting)
    /\ dlq \subseteq Payload
    /\ accepted \subseteq Ids
    /\ processed \subseteq Jobs
    /\ effects \in [Jobs -> 0 .. 2]
    /\ attempts \in [Jobs -> 0 .. MaxRetries + 1]
    /\ wpc \in [Workers -> Places]
    /\ batch \in [Workers -> Seq(Waiting)]
    /\ seen \in [Workers -> SUBSET Jobs]
    /\ results \in [Workers -> [Jobs -> Verdicts]]
    /\ stopping \in [Workers -> BOOLEAN]
    /\ crashes \in Nat /\ stops \in Nat /\ faults \in Nat

Init ==
    /\ queue = <<>> /\ active = <<>> /\ dlq = {}
    /\ accepted = {}
    /\ processed = {}
    /\ effects = [j \in Jobs |-> 0]
    /\ attempts = [j \in Jobs |-> 0]
    /\ wpc = [w \in Workers |-> "down"]
    /\ batch = [w \in Workers |-> <<>>]
    /\ seen = [w \in Workers |-> {}]
    /\ results = [w \in Workers |-> [j \in Jobs |-> "retry"]]
    /\ stopping = [w \in Workers |-> FALSE]
    /\ crashes = 0 /\ stops = 0 /\ faults = 0

-----------------------------------------------------------------------------
At(w, place) == wpc[w] = place

Goto(w, place) == wpc' = [wpc EXCEPT ![w] = place]

\* batch_jobs: the payloads of the batch that parsed.
BatchJobs(w) == {p.id : p \in Range(batch[w])} \cap Jobs

(* The variables of one turn of the loop go out of use. *)
Discharge(w) ==
    /\ batch' = [batch EXCEPT ![w] = <<>>]
    /\ seen' = [seen EXCEPT ![w] = {}]
    /\ results' = [results EXCEPT ![w] = [j \in Jobs |-> "retry"]]

(* The outer except of the loop: the batch is forgotten, the lists are not. *)
Forget(w) ==
    /\ faults < MaxFaults
    /\ faults' = faults + 1
    /\ Goto(w, "gather")
    /\ Discharge(w)
    /\ UNCHANGED <<stopping, crashes, stops>>

(* A Redis command has taken effect: the worker goes on at `place' with the *)
(* batch `rest', unless the reply was lost and the client raised.           *)
Then(w, place, rest) ==
    \/ /\ Goto(w, place)
       /\ batch' = [batch EXCEPT ![w] = rest]
       /\ UNCHANGED <<seen, results, stopping, budget>>
    \/ Forget(w)

-----------------------------------------------------------------------------
(* The webhook's LPUSH of a fresh job. *)
Enqueue(id) ==
    /\ id \notin accepted
    /\ accepted' = accepted \cup {id}
    /\ queue' = Cons([id |-> id, retry |-> 0], queue)
    /\ UNCHANGED <<active, dlq, database, attempts, locals, budget>>

(* The service manager starts the process; ping succeeds. *)
Start(w) ==
    /\ At(w, "down")
    /\ Goto(w, "recover")
    /\ stopping' = [stopping EXCEPT ![w] = FALSE]
    /\ UNCHANGED <<lists, accepted, database, attempts,
                   batch, seen, results, budget>>

(* Mutant: recovery charges the job a retry. *)
Recover_ChargesRetry(w) ==
    /\ At(w, "recover")
    /\ IF active = <<>>
       THEN Goto(w, "gather") /\ UNCHANGED <<queue, active>>
       ELSE /\ queue' = Cons([Last(active) EXCEPT !.retry = @ + 1], queue)
            /\ active' = Front(active)
            /\ UNCHANGED wpc
    /\ UNCHANGED <<dlq, accepted, database, attempts,
                   batch, seen, results, stopping, budget>>

(* Mutant: no crash recovery at start-up. *)
Recover_Skipped(w) ==
    /\ At(w, "recover")
    /\ Goto(w, "gather")
    /\ UNCHANGED <<lists, accepted, database, attempts,
                   batch, seen, results, stopping, budget>>

(* One turn of the start-up loop: RPOPLPUSH active -> queue until empty.    *)
Recover(w) ==
    /\ At(w, "recover")
    /\ IF active = <<>>
       THEN /\ Goto(w, "gather")
            /\ UNCHANGED <<queue, active>>
       ELSE /\ queue' = Cons(Last(active), queue)
            /\ active' = Front(active)
            /\ UNCHANGED wpc
    /\ UNCHANGED <<dlq, accepted, database, attempts,
                   batch, seen, results, stopping, budget>>

(* Mutant: BRPOP, which leaves no copy in the active list. *)
Gather_Brpop(w) ==
    /\ At(w, "gather") /\ ~stopping[w]
    /\ Len(batch[w]) < BatchSize
    /\ queue # <<>>
    /\ queue' = Front(queue)
    /\ Then(w, IF Last(queue).id \in Poison THEN "bury" ELSE "gather",
               Append(batch[w], Last(queue)))
    /\ UNCHANGED <<active, dlq, accepted, database, attempts>>

(* BRPOPLPUSH queue -> active.  A payload that does not parse goes on to be *)
(* buried at once; it is the last of batch_payloads meanwhile.              *)
Gather(w) ==
    /\ At(w, "gather")
    /\ ~stopping[w]
    /\ Len(batch[w]) < BatchSize
    /\ queue # <<>>
    /\ LET p == Last(queue) IN
       /\ queue' = Front(queue)
       /\ active' = Cons(p, active)
       /\ Then(w, IF p.id \in Poison THEN "bury" ELSE "gather",
                  Append(batch[w], p))
    /\ UNCHANGED <<dlq, accepted, database, attempts>>

(* The payload that failed validation: LPUSH to the dead letter list ... *)
Bury(w) ==
    /\ At(w, "bury")
    /\ dlq' = dlq \cup {Last(batch[w])}
    /\ Then(w, "discard", batch[w])
    /\ UNCHANGED <<queue, active, accepted, database, attempts>>

(* Mutant: the payload that failed validation stays in the active list. *)
Discard_KeepsActive(w) ==
    /\ At(w, "discard")
    /\ Then(w, "gather", Front(batch[w]))
    /\ UNCHANGED <<lists, accepted, database, attempts>>

(* ... then LREM from active, and out of batch_payloads. *)
Discard(w) ==
    /\ At(w, "discard")
    /\ active' = RemoveFirst(active, Last(batch[w]))
    /\ Then(w, "gather", Front(batch[w]))
    /\ UNCHANGED <<queue, dlq, accepted, database, attempts>>

(* The gather loop ends: batch full, AI_BATCH_TIMEOUT_SECONDS over (at any  *)
(* time), or shutdown.  An empty batch goes round again or leaves the loop. *)
EndGather(w) ==
    /\ At(w, "gather")
    /\ \/ batch[w] # <<>> /\ Goto(w, "fetch")
       \/ batch[w] = <<>> /\ stopping[w] /\ Goto(w, "down")
    /\ UNCHANGED <<lists, accepted, database, attempts,
                   batch, seen, results, stopping, budget>>

-----------------------------------------------------------------------------
(* process_webhook_batch reads the raw messages of the batch: `seen' is the *)
(* processed flag as read now, kept across scoring and the LLM call.        *)
Fetch(w) ==
    /\ At(w, "fetch")
    /\ Goto(w, "commit")
    /\ seen' = [seen EXCEPT ![w] = BatchJobs(w) \cap processed]
    /\ attempts' = [j \in Jobs |->
          IF j \in BatchJobs(w) /\ attempts[j] <= MaxRetries
          THEN attempts[j] + 1 ELSE attempts[j]]
    /\ UNCHANGED <<lists, accepted, database, batch, results, stopping, budget>>

(* Mutant: the processed flag is not looked at. *)
Effective_IgnoresProcessed(w) == BatchJobs(w) \ Missing

(* The rows the transaction of this batch writes, and its commit. *)
Effective(w) == BatchJobs(w) \ (Missing \cup seen[w])

WriteBatch(w) ==
    /\ processed' = processed \cup Effective(w)
    /\ effects' = [j \in Jobs |->
                     IF j \in Effective(w) /\ effects[j] < 2
                     THEN effects[j] + 1 ELSE effects[j]]

Return(w, verdict) ==
    /\ results' = [results EXCEPT ![w] = verdict]
    /\ seen' = [seen EXCEPT ![w] = {}]
    /\ Goto(w, "cleanup")
    /\ UNCHANGED <<lists, accepted, attempts, batch, stopping, budget>>

\* Committed: success, except for a job with no raw message.
Commit(w) ==
    /\ At(w, "commit")
    /\ WriteBatch(w)
    /\ Return(w, [j \in Jobs |->
                    IF j \notin BatchJobs(w) THEN "retry"
                    ELSE IF j \in Missing THEN "dlq" ELSE "success"])

\* A retryable exception: rolled back, or raised by a commit that the server
\* did carry out.  Every job of the batch is to be retried.
FailRetryable(w) ==
    /\ At(w, "commit")
    /\ WriteBatch(w) \/ UNCHANGED database
    /\ Return(w, [j \in Jobs |-> "retry"])

\* Any other exception: rolled back, every job of the batch is dead-lettered.
FailFatal(w) ==
    /\ At(w, "commit")
    /\ UNCHANGED database
    /\ Return(w, [j \in Jobs |-> IF j \in BatchJobs(w) THEN "dlq" ELSE "retry"])

-----------------------------------------------------------------------------
(* The clean-up loop over zip(batch_payloads, batch_jobs). *)
Current(w) == Head(batch[w])

\* results.get(job.job_id, "retry")
Verdict(w) ==
    IF Current(w).id \in Jobs THEN results[w][Current(w).id] ELSE "retry"

Cleaning(w, place) == At(w, place) /\ batch[w] # <<>>

Lrem(w, place) ==
    /\ active' = RemoveFirst(active, Current(w))
    /\ Then(w, place, Tail(batch[w]))
    /\ UNCHANGED <<queue, dlq, accepted, database, attempts>>

\* status == "success": LREM alone.
Ack(w) ==
    /\ Cleaning(w, "cleanup")
    /\ Verdict(w) = "success"
    /\ Lrem(w, "cleanup")

(* Mutant: LREM first, the dead letter never written. *)
SendToDlq_Dropped(w) ==
    /\ Cleaning(w, "cleanup")
    /\ Verdict(w) = "dlq"
    /\ Then(w, "drop", batch[w])
    /\ UNCHANGED <<lists, accepted, database, attempts>>

\* status == "dlq": LPUSH of the job as it is.
SendToDlq(w) ==
    /\ Cleaning(w, "cleanup")
    /\ Verdict(w) = "dlq"
    /\ dlq' = dlq \cup {Current(w)}
    /\ Then(w, "drop", batch[w])
    /\ UNCHANGED <<queue, active, accepted, database, attempts>>

(* Mutant: one retry too many. *)
Requeue_GivesUpLate(w) ==
    /\ Cleaning(w, "cleanup")
    /\ Verdict(w) = "retry"
    /\ LET again == [Current(w) EXCEPT !.retry = @ + 1] IN
         IF again.retry > MaxRetries + 1
         THEN dlq' = dlq \cup {again} /\ UNCHANGED queue
         ELSE queue' = Cons(again, queue) /\ UNCHANGED dlq
    /\ Then(w, "drop", batch[w])
    /\ UNCHANGED <<active, accepted, database, attempts>>

\* status == "retry": one more retry_count; back to the queue or, beyond
\* MAX_RETRIES, to the dead letter list.
Requeue(w) ==
    /\ Cleaning(w, "cleanup")
    /\ Verdict(w) = "retry"
    /\ LET again == [Current(w) EXCEPT !.retry = @ + 1] IN
         IF again.retry > MaxRetries
         THEN dlq' = dlq \cup {again} /\ UNCHANGED queue
         ELSE queue' = Cons(again, queue) /\ UNCHANGED dlq
    /\ Then(w, "drop", batch[w])
    /\ UNCHANGED <<active, accepted, database, attempts>>

\* The LREM that follows either LPUSH.
Drop(w) ==
    /\ Cleaning(w, "drop")
    /\ Lrem(w, "cleanup")

\* Back to `while is_running'.
EndCleanup(w) ==
    /\ At(w, "cleanup")
    /\ batch[w] = <<>>
    /\ Goto(w, IF stopping[w] THEN "down" ELSE "gather")
    /\ Discharge(w)
    /\ UNCHANGED <<lists, accepted, database, attempts, stopping, budget>>

-----------------------------------------------------------------------------
(* handle_shutdown *)
Shutdown(w) ==
    /\ ~At(w, "down") /\ ~stopping[w]
    /\ stops < MaxStops
    /\ stops' = stops + 1
    /\ stopping' = [stopping EXCEPT ![w] = TRUE]
    /\ UNCHANGED <<lists, accepted, database, attempts,
                   wpc, batch, seen, results, crashes, faults>>

(* The process dies: its local state is gone, an open transaction is rolled *)
(* back by the server.  A Redis error in the recovery loop ends here too.   *)
Crash(w) ==
    /\ ~At(w, "down")
    /\ crashes < MaxCrashes
    /\ crashes' = crashes + 1
    /\ Goto(w, "down")
    /\ Discharge(w)
    /\ UNCHANGED <<lists, accepted, database, attempts,
                   stopping, stops, faults>>

(* A Redis command that was not carried out, or process_webhook_batch       *)
(* raising out of its own rollback or close, reaches the outer except.      *)
LoopException(w) ==
    /\ wpc[w] \in {"gather", "bury", "discard", "commit", "cleanup", "drop"}
    /\ Forget(w)
    /\ UNCHANGED <<lists, accepted, database, attempts>>

-----------------------------------------------------------------------------
ProcessBatch(w) == Fetch(w) \/ Commit(w) \/ FailRetryable(w) \/ FailFatal(w)

CleanUp(w) == Ack(w) \/ SendToDlq(w) \/ Requeue(w) \/ Drop(w) \/ EndCleanup(w)

WorkerStep(w) ==
    \/ Start(w) \/ Recover(w)
    \/ Gather(w) \/ Bury(w) \/ Discard(w) \/ EndGather(w)
    \/ ProcessBatch(w)
    \/ CleanUp(w)

Trouble(w) == Shutdown(w) \/ Crash(w) \/ LoopException(w)

Next ==
    \/ \E id \in Ids : Enqueue(id)
    \/ \E w \in Workers : WorkerStep(w) \/ Trouble(w)

Spec == Init /\ [][Next]_vars

(* The service manager restarts a dead worker and a running one keeps       *)
(* taking steps: brpoplpush returns, the timeout fires, the LLM call ends.  *)
FairSpec == Spec /\ \A w \in Workers : WF_vars(WorkerStep(w))

-----------------------------------------------------------------------------
(* Properties *)

Queued == Range(queue) \cup Range(active)

IdsOf(payloads) == {p.id : p \in payloads}

\* Nothing is owed for this id any more: its raw message is committed as
\* processed, or an operator finds it in the dead letter list.
Finished == processed \cup IdsOf(dlq)

(* An accepted job is never lost: until its effects are committed or it is  *)
(* dead-lettered, some Redis list holds a copy of it.  About the order of   *)
(* LPUSH and LREM in the clean-up, crash recovery, and late LREMs of a      *)
(* worker whose job another one has taken over.                             *)
NoJobLost == \A id \in accepted : id \in Finished \/ id \in IdsOf(Queued)

(* retry_count never runs ahead of the work: a copy with count n was handed *)
(* to process_webhook_batch n times, copies made by crashes included, so a  *)
(* job is dead-lettered for its retries only after MAX_RETRIES + 1 attempts.*)
RetriesEarned ==
    \A p \in Queued \cup dlq : p.id \in Jobs => attempts[p.id] >= p.retry

(* Redelivery is harmless: however often a job runs, its effects are        *)
(* committed once.  With one worker this rests on the processed flag being  *)
(* read in the same batch that commits it.                                  *)
EffectsAtMostOnce == \A j \in Jobs : effects[j] <= 1

(* Without a crash or an exception a worker answers for exactly what is in  *)
(* the active list, in order: no clean-up path leaves an entry behind or    *)
(* removes another job's entry, and a graceful stop leaves the list empty.  *)
ActiveMirrorsBatch ==
    crashes = 0 /\ faults = 0 =>
        \A w \in Workers : active = Reverse(batch[w])

(* What the queue promises to the webhook, from the outside. *)
Promise == INSTANCE AtLeastOnce
             WITH pending <- IdsOf(Queued), finished <- Finished

AtLeastOnceSpec == Promise!Spec

(* Every accepted job is eventually finished, crashes and graceful stops    *)
(* included, and the lists hold on to nothing that is: retries and replays  *)
(* end.  An exception that reaches the loop (lines 141-143) strands the     *)
(* batch in the active list until a restart, so it excuses a run.           *)
Drains == <>[](faults > 0 \/ (Queued = {} /\ accepted \subseteq Finished))
=============================================================================
