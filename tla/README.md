# Cledger in TLA+

Cledger turns WhatsApp messages into booked transactions: a FastAPI webhook
stores each message in PostgreSQL and pushes a job onto a Redis list; a worker
takes jobs in batches, scores them, has the candidates extracted by an LLM,
routes the results by confidence and writes transactions with an audit trail;
administrators and a Flutter client correct or invalidate what was booked.

This directory models the parts of the program where a mistake loses money or
a message and a test would hardly see it: the queue, the batch, extraction by
the LLM and its cache, the webhook and its rate limiter, the ledger under
concurrent sessions, the phone's cache and the list it shows. The modules are
translated from the code, and `PROJECT.json` names the lines each definition
stands for.

## Running it

    tlc -config MCJobQueueLive.cfg MCJobQueue.tla       # any MC*.cfg with its MC module
    tlapm JobQueueProofs.tla     # and BatchProofs, IngestionProofs, LedgerProofs, MobileCacheProofs,
                                 # ExtractionProofs, RateLimiterProofs, PagingProofs

## The system

| Component | State it keeps | Operations | Interacts with | Module |
|---|---|---|---|---|
| Webhook (`api/webhook.py`, `utils/idempotency.py`) | `raw_messages`, `participants`, `groups` | `receive_webhook` | WhatsApp (redelivers), PostgreSQL (unique columns), the queue (LPUSH) | `Ingestion` |
| Work queue and worker loop (`workers/worker_service.py`, `database/redis_client.py`) | three Redis lists; the batch in hand | recover, gather, process, clean up, shut down | Redis, batch processing | `JobQueue`, `AtLeastOnce` |
| Batch processing (`workers/job_handler.py`) | one database session per batch | `process_webhook_batch` | the ledger, cache and LLM, the worker loop (verdicts) | `BatchProcessing` |
| Ledger (`crud/transaction_crud.py`, `services/transaction_correction_service.py`, `crud/audit_crud.py`, the review endpoints) | `transactions`, `transaction_audit` | upsert, correct, invalidate | worker and administrators, at the same time | `Ledger` |
| Phone cache (`transaction_repository.dart`, `cache_service.dart`, `api_service.dart`) | a Hive box | sync, more, detail, review, create | the backend over HTTP, the screens | `MobileCache` |
| Scoring, LLM extraction, extraction cache (`parsing/`, `ai/`, the routing of `job_handler.py`) | extraction cache in Redis, shared by all messages with a text | score, look up, ask, parse, store, route | batch processing, Gemini | `Extraction`, `ExtractionContract` |
| Transaction list (`transaction_list_screen.dart`, `GET /transactions`) | the list, an offset, flags | first page, pull, more, create, detail | the phone's cache, the backend | `Paging` |
| Rate limiter (`middleware/rate_limiter.py`) | a counter per caller and window in Redis | one check per request | in front of the webhook | `RateLimiter` |
| IP filter, tokens, signatures | none | one check per request | in front of the handlers | not modelled |
| Filters of queries, CSV export, health, metrics, version | none of their own | read | PostgreSQL, Redis | not modelled |
| Migrations, service scripts, backup | the schema | by hand | | not modelled |

How a message travels, and which module sees which part:

    WhatsApp --POST--> limiter ----> webhook --commit--> raw_messages --LPUSH--> queue
              [RateLimiter]   [Ingestion]                                [JobQueue]
    queue --BRPOPLPUSH--> active --batch--> process_webhook_batch --commit--> books
              [JobQueue]          [BatchProcessing, Extraction]        [Ledger]
    phone <--GET/POST review--> endpoints --commit--> books
     [MobileCache, Paging]                   [Ledger]

What makes it hard: Redis and PostgreSQL are written one after the other with
nothing to join them, so every crash, lost reply and retry between the two is
a behaviour; a batch holds rows locked across an LLM call while people change
the same rows; edits and revokes arrive before, with or after what they are
about; the phone's operations interleave at every `await`, over a box that is
cleared and filled again. The hazards are listed one by one, at their lines,
in `PROJECT.json`.

## What makes each part correct

- Queue: no accepted job is lost; a job is retried as often as its
  `retry_count` says; replays are harmless; everything is finished in the end.
- Batch: a message acts on the books in one commit only; what is extracted as
  a payment is accounted for; edits and revokes reach what they are about.
- Extraction: a result reaches only messages with the text it was given for, fresh or from
  the cache; what is cached is read back as it was; a candidate is booked, dead-lettered, put before
  a person, or known to be no transaction; a batch comes to its end.
- Webhook: what is answered is stored; a message is stored and queued once;
  a job never precedes its row; every delivery is answered in the end.
- Ledger: the audit trail explains every column of every transaction; nobody
  reverts a column he did not name; every session ends.
- Phone: a local change survives every fetch until it is confirmed; a confirmed
  one is not pending again; the user is told of success only after it.
- List: scrolling skips and repeats no more than entries from the cache and new rows explain; it ends.
- Limiter: the limit holds for a window, and nobody below it is turned away.

## The modules

### JobQueue (and AtLeastOnce)

`queue`, `active`, `dlq` are the three lists of `redis_client.py:30-32`; index
1 is the left end, so LPUSH is `Cons` and BRPOPLPUSH moves `Last`. One Redis
command is one step, and between the LPUSH and the LREM that settle a job the
rest of the world may act. `wpc`, `batch`, `seen`, `results`, `stopping` are the
locals of `start_worker`. `Recover` is the start-up loop (54-58), `Gather`, `Bury`,
`Discard`, `EndGather` the gathering (79-95), `Fetch`, `Commit`, `FailRetryable`,
`FailFatal` the call of `process_webhook_batch` reduced to what this loop sees of
it (which jobs are committed as processed, which verdict is returned), and
`Ack`, `SendToDlq`, `Requeue`, `Drop`, `EndCleanup` the clean-up (111-139).
`Then` gives each Redis command a second outcome: carried out, but the reply
lost and the exception caught by the loop (141-143), which forgets the batch.
`Crash` is the death of the process; the server rolls back what was open.

`AtLeastOnce` says what the queue promises without lists, retries or
processes: an accepted id is pending until it is finished. `JobQueue` implements it
with `pending <- IdsOf(Queued)`, `finished <- Finished` (property `AtLeastOnceSpec`).

### BatchProcessing

One batch at a time, any messages in any order, an administrator in between.
`session` holds what the database session has staged and flushed; nobody else
sees it until `Write`. `Preprocess` is the first loop (137-249), one message
a step; `Extract` the cache look-up and LLM call (256-310), an outcome chosen for
each candidate; `Route` the second loop (312-460); `Commit`, `CommitClashes`, `Fail`
the ends of the function (462-488). `Flush` writes staged columns with it, as the
ORM does, and from then on an in-place change of `parsing_meta` is not seen:
this is what `Recorded` is about. A revoke of the first loop flushes (186), a booking does, and the
correction of an edit; whichever comes first takes the routings of all candidates scored before it
(`RoutingLostOnlyBehindFlush`). `Settle` and `Crash` reduce the worker loop to the number of
payloads a message has left. The branch for reversals found by the LLM (336,
350-357) is left out: `LLMExtractionSchema` (`schemas/llm_extraction.py:50-54`)
rejects every verb but credit, debit and unknown, so it cannot be reached.

### Extraction (and ExtractionContract)

What `BatchProcessing` leaves to a choice. `Begin` takes jobs and fixes their timestamps,
`Lookup`, `LookupFails`, `Poisoned` read the cache of a batch, `AttemptFails`, `Unusable`,
`Answer` are the client and the parser, `Save`, `SaveFails` one SETEX after another, `Decide` the
routing and the commit. A job is dead-lettered in each of the ways the worker has: alone, when its row is
missing (`Missing`, 139-142); with its batch, by a cache entry that does not pass the schema (`Poisoned`) or any other
exception that is not transient (`Fatal`, 483-486), at any point; or because its retries are used up when a
failure gives the batch back (`GiveBack`; `worker_service.py:127`). Retries are counted in `JobQueue`; here any of a
batch's jobs may have used them up. What goes into `parsing_meta` is `BatchProcessing`'s.
The pure parts are operators of their own: `Score`, `PassesSchema`, `Normalized`, `Validated`,
`Parsed`, `Route`, `TxnDate`, `FinalTimestamp`. An answer is any sequence of up to `MaxItems` items,
with ids that were asked about, were not, or are missing.

Conventions: time is in days and confidence in hundredths, so that 1.0 is 100 and so is
one hundred per cent of 100.0 (10 000); a text is its own hash; two messages do not have both
text and second in common (`BatchProcessing` has those). `Init` chooses which entries of the cache are
of an older schema (`Legacy`). What the regular expressions find in a text is the constant `Signals`.
`ExtractionContract` is the promise: a batch is taken whole, and settled whole or given back with some of
its jobs buried; a verdict is final.

### Ingestion

`raw`, `participants`, `groups` are committed rows, `newPeople`, `newGroups` what a
request has flushed; a unique value in another session's flush makes the
insert wait (`Elsewhere`). A database id is named by what it identifies; `None`
as a sender is the id of a row that was rolled back. Each query, flush,
commit and LPUSH is a step. `Answer` is always 200: the outer `except` (185-187)
says so. `Rehash` is the worker's replacement of a stored hash, after which a
redelivery is no longer found by the look-up at line 83. `overlapped` remembers that two requests
have been under way at once; `AnsweredIsStored` is about runs in which none were.

### RateLimiter

`Arrive` reads the clock and names the window, `Incr`, `Expire`, `Compare` are the rest of
`__call__`, `RedisFails` its `except`, which lets the request pass. Time goes on between them (`Tick`),
though never so far that a request is counted a whole window late. A key is a count and
the end of its life; `Held` is what Redis answers for it. `tally` is what became of the requests.

### Ledger

A session is a request or a batch, its `Plan` the operations it performs. `loaded` is its
identity map, `writes` the columns of its UPDATEs, `entries` its audit rows. PostgreSQL's
READ COMMITTED is modelled by what it does here: a query sees committed rows and one's
own, an UPDATE waits for the row's lock and then writes the columns that differ from
what was *loaded*. A query gives back the object the session still holds or reads
again (the session keeps weak references). Both snapshots of an audit entry come from
the loaded row.

### MobileCache

The app is one isolate: an operation runs alone between two awaits. `Operations` is
how many may be under way; with one, nothing overlaps. `Start`, `Respond`, `Merge`, `Clear`,
`PutAll` are a sync or a further page; `ShowDetail` a single fetch; `Review`, `Post`,
`PostAgain`, `PostFails`, `Confirm` a review; `Create` a local creation. A row of the
server is its version number, `local` the change that makes an entry `pending_local`.
`owed` remembers the last local change the server has not confirmed, `overlapped` that two
operations have been under way at once.

### Paging

The state of `_TransactionListScreenState`: `shown`, `offset`, `hasMore` and the flags. `Restart`, `Retry`,
`Refresh`, `More` start a task, and `request` says where each task is (`Stages`). Every await is a place where anything else may
run: `Answer` is the server's page (any order of the rows of one batch: `created_at` is the time of the batch's
database transaction), `Merge` reads the cache and begins to clear the box, `Clear` and `PutAll` are what the box shows of
`saveTransactions`, and `ArriveNew`, `ArriveMore` the `setState` that follows; `FailNew`, `FailMore` are requests without an
answer. `Merged` is the list a sync makes (what is pending on top, `Pinned`, then the page), `Added` what a further page makes of the box,
`Only` the `where` of the filters.

The screens that cover the list are `opened`. `Create` is the put of a new entry and `Created` the return from that screen,
when the list becomes the cache as it is *then*: while a page is being saved the cache may be empty, or have the page
already. `Open` and `Close` are the detail screen, `Review` its optimistic change, and `details` the requests it has
under way, which may be answered (`Detail`) after it is closed.

`base`, `extra` and `clean` say what scrolling may be expected to show: the order of the rows when the list was new; how many
entries have come into the list from the cache, ahead of a page that has them or without one (pinned, created, or of a page that is
saved and not yet shown); and whether only what the properties account for has happened. A list is clean no longer
after a restart, an offline page, a page in another order of a batch, a creation that finds less in the box than the list has,
or the closing of a detail that overwrites another entry, its own having moved.

In this module and in `MobileCache`, a local creation has the negative key the code gives it (`transaction_repository.dart:188`),
and the box keeps it. Hive's integer keys are unsigned: a debug build asserts against it, and a release build keeps it in
memory but truncates it on disk. No property depends on which key it is after a restart. Errors of the disk under the box
are not modelled.

## The runs

Deadlock checking is off in every run: each system may come to rest (all jobs
finished, all bounds used, every session over).

| Run | What it asks | Bounds |
|---|---|---|
| `queue_live` | no loss, earned retries, effects once, at-least-once; the active list mirrors the batch; every job is finished and the lists drain | 1 worker, 2 jobs, a poison payload, batch of 2, 1 retry; any two of a crash, a stop and an exception (`FewTroubles`) |
| `batch_edits` | audit, revocations, edits, payments, when a routing is lost | payment, its edit, its revoke, chat; 3 batches of up to 3, 1 review, 1 crash |
| `batch_replays` | replays and equal contents add nothing | 3 payments of one content, a missing row; 1 crash, 1 exception |
| `batch_resurrects` * | an invalidated transaction stays so | payment and edit, 2 batches, 1 review |
| `extraction` | results belong, caching loses nothing, nobody dropped, dates near, the contract, batches end | 3 payments, 2 of one text, a chat message, a job without a row; 7 items, answers of up to 2; 2 attempts; batches of 2; 3 days, entries live 2; exceptions and used-up retries anywhere |
| `ingest_concurrent` | stored and queued once, jobs have rows, answered is stored, every payload is answered | 2 requests, 3 payloads, one of two messages, clashing people, user names and groups, crash, exception |
| `ingest_gap` * | answered is queued | 1 request, 1 crash |
| `limiter` | the limit holds, refusals are earned | 2 processes, 1 caller, limit 2, windows of 3 ticks, up to 6 requests in each, a failure of Redis, a death |
| `ledger_trail` | trail explains books, no column reverted, every session ends | 4 sessions, 2 transactions, aborts anywhere |
| `mobile_cache` | local changes kept, confirmed edits not pending, merges keep pending entries, success is true and shown | 2 operations, 2 rows on 2 pages, 1 edit, 1 creation, 1 death |
| `mobile_lost` * | local changes kept | 2 operations |
| `paging` | what scrolling skips and repeats; the list comes to rest | 3 rows in 2 batches, pages of 1; any two of a creation, an open entry, a review, a refresh and a restart (`FewEvents`); requests fail at will |

Runs marked * are expected to be violated: they check one property which a comment,
a message or a test of the repository states, and TLC shows a run of the code's model that
breaks it. `PROJECT.json` quotes the line and says what happens ("findings").

Why these bounds: a hazard of the queue needs one job's two copies, or one job's LREM meeting another's payload, hence
two jobs; two workers that take jobs from each other are left to the proofs, which are about any number; one crash
between any two commands gives every state a second crash could start from, up to more copies; one retry distinguishes
a first attempt from the last. `Missing` is empty in the queue run (a missing row and its dead letter are in
`batch_replays`; the proofs take any `Missing`). A batch of three holds a message with its edit and its revoke in each
order, and three batches hold every way to split them. Two requests are enough for every clash of unique values; two
operations for every overlap of a merge with something else; properties that hold only without overlap say so by
`overlapped`, so that one run shows both. Two messages of one text, an entry that expires in between and an answer of
two items are what it takes for a result to go astray or a date to be stale; a fatal exception or used-up retries may
end a batch at every step. Two processes count one request late each; three rows in pages of one leave room for a list
that moves by a batch of two while a page is read, and for a creation that reads the cache while a page is saved,
after which the page comes twice and the next row not at all (`SkipsOnlyForCached` is met there). Four rows are too
many for the liveness property; the two others were also checked with `Batch` as <<1, 2, 2, 3>> and `Cached` as <<2,
4, -1, 1, 3>>, with pages of one (a creation and a refresh) and of two, in one and two million states. Then a creation
that counted for one entry only would break `SkipsOnlyForCached`. In the ledger three kinds of session meet on one
row, a second row being there to be locked in between.

`TypeOK` of `BatchProcessing` and `Ingestion` and of the queue is in their runs; `Ledger`, `MobileCache`, `Extraction`,
`Paging` and `RateLimiter` define theirs, and it holds with the same bounds (add it to the cfg). All of
them are proved (`TypeCorrect` of each module of proofs).

Each property has a mutant in `PROJECT.json`: a definition changed the way a bug would
(crash recovery skipped, the snapshot taken after the assignment, the processed flag not
looked at ...) under which TLC finds the property violated.

## Fairness

`JobQueue!FairSpec` is weak fairness of `WorkerStep` for each worker: the service manager
restarts a dead worker (`setup_windows_services.ps1`, `AppExit Default Restart`), BRPOPLPUSH
has a timeout, the gathering ends with `AI_BATCH_TIMEOUT_SECONDS`, the LLM call times out.
Crashes, stops and exceptions are not fair and are bounded. `Drains` excuses
a run with an exception in the loop: after one, the jobs stay in
the active list until the next start, and nothing makes a healthy worker restart.

`Ingestion!FairSpec` is strong fairness of a delivery of each unanswered payload (WhatsApp
redelivers; an app busy with another payload at times is free again) and weak fairness of a
request's steps. `Ledger!FairSpec` is weak fairness of each session's steps; a step that waits for a lock is
not enabled.

`Extraction!FairSpec` is weak fairness of `GivesUp` and `Decide`: every request has a timeout (`gemini_client.py`), a Redis
command returns or raises, and the worker goes on with what it then has. `Paging!FairSpec` is weak fairness of each request (answered,
or given up after ten seconds, `api_service.dart`; the box's clear and putAll return), of closing what covers the list, and of `More`:
a user who keeps scrolling. The bounds make an end of what covers the list or keeps it busy, so that weak fairness is enough for `More`.

`MobileCache` and `BatchProcessing` have no liveness property: nothing in the app sends a
failed edit again, and the progress of batches is the queue's.

## What is proved

Every safety property that a passing run checks is a theorem: it holds
for all sets of jobs, messages, workers, sessions, callers and rows, and for all limits, batch and page sizes and
numbers of failures that the assumption of its module (`QueueAssumption` and so on) admits. The TLC
runs give those constants small values; the theorems take the bounds away. Each module of proofs has
one inductive invariant (`IInv`), which TLC has found to hold on the bounds of the run before it was
proved, lemmas for the operators, one lemma for each action and part, and the theorems at its end.

### JobQueueProofs

- `TypeCorrect`: `Spec => []TypeOK`. It needs `InHand`, that a payload being buried is the
  last of a non-empty batch.
- `NoLoss`: `Spec => []NoJobLost`. `NoJobLost` is not inductive: the LREM after an LPUSH removes a
  copy, and one has to know that what the LPUSH wrote is still there or finished. `IInv` adds
  `DropCovered` (a job about to be dropped is covered elsewhere), `DiscardCovered` (so is
  a poison payload), `SeenCommitted` and `SuccessCommitted` (a verdict of success or a job seen as
  processed is committed), and `AcceptedHeld`, which is `NoJobLost` in terms of `Held`: an id is held
  if it is finished or some payload of it is in a list. The step lemmas go one invariant at
  a time, over lemmas of what a step does to the lists (`HeldStep`, `QueuedStep`, `FinishedStep`).
- `RetriesAreEarned`: `Spec => []RetriesEarned`. The strengthening is `BatchEarned`: a
  payload in hand is earned, and from the fetch on (`Counted`) so is its next retry. `EntryStep` says where an
  entry of a list can come from, `BatchStep` what becomes of a batch.
- `Refinement`: `Spec => AtLeastOnceSpec`, the step simulation. It needs `KnownIds`
  (what goes about was accepted) besides `IInv`; an LREM is a `Release` or a stutter because `DropCovered`,
  `DiscardCovered` and `SuccessCommitted` say that the id is finished or another copy stays.
- `OnceWithOneWorker`: if `Workers` has one element, `Spec => []EffectsAtMostOnce`. `SeenCurrent` is
  the point: the flags read by `Fetch` are still true at the commit, as nobody else commits.
- `ActiveIsTheBatch`: if `Workers` has one element, `Spec => []ActiveMirrorsBatch`. `Mirrored` says that the
  active list is the batch read backwards and that an id has one place in the lists (`Once`), but for the copy
  that a drop is about to remove. An LREM removes the first *equal* payload; since ids
  do not repeat, that is the one the worker means (`RemoveFirstPlaces`, `MirrorLrem`).

`Held` counts copies by content: LREM removes the first equal payload, whoever put it there,
and the worker that requeues a job has first written a payload with a *different* `retry_count`.
That is the heart of the argument, and why two workers stealing from each other lose nothing.

### BatchProofs

`TypeCorrect`, `ReplaysHarmless` (`EffectsInOneCommit`), `BookedOnce` (`OneTransactionPerContent`),
`ReviewsAlwaysRaised` (`ReviewsRaised`), `PaymentsAccounted`, `AuditExplainsBooks` (`BooksMatchAudit`),
`RevocationsHonoured`, `EditsNotDuplicated`, `RoutingsLostBehindFlush` (`RoutingLostOnlyBehindFlush`). The properties speak of committed tables; while a batch runs,
what will break or keep them is in its session. So each has a counterpart for the draft (`SessionReviews`, `SessionCauses`,
`SessionTrail`, `SessionEdits`, `SessionPayments`, `SessionRevokes`), kept by `Preprocess` and `Route`, and `Write` joins the two.
The heart is `StagedFresh`: a batch stages only messages that are still pending in the table, so what it
writes about a message is written for the first time, and an earlier commit has nothing to say of it.
`CausesProcessed` and `OnlyProcessedBooked` are the other half, of the table. `CopiesCover` is the queue's side:
the jobs in a batch are among the payloads that wait.

### IngestionProofs

`TypeCorrect`, `StoredAndQueuedOnce` (`OnceOnly`) and `JobsFindRows` (`JobsHaveRows`) for any number of concurrent
requests, and `AnsweredStored` (`AnsweredIsStored`), which is about requests that have not overlapped. `OneOwner` carries the
first: between the commit of a row and its LPUSH no other request owns that row, because the unique column let
one of them commit it. `SenderFound` and `GroupFound` follow a sender from the flush to the commit; a sender whose
flush was rolled back is `None`, and the insert with it fails, which is why `RowsComplete` holds nevertheless. For
`AnsweredStored`, `HashStored` says what a hash found at line 83 stands for, `FirstDone` where a request is in its payload, and
`Undisturbed` that nobody commits between the look-up of a group and its insert.

### LedgerProofs

`TypeCorrect`, `TrailExplainsBooks` (`BooksMatchTrail`) and `CommitsOnlyNamed` (`OnlyNamedColumns`) for any sessions and plans. The
argument is local to a session: `EntriesMatch` says that its uncommitted entries say of every column what its
uncommitted writes say, since both are computed from the loaded row, however stale that row is. `InsertsAreWhole` is what
makes a first entry explain every column; `WritesAreNamed` bounds what a commit may change.

### MobileCacheProofs

`TypeCorrect`; `MergesKeepPending` and `SuccessShown` however operations overlap; `SerialKept` (no deaths either) and
`LocksCleared` while they run one after another, which is what the properties say. `SuccessShown` follows the version of
a row from the POST (`AppliedVersions`) through the GET (`AnswerIsNew`) to the box; `OneReview` keeps others away from the edit. `SerialKept`
rests on `OwedKept`: what is owed is in the box or, while the box is empty, in the list that will be put there.

### ExtractionProofs

`TypeCorrect`, `VerdictsBelong` (`ResultsBelong`), `CacheIsStable` (`CacheRoundTrip`), `CandidatesAreShown` (`NothingSilentlyDropped`),
`DatesAreNear` (`BookedNearMessage`) and the refinement `ImplementsContract` (`ContractSpec`). Results carry ids: `FoundBelongs` and `CacheBelongs`
follow an id from the answer into the cache, out of it for another message of that text, and into the verdict. `Distinct` and `Disjoint`
(a message has one place in one batch) and `BusyUndecided` are what the contract needs: a batch is settled whole or given back with some jobs buried,
and a verdict is never given twice. `NormalizedTwice` is why a cached confidence is not scaled again.

### RateLimiterProofs

`TypeCorrect`, `RefusalsAreEarned` (`RefusalsEarned`), `LimitIsKept` (`LimitHolds`). Both are sums: a request under way waits to be counted, will pass or will
be refused, and every step moves it from one of these sets to the next (`Balance`). `KeysLast` is the fact about time:
a key outlives its window. So the key knows of whoever passes while the window is open (`PassesCounted`), and afterwards only those may
pass that were on their way, one for each process (`LatePassesFew`).

### PagingProofs

`TypeCorrect`, `OffsetCountsTheList` (`_offset` is the length of the list), `SkipsAreBounded` (`SkipsOnlyForCached`) and `RepeatsAreBounded`
(`RepeatsOnlyForMoved`). Neither of the last two is inductive: a page that is under way brings what it was cut out of when
the server answered, to a list that has changed meanwhile. `OnTheWay` follows it. `Missing(base, shown, r)` counts the rows
among the first `r` that the list does not have. For a page asked for at offset `o`, and answered from rows that had moved by `d`, no
more than `extra` are missing before its start, `o - d`; and what `extra` leaves there covers by how much the list has become longer
than `o` since, less what bookings have moved meanwhile (`StartsRight`). The page has every row from its start to its end
(`Page`). When it arrives, what is missing up to the new offset is what was missing before its start
and what lies behind its end (`MissingAfter`). What is repeated follows by counting the other way round: a list shows all of the first
rows that it does not miss (`ShownCount`).

The saves have their own part. `Requested` follows a sync or a refresh from await to await: what it will show is the page it was
answered with, and everything of that page is in its list (`Right`), whatever becomes of the box meanwhile. A creation makes the
box the list; it may bring in a page that is saved and not yet shown, and whatever else the list does not have. `CreatedCounted` shows
that the offset moves by no more than the entries that `extra` counts for it, so that a page which is under way finds `StartsRight` still true, though it
may then show everything a second time.

`Only` is written as a recursive function rather than with `SelectSeq`, of which the proof system knows only the name; `OnlyFacts` says
what it keeps, by a least place where it would not (`Least`), as induction over data is out of reach.

### Only model-checked

- Liveness: `Drains`, `Answered`, `EverySessionEnds`, `BatchesEnd`, `ComesToRest`. The proof system has neither
  ENABLED nor fairness to offer.
- The three violated properties, of which TLC has the counterexample.

## Findings

Three, each with its run; the details are in `PROJECT.json`.

1. A WhatsApp edit turns an invalidated transaction into a corrected one (`batch_resurrects`).
2. A crash between commit and LPUSH leaves a message without a job for good (`ingest_gap`).
3. A transaction edited or created during a sync is deleted (`mobile_lost`).

The models behave in other ways a maintainer may not expect; no run is kept for these:

- The extraction of a candidate is not recorded in `parsing_meta` when another message of its batch flushed the
  session after it was scored: a revoke of the first loop (`job_handler.py:186`), a booking or the correction of an edit
  before its turn (394, 412; `RoutingLostOnlyBehindFlush`).
- A date that the LLM found for one message is booked for every later message with the same
  text, for 30 days, as long as it is in range (`extraction_cache.py:26`, `date_normalization.py`).
- A confidence that the LLM leaves out fails the schema, as the parser's default for it has
  another key than the alias; and items for a text that is no transaction, with nulls in them, fail it
  too: both go to review instead of being closed (`batch_response_parser.py`, `schemas/llm_extraction.py`).
- The list's next offset counts the entries that are pinned on top, which the server does not have:
  scrolling skips as many rows (`transaction_list_screen.dart:112`). A further page that fails is
  taken from the cache and may end the list; it shows the server's version of an entry that is pending;
  an entry edited from a list that has changed meanwhile overwrites another one's place. When the list has no such
  place any more (a `RangeError`), the entry is in the box only, and the next creation brings it into the list and
  moves the offset by one more (`transaction_list_screen.dart:375`, 400-401).
- A creation that returns while a further page is saved and not yet shown takes the page out of the cache, the page is then
  put at the end once more, and the offset counts it twice: a whole page is repeated and the next one skipped. One that returns while the box
  is cleared leaves the list empty but for what was put since (`transaction_list_screen.dart:398-401`, 203-204, `cache_service.dart:18-19`).
- Rows of one batch have the same `created_at`, and pages may order them differently.
- A request counted just after its window may start the key anew, and two windows meet: around a
  boundary twice the limit passes, and one more for each process (`rate_limiter.py:18-26`).
- The second message of a payload has the hash of the first and is taken for a duplicate
  (`webhook.py:151`, 174-176).
- Two corrections at once record the same old value in the trail (`transaction_crud.py:201`),
  so an entry need not begin where the one before it ended.
- A correction to the value that was loaded is reported and not made when the row has changed
  meanwhile (`transaction_crud.py:210`).
- With two operations under way on the phone, a sync that merged while an edit was
  pending puts it back, pending for good, after it was confirmed (`transaction_repository.dart:170`).

## Assumptions and what is left out

- One worker process and one web process, as `setup_windows_services.ps1` installs them.
  `ingest_concurrent`, `limiter` and the proofs go beyond that, but for three: `EffectsAtMostOnce`, `ActiveMirrorsBatch`
  and `AnsweredIsStored` do not hold beyond it and are checked and proved within it.
- What the constants are assumed to be is the `ASSUME` of each module, and TLC evaluates it in every run: mostly types. Those
  that say something of the world: a sender has a phone number (`IngestionAssumption`); later batches have later times of
  booking (`PagingAssumption`); an upsert names every column and a correction only amount and remarks (`LedgerAssumption`);
  a phone's own ids are not the server's (`CacheAssumption`).
- Redis and PostgreSQL do not lose what they have acknowledged.
- No clocks: timeouts happen at any time; the audit trail is kept in commit order, while the
  endpoint sorts it by `created_at`.
- A POST that the phone gives up waiting for is carried out then or never.
- Redis is nearby: a request is counted before the window after its own is over.
- The clocks of the processes agree.

Not modelled, and why: regular expressions, prompts, JSON syntax and formatting (text, not control);
filters of queries and the CSV export (read-only SQL); the IP filter, tokens and signatures (a request
passes or not, no state); migrations and scripts (run by hand); backoff (`min(2^(n-1), 60)` seconds: any delay
is allowed instead); unused modules (`workers/batch_queue.py`, `ai/ai_parser.py`, `ai/response_validator.py`).

## Plan

Done: `JobQueue`, `AtLeastOnce`, `BatchProcessing`, `Extraction`, `ExtractionContract`, `Ingestion`, `RateLimiter`,
`Ledger`, `MobileCache`, `Paging`, and proofs of every safety property that their runs check.

Left: `Pipeline`, that is `Ingestion`, `JobQueue` and `BatchProcessing` composed, end to end: an answered message is
booked, reviewed, closed or dead-lettered, once.
