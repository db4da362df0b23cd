-------------------------------- MODULE Paging --------------------------------
(***************************************************************************)
(* The list of transactions on the phone, which grows by pages:            *)
(* transaction_list_screen.dart over transaction_repository.dart, and the  *)
(* pages of GET /transactions (api/transactions.py, crud/                  *)
(* transaction_crud.py).                                                   *)
(*                                                                         *)
(* The server's rows are numbered in the order they were booked.  It sorts *)
(* by created_at, newest first; created_at is the time at which a batch's  *)
(* database transaction began, so that the rows of a batch have the same,  *)
(* and PostgreSQL may return them in another order for every query.  Rows  *)
(* are never deleted.  Transactions created on the phone are the numbers   *)
(* -1, -2, ...                                                             *)
(*                                                                         *)
(* An operation runs alone between two awaits, and anything else may run   *)
(* at one: while a page is on its way, while the box is cleared, before    *)
(* putAll and before the list is set.  The box shows a put and a putAll at *)
(* once, a clear when it is on disk.                                       *)
(***************************************************************************)
EXTENDS Integers, FiniteSets, SequencesExt

CONSTANTS
    Batch,        \* the batch each row is booked in: created_at, a sequence
    Limit,        \* _limit
    Cached,       \* all ids by date, newest first, as the cache sorts them
    None,
    MaxCreations, \* bound: transactions created on the phone
    MaxRefreshes, \* bound: lists pulled down
    MaxStarts,    \* bound: starts of the app after the first
    MaxVisits,    \* bound: entries tapped
    MaxEdits      \* bound: reviews submitted

ASSUME PagingAssumption ==
    /\ Batch \in Seq(Nat)
    /\ \A r, s \in DOMAIN Batch : r <= s => Batch[r] <= Batch[s]
    /\ Limit \in Nat \ {0}
    /\ MaxCreations \in Nat
    /\ Cached \in Seq(Int) /\ IsInjective(Cached)
    /\ Range(Cached) = (-MaxCreations .. Len(Batch)) \ {0}
    /\ MaxRefreshes \in Nat /\ MaxStarts \in Nat
    /\ MaxVisits \in Nat /\ MaxEdits \in Nat

VARIABLES
    booked,         \* the server has the rows 1 .. booked
    cache,          \* the Hive box
    shown,          \* _transactions
    offset, hasMore, isLoading, isSyncing, isFetchingMore,
    failed,         \* _errorMessage is set
    request,        \* where each task is, and what it has asked for
    opened,         \* the entry whose screen covers the list, and its index
    details,        \* requests for one entry under way, and for what
    spent,          \* how much of each bound is used
    base,           \* history: the server's order when the list was last new
    extra,          \* history: entries that came from the cache, ahead of
                    \*   the page that has them if there is one
    clean           \* history: see ArriveNew, Answer, FailMore, Created, Close

screen == <<shown, offset, hasMore, isLoading, isSyncing, isFetchingMore, failed>>
flags == <<isLoading, isSyncing, isFetchingMore, failed>>
history == <<base, extra, clean>>
vars == <<booked, cache, screen, request, opened, details, spent, history>>

-----------------------------------------------------------------------------
Rows == DOMAIN Batch
Ids == Range(Cached)

\* syncTransactions in the background, on a pull, and fetchTransactions.
Tasks == {"sync", "refresh", "more"}

Entries == [id : Ids, pending : BOOLEAN]

Empty == [id \in Ids |-> "absent"]

\* A task asks for a page, merges it, has the box cleared, puts its list
\* there and shows the page.
Stages == {"none", "sent", "answered", "clear", "save", "show"}

Requests == [at : Stages, offset : Nat, rows : Seq(Rows), order : Seq(Rows),
             list : Seq(Entries)]

Nothing == [at |-> "none", offset |-> 0, rows |-> <<>>, order |-> <<>>, list |-> <<>>]

Events == {"creations", "refreshes", "starts", "visits", "edits"}

Ask(from) == [Nothing EXCEPT !.at = "sent", !.offset = from]

TypeOK ==
    /\ booked \in 0 .. Len(Batch)
    /\ cache \in [Ids -> {"absent", "synced", "pending"}]
    /\ shown \in Seq(Entries)
    /\ offset \in Nat
    /\ hasMore \in BOOLEAN /\ isLoading \in BOOLEAN /\ isSyncing \in BOOLEAN
    /\ isFetchingMore \in BOOLEAN /\ failed \in BOOLEAN
    /\ request \in [Tasks -> Requests]
    /\ opened = None \/ opened \in [index : Nat, id : Ids]
    /\ details \in SUBSET (Rows \X {"fetch", "review"})
    /\ spent \in [Events -> Nat]
    /\ base \in Seq(Rows) /\ extra \in Nat /\ clean \in BOOLEAN

\* A batch is booked as a whole.
Whole(n) == n = Len(Batch) \/ n = 0 \/ Batch[n] # Batch[n + 1]

Init ==
    /\ booked \in {n \in 0 .. Len(Batch) : Whole(n)}
    /\ cache = Empty
    /\ shown = <<>> /\ offset = 0 /\ hasMore = TRUE
    /\ isLoading = TRUE /\ isSyncing = TRUE
    /\ isFetchingMore = FALSE /\ failed = FALSE
    /\ request = [t \in Tasks |-> IF t = "sync" THEN Ask(0) ELSE Nothing]
    /\ opened = None /\ details = {}
    /\ spent = [e \in Events |-> 0]
    /\ base = <<>> /\ extra = 0 /\ clean = FALSE

-----------------------------------------------------------------------------
\* The orders in which the server may return n rows: by created_at,
\* descending.
OrdersOf ==
    [n \in 0 .. Len(Batch) |->
        {s \in [1 .. n -> 1 .. n] :
           \A i, j \in 1 .. n : i < j => s[i] # s[j] /\ Batch[s[i]] >= Batch[s[j]]}]

Smaller(a, b) == IF a < b THEN a ELSE b

\* Limit entries of a sequence, from an offset on.
Slice(seq, from) == SubSeq(seq, from + 1, Smaller(from + Limit, Len(seq)))

\* What a sequence has of a set, in its order; a function, so that it can be
\* reasoned about.
Only(seq, set) ==
    LET kept[i \in 0 .. Len(seq)] ==
          IF i = 0 THEN <<>>
          ELSE IF seq[i] \in set THEN Append(kept[i - 1], seq[i]) ELSE kept[i - 1]
    IN kept[Len(seq)]

Entry(id, pending) == [id |-> id, pending |-> pending]

\* getTransactions of the cache service.
CacheList(box) ==
    LET kept == Only(Cached, {id \in Ids : box[id] # "absent"})
    IN [i \in DOMAIN kept |-> Entry(kept[i], box[kept[i]] = "pending")]

Spend(what, bound) ==
    /\ spent[what] < bound
    /\ spent' = [spent EXCEPT ![what] = @ + 1]

Send(t, from) == request' = [request EXCEPT ![t] = Ask(from)]

Over(t) == request' = [request EXCEPT ![t] = Nothing]

\* Mutant: the offset is not set again.
Replace_KeepsOffset(list) == shown' = list /\ UNCHANGED offset

ShownIds == {e.id : e \in Range(shown)}

\* The list becomes another one; _hasMore is not always part of it.
Replace(list) == shown' = list /\ offset' = Len(list)

-----------------------------------------------------------------------------
(* The worker commits a batch. *)
Book ==
    /\ booked < Len(Batch)
    /\ booked' = CHOOSE n \in booked + 1 .. Len(Batch) :
                     Whole(n) /\ \A k \in booked + 1 .. n - 1 : ~Whole(k)
    /\ UNCHANGED <<cache, screen, request, opened, details, spent, history>>

(* _fetchTransactions, from the cache: what there is is shown at once.      *)
FromCache(box) ==
    LET list == CacheList(box) IN
    IF list # <<>>
    THEN /\ Replace(list)
         /\ hasMore' = (Len(list) >= Limit)
         /\ isLoading' = FALSE
    ELSE /\ shown' = <<>> /\ offset' = 0 /\ hasMore' = TRUE
         /\ isLoading' = TRUE

(* The app is closed or killed, and started again; a save that was under    *)
(* way may have left the box empty on disk.                                 *)
Restart ==
    /\ Spend("starts", MaxStarts)
    /\ \/ cache' = cache
       \/ /\ \E t \in Tasks : request[t].at \in {"clear", "save", "show"}
          /\ cache' = Empty
    /\ FromCache(cache')
    /\ isSyncing' = TRUE /\ isFetchingMore' = FALSE /\ failed' = FALSE
    /\ request' = [t \in Tasks |-> IF t = "sync" THEN Ask(0) ELSE Nothing]
    /\ opened' = None /\ details' = {}
    /\ clean' = FALSE
    /\ UNCHANGED <<booked, base, extra>>

(* The retry button of an empty list with an error.  A sync that is under   *)
(* way is not started twice.                                                *)
Retry ==
    /\ opened = None
    /\ failed /\ shown = <<>> /\ ~isLoading
    /\ ~isSyncing
    /\ Spend("refreshes", MaxRefreshes)
    /\ LET list == CacheList(cache) IN
         IF list # <<>>
         THEN /\ Replace(list)
              /\ hasMore' = (Len(list) >= Limit)
              /\ UNCHANGED isLoading
         ELSE /\ isLoading' = TRUE
              /\ UNCHANGED <<shown, offset, hasMore>>
    /\ failed' = FALSE /\ isSyncing' = TRUE
    /\ Send("sync", 0)
    /\ clean' = FALSE
    /\ UNCHANGED <<booked, cache, isFetchingMore, opened, details, base, extra>>

(* _refreshTransactions does not set _isSyncing. *)
Refresh ==
    /\ opened = None
    /\ ~isSyncing
    /\ request["refresh"].at = "none"
    /\ Spend("refreshes", MaxRefreshes)
    /\ failed' = FALSE
    /\ Send("refresh", 0)
    /\ UNCHANGED <<booked, cache, shown, offset, hasMore, isLoading, isSyncing,
                   isFetchingMore, opened, details, history>>

\* Rows booked since the list was new: the pages have moved by as many.
Moved == booked - Len(base)

(* The server answers with a page of the rows as they stand.  Those booked  *)
(* since the list was new come before those it had.                         *)
Answer(t) ==
    /\ request[t].at = "sent"
    /\ \E order \in OrdersOf[booked] :
         /\ request' = [request EXCEPT
               ![t] = [@ EXCEPT !.at = "answered",
                                !.rows = Slice(order, request[t].offset),
                                !.order = IF t = "more" THEN <<>> ELSE order]]
         /\ clean' = (clean /\ (t = "more" =>
                         SubSeq(order, Moved + 1, booked) = base))
    /\ UNCHANGED <<booked, cache, screen, opened, details, spent, base, extra>>

-----------------------------------------------------------------------------
\* The pending entries of the cache that are not in the page.
Pinned(rows) == Only(Cached, {id \in Ids \ Range(rows) : cache[id] = "pending"})

EntriesOf(ids, pending) == [i \in DOMAIN ids |-> Entry(ids[i], pending)]

\* syncTransactions: what is pending on top, then the page.
Merged(rows) ==
    LET edited == {id \in Ids : cache[id] = "pending"}
    IN EntriesOf(Pinned(rows), TRUE)
         \o EntriesOf(Only(rows, edited), TRUE) \o EntriesOf(Only(rows, Ids \ edited), FALSE)

\* fetchTransactions: the page, where nothing is pending, and what is there;
\* in which order does not matter, as the box is all that is made of it.
Added(rows) ==
    CacheList([id \in Ids |-> IF id \in Range(rows) /\ cache[id] # "pending"
                              THEN "synced" ELSE cache[id]])

(* The page is merged with what the cache has now, and saveTransactions     *)
(* begins to clear the box; an empty further page is not saved.             *)
Merge(t) ==
    LET rows == request[t].rows IN
    /\ request[t].at = "answered"
    /\ request' = [request EXCEPT ![t] =
          IF t = "more" /\ rows = <<>> THEN [@ EXCEPT !.at = "show"]
          ELSE [@ EXCEPT !.at = "clear",
                         !.list = IF t = "more" THEN Added(rows) ELSE Merged(rows)]]
    /\ UNCHANGED <<booked, cache, screen, opened, details, spent, history>>

Move(t, from, to) ==
    /\ request[t].at = from
    /\ request' = [request EXCEPT ![t].at = to]

(* The clear is on disk, and the box is empty.  What was put there since    *)
(* the merge is gone.                                                       *)
Clear(t) ==
    /\ Move(t, "clear", "save")
    /\ cache' = Empty
    /\ UNCHANGED <<booked, screen, opened, details, spent, history>>

\* The box after putAll.
Saved(list) ==
    [id \in Ids |-> IF Entry(id, TRUE) \in Range(list) THEN "pending"
                    ELSE IF Entry(id, FALSE) \in Range(list) THEN "synced"
                    ELSE cache[id]]

PutAll(t) ==
    /\ Move(t, "save", "show")
    /\ cache' = Saved(request[t].list)
    /\ UNCHANGED <<booked, screen, opened, details, spent, history>>

\* What a background sync does in its finally, and its caller after it.
EndSync(t) == IF t = "sync" THEN isSyncing' = FALSE /\ isLoading' = FALSE
                            ELSE UNCHANGED <<isSyncing, isLoading>>

(* A sync or a refresh is saved: the list is replaced.  From here on the    *)
(* list is clean, unless a further page is still on its way.                *)
ArriveNew(t) ==
    /\ t # "more" /\ request[t].at = "show"
    /\ LET list == request[t].list IN
         /\ Replace(list)
         /\ hasMore' = (Len(list) >= Limit)
         /\ extra' = Len(list) - Len(request[t].rows)
    /\ failed' = (failed /\ t = "sync")
    /\ EndSync(t)
    /\ Over(t)
    /\ base' = request[t].order
    /\ clean' = ~isFetchingMore
    /\ UNCHANGED <<booked, cache, isFetchingMore, opened, details, spent>>

\* No answer comes, or none that can be read.
Unanswered(t) == request[t].at \in {"sent", "answered"}

(* Mutant: the flags are set back only by a sync that succeeds. *)
FailNew_NoFinally(t) ==
    /\ t # "more" /\ Unanswered(t)
    /\ failed' = (failed \/ shown = <<>>)
    /\ Over(t)
    /\ UNCHANGED <<booked, cache, shown, offset, hasMore, isLoading, isSyncing,
                   isFetchingMore, opened, details, spent, history>>

(* It fails: the list stays. *)
FailNew(t) ==
    /\ t # "more" /\ Unanswered(t)
    /\ failed' = (failed \/ shown = <<>>)
    /\ EndSync(t)
    /\ Over(t)
    /\ UNCHANGED <<booked, cache, shown, offset, hasMore, isFetchingMore,
                   opened, details, spent, history>>

-----------------------------------------------------------------------------
(* _fetchMoreTransactions: the user has scrolled to the end of the list ... *)
More ==
    /\ opened = None /\ shown # <<>>
    /\ ~isFetchingMore /\ hasMore /\ ~isLoading
    /\ isFetchingMore' = TRUE
    /\ Send("more", offset)
    /\ UNCHANGED <<booked, cache, shown, offset, hasMore, isLoading, isSyncing,
                   failed, opened, details, spent, history>>

\* Mutant: the offset does not move.
AddAll_KeepsOffset(results) ==
    /\ shown' = shown \o results
    /\ hasMore' = (Len(results) >= Limit)
    /\ isFetchingMore' = FALSE
    /\ Over("more")
    /\ UNCHANGED <<booked, cache, offset, isLoading, isSyncing, failed, opened,
                   details, spent, base, extra>>

\* What comes is put at the end.
AddAll(results) ==
    /\ shown' = shown \o results
    /\ offset' = offset + Len(results)
    /\ hasMore' = (Len(results) >= Limit)
    /\ isFetchingMore' = FALSE
    /\ Over("more")
    /\ UNCHANGED <<booked, cache, isLoading, isSyncing, failed, opened, details,
                   spent, base, extra>>

(* ... the page has been merged into the cache and is shown as the server   *)
(* has it ...                                                               *)
ArriveMore ==
    /\ request["more"].at = "show"
    /\ AddAll(EntriesOf(request["more"].rows, FALSE))
    /\ UNCHANGED clean

(* ... or fails, and a slice of the cache is taken for it. *)
FailMore ==
    /\ Unanswered("more")
    /\ AddAll(Slice(CacheList(cache), request["more"].offset))
    /\ clean' = FALSE

-----------------------------------------------------------------------------
(* A transaction is created in a screen that covers the list. *)
Create ==
    /\ opened = None
    /\ Spend("creations", MaxCreations)
    /\ LET new == -(spent["creations"] + 1) IN
         /\ cache' = [cache EXCEPT ![new] = "pending"]
         /\ opened' = [index |-> 0, id |-> new]
    /\ UNCHANGED <<booked, screen, request, details, history>>

(* When it is saved, the list becomes the cache, as it is by then, and      *)
(* _hasMore stays: a page that is saved and not yet shown comes with it,    *)
(* and a box that was cleared meanwhile leaves an entry out.  Nothing       *)
(* happens if the user has left the screen before.                          *)
Created ==
    /\ opened # None /\ opened.index = 0
    /\ opened' = None
    /\ \/ LET ids == {id \in Ids : cache[id] # "absent"} IN
          /\ Replace(CacheList(cache))
          /\ failed' = FALSE
          /\ extra' = extra + Cardinality(ids \ ShownIds)
          /\ clean' = (clean /\ ShownIds \subseteq ids)
          /\ UNCHANGED <<hasMore, isLoading, isSyncing, isFetchingMore>>
       \/ UNCHANGED <<screen, extra, clean>>
    /\ UNCHANGED <<booked, cache, request, details, spent, base>>

-----------------------------------------------------------------------------
\* Requests for an entry that the server has; for others they fail.
Fetch(id, what) == details' = details \cup ({<<id, what>>} \cap (Rows \X {what}))

(* An entry is tapped: its detail screen covers the list, and fetches it. *)
Open(i) ==
    /\ opened = None
    /\ Spend("visits", MaxVisits)
    /\ opened' = [index |-> i, id |-> shown[i].id]
    /\ Fetch(shown[i].id, "fetch")
    /\ UNCHANGED <<booked, cache, screen, request, history>>

(* reviewTransaction: a cached entry is changed before the server is asked. *)
Review ==
    /\ opened # None /\ opened.index # 0
    /\ Spend("edits", MaxEdits)
    /\ cache' = IF cache[opened.id] = "absent" THEN cache
                ELSE [cache EXCEPT ![opened.id] = "pending"]
    /\ Fetch(opened.id, "review")
    /\ UNCHANGED <<booked, screen, request, opened, history>>

(* The server answers, when the screen may be closed: the entry is put into *)
(* the box, by a fetch unless it is pending there; or the request fails.    *)
Detail(id, what) ==
    /\ <<id, what>> \in details
    /\ details' = details \ {<<id, what>>}
    /\ \/ cache' = [cache EXCEPT ![id] =
                       IF what = "fetch" /\ @ = "pending" THEN @ ELSE "synced"]
       \/ UNCHANGED cache
    /\ UNCHANGED <<booked, screen, request, opened, spent, history>>

(* Back on the list the entry is written where it was, if it is cached; an  *)
(* index the list no longer has raises a RangeError.  An entry that was     *)
(* elsewhere meanwhile overwrites another one.                              *)
Close ==
    LET i == opened.index  id == opened.id IN
    /\ opened # None /\ i # 0
    /\ opened' = None
    /\ IF cache[id] # "absent" /\ i \in DOMAIN shown
       THEN /\ shown' = [shown EXCEPT ![i] = Entry(id, cache[id] = "pending")]
            /\ clean' = (clean /\ shown[i].id = id)
       ELSE UNCHANGED <<shown, clean>>
    /\ UNCHANGED <<booked, cache, offset, hasMore, flags, request, details, spent,
                   base, extra>>

-----------------------------------------------------------------------------
Save(t) == Merge(t) \/ Clear(t) \/ PutAll(t)

Progress(t) == Answer(t) \/ Save(t) \/ ArriveNew(t) \/ FailNew(t)

ProgressMore == Answer("more") \/ Save("more") \/ ArriveMore \/ FailMore

Next ==
    \/ Book \/ Restart \/ Retry \/ Refresh
    \/ \E t \in Tasks \ {"more"} : Progress(t)
    \/ More \/ ProgressMore
    \/ Create \/ Created
    \/ (\E i \in DOMAIN shown : Open(i)) \/ Review \/ Close
    \/ \E d \in details : Detail(d[1], d[2])

Spec == Init /\ [][Next]_vars

(* A request is answered or times out after ten seconds (api_service.dart), *)
(* the user closes what covers the list, and scrolls while there is more.   *)
FairSpec ==
    /\ Spec
    /\ WF_vars(Progress("sync")) /\ WF_vars(Progress("refresh"))
    /\ WF_vars(ProgressMore)
    /\ WF_vars(Created) /\ WF_vars(Close) /\ WF_vars(More)

-----------------------------------------------------------------------------
(* Properties *)

(* Scrolling skips no row of the server but one for every entry that came   *)
(* into the list from the cache, ahead of its page or without one: pinned   *)
(* on top, created, or of a page that was saved and not yet shown when a    *)
(* creation read the cache (lines 79, 112, 204, 401: _offset counts it as   *)
(* if the server had sent it).  Of the rows up to the offset, and of all of *)
(* them once _hasMore is false, no more than that many are missing.  It is  *)
(* so for pages that shift while one scrolls and for creations, edits and   *)
(* details at any await, until an offline page, a page or an entry of a     *)
(* list that is no more, rows of one batch in another order, or a creation  *)
(* that finds the box cleared, come in.                                     *)
SkipsOnlyForCached ==
    clean =>
        LET reached == IF hasMore THEN Smaller(offset - Moved, Len(base)) ELSE Len(base)
        IN Cardinality(Range(SubSeq(base, 1, reached)) \ ShownIds) <= extra

(* As long, an entry is repeated only for a row booked meanwhile, which has *)
(* moved the pages, or for an entry that came from the cache and comes once *)
(* more with its page.                                                      *)
RepeatsOnlyForMoved ==
    clean => Len(shown) - Cardinality(ShownIds) <= Moved + extra

(* The list comes to rest: no spinner stays, no guard stays shut, and a     *)
(* user who keeps scrolling gets to the end, offline pages, refreshes and   *)
(* restarts included.                                                       *)
ComesToRest ==
    <>[](/\ ~isLoading /\ ~isSyncing /\ ~isFetchingMore
         /\ (~hasMore \/ shown = <<>>))
=============================================================================
