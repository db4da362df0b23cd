----------------------------- MODULE MobileCache -----------------------------
(***************************************************************************)
(* The mobile client's cache of transactions and its unconfirmed edits:    *)
(* src/transactions_mobile/lib/repositories/transaction_repository.dart    *)
(* over storage/cache_service.dart and services/api_service.dart.          *)
(*                                                                         *)
(* The app is one isolate: between two awaits an operation runs alone, at  *)
(* an await any other may run.  The screens start operations at any time.  *)
(* The Hive box shows a put or a putAll at once, and the model takes them  *)
(* to be on disk then; a clear shows only when its write to disk is done,  *)
(* so that it may be on disk before.  A POST the app gives up waiting for  *)
(* is carried out then or never.  A row of the server is its version, a    *)
(* number, and the keys of the box are model values.                       *)
(***************************************************************************)
EXTENDS Integers

CONSTANTS
    Ids,          \* transactions on the server
    FirstPage,    \* those syncTransactions asks for
    Creations,    \* transactions created on the phone
    Edits,        \* reviews the user submits
    Target,       \* [Edits -> Ids]
    Operations,   \* operations under way at the same time
    MaxRetries,   \* retries of the RetryInterceptor
    None,
    MaxVersion,   \* bound: version up to which others change a row
    MaxCrashes    \* bound: deaths of the app

ASSUME CacheAssumption ==
    /\ FirstPage \subseteq Ids
    /\ Ids \cap Creations = {} /\ Edits \cap Creations = {}
    /\ Target \in [Edits -> Ids]
    /\ None \notin Edits \cup Creations
    /\ MaxRetries \in Nat /\ MaxVersion \in Nat /\ MaxCrashes \in Nat

VARIABLES
    server,     \* version of each row on the server
    applied,    \* history: how often the server has applied an edit
    box,        \* the Hive box
    told,       \* history: what the user was told of an edit
    owed,       \* history: the last local change of a transaction that the
                \*   server has not confirmed
    kind,       \* what each operation is doing
    opc,        \* where it stands
    edit,       \* the edit of a review
    page,       \* what a request asks for
    answer,     \* the server's answer
    list,       \* the merged list saveTransactions was called with
    tries,      \* retries of the POST so far
    overlapped, \* history: two operations have been under way at once
    crashes

backend == <<server, applied>>
users == <<told, owed>>
locals == <<kind, opc, edit, page, answer, list, tries>>
vars == <<backend, box, users, locals, overlapped, crashes>>

-----------------------------------------------------------------------------
Keys == Ids \cup Creations

Changes == Edits \cup Creations

Absent == [version |-> -1, local |-> None]

\* A cached transaction; local is the change that makes it pending_local.
Cached == [version : Nat \cup {-1}, local : Changes \cup {None}]

Kinds == {"none", "sync", "more", "detail", "review"}

Places == {"idle", "request", "arrive", "clear", "save", "post"}

TypeOK ==
    /\ server \in [Ids -> Nat]
    /\ applied \in [Edits -> 0 .. MaxRetries + 1]
    /\ box \in [Keys -> Cached]
    /\ told \in [Edits -> {"nothing", "saving", "updated", "kept"}]
    /\ owed \in [Keys -> Changes \cup {None}]
    /\ kind \in [Operations -> Kinds]
    /\ opc \in [Operations -> Places]
    /\ edit \in [Operations -> Edits \cup {None}]
    /\ page \in [Operations -> SUBSET Ids]
    /\ answer \in [Operations -> [Ids -> Cached]]
    /\ list \in [Operations -> [Keys -> Cached]]
    /\ tries \in [Operations -> 0 .. MaxRetries]
    /\ overlapped \in BOOLEAN
    /\ crashes \in Nat

Init ==
    /\ server = [i \in Ids |-> 0]
    /\ applied = [e \in Edits |-> 0]
    /\ box = [k \in Keys |-> Absent]
    /\ told = [e \in Edits |-> "nothing"]
    /\ owed = [k \in Keys |-> None]
    /\ kind = [o \in Operations |-> "none"]
    /\ opc = [o \in Operations |-> "idle"]
    /\ edit = [o \in Operations |-> None]
    /\ page = [o \in Operations |-> {}]
    /\ answer = [o \in Operations |-> [i \in Ids |-> Absent]]
    /\ list = [o \in Operations |-> [k \in Keys |-> Absent]]
    /\ tries = [o \in Operations |-> 0]
    /\ overlapped = FALSE
    /\ crashes = 0

-----------------------------------------------------------------------------
At(o, place) == opc[o] = place

Goto(o, place) == opc' = [opc EXCEPT ![o] = place]

Pending(entry) == entry.local # None

\* The operation is over.
Done(o) ==
    /\ Goto(o, "idle")
    /\ kind' = [kind EXCEPT ![o] = "none"]
    /\ edit' = [edit EXCEPT ![o] = None]
    /\ page' = [page EXCEPT ![o] = {}]
    /\ answer' = [answer EXCEPT ![o] = [i \in Ids |-> Absent]]
    /\ list' = [list EXCEPT ![o] = [k \in Keys |-> Absent]]
    /\ tries' = [tries EXCEPT ![o] = 0]

-----------------------------------------------------------------------------
\* An operation starts, perhaps while others wait.
Begin(o) ==
    /\ At(o, "idle")
    /\ overlapped' = (overlapped \/ \E q \in Operations : ~At(q, "idle"))

Ask(o, what, ids) ==
    /\ Goto(o, "request")
    /\ kind' = [kind EXCEPT ![o] = what]
    /\ page' = [page EXCEPT ![o] = ids]

(* syncTransactions, fetchTransactions and fetchTransaction send a GET. *)
Start(o) ==
    /\ Begin(o)
    /\ \/ Ask(o, "sync", FirstPage)
       \/ Ask(o, "more", Ids \ FirstPage)
       \/ \E i \in Ids : Ask(o, "detail", {i})
    /\ UNCHANGED <<backend, box, users, edit, answer, list, tries, crashes>>

(* The server answers with the rows as they stand. *)
Respond(o) ==
    /\ At(o, "request")
    /\ answer' = [answer EXCEPT ![o] =
          [i \in Ids |-> IF i \in page[o]
                         THEN [version |-> server[i], local |-> None] ELSE Absent]]
    /\ Goto(o, "arrive")
    /\ UNCHANGED <<backend, box, users, kind, edit, page, list, tries, overlapped, crashes>>

(* The GET fails, retries and all.  A review keeps its optimistic update.   *)
NoAnswer(o) ==
    /\ opc[o] \in {"request", "arrive"}
    /\ Done(o)
    /\ told' = IF kind[o] = "review" THEN [told EXCEPT ![edit[o]] = "kept"] ELSE told
    /\ UNCHANGED <<backend, box, owed, overlapped, crashes>>

\* Mutant: an answer replaces a pending entry.
Resolve_ServerWins(o, k) == answer[o][k]

\* A key the answer has: the pending entry stays.
Resolve(o, k) == IF Pending(box[k]) THEN box[k] ELSE answer[o][k]

\* Mutant: only what the server has is kept, not what is created here.
Merged_NoCreations(o) ==
    [k \in Keys |-> CASE k \in page[o] -> Resolve(o, k)
                      [] k \notin page[o] /\ kind[o] = "more" -> box[k]
                      [] OTHER -> Absent]

\* The page over the cache or, for a sync, over the pending entries alone.
Merged(o) ==
    [k \in Keys |-> CASE k \in page[o] -> Resolve(o, k)
                      [] k \notin page[o] /\ (kind[o] = "more" \/ Pending(box[k])) -> box[k]
                      [] OTHER -> Absent]

(* The answer arrives: the cache is read and merged, and the clear begins.  *)
(* Nothing is saved for an empty further page.                              *)
Merge(o) ==
    /\ At(o, "arrive") /\ kind[o] \in {"sync", "more"}
    /\ IF kind[o] = "more" /\ page[o] = {}
       THEN Done(o)
       ELSE /\ list' = [list EXCEPT ![o] = Merged(o)]
            /\ Goto(o, "clear")
            /\ UNCHANGED <<kind, edit, page, answer, tries>>
    /\ UNCHANGED <<backend, box, users, overlapped, crashes>>

(* saveTransactions: clear ... *)
Clear(o) ==
    /\ At(o, "clear")
    /\ box' = [k \in Keys |-> Absent]
    /\ Goto(o, "save")
    /\ UNCHANGED <<backend, users, kind, edit, page, answer, list, tries, overlapped, crashes>>

(* ... then putAll. *)
PutAll(o) ==
    /\ At(o, "save")
    /\ box' = [k \in Keys |-> IF list[o][k] # Absent THEN list[o][k] ELSE box[k]]
    /\ Done(o)
    /\ UNCHANGED <<backend, users, overlapped, crashes>>

(* fetchTransaction's answer: put, unless the entry is pending. *)
ShowDetail(o) ==
    /\ At(o, "arrive") /\ kind[o] = "detail"
    /\ box' = [k \in Keys |-> IF k \in page[o] THEN Resolve(o, k) ELSE box[k]]
    /\ Done(o)
    /\ UNCHANGED <<backend, users, overlapped, crashes>>

-----------------------------------------------------------------------------
(* reviewTransaction: the optimistic update of a cached transaction ... *)
Review(o, e) ==
    /\ Begin(o)
    /\ told[e] = "nothing"
    /\ told' = [told EXCEPT ![e] = "saving"]
    /\ IF box[Target[e]] = Absent THEN UNCHANGED <<box, owed>>
       ELSE /\ box' = [box EXCEPT ![Target[e]].local = e]
            /\ owed' = [owed EXCEPT ![Target[e]] = e]
    /\ Goto(o, "post")
    /\ kind' = [kind EXCEPT ![o] = "review"]
    /\ edit' = [edit EXCEPT ![o] = e]
    /\ UNCHANGED <<backend, page, answer, list, tries, crashes>>

\* The server carries out the POST.
Apply(e) ==
    /\ applied' = [applied EXCEPT ![e] = @ + 1]
    /\ server' = [server EXCEPT ![Target[e]] = @ + 1]

(* ... the POST, and after it a GET of the row ... *)
Post(o) ==
    /\ At(o, "post")
    /\ Apply(edit[o])
    /\ Goto(o, "request")
    /\ page' = [page EXCEPT ![o] = {Target[edit[o]]}]
    /\ UNCHANGED <<box, users, kind, edit, answer, list, tries, overlapped, crashes>>

\* Mutant: the error of the last retry is swallowed and the GET is sent.
PostFails_Swallowed(o) ==
    /\ At(o, "post") /\ tries[o] = MaxRetries
    /\ Goto(o, "request")
    /\ page' = [page EXCEPT ![o] = {Target[edit[o]]}]
    /\ UNCHANGED <<backend, box, users, kind, edit, answer, list, tries, overlapped, crashes>>

(* The POST or its answer is lost, or the server fails; it may have carried *)
(* out the request all the same.  The interceptor sends it again ...        *)
PostAgain(o) ==
    /\ At(o, "post") /\ tries[o] < MaxRetries
    /\ tries' = [tries EXCEPT ![o] = @ + 1]
    /\ Apply(edit[o]) \/ UNCHANGED backend
    /\ UNCHANGED <<box, users, kind, opc, edit, page, answer, list, overlapped, crashes>>

(* ... and after the last retry, or at once when the server refuses (4xx),  *)
(* the user is told that the changes are saved locally.                     *)
PostFails(o) ==
    /\ At(o, "post")
    /\ \/ tries[o] = MaxRetries /\ Apply(edit[o])
       \/ UNCHANGED backend
    /\ told' = [told EXCEPT ![edit[o]] = "kept"]
    /\ Done(o)
    /\ UNCHANGED <<box, owed, overlapped, crashes>>

\* Mutant: the row is put as fetchTransaction would, unless it is pending.
Unlocked_Resolved(o, i) == Resolve(o, i)

\* What is put for the row of a confirmed edit.
Unlocked(o, i) == answer[o][i]

(* ... whose answer replaces the pending entry. *)
Confirm(o) ==
    /\ At(o, "arrive") /\ kind[o] = "review"
    /\ LET i == Target[edit[o]] IN
         /\ box' = [box EXCEPT ![i] = Unlocked(o, i)]
         /\ owed' = [owed EXCEPT ![i] = IF @ = edit[o] THEN None ELSE @]
         /\ told' = [told EXCEPT ![edit[o]] = "updated"]
    /\ Done(o)
    /\ UNCHANGED <<backend, overlapped, crashes>>

(* createTransaction: a pending entry, which is never sent. *)
Create(c) ==
    /\ owed[c] = None
    /\ overlapped' = (overlapped \/ \E o \in Operations : ~At(o, "idle"))
    /\ owed' = [owed EXCEPT ![c] = c]
    /\ box' = [box EXCEPT ![c] = [version |-> 0, local |-> c]]
    /\ UNCHANGED <<backend, told, locals, crashes>>

(* The worker or another client changes a row. *)
ServerChange(i) ==
    /\ server[i] < MaxVersion
    /\ server' = [server EXCEPT ![i] = @ + 1]
    /\ UNCHANGED <<applied, box, users, locals, overlapped, crashes>>

(* The app dies.  A clear that had begun may have reached the disk. *)
Crash ==
    /\ crashes < MaxCrashes
    /\ crashes' = crashes + 1
    /\ \/ UNCHANGED box
       \/ /\ \E o \in Operations : At(o, "clear")
          /\ box' = [k \in Keys |-> Absent]
    /\ told' = [e \in Edits |-> IF told[e] = "saving" THEN "kept" ELSE told[e]]
    /\ kind' = [o \in Operations |-> "none"]
    /\ opc' = [o \in Operations |-> "idle"]
    /\ edit' = [o \in Operations |-> None]
    /\ page' = [o \in Operations |-> {}]
    /\ answer' = [o \in Operations |-> [i \in Ids |-> Absent]]
    /\ list' = [o \in Operations |-> [k \in Keys |-> Absent]]
    /\ tries' = [o \in Operations |-> 0]
    /\ UNCHANGED <<backend, owed, overlapped>>

-----------------------------------------------------------------------------
Next ==
    \/ \E o \in Operations :
         \/ Start(o) \/ Respond(o) \/ NoAnswer(o)
         \/ Merge(o) \/ Clear(o) \/ PutAll(o) \/ ShowDetail(o)
         \/ \E e \in Edits : Review(o, e)
         \/ Post(o) \/ PostAgain(o) \/ PostFails(o) \/ Confirm(o)
    \/ \E c \in Creations : Create(c)
    \/ \E i \in Ids : ServerChange(i)
    \/ Crash

Spec == Init /\ [][Next]_vars

-----------------------------------------------------------------------------
(* Properties *)

\* The change is in the box, or in the list that is about to be put there.
Kept(k, change) ==
    \/ box[k].local = change
    \/ \E o \in Operations : At(o, "save") /\ list[o][k].local = change

(* Whatever the app fetches, an unconfirmed local change stays in the cache *)
(* until it is confirmed or replaced by a later one: what                   *)
(* transaction_repository.dart:30 and :67 say, "preserve them".             *)
LocalChangesKept == \A k \in Keys : owed[k] # None => Kept(k, owed[k])

(* That much is so while operations have not overlapped and the app has not *)
(* died, whatever page is fetched in whatever order and however a POST      *)
(* ends.                                                                    *)
SerialChangesKept == ~overlapped /\ crashes = 0 => LocalChangesKept

(* A confirmed edit does not come back as pending: the GET after the POST   *)
(* is there "to clear the pending_local lock",                              *)
(* transaction_repository.dart:168.  It is so while operations have not     *)
(* overlapped.                                                              *)
LockStaysCleared ==
    ~overlapped =>
        \A e \in Edits : told[e] = "updated" => \A k \in Keys : box[k].local # e

(* No merge overwrites or forgets a pending entry it finds, whatever page   *)
(* the server sends and whatever else is going on.                          *)
MergeKeepsPending ==
    [][\A o \in Operations : At(o, "arrive") /\ opc'[o] = "clear" =>
         \A k \in Keys : Pending(box[k]) => list'[o][k] = box[k]]_vars

(* The user is told that an edit has been made only if the server made it,  *)
(* and the cache then shows it: the row is read after the POST, retries     *)
(* included.                                                                *)
SuccessIsShown ==
    [][\A e \in Edits : told[e] = "saving" /\ told'[e] = "updated" =>
         applied[e] > 0 /\ box'[Target[e]].version >= applied[e]]_vars
=============================================================================
