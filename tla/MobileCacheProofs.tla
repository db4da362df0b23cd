------------------------- MODULE MobileCacheProofs -------------------------
(***************************************************************************)
(* What the phone's cache keeps and shows, for any transactions, edits,    *)
(* creations, retries, pages and deaths of the app.                        *)
(*                                                                         *)
(* Two of the four properties hold however operations overlap: a merge     *)
(* reads the box without an await, and an edit is in one review only, so   *)
(* that nobody else can make its row any older than its POST.  The other   *)
(* two are about operations one after the other; their proof follows a     *)
(* pending entry through the merged list while the box is empty.           *)
(***************************************************************************)
EXTENDS MobileCache, TLAPS

-----------------------------------------------------------------------------
(* The inductive invariant *)

\* While nothing has overlapped one operation at most is under way.
Serial ==
    ~overlapped =>
        \A o, q \in Operations : o # q => At(o, "idle") \/ At(q, "idle")

\* A review has its edit to itself until the user is told.
OneReview ==
    \A o \in Operations : kind[o] = "review" =>
        /\ edit[o] \in Edits /\ told[edit[o]] = "saving"
        /\ \A q \in Operations \ {o} : kind[q] = "review" => edit[q] # edit[o]

\* A review posts, and then reads the row that the POST has changed.
ReviewPosts ==
    \A o \in Operations :
        /\ At(o, "post") => kind[o] = "review"
        /\ kind[o] = "review" => opc[o] \in {"post", "request", "arrive"}
        /\ kind[o] = "review" /\ opc[o] \in {"request", "arrive"} =>
             page[o] = {Target[edit[o]]} /\ applied[edit[o]] > 0

\* An edit is applied once for each time its POST is sent.
AppliedTried ==
    /\ \A e \in Edits : told[e] = "nothing" => applied[e] = 0
    /\ \A o \in Operations : At(o, "post") => applied[edit[o]] <= tries[o]

\* Every application of an edit has made a version of the row.
AppliedVersions == \A e \in Edits : applied[e] <= server[Target[e]]

\* The row a review reads is no older than its edit.
AnswerIsNew ==
    \A o \in Operations : kind[o] = "review" /\ At(o, "arrive") =>
        answer[o][Target[edit[o]]].version >= applied[edit[o]]

\* The server's rows are not pending.
AnswersClean ==
    \A o \in Operations : \A i \in Ids : answer[o][i].local = None

\* An edit is pending at the transaction it is about.
EditsInPlace ==
    \A k \in Keys : \A e \in Edits :
        /\ box[k].local = e => k = Target[e]
        /\ \A o \in Operations : list[o][k].local = e => k = Target[e]

\* A list about to replace the box.
Saving(o) == opc[o] \in {"clear", "save"}

\* Whatever is owed is in the box, or in the list that will be put there.
OwedKept ==
    ~overlapped /\ crashes = 0 =>
        \A k \in Keys : owed[k] # None =>
            /\ \A o \in Operations : Saving(o) => list[o][k].local = owed[k]
            /\ (\A o \in Operations : ~At(o, "save")) => box[k].local = owed[k]

\* A review confirms the change that is owed of its transaction.
OwedReviewed ==
    ~overlapped /\ crashes = 0 =>
        \A o \in Operations : kind[o] = "review" =>
            owed[Target[edit[o]]] \in {None, edit[o]}

\* A confirmed edit is pending nowhere.
ConfirmedCleared ==
    ~overlapped =>
        \A e \in Edits : told[e] = "updated" => \A k \in Keys :
            /\ box[k].local # e
            /\ \A o \in Operations : Saving(o) => list[o][k].local # e

IInv ==
    /\ TypeOK
    /\ Serial /\ OneReview /\ ReviewPosts
    /\ AppliedTried /\ AppliedVersions /\ AnswerIsNew
    /\ AnswersClean /\ EditsInPlace
    /\ OwedKept /\ OwedReviewed /\ ConfirmedCleared
-----------------------------------------------------------------------------
(* What a step does to the operations *)

\* An operation that a step leaves where it is.
Same(q) ==
    /\ kind'[q] = kind[q] /\ opc'[q] = opc[q] /\ edit'[q] = edit[q]
    /\ page'[q] = page[q] /\ answer'[q] = answer[q] /\ list'[q] = list[q]
    /\ tries'[q] = tries[q]

\* An operation that is over.
Over(q) ==
    /\ kind'[q] = "none" /\ opc'[q] = "idle" /\ edit'[q] = None
    /\ page'[q] = {} /\ answer'[q] = [i \in Ids |-> Absent]
    /\ list'[q] = [k \in Keys |-> Absent] /\ tries'[q] = 0

Others(o) == \A q \in Operations \ {o} : Same(q)

LocalsTyped ==
    /\ kind \in [Operations -> Kinds]
    /\ opc \in [Operations -> Places]
    /\ edit \in [Operations -> Edits \cup {None}]
    /\ page \in [Operations -> SUBSET Ids]
    /\ answer \in [Operations -> [Ids -> Cached]]
    /\ list \in [Operations -> [Keys -> Cached]]
    /\ tries \in [Operations -> 0 .. MaxRetries]

LEMMA LocalTypes == TypeOK => LocalsTyped
BY DEF TypeOK, LocalsTyped

LEMMA AbsentCached ==
    /\ Absent \in Cached
    /\ Absent.version = -1 /\ Absent.local = None
    /\ [i \in Ids |-> Absent] \in [Ids -> Cached]
    /\ [k \in Keys |-> Absent] \in [Keys -> Cached]
BY DEF Absent, Cached

LEMMA DoneEffect ==
    ASSUME LocalsTyped, NEW o \in Operations, Done(o)
    PROVE  Over(o) /\ Others(o) /\ LocalsTyped'
<1>1. Over(o)
  BY DEF Done, Goto, Over, LocalsTyped
<1>2. Others(o)
  BY DEF Done, Goto, Others, Same, LocalsTyped
<1>3. LocalsTyped'
  <2>1. kind' \in [Operations -> Kinds] /\ opc' \in [Operations -> Places]
    BY DEF Done, Goto, LocalsTyped, Kinds, Places
  <2>2. edit' \in [Operations -> Edits \cup {None}]
        /\ page' \in [Operations -> SUBSET Ids]
    BY DEF Done, LocalsTyped
  <2>3. answer' \in [Operations -> [Ids -> Cached]]
        /\ list' \in [Operations -> [Keys -> Cached]]
    BY AbsentCached DEF Done, LocalsTyped
  <2>4. tries' \in [Operations -> 0 .. MaxRetries]
    BY CacheAssumption DEF Done, LocalsTyped
  <2> QED
    BY <2>1, <2>2, <2>3, <2>4 DEF LocalsTyped
<1> QED
  BY <1>1, <1>2, <1>3

LEMMA StartEffect ==
    ASSUME LocalsTyped, NEW o \in Operations, Start(o)
    PROVE  /\ At(o, "idle") /\ opc'[o] = "request"
           /\ kind'[o] \in {"sync", "more", "detail"}
           /\ list'[o] = list[o] /\ answer'[o] = answer[o]
           /\ Others(o) /\ LocalsTyped'
<1>1. PICK what \in {"sync", "more", "detail"}, ids \in SUBSET Ids :
        Ask(o, what, ids)
  BY CacheAssumption DEF Start
<1>2. /\ opc' = [opc EXCEPT ![o] = "request"]
      /\ kind' = [kind EXCEPT ![o] = what]
      /\ page' = [page EXCEPT ![o] = ids]
      /\ UNCHANGED <<edit, answer, list, tries>>
  BY <1>1 DEF Ask, Goto, Start
<1>3. LocalsTyped'
  BY <1>2 DEF LocalsTyped, Kinds, Places
<1>4. opc'[o] = "request" /\ kind'[o] = what /\ Others(o)
  BY <1>2 DEF LocalsTyped, Others, Same
<1> QED
  BY <1>2, <1>3, <1>4 DEF Start, Begin

LEMMA RespondEffect ==
    ASSUME TypeOK, NEW o \in Operations, Respond(o)
    PROVE  /\ At(o, "request") /\ opc'[o] = "arrive"
           /\ kind'[o] = kind[o] /\ edit'[o] = edit[o] /\ page'[o] = page[o]
           /\ list'[o] = list[o]
           /\ \A i \in page[o] : answer'[o][i].version = server[i]
           /\ \A i \in Ids : answer'[o][i].local = None
           /\ Others(o) /\ LocalsTyped'
<1> DEFINE a == [i \in Ids |-> IF i \in page[o]
                  THEN [version |-> server[i], local |-> None] ELSE Absent]
<1>1. /\ opc' = [opc EXCEPT ![o] = "arrive"] /\ At(o, "request")
      /\ answer' = [answer EXCEPT ![o] = a]
      /\ UNCHANGED <<kind, edit, page, list, tries>>
  BY DEF Respond, Goto
<1>2. LocalsTyped
  BY LocalTypes
<1>3. /\ a \in [Ids -> Cached]
      /\ \A i \in page[o] : a[i].version = server[i]
      /\ \A i \in Ids : a[i].local = None
  <2>1. ASSUME NEW i \in Ids
        PROVE  /\ a[i] \in Cached /\ a[i].local = None
               /\ i \in page[o] => a[i].version = server[i]
    <3>1. server[i] \in Nat
      BY DEF TypeOK
    <3> QED
      BY <3>1, AbsentCached DEF Cached
  <2>2. page[o] \subseteq Ids
    BY <1>2 DEF LocalsTyped
  <2> QED
    BY <2>1, <2>2
<1> HIDE DEF a
<1>4. answer'[o] = a /\ opc'[o] = "arrive" /\ Others(o)
  BY <1>1, <1>2 DEF LocalsTyped, Others, Same
<1>5. LocalsTyped'
  BY <1>1, <1>2, <1>3 DEF LocalsTyped, Places
<1> QED
  BY <1>1, <1>3, <1>4, <1>5

LEMMA EntryTypes ==
    ASSUME TypeOK
    PROVE  /\ \A k \in Keys : box[k] \in Cached
           /\ \A o \in Operations : \A i \in Ids : answer[o][i] \in Cached
           /\ \A o \in Operations : \A k \in Keys : list[o][k] \in Cached
           /\ Ids \subseteq Keys /\ Creations \subseteq Keys
           /\ \A o \in Operations : page[o] \subseteq Keys /\ page[o] \subseteq Ids
BY DEF TypeOK, Keys

LEMMA MergedType ==
    ASSUME TypeOK, NEW o \in Operations
    PROVE  /\ Merged(o) \in [Keys -> Cached]
           /\ \A k \in Keys :
                \/ Merged(o)[k] = box[k]
                \/ ~Pending(box[k]) /\ k \in page[o] /\ Merged(o)[k] = answer[o][k]
                \/ ~Pending(box[k]) /\ Merged(o)[k] = Absent
<1>1. ASSUME NEW k \in Keys
      PROVE  /\ Merged(o)[k] \in Cached
             /\ \/ Merged(o)[k] = box[k]
                \/ ~Pending(box[k]) /\ k \in page[o]
                   /\ Merged(o)[k] = answer[o][k]
                \/ ~Pending(box[k]) /\ Merged(o)[k] = Absent
  <2>1. CASE k \in page[o]
    BY <2>1, EntryTypes DEF Merged, Resolve
  <2>2. CASE k \notin page[o]
    BY <2>2, EntryTypes, AbsentCached DEF Merged
  <2> QED
    BY <2>1, <2>2
<1> QED
  BY <1>1 DEF Merged

LEMMA MergeEffect ==
    ASSUME TypeOK, NEW o \in Operations, Merge(o)
    PROVE  /\ At(o, "arrive") /\ kind[o] # "review" /\ Others(o) /\ LocalsTyped'
           /\ \/ Over(o)
              \/ /\ opc'[o] = "clear" /\ list'[o] = Merged(o)
                 /\ kind'[o] = kind[o] /\ edit'[o] = edit[o]
                 /\ page'[o] = page[o] /\ answer'[o] = answer[o]
<1>0. LocalsTyped /\ At(o, "arrive") /\ kind[o] # "review"
  BY LocalTypes DEF Merge
<1>1. CASE Done(o)
  BY <1>0, <1>1, DoneEffect
<1>2. CASE /\ list' = [list EXCEPT ![o] = Merged(o)]
           /\ Goto(o, "clear")
           /\ UNCHANGED <<kind, edit, page, answer, tries>>
  <2>1. LocalsTyped'
    BY <1>0, <1>2, MergedType DEF LocalsTyped, Goto, Places
  <2>2. opc'[o] = "clear" /\ list'[o] = Merged(o) /\ Others(o)
    BY <1>0, <1>2 DEF LocalsTyped, Goto, Others, Same
  <2> QED
    BY <1>0, <1>2, <2>1, <2>2
<1> QED
  BY <1>1, <1>2 DEF Merge

LEMMA ClearEffect ==
    ASSUME LocalsTyped, NEW o \in Operations, Clear(o)
    PROVE  /\ At(o, "clear") /\ opc'[o] = "save" /\ kind'[o] = kind[o]
           /\ edit'[o] = edit[o] /\ page'[o] = page[o]
           /\ answer'[o] = answer[o] /\ list'[o] = list[o]
           /\ Others(o) /\ LocalsTyped'
BY DEF Clear, LocalsTyped, Goto, Places, Others, Same

LEMMA ReviewEffect ==
    ASSUME LocalsTyped, NEW o \in Operations, NEW e \in Edits, Review(o, e)
    PROVE  /\ At(o, "idle") /\ opc'[o] = "post" /\ kind'[o] = "review"
           /\ edit'[o] = e /\ answer'[o] = answer[o] /\ list'[o] = list[o]
           /\ tries'[o] = tries[o] /\ Others(o) /\ LocalsTyped'
<1>1. /\ opc' = [opc EXCEPT ![o] = "post"] /\ At(o, "idle")
      /\ kind' = [kind EXCEPT ![o] = "review"]
      /\ edit' = [edit EXCEPT ![o] = e]
      /\ UNCHANGED <<page, answer, list, tries>>
  BY DEF Review, Begin, Goto
<1>2. LocalsTyped'
  BY <1>1 DEF LocalsTyped, Kinds, Places
<1>3. opc'[o] = "post" /\ kind'[o] = "review" /\ edit'[o] = e
  BY <1>1 DEF LocalsTyped
<1>4. Others(o)
  BY <1>1 DEF LocalsTyped, Others, Same
<1> QED
  BY <1>1, <1>2, <1>3, <1>4

LEMMA PostEffect ==
    ASSUME LocalsTyped, NEW o \in Operations, Post(o), edit[o] \in Edits
    PROVE  /\ At(o, "post") /\ opc'[o] = "request" /\ kind'[o] = kind[o]
           /\ edit'[o] = edit[o] /\ page'[o] = {Target[edit[o]]}
           /\ answer'[o] = answer[o] /\ list'[o] = list[o]
           /\ Others(o) /\ LocalsTyped'
<1>1. /\ opc' = [opc EXCEPT ![o] = "request"] /\ At(o, "post")
      /\ page' = [page EXCEPT ![o] = {Target[edit[o]]}]
      /\ UNCHANGED <<kind, edit, answer, list, tries>>
  BY DEF Post, Goto
<1>2. LocalsTyped'
  BY <1>1, CacheAssumption DEF LocalsTyped, Places
<1>3. opc'[o] = "request" /\ page'[o] = {Target[edit[o]]} /\ Others(o)
  BY <1>1 DEF LocalsTyped, Others, Same
<1> QED
  BY <1>1, <1>2, <1>3

LEMMA PostAgainEffect ==
    ASSUME LocalsTyped, NEW o \in Operations, PostAgain(o)
    PROVE  /\ At(o, "post") /\ opc' = opc /\ kind' = kind /\ edit' = edit
           /\ page' = page /\ answer' = answer /\ list' = list
           /\ tries'[o] = tries[o] + 1 /\ Others(o) /\ LocalsTyped'
<1>1. /\ At(o, "post") /\ UNCHANGED <<kind, opc, edit, page, answer, list>>
      /\ tries[o] < MaxRetries /\ tries' = [tries EXCEPT ![o] = @ + 1]
  BY DEF PostAgain
<1>2. tries'[o] = tries[o] + 1 /\ Others(o)
  BY <1>1 DEF LocalsTyped, Others, Same
<1>3. tries' \in [Operations -> 0 .. MaxRetries]
  BY <1>1, CacheAssumption DEF LocalsTyped
<1> QED
  BY <1>1, <1>2, <1>3 DEF LocalsTyped
-----------------------------------------------------------------------------
(* Types *)

SharedTyped ==
    /\ server \in [Ids -> Nat]
    /\ applied \in [Edits -> 0 .. MaxRetries + 1]
    /\ box \in [Keys -> Cached]
    /\ told \in [Edits -> {"nothing", "saving", "updated", "kept"}]
    /\ owed \in [Keys -> Changes \cup {None}]
    /\ overlapped \in BOOLEAN
    /\ crashes \in Nat

LEMMA TypeParts == TypeOK <=> SharedTyped /\ LocalsTyped
BY DEF TypeOK, SharedTyped, LocalsTyped

LEMMA TypePartsNext == SharedTyped' /\ LocalsTyped' => TypeOK'
BY DEF TypeOK, SharedTyped, LocalsTyped

LEMMA ApplyEffect ==
    ASSUME SharedTyped, NEW e \in Edits, Apply(e), applied[e] <= MaxRetries
    PROVE  /\ applied' \in [Edits -> 0 .. MaxRetries + 1]
           /\ server' \in [Ids -> Nat]
           /\ applied'[e] = applied[e] + 1
           /\ server'[Target[e]] = server[Target[e]] + 1
           /\ \A d \in Edits \ {e} : applied'[d] = applied[d]
           /\ \A i \in Ids : server[i] <= server'[i]
<1>1. /\ applied' = [applied EXCEPT ![e] = @ + 1]
      /\ server' = [server EXCEPT ![Target[e]] = @ + 1]
      /\ Target[e] \in Ids
      /\ applied[e] + 1 \in 0 .. MaxRetries + 1
  <2>1. applied[e] \in 0 .. MaxRetries + 1 /\ MaxRetries \in Nat
        /\ Target[e] \in Ids
    BY CacheAssumption DEF SharedTyped
  <2>2. applied[e] + 1 \in 0 .. MaxRetries + 1
    BY <2>1
  <2> QED
    BY <2>1, <2>2 DEF Apply
<1>2. /\ applied' \in [Edits -> 0 .. MaxRetries + 1]
      /\ applied'[e] = applied[e] + 1
      /\ \A d \in Edits \ {e} : applied'[d] = applied[d]
  BY <1>1 DEF SharedTyped
<1>3. /\ server' \in [Ids -> Nat]
      /\ server'[Target[e]] = server[Target[e]] + 1
      /\ \A i \in Ids : server[i] <= server'[i]
  BY <1>1 DEF SharedTyped
<1> QED
  BY <1>2, <1>3

\* The edit of a POST, which the retries left to it bound.
LEMMA PostsEdit ==
    ASSUME TypeOK, OneReview, ReviewPosts, AppliedTried,
           NEW o \in Operations, At(o, "post")
    PROVE  /\ kind[o] = "review" /\ edit[o] \in Edits
           /\ told[edit[o]] = "saving"
           /\ applied[edit[o]] <= tries[o] /\ tries[o] <= MaxRetries
           /\ applied[edit[o]] <= MaxRetries
           /\ Target[edit[o]] \in Ids /\ Target[edit[o]] \in Keys
<1>1. kind[o] = "review" /\ edit[o] \in Edits /\ told[edit[o]] = "saving"
  BY DEF ReviewPosts, OneReview
<1>2. applied[edit[o]] \in Int /\ tries[o] \in 0 .. MaxRetries
      /\ Target[edit[o]] \in Ids
  BY <1>1, CacheAssumption DEF TypeOK
<1> QED
  BY <1>1, <1>2, CacheAssumption DEF AppliedTried, Keys

LEMMA ReviewsEdit ==
    ASSUME OneReview, NEW o \in Operations, kind[o] = "review"
    PROVE  /\ edit[o] \in Edits /\ told[edit[o]] = "saving"
           /\ Target[edit[o]] \in Ids /\ Target[edit[o]] \in Keys
BY CacheAssumption DEF OneReview, Keys

LEMMA ResolveType ==
    ASSUME TypeOK, NEW o \in Operations, NEW k \in page[o]
    PROVE  /\ Resolve(o, k) \in Cached /\ k \in Keys /\ k \in Ids
           /\ Pending(box[k]) => Resolve(o, k) = box[k]
           /\ ~Pending(box[k]) => Resolve(o, k) = answer[o][k]
<1>1. k \in Keys /\ k \in Ids
  BY EntryTypes
<1> QED
  BY <1>1, EntryTypes DEF Resolve

LEMMA TypeInit == Init => TypeOK
<1> SUFFICES ASSUME Init PROVE TypeOK
  OBVIOUS
<1>1. SharedTyped
  <2>1. applied \in [Edits -> 0 .. MaxRetries + 1]
    BY CacheAssumption DEF Init
  <2>2. box \in [Keys -> Cached]
    BY AbsentCached DEF Init
  <2> QED
    BY <2>1, <2>2 DEF Init, SharedTyped
<1>2. LocalsTyped
  BY AbsentCached, CacheAssumption DEF Init, LocalsTyped, Kinds, Places
<1> QED
  BY <1>1, <1>2, TypeParts

LEMMA TypeStep ==
    TypeOK /\ OneReview /\ ReviewPosts /\ AppliedTried /\ [Next]_vars => TypeOK'
<1> SUFFICES ASSUME TypeOK, OneReview, ReviewPosts, AppliedTried, [Next]_vars
             PROVE  TypeOK'
  OBVIOUS
<1>0. SharedTyped /\ LocalsTyped
  BY TypeParts
<1>1. ASSUME NEW o \in Operations, Start(o) PROVE TypeOK'
  <2>1. LocalsTyped'
    BY <1>0, <1>1, StartEffect
  <2>2. SharedTyped'
    BY <1>0, <1>1 DEF Start, Begin, SharedTyped, backend, users
  <2> QED
    BY <2>1, <2>2, TypePartsNext
<1>2. ASSUME NEW o \in Operations, Respond(o) PROVE TypeOK'
  <2>1. LocalsTyped'
    BY <1>2, RespondEffect
  <2>2. SharedTyped'
    BY <1>0, <1>2 DEF Respond, SharedTyped, backend, users
  <2> QED
    BY <2>1, <2>2, TypePartsNext
<1>3. ASSUME NEW o \in Operations, NoAnswer(o) PROVE TypeOK'
  <2>1. LocalsTyped'
    BY <1>0, <1>3, DoneEffect DEF NoAnswer
  <2>2. SharedTyped'
    BY <1>0, <1>3 DEF NoAnswer, SharedTyped, backend
  <2> QED
    BY <2>1, <2>2, TypePartsNext
<1>4. ASSUME NEW o \in Operations, Merge(o) PROVE TypeOK'
  <2>1. LocalsTyped'
    BY <1>4, MergeEffect
  <2>2. SharedTyped'
    BY <1>0, <1>4 DEF Merge, SharedTyped, backend, users
  <2> QED
    BY <2>1, <2>2, TypePartsNext
<1>5. ASSUME NEW o \in Operations, Clear(o) PROVE TypeOK'
  <2>1. LocalsTyped'
    BY <1>0, <1>5, ClearEffect
  <2>2. SharedTyped'
    BY <1>0, <1>5, AbsentCached DEF Clear, SharedTyped, backend, users
  <2> QED
    BY <2>1, <2>2, TypePartsNext
<1>6. ASSUME NEW o \in Operations, PutAll(o) PROVE TypeOK'
  <2>1. LocalsTyped'
    BY <1>0, <1>6, DoneEffect DEF PutAll
  <2>2. box' \in [Keys -> Cached]
    BY <1>6, EntryTypes DEF PutAll
  <2>3. SharedTyped'
    BY <1>0, <1>6, <2>2 DEF PutAll, SharedTyped, backend, users
  <2> QED
    BY <2>1, <2>3, TypePartsNext
<1>7. ASSUME NEW o \in Operations, ShowDetail(o) PROVE TypeOK'
  <2>1. LocalsTyped'
    BY <1>0, <1>7, DoneEffect DEF ShowDetail
  <2>2. box' \in [Keys -> Cached]
    BY <1>7, EntryTypes, ResolveType DEF ShowDetail
  <2>3. SharedTyped'
    BY <1>0, <1>7, <2>2 DEF ShowDetail, SharedTyped, backend, users
  <2> QED
    BY <2>1, <2>3, TypePartsNext
<1>8. ASSUME NEW o \in Operations, NEW e \in Edits, Review(o, e) PROVE TypeOK'
  <2>1. LocalsTyped'
    BY <1>0, <1>8, ReviewEffect
  <2>2. box' \in [Keys -> Cached]
    BY <1>0, <1>8 DEF Review, SharedTyped, Cached, Changes
  <2>3. owed' \in [Keys -> Changes \cup {None}]
    BY <1>0, <1>8 DEF Review, SharedTyped, Changes
  <2>4. /\ told' \in [Edits -> {"nothing", "saving", "updated", "kept"}]
        /\ UNCHANGED <<server, applied, crashes>> /\ overlapped' \in BOOLEAN
    BY <1>0, <1>8 DEF Review, Begin, SharedTyped, backend
  <2>5. SharedTyped'
    BY <1>0, <2>2, <2>3, <2>4 DEF SharedTyped
  <2> QED
    BY <2>1, <2>5, TypePartsNext
<1>9. ASSUME NEW o \in Operations, Post(o) PROVE TypeOK'
  <2>1. edit[o] \in Edits /\ applied[edit[o]] <= MaxRetries
    BY <1>9, PostsEdit DEF Post
  <2>2. LocalsTyped'
    BY <1>0, <1>9, <2>1, PostEffect
  <2>3. SharedTyped'
    BY <1>0, <1>9, <2>1, ApplyEffect DEF Post, SharedTyped, users
  <2> QED
    BY <2>2, <2>3, TypePartsNext
<1>10. ASSUME NEW o \in Operations, PostAgain(o) PROVE TypeOK'
  <2>1. edit[o] \in Edits /\ applied[edit[o]] <= MaxRetries
    BY <1>10, PostsEdit DEF PostAgain
  <2>2. LocalsTyped'
    BY <1>0, <1>10, PostAgainEffect
  <2>3. SharedTyped'
    BY <1>0, <1>10, <2>1, ApplyEffect DEF PostAgain, SharedTyped, users, backend
  <2> QED
    BY <2>2, <2>3, TypePartsNext
<1>11. ASSUME NEW o \in Operations, PostFails(o) PROVE TypeOK'
  <2>1. edit[o] \in Edits /\ applied[edit[o]] <= MaxRetries
    BY <1>11, PostsEdit DEF PostFails
  <2>2. LocalsTyped'
    BY <1>0, <1>11, DoneEffect DEF PostFails
  <2>3. SharedTyped'
    BY <1>0, <1>11, <2>1, ApplyEffect DEF PostFails, SharedTyped, backend
  <2> QED
    BY <2>2, <2>3, TypePartsNext
<1>12. ASSUME NEW o \in Operations, Confirm(o) PROVE TypeOK'
  <2>1. edit[o] \in Edits /\ Target[edit[o]] \in Ids /\ Target[edit[o]] \in Keys
    BY <1>12, ReviewsEdit DEF Confirm
  <2>2. LocalsTyped'
    BY <1>0, <1>12, DoneEffect DEF Confirm
  <2>3. Unlocked(o, Target[edit[o]]) \in Cached
    BY <2>1, EntryTypes DEF Unlocked
  <2>4. box' \in [Keys -> Cached]
    BY <1>0, <1>12, <2>1, <2>3 DEF Confirm, SharedTyped
  <2>5. /\ owed' \in [Keys -> Changes \cup {None}]
        /\ told' \in [Edits -> {"nothing", "saving", "updated", "kept"}]
    BY <1>0, <1>12, <2>1 DEF Confirm, SharedTyped
  <2>6. SharedTyped'
    BY <1>0, <1>12, <2>4, <2>5 DEF Confirm, SharedTyped, backend
  <2> QED
    BY <2>2, <2>6, TypePartsNext
<1>13. ASSUME NEW c \in Creations, Create(c) PROVE TypeOK'
  <2>1. [version |-> 0, local |-> c] \in Cached /\ c \in Keys /\ c \in Changes
    BY DEF Cached, Keys, Changes
  <2>2. SharedTyped'
    BY <1>0, <1>13, <2>1 DEF Create, SharedTyped, backend
  <2>3. LocalsTyped'
    BY <1>0, <1>13 DEF Create, locals, LocalsTyped
  <2> QED
    BY <2>2, <2>3, TypePartsNext
<1>14. ASSUME NEW i \in Ids, ServerChange(i) PROVE TypeOK'
  <2>1. SharedTyped'
    BY <1>0, <1>14 DEF ServerChange, SharedTyped, users
  <2>2. LocalsTyped'
    BY <1>0, <1>14 DEF ServerChange, locals, LocalsTyped
  <2> QED
    BY <2>1, <2>2, TypePartsNext
<1>15. CASE Crash
  <2>1. LocalsTyped'
    BY <1>15, AbsentCached, CacheAssumption
       DEF Crash, LocalsTyped, Kinds, Places
  <2>2. box' \in [Keys -> Cached]
    BY <1>0, <1>15, AbsentCached DEF Crash, SharedTyped
  <2>3. told' \in [Edits -> {"nothing", "saving", "updated", "kept"}]
    BY <1>0, <1>15 DEF Crash, SharedTyped
  <2>4. SharedTyped'
    BY <1>0, <1>15, <2>2, <2>3 DEF Crash, SharedTyped, backend
  <2> QED
    BY <2>1, <2>4, TypePartsNext
<1>16. CASE UNCHANGED vars
  BY <1>0, <1>16, TypePartsNext
     DEF vars, backend, users, locals, SharedTyped, LocalsTyped
<1> QED
  BY <1>1, <1>2, <1>3, <1>4, <1>5, <1>6, <1>7, <1>8, <1>9, <1>10, <1>11, <1>12,
     <1>13, <1>14, <1>15, <1>16 DEF Next
-----------------------------------------------------------------------------
(* One operation at a time *)

\* Steps of operations that are under way, and steps of nobody's.
Goes(o) ==
    \/ Respond(o) \/ NoAnswer(o) \/ Merge(o) \/ Clear(o) \/ PutAll(o)
    \/ ShowDetail(o) \/ Post(o) \/ PostAgain(o) \/ PostFails(o) \/ Confirm(o)

Outside ==
    \/ \E c \in Creations : Create(c)
    \/ \E i \in Ids : ServerChange(i)
    \/ UNCHANGED vars

LEMMA NextCases ==
    [Next]_vars =>
        \/ \E o \in Operations :
             Start(o) \/ (\E e \in Edits : Review(o, e)) \/ Goes(o)
        \/ Outside \/ Crash
BY DEF Next, Goes, Outside

LEMMA GoesEffect ==
    ASSUME TypeOK, OneReview, ReviewPosts, AppliedTried,
           NEW o \in Operations, Goes(o)
    PROVE  /\ Others(o) /\ ~At(o, "idle")
           /\ overlapped' = overlapped /\ crashes' = crashes
           /\ kind'[o] = "none" \/ (kind'[o] = kind[o] /\ edit'[o] = edit[o])
<1>0. LocalsTyped
  BY LocalTypes
<1>1. CASE Respond(o)
  BY <1>1, RespondEffect DEF Respond, At
<1>2. CASE NoAnswer(o)
  BY <1>0, <1>2, DoneEffect DEF NoAnswer, At, Over
<1>3. CASE Merge(o)
  BY <1>3, MergeEffect DEF Merge, At, Over
<1>4. CASE Clear(o)
  BY <1>0, <1>4, ClearEffect DEF Clear, At
<1>5. CASE PutAll(o)
  BY <1>0, <1>5, DoneEffect DEF PutAll, At, Over
<1>6. CASE ShowDetail(o)
  BY <1>0, <1>6, DoneEffect DEF ShowDetail, At, Over
<1>7. CASE Post(o)
  BY <1>0, <1>7, PostsEdit, PostEffect DEF Post, At
<1>8. CASE PostAgain(o)
  BY <1>0, <1>8, PostAgainEffect DEF PostAgain, At
<1>9. CASE PostFails(o)
  BY <1>0, <1>9, DoneEffect DEF PostFails, At, Over
<1>10. CASE Confirm(o)
  BY <1>0, <1>10, DoneEffect DEF Confirm, At, Over
<1> QED
  BY <1>1, <1>2, <1>3, <1>4, <1>5, <1>6, <1>7, <1>8, <1>9, <1>10 DEF Goes

LEMMA OutsideEffect ==
    ASSUME Outside
    PROVE  /\ UNCHANGED <<kind, opc, edit, page, answer, list, tries, told>>
           /\ crashes' = crashes /\ UNCHANGED applied
           /\ \A q \in Operations : Same(q)
           /\ overlapped => overlapped'
<1>1. /\ UNCHANGED <<kind, opc, edit, page, answer, list, tries, told>>
      /\ crashes' = crashes /\ UNCHANGED applied
      /\ overlapped => overlapped'
  <2>1. ASSUME NEW c \in Creations, Create(c)
        PROVE  /\ UNCHANGED <<locals, told, crashes, backend>>
               /\ overlapped => overlapped'
    BY <2>1 DEF Create
  <2>2. ASSUME NEW i \in Ids, ServerChange(i)
        PROVE  UNCHANGED <<locals, users, crashes, applied, overlapped>>
    BY <2>2 DEF ServerChange
  <2> QED
    BY <2>1, <2>2 DEF Outside, vars, backend, locals, users
<1> QED
  BY <1>1 DEF Same

LEMMA CrashEffect ==
    ASSUME Crash
    PROVE  /\ \A q \in Operations : Over(q)
           /\ overlapped' = overlapped /\ crashes' = crashes + 1
           /\ UNCHANGED <<server, applied, owed>>
           /\ box' = box \/ box' = [k \in Keys |-> Absent]
           /\ \A e \in Edits : \/ told'[e] = told[e] /\ told[e] # "saving"
                               \/ told'[e] = "kept" /\ told[e] = "saving"
BY DEF Crash, Over, backend

LEMMA SerialStep ==
    ASSUME TypeOK, OneReview, ReviewPosts, AppliedTried, Serial, [Next]_vars
    PROVE  Serial'
<1>0. LocalsTyped
  BY LocalTypes
<1>1. ASSUME NEW o \in Operations, Start(o) \/ \E e \in Edits : Review(o, e)
      PROVE  Serial'
  <2>1. Others(o) /\ (~overlapped' => \A q \in Operations : At(q, "idle"))
    BY <1>0, <1>1, StartEffect, ReviewEffect DEF Start, Review, Begin
  <2> QED
    BY <2>1 DEF Serial, Others, Same, At
<1>2. ASSUME NEW o \in Operations, Goes(o) PROVE Serial'
  BY <1>2, GoesEffect DEF Serial, Others, Same, At
<1>3. CASE Outside
  BY <1>3, OutsideEffect DEF Serial, At
<1>4. CASE Crash
  BY <1>4, CrashEffect DEF Serial, Over, At
<1> QED
  BY <1>1, <1>2, <1>3, <1>4, NextCases

-----------------------------------------------------------------------------
(* Reviews *)

\* What becomes of what the user is told.
LEMMA ToldEffect ==
    ASSUME TypeOK, OneReview, ReviewPosts, AppliedTried,
           NEW o \in Operations, Goes(o), NEW e \in Edits
    PROVE  /\ told[e] # "nothing" => told'[e] # "nothing"
           /\ told[e] = "nothing" => told'[e] = "nothing"
           /\ kind[o] # "review" \/ edit[o] # e => told'[e] = told[e]
           /\ kind[o] = "review" /\ kind'[o] = "review" => told' = told
<1>0. LocalsTyped /\ told \in [Edits -> {"nothing", "saving", "updated", "kept"}]
  BY LocalTypes DEF TypeOK
<1>1. CASE told' = told
  BY <1>1
<1>2. CASE /\ kind[o] = "review" /\ edit[o] \in Edits /\ kind'[o] = "none"
           /\ told[edit[o]] = "saving"
           /\ \/ told' = [told EXCEPT ![edit[o]] = "kept"]
              \/ told' = [told EXCEPT ![edit[o]] = "updated"]
  BY <1>0, <1>2
<1>3. ASSUME Respond(o) \/ Merge(o) \/ Clear(o) \/ PutAll(o) \/ ShowDetail(o)
             \/ Post(o) \/ PostAgain(o)
      PROVE  told' = told
  BY <1>3 DEF Respond, Merge, Clear, PutAll, ShowDetail, Post, PostAgain, users
<1>4. CASE NoAnswer(o) \/ PostFails(o) \/ Confirm(o)
  <2>1. kind'[o] = "none"
    BY <1>0, <1>4, DoneEffect DEF NoAnswer, PostFails, Confirm, Over
  <2>2. PostFails(o) => kind[o] = "review"
    BY PostsEdit DEF PostFails
  <2>3. kind[o] = "review" => edit[o] \in Edits /\ told[edit[o]] = "saving"
    BY ReviewsEdit
  <2> QED
    BY <1>1, <1>2, <1>4, <2>1, <2>2, <2>3 DEF NoAnswer, PostFails, Confirm
<1> QED
  BY <1>1, <1>3, <1>4 DEF Goes

LEMMA OneReviewStep ==
    ASSUME TypeOK, OneReview, ReviewPosts, AppliedTried, [Next]_vars
    PROVE  OneReview'
<1>0. LocalsTyped
  BY LocalTypes
<1>1. ASSUME NEW o \in Operations, Start(o) PROVE OneReview'
  <2>1. Others(o) /\ kind'[o] # "review" /\ told' = told
    BY <1>0, <1>1, StartEffect DEF Start, users
  <2> QED
    BY <2>1 DEF OneReview, Others, Same
<1>2. ASSUME NEW o \in Operations, NEW e \in Edits, Review(o, e)
      PROVE  OneReview'
  <2>1. Others(o) /\ kind'[o] = "review" /\ edit'[o] = e
    BY <1>0, <1>2, ReviewEffect
  <2>2. told[e] = "nothing" /\ told'[e] = "saving"
        /\ \A d \in Edits \ {e} : told'[d] = told[d]
    BY <1>2 DEF Review, TypeOK
  <2>3. ASSUME NEW q \in Operations \ {o}, kind'[q] = "review"
        PROVE  /\ edit'[q] \in Edits \ {e} /\ told'[edit'[q]] = "saving"
               /\ \A r \in Operations \ {q} :
                    kind'[r] = "review" => edit'[r] # edit'[q]
    <3>1. kind[q] = "review" /\ edit'[q] = edit[q]
      BY <2>1, <2>3 DEF Others, Same
    <3>2. edit[q] \in Edits /\ told[edit[q]] = "saving"
      BY <3>1 DEF OneReview
    <3>3. edit[q] \in Edits \ {e}
      BY <2>2, <3>2
    <3>4. ASSUME NEW r \in Operations \ {q}, kind'[r] = "review"
          PROVE  edit'[r] # edit'[q]
      <4>1. CASE r = o
        BY <2>1, <3>1, <3>3, <4>1
      <4>2. CASE r # o
        BY <2>1, <3>1, <3>4, <4>2 DEF Others, Same, OneReview
      <4> QED
        BY <4>1, <4>2
    <3> QED
      BY <2>2, <3>1, <3>2, <3>3, <3>4
  <2> QED
    BY <2>1, <2>2, <2>3 DEF OneReview
<1>3. ASSUME NEW o \in Operations, Goes(o) PROVE OneReview'
  <2>1. /\ Others(o)
        /\ kind'[o] = "none" \/ (kind'[o] = kind[o] /\ edit'[o] = edit[o])
    BY <1>3, GoesEffect
  <2>2. ASSUME NEW q \in Operations, kind'[q] = "review"
        PROVE  /\ kind[q] = "review" /\ edit'[q] = edit[q]
               /\ edit[q] \in Edits /\ told'[edit[q]] = "saving"
    <3>1. kind[q] = "review" /\ edit'[q] = edit[q]
      BY <2>1, <2>2 DEF Others, Same
    <3>2. edit[q] \in Edits /\ told[edit[q]] = "saving"
      BY <3>1 DEF OneReview
    <3>3. CASE q = o
      BY <1>3, <2>2, <3>1, <3>2, <3>3, ToldEffect
    <3>4. CASE q # o
      <4>1. kind[o] # "review" \/ edit[o] # edit[q]
        BY <3>1, <3>4 DEF OneReview
      <4> QED
        BY <1>3, <3>1, <3>2, <4>1, ToldEffect
    <3> QED
      BY <3>3, <3>4
  <2> QED
    BY <2>2 DEF OneReview
<1>4. CASE Outside
  BY <1>4, OutsideEffect DEF OneReview
<1>5. CASE Crash
  BY <1>5, CrashEffect DEF OneReview, Over
<1> QED
  BY <1>1, <1>2, <1>3, <1>4, <1>5, NextCases
\* Only a POST changes the server, and only for its own edit.
LEMMA AppliedEffect ==
    ASSUME TypeOK, OneReview, ReviewPosts, AppliedTried,
           NEW o \in Operations, Goes(o), NEW e \in Edits
    PROVE  /\ ~At(o, "post") \/ edit[o] # e => applied'[e] = applied[e]
           /\ applied'[e] = applied[e] \/ applied'[e] = applied[e] + 1
           /\ applied[e] \in Nat /\ applied'[e] \in Nat
<1>0. SharedTyped /\ applied[e] \in Nat
  BY TypeParts, CacheAssumption DEF SharedTyped
<1>1. CASE applied' = applied
  BY <1>0, <1>1
<1>2. CASE At(o, "post") /\ Apply(edit[o])
  <2>1. edit[o] \in Edits /\ applied[edit[o]] <= MaxRetries
    BY <1>2, PostsEdit
  <2>2. /\ applied' \in [Edits -> 0 .. MaxRetries + 1]
        /\ applied'[edit[o]] = applied[edit[o]] + 1
        /\ \A d \in Edits \ {edit[o]} : applied'[d] = applied[d]
    BY <1>0, <1>2, <2>1, ApplyEffect
  <2>3. CASE edit[o] = e
    BY <1>0, <1>2, <2>2, <2>3
  <2>4. CASE edit[o] # e
    BY <1>0, <1>2, <2>2, <2>4
  <2> QED
    BY <2>3, <2>4
<1>3. applied' = applied \/ (At(o, "post") /\ Apply(edit[o]))
  BY DEF Goes, Respond, NoAnswer, Merge, Clear, PutAll, ShowDetail, Post,
         PostAgain, PostFails, Confirm, backend
<1> QED
  BY <1>1, <1>2, <1>3

LEMMA ReviewPostsStep ==
    ASSUME TypeOK, OneReview, ReviewPosts, AppliedTried, [Next]_vars
    PROVE  ReviewPosts'
<1> DEFINE Here(q) ==
        /\ At(q, "post") => kind[q] = "review"
        /\ kind[q] = "review" => opc[q] \in {"post", "request", "arrive"}
        /\ kind[q] = "review" /\ opc[q] \in {"request", "arrive"} =>
             page[q] = {Target[edit[q]]} /\ applied[edit[q]] > 0
<1>0. LocalsTyped /\ \A q \in Operations : Here(q)
  BY LocalTypes DEF ReviewPosts
<1>1. SUFFICES ASSUME NEW q \in Operations PROVE Here(q)'
  BY DEF ReviewPosts
<1>2. ASSUME Same(q), kind[q] = "review" => applied[edit[q]] <= applied'[edit[q]],
             kind[q] = "review" => applied[edit[q]] \in Nat /\ applied'[edit[q]] \in Nat
      PROVE  Here(q)'
  BY <1>0, <1>2 DEF Same, At
<1>3. ASSUME applied' = applied, Same(q) PROVE Here(q)'
  BY <1>0, <1>3 DEF Same, At
<1>4. ASSUME NEW o \in Operations, Start(o) PROVE Here(q)'
  <2>1. CASE q = o
    BY <1>0, <1>4, <2>1, StartEffect DEF At
  <2>2. CASE q # o
    BY <1>0, <1>3, <1>4, <2>2, StartEffect DEF Others, Start, backend
  <2> QED
    BY <2>1, <2>2
<1>5. ASSUME NEW o \in Operations, NEW e \in Edits, Review(o, e) PROVE Here(q)'
  <2>1. CASE q = o
    BY <1>0, <1>5, <2>1, ReviewEffect DEF At
  <2>2. CASE q # o
    BY <1>0, <1>3, <1>5, <2>2, ReviewEffect DEF Others, Review, backend
  <2> QED
    BY <2>1, <2>2
<1>6. ASSUME NEW o \in Operations, Goes(o) PROVE Here(q)'
  <2>1. CASE q # o
    <3>1. Same(q)
      BY <1>6, <2>1, GoesEffect DEF Others
    <3>2. kind[q] = "review" => edit[q] \in Edits
      BY ReviewsEdit
    <3>3. kind[q] = "review" =>
            /\ applied[edit[q]] \in Nat /\ applied'[edit[q]] \in Nat
            /\ applied[edit[q]] <= applied'[edit[q]]
      BY <1>6, <3>2, AppliedEffect
    <3> QED
      BY <1>2, <3>1, <3>3
  <2>2. ASSUME q = o, Over(o) PROVE Here(q)'
    BY <2>2 DEF Over, At
  <2>3. CASE q = o /\ Respond(o)
    <3>1. applied' = applied
      BY <2>3 DEF Respond, backend
    <3> QED
      BY <1>0, <2>3, <3>1, RespondEffect DEF At
  <2>4. CASE q = o /\ Merge(o)
    <3>1. applied' = applied
      BY <2>4 DEF Merge, backend
    <3> QED
      BY <1>0, <2>2, <2>4, <3>1, MergeEffect DEF At
  <2>5. CASE q = o /\ Clear(o)
    BY <1>0, <2>5, ClearEffect DEF At
  <2>6. CASE q = o /\ Post(o)
    <3>1. /\ kind[o] = "review" /\ edit[o] \in Edits /\ SharedTyped
          /\ applied[edit[o]] <= MaxRetries
      BY <2>6, PostsEdit, TypeParts DEF Post
    <3>2. applied'[edit[o]] = applied[edit[o]] + 1 /\ applied[edit[o]] \in Nat
      BY <2>6, <3>1, ApplyEffect DEF Post, SharedTyped
    <3> QED
      BY <1>0, <2>6, <3>1, <3>2, PostEffect DEF At
  <2>7. CASE q = o /\ PostAgain(o)
    BY <1>0, <2>7, PostAgainEffect DEF At
  <2>8. CASE q = o /\ (NoAnswer(o) \/ PutAll(o) \/ ShowDetail(o)
                        \/ PostFails(o) \/ Confirm(o))
    BY <1>0, <2>2, <2>8, DoneEffect
       DEF NoAnswer, PutAll, ShowDetail, PostFails, Confirm
  <2> QED
    BY <1>6, <2>1, <2>3, <2>4, <2>5, <2>6, <2>7, <2>8 DEF Goes
<1>7. CASE Outside
  BY <1>3, <1>7, OutsideEffect
<1>8. CASE Crash
  BY <1>8, CrashEffect DEF Over, At
<1> QED
  BY <1>4, <1>5, <1>6, <1>7, <1>8, NextCases

LEMMA AppliedTriedStep ==
    ASSUME TypeOK, OneReview, ReviewPosts, AppliedTried, [Next]_vars
    PROVE  AppliedTried'
<1>0. LocalsTyped
  BY LocalTypes
<1>1. ASSUME NEW o \in Operations, Start(o) PROVE AppliedTried'
  BY <1>0, <1>1, StartEffect
     DEF AppliedTried, Others, Same, At, Start, backend, users
<1>2. ASSUME NEW o \in Operations, NEW e \in Edits, Review(o, e)
      PROVE  AppliedTried'
  <2>1. /\ Others(o) /\ opc'[o] = "post" /\ edit'[o] = e
        /\ tries'[o] = tries[o] /\ tries[o] \in Nat
    BY <1>0, <1>2, ReviewEffect, CacheAssumption DEF LocalsTyped
  <2>2. /\ applied' = applied /\ told[e] = "nothing" /\ told'[e] = "saving"
        /\ \A d \in Edits \ {e} : told'[d] = told[d]
    BY <1>2 DEF Review, TypeOK, backend
  <2>3. applied[e] = 0
    BY <2>2 DEF AppliedTried
  <2> QED
    BY <2>1, <2>2, <2>3 DEF AppliedTried, Others, Same, At
<1>3. ASSUME NEW o \in Operations, Goes(o) PROVE AppliedTried'
  <2>1. ASSUME NEW e \in Edits, told'[e] = "nothing" PROVE applied'[e] = 0
    <3>1. told[e] = "nothing" /\ applied[e] = 0
      BY <1>3, <2>1, ToldEffect DEF AppliedTried
    <3>2. At(o, "post") => edit[o] # e
      BY <3>1, PostsEdit
    <3> QED
      BY <1>3, <3>1, <3>2, AppliedEffect
  <2>2. ASSUME NEW q \in Operations, opc'[q] = "post"
        PROVE  applied'[edit'[q]] <= tries'[q]
    <3>1. CASE q # o
      <4>1. Same(q)
        BY <1>3, <3>1, GoesEffect DEF Others
      <4>2. /\ At(q, "post") /\ kind[q] = "review" /\ edit[q] \in Edits
            /\ applied[edit[q]] <= tries[q]
        BY <2>2, <4>1, PostsEdit DEF Same, At
      <4>3. At(o, "post") => edit[o] # edit[q]
        BY <3>1, <4>2, PostsEdit DEF OneReview
      <4> QED
        BY <1>3, <4>1, <4>2, <4>3, AppliedEffect DEF Same
    <3>2. CASE q = o
      <4>1. PostAgain(o)
        <5>1. ~Over(o)
          BY <2>2, <3>2 DEF Over
        <5>2. ~(NoAnswer(o) \/ PutAll(o) \/ ShowDetail(o) \/ PostFails(o)
                  \/ Confirm(o))
          BY <1>0, <5>1, DoneEffect
             DEF NoAnswer, PutAll, ShowDetail, PostFails, Confirm
        <5>3. ~(Respond(o) \/ Merge(o) \/ Clear(o))
          BY <1>0, <2>2, <3>2, <5>1, RespondEffect, MergeEffect, ClearEffect
        <5>4. ~Post(o)
          BY <1>0, <2>2, <3>2, PostsEdit, PostEffect DEF Post
        <5> QED
          BY <1>3, <5>2, <5>3, <5>4 DEF Goes
      <4>2. At(o, "post") /\ edit[o] \in Edits /\ applied[edit[o]] <= tries[o]
        BY <4>1, PostsEdit DEF PostAgain
      <4>3. edit' = edit /\ tries'[o] = tries[o] + 1 /\ tries[o] \in Int
        BY <1>0, <4>1, PostAgainEffect DEF LocalsTyped
      <4> QED
        BY <1>3, <3>2, <4>2, <4>3, AppliedEffect
    <3> QED
      BY <3>1, <3>2
  <2> QED
    BY <2>1, <2>2 DEF AppliedTried, At
<1>4. CASE Outside
  BY <1>4, OutsideEffect DEF AppliedTried, At
<1>5. CASE Crash
  BY <1>5, CrashEffect DEF AppliedTried, Over, At
<1> QED
  BY <1>1, <1>2, <1>3, <1>4, <1>5, NextCases
LEMMA AppliedVersionsStep ==
    ASSUME TypeOK, OneReview, ReviewPosts, AppliedTried, AppliedVersions,
           [Next]_vars
    PROVE  AppliedVersions'
<1>0. /\ SharedTyped
      /\ \A e \in Edits : /\ applied[e] \in Nat /\ Target[e] \in Ids
                          /\ server[Target[e]] \in Nat
                          /\ applied[e] <= server[Target[e]]
  BY TypeParts, CacheAssumption DEF SharedTyped, AppliedVersions
<1>1. ASSUME UNCHANGED backend PROVE AppliedVersions'
  BY <1>1 DEF AppliedVersions, backend
<1>2. ASSUME NEW o \in Operations, At(o, "post"), Apply(edit[o])
      PROVE  AppliedVersions'
  <2>1. edit[o] \in Edits /\ applied[edit[o]] <= MaxRetries
    BY <1>2, PostsEdit
  <2>2. /\ applied'[edit[o]] = applied[edit[o]] + 1
        /\ server'[Target[edit[o]]] = server[Target[edit[o]]] + 1
        /\ \A d \in Edits \ {edit[o]} : applied'[d] = applied[d]
        /\ \A i \in Ids : server[i] <= server'[i]
        /\ server' \in [Ids -> Nat]
    BY <1>0, <1>2, <2>1, ApplyEffect
  <2>3. ASSUME NEW d \in Edits PROVE applied'[d] <= server'[Target[d]]
    <3>1. CASE d = edit[o]
      BY <1>0, <2>1, <2>2, <3>1
    <3>2. CASE d # edit[o]
      BY <1>0, <2>2, <3>2
    <3> QED
      BY <3>1, <3>2
  <2> QED
    BY <2>3 DEF AppliedVersions
<1>3. ASSUME NEW i \in Ids, ServerChange(i) PROVE AppliedVersions'
  <2>1. /\ applied' = applied
        /\ server' = [server EXCEPT ![i] = @ + 1]
    BY <1>3 DEF ServerChange
  <2>2. \A j \in Ids : server[j] <= server'[j] /\ server'[j] \in Nat
    BY <1>0, <2>1 DEF SharedTyped
  <2> QED
    BY <1>0, <2>1, <2>2 DEF AppliedVersions
<1>4. ASSUME NEW o \in Operations,
             Start(o) \/ (\E e \in Edits : Review(o, e)) \/ Goes(o)
      PROVE  UNCHANGED backend \/ (At(o, "post") /\ Apply(edit[o]))
  <2>1. CASE Start(o) \/ \E e \in Edits : Review(o, e)
    BY <2>1 DEF Start, Review
  <2>2. CASE Goes(o)
    BY <2>2 DEF Goes, Respond, NoAnswer, Merge, Clear, PutAll, ShowDetail, Post,
                PostAgain, PostFails, Confirm
  <2> QED
    BY <1>4, <2>1, <2>2
<1>5. CASE Outside
  <2>1. ASSUME NEW c \in Creations, Create(c) PROVE UNCHANGED backend
    BY <2>1 DEF Create
  <2>2. UNCHANGED vars => UNCHANGED backend
    BY DEF vars
  <2> QED
    BY <1>1, <1>3, <1>5, <2>1, <2>2 DEF Outside
<1>6. CASE Crash
  BY <1>1, <1>6 DEF Crash
<1> QED
  BY <1>1, <1>2, <1>4, <1>5, <1>6, NextCases

LEMMA AnswerIsNewStep ==
    ASSUME TypeOK, OneReview, ReviewPosts, AppliedTried, AppliedVersions,
           AnswerIsNew, [Next]_vars
    PROVE  AnswerIsNew'
<1>0. LocalsTyped
  BY LocalTypes
<1>1. SUFFICES ASSUME NEW q \in Operations,
                      kind'[q] = "review", opc'[q] = "arrive"
               PROVE  answer'[q][Target[edit'[q]]].version >= applied'[edit'[q]]
  BY DEF AnswerIsNew, At
<1>2. ASSUME Same(q), applied'[edit[q]] = applied[edit[q]]
      PROVE  answer'[q][Target[edit'[q]]].version >= applied'[edit'[q]]
  BY <1>1, <1>2 DEF Same, AnswerIsNew, At
<1>3. ASSUME NEW o \in Operations, Start(o) \/ \E e \in Edits : Review(o, e)
      PROVE  Same(q) /\ applied' = applied
  <2>1. q # o
    BY <1>0, <1>1, <1>3, StartEffect, ReviewEffect
  <2>2. applied' = applied
    BY <1>3 DEF Start, Review, backend
  <2> QED
    BY <1>0, <1>3, <2>1, <2>2, StartEffect, ReviewEffect DEF Others
<1>4. ASSUME NEW o \in Operations, Goes(o)
      PROVE  answer'[q][Target[edit'[q]]].version >= applied'[edit'[q]]
  <2>1. CASE q # o
    <3>1. Same(q)
      BY <1>4, <2>1, GoesEffect DEF Others
    <3>2. kind[q] = "review" /\ edit[q] \in Edits
      BY <1>1, <3>1, ReviewsEdit DEF Same
    <3>3. At(o, "post") => edit[o] # edit[q]
      BY <2>1, <3>2, PostsEdit DEF OneReview
    <3> QED
      BY <1>2, <1>4, <3>1, <3>2, <3>3, AppliedEffect
  <2>2. CASE q = o
    <3>1. Respond(o)
      <4>1. ~Over(o)
        BY <1>1, <2>2 DEF Over
      <4>2. ~(NoAnswer(o) \/ PutAll(o) \/ ShowDetail(o) \/ PostFails(o)
                \/ Confirm(o))
        BY <1>0, <4>1, DoneEffect
           DEF NoAnswer, PutAll, ShowDetail, PostFails, Confirm
      <4>3. ~(Merge(o) \/ Clear(o))
        BY <1>0, <1>1, <2>2, <4>1, MergeEffect, ClearEffect
      <4>4. ~(Post(o) \/ PostAgain(o))
        BY <1>0, <1>1, <2>2, PostsEdit, PostEffect, PostAgainEffect
           DEF Post, At
      <4> QED
        BY <1>4, <4>2, <4>3, <4>4 DEF Goes
    <3>2. /\ At(o, "request") /\ kind[o] = "review" /\ edit'[o] = edit[o]
          /\ \A i \in page[o] : answer'[o][i].version = server[i]
      BY <1>1, <2>2, <3>1, RespondEffect
    <3>3. page[o] = {Target[edit[o]]} /\ edit[o] \in Edits
      BY <3>2, ReviewsEdit DEF ReviewPosts, At
    <3>4. answer'[o][Target[edit[o]]].version = server[Target[edit[o]]]
          /\ applied' = applied
      BY <3>1, <3>2, <3>3 DEF Respond, backend
    <3>5. /\ applied[edit[o]] <= server[Target[edit[o]]]
          /\ applied[edit[o]] \in Int /\ server[Target[edit[o]]] \in Int
      BY <3>3, CacheAssumption DEF AppliedVersions, TypeOK
    <3> QED
      BY <2>2, <3>2, <3>4, <3>5
  <2> QED
    BY <2>1, <2>2
<1>5. CASE Outside
  BY <1>2, <1>5, OutsideEffect
<1>6. CASE Crash
  BY <1>1, <1>6, CrashEffect DEF Over
<1> QED
  BY <1>2, <1>3, <1>4, <1>5, <1>6, NextCases

-----------------------------------------------------------------------------
(* Entries *)

LEMMA AnswersCleanStep ==
    ASSUME TypeOK, OneReview, ReviewPosts, AppliedTried, AnswersClean,
           [Next]_vars
    PROVE  AnswersClean'
<1>0. LocalsTyped
  BY LocalTypes
<1>1. SUFFICES ASSUME NEW q \in Operations
               PROVE  \A i \in Ids : answer'[q][i].local = None
  BY DEF AnswersClean
<1>2. ASSUME answer'[q] = answer[q] \/ Over(q)
      PROVE  \A i \in Ids : answer'[q][i].local = None
  BY <1>2, AbsentCached DEF AnswersClean, Over
<1>3. ASSUME NEW o \in Operations, Start(o) \/ \E e \in Edits : Review(o, e)
      PROVE  answer'[q] = answer[q]
  BY <1>0, <1>3, StartEffect, ReviewEffect DEF Others, Same
<1>4. ASSUME NEW o \in Operations, Goes(o)
      PROVE  answer'[q] = answer[q] \/ Over(q)
               \/ \A i \in Ids : answer'[q][i].local = None
  <2>1. CASE q # o
    BY <1>4, <2>1, GoesEffect DEF Others, Same
  <2>2. CASE q = o
    <3>1. CASE Respond(o)
      BY <2>2, <3>1, RespondEffect
    <3>2. CASE Merge(o) \/ Clear(o)
      BY <1>0, <2>2, <3>2, MergeEffect, ClearEffect
    <3>3. CASE Post(o) \/ PostAgain(o)
      BY <1>0, <2>2, <3>3, PostsEdit, PostEffect, PostAgainEffect DEF Post
    <3>4. CASE NoAnswer(o) \/ PutAll(o) \/ ShowDetail(o) \/ PostFails(o)
               \/ Confirm(o)
      BY <1>0, <2>2, <3>4, DoneEffect
         DEF NoAnswer, PutAll, ShowDetail, PostFails, Confirm
    <3> QED
      BY <1>4, <3>1, <3>2, <3>3, <3>4 DEF Goes
  <2> QED
    BY <2>1, <2>2
<1>5. CASE Outside
  BY <1>2, <1>5, OutsideEffect
<1>6. CASE Crash
  BY <1>2, <1>6, CrashEffect
<1> QED
  BY <1>2, <1>3, <1>4, <1>5, <1>6, NextCases
\* Where the entries of the box come from.
LEMMA BoxEffect ==
    ASSUME TypeOK, OneReview, AnswersClean, NEW o \in Operations, Goes(o),
           NEW k \in Keys
    PROVE  \/ box'[k].local = box[k].local
           \/ box'[k].local = None
           \/ At(o, "save") /\ box'[k].local = list[o][k].local
<1>1. CASE Respond(o) \/ NoAnswer(o) \/ Merge(o) \/ Post(o) \/ PostAgain(o)
             \/ PostFails(o)
  BY <1>1 DEF Respond, NoAnswer, Merge, Post, PostAgain, PostFails
<1>2. CASE Clear(o)
  BY <1>2, AbsentCached DEF Clear
<1>3. CASE PutAll(o)
  BY <1>3 DEF PutAll
<1>4. CASE ShowDetail(o)
  <2>1. box'[k] = box[k] \/ (k \in page[o] /\ box'[k] = Resolve(o, k))
    BY <1>4 DEF ShowDetail
  <2>2. k \in page[o] => Resolve(o, k) = box[k] \/ Resolve(o, k).local = None
    BY ResolveType DEF AnswersClean
  <2> QED
    BY <2>1, <2>2
<1>5. CASE Confirm(o)
  <2>1. Target[edit[o]] \in Ids
    BY <1>5, ReviewsEdit DEF Confirm
  <2>2. Unlocked(o, Target[edit[o]]).local = None
    BY <2>1 DEF Unlocked, AnswersClean
  <2>3. box' = [box EXCEPT ![Target[edit[o]]] = Unlocked(o, Target[edit[o]])]
    BY <1>5 DEF Confirm
  <2>4. box \in [Keys -> Cached]
    BY DEF TypeOK
  <2> QED
    BY <2>2, <2>3, <2>4
<1> QED
  BY <1>1, <1>2, <1>3, <1>4, <1>5 DEF Goes

\* Where the lists come from.
LEMMA ListEffect ==
    ASSUME TypeOK, OneReview, ReviewPosts, AppliedTried,
           NEW o \in Operations, Goes(o), NEW q \in Operations
    PROVE  \/ list'[q] = list[q] /\ (Saving(q)' => Saving(q))
           \/ Over(q)
           \/ q = o /\ Merge(o) /\ list'[q] = Merged(o)
<1>0. LocalsTyped
  BY LocalTypes
<1>1. CASE q # o
  BY <1>1, GoesEffect DEF Others, Same, Saving
<1>2. CASE q = o /\ Respond(o)
  BY <1>2, RespondEffect DEF Saving
<1>3. CASE q = o /\ Merge(o)
  BY <1>3, MergeEffect
<1>4. CASE q = o /\ Clear(o)
  BY <1>0, <1>4, ClearEffect DEF Saving, At
<1>5. CASE q = o /\ (Post(o) \/ PostAgain(o))
  BY <1>0, <1>5, PostsEdit, PostEffect, PostAgainEffect DEF Post, Saving, At
<1>6. CASE q = o /\ (NoAnswer(o) \/ PutAll(o) \/ ShowDetail(o) \/ PostFails(o)
                       \/ Confirm(o))
  BY <1>0, <1>6, DoneEffect
     DEF NoAnswer, PutAll, ShowDetail, PostFails, Confirm
<1> QED
  BY <1>1, <1>2, <1>3, <1>4, <1>5, <1>6 DEF Goes

\* A merge takes pending entries from the box and rows from the server.
LEMMA MergedLocal ==
    ASSUME TypeOK, AnswersClean, NEW o \in Operations, NEW k \in Keys
    PROVE  /\ Merged(o)[k].local = box[k].local \/ Merged(o)[k].local = None
           /\ Pending(box[k]) => Merged(o)[k] = box[k]
<1>1. k \in page[o] => k \in Ids
  BY EntryTypes
<1> QED
  BY <1>1, MergedType, AbsentCached DEF AnswersClean

\* The one entry a review changes.
LEMMA ReviewBox ==
    ASSUME TypeOK, NEW o \in Operations, NEW e \in Edits, Review(o, e)
    PROVE  /\ Target[e] \in Keys
           /\ \A k \in Keys \ {Target[e]} :
                box'[k] = box[k] /\ owed'[k] = owed[k]
           /\ \/ box[Target[e]] = Absent /\ UNCHANGED <<box, owed>>
              \/ box'[Target[e]].local = e /\ owed'[Target[e]] = e
<1>1. Target[e] \in Keys /\ box \in [Keys -> Cached]
      /\ owed \in [Keys -> Changes \cup {None}]
  BY CacheAssumption DEF TypeOK, Keys
<1>2. CASE box[Target[e]] = Absent
  BY <1>1, <1>2 DEF Review
<1>3. CASE box[Target[e]] # Absent
  <2>1. /\ box' = [box EXCEPT ![Target[e]].local = e]
        /\ owed' = [owed EXCEPT ![Target[e]] = e]
    BY <1>3 DEF Review
  <2>2. box[Target[e]] \in Cached
    BY <1>1
  <2>3. box'[Target[e]].local = e
    BY <1>1, <2>1, <2>2 DEF Cached
  <2>4. owed'[Target[e]] = e
    BY <1>1, <2>1
  <2>5. \A k \in Keys \ {Target[e]} : box'[k] = box[k] /\ owed'[k] = owed[k]
    BY <1>1, <2>1
  <2> QED
    BY <1>1, <2>3, <2>4, <2>5
<1> QED
  BY <1>2, <1>3

LEMMA CreateBox ==
    ASSUME TypeOK, NEW c \in Creations, Create(c)
    PROVE  /\ c \in Keys /\ c \notin Edits /\ c # None /\ c \notin Ids
           /\ box'[c].local = c /\ owed'[c] = c
           /\ \A k \in Keys \ {c} : box'[k] = box[k] /\ owed'[k] = owed[k]
BY CacheAssumption DEF TypeOK, Create, Keys

LEMMA EditsInPlaceStep ==
    ASSUME TypeOK, OneReview, ReviewPosts, AppliedTried, AnswersClean,
           EditsInPlace, [Next]_vars
    PROVE  EditsInPlace'
<1>0. LocalsTyped /\ None \notin Edits
  BY LocalTypes, CacheAssumption
<1>1. ASSUME NEW o \in Operations, Start(o) PROVE EditsInPlace'
  BY <1>0, <1>1, StartEffect DEF EditsInPlace, Others, Same, Start
<1>2. ASSUME NEW o \in Operations, NEW e \in Edits, Review(o, e)
      PROVE  EditsInPlace'
  <2>1. \A q \in Operations : list'[q] = list[q]
    BY <1>0, <1>2, ReviewEffect DEF Others, Same
  <2>2. ASSUME NEW k \in Keys, NEW d \in Edits, box'[k].local = d
        PROVE  k = Target[d]
    BY <1>2, <2>2, ReviewBox DEF EditsInPlace
  <2> QED
    BY <2>1, <2>2 DEF EditsInPlace
<1>3. ASSUME NEW o \in Operations, Goes(o) PROVE EditsInPlace'
  <2>1. ASSUME NEW k \in Keys, NEW e \in Edits, box'[k].local = e
        PROVE  k = Target[e]
    BY <1>0, <1>3, <2>1, BoxEffect DEF EditsInPlace
  <2>2. ASSUME NEW k \in Keys, NEW e \in Edits, NEW q \in Operations,
               list'[q][k].local = e
        PROVE  k = Target[e]
    <3>1. ~Over(q)
      BY <1>0, <2>2, AbsentCached DEF Over
    <3>2. list[q][k].local = e \/ (q = o /\ list'[q] = Merged(o))
      BY <1>3, <2>2, <3>1, ListEffect
    <3> QED
      BY <1>0, <2>2, <3>2, MergedLocal DEF EditsInPlace
  <2> QED
    BY <2>1, <2>2 DEF EditsInPlace
<1>4. CASE Outside
  <2>1. list' = list
    BY <1>4, OutsideEffect
  <2>2. ASSUME NEW k \in Keys, NEW e \in Edits, box'[k].local = e
        PROVE  k = Target[e]
    <3>1. ASSUME NEW c \in Creations, Create(c) PROVE box[k].local = e
      BY <2>2, <3>1, CreateBox
    <3>2. ASSUME NEW i \in Ids, ServerChange(i) PROVE box' = box
      BY <3>2 DEF ServerChange
    <3>3. box[k].local = e
      BY <1>4, <2>2, <3>1, <3>2 DEF Outside, vars
    <3> QED
      BY <3>3 DEF EditsInPlace
  <2> QED
    BY <2>1, <2>2 DEF EditsInPlace
<1>5. CASE Crash
  BY <1>0, <1>5, CrashEffect, AbsentCached DEF EditsInPlace, Over
<1> QED
  BY <1>1, <1>2, <1>3, <1>4, <1>5, NextCases
-----------------------------------------------------------------------------
(* Local changes, while nothing overlaps *)

\* A step of one operation finds the others at rest.
LEMMA AloneEffect ==
    ASSUME TypeOK, OneReview, ReviewPosts, AppliedTried, Serial, ~overlapped,
           NEW o \in Operations, Goes(o), NEW q \in Operations \ {o}
    PROVE  At(q, "idle") /\ Same(q) /\ kind[q] # "review"
<1>1. At(q, "idle")
  BY GoesEffect DEF Serial
<1> QED
  BY <1>1, GoesEffect DEF Others, ReviewPosts, At

LEMMA BeginsAlone ==
    ASSUME NEW o \in Operations, ~overlapped',
           Start(o) \/ \E e \in Edits : Review(o, e)
    PROVE  ~overlapped /\ \A q \in Operations : At(q, "idle")
BY DEF Start, Review, Begin

LEMMA CreatesAlone ==
    ASSUME NEW c \in Creations, ~overlapped', Create(c)
    PROVE  ~overlapped /\ \A q \in Operations : At(q, "idle")
BY DEF Create

LEMMA OwedReviewedStep ==
    ASSUME TypeOK, Serial, OneReview, ReviewPosts, AppliedTried, OwedKept,
           OwedReviewed, [Next]_vars
    PROVE  OwedReviewed'
<1>0. LocalsTyped
  BY LocalTypes
<1>1. SUFFICES ASSUME ~overlapped', crashes' = 0,
                      NEW q \in Operations, kind'[q] = "review"
               PROVE  owed'[Target[edit'[q]]] \in {None, edit'[q]}
  BY DEF OwedReviewed
<1>2. ASSUME \A r \in Operations : At(r, "idle") PROVE kind[q] # "review"
  BY <1>2 DEF ReviewPosts, At
<1>3. ASSUME NEW o \in Operations, Start(o) PROVE FALSE
  <2>1. kind[q] # "review"
    BY <1>1, <1>2, <1>3, BeginsAlone
  <2> QED
    BY <1>0, <1>1, <1>3, <2>1, StartEffect DEF Others, Same
<1>4. ASSUME NEW o \in Operations, NEW e \in Edits, Review(o, e)
      PROVE  owed'[Target[edit'[q]]] \in {None, edit'[q]}
  <2>1. ~overlapped /\ \A r \in Operations : At(r, "idle")
    BY <1>1, <1>4, BeginsAlone
  <2>2. q = o /\ edit'[q] = e
    <3>1. kind[q] # "review"
      BY <1>2, <2>1
    <3> QED
      BY <1>0, <1>1, <1>4, <3>1, ReviewEffect DEF Others, Same
  <2>3. Target[e] \in Keys /\ crashes = 0
    BY <1>1, <1>4, ReviewBox DEF Review
  <2>4. CASE box[Target[e]] = Absent /\ UNCHANGED <<box, owed>>
    <3>1. owed[Target[e]] # None => box[Target[e]].local = owed[Target[e]]
      BY <2>1, <2>3 DEF OwedKept, At
    <3> QED
      BY <2>2, <2>4, <3>1, AbsentCached
  <2>5. CASE owed'[Target[e]] = e
    BY <2>2, <2>5
  <2> QED
    BY <1>4, <2>4, <2>5, ReviewBox
<1>5. ASSUME NEW o \in Operations, Goes(o)
      PROVE  owed'[Target[edit'[q]]] \in {None, edit'[q]}
  <2>1. ~overlapped /\ crashes = 0
    BY <1>1, <1>5, GoesEffect
  <2>2. q = o
    BY <1>1, <1>5, <2>1, AloneEffect DEF Same
  <2>3. kind[o] = "review" /\ edit'[o] = edit[o]
    BY <1>1, <1>5, <2>2, GoesEffect
  <2>4. ~Confirm(o)
    BY <1>0, <1>1, <2>2, DoneEffect DEF Confirm, Over
  <2>5. owed' = owed
    BY <1>5, <2>4 DEF Goes, Respond, NoAnswer, Merge, Clear, PutAll, ShowDetail,
                      Post, PostAgain, PostFails, users
  <2> QED
    BY <2>1, <2>2, <2>3, <2>5 DEF OwedReviewed
<1>6. CASE Outside
  <2>1. ASSUME NEW c \in Creations, Create(c) PROVE FALSE
    <3>1. kind[q] # "review"
      BY <1>1, <1>2, <2>1, CreatesAlone
    <3> QED
      BY <1>1, <2>1, <3>1 DEF Create, locals
  <2>2. UNCHANGED <<kind, edit, owed, overlapped, crashes>>
    <3>1. ASSUME NEW i \in Ids, ServerChange(i)
          PROVE  UNCHANGED <<kind, edit, owed, overlapped, crashes>>
      BY <3>1 DEF ServerChange, users, locals
    <3> QED
      BY <1>6, <2>1, <3>1 DEF Outside, vars, users, locals
  <2> QED
    BY <1>1, <2>2 DEF OwedReviewed
<1>7. CASE Crash
  BY <1>1, <1>7, CrashEffect DEF Over
<1> QED
  BY <1>3, <1>4, <1>5, <1>6, <1>7, NextCases

LEMMA OwedKeptStep ==
    ASSUME TypeOK, Serial, OneReview, ReviewPosts, AppliedTried, AnswersClean,
           OwedKept, OwedReviewed, [Next]_vars
    PROVE  OwedKept'
<1>0. LocalsTyped
  BY LocalTypes
<1>1. SUFFICES ASSUME ~overlapped', crashes' = 0, NEW k \in Keys, owed'[k] # None
               PROVE  /\ \A q \in Operations :
                           Saving(q)' => list'[q][k].local = owed'[k]
                      /\ (\A q \in Operations : opc'[q] # "save") =>
                           box'[k].local = owed'[k]
  BY DEF OwedKept, At
<1> DEFINE Goal == /\ \A q \in Operations :
                        Saving(q)' => list'[q][k].local = owed'[k]
                   /\ (\A q \in Operations : opc'[q] # "save") =>
                        box'[k].local = owed'[k]
<1>2. ASSUME \A q \in Operations : ~Saving(q)', box'[k].local = owed'[k]
      PROVE  Goal
  BY <1>2
<1>3. ASSUME ~overlapped, crashes = 0, owed[k] # None,
             \A q \in Operations : ~At(q, "save")
      PROVE  box[k].local = owed[k]
  BY <1>3 DEF OwedKept
<1> HIDE DEF Goal
<1>4. ASSUME NEW o \in Operations, Start(o) PROVE Goal
  <2>1. ~overlapped /\ \A q \in Operations : At(q, "idle")
    BY <1>1, <1>4, BeginsAlone
  <2>2. box' = box /\ owed' = owed /\ crashes = 0
    BY <1>1, <1>4 DEF Start, users
  <2>3. \A q \in Operations : ~Saving(q)'
    BY <1>0, <1>4, <2>1, StartEffect DEF Others, Same, Saving, At
  <2> QED
    BY <1>1, <1>2, <1>3, <2>1, <2>2, <2>3 DEF At
<1>5. ASSUME NEW o \in Operations, NEW e \in Edits, Review(o, e) PROVE Goal
  <2>1. ~overlapped /\ (\A q \in Operations : At(q, "idle")) /\ crashes = 0
    BY <1>1, <1>5, BeginsAlone DEF Review
  <2>2. \A q \in Operations : ~Saving(q)'
    BY <1>0, <1>5, <2>1, ReviewEffect DEF Others, Same, Saving, At
  <2>3. owed[k] # None => box[k].local = owed[k]
    BY <1>3, <2>1 DEF At
  <2>4. box'[k].local = owed'[k]
    BY <1>1, <1>5, <2>3, ReviewBox
  <2> QED
    BY <1>2, <2>2, <2>4
<1>6. ASSUME NEW o \in Operations, Goes(o) PROVE Goal
  <2>1. ~overlapped /\ crashes = 0
    BY <1>1, <1>6, GoesEffect
  <2>2. \A q \in Operations \ {o} : opc[q] = "idle" /\ opc'[q] = "idle"
    BY <1>6, <2>1, AloneEffect DEF At, Same
  <2>3. \A q \in Operations \ {o} : ~Saving(q)' /\ ~At(q, "save")
    BY <2>2 DEF Saving, At
  <2>4. ASSUME opc[o] # "save", owed[k] # None PROVE box[k].local = owed[k]
    BY <1>3, <2>1, <2>3, <2>4 DEF At
  <2>5. ASSUME ~Saving(o)', box'[k].local = owed'[k] PROVE Goal
    BY <1>2, <2>3, <2>5
  <2>6. Over(o) => ~Saving(o)'
    BY DEF Over, Saving
  <2>7. CASE Respond(o) \/ Post(o) \/ PostAgain(o)
    <3>1. box' = box /\ owed' = owed /\ opc[o] # "save"
      BY <2>7 DEF Respond, Post, PostAgain, users, At
    <3>2. ~Saving(o)'
      BY <1>0, <2>7, RespondEffect, PostsEdit, PostEffect, PostAgainEffect
         DEF Post, Saving, At
    <3> QED
      BY <1>1, <2>4, <2>5, <3>1, <3>2
  <2>8. CASE NoAnswer(o) \/ PostFails(o)
    <3>1. box' = box /\ owed' = owed /\ opc[o] # "save" /\ Over(o)
      BY <1>0, <2>8, DoneEffect DEF NoAnswer, PostFails, At
    <3> QED
      BY <1>1, <2>4, <2>5, <2>6, <3>1
  <2>9. CASE Merge(o)
    <3>1. box' = box /\ owed' = owed /\ opc[o] # "save"
      BY <2>9 DEF Merge, users, At
    <3>2. box[k].local = owed[k] /\ Pending(box[k])
      BY <1>1, <2>4, <3>1 DEF Pending
    <3>3. CASE Over(o)
      BY <2>5, <2>6, <3>1, <3>2, <3>3
    <3>4. CASE list'[o] = Merged(o)
      <4>1. list'[o][k].local = owed'[k]
        BY <3>1, <3>2, <3>4, MergedLocal
      <4>2. \A q \in Operations : Saving(q)' => list'[q][k].local = owed'[k]
        BY <2>3, <4>1
      <4> QED
        BY <3>1, <3>2, <4>2 DEF Goal
    <3> QED
      BY <2>9, <3>3, <3>4, MergeEffect
  <2>10. CASE Clear(o)
    <3>1. owed' = owed /\ list'[o] = list[o] /\ opc'[o] = "save" /\ Saving(o)
      BY <1>0, <2>10, ClearEffect DEF Clear, users, Saving, At
    <3>2. list[o][k].local = owed[k]
      BY <1>1, <2>1, <3>1 DEF OwedKept
    <3> QED
      BY <2>3, <3>1, <3>2 DEF Goal
  <2>11. CASE PutAll(o)
    <3>1. owed' = owed /\ Saving(o) /\ Over(o)
          /\ box'[k] = IF list[o][k] # Absent THEN list[o][k] ELSE box[k]
      BY <1>0, <2>11, DoneEffect DEF PutAll, users, Saving, At
    <3>2. list[o][k].local = owed[k]
      BY <1>1, <2>1, <3>1 DEF OwedKept
    <3>3. list[o][k] # Absent
      BY <1>1, <3>1, <3>2, AbsentCached
    <3> QED
      BY <2>5, <2>6, <3>1, <3>2, <3>3
  <2>12. CASE ShowDetail(o)
    <3>1. owed' = owed /\ opc[o] # "save" /\ Over(o)
          /\ box'[k] = IF k \in page[o] THEN Resolve(o, k) ELSE box[k]
      BY <1>0, <2>12, DoneEffect DEF ShowDetail, users, At
    <3>2. box[k].local = owed[k] /\ Pending(box[k])
      BY <1>1, <2>4, <3>1 DEF Pending
    <3>3. box'[k] = box[k]
      BY <3>1, <3>2, ResolveType
    <3> QED
      BY <2>5, <2>6, <3>1, <3>2, <3>3
  <2>13. CASE Confirm(o)
    <3> DEFINE i == Target[edit[o]]
    <3>1. /\ kind[o] = "review" /\ opc[o] # "save" /\ Over(o) /\ i \in Keys
          /\ box' = [box EXCEPT ![i] = Unlocked(o, i)]
          /\ owed' = [owed EXCEPT ![i] = IF @ = edit[o] THEN None ELSE @]
      BY <1>0, <2>13, ReviewsEdit, DoneEffect DEF Confirm, At
    <3>2. owed[i] \in {None, edit[o]}
      BY <2>1, <3>1 DEF OwedReviewed
    <3>3. box \in [Keys -> Cached] /\ owed \in [Keys -> Changes \cup {None}]
      BY DEF TypeOK
    <3> HIDE DEF i
    <3>4. owed'[i] = None
      BY <3>1, <3>2, <3>3
    <3>5. k # i /\ box'[k] = box[k] /\ owed'[k] = owed[k]
      BY <1>1, <3>1, <3>3, <3>4
    <3> QED
      BY <1>1, <2>4, <2>5, <2>6, <3>1, <3>5
  <2> QED
    BY <1>6, <2>7, <2>8, <2>9, <2>10, <2>11, <2>12, <2>13 DEF Goes
<1>7. CASE Outside
  <2>1. ASSUME NEW c \in Creations, Create(c) PROVE Goal
    <3>1. ~overlapped /\ \A q \in Operations : opc[q] = "idle"
      BY <1>1, <2>1, CreatesAlone DEF At
    <3>2. opc' = opc /\ crashes = 0
      BY <1>1, <2>1 DEF Create, locals
    <3>3. owed[k] # None => box[k].local = owed[k]
      BY <1>3, <3>1, <3>2 DEF At
    <3>4. box'[k].local = owed'[k]
      BY <1>1, <2>1, <3>3, CreateBox
    <3>5. \A q \in Operations : ~Saving(q)'
      BY <3>1, <3>2 DEF Saving
    <3> QED
      BY <1>2, <3>4, <3>5
  <2>2. ASSUME UNCHANGED <<opc, list, box, owed, overlapped, crashes>> PROVE Goal
    BY <1>1, <2>2 DEF OwedKept, Goal, Saving, At
  <2>3. ASSUME NEW i \in Ids, ServerChange(i)
        PROVE  UNCHANGED <<opc, list, box, owed, overlapped, crashes>>
    BY <2>3 DEF ServerChange, users, locals
  <2>4. UNCHANGED vars =>
          UNCHANGED <<opc, list, box, owed, overlapped, crashes>>
    BY DEF vars, users, locals
  <2> QED
    BY <1>7, <2>1, <2>2, <2>3, <2>4 DEF Outside, Goal
<1>8. ASSUME Crash PROVE FALSE
  BY <1>1, <1>8, CrashEffect DEF TypeOK
<1> QED
  BY <1>4, <1>5, <1>6, <1>7, <1>8, NextCases DEF Goal
\* Only the review of an edit reports that it has been made.
LEMMA UpdatedEffect ==
    ASSUME TypeOK, OneReview, ReviewPosts, AppliedTried,
           NEW o \in Operations, Goes(o), NEW e \in Edits,
           told[e] # "updated", told'[e] = "updated"
    PROVE  Confirm(o) /\ edit[o] = e
<1>0. told \in [Edits -> {"nothing", "saving", "updated", "kept"}]
  BY DEF TypeOK
<1>1. kind[o] = "review" /\ edit[o] = e
  BY ToldEffect
<1>2. ~(NoAnswer(o) \/ PostFails(o))
  BY <1>0, <1>1 DEF NoAnswer, PostFails
<1>3. ~(Respond(o) \/ Merge(o) \/ Clear(o) \/ PutAll(o) \/ ShowDetail(o)
          \/ Post(o) \/ PostAgain(o))
  BY DEF Respond, Merge, Clear, PutAll, ShowDetail, Post, PostAgain, users
<1> QED
  BY <1>1, <1>2, <1>3 DEF Goes

LEMMA ConfirmedClearedStep ==
    ASSUME TypeOK, Serial, OneReview, ReviewPosts, AppliedTried, AnswersClean,
           EditsInPlace, ConfirmedCleared, [Next]_vars
    PROVE  ConfirmedCleared'
<1>0. LocalsTyped /\ None \notin Edits
  BY LocalTypes, CacheAssumption
<1>1. SUFFICES ASSUME ~overlapped', NEW e \in Edits, told'[e] = "updated",
                      NEW k \in Keys
               PROVE  /\ box'[k].local # e
                      /\ \A q \in Operations : Saving(q)' => list'[q][k].local # e
  BY DEF ConfirmedCleared
<1> DEFINE Goal == /\ box'[k].local # e
                   /\ \A q \in Operations : Saving(q)' => list'[q][k].local # e
<1>2. ASSUME ~overlapped, told[e] = "updated"
      PROVE  /\ box[k].local # e
             /\ \A q \in Operations : Saving(q) => list[q][k].local # e
  BY <1>2 DEF ConfirmedCleared
<1>3. ASSUME box'[k].local # e, \A q \in Operations : ~Saving(q)' PROVE Goal
  BY <1>3
<1> HIDE DEF Goal
<1>4. ASSUME NEW o \in Operations, Start(o) PROVE Goal
  <2>1. ~overlapped /\ (\A q \in Operations : At(q, "idle"))
        /\ box' = box /\ told' = told
    BY <1>1, <1>4, BeginsAlone DEF Start, users
  <2>2. \A q \in Operations : ~Saving(q)'
    BY <1>0, <1>4, <2>1, StartEffect DEF Others, Same, Saving, At
  <2> QED
    BY <1>1, <1>2, <1>3, <2>1, <2>2
<1>5. ASSUME NEW o \in Operations, NEW d \in Edits, Review(o, d) PROVE Goal
  <2>1. ~overlapped /\ \A q \in Operations : At(q, "idle")
    BY <1>1, <1>5, BeginsAlone
  <2>2. \A q \in Operations : ~Saving(q)'
    BY <1>0, <1>5, <2>1, ReviewEffect DEF Others, Same, Saving, At
  <2>3. e # d /\ told[e] = "updated"
    BY <1>1, <1>5 DEF Review, TypeOK
  <2>4. box'[k].local # e
    BY <1>2, <1>5, <2>1, <2>3, ReviewBox
  <2> QED
    BY <1>3, <2>2, <2>4
<1>6. ASSUME NEW o \in Operations, Goes(o), told[e] = "updated" PROVE Goal
  <2>1. ~overlapped
    BY <1>1, <1>6, GoesEffect
  <2>2. box'[k].local # e
    BY <1>0, <1>2, <1>6, <2>1, BoxEffect DEF Saving, At
  <2>3. ASSUME NEW q \in Operations, Saving(q)' PROVE list'[q][k].local # e
    <3>1. ~Over(q)
      BY <2>3 DEF Over, Saving
    <3>2. CASE list'[q] = list[q] /\ Saving(q)
      BY <1>2, <1>6, <2>1, <3>2
    <3>3. CASE q = o /\ list'[q] = Merged(o)
      BY <1>0, <1>2, <1>6, <2>1, <3>3, MergedLocal
    <3> QED
      BY <1>6, <2>3, <3>1, <3>2, <3>3, ListEffect
  <2> QED
    BY <2>2, <2>3 DEF Goal
<1>7. ASSUME NEW o \in Operations, Goes(o), told[e] # "updated" PROVE Goal
  <2>1. ~overlapped
    BY <1>1, <1>7, GoesEffect
  <2>2. Confirm(o) /\ edit[o] = e
    BY <1>1, <1>7, UpdatedEffect
  <2>3. /\ Over(o) /\ Target[e] \in Ids /\ Target[e] \in Keys
        /\ box' = [box EXCEPT ![Target[e]] = Unlocked(o, Target[e])]
    BY <1>0, <2>2, ReviewsEdit, DoneEffect DEF Confirm
  <2>4. \A q \in Operations : ~Saving(q)'
    BY <1>7, <2>1, <2>3, AloneEffect DEF Over, Same, Saving, At
  <2>5. Unlocked(o, Target[e]).local # e
    BY <1>0, <2>3 DEF Unlocked, AnswersClean
  <2>6. box \in [Keys -> Cached]
    BY DEF TypeOK
  <2>7. box'[k].local # e
    <3>1. CASE k = Target[e]
      BY <2>3, <2>5, <2>6, <3>1
    <3>2. CASE k # Target[e]
      BY <2>3, <2>6, <3>2 DEF EditsInPlace
    <3> QED
      BY <3>1, <3>2
  <2> QED
    BY <1>3, <2>4, <2>7
<1>8. CASE Outside
  <2>1. told' = told /\ list' = list /\ opc' = opc
    BY <1>8, OutsideEffect
  <2>2. ~overlapped
    BY <1>1, <1>8, OutsideEffect
  <2>3. ASSUME NEW c \in Creations, Create(c) PROVE box'[k].local # e
    BY <1>1, <1>2, <2>1, <2>2, <2>3, CreateBox
  <2>4. ASSUME box' = box PROVE box'[k].local # e
    BY <1>1, <1>2, <2>1, <2>2, <2>4
  <2>5. box'[k].local # e
    BY <1>8, <2>3, <2>4 DEF Outside, ServerChange, vars
  <2> QED
    BY <1>1, <1>2, <2>1, <2>2, <2>5 DEF Goal, Saving
<1>9. CASE Crash
  <2>1. told[e] = "updated" /\ ~overlapped /\ \A q \in Operations : Over(q)
    BY <1>1, <1>9, CrashEffect
  <2>2. box'[k].local # e
    BY <1>0, <1>2, <1>9, <2>1, CrashEffect, AbsentCached
  <2> QED
    BY <1>3, <2>1, <2>2 DEF Over, Saving
<1> QED
  BY <1>4, <1>5, <1>6, <1>7, <1>8, <1>9, NextCases DEF Goal

-----------------------------------------------------------------------------
(* The theorems *)

LEMMA InitInv == Init => IInv
<1> SUFFICES ASSUME Init PROVE IInv
  OBVIOUS
<1>1. TypeOK
  BY TypeInit
<1>2. Serial /\ OneReview /\ ReviewPosts
  BY DEF Init, Serial, OneReview, ReviewPosts, At
<1>3. AppliedTried /\ AppliedVersions /\ AnswerIsNew
  BY CacheAssumption
     DEF Init, AppliedTried, AppliedVersions, AnswerIsNew, At
<1>4. AnswersClean /\ EditsInPlace
  BY AbsentCached, CacheAssumption DEF Init, AnswersClean, EditsInPlace
<1>5. OwedKept /\ OwedReviewed /\ ConfirmedCleared
  BY DEF Init, OwedKept, OwedReviewed, ConfirmedCleared
<1> QED
  BY <1>1, <1>2, <1>3, <1>4, <1>5 DEF IInv

LEMMA IInvStep == IInv /\ [Next]_vars => IInv'
BY TypeStep, SerialStep, OneReviewStep, ReviewPostsStep, AppliedTriedStep,
   AppliedVersionsStep, AnswerIsNewStep, AnswersCleanStep, EditsInPlaceStep,
   OwedKeptStep, OwedReviewedStep, ConfirmedClearedStep DEF IInv

LEMMA Invariant == Spec => []IInv
BY InitInv, IInvStep, PTL DEF Spec

(* The box, the lists and the requests keep their types, and the server     *)
(* carries out a POST once for each time it is sent and no oftener.         *)
THEOREM TypeCorrect == Spec => []TypeOK
BY Invariant, PTL DEF IInv

(* A local change stays in the cache until it is confirmed or replaced, for *)
(* any number of edits, creations, pages and retries, while operations have *)
(* not overlapped and the app has not died.                                 *)
THEOREM SerialKept == Spec => []SerialChangesKept
<1>1. IInv => SerialChangesKept
  <2> SUFFICES ASSUME IInv, ~overlapped, crashes = 0, NEW k \in Keys,
                      owed[k] # None
               PROVE  Kept(k, owed[k])
    BY DEF SerialChangesKept, LocalChangesKept
  <2>1. OwedKept
    BY DEF IInv
  <2>2. CASE \E o \in Operations : At(o, "save")
    BY <2>1, <2>2 DEF OwedKept, Kept, Saving, At
  <2>3. CASE \A o \in Operations : ~At(o, "save")
    BY <2>1, <2>3 DEF OwedKept, Kept
  <2> QED
    BY <2>2, <2>3
<1> QED
  BY <1>1, Invariant, PTL

(* While operations have not overlapped, a confirmed edit is not pending    *)
(* anywhere in the cache, whatever was fetched or died before.              *)
THEOREM LocksCleared == Spec => []LockStaysCleared
<1>1. IInv => LockStaysCleared
  BY DEF IInv, ConfirmedCleared, LockStaysCleared
<1> QED
  BY <1>1, Invariant, PTL

(* No merge loses or overwrites a pending entry it finds, however           *)
(* operations overlap: the cache is read and merged without an await.       *)
THEOREM MergesKeepPending == Spec => MergeKeepsPending
<1> DEFINE Keeps == \A o \in Operations : At(o, "arrive") /\ opc'[o] = "clear" =>
                      \A k \in Keys : Pending(box[k]) => list'[o][k] = box[k]
<1>1. ASSUME IInv, [Next]_vars PROVE [Keeps]_vars
  <2> SUFFICES ASSUME NEW o \in Operations, At(o, "arrive"), opc'[o] = "clear",
                      NEW k \in Keys, Pending(box[k])
               PROVE  list'[o][k] = box[k]
    OBVIOUS
  <2>0. /\ TypeOK /\ OneReview /\ ReviewPosts /\ AppliedTried /\ AnswersClean
        /\ LocalsTyped
    BY <1>1, LocalTypes DEF IInv
  <2>1. ASSUME NEW q \in Operations, Goes(q)
        PROVE  list'[o] = Merged(o)
    <3>1. ~Over(o)
      BY DEF Over
    <3>2. ~Saving(o) /\ Saving(o)'
      BY DEF Saving, At
    <3> QED
      BY <2>0, <2>1, <3>1, <3>2, ListEffect
  <2>2. ASSUME NEW q \in Operations, Start(q) \/ \E e \in Edits : Review(q, e)
        PROVE  FALSE
    BY <2>0, <2>2, StartEffect, ReviewEffect DEF Others, Same, At
  <2>3. ASSUME Outside \/ Crash PROVE FALSE
    BY <2>3, OutsideEffect, CrashEffect DEF Over, At
  <2>4. list'[o] = Merged(o)
    BY <1>1, <2>1, <2>2, <2>3, NextCases
  <2> QED
    BY <2>0, <2>4, MergedLocal
<1> QED
  BY <1>1, Invariant, PTL DEF Spec, MergeKeepsPending

(* The user is told that an edit has been made only if the server has made  *)
(* it, and the cache then has a row no older than the edit, however         *)
(* operations overlap and the POST is repeated.                             *)
THEOREM SuccessShown == Spec => SuccessIsShown
<1> DEFINE Shown == \A e \in Edits : told[e] = "saving" /\ told'[e] = "updated" =>
                      applied[e] > 0 /\ box'[Target[e]].version >= applied[e]
<1>1. ASSUME IInv, [Next]_vars PROVE [Shown]_vars
  <2> SUFFICES ASSUME NEW e \in Edits, told[e] = "saving", told'[e] = "updated"
               PROVE  applied[e] > 0 /\ box'[Target[e]].version >= applied[e]
    OBVIOUS
  <2>0. /\ TypeOK /\ OneReview /\ ReviewPosts /\ AppliedTried /\ AnswerIsNew
    BY <1>1 DEF IInv
  <2>1. ASSUME NEW o \in Operations, Start(o) \/ \E d \in Edits : Review(o, d)
        PROVE  FALSE
    BY <2>0, <2>1 DEF Start, Review, users, TypeOK
  <2>2. ASSUME Outside \/ Crash PROVE FALSE
    BY <2>2, OutsideEffect, CrashEffect
  <2>3. PICK o \in Operations : Goes(o)
    BY <1>1, <2>1, <2>2, NextCases
  <2>4. Confirm(o) /\ edit[o] = e
    BY <2>0, <2>3, UpdatedEffect
  <2>5. /\ At(o, "arrive") /\ kind[o] = "review" /\ Target[e] \in Keys
        /\ box' = [box EXCEPT ![Target[e]] = Unlocked(o, Target[e])]
    BY <2>0, <2>4, ReviewsEdit DEF Confirm
  <2>6. box'[Target[e]] = answer[o][Target[e]]
    BY <2>0, <2>5 DEF TypeOK, Unlocked
  <2>7. answer[o][Target[e]].version >= applied[e] /\ applied[e] > 0
    BY <2>0, <2>4, <2>5 DEF AnswerIsNew, ReviewPosts, At
  <2> QED
    BY <2>6, <2>7
<1> QED
  BY <1>1, Invariant, PTL DEF Spec, SuccessIsShown
=============================================================================
