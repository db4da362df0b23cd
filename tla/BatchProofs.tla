---------------------------- MODULE BatchProofs ----------------------------
(***************************************************************************)
(* BatchProcessing for any messages, extractions, batches and bounds.      *)
(*                                                                         *)
(* Each property of the committed tables has a counterpart for the session *)
(* of the batch (Session...), which holds of the draft while it grows; the *)
(* commit joins the two.  What makes the join harmless is that a batch     *)
(* stages only messages that are still pending in the table (StagedFresh), *)
(* so whatever it writes about a message is written for the first time.    *)
(***************************************************************************)
EXTENDS BatchProcessing, FiniteSetTheorems, TLAPS

-----------------------------------------------------------------------------
(* The inductive invariant *)

Booked(t) == Find(t) # NoRow

NeedsReview(e) == e \notin {"parsed", "review_needed", "NON_TRANSACTION"}

\* The jobs of the batch are among the payloads that wait.
CopiesCover == \A m \in Messages : InBatch(m) <= copies[m]

\* Between batches there is no draft.
NoDraft == phase \in {"idle", "settle"} => session = NewSession /\ cands = <<>>

\* Candidates were pending when the batch began, and still are.
Candidates ==
    /\ \A m \in Range(cands) :
         /\ outcome[m] = "pending" /\ Kind[m] \in {"payment", "edit"}
         /\ phase \in {"route", "commit"} => extraction[m] \in AllExtractions
    /\ phase = "route" => \A i \in DOMAIN todo : todo[i] \in Range(cands)

\* A staged message is pending in the table, and its outcome follows from
\* what it is and how its extraction ended.
StagedFresh ==
    \A m \in Messages : session.outcome[m] # "pending" =>
        /\ outcome[m] = "pending"
        /\ \/ Kind[m] = "chat" /\ session.outcome[m] = "NON_TRANSACTION"
           \/ Kind[m] = "revoke" /\ session.outcome[m] = "REVOKED"
           \/ /\ Kind[m] \in {"payment", "edit"} /\ phase \in {"route", "commit"}
              /\ session.outcome[m] =
                   IF NeedsReview(extraction[m]) THEN "review_needed" ELSE "success"

SessionReviews ==
    \A m \in Messages :
        session.outcome[m] = "review_needed" <=> m \in session.flagged

\* What the draft says about a transaction, a staged message of this batch caused.
SessionCauses ==
    \A i \in DOMAIN session.audit :
        /\ session.audit[i].batch = batchNo
        /\ session.audit[i].cause \in Messages
        /\ session.outcome[session.audit[i].cause] # "pending"

CausesProcessed ==
    \A i \in DOMAIN audit :
        audit[i].cause # None => outcome[audit[i].cause] # "pending"

\* A transaction has the content of its message, whatever was done to it,
\* and no other transaction has.
OwnContent ==
    \A t \in Messages :
        /\ txns[t] # NoRow => txns[t].hash = Content[t]
        /\ session.txns[t] # NoRow => session.txns[t].hash = Content[t]

ContentsDiffer ==
    \A t, u \in Messages : t # u /\ Booked(t) /\ Booked(u) => Content[t] # Content[u]

\* Only a processed message has a transaction, and its batch was begun.
OnlyProcessedBooked ==
    \A t \in Messages :
        /\ txns[t] # NoRow => outcome[t] # "pending"
        /\ txns[t] = NoRow /\ session.txns[t] # NoRow => session.outcome[t] # "pending"
        /\ writtenBy[t] <= batchNo

\* The draft's trail continues the committed one.
SessionTrail ==
    \A t \in Messages :
        IF session.txns[t] = NoRow THEN Silent(session.audit, t)
        ELSE /\ LeavesAs(session.audit, t, session.txns[t].status)
             /\ txns[t] = NoRow => Creates(session.audit, t)

SessionEdits ==
    \A i \in DOMAIN session.audit :
        LET m == session.audit[i].txn IN
        Kind[m] = "edit" /\ session.audit[i].action = "created" /\ Original[m] # None =>
           /\ txns[Original[m]] = NoRow
           /\ \A k \in DOMAIN session.audit :
                session.audit[k].txn = Original[m] => i <= k

SessionPayments ==
    \A m \in Messages :
        /\ session.outcome[m] = "success"
        /\ extraction[m] \in {"parsed", "review_needed"}
        => \/ \E t \in Messages : Booked(t) /\ Content[t] = Content[m]
           \/ \E i \in DOMAIN session.audit :
                session.audit[i].cause = m /\ session.audit[i].txn = Original[m]

SessionRevokes ==
    \A m \in Messages :
        session.outcome[m] = "REVOKED" /\ Original[m] # None =>
           \/ txns[Original[m]] = NoRow
           \/ \E i \in DOMAIN session.audit :
                /\ session.audit[i].txn = Original[m] /\ session.audit[i].cause = m
                /\ session.audit[i].action = "invalidated"

\* Trail a has an entry of another message ahead of all those of m.
Ahead(a, m) ==
    \E i \in DOMAIN a :
        /\ a[i].cause \in Messages \ {m}
        /\ \A k \in DOMAIN a : a[k].cause = m => i < k

\* A parsing_meta that the draft holds of a candidate is its scores or how its
\* extraction ended; scores that were flushed had another's change with them,
\* and the routing puts every other value in their place.
SessionRoutings ==
    /\ \A m \in Messages : session.meta[m] # "none" => outcome[m] = "pending"
    /\ \A m \in session.flushed : session.meta[m] # "none"
    /\ \A m \in Range(cands) : session.meta[m] # "none"
    /\ \A m \in Messages : Kind[m] \in {"payment", "edit"} =>
         /\ session.meta[m] \in {"none", "scored", extraction[m]}
         /\ phase \notin {"route", "commit"} => session.meta[m] \in {"none", "scored"}
         /\ m \in session.flushed /\ session.meta[m] = "scored" => Ahead(session.audit, m)
         /\ session.outcome[m] \in {"success", "review_needed"} =>
              /\ extraction[m] # "none"
              /\ \/ session.meta[m] = extraction[m]
                 \/ session.meta[m] = "scored" /\ m \in session.flushed

Draft == /\ NoDraft /\ Candidates /\ StagedFresh /\ SessionReviews /\ SessionCauses
         /\ OwnContent /\ ContentsDiffer /\ SessionTrail /\ SessionEdits
         /\ SessionPayments /\ SessionRevokes /\ SessionRoutings

IInv == /\ TypeOK /\ CopiesCover /\ Draft
        /\ CausesProcessed /\ OnlyProcessedBooked
        /\ EffectsInOneCommit /\ ReviewsRaised /\ BooksMatchAudit
        /\ EditNotDuplicated /\ PaymentAccounted /\ RevokeHonoured
        /\ RoutingLostOnlyBehindFlush

-----------------------------------------------------------------------------
(* Rows and drafts *)

LEMMA Constants ==
    /\ Kind \in [Messages -> Kinds]
    /\ Original \in [Messages -> Messages \cup {None}]
    /\ None \notin Messages
    /\ Extractions \subseteq AllExtractions
    /\ Fallback \subseteq Messages
    /\ \A m \in Messages : Content[m] \in Range(Content)
BY BatchAssumption DEF Range

FullRows == [status : Statuses, hash : Range(Content)]

LEMMA RowTypes ==
    ASSUME NEW row \in Rows
    PROVE  /\ row # NoRow => row \in FullRows
           /\ row \in FullRows => row # NoRow
           /\ row = NoRow => row.status = "none"
           /\ row # NoRow => row.status \in Statuses /\ row.status # "none"
BY DEF Rows, FullRows, NoRow, Statuses

LEMMA FindTypes ==
    ASSUME TypeOK, NEW t \in Messages
    PROVE  /\ Find(t) \in Rows
           /\ txns[t] \in Rows /\ session.txns[t] \in Rows
           /\ Booked(t) <=> txns[t] # NoRow \/ session.txns[t] # NoRow
           /\ session.txns[t] # NoRow => Find(t) = session.txns[t]
           /\ session.txns[t] = NoRow => Find(t) = txns[t]
BY DEF TypeOK, Sessions, Find, Booked

(* A row whose status is changed is the same transaction. *)
LEMMA Restated ==
    ASSUME NEW row \in Rows, row # NoRow, NEW status \in Statuses
    PROVE  /\ [row EXCEPT !.status = status] \in FullRows
           /\ [row EXCEPT !.status = status] \in Rows
           /\ [row EXCEPT !.status = status] # NoRow
           /\ [row EXCEPT !.status = status].status = status
           /\ [row EXCEPT !.status = status].hash = row.hash
<1>1. row \in FullRows
  BY RowTypes
<1>2. [row EXCEPT !.status = status] \in FullRows
  BY <1>1 DEF FullRows
<1>3. [row EXCEPT !.status = status].status = status
      /\ [row EXCEPT !.status = status].hash = row.hash
  BY <1>1 DEF FullRows
<1>4. [row EXCEPT !.status = status] \in Rows
  BY <1>2 DEF FullRows, Rows
<1> QED
  BY <1>2, <1>3, <1>4, RowTypes

LEMMA NewSessionType ==
    /\ NewSession \in Sessions
    /\ \A m \in Messages : /\ NewSession.outcome[m] = "pending"
                           /\ NewSession.meta[m] = "none"
                           /\ NewSession.txns[m] = NoRow
    /\ NewSession.audit = <<>>
    /\ NewSession.flagged = {} /\ NewSession.flushed = {}
<1>1. [m \in Messages |-> "pending"] \in [Messages -> Outcomes]
  BY DEF Outcomes
<1>2. [m \in Messages |-> "none"] \in [Messages -> Metas]
  BY DEF Metas
<1>3. [m \in Messages |-> NoRow] \in [Messages -> Rows]
  BY DEF Rows
<1>4. <<>> \in Seq(AuditRows)
  OBVIOUS
<1> QED
  BY <1>1, <1>2, <1>3, <1>4 DEF NewSession, Sessions

LEMMA SessionFields ==
    ASSUME NEW s \in Sessions
    PROVE  /\ s.outcome \in [Messages -> Outcomes]
           /\ s.meta \in [Messages -> Metas]
           /\ s.txns \in [Messages -> Rows]
           /\ s.audit \in Seq(AuditRows)
           /\ s.flagged \subseteq Messages
           /\ s.flushed \subseteq Messages
BY DEF Sessions

(* Staging an outcome, and replacing a message's parsing_meta. *)
LEMMA StageFields ==
    ASSUME NEW s \in Sessions, NEW m \in Messages, NEW how \in Outcomes
    PROVE  /\ [s EXCEPT !.outcome[m] = how] \in Sessions
           /\ [s EXCEPT !.outcome[m] = how].outcome = [s.outcome EXCEPT ![m] = how]
           /\ [s EXCEPT !.outcome[m] = how].txns = s.txns
           /\ [s EXCEPT !.outcome[m] = how].audit = s.audit
           /\ [s EXCEPT !.outcome[m] = how].flagged = s.flagged
           /\ [s EXCEPT !.outcome[m] = how].meta = s.meta
           /\ [s EXCEPT !.outcome[m] = how].flushed = s.flushed
<1>1. [s.outcome EXCEPT ![m] = how] \in [Messages -> Outcomes]
  BY SessionFields
<1> QED
  BY <1>1 DEF Sessions

LEMMA EntryType ==
    ASSUME batchNo \in Nat, NEW t \in Messages, NEW action \in Actions,
           NEW status \in Statuses, NEW cause \in Messages \cup {None}
    PROVE  /\ Entry(t, action, status, cause) \in AuditRows
           /\ Entry(t, action, status, cause).txn = t
           /\ Entry(t, action, status, cause).action = action
           /\ Entry(t, action, status, cause).status = status
           /\ Entry(t, action, status, cause).cause = cause
           /\ Entry(t, action, status, cause).batch = batchNo
BY DEF Entry, AuditRows

\* The messages of which the draft holds a parsing_meta.
Noted(s) == {m \in Messages : s.meta[m] # "none"}

LEMMA FlushFields ==
    ASSUME batchNo \in Nat, NEW s \in Sessions, NEW t \in Messages,
           NEW row \in FullRows, NEW action \in Actions,
           NEW cause \in Messages \cup {None}
    PROVE  LET new == Flush(s, t, row, action, cause) IN
           /\ new \in Sessions
           /\ new.outcome = s.outcome /\ new.flagged = s.flagged
           /\ new.txns = [s.txns EXCEPT ![t] = row]
           /\ new.audit = Append(s.audit, Entry(t, action, row.status, cause))
           /\ new.meta = s.meta
           /\ new.flushed = Noted(s)
<1>1. row \in Rows /\ row.status \in Statuses
  BY DEF FullRows, Rows
<1>2. Entry(t, action, row.status, cause) \in AuditRows
  BY <1>1, EntryType
<1>3. [s.txns EXCEPT ![t] = row] \in [Messages -> Rows]
  BY <1>1, SessionFields
<1>4. Append(s.audit, Entry(t, action, row.status, cause)) \in Seq(AuditRows)
  BY <1>2, SessionFields
<1>5. Noted(s) \subseteq Messages
  BY DEF Noted
<1>6. Flush(s, t, row, action, cause) =
        [s EXCEPT !.txns[t] = row,
                  !.audit = Append(@, Entry(t, action, row.status, cause)),
                  !.flushed = Noted(s)]
  BY DEF Flush, Noted
<1> HIDE DEF FullRows
<1> QED
  BY <1>3, <1>4, <1>5, <1>6 DEF Sessions

-----------------------------------------------------------------------------
(* How a draft grows: not at all, or by one row and its audit entry *)

Kept(s) == s.txns = session.txns /\ s.audit = session.audit

\* Writing this row of t and this entry, for message m, keeps the books in order.
Legal(t, row, e, m) ==
    /\ row.hash = Content[t] /\ row.status \in Statuses
    /\ e.txn = t /\ e.status = row.status /\ e.batch = batchNo /\ e.cause = m
    /\ e.action = "created" <=> ~Booked(t)
    /\ ~Booked(t) =>
         /\ t = m
         /\ \A u \in Messages : u # t /\ Booked(u) => Content[u] # Content[t]
         /\ Kind[t] = "edit" /\ Original[t] # None => ~Booked(Original[t])

Grown(s, t, row, e) ==
    /\ s.txns = [session.txns EXCEPT ![t] = row]
    /\ s.audit = Append(session.audit, e)

Drafts(s, m) ==
    \/ Kept(s)
    \/ \E t \in Messages, row \in FullRows, e \in AuditRows :
          Legal(t, row, e, m) /\ Grown(s, t, row, e)

BookedIn(s, t) == s.txns[t] # NoRow \/ txns[t] # NoRow

LEMMA SameDraft ==
    ASSUME NEW r, NEW s, NEW m, r.txns = s.txns, r.audit = s.audit, Drafts(r, m)
    PROVE  Drafts(s, m)
<1>1. CASE Kept(r)
  BY <1>1 DEF Drafts, Kept
<1>2. CASE \E t \in Messages, row \in FullRows, e \in AuditRows :
             Legal(t, row, e, m) /\ Grown(r, t, row, e)
  <2>1. PICK t \in Messages, row \in FullRows, e \in AuditRows :
               Legal(t, row, e, m) /\ Grown(r, t, row, e)
    BY <1>2
  <2>2. Grown(s, t, row, e)
    BY <2>1 DEF Grown
  <2> QED
    BY <2>1, <2>2 DEF Drafts
<1> QED
  BY <1>1, <1>2 DEF Drafts

LEMMA FoundHash ==
    ASSUME TypeOK, OwnContent, NEW t \in Messages, Booked(t)
    PROVE  Find(t) \in FullRows /\ Find(t) \in Rows /\ Find(t) # NoRow
           /\ Find(t).hash = Content[t]
BY FindTypes, RowTypes DEF OwnContent, Booked

Restate(s, t, status, m) ==
    Flush(s, t, [Find(t) EXCEPT !.status = status], status, m)

LEMMA RestateIs ==
    \A s, t, m : /\ Correct(s, t, m) = Restate(s, t, "corrected", m)
                 /\ Invalidate(s, t, m) = Restate(s, t, "invalidated", m)
BY DEF Correct, Invalidate, Restate

(* A correction or an invalidation of a transaction that is there. *)
LEMMA RestateMove ==
    ASSUME TypeOK, OwnContent, NEW s \in Sessions, Kept(s),
           NEW t \in Messages, Booked(t), NEW m \in Messages,
           NEW status \in {"corrected", "invalidated"}
    PROVE  /\ Restate(s, t, status, m) \in Sessions
           /\ Restate(s, t, status, m).outcome = s.outcome
           /\ Restate(s, t, status, m).flagged = s.flagged
           /\ Drafts(Restate(s, t, status, m), m)
           /\ \E i \in DOMAIN Restate(s, t, status, m).audit :
                /\ Restate(s, t, status, m).audit[i].txn = t
                /\ Restate(s, t, status, m).audit[i].cause = m
                /\ Restate(s, t, status, m).audit[i].action = status
<1> DEFINE row == [Find(t) EXCEPT !.status = status]
           e == Entry(t, status, row.status, m)
           new == Flush(s, t, row, status, m)
<1>1. status \in Statuses /\ status \in Actions /\ status # "created"
  BY DEF Statuses, Actions
<1>2. row \in FullRows /\ row.status = status /\ row.hash = Content[t]
  BY <1>1, FoundHash, Restated
<1>3. batchNo \in Nat /\ m \in Messages \cup {None}
  BY DEF TypeOK
<1>4. e \in AuditRows /\ e.txn = t /\ e.action = status /\ e.status = row.status
      /\ e.cause = m /\ e.batch = batchNo
  BY <1>1, <1>2, <1>3, EntryType
<1> HIDE DEF row
<1>5. /\ new \in Sessions
      /\ new.outcome = s.outcome /\ new.flagged = s.flagged
      /\ new.txns = [s.txns EXCEPT ![t] = row]
      /\ new.audit = Append(s.audit, e)
  BY <1>1, <1>2, <1>3, FlushFields
<1>6. s.audit = session.audit /\ s.txns = session.txns /\ s.audit \in Seq(AuditRows)
  BY SessionFields DEF Kept
<1> HIDE DEF e, new
<1>7. Legal(t, row, e, m)
  BY <1>1, <1>2, <1>4 DEF Legal
<1>8. Drafts(new, m)
  BY <1>2, <1>4, <1>5, <1>6, <1>7 DEF Drafts, Grown
<1>9. Len(s.audit) + 1 \in DOMAIN new.audit /\ new.audit[Len(s.audit) + 1] = e
  BY <1>4, <1>5, <1>6
<1> QED
  BY <1>4, <1>5, <1>8, <1>9 DEF row, new, Restate

(* upsert_transaction: nothing, or a row of the message's own content.  In  *)
(* every case some transaction now has that content.                        *)
LEMMA UpsertMove ==
    ASSUME TypeOK, OwnContent, NEW s \in Sessions, Kept(s), NEW m \in Messages,
           NEW status \in {"parsed", "review_needed"},
           Kind[m] = "edit" /\ Original[m] # None => ~Booked(Original[m])
    PROVE  /\ Upsert(s, m, status) \in Sessions
           /\ Upsert(s, m, status).outcome = s.outcome
           /\ Upsert(s, m, status).flagged = s.flagged
           /\ Drafts(Upsert(s, m, status), m)
           /\ \E t \in Messages : Content[t] = Content[m]
                                /\ BookedIn(Upsert(s, m, status), t)
<1> DEFINE row == [status |-> status, hash |-> Content[m]]
           action == IF Find(m) = NoRow THEN "created" ELSE "updated"
           e == Entry(m, action, row.status, m)
           new == Flush(s, m, row, action, m)
<1>0. \A t \in Messages : Booked(t) => BookedIn(s, t)
  BY FindTypes DEF BookedIn, Kept
<1>1. CASE Find(m).status \in {"corrected", "invalidated"}
  <2>1. Upsert(s, m, status) = s
    BY <1>1 DEF Upsert
  <2>2. Booked(m)
    BY <1>1, FindTypes, RowTypes DEF Booked
  <2> QED
    BY <1>0, <2>1, <2>2 DEF Drafts
<1>2. CASE HashTaken(m)
  <2>1. Upsert(s, m, status) = s
    BY <1>2 DEF Upsert
  <2>2. \E t \in Messages : Booked(t) /\ Content[t] = Content[m]
    BY <1>2, FoundHash DEF HashTaken, Booked
  <2> QED
    BY <1>0, <2>1, <2>2 DEF Drafts
<1>3. CASE Find(m).status \notin {"corrected", "invalidated"} /\ ~HashTaken(m)
  <2>1. Upsert(s, m, status) = new
    BY <1>3 DEF Upsert
  <2>2. status \in Statuses /\ action \in Actions
    BY DEF Statuses, Actions
  <2>3. row \in FullRows /\ row.status = status /\ row.hash = Content[m]
    BY <2>2, Constants DEF FullRows
  <2>4. batchNo \in Nat /\ m \in Messages \cup {None}
    BY DEF TypeOK
  <2>5. e \in AuditRows /\ e.txn = m /\ e.action = action /\ e.status = row.status
        /\ e.cause = m /\ e.batch = batchNo
    BY <2>2, <2>3, <2>4, EntryType
  <2>6. \A u \in Messages : u # m /\ Booked(u) => Content[u] # Content[m]
    BY <1>3, FoundHash DEF HashTaken, Booked
  <2>7. action = "created" <=> ~Booked(m)
    BY DEF Booked
  <2> HIDE DEF row, action
  <2>8. /\ new \in Sessions
        /\ new.outcome = s.outcome /\ new.flagged = s.flagged
        /\ new.txns = [s.txns EXCEPT ![m] = row]
        /\ new.audit = Append(s.audit, e)
    BY <2>2, <2>3, <2>4, FlushFields
  <2>9. s.audit = session.audit /\ s.txns = session.txns
        /\ s.txns \in [Messages -> Rows]
    BY SessionFields DEF Kept
  <2> HIDE DEF e, new
  <2>10. Legal(m, row, e, m)
    BY <2>2, <2>3, <2>5, <2>6, <2>7 DEF Legal
  <2>11. Drafts(new, m)
    BY <2>3, <2>5, <2>8, <2>9, <2>10 DEF Drafts, Grown
  <2>12. BookedIn(new, m)
    <3>1. row \in Rows /\ row # NoRow
      BY <2>3, RowTypes DEF FullRows, Rows
    <3> QED
      BY <2>8, <2>9, <3>1 DEF BookedIn
  <2> QED
    BY <2>1, <2>8, <2>11, <2>12
<1> QED
  BY <1>1, <1>2, <1>3

LEMMA RecordedFields ==
    ASSUME TypeOK, NEW m \in Messages, extraction[m] \in AllExtractions
    PROVE  /\ Recorded(m) \in Sessions /\ Kept(Recorded(m))
           /\ Recorded(m).outcome = session.outcome
           /\ Recorded(m).flagged = session.flagged
           /\ Recorded(m).flushed = session.flushed
           /\ Recorded(m).meta =
                [session.meta EXCEPT ![m] = IF m \in session.flushed THEN @
                                            ELSE extraction[m]]
<1>1. session \in Sessions /\ session.meta \in [Messages -> Metas]
  BY SessionFields DEF TypeOK
<1>2. [session.meta EXCEPT ![m] = IF m \in session.flushed THEN @ ELSE extraction[m]]
        \in [Messages -> Metas]
  BY <1>1 DEF Metas
<1> QED
  BY <1>1, <1>2 DEF Recorded, Kept, Sessions

(* The routing of a candidate: the draft grows legally, and a payment is    *)
(* accounted for.                                                           *)
LEMMA RoutedMove ==
    ASSUME TypeOK, OwnContent, NEW m \in Messages, extraction[m] \in AllExtractions
    PROVE  /\ Routed(m) \in Sessions
           /\ Routed(m).outcome = session.outcome
           /\ Routed(m).flagged = session.flagged
           /\ Drafts(Routed(m), m)
           /\ extraction[m] \in {"parsed", "review_needed"} =>
                \/ \E t \in Messages : Content[t] = Content[m] /\ BookedIn(Routed(m), t)
                \/ \E i \in DOMAIN Routed(m).audit :
                      /\ Routed(m).audit[i].cause = m
                      /\ Routed(m).audit[i].txn = Original[m]
<1>0. /\ Recorded(m) \in Sessions /\ Kept(Recorded(m))
      /\ Recorded(m).outcome = session.outcome
      /\ Recorded(m).flagged = session.flagged
  BY RecordedFields
<1>1. CASE extraction[m] \notin {"parsed", "review_needed"}
  <2>1. Routed(m) = Recorded(m)
    BY <1>1 DEF Routed
  <2> QED
    BY <1>0, <1>1, <2>1 DEF Drafts
<1>2. CASE extraction[m] \in {"parsed", "review_needed"} /\ IsEdit(m)
           /\ Find(Original[m]) # NoRow
  <2>1. Routed(m) = Correct(Recorded(m), Original[m], m)
    BY <1>2 DEF Routed
  <2>2. Original[m] \in Messages /\ Booked(Original[m])
    BY <1>2, Constants DEF IsEdit, Booked
  <2> DEFINE new == Restate(Recorded(m), Original[m], "corrected", m)
  <2>3. /\ new \in Sessions
        /\ new.outcome = Recorded(m).outcome /\ new.flagged = Recorded(m).flagged
        /\ Drafts(new, m)
        /\ \E i \in DOMAIN new.audit :
             new.audit[i].txn = Original[m] /\ new.audit[i].cause = m
    BY <1>0, <2>2, RestateMove
  <2>4. Routed(m) = new
    BY <2>1, RestateIs
  <2> HIDE DEF new
  <2> QED
    BY <1>0, <2>3, <2>4
<1>3. CASE extraction[m] \in {"parsed", "review_needed"}
           /\ ~(IsEdit(m) /\ Find(Original[m]) # NoRow)
  <2>1. Routed(m) = Upsert(Recorded(m), m, extraction[m])
    BY <1>3 DEF Routed
  <2>2. Kind[m] = "edit" /\ Original[m] # None => ~Booked(Original[m])
    BY <1>3 DEF IsEdit, Booked
  <2> QED
    BY <1>0, <1>3, <2>1, <2>2, UpsertMove
<1> QED
  BY <1>1, <1>2, <1>3

-----------------------------------------------------------------------------
(* The two loops *)

LEMMA HeadTypes ==
    ASSUME NEW S, NEW q \in Seq(S), q # <<>>
    PROVE  /\ Head(q) \in S /\ Head(q) = q[1] /\ 1 \in DOMAIN q
           /\ Tail(q) \in Seq(S)
           /\ \A i \in DOMAIN Tail(q) : i + 1 \in DOMAIN q /\ Tail(q)[i] = q[i + 1]
OBVIOUS

LEMMA AppendTypes ==
    ASSUME NEW S, NEW q \in Seq(S), NEW x \in S
    PROVE  /\ Append(q, x) \in Seq(S)
           /\ Range(Append(q, x)) = Range(q) \cup {x}
<1>1. Append(q, x) \in Seq(S)
      /\ DOMAIN Append(q, x) = 1 .. Len(q) + 1 /\ DOMAIN q = 1 .. Len(q)
      /\ Len(q) \in Nat /\ Append(q, x)[Len(q) + 1] = x
      /\ \A i \in 1 .. Len(q) : Append(q, x)[i] = q[i]
  OBVIOUS
<1> QED
  BY <1>1 DEF Range

\* Nothing is staged and the draft keeps its books.
Passes(m) ==
    /\ session'.outcome = session.outcome /\ session'.flagged = session.flagged
    /\ Kept(session')
    /\ \/ cands' = cands
       \/ /\ cands' = Append(cands, m)
          /\ Kind[m] \in {"payment", "edit"} /\ outcome[m] = "pending"

Chats(m) ==
    /\ Kind[m] = "chat" /\ outcome[m] = "pending" /\ session.outcome[m] = "pending"
    /\ session'.outcome = [session.outcome EXCEPT ![m] = "NON_TRANSACTION"]
    /\ session'.flagged = session.flagged
    /\ Kept(session') /\ cands' = cands

Revokes(m) ==
    /\ Kind[m] = "revoke" /\ outcome[m] = "pending" /\ session.outcome[m] = "pending"
    /\ session'.outcome = [session.outcome EXCEPT ![m] = "REVOKED"]
    /\ session'.flagged = session.flagged
    /\ cands' = cands
    /\ \/ ~Booked(RevokeTarget(m)) /\ Kept(session')
       \/ \E i \in DOMAIN session'.audit :
             /\ session'.audit[i].txn = RevokeTarget(m)
             /\ session'.audit[i].cause = m
             /\ session'.audit[i].action = "invalidated"

LEMMA PreprocessMove ==
    ASSUME TypeOK, OwnContent, Preprocess
    PROVE  /\ Head(todo) \in Messages
           /\ todo' = Tail(todo)
           /\ UNCHANGED <<ledger, redis, phase, jobs, extraction, batchNo, budget>>
           /\ phase = "preprocess"
           /\ session' \in Sessions
           /\ Drafts(session', Head(todo))
           /\ \/ Passes(Head(todo)) \/ Chats(Head(todo)) \/ Revokes(Head(todo))
           /\ \/ UNCHANGED results
              \/ \E v \in Verdicts : results' = [results EXCEPT ![Head(todo)] = v]
<1> DEFINE m == Head(todo)
           scored == [session EXCEPT !.meta[m] = "scored", !.flushed = @ \ {m}]
           done(s, how) == [s EXCEPT !.outcome[m] = how]
<1>1. m \in Messages
  BY HeadTypes DEF TypeOK, Preprocess
<1>2. session \in Sessions /\ session.flushed \ {m} \subseteq Messages
  BY SessionFields DEF TypeOK
<1>3. /\ scored \in Sessions
      /\ scored.outcome = session.outcome /\ scored.flagged = session.flagged
      /\ Kept(scored)
  <2>1. [session.meta EXCEPT ![m] = "scored"] \in [Messages -> Metas]
    BY <1>1, <1>2, SessionFields DEF Metas
  <2> QED
    BY <1>2, <2>1 DEF Kept, Sessions
<1>4. \A s \in Sessions : \A how \in Outcomes :
        /\ done(s, how) \in Sessions
        /\ done(s, how).outcome = [s.outcome EXCEPT ![m] = how]
        /\ done(s, how).txns = s.txns /\ done(s, how).audit = s.audit
        /\ done(s, how).flagged = s.flagged
  BY <1>1, StageFields
<1>5. /\ todo' = Tail(todo) /\ phase = "preprocess"
      /\ UNCHANGED <<ledger, redis, phase, jobs, extraction, batchNo, budget>>
  BY DEF Preprocess
<1>6. \/ UNCHANGED results
      \/ \E v \in Verdicts : results' = [results EXCEPT ![m] = v]
  BY DEF Preprocess, Verdicts
<1> DEFINE target == RevokeTarget(m)
           applied == IF Find(target) # NoRow THEN Invalidate(session, target, m)
                      ELSE session
<1>7. \/ session' = session /\ cands' = cands
      \/ /\ Kind[m] = "revoke" /\ ~Handled(m) /\ cands' = cands
         /\ session' = done(applied, "REVOKED")
      \/ /\ Kind[m] = "chat" /\ ~Handled(m) /\ cands' = cands
         /\ session' = done(scored, "NON_TRANSACTION")
      \/ /\ Kind[m] \in {"payment", "edit"} /\ ~Handled(m)
         /\ cands' = Append(cands, m) /\ session' = scored
  BY DEF Preprocess
<1>8. {"REVOKED", "NON_TRANSACTION"} \subseteq Outcomes
  BY DEF Outcomes
<1>9. ~Handled(m) => outcome[m] = "pending" /\ session.outcome[m] = "pending"
  BY DEF Handled
<1> HIDE DEF scored, done, m
<1>10. CASE session' = session /\ cands' = cands
  BY <1>1, <1>2, <1>5, <1>6, <1>10 DEF Passes, Kept, Drafts, m
<1>11. CASE Kind[m] \in {"payment", "edit"} /\ ~Handled(m)
            /\ cands' = Append(cands, m) /\ session' = scored
  BY <1>1, <1>3, <1>5, <1>6, <1>9, <1>11 DEF Passes, Drafts, m
<1>12. CASE Kind[m] = "chat" /\ ~Handled(m) /\ cands' = cands
            /\ session' = done(scored, "NON_TRANSACTION")
  <2>1. /\ session' \in Sessions
        /\ session'.outcome = [session.outcome EXCEPT ![m] = "NON_TRANSACTION"]
        /\ Kept(session') /\ session'.flagged = session.flagged
    BY <1>3, <1>4, <1>8, <1>12 DEF Kept
  <2> QED
    BY <1>1, <1>5, <1>6, <1>9, <1>12, <2>1 DEF Chats, Drafts, m
<1>13. CASE Kind[m] = "revoke" /\ ~Handled(m) /\ cands' = cands
            /\ session' = done(applied, "REVOKED")
  <2>1. target \in Messages
    BY <1>1, Constants DEF RevokeTarget
  <2> DEFINE cause == m
  <2>2. /\ applied \in Sessions
        /\ applied.outcome = session.outcome /\ applied.flagged = session.flagged
        /\ Drafts(applied, m)
        /\ \/ ~Booked(target) /\ Kept(applied)
           \/ \E i \in DOMAIN applied.audit :
                /\ applied.audit[i].txn = target /\ applied.audit[i].cause = m
                /\ applied.audit[i].action = "invalidated"
    <3>1. CASE Booked(target)
      <4>1. applied = Restate(session, target, "invalidated", m)
        BY <3>1, RestateIs DEF Booked
      <4>2. Kept(session)
        BY DEF Kept
      <4> HIDE DEF target, applied
      <4> QED
        BY <1>1, <1>2, <2>1, <3>1, <4>1, <4>2, RestateMove
    <3>2. CASE ~Booked(target)
      <4>1. applied = session
        BY <3>2 DEF Booked
      <4> HIDE DEF target, applied
      <4> QED
        BY <1>2, <3>2, <4>1 DEF Kept, Drafts
    <3> QED
      BY <3>1, <3>2
  <2> HIDE DEF applied
  <2>3. /\ session' \in Sessions
        /\ session'.outcome = [session.outcome EXCEPT ![m] = "REVOKED"]
        /\ session'.txns = applied.txns /\ session'.audit = applied.audit
        /\ session'.flagged = session.flagged
    BY <1>4, <1>8, <1>13, <2>2
  <2>4. Drafts(session', m)
    BY <2>2, <2>3, SameDraft
  <2>5. Revokes(m)
    BY <1>9, <1>13, <2>2, <2>3 DEF Revokes, Kept
  <2> QED
    BY <1>1, <1>5, <1>6, <2>3, <2>4, <2>5 DEF m
<1> QED
  BY <1>7, <1>10, <1>11, <1>12, <1>13

Verdict(m) == IF NeedsReview(extraction[m]) THEN "review_needed" ELSE "success"

LEMMA RouteMove ==
    ASSUME TypeOK, OwnContent, Candidates, Route
    PROVE  /\ Head(todo) \in Messages /\ Head(todo) \in Range(cands)
           /\ todo' = Tail(todo)
           /\ UNCHANGED <<ledger, redis, phase, jobs, cands, extraction, batchNo, budget>>
           /\ phase = "route"
           /\ outcome[Head(todo)] = "pending"
           /\ Kind[Head(todo)] \in {"payment", "edit"}
           /\ session' \in Sessions
           /\ Drafts(session', Head(todo))
           /\ session'.outcome =
                [session.outcome EXCEPT ![Head(todo)] = Verdict(Head(todo))]
           /\ session'.flagged =
                IF NeedsReview(extraction[Head(todo)])
                THEN session.flagged \cup {Head(todo)} ELSE session.flagged
           /\ extraction[Head(todo)] \in {"parsed", "review_needed"} =>
                \/ \E t \in Messages : Content[t] = Content[Head(todo)]
                                     /\ BookedIn(session', t)
                \/ \E i \in DOMAIN session'.audit :
                      /\ session'.audit[i].cause = Head(todo)
                      /\ session'.audit[i].txn = Original[Head(todo)]
           /\ results' = [results EXCEPT ![Head(todo)] = "success"]
<1> DEFINE m == Head(todo)
           routed == Routed(m)
<1>1. m \in Messages /\ m \in Range(cands)
  BY HeadTypes DEF TypeOK, Route, Candidates
<1>2. /\ todo' = Tail(todo) /\ phase = "route"
      /\ results' = [results EXCEPT ![m] = "success"]
      /\ UNCHANGED <<ledger, redis, phase, jobs, cands, extraction, batchNo, budget>>
      /\ session' = Closed(routed, m)
  BY DEF Route
<1>3. /\ outcome[m] = "pending" /\ Kind[m] \in {"payment", "edit"}
      /\ extraction[m] \in AllExtractions
  BY <1>1, <1>2 DEF Candidates
<1>4. /\ routed \in Sessions
      /\ routed.outcome = session.outcome /\ routed.flagged = session.flagged
      /\ Drafts(routed, m)
      /\ extraction[m] \in {"parsed", "review_needed"} =>
           \/ \E t \in Messages : Content[t] = Content[m] /\ BookedIn(routed, t)
           \/ \E i \in DOMAIN routed.audit :
                routed.audit[i].cause = m /\ routed.audit[i].txn = Original[m]
  BY <1>1, <1>3, RoutedMove
<1> HIDE DEF routed, m
<1>5. /\ session' \in Sessions
      /\ session'.outcome = [session.outcome EXCEPT ![m] = Verdict(m)]
      /\ session'.flagged = IF NeedsReview(extraction[m])
                            THEN session.flagged \cup {m} ELSE session.flagged
      /\ session'.txns = routed.txns /\ session'.audit = routed.audit
  <2>1. [routed.outcome EXCEPT ![m] = Verdict(m)] \in [Messages -> Outcomes]
    BY <1>4, SessionFields DEF Verdict, Outcomes
  <2>2. routed.flagged \cup {m} \subseteq Messages
    BY <1>1, <1>4, SessionFields
  <2>3. CASE NeedsReview(extraction[m])
    BY <1>2, <1>4, <2>1, <2>2, <2>3 DEF Closed, NeedsReview, Verdict, Sessions
  <2>4. CASE ~NeedsReview(extraction[m])
    BY <1>2, <1>4, <2>1, <2>4 DEF Closed, NeedsReview, Verdict, Sessions
  <2> QED
    BY <2>3, <2>4
<1>6. Drafts(session', m)
  BY <1>4, <1>5, SameDraft
<1>7. extraction[m] \in {"parsed", "review_needed"} =>
        \/ \E t \in Messages : Content[t] = Content[m] /\ BookedIn(session', t)
        \/ \E i \in DOMAIN session'.audit :
             session'.audit[i].cause = m /\ session'.audit[i].txn = Original[m]
  BY <1>4, <1>5 DEF BookedIn
<1> QED
  BY <1>1, <1>2, <1>3, <1>5, <1>6, <1>7 DEF m

-----------------------------------------------------------------------------
(* Types *)

LEMMA InBatchType ==
    ASSUME NEW q \in Seq(Messages), NEW m
    PROVE  Cardinality({i \in DOMAIN q : q[i] = m}) \in Nat
<1>1. DOMAIN q = 1 .. Len(q) /\ Len(q) \in Nat
  OBVIOUS
<1>2. IsFiniteSet(1 .. Len(q))
  BY <1>1, FS_Interval
<1>3. IsFiniteSet({i \in DOMAIN q : q[i] = m})
  BY <1>1, <1>2, FS_Subset
<1> QED
  BY <1>3, FS_CardinalityType

(* The counters and history of a batch. *)
LEMMA WriteTypes ==
    ASSUME TypeOK, Write
    PROVE  /\ outcome' \in [Messages -> Outcomes]
           /\ meta' \in [Messages -> Metas]
           /\ rehashed' \subseteq Fallback
           /\ txns' \in [Messages -> Rows]
           /\ audit' \in Seq(AuditRows)
           /\ flagged' \subseteq Messages
           /\ extracted' \in [Messages -> AllExtractions \cup {"none"}]
           /\ writtenBy' \in [Messages -> Nat]
<1>1. session \in Sessions
  BY DEF TypeOK
<1>2. outcome' \in [Messages -> Outcomes]
  BY <1>1, SessionFields DEF Write, TypeOK
<1>3. meta' \in [Messages -> Metas]
  BY <1>1, SessionFields DEF Write, TypeOK
<1>4. rehashed' \subseteq Fallback
  BY DEF Write, TypeOK, Rehash
<1>5. txns' \in [Messages -> Rows]
  BY FindTypes DEF Write
<1>6. audit' \in Seq(AuditRows)
  <2>1. audit \in Seq(AuditRows) /\ session.audit \in Seq(AuditRows)
    BY <1>1, SessionFields DEF TypeOK
  <2>2. audit' = audit \o session.audit
    BY DEF Write
  <2> QED
    BY <2>1, <2>2
<1>7. flagged' \subseteq Messages
  BY <1>1, SessionFields DEF Write, TypeOK
<1>8. extracted' \in [Messages -> AllExtractions \cup {"none"}]
  BY DEF Write, TypeOK
<1>9. writtenBy' \in [Messages -> Nat]
  BY DEF Write, TypeOK
<1> QED
  BY <1>2, <1>3, <1>4, <1>5, <1>6, <1>7, <1>8, <1>9

LedgerTypes ==
    /\ outcome \in [Messages -> Outcomes]
    /\ meta \in [Messages -> Metas]
    /\ rehashed \subseteq Fallback
    /\ txns \in [Messages -> Rows]
    /\ audit \in Seq(AuditRows)
    /\ flagged \subseteq Messages
    /\ extracted \in [Messages -> AllExtractions \cup {"none"}]
    /\ writtenBy \in [Messages -> Nat]

WorkTypes ==
    /\ phase \in {"idle", "preprocess", "extract", "route", "commit", "settle"}
    /\ jobs \in Seq(Messages) /\ todo \in Seq(Messages) /\ cands \in Seq(Messages)
    /\ extraction \in [Messages -> AllExtractions \cup {"none"}]
    /\ session \in Sessions
    /\ results \in [Messages -> Verdicts]

RedisTypes == copies \in [Messages -> Nat] /\ dead \subseteq Messages

BudgetTypes == reviews \in Nat /\ crashes \in Nat /\ errors \in Nat

LEMMA TypeParts ==
    TypeOK <=> /\ LedgerTypes /\ WorkTypes /\ RedisTypes /\ BudgetTypes
               /\ batchNo \in Nat
BY DEF TypeOK, LedgerTypes, WorkTypes, RedisTypes, BudgetTypes

LEMMA TypePartsNext ==
    ASSUME LedgerTypes', WorkTypes', RedisTypes', BudgetTypes', batchNo' \in Nat
    PROVE  TypeOK'
BY DEF TypeOK, LedgerTypes, WorkTypes, RedisTypes, BudgetTypes

LEMMA SameTypes ==
    ASSUME TypeOK
    PROVE  /\ UNCHANGED ledger => LedgerTypes'
           /\ UNCHANGED redis => RedisTypes'
           /\ UNCHANGED budget => BudgetTypes'
           /\ UNCHANGED <<phase, work>> => WorkTypes'
BY DEF TypeOK, LedgerTypes, RedisTypes, BudgetTypes, WorkTypes, ledger, redis,
       budget, work

LEMMA ReturnTypes ==
    ASSUME TypeOK, NEW v \in [Messages -> Verdicts], Return(v)
    PROVE  WorkTypes'
<1>1. <<>> \in Seq(Messages)
  OBVIOUS
<1>2. [m \in Messages |-> "none"] \in [Messages -> AllExtractions \cup {"none"}]
  OBVIOUS
<1> QED
  BY <1>1, <1>2, NewSessionType DEF Return, WorkTypes, TypeOK

LEMMA ForgottenTypes ==
    ASSUME Forgotten
    PROVE  WorkTypes'
<1>1. <<>> \in Seq(Messages)
  OBVIOUS
<1>2. [m \in Messages |-> "none"] \in [Messages -> AllExtractions \cup {"none"}]
  OBVIOUS
<1>3. [m \in Messages |-> "retry"] \in [Messages -> Verdicts]
  BY DEF Verdicts
<1> QED
  BY <1>1, <1>2, <1>3, NewSessionType DEF Forgotten, WorkTypes

LEMMA AllJobsType ==
    ASSUME NEW v \in Verdicts
    PROVE  AllJobs(v) \in [Messages -> Verdicts]
BY DEF AllJobs, Verdicts

LEMMA SettleTypes ==
    ASSUME TypeOK, CopiesCover, Settle
    PROVE  copies' \in [Messages -> Nat] /\ dead' \subseteq Messages
<1>1. \A m \in Messages : InBatch(m) \in Nat /\ copies[m] \in Nat
                         /\ InBatch(m) <= copies[m]
  BY InBatchType DEF TypeOK, InBatch, CopiesCover
<1>2. \A m \in Messages : copies[m] - InBatch(m) \in Nat
  BY <1>1
<1>3. Range(jobs) \subseteq Messages
  BY DEF TypeOK, Range
<1>4. PICK spent \in SUBSET {m \in Range(jobs) : results[m] = "retry"} :
        LET buried == spent \cup {m \in Range(jobs) : results[m] = "dlq"}
            kept == {m \in Range(jobs) : results[m] = "retry"} \ spent
        IN  /\ dead' = dead \cup buried
            /\ copies' = [m \in Messages |->
                  IF m \in kept THEN copies[m] ELSE copies[m] - InBatch(m)]
  BY DEF Settle
<1>5. dead' \subseteq Messages
  BY <1>3, <1>4 DEF TypeOK
<1>6. copies' \in [Messages -> Nat]
  BY <1>1, <1>2, <1>4
<1> QED
  BY <1>5, <1>6

LEMMA CrashCopies ==
    ASSUME TypeOK, Crash
    PROVE  copies' \in [Messages -> Nat]
<1>1. copies \in [Messages -> Nat] /\ Range(jobs) \subseteq Messages
  BY DEF TypeOK, Range
<1>2. \/ copies' = copies
      \/ \E m \in Range(jobs) : copies' = [copies EXCEPT ![m] = @ + 1]
  BY DEF Crash
<1> QED
  BY ONLY <1>1, <1>2

LEMMA ReviewTypes ==
    ASSUME TypeOK, NEW t \in Messages, NEW status \in {"corrected", "invalidated"},
           Review(t, status)
    PROVE  /\ txns[t] \in Rows /\ txns[t] # NoRow
           /\ txns' = [txns EXCEPT ![t] = [txns[t] EXCEPT !.status = status]]
           /\ txns' \in [Messages -> Rows]
           /\ \E e \in AuditRows :
                /\ audit' = Append(audit, e)
                /\ e.txn = t /\ e.status = status /\ e.action = status
                /\ e.cause = None
<1>1. txns \in [Messages -> Rows] /\ txns[t] # NoRow
  BY DEF Review, TypeOK
<1>2. txns' = [txns EXCEPT ![t] = [txns[t] EXCEPT !.status = status]]
  BY DEF Review
<1>3. status \in Statuses /\ status \in Actions
  BY DEF Statuses, Actions
<1>4. [txns[t] EXCEPT !.status = status] \in Rows
  BY <1>1, <1>3, Restated
<1> DEFINE e == Entry(t, status, status, None)
           f == [e EXCEPT !.batch = 0]
<1>5. batchNo \in Nat
  BY DEF TypeOK
<1>6. /\ e \in AuditRows /\ e.txn = t /\ e.action = status /\ e.status = status
      /\ e.cause = None
  BY <1>3, <1>5, EntryType
<1> HIDE DEF e
<1>7. /\ f \in AuditRows /\ f.txn = t /\ f.action = status /\ f.status = status
      /\ f.cause = None
  BY <1>6 DEF AuditRows
<1>8. audit' = Append(audit, f)
  BY DEF Review, e
<1> QED
  BY <1>1, <1>2, <1>4, <1>7, <1>8

LEMMA TypeStep ==
    TypeOK /\ CopiesCover /\ OwnContent /\ Candidates /\ [Next]_vars => TypeOK'
<1> SUFFICES ASSUME TypeOK, CopiesCover, OwnContent, Candidates, [Next]_vars
             PROVE  TypeOK'
  OBVIOUS
<1>1. ASSUME Begin PROVE TypeOK'
  <2>1. PICK n \in 1 .. MaxBatch : \E b \in [1 .. n -> Messages] : jobs' = b /\ todo' = b
    BY <1>1 DEF Begin
  <2>2. jobs' \in Seq(Messages) /\ todo' \in Seq(Messages)
    <3>1. n \in Nat
      BY BatchAssumption
    <3> QED
      BY <2>1, <3>1
  <2>3. WorkTypes'
    BY <1>1, <2>2 DEF Begin, WorkTypes, TypeOK
  <2>4. batchNo' \in Nat
    BY <1>1 DEF Begin, TypeOK
  <2> QED
    BY <1>1, <2>3, <2>4, SameTypes, TypePartsNext DEF Begin
<1>2. ASSUME Preprocess PROVE TypeOK'
  <2>1. Head(todo) \in Messages /\ Tail(todo) \in Seq(Messages)
    BY <1>2, HeadTypes DEF Preprocess, TypeOK
  <2>2. cands' \in Seq(Messages)
    <3>1. cands \in Seq(Messages)
      BY DEF TypeOK
    <3>2. cands' = cands \/ cands' = Append(cands, Head(todo))
      BY <1>2, PreprocessMove DEF Passes, Chats, Revokes
    <3> QED
      BY <2>1, <3>1, <3>2, AppendTypes
  <2>3. results' \in [Messages -> Verdicts]
    BY <1>2, <2>1, PreprocessMove DEF TypeOK
  <2>4. WorkTypes'
    BY <1>2, <2>1, <2>2, <2>3, PreprocessMove DEF WorkTypes, TypeOK
  <2> QED
    BY <1>2, <2>4, PreprocessMove, SameTypes, TypePartsNext DEF TypeOK
<1>3. ASSUME EndPreprocess \/ EndRoute PROVE TypeOK'
  BY <1>3 DEF EndPreprocess, EndRoute, TypeOK, ledger, redis, work, budget
<1>4. ASSUME Extract PROVE TypeOK'
  <2>1. extraction' \in [Messages -> AllExtractions \cup {"none"}]
    <3>1. PICK e \in [Range(cands) -> Extractions] :
            extraction' = [m \in Messages |->
                             IF m \in Range(cands) THEN e[m] ELSE "none"]
      BY <1>4 DEF Extract
    <3> QED
      BY <3>1, Constants
  <2> QED
    BY <1>4, <2>1 DEF Extract, TypeOK, ledger, redis, budget
<1>5. ASSUME Route PROVE TypeOK'
  <2>1. Head(todo) \in Messages /\ Tail(todo) \in Seq(Messages)
    BY <1>5, HeadTypes DEF Route, TypeOK
  <2>2. results' \in [Messages -> Verdicts]
    BY <1>5, <2>1, RouteMove DEF TypeOK, Verdicts
  <2>3. WorkTypes'
    BY <1>5, <2>1, <2>2, RouteMove DEF WorkTypes, TypeOK
  <2> QED
    BY <1>5, <2>3, RouteMove, SameTypes, TypePartsNext DEF TypeOK
<1>6. ASSUME Commit PROVE TypeOK'
  <2>1. WorkTypes'
    BY <1>6, ReturnTypes DEF Commit, TypeOK
  <2>2. LedgerTypes'
    BY <1>6, WriteTypes DEF Commit, LedgerTypes
  <2> QED
    BY <1>6, <2>1, <2>2 DEF Commit, Return, TypeOK, LedgerTypes, WorkTypes, redis
<1>7. ASSUME CommitClashes \/ Fail PROVE TypeOK'
  <2>1. PICK v \in Verdicts : Return(AllJobs(v))
    BY <1>7 DEF CommitClashes, Fail, Verdicts
  <2>2. WorkTypes'
    BY <2>1, ReturnTypes, AllJobsType
  <2>3. LedgerTypes'
    <3>1. UNCHANGED ledger \/ Write
      BY <1>7 DEF CommitClashes, Fail
    <3> QED
      BY <3>1, WriteTypes DEF LedgerTypes, TypeOK, ledger
  <2>4. errors' \in Nat
    BY <1>7 DEF CommitClashes, Fail, TypeOK
  <2> QED
    BY <2>1, <2>2, <2>3, <2>4 DEF Return, TypeOK, LedgerTypes, WorkTypes, redis
<1>8. ASSUME Settle PROVE TypeOK'
  <2>1. WorkTypes'
    BY <1>8, ForgottenTypes DEF Settle
  <2> QED
    BY <1>8, <2>1, SettleTypes DEF Settle, Forgotten, TypeOK, WorkTypes, ledger, budget
<1>9. ASSUME Crash PROVE TypeOK'
  <2>1. WorkTypes'
    BY <1>9, ForgottenTypes DEF Crash
  <2>2. copies' \in [Messages -> Nat]
    BY <1>9, CrashCopies
  <2>3. crashes' \in Nat
    BY <1>9 DEF Crash, TypeOK
  <2> QED
    BY <1>9, <2>1, <2>2, <2>3 DEF Crash, Forgotten, TypeOK, WorkTypes, ledger
<1>10. ASSUME NEW t \in Messages, NEW status \in {"corrected", "invalidated"},
              Review(t, status)
       PROVE  TypeOK'
  <2>1. txns' \in [Messages -> Rows]
    BY <1>10, ReviewTypes
  <2>2. audit' \in Seq(AuditRows)
    <3>1. PICK e \in AuditRows : audit' = Append(audit, e)
      BY <1>10, ReviewTypes
    <3> QED
      BY <3>1 DEF TypeOK
  <2>3. LedgerTypes'
    BY <1>10, <2>1, <2>2 DEF Review, LedgerTypes, TypeOK
  <2>4. BudgetTypes' /\ batchNo' \in Nat
    BY <1>10 DEF Review, BudgetTypes, TypeOK, work
  <2> QED
    BY <1>10, <2>3, <2>4, SameTypes, TypePartsNext DEF Review
<1>11. CASE UNCHANGED vars
  BY <1>11 DEF vars, ledger, redis, work, budget, TypeOK
<1> QED
  BY <1>1, <1>2, <1>3, <1>4, <1>5, <1>6, <1>7, <1>8, <1>9, <1>10, <1>11
     DEF Next, Batch

LEMMA CopiesCoverStep ==
    TypeOK /\ CopiesCover /\ [Next]_vars => CopiesCover'
<1> SUFFICES ASSUME TypeOK, CopiesCover, [Next]_vars PROVE CopiesCover'
  OBVIOUS
<1>1. CASE jobs' = jobs /\ copies' = copies
  BY <1>1 DEF CopiesCover, InBatch
<1>2. CASE jobs' = <<>> /\ copies' \in [Messages -> Nat]
  <2>1. \A m : {i \in DOMAIN jobs' : jobs'[i] = m} = {}
    BY <1>2
  <2>2. \A m : Cardinality({i \in DOMAIN jobs' : jobs'[i] = m}) = 0
    BY <2>1, FS_EmptySet
  <2> QED
    BY <1>2, <2>2 DEF CopiesCover, InBatch
<1>3. ASSUME Begin PROVE CopiesCover'
  <2>1. PICK n \in 1 .. MaxBatch : \E b \in [1 .. n -> Messages] :
          /\ jobs' = b
          /\ \A m \in Messages : Cardinality({i \in 1 .. n : b[i] = m}) <= copies[m]
    BY <1>3 DEF Begin
  <2>2. DOMAIN jobs' = 1 .. n /\ copies' = copies
    BY <1>3, <2>1 DEF Begin, redis
  <2> QED
    BY <2>1, <2>2 DEF CopiesCover, InBatch
<1>4. ASSUME Settle PROVE CopiesCover'
  BY <1>2, <1>4, SettleTypes DEF Settle, Forgotten
<1>5. ASSUME Crash PROVE CopiesCover'
  <2>1. copies' \in [Messages -> Nat]
    BY <1>5, CrashCopies
  <2> QED
    BY <1>2, <1>5, <2>1 DEF Crash, Forgotten
<1> QED
  BY <1>1, <1>3, <1>4, <1>5 DEF Next, Batch, Preprocess, EndPreprocess, Extract, Route,
     EndRoute, Commit, CommitClashes, Fail, Return, Review, vars, redis, work

-----------------------------------------------------------------------------
(* Trails *)

LEMMA Joined ==
    ASSUME NEW S, NEW a \in Seq(S), NEW b \in Seq(S)
    PROVE  /\ a \o b \in Seq(S)
           /\ Len(a \o b) = Len(a) + Len(b)
           /\ DOMAIN a = 1 .. Len(a) /\ DOMAIN b = 1 .. Len(b)
           /\ DOMAIN (a \o b) = 1 .. Len(a) + Len(b)
           /\ Len(a) \in Nat /\ Len(b) \in Nat
           /\ \A i \in 1 .. Len(a) : (a \o b)[i] = a[i]
           /\ \A i \in 1 .. Len(b) : (a \o b)[Len(a) + i] = b[i]
           /\ \A i \in 1 .. Len(a) + Len(b) :
                i \in 1 .. Len(a) \/ i - Len(a) \in 1 .. Len(b)
OBVIOUS

LEMMA OneEntry ==
    ASSUME NEW S, NEW a \in Seq(S), NEW e \in S, NEW t
    PROVE  /\ Append(a, e) = a \o <<e>> /\ <<e>> \in Seq(S)
           /\ e.txn # t => Silent(<<e>>, t)
           /\ e.txn = t => LeavesAs(<<e>>, t, e.status)
           /\ e.txn = t /\ e.action = "created" => Creates(<<e>>, t)
<1>1. Append(a, e) = a \o <<e>> /\ <<e>> \in Seq(S)
  OBVIOUS
<1>2. DOMAIN <<e>> = {1} /\ Len(<<e>>) = 1 /\ <<e>>[1] = e /\ 2 .. 1 = {} /\ 1 .. 0 = {}
  OBVIOUS
<1> QED
  BY <1>1, <1>2 DEF Silent, LeavesAs, Creates

LEMMA SilentJoined ==
    ASSUME NEW S, NEW a \in Seq(S), NEW b \in Seq(S), NEW t,
           Silent(a, t), Silent(b, t)
    PROVE  Silent(a \o b, t)
<1> SUFFICES ASSUME NEW i \in DOMAIN (a \o b) PROVE (a \o b)[i].txn # t
  BY DEF Silent
<1>1. CASE i \in 1 .. Len(a)
  BY <1>1, Joined DEF Silent
<1>2. CASE i - Len(a) \in 1 .. Len(b)
  <2>1. (a \o b)[i] = b[i - Len(a)]
    BY <1>2, Joined
  <2> QED
    BY <1>2, <2>1, Joined DEF Silent
<1> QED
  BY <1>1, <1>2, Joined

LEMMA CreatesJoined ==
    ASSUME NEW S, NEW a \in Seq(S), NEW b \in Seq(S), NEW t,
           Creates(a, t) \/ (Silent(a, t) /\ Creates(b, t))
    PROVE  Creates(a \o b, t)
<1>1. CASE Creates(a, t)
  <2>1. PICK i \in 1 .. Len(a) : a[i].txn = t /\ a[i].action = "created"
                               /\ \A k \in 1 .. i - 1 : a[k].txn # t
    BY <1>1, Joined DEF Creates
  <2>2. i \in DOMAIN (a \o b) /\ (a \o b)[i] = a[i]
    BY Joined
  <2>3. \A k \in 1 .. i - 1 : (a \o b)[k].txn # t
    BY <2>1, Joined
  <2> QED
    BY <2>1, <2>2, <2>3 DEF Creates
<1>2. CASE Silent(a, t) /\ Creates(b, t)
  <2>1. PICK i \in 1 .. Len(b) : b[i].txn = t /\ b[i].action = "created"
                               /\ \A k \in 1 .. i - 1 : b[k].txn # t
    BY <1>2, Joined DEF Creates
  <2> DEFINE j == Len(a) + i
  <2>2. j \in DOMAIN (a \o b) /\ (a \o b)[j] = b[i]
    BY Joined
  <2>3. ASSUME NEW k \in 1 .. j - 1 PROVE (a \o b)[k].txn # t
    <3>1. CASE k \in 1 .. Len(a)
      BY <1>2, <3>1, Joined DEF Silent
    <3>2. CASE k - Len(a) \in 1 .. Len(b)
      <4>1. (a \o b)[k] = b[k - Len(a)] /\ k - Len(a) \in 1 .. i - 1
        BY <3>2, Joined
      <4> QED
        BY <2>1, <4>1
    <3> QED
      BY <3>1, <3>2, Joined
  <2> HIDE DEF j
  <2> QED
    BY <2>1, <2>2, <2>3 DEF Creates
<1> QED
  BY <1>1, <1>2

LEMMA LeavesJoined ==
    ASSUME NEW S, NEW a \in Seq(S), NEW b \in Seq(S), NEW t, NEW status,
           LeavesAs(b, t, status) \/ (LeavesAs(a, t, status) /\ Silent(b, t))
    PROVE  LeavesAs(a \o b, t, status)
<1>1. CASE LeavesAs(b, t, status)
  <2>1. PICK i \in 1 .. Len(b) : b[i].txn = t /\ b[i].status = status
                               /\ \A k \in i + 1 .. Len(b) : b[k].txn # t
    BY <1>1, Joined DEF LeavesAs
  <2>2. Len(a) + i \in DOMAIN (a \o b) /\ (a \o b)[Len(a) + i] = b[i]
    BY Joined
  <2>3. ASSUME NEW k \in Len(a) + i + 1 .. Len(a \o b) PROVE (a \o b)[k].txn # t
    <3>1. k - Len(a) \in i + 1 .. Len(b) /\ (a \o b)[k] = b[k - Len(a)]
      BY Joined
    <3> QED
      BY <2>1, <3>1
  <2> QED
    BY <2>1, <2>2, <2>3 DEF LeavesAs
<1>2. CASE LeavesAs(a, t, status) /\ Silent(b, t)
  <2>1. PICK i \in 1 .. Len(a) : a[i].txn = t /\ a[i].status = status
                               /\ \A k \in i + 1 .. Len(a) : a[k].txn # t
    BY <1>2, Joined DEF LeavesAs
  <2>2. i \in DOMAIN (a \o b) /\ (a \o b)[i] = a[i]
    BY Joined
  <2>3. ASSUME NEW k \in i + 1 .. Len(a \o b) PROVE (a \o b)[k].txn # t
    <3>1. CASE k \in 1 .. Len(a)
      BY <2>1, <3>1, Joined
    <3>2. CASE k - Len(a) \in 1 .. Len(b)
      <4>1. (a \o b)[k] = b[k - Len(a)]
        BY <3>2, Joined
      <4> QED
        BY <1>2, <3>2, <4>1, Joined DEF Silent
    <3> QED
      BY <3>1, <3>2, Joined
  <2> QED
    BY <2>1, <2>2, <2>3 DEF LeavesAs
<1> QED
  BY <1>1, <1>2

-----------------------------------------------------------------------------
(* Every step does one of five things to the books *)

Keeps == UNCHANGED ledger /\ session' = session
         /\ \/ batchNo' = batchNo
            \/ batchNo' = batchNo + 1 /\ session = NewSession

Grows(m) ==
    /\ UNCHANGED <<ledger, batchNo>>
    /\ Drafts(session', m)
    /\ Kept(session') \/ session'.outcome[m] # "pending"
    /\ \A k \in Messages : session.outcome[k] # "pending" => session'.outcome[k] # "pending"

Joins == Write /\ session' = NewSession /\ batchNo' = batchNo

Drops == UNCHANGED ledger /\ session' = NewSession /\ batchNo' = batchNo

Reviews(t, status) ==
    /\ Review(t, status) /\ UNCHANGED <<session, batchNo, outcome, writtenBy>>

LEMMA BookCases ==
    ASSUME TypeOK, OwnContent, NoDraft, Candidates, [Next]_vars
    PROVE  \/ Keeps
           \/ \E m \in Messages : Grows(m)
           \/ Joins
           \/ Drops
           \/ \E t \in Messages, status \in {"corrected", "invalidated"} : Reviews(t, status)
<1>0. session.outcome \in [Messages -> Outcomes]
  BY SessionFields DEF TypeOK
<1>1. ASSUME Begin PROVE Keeps
  BY <1>1 DEF Begin, Keeps, NoDraft
<1>2. ASSUME Preprocess PROVE \E m \in Messages : Grows(m)
  <2> DEFINE m == Head(todo)
  <2>1. /\ m \in Messages /\ UNCHANGED <<ledger, batchNo>> /\ Drafts(session', m)
        /\ Passes(m) \/ Chats(m) \/ Revokes(m)
    BY <1>2, PreprocessMove
  <2> HIDE DEF m
  <2>2. Kept(session') \/ session'.outcome[m] # "pending"
    BY <1>0, <2>1 DEF Passes, Chats, Revokes
  <2>3. \A k \in Messages :
          session.outcome[k] # "pending" => session'.outcome[k] # "pending"
    BY <1>0, <2>1 DEF Passes, Chats, Revokes
  <2> QED
    BY <2>1, <2>2, <2>3 DEF Grows
<1>3. ASSUME EndPreprocess \/ Extract \/ EndRoute PROVE Keeps
  BY <1>3 DEF EndPreprocess, Extract, EndRoute, Keeps, work
<1>4. ASSUME Route PROVE \E m \in Messages : Grows(m)
  <2> DEFINE m == Head(todo)
  <2>1. /\ m \in Messages /\ UNCHANGED <<ledger, batchNo>> /\ Drafts(session', m)
        /\ session'.outcome = [session.outcome EXCEPT ![m] = Verdict(m)]
    BY <1>4, RouteMove
  <2> HIDE DEF m
  <2>2. session'.outcome[m] # "pending"
    BY <1>0, <2>1 DEF Verdict
  <2>3. \A k \in Messages :
          session.outcome[k] # "pending" => session'.outcome[k] # "pending"
    BY <1>0, <2>1, <2>2
  <2> QED
    BY <2>1, <2>2, <2>3 DEF Grows
<1>5. ASSUME Commit PROVE Joins
  BY <1>5 DEF Commit, Return, Joins
<1>6. ASSUME CommitClashes \/ Fail PROVE Joins \/ Drops
  BY <1>6 DEF CommitClashes, Fail, Return, Joins, Drops
<1>7. ASSUME Settle \/ Crash PROVE Drops
  BY <1>7 DEF Settle, Crash, Forgotten, Drops
<1>8. ASSUME NEW t \in Messages, NEW status \in {"corrected", "invalidated"},
             Review(t, status)
      PROVE  Reviews(t, status)
  BY <1>8 DEF Review, Reviews, work
<1>9. CASE UNCHANGED vars
  BY <1>9 DEF vars, work, Keeps
<1> QED
  BY <1>1, <1>2, <1>3, <1>4, <1>5, <1>6, <1>7, <1>8, <1>9 DEF Next, Batch

-----------------------------------------------------------------------------
(* The books *)

LEMMA WriteFacts ==
    ASSUME TypeOK, Write
    PROVE  /\ \A m \in Messages : session.outcome[m] # "pending" =>
                /\ outcome'[m] = session.outcome[m]
                /\ writtenBy'[m] = batchNo /\ extracted'[m] = extraction[m]
           /\ \A m \in Messages : session.outcome[m] = "pending" =>
                /\ outcome'[m] = outcome[m]
                /\ writtenBy'[m] = writtenBy[m] /\ extracted'[m] = extracted[m]
           /\ \A t \in Messages : txns'[t] = Find(t)
           /\ audit' = audit \o session.audit
           /\ audit \in Seq(AuditRows) /\ session.audit \in Seq(AuditRows)
           /\ flagged' = flagged \cup session.flagged
           /\ \A m \in Messages : meta'[m] =
                IF session.meta[m] # "none" THEN session.meta[m] ELSE meta[m]
<1>1. audit \in Seq(AuditRows) /\ session.audit \in Seq(AuditRows)
  BY SessionFields DEF TypeOK
<1> QED
  BY <1>1 DEF Write, Staged

LEMMA GrowsFacts ==
    ASSUME TypeOK, NEW m \in Messages, Grows(m)
    PROVE  \/ Kept(session')
           \/ \E t \in Messages, row \in FullRows, e \in AuditRows :
                /\ Legal(t, row, e, m)
                /\ row \in Rows /\ row # NoRow
                /\ \A u \in Messages : session'.txns[u] = IF u = t THEN row ELSE session.txns[u]
                /\ session.audit \in Seq(AuditRows) /\ <<e>> \in Seq(AuditRows)
                /\ session'.audit = session.audit \o <<e>>
<1>1. ASSUME NEW t \in Messages, NEW row \in FullRows, NEW e \in AuditRows,
             Legal(t, row, e, m), Grown(session', t, row, e)
      PROVE  /\ row \in Rows /\ row # NoRow
             /\ \A u \in Messages : session'.txns[u] = IF u = t THEN row ELSE session.txns[u]
             /\ session.audit \in Seq(AuditRows) /\ <<e>> \in Seq(AuditRows)
             /\ session'.audit = session.audit \o <<e>>
  <2>1. row \in Rows /\ row # NoRow
    BY RowTypes DEF FullRows, Rows
  <2>2. session.txns \in [Messages -> Rows] /\ session.audit \in Seq(AuditRows)
    BY SessionFields DEF TypeOK
  <2> QED
    BY <1>1, <2>1, <2>2, OneEntry DEF Grown
<1> QED
  BY <1>1 DEF Grows, Drafts

LEMMA OwnContentStep ==
    TypeOK /\ OwnContent /\ NoDraft /\ Candidates /\ [Next]_vars => OwnContent'
<1> SUFFICES ASSUME TypeOK, OwnContent, NoDraft, Candidates, [Next]_vars,
                    NEW u \in Messages
             PROVE  /\ txns'[u] # NoRow => txns'[u].hash = Content[u]
                    /\ session'.txns[u] # NoRow => session'.txns[u].hash = Content[u]
  BY DEF OwnContent
<1>0. /\ txns[u] # NoRow => txns[u].hash = Content[u]
      /\ session.txns[u] # NoRow => session.txns[u].hash = Content[u]
  BY DEF OwnContent
<1>1. CASE Keeps
  BY <1>0, <1>1 DEF Keeps, ledger
<1>2. ASSUME NEW m \in Messages, Grows(m)
      PROVE  /\ txns'[u] # NoRow => txns'[u].hash = Content[u]
             /\ session'.txns[u] # NoRow => session'.txns[u].hash = Content[u]
  <2>1. txns' = txns
    BY <1>2 DEF Grows, ledger
  <2> QED
    BY <1>0, <1>2, <2>1, GrowsFacts DEF Kept, Legal
<1>3. CASE Joins
  BY <1>0, <1>3, WriteFacts, FindTypes, NewSessionType DEF Joins
<1>4. CASE Drops
  BY <1>0, <1>4, NewSessionType DEF Drops, ledger
<1>5. ASSUME NEW t \in Messages, NEW status \in {"corrected", "invalidated"},
             Reviews(t, status)
      PROVE  /\ txns'[u] # NoRow => txns'[u].hash = Content[u]
             /\ session'.txns[u] # NoRow => session'.txns[u].hash = Content[u]
  <2>1. status \in Statuses
    BY DEF Statuses
  <2>2. /\ txns[t] \in Rows /\ txns[t] # NoRow
        /\ txns' = [txns EXCEPT ![t] = [txns[t] EXCEPT !.status = status]]
    BY <1>5, ReviewTypes DEF Reviews
  <2>3. [txns[t] EXCEPT !.status = status].hash = txns[t].hash
    BY <2>1, <2>2, Restated
  <2>4. txns'[u] = IF u = t THEN [txns[t] EXCEPT !.status = status] ELSE txns[u]
    BY <2>2 DEF TypeOK
  <2> QED
    BY <1>0, <1>5, <2>2, <2>3, <2>4 DEF Reviews
<1> QED
  BY <1>1, <1>2, <1>3, <1>4, <1>5, BookCases

(* Which transactions there are, whoever looks. *)
LEMMA BookedSteps ==
    ASSUME TypeOK, OwnContent, NoDraft, Candidates, [Next]_vars, NEW u \in Messages
    PROVE  /\ Booked(u)' => \/ Booked(u)
                            \/ /\ Grows(u)
                               /\ \A v \in Messages :
                                    v # u /\ Booked(v) => Content[v] # Content[u]
           /\ txns[u] # NoRow => txns'[u] # NoRow
           /\ txns'[u] # NoRow => \/ txns[u] # NoRow
                                  \/ Joins /\ session.txns[u] # NoRow
<1> DEFINE Goal ==
       /\ (txns'[u] # NoRow \/ session'.txns[u] # NoRow) =>
             \/ Booked(u)
             \/ /\ Grows(u)
                /\ \A v \in Messages : v # u /\ Booked(v) => Content[v] # Content[u]
       /\ txns[u] # NoRow => txns'[u] # NoRow
       /\ txns'[u] # NoRow => \/ txns[u] # NoRow
                              \/ Joins /\ session.txns[u] # NoRow
<1>7. Booked(u)' => txns'[u] # NoRow \/ session'.txns[u] # NoRow
  BY DEF Booked, Find
<1> SUFFICES Goal
  BY <1>7
<1>0. Booked(u) <=> txns[u] # NoRow \/ session.txns[u] # NoRow
  BY FindTypes
<1>1. CASE Keeps
  BY <1>0, <1>1 DEF Keeps, ledger
<1>2. ASSUME NEW m \in Messages, Grows(m) PROVE Goal
  <2>1. txns' = txns
    BY <1>2 DEF Grows, ledger
  <2>2. CASE Kept(session')
    BY <1>0, <2>1, <2>2 DEF Kept
  <2>3. ASSUME NEW t \in Messages, NEW row \in FullRows, NEW e \in AuditRows,
               Legal(t, row, e, m),
               session'.txns[u] = IF u = t THEN row ELSE session.txns[u]
        PROVE  Goal
    <3>1. CASE u # t
      BY <1>0, <2>1, <2>3, <3>1
    <3>2. CASE u = t /\ Booked(u)
      BY <1>0, <2>1, <3>2
    <3>3. CASE u = t /\ ~Booked(u)
      <4>1. u = m /\ \A v \in Messages :
                        v # u /\ Booked(v) => Content[v] # Content[u]
        BY <2>3, <3>3 DEF Legal
      <4> QED
        BY <1>0, <1>2, <2>1, <3>3, <4>1
    <3> QED
      BY <3>1, <3>2, <3>3
  <2> QED
    BY <1>2, <2>2, <2>3, GrowsFacts
<1>3. CASE Joins
  <2>1. txns'[u] = Find(u)
    BY <1>3, WriteFacts DEF Joins
  <2>2. session'.txns[u] = NoRow
    BY <1>3, NewSessionType DEF Joins
  <2> QED
    BY <1>0, <1>3, <2>1, <2>2, FindTypes DEF Booked
<1>4. CASE Drops
  BY <1>0, <1>4, NewSessionType DEF Drops, ledger
<1>5. ASSUME NEW t \in Messages, NEW status \in {"corrected", "invalidated"},
             Reviews(t, status)
      PROVE  Goal
  <2>1. status \in Statuses
    BY DEF Statuses
  <2>2. /\ txns[t] \in Rows /\ txns[t] # NoRow
        /\ txns' = [txns EXCEPT ![t] = [txns[t] EXCEPT !.status = status]]
    BY <1>5, ReviewTypes DEF Reviews
  <2>3. [txns[t] EXCEPT !.status = status] # NoRow
    BY <2>1, <2>2, Restated
  <2>4. txns'[u] = IF u = t THEN [txns[t] EXCEPT !.status = status] ELSE txns[u]
    BY <2>2 DEF TypeOK
  <2> QED
    BY <1>0, <1>5, <2>2, <2>3, <2>4 DEF Reviews
<1> HIDE DEF Goal
<1> QED
  BY <1>1, <1>2, <1>3, <1>4, <1>5, BookCases

(* One step books one transaction at most. *)
LEMMA BothNew ==
    ASSUME TypeOK, OwnContent, NoDraft, Candidates, [Next]_vars,
           NEW t \in Messages, NEW u \in Messages, Booked(t)', Booked(u)',
           ~Booked(t), ~Booked(u)
    PROVE  t = u
<1>1. Grows(t)
  BY BookedSteps
<1>2. txns' = txns
  BY <1>1 DEF Grows, ledger
<1>3. txns'[u] # NoRow \/ session'.txns[u] # NoRow
  BY DEF Booked, Find
<1>4. txns[u] = NoRow /\ session.txns[u] = NoRow
  BY FindTypes
<1>5. session'.txns[u] # session.txns[u]
  BY <1>2, <1>3, <1>4
<1>6. PICK x \in Messages, row \in FullRows, e \in AuditRows :
        /\ Legal(x, row, e, t)
        /\ \A v \in Messages : session'.txns[v] = IF v = x THEN row ELSE session.txns[v]
  BY <1>1, <1>5, GrowsFacts DEF Kept
<1>7. u = x
  BY <1>5, <1>6
<1> QED
  BY <1>6, <1>7 DEF Legal

LEMMA ContentsDifferStep ==
    TypeOK /\ OwnContent /\ NoDraft /\ Candidates /\ ContentsDiffer /\ [Next]_vars
      => ContentsDiffer'
<1> SUFFICES ASSUME TypeOK, OwnContent, NoDraft, Candidates, ContentsDiffer, [Next]_vars,
                    NEW t \in Messages, NEW u \in Messages, t # u, Booked(t)', Booked(u)'
             PROVE  Content[t] # Content[u]
  BY DEF ContentsDiffer
<1>1. CASE Booked(t) /\ Booked(u)
  BY <1>1 DEF ContentsDiffer
<1>2. CASE ~Booked(t) /\ Booked(u)
  BY <1>2, BookedSteps
<1>3. CASE Booked(t) /\ ~Booked(u)
  BY <1>3, BookedSteps
<1>4. CASE ~Booked(t) /\ ~Booked(u)
  BY <1>4, BothNew
<1> QED
  BY <1>1, <1>2, <1>3, <1>4

(* Each entry of a joined trail is one of the two. *)
LEMMA EachJoined ==
    ASSUME NEW S, NEW a \in Seq(S), NEW b \in Seq(S), NEW i \in DOMAIN (a \o b)
    PROVE  \/ i \in DOMAIN a /\ (a \o b)[i] = a[i]
           \/ i - Len(a) \in DOMAIN b /\ (a \o b)[i] = b[i - Len(a)]
<1>1. CASE i \in 1 .. Len(a)
  BY <1>1, Joined
<1>2. CASE i - Len(a) \in 1 .. Len(b)
  BY <1>2, Joined
<1> QED
  BY <1>1, <1>2, Joined

Reviewed(e, t, status) ==
    /\ audit' = audit \o <<e>>
    /\ audit \in Seq(AuditRows) /\ <<e>> \in Seq(AuditRows)
    /\ e.txn = t /\ e.status = status /\ e.action = status /\ e.cause = None

LEMMA ReviewsEntry ==
    ASSUME TypeOK, NEW t \in Messages, NEW status \in {"corrected", "invalidated"},
           Reviews(t, status)
    PROVE  \E e \in AuditRows : Reviewed(e, t, status)
<1>1. PICK e \in AuditRows :
        /\ audit' = Append(audit, e)
        /\ e.txn = t /\ e.status = status /\ e.action = status /\ e.cause = None
  BY ReviewTypes DEF Reviews
<1>2. audit \in Seq(AuditRows)
  BY DEF TypeOK
<1>3. Append(audit, e) = audit \o <<e>> /\ <<e>> \in Seq(AuditRows)
  BY <1>2, OneEntry
<1>4. Reviewed(e, t, status)
  BY <1>1, <1>2, <1>3 DEF Reviewed
<1> QED
  BY <1>4

LEMMA ReviewKeepsNone ==
    ASSUME TypeOK, NEW t \in Messages, NEW status \in {"corrected", "invalidated"},
           Reviews(t, status), NEW u \in Messages
    PROVE  txns'[u] = NoRow <=> txns[u] = NoRow
<1>1. /\ txns[t] \in Rows /\ txns[t] # NoRow
      /\ txns' = [txns EXCEPT ![t] = [txns[t] EXCEPT !.status = status]]
  BY ReviewTypes DEF Reviews
<1>2. [txns[t] EXCEPT !.status = status] # NoRow
  <2>1. status \in Statuses
    BY DEF Statuses
  <2> QED
    BY ONLY <1>1, <2>1, Restated
<1>3. txns'[u] = IF u = t THEN [txns[t] EXCEPT !.status = status] ELSE txns[u]
  BY <1>1 DEF TypeOK
<1> QED
  BY <1>1, <1>2, <1>3

LEMMA OnlyProcessedBookedStep ==
    TypeOK /\ OwnContent /\ NoDraft /\ Candidates /\ OnlyProcessedBooked /\ [Next]_vars
      => OnlyProcessedBooked'
<1> SUFFICES ASSUME TypeOK, OwnContent, NoDraft, Candidates, OnlyProcessedBooked,
                    [Next]_vars, NEW t \in Messages
             PROVE  /\ txns'[t] # NoRow => outcome'[t] # "pending"
                    /\ txns'[t] = NoRow /\ session'.txns[t] # NoRow
                         => session'.outcome[t] # "pending"
                    /\ writtenBy'[t] <= batchNo'
  BY DEF OnlyProcessedBooked
<1> DEFINE Goal == /\ txns'[t] # NoRow => outcome'[t] # "pending"
                   /\ txns'[t] = NoRow /\ session'.txns[t] # NoRow
                        => session'.outcome[t] # "pending"
                   /\ writtenBy'[t] <= batchNo'
<1>0. /\ txns[t] # NoRow => outcome[t] # "pending"
      /\ txns[t] = NoRow /\ session.txns[t] # NoRow => session.outcome[t] # "pending"
      /\ writtenBy[t] <= batchNo
      /\ writtenBy[t] \in Nat /\ batchNo \in Nat
  BY DEF OnlyProcessedBooked, TypeOK
<1>1. ASSUME Keeps PROVE Goal
  BY <1>0, <1>1 DEF Keeps, ledger
<1>2. ASSUME NEW m \in Messages, Grows(m) PROVE Goal
  <2>1. /\ txns' = txns /\ outcome' = outcome /\ writtenBy' = writtenBy
        /\ batchNo' = batchNo
    BY <1>2 DEF Grows, ledger
  <2>2. session.txns[t] # NoRow => Goal
    BY <1>0, <1>2, <2>1 DEF Grows
  <2>3. ASSUME session.txns[t] = NoRow, session'.txns[t] # NoRow, txns[t] = NoRow
        PROVE  session'.outcome[t] # "pending"
    <3>1. ~Booked(t) /\ Booked(t)'
      BY <2>1, <2>3, FindTypes DEF Booked, Find
    <3>2. Grows(t)
      BY <3>1, BookedSteps
    <3> QED
      BY <2>3, <3>2 DEF Grows, Kept
  <2> QED
    BY <1>0, <2>1, <2>2, <2>3
<1>3. ASSUME Joins PROVE Goal
  <2>1. txns'[t] = Find(t) /\ session'.txns[t] = NoRow /\ batchNo' = batchNo
    BY <1>3, WriteFacts, NewSessionType DEF Joins
  <2>2. CASE session.outcome[t] = "pending"
    <3>1. outcome'[t] = outcome[t] /\ writtenBy'[t] = writtenBy[t]
      BY <1>3, <2>2, WriteFacts DEF Joins
    <3> QED
      BY <1>0, <2>1, <2>2, <3>1, FindTypes
  <2>3. CASE session.outcome[t] # "pending"
    <3>1. outcome'[t] = session.outcome[t] /\ writtenBy'[t] = batchNo
      BY <1>3, <2>3, WriteFacts DEF Joins
    <3> QED
      BY <1>0, <2>1, <2>3, <3>1
  <2> QED
    BY <2>2, <2>3
<1>4. ASSUME Drops PROVE Goal
  BY <1>0, <1>4, NewSessionType DEF Drops, ledger
<1>5. ASSUME NEW u \in Messages, NEW status \in {"corrected", "invalidated"},
             Reviews(u, status)
      PROVE  Goal
  <2>1. txns'[t] # NoRow <=> txns[t] # NoRow
    BY <1>5, ReviewKeepsNone
  <2> QED
    BY <1>0, <1>5, <2>1 DEF Reviews
<1> HIDE DEF Goal
<1>6. Goal
  BY <1>1, <1>2, <1>3, <1>4, <1>5, BookCases
<1> QED
  BY <1>6 DEF Goal

LEMMA SessionCausesStep ==
    TypeOK /\ OwnContent /\ NoDraft /\ Candidates /\ SessionCauses /\ [Next]_vars
      => SessionCauses'
<1> SUFFICES ASSUME TypeOK, OwnContent, NoDraft, Candidates, SessionCauses, [Next]_vars,
                    NEW i \in DOMAIN session'.audit
             PROVE  /\ session'.audit[i].batch = batchNo'
                    /\ session'.audit[i].cause \in Messages
                    /\ session'.outcome[session'.audit[i].cause] # "pending"
  BY DEF SessionCauses
<1> DEFINE Goal == /\ session'.audit[i].batch = batchNo'
                   /\ session'.audit[i].cause \in Messages
                   /\ session'.outcome[session'.audit[i].cause] # "pending"
<1>0. DOMAIN <<>> = {}
  OBVIOUS
<1>1. ASSUME Keeps PROVE Goal
  BY <1>0, <1>1, NewSessionType DEF Keeps, SessionCauses
<1>2. ASSUME NEW m \in Messages, Grows(m) PROVE Goal
  <2>1. batchNo' = batchNo
    BY <1>2 DEF Grows
  <2>2. ASSUME NEW k \in DOMAIN session.audit, session'.audit[i] = session.audit[k]
        PROVE  Goal
    BY <1>2, <2>1, <2>2 DEF SessionCauses, Grows
  <2>3. CASE Kept(session')
    BY <2>2, <2>3 DEF Kept
  <2>4. CASE ~Kept(session')
    <3>1. PICK t \in Messages, row \in FullRows, e \in AuditRows :
            /\ Legal(t, row, e, m)
            /\ session.audit \in Seq(AuditRows) /\ <<e>> \in Seq(AuditRows)
            /\ session'.audit = session.audit \o <<e>>
      BY <1>2, <2>4, GrowsFacts
    <3>2. \/ i \in DOMAIN session.audit /\ session'.audit[i] = session.audit[i]
          \/ session'.audit[i] = e
      BY <3>1, EachJoined
    <3>3. session'.outcome[m] # "pending"
      BY <1>2, <2>4 DEF Grows
    <3> QED
      BY <2>1, <2>2, <3>1, <3>2, <3>3 DEF Legal
  <2> QED
    BY <2>3, <2>4
<1>3. ASSUME Joins \/ Drops PROVE Goal
  BY <1>0, <1>3, NewSessionType DEF Joins, Drops
<1>4. ASSUME NEW t \in Messages, NEW status \in {"corrected", "invalidated"},
             Reviews(t, status)
      PROVE  Goal
  BY <1>4 DEF Reviews, SessionCauses
<1> HIDE DEF Goal
<1>5. Goal
  BY <1>1, <1>2, <1>3, <1>4, BookCases
<1> QED
  BY <1>5 DEF Goal

(* What caused an entry was processed once, and in the batch it names. *)
LEMMA CausesStep ==
    TypeOK /\ OwnContent /\ NoDraft /\ Candidates /\ StagedFresh
    /\ SessionCauses /\ CausesProcessed /\ EffectsInOneCommit /\ [Next]_vars
      => CausesProcessed' /\ EffectsInOneCommit'
<1> SUFFICES ASSUME TypeOK, OwnContent, NoDraft, Candidates, StagedFresh, SessionCauses,
                    CausesProcessed, EffectsInOneCommit, [Next]_vars,
                    NEW i \in DOMAIN audit', audit'[i].cause # None
             PROVE  /\ outcome'[audit'[i].cause] # "pending"
                    /\ audit'[i].batch = writtenBy'[audit'[i].cause]
  BY DEF CausesProcessed, EffectsInOneCommit
<1> DEFINE Goal == /\ outcome'[audit'[i].cause] # "pending"
                   /\ audit'[i].batch = writtenBy'[audit'[i].cause]
<1>0. ASSUME NEW k \in DOMAIN audit, audit[k].cause # None
      PROVE  /\ outcome[audit[k].cause] # "pending"
             /\ audit[k].batch = writtenBy[audit[k].cause]
             /\ audit[k].cause \in Messages
  <2>1. audit[k] \in AuditRows
    BY DEF TypeOK
  <2> QED
    BY <1>0, <2>1 DEF CausesProcessed, EffectsInOneCommit, AuditRows
<1>1. ASSUME UNCHANGED <<outcome, audit, writtenBy>> PROVE Goal
  BY <1>0, <1>1
<1>2. ASSUME Joins PROVE Goal
  <2>1. \/ i \in DOMAIN audit /\ audit'[i] = audit[i]
        \/ /\ i - Len(audit) \in DOMAIN session.audit
           /\ audit'[i] = session.audit[i - Len(audit)]
    BY <1>2, WriteFacts, EachJoined DEF Joins
  <2>2. CASE i \in DOMAIN audit /\ audit'[i] = audit[i]
    <3>1. session.outcome[audit[i].cause] = "pending"
      BY <1>0, <2>2 DEF StagedFresh
    <3>2. /\ outcome'[audit[i].cause] = outcome[audit[i].cause]
          /\ writtenBy'[audit[i].cause] = writtenBy[audit[i].cause]
      BY <1>0, <1>2, <2>2, <3>1, WriteFacts DEF Joins
    <3> QED
      BY <1>0, <2>2, <3>2
  <2>3. CASE i - Len(audit) \in DOMAIN session.audit
             /\ audit'[i] = session.audit[i - Len(audit)]
    <3>1. /\ audit'[i].batch = batchNo /\ audit'[i].cause \in Messages
          /\ session.outcome[audit'[i].cause] # "pending"
      BY <2>3 DEF SessionCauses
    <3> QED
      BY <1>2, <3>1, WriteFacts DEF Joins
  <2> QED
    BY <2>1, <2>2, <2>3
<1>3. ASSUME NEW t \in Messages, NEW status \in {"corrected", "invalidated"},
             Reviews(t, status)
      PROVE  Goal
  <2>1. i \in DOMAIN audit /\ audit'[i] = audit[i]
    <3>1. PICK e \in AuditRows : Reviewed(e, t, status)
      BY <1>3, ReviewsEntry
    <3>2. (i \in DOMAIN audit /\ audit'[i] = audit[i]) \/ audit'[i] = e
      BY <3>1, EachJoined DEF Reviewed
    <3> QED
      BY <3>1, <3>2 DEF Reviewed
  <2> QED
    BY <1>0, <1>3, <2>1 DEF Reviews
<1> HIDE DEF Goal
<1>4. Goal
  BY <1>1, <1>2, <1>3, BookCases DEF Keeps, Grows, Drops, ledger
<1> QED
  BY <1>4 DEF Goal

LEMMA SessionTrailStep ==
    TypeOK /\ OwnContent /\ NoDraft /\ Candidates /\ SessionTrail /\ [Next]_vars
      => SessionTrail'
<1> SUFFICES ASSUME TypeOK, OwnContent, NoDraft, Candidates, SessionTrail, [Next]_vars,
                    NEW u \in Messages
             PROVE  IF session'.txns[u] = NoRow THEN Silent(session'.audit, u)
                    ELSE /\ LeavesAs(session'.audit, u, session'.txns[u].status)
                         /\ txns'[u] = NoRow => Creates(session'.audit, u)
  BY DEF SessionTrail, Silent, LeavesAs, Creates
<1> DEFINE Goal == IF session'.txns[u] = NoRow THEN Silent(session'.audit, u)
                   ELSE /\ LeavesAs(session'.audit, u, session'.txns[u].status)
                        /\ txns'[u] = NoRow => Creates(session'.audit, u)
<1>0. IF session.txns[u] = NoRow THEN Silent(session.audit, u)
      ELSE /\ LeavesAs(session.audit, u, session.txns[u].status)
           /\ txns[u] = NoRow => Creates(session.audit, u)
  BY DEF SessionTrail
<1>1. Silent(<<>>, u)
  BY DEF Silent
<1>2. ASSUME session'.txns[u] = session.txns[u], session'.audit = session.audit,
             txns'[u] = NoRow => txns[u] = NoRow
      PROVE  Goal
  BY <1>0, <1>2
<1>3. ASSUME Keeps PROVE Goal
  BY <1>2, <1>3 DEF Keeps, ledger
<1>4. ASSUME NEW m \in Messages, Grows(m) PROVE Goal
  <2>1. txns' = txns
    BY <1>4 DEF Grows, ledger
  <2>2. CASE Kept(session')
    BY <1>2, <2>1, <2>2 DEF Kept
  <2>3. CASE ~Kept(session')
    <3>1. PICK t \in Messages, row \in FullRows, e \in AuditRows :
            /\ Legal(t, row, e, m)
            /\ row \in Rows /\ row # NoRow
            /\ session'.txns[u] = IF u = t THEN row ELSE session.txns[u]
            /\ session.audit \in Seq(AuditRows) /\ <<e>> \in Seq(AuditRows)
            /\ session'.audit = session.audit \o <<e>>
      BY <1>4, <2>3, GrowsFacts
    <3>2. e.txn = t /\ e.status = row.status /\ (e.action = "created" <=> ~Booked(t))
      BY <3>1 DEF Legal
    <3>3. CASE u # t
      <4>1. Silent(<<e>>, u)
        BY <3>1, <3>2, <3>3, OneEntry
      <4>2. session'.txns[u] = session.txns[u]
        BY <3>1, <3>3
      <4> QED
        BY <1>0, <2>1, <3>1, <4>1, <4>2, SilentJoined, LeavesJoined, CreatesJoined
    <3>4. CASE u = t
      <4>1. session'.txns[u] = row /\ row # NoRow
        BY <3>1, <3>4
      <4>2. LeavesAs(session'.audit, u, row.status)
        <5>1. LeavesAs(<<e>>, u, row.status)
          BY <3>1, <3>2, <3>4, OneEntry
        <5> QED
          BY <3>1, <5>1, LeavesJoined
      <4>3. ASSUME txns[u] = NoRow PROVE Creates(session'.audit, u)
        <5>1. CASE session.txns[u] # NoRow
          BY <1>0, <3>1, <4>3, <5>1, CreatesJoined
        <5>2. CASE session.txns[u] = NoRow
          <6>1. ~Booked(u)
            BY <4>3, <5>2, FindTypes
          <6>2. Creates(<<e>>, u)
            BY <3>1, <3>2, <3>4, <6>1, OneEntry
          <6>3. Silent(session.audit, u)
            BY <1>0, <5>2
          <6>4. /\ session.audit \in Seq(AuditRows) /\ <<e>> \in Seq(AuditRows)
                /\ session'.audit = session.audit \o <<e>>
            BY <3>1
          <6>5. Creates(session.audit \o <<e>>, u)
            BY ONLY <6>2, <6>3, <6>4, CreatesJoined
          <6> QED
            BY <6>4, <6>5
        <5> QED
          BY <5>1, <5>2
      <4> QED
        BY <2>1, <4>1, <4>2, <4>3
    <3> QED
      BY <3>3, <3>4
  <2> QED
    BY <2>2, <2>3
<1>5. ASSUME Joins \/ Drops PROVE Goal
  BY <1>1, <1>5, NewSessionType DEF Joins, Drops
<1>6. ASSUME NEW t \in Messages, NEW status \in {"corrected", "invalidated"},
             Reviews(t, status)
      PROVE  Goal
  BY <1>2, <1>6, ReviewKeepsNone DEF Reviews
<1> HIDE DEF Goal
<1>7. Goal
  BY <1>3, <1>4, <1>5, <1>6, BookCases
<1> QED
  BY <1>7 DEF Goal

LEMMA BooksMatchAuditStep ==
    TypeOK /\ OwnContent /\ NoDraft /\ Candidates /\ SessionTrail /\ BooksMatchAudit
    /\ [Next]_vars => BooksMatchAudit'
<1> SUFFICES ASSUME TypeOK, OwnContent, NoDraft, Candidates, SessionTrail,
                    BooksMatchAudit, [Next]_vars, NEW u \in Messages
             PROVE  IF txns'[u] = NoRow THEN Silent(audit', u)
                    ELSE Creates(audit', u) /\ LeavesAs(audit', u, txns'[u].status)
  BY DEF BooksMatchAudit, Silent, Creates, LeavesAs
<1> DEFINE Goal == IF txns'[u] = NoRow THEN Silent(audit', u)
                   ELSE Creates(audit', u) /\ LeavesAs(audit', u, txns'[u].status)
<1>0. IF txns[u] = NoRow THEN Silent(audit, u)
      ELSE Creates(audit, u) /\ LeavesAs(audit, u, txns[u].status)
  BY DEF BooksMatchAudit
<1>1. ASSUME txns' = txns, audit' = audit PROVE Goal
  BY <1>0, <1>1
<1>2. ASSUME Joins PROVE Goal
  <2>1. /\ txns'[u] = Find(u)
        /\ audit' = audit \o session.audit
        /\ audit \in Seq(AuditRows) /\ session.audit \in Seq(AuditRows)
    BY <1>2, WriteFacts DEF Joins
  <2>2. IF session.txns[u] = NoRow THEN Silent(session.audit, u)
        ELSE /\ LeavesAs(session.audit, u, session.txns[u].status)
             /\ txns[u] = NoRow => Creates(session.audit, u)
    BY DEF SessionTrail
  <2>3. CASE session.txns[u] = NoRow
    <3>1. txns'[u] = txns[u] /\ Silent(session.audit, u)
      BY <2>1, <2>2, <2>3, FindTypes
    <3> QED
      BY <1>0, <2>1, <3>1, SilentJoined, CreatesJoined, LeavesJoined
  <2>4. CASE session.txns[u] # NoRow
    <3>1. txns'[u] = session.txns[u] /\ LeavesAs(session.audit, u, session.txns[u].status)
      BY <2>1, <2>2, <2>4, FindTypes
    <3>2. Creates(audit', u)
      BY <1>0, <2>1, <2>2, <2>4, CreatesJoined
    <3>3. LeavesAs(audit', u, session.txns[u].status)
      BY <2>1, <3>1, LeavesJoined
    <3> QED
      BY <2>4, <3>1, <3>2, <3>3
  <2> QED
    BY <2>3, <2>4
<1>3. ASSUME NEW t \in Messages, NEW status \in {"corrected", "invalidated"},
             Reviews(t, status)
      PROVE  Goal
  <2>0. PICK e \in AuditRows : Reviewed(e, t, status)
    BY <1>3, ReviewsEntry
  <2>1. /\ audit' = audit \o <<e>>
        /\ audit \in Seq(AuditRows) /\ <<e>> \in Seq(AuditRows)
        /\ e.txn = t /\ e.status = status
    BY <2>0 DEF Reviewed
  <2>2. /\ txns[t] \in Rows /\ txns[t] # NoRow
        /\ txns' = [txns EXCEPT ![t] = [txns[t] EXCEPT !.status = status]]
    BY <1>3, ReviewTypes DEF Reviews
  <2>3. [txns[t] EXCEPT !.status = status] # NoRow
        /\ [txns[t] EXCEPT !.status = status].status = status
    <3>1. status \in Statuses
      BY DEF Statuses
    <3> QED
      BY ONLY <2>2, <3>1, Restated
  <2>4. txns'[u] = IF u = t THEN [txns[t] EXCEPT !.status = status] ELSE txns[u]
    BY <2>2 DEF TypeOK
  <2>5. CASE u = t
    <3>1. LeavesAs(<<e>>, u, status)
      <4>1. e.txn = u /\ e.status = status
        BY <2>1, <2>5
      <4>2. LeavesAs(<<e>>, u, e.status)
        BY <2>1, <4>1, OneEntry
      <4> QED
        BY <4>1, <4>2
    <3>2. Creates(audit', u) /\ LeavesAs(audit', u, status)
      BY <1>0, <2>1, <2>2, <2>5, <3>1, CreatesJoined, LeavesJoined
    <3> QED
      BY <2>3, <2>4, <2>5, <3>2
  <2>6. CASE u # t
    <3>1. Silent(<<e>>, u)
      BY <2>1, <2>6, OneEntry
    <3>2. txns'[u] = txns[u]
      BY <2>4, <2>6
    <3> QED
      BY <1>0, <2>1, <3>1, <3>2, SilentJoined, CreatesJoined, LeavesJoined
  <2> QED
    BY <2>5, <2>6
<1> HIDE DEF Goal
<1>4. Goal
  BY <1>1, <1>2, <1>3, BookCases DEF Keeps, Grows, Drops, ledger
<1> QED
  BY <1>4 DEF Goal

LEMMA SessionEditsStep ==
    TypeOK /\ OwnContent /\ NoDraft /\ Candidates /\ SessionTrail /\ SessionEdits
    /\ [Next]_vars => SessionEdits'
<1> SUFFICES ASSUME TypeOK, OwnContent, NoDraft, Candidates, SessionTrail, SessionEdits,
                    [Next]_vars, NEW i \in DOMAIN session'.audit,
                    Kind[session'.audit[i].txn] = "edit",
                    session'.audit[i].action = "created",
                    Original[session'.audit[i].txn] # None
             PROVE  /\ txns'[Original[session'.audit[i].txn]] = NoRow
                    /\ \A k \in DOMAIN session'.audit :
                         session'.audit[k].txn = Original[session'.audit[i].txn] => i <= k
  BY DEF SessionEdits
<1> DEFINE o == Original[session'.audit[i].txn]
           Goal == /\ txns'[o] = NoRow
                   /\ \A k \in DOMAIN session'.audit : session'.audit[k].txn = o => i <= k
<1>0. DOMAIN <<>> = {}
  OBVIOUS
<1>1. ASSUME session'.audit = session.audit, \A t \in Messages : txns[t] = NoRow => txns'[t] = NoRow
      PROVE  Goal
  <2>1. txns[o] = NoRow
        /\ \A k \in DOMAIN session'.audit : session'.audit[k].txn = o => i <= k
    BY <1>1 DEF SessionEdits
  <2>2. o \in Messages
    <3>1. session'.audit[i] \in AuditRows
      BY <1>1, SessionFields DEF TypeOK
    <3> QED
      BY <3>1, Constants DEF AuditRows
  <2> QED
    BY <1>1, <2>1, <2>2
<1>2. ASSUME Keeps PROVE Goal
  BY <1>1, <1>2 DEF Keeps, ledger
<1>3. ASSUME NEW m \in Messages, Grows(m) PROVE Goal
  <2>1. txns' = txns
    BY <1>3 DEF Grows, ledger
  <2>2. CASE Kept(session')
    BY <1>1, <2>1, <2>2 DEF Kept
  <2>3. CASE ~Kept(session')
    <3>1. PICK t \in Messages, row \in FullRows, e \in AuditRows :
            /\ Legal(t, row, e, m)
            /\ session.audit \in Seq(AuditRows) /\ <<e>> \in Seq(AuditRows)
            /\ session'.audit = session.audit \o <<e>>
      BY <1>3, <2>3, GrowsFacts
    <3> DEFINE n == Len(session.audit)
    <3>2. /\ n \in Nat /\ DOMAIN session.audit = 1 .. n
          /\ DOMAIN session'.audit = 1 .. n + 1
          /\ \A k \in 1 .. n : session'.audit[k] = session.audit[k]
          /\ session'.audit[n + 1] = e
      BY <3>1
    <3> HIDE DEF n
    <3>3. CASE i \in 1 .. n
      <4>1. /\ txns[o] = NoRow
            /\ \A k \in 1 .. n : session.audit[k].txn = o => i <= k
        BY <3>2, <3>3 DEF SessionEdits
      <4>2. \A k \in 1 .. n + 1 : k \in 1 .. n \/ k = n + 1
        BY <3>2
      <4>3. \A k \in DOMAIN session'.audit : session'.audit[k].txn = o => i <= k
        <5> SUFFICES ASSUME NEW k \in DOMAIN session'.audit, session'.audit[k].txn = o
                     PROVE  i <= k
          OBVIOUS
        <5> HIDE DEF o
        <5>1. CASE k \in 1 .. n
          BY <3>2, <4>1, <5>1
        <5>2. CASE k = n + 1
          BY <3>2, <3>3, <5>2
        <5> QED
          BY <3>2, <4>2, <5>1, <5>2
      <4> QED
        BY <2>1, <4>1, <4>3
    <3>4. CASE i = n + 1
      <4>1. session'.audit[i] = e /\ e.txn = t /\ o = Original[t]
        BY <3>1, <3>2, <3>4 DEF Legal
      <4>2. o \in Messages /\ ~Booked(o)
        BY <3>1, <4>1, Constants DEF Legal
      <4>3. txns[o] = NoRow /\ session.txns[o] = NoRow
        BY <4>2, FindTypes
      <4>4. Silent(session.audit, o)
        BY <4>2, <4>3 DEF SessionTrail
      <4> HIDE DEF o
      <4>5. ASSUME NEW k \in DOMAIN session'.audit, session'.audit[k].txn = o
            PROVE  i <= k
        <5>1. CASE k \in 1 .. n
          BY <3>2, <4>4, <4>5, <5>1 DEF Silent
        <5>2. CASE k = n + 1
          BY <3>2, <3>4, <5>2
        <5> QED
          BY <3>2, <5>1, <5>2
      <4> QED
        BY <2>1, <4>3, <4>5
    <3> QED
      BY <3>2, <3>3, <3>4
  <2> QED
    BY <2>2, <2>3
<1>4. ASSUME Joins \/ Drops PROVE Goal
  BY <1>0, <1>4, NewSessionType DEF Joins, Drops
<1>5. ASSUME NEW t \in Messages, NEW status \in {"corrected", "invalidated"},
             Reviews(t, status)
      PROVE  Goal
  <2>1. session' = session
    BY <1>5 DEF Reviews
  <2>2. \A u \in Messages : txns[u] = NoRow => txns'[u] = NoRow
    BY <1>5, ReviewKeepsNone
  <2> QED
    BY <1>1, <2>1, <2>2
<1> HIDE DEF Goal
<1>6. Goal
  BY <1>2, <1>3, <1>4, <1>5, BookCases
<1> QED
  BY <1>6 DEF Goal

LEMMA EditNotDuplicatedStep ==
    TypeOK /\ OwnContent /\ NoDraft /\ Candidates /\ SessionEdits /\ BooksMatchAudit
    /\ EditNotDuplicated /\ [Next]_vars => EditNotDuplicated'
<1> SUFFICES ASSUME TypeOK, OwnContent, NoDraft, Candidates, SessionEdits,
                    BooksMatchAudit, EditNotDuplicated, [Next]_vars,
                    NEW i \in DOMAIN audit', NEW k \in DOMAIN audit',
                    Kind[audit'[i].txn] = "edit", audit'[i].action = "created",
                    Original[audit'[i].txn] = audit'[k].txn
             PROVE  i <= k
  BY DEF EditNotDuplicated
<1>1. ASSUME audit' = audit PROVE i <= k
  BY <1>1 DEF EditNotDuplicated
<1>2. ASSUME NEW b \in Seq(AuditRows), audit \in Seq(AuditRows), audit' = audit \o b
      PROVE  /\ i \in 1 .. Len(audit) => i <= k
             /\ i \in Nat /\ k \in Nat
             /\ i \in 1 .. Len(audit) \/ i - Len(audit) \in DOMAIN b
             /\ k \in 1 .. Len(audit) \/ k - Len(audit) \in DOMAIN b
             /\ k \in 1 .. Len(audit) => audit'[k] = audit[k]
             /\ i - Len(audit) \in DOMAIN b => audit'[i] = b[i - Len(audit)]
             /\ k - Len(audit) \in DOMAIN b => audit'[k] = b[k - Len(audit)]
  <2>1. /\ Len(audit) \in Nat /\ DOMAIN audit = 1 .. Len(audit)
        /\ DOMAIN audit' = 1 .. Len(audit) + Len(b) /\ Len(b) \in Nat
        /\ DOMAIN b = 1 .. Len(b)
        /\ \A x \in 1 .. Len(audit) : audit'[x] = audit[x]
        /\ \A x \in 1 .. Len(b) : audit'[Len(audit) + x] = b[x]
    BY <1>2, Joined
  <2>2. i \in Nat /\ k \in Nat
        /\ (i \in 1 .. Len(audit) \/ i - Len(audit) \in 1 .. Len(b))
        /\ (k \in 1 .. Len(audit) \/ k - Len(audit) \in 1 .. Len(b))
    BY <2>1
  <2>3. i \in 1 .. Len(audit) /\ k \in 1 .. Len(audit) => i <= k
    BY <2>1 DEF EditNotDuplicated
  <2>4. i \in 1 .. Len(audit) /\ k - Len(audit) \in 1 .. Len(b) => i <= k
    BY <2>1, <2>2
  <2>5. \A x \in Nat : x - Len(audit) \in 1 .. Len(b) => audit'[x] = b[x - Len(audit)]
    <3> SUFFICES ASSUME NEW x \in Nat, x - Len(audit) \in 1 .. Len(b)
                 PROVE  audit'[x] = b[x - Len(audit)]
      OBVIOUS
    <3>1. Len(audit) + (x - Len(audit)) = x
      BY <2>1
    <3> QED
      BY <2>1, <3>1
  <2> QED
    BY <2>1, <2>2, <2>3, <2>4, <2>5
<1>3. ASSUME Joins PROVE i <= k
  <2>1. /\ audit' = audit \o session.audit
        /\ audit \in Seq(AuditRows) /\ session.audit \in Seq(AuditRows)
    BY <1>3, WriteFacts DEF Joins
  <2> DEFINE n == Len(audit)
  <2>2. n \in Nat /\ DOMAIN audit = 1 .. n
    BY <2>1
  <2>3. CASE i \in 1 .. n
    BY <1>2, <2>1, <2>3
  <2>4. CASE i - n \in DOMAIN session.audit
    <3>1. audit'[i] = session.audit[i - n] /\ audit'[k].txn \in Messages
      <4>1. audit' \in Seq(AuditRows)
        BY <2>1
      <4>2. audit'[k] \in AuditRows
        BY <4>1
      <4> QED
        BY <1>2, <2>1, <2>4, <4>2 DEF AuditRows
    <3>2. Original[audit'[i].txn] # None
      BY <3>1, Constants
    <3>3. /\ txns[audit'[k].txn] = NoRow
          /\ \A x \in DOMAIN session.audit :
               session.audit[x].txn = audit'[k].txn => i - n <= x
      BY <2>4, <3>1, <3>2 DEF SessionEdits
    <3>4. CASE k \in 1 .. n
      <4>1. Silent(audit, audit'[k].txn)
        BY <3>1, <3>3 DEF BooksMatchAudit
      <4> QED
        BY <1>2, <2>1, <2>2, <3>4, <4>1 DEF Silent
    <3>5. CASE k - n \in DOMAIN session.audit
      <4>1. i - n <= k - n
        BY <1>2, <2>1, <3>3, <3>5
      <4>2. i \in Nat /\ k \in Nat
        BY <1>2, <2>1
      <4> QED
        BY <2>2, <4>1, <4>2
    <3> QED
      BY <1>2, <2>1, <3>4, <3>5
  <2> QED
    BY <1>2, <2>1, <2>3, <2>4
<1>4. ASSUME NEW t \in Messages, NEW status \in {"corrected", "invalidated"},
             Reviews(t, status)
      PROVE  i <= k
  <2>0. PICK e \in AuditRows : Reviewed(e, t, status)
    BY <1>4, ReviewsEntry
  <2>1. /\ audit' = audit \o <<e>>
        /\ audit \in Seq(AuditRows) /\ <<e>> \in Seq(AuditRows)
        /\ e.action = status
    BY <2>0 DEF Reviewed
  <2>2. DOMAIN <<e>> = {1} /\ <<e>>[1] = e
    OBVIOUS
  <2>3. i \in 1 .. Len(audit) \/ audit'[i] = e
    BY <1>2, <2>1, <2>2
  <2>4. i \in 1 .. Len(audit)
    BY <2>1, <2>3
  <2> QED
    BY <1>2, <2>1, <2>4
<1> QED
  BY <1>1, <1>3, <1>4, BookCases DEF Keeps, Grows, Drops, ledger

-----------------------------------------------------------------------------
(* The stages of a message *)

LEMMA NoDraftStep == TypeOK /\ OwnContent /\ NoDraft /\ [Next]_vars => NoDraft'
<1> SUFFICES ASSUME TypeOK, OwnContent, NoDraft, [Next]_vars PROVE NoDraft'
  OBVIOUS
<1>1. ASSUME session' = NewSession /\ cands' = <<>> PROVE NoDraft'
  BY <1>1 DEF NoDraft
<1>2. ASSUME Preprocess \/ Route \/ EndPreprocess \/ EndRoute \/ Extract \/ Begin
      PROVE  phase' \in {"preprocess", "extract", "route", "commit"}
  BY <1>2 DEF Preprocess, Route, EndPreprocess, EndRoute, Extract, Begin
<1>3. ASSUME Commit \/ CommitClashes \/ Fail \/ Settle \/ Crash
      PROVE  session' = NewSession /\ cands' = <<>>
  BY <1>3 DEF Commit, CommitClashes, Fail, Settle, Crash, Return, Forgotten
<1>4. ASSUME UNCHANGED <<phase, session, cands>> PROVE NoDraft'
  BY <1>4 DEF NoDraft
<1>5. ASSUME phase' \in {"preprocess", "extract", "route", "commit"} PROVE NoDraft'
  BY <1>5 DEF NoDraft
<1> QED
  BY <1>1, <1>2, <1>3, <1>4, <1>5 DEF Next, Batch, Review, vars, work

LEMMA CandidatesStep ==
    TypeOK /\ OwnContent /\ NoDraft /\ Candidates /\ [Next]_vars => Candidates'
<1> SUFFICES ASSUME TypeOK, OwnContent, NoDraft, Candidates, [Next]_vars
             PROVE  Candidates'
  OBVIOUS
<1>0. Range(<<>>) = {}
  BY DEF Range
<1>1. ASSUME cands' = <<>>, phase' # "route" PROVE Candidates'
  BY <1>0, <1>1 DEF Candidates
<1>2. ASSUME Begin PROVE Candidates'
  BY <1>1, <1>2 DEF Begin, NoDraft
<1>3. ASSUME Preprocess PROVE Candidates'
  <2> DEFINE m == Head(todo)
  <2>1. /\ m \in Messages /\ UNCHANGED <<outcome, phase>> /\ phase = "preprocess"
        /\ \/ cands' = cands
           \/ /\ cands' = Append(cands, m)
              /\ Kind[m] \in {"payment", "edit"} /\ outcome[m] = "pending"
    BY <1>3, PreprocessMove DEF Passes, Chats, Revokes, ledger
  <2> HIDE DEF m
  <2>2. cands \in Seq(Messages)
    BY DEF TypeOK
  <2>3. Range(Append(cands, m)) = Range(cands) \cup {m}
    BY <2>1, <2>2, AppendTypes
  <2>4. CASE cands' = cands
    BY <2>1, <2>4 DEF Candidates
  <2>5. CASE cands' = Append(cands, m) /\ Kind[m] \in {"payment", "edit"}
             /\ outcome[m] = "pending"
    <3>1. Range(cands') = Range(cands) \cup {m}
      BY <2>3, <2>5
    <3> QED
      BY <2>1, <2>5, <3>1 DEF Candidates
  <2> QED
    BY <2>1, <2>4, <2>5
<1>4. ASSUME EndPreprocess PROVE Candidates'
  <2>1. CASE cands = <<>>
    BY <1>1, <1>4, <2>1 DEF EndPreprocess, work
  <2>2. CASE cands # <<>>
    BY <1>4, <2>2 DEF EndPreprocess, work, ledger, Candidates
  <2> QED
    BY <2>1, <2>2
<1>5. ASSUME Extract PROVE Candidates'
  <2>1. PICK e \in [Range(cands) -> Extractions] :
          extraction' = [m \in Messages |->
                           IF m \in Range(cands) THEN e[m] ELSE "none"]
    BY <1>5 DEF Extract
  <2>2. cands' = cands /\ todo' = cands /\ outcome' = outcome
    BY <1>5 DEF Extract, ledger
  <2>3. Range(cands) \subseteq Messages /\ \A i \in DOMAIN cands : cands[i] \in Range(cands)
    BY DEF TypeOK, Range
  <2>4. \A m \in Range(cands) : extraction'[m] \in AllExtractions
    BY <2>1, <2>3, Constants
  <2> QED
    BY <2>2, <2>3, <2>4 DEF Candidates
<1>6. ASSUME Route PROVE Candidates'
  <2>1. /\ todo' = Tail(todo) /\ phase = "route"
        /\ UNCHANGED <<outcome, phase, cands, extraction>>
    BY <1>6, RouteMove DEF ledger
  <2>2. todo \in Seq(Messages) /\ todo # <<>>
    BY <1>6 DEF Route, TypeOK
  <2>3. \A i \in DOMAIN todo' : i + 1 \in DOMAIN todo /\ todo'[i] = todo[i + 1]
    BY <2>1, <2>2, HeadTypes
  <2>4. \A i \in DOMAIN todo' : todo'[i] \in Range(cands)
    BY <2>1, <2>3 DEF Candidates
  <2> QED
    BY <2>1, <2>4 DEF Candidates
<1>7. ASSUME EndRoute PROVE Candidates'
  BY <1>7 DEF EndRoute, work, ledger, Candidates
<1>8. ASSUME Commit \/ CommitClashes \/ Fail \/ Settle \/ Crash
      PROVE  Candidates'
  BY <1>1, <1>8 DEF Commit, CommitClashes, Fail, Settle, Crash, Return, Forgotten
<1>9. ASSUME UNCHANGED <<outcome, phase, cands, todo, extraction>> PROVE Candidates'
  BY <1>9 DEF Candidates
<1> QED
  BY <1>2, <1>3, <1>4, <1>5, <1>6, <1>7, <1>8, <1>9
     DEF Next, Batch, Review, vars, work, ledger

(* What a step does to the outcomes staged. *)
LEMMA StageCases ==
    ASSUME TypeOK, OwnContent, NoDraft, Candidates, [Next]_vars
    PROVE  \/ session' = NewSession
           \/ /\ session' = session /\ UNCHANGED outcome
              /\ \/ UNCHANGED <<phase, extraction>>
                 \/ phase = "idle" /\ session = NewSession
                 \/ phase \in {"preprocess", "extract"}
                 \/ phase = "route" /\ phase' = "commit" /\ UNCHANGED extraction
           \/ /\ UNCHANGED <<outcome, phase, extraction>> /\ phase = "preprocess"
              /\ \E m \in Messages : Passes(m) \/ Chats(m) \/ Revokes(m)
           \/ /\ UNCHANGED <<outcome, phase, extraction>> /\ phase = "route"
              /\ \E m \in Messages :
                   /\ outcome[m] = "pending" /\ Kind[m] \in {"payment", "edit"}
                   /\ session'.outcome = [session.outcome EXCEPT ![m] = Verdict(m)]
                   /\ session'.flagged = IF NeedsReview(extraction[m])
                                        THEN session.flagged \cup {m} ELSE session.flagged
<1>1. ASSUME Begin
      PROVE  session' = session /\ UNCHANGED outcome /\ phase = "idle" /\ session = NewSession
  BY <1>1 DEF Begin, NoDraft, ledger
<1>2. ASSUME EndPreprocess \/ Extract
      PROVE  session' = session /\ UNCHANGED outcome /\ phase \in {"preprocess", "extract"}
  BY <1>2 DEF EndPreprocess, Extract, ledger, work
<1>3. ASSUME EndRoute
      PROVE  /\ session' = session /\ UNCHANGED outcome
             /\ phase = "route" /\ phase' = "commit" /\ UNCHANGED extraction
  BY <1>3 DEF EndRoute, ledger, work
<1>4. ASSUME Preprocess
      PROVE  /\ UNCHANGED <<outcome, phase, extraction>> /\ phase = "preprocess"
             /\ \E m \in Messages : Passes(m) \/ Chats(m) \/ Revokes(m)
  BY <1>4, PreprocessMove DEF ledger
<1>5. ASSUME Route
      PROVE  /\ UNCHANGED <<outcome, phase, extraction>> /\ phase = "route"
             /\ \E m \in Messages :
                  /\ outcome[m] = "pending" /\ Kind[m] \in {"payment", "edit"}
                  /\ session'.outcome = [session.outcome EXCEPT ![m] = Verdict(m)]
                  /\ session'.flagged = IF NeedsReview(extraction[m])
                                       THEN session.flagged \cup {m} ELSE session.flagged
  BY <1>5, RouteMove DEF ledger
<1>6. ASSUME Commit \/ CommitClashes \/ Fail \/ Settle \/ Crash
      PROVE  session' = NewSession
  BY <1>6 DEF Commit, CommitClashes, Fail, Settle, Crash, Return, Forgotten
<1>7. ASSUME NEW t \in Messages, NEW status, Review(t, status)
      PROVE  session' = session /\ UNCHANGED <<outcome, phase, extraction>>
  BY <1>7 DEF Review, work
<1>8. CASE UNCHANGED vars
  BY <1>8 DEF vars, work, ledger
<1> QED
  BY <1>1, <1>2, <1>3, <1>4, <1>5, <1>6, <1>7, <1>8 DEF Next, Batch

LEMMA StagedFreshStep ==
    TypeOK /\ OwnContent /\ NoDraft /\ Candidates /\ StagedFresh /\ [Next]_vars
      => StagedFresh'
<1> SUFFICES ASSUME TypeOK, OwnContent, NoDraft, Candidates, StagedFresh, [Next]_vars,
                    NEW k \in Messages, session'.outcome[k] # "pending"
             PROVE  /\ outcome'[k] = "pending"
                    /\ \/ Kind[k] = "chat" /\ session'.outcome[k] = "NON_TRANSACTION"
                       \/ Kind[k] = "revoke" /\ session'.outcome[k] = "REVOKED"
                       \/ /\ Kind[k] \in {"payment", "edit"}
                          /\ phase' \in {"route", "commit"}
                          /\ session'.outcome[k] = IF NeedsReview(extraction'[k])
                                                   THEN "review_needed" ELSE "success"
  BY DEF StagedFresh, NeedsReview
<1> DEFINE Goal ==
       /\ outcome'[k] = "pending"
       /\ \/ Kind[k] = "chat" /\ session'.outcome[k] = "NON_TRANSACTION"
          \/ Kind[k] = "revoke" /\ session'.outcome[k] = "REVOKED"
          \/ /\ Kind[k] \in {"payment", "edit"}
             /\ phase' \in {"route", "commit"}
             /\ session'.outcome[k] = IF NeedsReview(extraction'[k])
                                      THEN "review_needed" ELSE "success"
<1>0. session.outcome \in [Messages -> Outcomes]
  BY SessionFields DEF TypeOK
<1>1. ASSUME session' = NewSession PROVE FALSE
  BY <1>1, NewSessionType
<1>2. ASSUME session' = session /\ UNCHANGED outcome,
             \/ UNCHANGED <<phase, extraction>>
             \/ phase = "idle" /\ session = NewSession
             \/ phase \in {"preprocess", "extract"}
             \/ phase = "route" /\ phase' = "commit" /\ UNCHANGED extraction
      PROVE  Goal
  BY <1>1, <1>2 DEF StagedFresh
<1>3. ASSUME UNCHANGED <<outcome, phase, extraction>>, phase = "preprocess",
             NEW m \in Messages, Passes(m) \/ Chats(m) \/ Revokes(m)
      PROVE  Goal
  <2>1. CASE session'.outcome[k] = session.outcome[k]
    BY <1>3, <2>1 DEF StagedFresh
  <2>2. CASE session'.outcome[k] # session.outcome[k]
    <3>1. k = m
      BY <1>0, <1>3, <2>2 DEF Passes, Chats, Revokes
    <3> QED
      BY <1>0, <1>3, <2>2, <3>1 DEF Passes, Chats, Revokes
  <2> QED
    BY <2>1, <2>2
<1>4. ASSUME UNCHANGED <<outcome, phase, extraction>>, phase = "route",
             NEW m \in Messages, outcome[m] = "pending", Kind[m] \in {"payment", "edit"},
             session'.outcome = [session.outcome EXCEPT ![m] = Verdict(m)]
      PROVE  Goal
  <2>1. CASE k = m
    BY <1>0, <1>4, <2>1 DEF Verdict
  <2>2. CASE k # m
    <3>1. session'.outcome[k] = session.outcome[k]
      BY <1>0, <1>4, <2>2
    <3> QED
      BY <1>4, <3>1 DEF StagedFresh
  <2> QED
    BY <2>1, <2>2
<1> HIDE DEF Goal
<1>5. Goal
  BY <1>1, <1>2, <1>3, <1>4, StageCases
<1> QED
  BY <1>5 DEF Goal

LEMMA SessionReviewsStep ==
    TypeOK /\ OwnContent /\ NoDraft /\ Candidates /\ StagedFresh /\ SessionReviews
    /\ [Next]_vars => SessionReviews'
<1> SUFFICES ASSUME TypeOK, OwnContent, NoDraft, Candidates, StagedFresh,
                    SessionReviews, [Next]_vars, NEW k \in Messages
             PROVE  session'.outcome[k] = "review_needed" <=> k \in session'.flagged
  BY DEF SessionReviews
<1>0. session.outcome \in [Messages -> Outcomes]
      /\ (session.outcome[k] = "review_needed" <=> k \in session.flagged)
  BY SessionFields DEF TypeOK, SessionReviews
<1>1. ASSUME session' = NewSession
      PROVE  session'.outcome[k] = "review_needed" <=> k \in session'.flagged
  BY <1>1, NewSessionType
<1>2. ASSUME session' = session
      PROVE  session'.outcome[k] = "review_needed" <=> k \in session'.flagged
  BY <1>0, <1>2
<1>3. ASSUME NEW m \in Messages, Passes(m) \/ Chats(m) \/ Revokes(m)
      PROVE  session'.outcome[k] = "review_needed" <=> k \in session'.flagged
  <2>1. CASE Passes(m)
    BY <1>0, <2>1 DEF Passes
  <2>2. CASE Chats(m)
    BY <1>0, <2>2 DEF Chats
  <2>3. CASE Revokes(m)
    BY <1>0, <2>3 DEF Revokes
  <2> QED
    BY <1>3, <2>1, <2>2, <2>3
<1>4. ASSUME NEW m \in Messages, Kind[m] \in {"payment", "edit"},
             session'.outcome = [session.outcome EXCEPT ![m] = Verdict(m)],
             session'.flagged = IF NeedsReview(extraction[m])
                                THEN session.flagged \cup {m} ELSE session.flagged
      PROVE  session'.outcome[k] = "review_needed" <=> k \in session'.flagged
  <2>1. CASE k # m
    BY <1>0, <1>4, <2>1
  <2>2. CASE k = m /\ NeedsReview(extraction[m])
    BY <1>0, <1>4, <2>2 DEF Verdict
  <2>3. CASE k = m /\ ~NeedsReview(extraction[m])
    <3>1. session.outcome[m] # "review_needed"
      BY <1>4, <2>3 DEF StagedFresh
    <3> QED
      BY <1>0, <1>4, <2>3, <3>1 DEF Verdict
  <2> QED
    BY <2>1, <2>2, <2>3
<1> QED
  BY <1>1, <1>2, <1>3, <1>4, StageCases

LEMMA ReviewsRaisedStep ==
    TypeOK /\ OwnContent /\ NoDraft /\ Candidates /\ StagedFresh /\ SessionReviews
    /\ ReviewsRaised /\ [Next]_vars => ReviewsRaised'
<1> SUFFICES ASSUME TypeOK, OwnContent, NoDraft, Candidates, StagedFresh,
                    SessionReviews, ReviewsRaised, [Next]_vars, NEW k \in Messages
             PROVE  outcome'[k] = "review_needed" <=> k \in flagged'
  BY DEF ReviewsRaised
<1>1. ASSUME UNCHANGED <<outcome, flagged>>
      PROVE  outcome'[k] = "review_needed" <=> k \in flagged'
  BY <1>1 DEF ReviewsRaised
<1>2. ASSUME Joins
      PROVE  outcome'[k] = "review_needed" <=> k \in flagged'
  <2>1. CASE session.outcome[k] = "pending"
    BY <1>2, <2>1, WriteFacts DEF Joins, ReviewsRaised, SessionReviews
  <2>2. CASE session.outcome[k] # "pending"
    <3>1. k \notin flagged
      BY <2>2 DEF StagedFresh, ReviewsRaised
    <3> QED
      BY <1>2, <2>2, <3>1, WriteFacts DEF Joins, SessionReviews
  <2> QED
    BY <2>1, <2>2
<1>3. ASSUME NEW t \in Messages, NEW status, Reviews(t, status)
      PROVE  UNCHANGED <<outcome, flagged>>
  BY <1>3 DEF Reviews, Review
<1> QED
  BY <1>1, <1>2, <1>3, BookCases DEF Keeps, Grows, Drops, ledger
(* What is in a draft or in the trail stays there. *)
LEMMA DraftKeeps ==
    ASSUME TypeOK, NEW m \in Messages, Drafts(session', m)
    PROVE  /\ \A i \in DOMAIN session.audit :
                i \in DOMAIN session'.audit /\ session'.audit[i] = session.audit[i]
           /\ \A t \in Messages : Booked(t) => BookedIn(session', t)
<1>0. \A t \in Messages : Booked(t) <=> txns[t] # NoRow \/ session.txns[t] # NoRow
  BY FindTypes
<1>1. CASE Kept(session')
  BY <1>0, <1>1 DEF Kept, BookedIn
<1>2. ASSUME NEW t \in Messages, NEW row \in FullRows, NEW e \in AuditRows,
             Grown(session', t, row, e)
      PROVE  /\ \A i \in DOMAIN session.audit :
                  i \in DOMAIN session'.audit /\ session'.audit[i] = session.audit[i]
             /\ \A u \in Messages : Booked(u) => BookedIn(session', u)
  <2>1. session.txns \in [Messages -> Rows] /\ session.audit \in Seq(AuditRows)
    BY SessionFields DEF TypeOK
  <2>2. session'.audit = Append(session.audit, e)
        /\ session'.txns = [session.txns EXCEPT ![t] = row]
    BY <1>2 DEF Grown
  <2>3. \A i \in DOMAIN session.audit :
          i \in DOMAIN session'.audit /\ session'.audit[i] = session.audit[i]
    BY ONLY <2>1, <2>2
  <2>4. row # NoRow
    BY RowTypes DEF FullRows, Rows
  <2>5. \A u \in Messages : Booked(u) => BookedIn(session', u)
    BY <1>0, <2>1, <2>2, <2>4 DEF BookedIn
  <2> QED
    BY <2>3, <2>5
<1> QED
  BY <1>1, <1>2 DEF Drafts

LEMMA AuditKeeps ==
    ASSUME TypeOK, OwnContent, NoDraft, Candidates, [Next]_vars, NEW i \in DOMAIN audit
    PROVE  i \in DOMAIN audit' /\ audit'[i] = audit[i]
<1>1. ASSUME audit' = audit PROVE i \in DOMAIN audit' /\ audit'[i] = audit[i]
  BY <1>1
<1>2. ASSUME Joins PROVE i \in DOMAIN audit' /\ audit'[i] = audit[i]
  BY <1>2, WriteFacts, Joined DEF Joins
<1>3. ASSUME NEW t \in Messages, NEW status \in {"corrected", "invalidated"},
             Reviews(t, status)
      PROVE  i \in DOMAIN audit' /\ audit'[i] = audit[i]
  <2>1. PICK e \in AuditRows : Reviewed(e, t, status)
    BY <1>3, ReviewsEntry
  <2> QED
    BY <2>1, Joined DEF Reviewed
<1> QED
  BY <1>1, <1>2, <1>3, BookCases DEF Keeps, Grows, Drops, ledger

LEMMA DraftJoins ==
    ASSUME TypeOK, Joins, NEW i \in DOMAIN session.audit
    PROVE  /\ Len(audit) + i \in DOMAIN audit'
           /\ audit'[Len(audit) + i] = session.audit[i]
<1>1. /\ audit' = audit \o session.audit
      /\ audit \in Seq(AuditRows) /\ session.audit \in Seq(AuditRows)
  BY WriteFacts DEF Joins
<1> QED
  BY <1>1, Joined

LEMMA SessionPaymentsStep ==
    TypeOK /\ OwnContent /\ NoDraft /\ Candidates /\ StagedFresh /\ SessionPayments
    /\ [Next]_vars => SessionPayments'
<1> SUFFICES ASSUME TypeOK, OwnContent, NoDraft, Candidates, StagedFresh,
                    SessionPayments, [Next]_vars, NEW k \in Messages,
                    session'.outcome[k] = "success",
                    extraction'[k] \in {"parsed", "review_needed"}
             PROVE  \/ \E t \in Messages : Booked(t)' /\ Content[t] = Content[k]
                    \/ \E i \in DOMAIN session'.audit :
                         session'.audit[i].cause = k /\ session'.audit[i].txn = Original[k]
  BY DEF SessionPayments
<1> DEFINE Goal ==
       \/ \E t \in Messages : (txns'[t] # NoRow \/ session'.txns[t] # NoRow)
                              /\ Content[t] = Content[k]
       \/ \E i \in DOMAIN session'.audit :
            session'.audit[i].cause = k /\ session'.audit[i].txn = Original[k]
<1>0. session.outcome \in [Messages -> Outcomes] /\ StagedFresh'
  BY SessionFields, StagedFreshStep DEF TypeOK
<1>1. ASSUME session' = session, extraction' = extraction PROVE Goal
  <2>1. \/ \E t \in Messages : Booked(t) /\ Content[t] = Content[k]
        \/ \E i \in DOMAIN session.audit :
             session.audit[i].cause = k /\ session.audit[i].txn = Original[k]
    BY <1>1 DEF SessionPayments
  <2>2. \A t \in Messages : Booked(t) => txns'[t] # NoRow \/ session'.txns[t] # NoRow
    BY <1>1, BookedSteps, FindTypes
  <2> QED
    BY <1>1, <2>1, <2>2
<1>2. ASSUME session' = NewSession PROVE FALSE
  BY <1>2, NewSessionType
<1>3. ASSUME phase' \notin {"route", "commit"} PROVE FALSE
  BY <1>0, <1>3 DEF StagedFresh
<1>4. ASSUME session' = session, phase \notin {"route", "commit"} PROVE FALSE
  BY <1>4 DEF StagedFresh
<1>5. ASSUME Route PROVE Goal
  <2> DEFINE m == Head(todo)
  <2>1. /\ m \in Messages /\ Drafts(session', m) /\ txns' = txns
        /\ extraction' = extraction
        /\ session'.outcome = [session.outcome EXCEPT ![m] = Verdict(m)]
        /\ extraction[m] \in {"parsed", "review_needed"} =>
             \/ \E t \in Messages : Content[t] = Content[m] /\ BookedIn(session', t)
             \/ \E i \in DOMAIN session'.audit :
                  session'.audit[i].cause = m /\ session'.audit[i].txn = Original[m]
    BY <1>5, RouteMove DEF ledger
  <2> HIDE DEF m
  <2>2. \A t : BookedIn(session', t) => txns'[t] # NoRow \/ session'.txns[t] # NoRow
    BY <2>1 DEF BookedIn
  <2>3. CASE k = m
    BY <2>1, <2>2, <2>3
  <2>4. CASE k # m
    <3>1. session.outcome[k] = "success" /\ extraction[k] \in {"parsed", "review_needed"}
      BY <1>0, <2>1, <2>4
    <3>2. \/ \E t \in Messages : Booked(t) /\ Content[t] = Content[k]
          \/ \E i \in DOMAIN session.audit :
               session.audit[i].cause = k /\ session.audit[i].txn = Original[k]
      BY <3>1 DEF SessionPayments
    <3> QED
      BY <2>1, <2>2, <3>2, DraftKeeps
  <2> QED
    BY <2>3, <2>4
<1>6. ASSUME Begin \/ Preprocess PROVE FALSE
  BY <1>3, <1>6 DEF Begin, Preprocess
<1>7. ASSUME EndPreprocess \/ Extract PROVE FALSE
  BY <1>4, <1>7 DEF EndPreprocess, Extract, work
<1>8. ASSUME Commit \/ CommitClashes \/ Fail \/ Settle \/ Crash PROVE FALSE
  BY <1>2, <1>8 DEF Commit, CommitClashes, Fail, Settle, Crash, Return, Forgotten
<1>9. ASSUME EndRoute PROVE session' = session /\ extraction' = extraction
  BY <1>9 DEF EndRoute, work
<1>10. ASSUME NEW t, NEW status, Review(t, status)
       PROVE  session' = session /\ extraction' = extraction
  BY <1>10 DEF Review, work
<1>11. ASSUME UNCHANGED vars PROVE session' = session /\ extraction' = extraction
  BY <1>11 DEF vars, work
<1> HIDE DEF Goal
<1>12. Goal
  BY <1>1, <1>5, <1>6, <1>7, <1>8, <1>9, <1>10, <1>11 DEF Next, Batch
<1> QED
  BY <1>12 DEF Goal, Booked, Find
LEMMA PaymentAccountedStep ==
    TypeOK /\ OwnContent /\ NoDraft /\ Candidates /\ SessionPayments /\ PaymentAccounted
    /\ [Next]_vars => PaymentAccounted'
<1> SUFFICES ASSUME TypeOK, OwnContent, NoDraft, Candidates, SessionPayments,
                    PaymentAccounted, [Next]_vars, NEW k \in Messages,
                    outcome'[k] = "success",
                    extracted'[k] \in {"parsed", "review_needed"}
             PROVE  \/ \E t \in Messages : txns'[t] # NoRow /\ txns'[t].hash = Content[k]
                    \/ \E i \in DOMAIN audit' :
                         audit'[i].cause = k /\ audit'[i].txn = Original[k]
  BY DEF PaymentAccounted
<1> DEFINE Goal ==
       \/ \E t \in Messages : txns'[t] # NoRow /\ txns'[t].hash = Content[k]
       \/ \E i \in DOMAIN audit' : audit'[i].cause = k /\ audit'[i].txn = Original[k]
<1>0. \A t \in Messages : txns'[t] # NoRow => txns'[t].hash = Content[t]
  BY OwnContentStep DEF OwnContent
<1>1. ASSUME outcome'[k] = outcome[k], extracted'[k] = extracted[k] PROVE Goal
  <2>1. \/ \E t \in Messages : txns[t] # NoRow /\ txns[t].hash = Content[k]
        \/ \E i \in DOMAIN audit : audit[i].cause = k /\ audit[i].txn = Original[k]
    BY <1>1 DEF PaymentAccounted
  <2>2. ASSUME NEW t \in Messages, txns[t] # NoRow, txns[t].hash = Content[k]
        PROVE  txns'[t] # NoRow /\ txns'[t].hash = Content[k]
    BY <1>0, <2>2, BookedSteps DEF OwnContent
  <2> QED
    BY <2>1, <2>2, AuditKeeps
<1>2. ASSUME Joins, session.outcome[k] # "pending" PROVE Goal
  <2>1. \/ \E t \in Messages : Booked(t) /\ Content[t] = Content[k]
        \/ \E i \in DOMAIN session.audit :
             session.audit[i].cause = k /\ session.audit[i].txn = Original[k]
    BY <1>2, WriteFacts DEF Joins, SessionPayments
  <2>2. ASSUME NEW t \in Messages, Booked(t), Content[t] = Content[k]
        PROVE  txns'[t] # NoRow /\ txns'[t].hash = Content[k]
    BY <1>0, <1>2, <2>2, WriteFacts DEF Joins, Booked
  <2>3. ASSUME NEW i \in DOMAIN session.audit
        PROVE  /\ Len(audit) + i \in DOMAIN audit'
               /\ audit'[Len(audit) + i] = session.audit[i]
    BY <1>2, DraftJoins
  <2> QED
    BY <2>1, <2>2, <2>3
<1>3. ASSUME Joins, session.outcome[k] = "pending"
      PROVE  outcome'[k] = outcome[k] /\ extracted'[k] = extracted[k]
  BY <1>3, WriteFacts DEF Joins
<1>4. ASSUME NEW t, NEW status, Reviews(t, status)
      PROVE  outcome'[k] = outcome[k] /\ extracted'[k] = extracted[k]
  BY <1>4 DEF Reviews, Review
<1> HIDE DEF Goal
<1>5. Goal
  BY <1>1, <1>2, <1>3, <1>4, BookCases DEF Keeps, Grows, Drops, ledger
<1> QED
  BY <1>5 DEF Goal

LEMMA SessionRevokesStep ==
    TypeOK /\ OwnContent /\ NoDraft /\ Candidates /\ SessionRevokes /\ [Next]_vars
      => SessionRevokes'
<1> SUFFICES ASSUME TypeOK, OwnContent, NoDraft, Candidates, SessionRevokes,
                    [Next]_vars, NEW k \in Messages,
                    session'.outcome[k] = "REVOKED", Original[k] # None
             PROVE  \/ txns'[Original[k]] = NoRow
                    \/ \E i \in DOMAIN session'.audit :
                         /\ session'.audit[i].txn = Original[k]
                         /\ session'.audit[i].cause = k
                         /\ session'.audit[i].action = "invalidated"
  BY DEF SessionRevokes
<1> DEFINE o == Original[k]
           Told(a) == \E i \in DOMAIN a : /\ a[i].txn = o /\ a[i].cause = k
                                          /\ a[i].action = "invalidated"
           Goal == txns'[o] = NoRow \/ Told(session'.audit)
<1>0. session.outcome \in [Messages -> Outcomes] /\ o \in Messages
  BY SessionFields, Constants DEF TypeOK
<1>1. ASSUME session.outcome[k] = "REVOKED"
      PROVE  txns[o] = NoRow \/ Told(session.audit)
  BY <1>1 DEF SessionRevokes
<1>2. ASSUME session' = session, txns[o] = NoRow => txns'[o] = NoRow PROVE Goal
  BY <1>1, <1>2
<1>3. ASSUME session' = NewSession PROVE FALSE
  BY <1>3, NewSessionType
<1>4. ASSUME NEW m \in Messages, Drafts(session', m), txns' = txns,
             session'.outcome[k] = session.outcome[k]
      PROVE  Goal
  <2>1. \A i \in DOMAIN session.audit :
          i \in DOMAIN session'.audit /\ session'.audit[i] = session.audit[i]
    BY <1>4, DraftKeeps
  <2> QED
    BY <1>1, <1>4, <2>1
<1>5. ASSUME Preprocess PROVE Goal
  <2> DEFINE m == Head(todo)
  <2>1. /\ m \in Messages /\ Drafts(session', m) /\ txns' = txns
        /\ Passes(m) \/ Chats(m) \/ Revokes(m)
    BY <1>5, PreprocessMove DEF ledger
  <2> HIDE DEF m
  <2>2. CASE session'.outcome[k] = session.outcome[k]
    BY <1>4, <2>1, <2>2
  <2>3. CASE session'.outcome[k] # session.outcome[k]
    <3>1. k = m /\ Revokes(m)
      BY <1>0, <2>1, <2>3 DEF Passes, Chats, Revokes
    <3>2. RevokeTarget(m) = o
      BY <3>1 DEF RevokeTarget
    <3>3. txns[o] = NoRow \/ Told(session'.audit)
      BY <1>0, <3>1, <3>2, FindTypes DEF Revokes
    <3> QED
      BY <2>1, <3>3
  <2> QED
    BY <2>2, <2>3
<1>6. ASSUME Route PROVE Goal
  <2> DEFINE m == Head(todo)
  <2>1. /\ m \in Messages /\ Drafts(session', m) /\ txns' = txns
        /\ session'.outcome = [session.outcome EXCEPT ![m] = Verdict(m)]
    BY <1>6, RouteMove DEF ledger
  <2> HIDE DEF m
  <2>2. k # m
    BY <1>0, <2>1 DEF Verdict
  <2>3. session'.outcome[k] = session.outcome[k]
    BY <1>0, <2>1, <2>2
  <2> QED
    BY <1>4, <2>1, <2>3
<1>7. ASSUME Begin \/ EndPreprocess \/ Extract \/ EndRoute
      PROVE  session' = session /\ txns' = txns
  BY <1>7 DEF Begin, EndPreprocess, Extract, EndRoute, work, ledger
<1>8. ASSUME Commit \/ CommitClashes \/ Fail \/ Settle \/ Crash PROVE FALSE
  BY <1>3, <1>8 DEF Commit, CommitClashes, Fail, Settle, Crash, Return, Forgotten
<1>9. ASSUME NEW t \in Messages, NEW status \in {"corrected", "invalidated"},
             Review(t, status)
      PROVE  session' = session /\ (txns[o] = NoRow => txns'[o] = NoRow)
  <2>1. Reviews(t, status)
    BY <1>9 DEF Review, Reviews, work
  <2> QED
    BY <1>0, <2>1, ReviewKeepsNone DEF Reviews
<1>10. ASSUME UNCHANGED vars PROVE session' = session /\ txns' = txns
  BY <1>10 DEF vars, work, ledger
<1>11. Goal
  <2> HIDE DEF Goal
  <2> QED
    BY <1>2, <1>5, <1>6, <1>7, <1>8, <1>9, <1>10 DEF Next, Batch
<1> QED
  BY <1>11

LEMMA RevokeHonouredStep ==
    TypeOK /\ OwnContent /\ NoDraft /\ Candidates /\ OnlyProcessedBooked
    /\ SessionRevokes /\ RevokeHonoured /\ [Next]_vars => RevokeHonoured'
<1> SUFFICES ASSUME TypeOK, OwnContent, NoDraft, Candidates, OnlyProcessedBooked,
                    SessionRevokes, RevokeHonoured, [Next]_vars, NEW k \in Messages,
                    Kind[k] = "revoke", outcome'[k] = "REVOKED", Original[k] # None,
                    txns'[Original[k]] # NoRow,
                    writtenBy'[Original[k]] < writtenBy'[k]
             PROVE  \E i \in DOMAIN audit' :
                      /\ audit'[i].txn = Original[k] /\ audit'[i].cause = k
                      /\ audit'[i].action = "invalidated"
  BY DEF RevokeHonoured
<1> DEFINE o == Original[k]
           Told(a) == \E i \in DOMAIN a : /\ a[i].txn = o /\ a[i].cause = k
                                          /\ a[i].action = "invalidated"
<1>0. /\ o \in Messages /\ batchNo \in Nat
      /\ \A m \in Messages : writtenBy[m] \in Nat /\ writtenBy[m] <= batchNo
      /\ txns[o] = NoRow /\ session.txns[o] # NoRow => session.outcome[o] # "pending"
  BY Constants DEF TypeOK, OnlyProcessedBooked
<1>1. ASSUME Told(audit) PROVE Told(audit')
  BY <1>1, AuditKeeps
<1>2. ASSUME txns[o] # NoRow, outcome'[k] = outcome[k], writtenBy'[k] = writtenBy[k],
             writtenBy'[o] = writtenBy[o]
      PROVE  Told(audit')
  <2>1. Told(audit)
    BY <1>2 DEF RevokeHonoured
  <2> QED
    BY <1>1, <2>1
<1>3. ASSUME Joins PROVE Told(audit')
  <2>1. ASSUME session.outcome[o] # "pending" PROVE FALSE
    <3>1. writtenBy'[o] = batchNo
      BY <1>0, <1>3, <2>1, WriteFacts DEF Joins
    <3>2. writtenBy'[k] = batchNo \/ writtenBy'[k] = writtenBy[k]
      BY <1>3, WriteFacts DEF Joins
    <3> QED
      BY <1>0, <3>1, <3>2
  <2>2. txns[o] # NoRow
    <3>1. txns'[o] = Find(o)
      BY <1>0, <1>3, WriteFacts DEF Joins
    <3> QED
      BY <1>0, <2>1, <3>1, FindTypes
  <2>3. CASE session.outcome[k] = "pending"
    <3>1. outcome'[k] = outcome[k] /\ writtenBy'[k] = writtenBy[k]
      BY <1>3, <2>3, WriteFacts DEF Joins
    <3>2. writtenBy'[o] = writtenBy[o]
      BY <1>0, <1>3, <2>1, WriteFacts DEF Joins
    <3> QED
      BY <1>2, <2>2, <3>1, <3>2
  <2>4. CASE session.outcome[k] # "pending"
    <3>1. session.outcome[k] = "REVOKED"
      BY <1>3, <2>4, WriteFacts DEF Joins
    <3>2. Told(session.audit)
      BY <2>2, <3>1 DEF SessionRevokes
    <3>3. ASSUME NEW i \in DOMAIN session.audit
          PROVE  /\ Len(audit) + i \in DOMAIN audit'
                 /\ audit'[Len(audit) + i] = session.audit[i]
      BY <1>3, DraftJoins
    <3> QED
      BY <3>2, <3>3
  <2> QED
    BY <2>3, <2>4
<1>4. ASSUME ~Joins, UNCHANGED <<outcome, writtenBy>> PROVE Told(audit')
  BY <1>0, <1>2, <1>4, BookedSteps
<1> HIDE DEF Told
<1>5. Told(audit')
  BY <1>3, <1>4, BookCases DEF Keeps, Grows, Drops, Reviews, ledger
<1> QED
  BY <1>5 DEF Told


-----------------------------------------------------------------------------
(* What a batch records of its extractions *)

\* The draft s, grown from the session for message m, was flushed with an
\* entry of m or not at all.
FlushedFor(s, m) ==
    \/ s.audit = session.audit /\ s.flushed = session.flushed
    \/ /\ s.flushed = Noted(s)
       /\ \E e \in AuditRows : e.cause = m /\ s.audit = Append(session.audit, e)

LEMMA RestateFlushes ==
    ASSUME TypeOK, OwnContent, NEW s \in Sessions, Kept(s),
           NEW t \in Messages, Booked(t), NEW m \in Messages,
           NEW status \in {"corrected", "invalidated"}
    PROVE  /\ FlushedFor(Restate(s, t, status, m), m)
           /\ Restate(s, t, status, m).meta = s.meta
           /\ Restate(s, t, status, m) \in Sessions
<1> DEFINE row == [Find(t) EXCEPT !.status = status]
           e == Entry(t, status, row.status, m)
           new == Flush(s, t, row, status, m)
<1>1. status \in Statuses /\ status \in Actions
  BY DEF Statuses, Actions
<1>2. row \in FullRows /\ row.status \in Statuses
  BY <1>1, FoundHash, Restated
<1>3. batchNo \in Nat /\ m \in Messages \cup {None}
  BY DEF TypeOK
<1>4. e \in AuditRows /\ e.cause = m
  BY <1>1, <1>2, <1>3, EntryType
<1> HIDE DEF row
<1>5. /\ new \in Sessions
      /\ new.outcome = s.outcome /\ new.flagged = s.flagged
      /\ new.txns = [s.txns EXCEPT ![t] = row]
      /\ new.audit = Append(s.audit, e)
      /\ new.meta = s.meta /\ new.flushed = Noted(s)
  BY <1>1, <1>2, <1>3, FlushFields
<1>6. Restate(s, t, status, m) = new /\ s.audit = session.audit
  BY DEF Restate, row, Kept
<1> HIDE DEF new, e
<1> QED
  BY <1>4, <1>5, <1>6 DEF FlushedFor, Noted

LEMMA UpsertFlushes ==
    ASSUME TypeOK, OwnContent, NEW s \in Sessions, Kept(s),
           s.flushed = session.flushed, NEW m \in Messages,
           NEW status \in {"parsed", "review_needed"}
    PROVE  FlushedFor(Upsert(s, m, status), m) /\ Upsert(s, m, status).meta = s.meta
<1> DEFINE row == [status |-> status, hash |-> Content[m]]
           action == IF Find(m) = NoRow THEN "created" ELSE "updated"
           e == Entry(m, action, row.status, m)
           new == Flush(s, m, row, action, m)
<1>1. CASE Upsert(s, m, status) = s
  BY <1>1 DEF FlushedFor, Kept, Noted
<1>2. CASE Upsert(s, m, status) = new
  <2>1. action \in Actions /\ row \in FullRows /\ row.status \in Statuses
    BY Constants DEF Actions, FullRows, Statuses
  <2>2. batchNo \in Nat /\ m \in Messages \cup {None}
    BY DEF TypeOK
  <2> HIDE DEF row, action
  <2>3. e \in AuditRows /\ e.cause = m
    BY <2>1, <2>2, EntryType
  <2>4. /\ new \in Sessions
        /\ new.outcome = s.outcome /\ new.flagged = s.flagged
        /\ new.txns = [s.txns EXCEPT ![m] = row]
        /\ new.audit = Append(s.audit, e)
        /\ new.meta = s.meta /\ new.flushed = Noted(s)
    BY <2>1, <2>2, FlushFields
  <2>5. s.audit = session.audit
    BY DEF Kept
  <2> HIDE DEF new, e
  <2> QED
    BY <1>2, <2>3, <2>4, <2>5 DEF FlushedFor, Noted
<1> QED
  BY <1>1, <1>2 DEF Upsert

(* The first loop scores a message again, or flushes for a revoke. *)
Scores(m) ==
    /\ Kind[m] # "revoke" /\ outcome[m] = "pending"
    /\ session'.meta = [session.meta EXCEPT ![m] = "scored"]
    /\ session'.flushed = session.flushed \ {m}
    /\ session'.audit = session.audit

Flushes(m) ==
    /\ cands' = cands /\ session'.meta = session.meta
    /\ \/ session'.audit = session.audit /\ session'.flushed = session.flushed
       \/ Kind[m] = "revoke" /\ FlushedFor(session', m)

LEMMA ScoringMove ==
    ASSUME TypeOK, OwnContent, Preprocess
    PROVE  /\ Head(todo) \in Messages /\ phase = "preprocess"
           /\ UNCHANGED <<outcome, phase, extraction>>
           /\ \/ cands' = cands
              \/ cands' = Append(cands, Head(todo)) /\ Scores(Head(todo))
           /\ Scores(Head(todo)) \/ Flushes(Head(todo))
<1> DEFINE m == Head(todo)
           scored == [session EXCEPT !.meta[m] = "scored", !.flushed = @ \ {m}]
           done(s, how) == [s EXCEPT !.outcome[m] = how]
           target == RevokeTarget(m)
           applied == IF Find(target) # NoRow THEN Invalidate(session, target, m)
                      ELSE session
<1>1. m \in Messages /\ session \in Sessions
  BY HeadTypes DEF TypeOK, Preprocess
<1>2. /\ phase = "preprocess" /\ UNCHANGED <<outcome, phase, extraction>>
  BY DEF Preprocess, ledger
<1>3. /\ scored \in Sessions /\ scored.audit = session.audit
      /\ scored.meta = [session.meta EXCEPT ![m] = "scored"]
      /\ scored.flushed = session.flushed \ {m}
  <2>1. [session.meta EXCEPT ![m] = "scored"] \in [Messages -> Metas]
    BY <1>1, SessionFields DEF Metas
  <2> QED
    BY <1>1, <2>1 DEF Sessions
<1>4. \A s \in Sessions : \A how \in Outcomes :
        /\ done(s, how).meta = s.meta /\ done(s, how).audit = s.audit
        /\ done(s, how).flushed = s.flushed
  BY <1>1, StageFields
<1>5. \/ session' = session /\ cands' = cands
      \/ /\ Kind[m] = "revoke" /\ cands' = cands
         /\ session' = done(applied, "REVOKED")
      \/ /\ Kind[m] = "chat" /\ ~Handled(m) /\ cands' = cands
         /\ session' = done(scored, "NON_TRANSACTION")
      \/ /\ Kind[m] \in {"payment", "edit"} /\ ~Handled(m)
         /\ cands' = Append(cands, m) /\ session' = scored
  BY DEF Preprocess
<1>6. {"REVOKED", "NON_TRANSACTION"} \subseteq Outcomes
  BY DEF Outcomes
<1>7. ~Handled(m) => outcome[m] = "pending"
  BY DEF Handled
<1> HIDE DEF scored, done, m
<1>8. CASE session' = session /\ cands' = cands
  BY <1>1, <1>2, <1>8 DEF Flushes, m
<1>9. CASE Kind[m] \in {"payment", "edit"} /\ ~Handled(m)
           /\ cands' = Append(cands, m) /\ session' = scored
  BY <1>1, <1>2, <1>3, <1>7, <1>9 DEF Scores, m
<1>10. CASE Kind[m] = "chat" /\ ~Handled(m) /\ cands' = cands
            /\ session' = done(scored, "NON_TRANSACTION")
  BY <1>1, <1>2, <1>3, <1>4, <1>6, <1>7, <1>10 DEF Scores, m
<1>11. CASE Kind[m] = "revoke" /\ cands' = cands
            /\ session' = done(applied, "REVOKED")
  <2>1. applied \in Sessions /\ applied.meta = session.meta /\ FlushedFor(applied, m)
    <3>1. CASE Booked(target)
      <4>1. applied = Restate(session, target, "invalidated", m)
        BY <3>1, RestateIs DEF Booked
      <4>2. Kept(session) /\ target \in Messages
        BY <1>1, Constants DEF Kept, RevokeTarget
      <4> HIDE DEF target, applied
      <4> QED
        BY <1>1, <3>1, <4>1, <4>2, RestateFlushes
    <3>2. CASE ~Booked(target)
      <4>1. applied = session
        BY <3>2 DEF Booked
      <4> HIDE DEF target, applied
      <4> QED
        BY <1>1, <4>1 DEF FlushedFor, Noted
    <3> QED
      BY <3>1, <3>2
  <2> HIDE DEF applied
  <2>2. /\ session'.meta = session.meta /\ session'.audit = applied.audit
        /\ session'.flushed = applied.flushed
    BY <1>4, <1>6, <1>11, <2>1
  <2>3. FlushedFor(session', m)
    BY <2>1, <2>2 DEF FlushedFor, Noted
  <2> QED
    BY <1>1, <1>2, <1>11, <2>2, <2>3 DEF Flushes, m
<1> QED
  BY <1>5, <1>8, <1>9, <1>10, <1>11

(* The second loop puts how its extraction ended in the place of a          *)
(* candidate's scores, if these were not flushed.                           *)
Records(m) ==
    /\ session'.meta = [session.meta EXCEPT ![m] = IF m \in session.flushed THEN @
                                                   ELSE extraction[m]]
    /\ FlushedFor(session', m)

LEMMA RecordingMove ==
    ASSUME TypeOK, OwnContent, Candidates, Route
    PROVE  Records(Head(todo))
<1> DEFINE m == Head(todo)
           recorded == Recorded(m)
           routed == Routed(m)
<1>1. /\ m \in Messages /\ m \in Range(cands) /\ phase = "route"
      /\ session' = Closed(routed, m)
  BY HeadTypes DEF TypeOK, Route, Candidates
<1>2. extraction[m] \in AllExtractions
  BY <1>1 DEF Candidates
<1>3. /\ recorded \in Sessions /\ Kept(recorded) /\ recorded.flushed = session.flushed
      /\ recorded.meta =
           [session.meta EXCEPT ![m] = IF m \in session.flushed THEN @ ELSE extraction[m]]
  BY <1>1, <1>2, RecordedFields
<1>4. routed \in Sessions
  BY <1>1, <1>2, RoutedMove
<1>5. FlushedFor(routed, m) /\ routed.meta = recorded.meta
  <2>1. CASE routed = recorded
    BY <1>3, <2>1 DEF FlushedFor, Kept, Noted
  <2>2. CASE /\ IsEdit(m) /\ Find(Original[m]) # NoRow
             /\ routed = Correct(recorded, Original[m], m)
    <3>1. Original[m] \in Messages /\ Booked(Original[m])
      BY <1>1, <2>2, Constants DEF IsEdit, Booked
    <3>2. routed = Restate(recorded, Original[m], "corrected", m)
      BY <2>2, RestateIs
    <3> HIDE DEF recorded, routed, m
    <3> QED
      BY <1>1, <1>3, <3>1, <3>2, RestateFlushes
  <2>3. CASE /\ extraction[m] \in {"parsed", "review_needed"}
             /\ routed = Upsert(recorded, m, extraction[m])
    <3> HIDE DEF recorded, routed, m
    <3> QED
      BY <1>1, <1>3, <2>3, UpsertFlushes
  <2> QED
    BY <2>1, <2>2, <2>3 DEF Routed
<1> HIDE DEF recorded, routed, m
<1>6. /\ session'.meta = routed.meta /\ session'.audit = routed.audit
      /\ session'.flushed = routed.flushed
  BY <1>1, <1>4 DEF Closed, Sessions
<1>7. Records(m)
  BY <1>3, <1>5, <1>6 DEF Records, FlushedFor, Noted
<1> QED
  BY <1>7 DEF m


LEMMA AheadGrows ==
    ASSUME NEW a \in Seq(AuditRows), NEW e \in AuditRows, NEW k \in Messages,
           \/ Ahead(a, k)
           \/ e.cause \in Messages \ {k} /\ \A j \in DOMAIN a : a[j].cause # k
    PROVE  Ahead(Append(a, e), k)
<1>1. /\ DOMAIN Append(a, e) = 1 .. Len(a) + 1 /\ DOMAIN a = 1 .. Len(a)
      /\ Len(a) \in Nat /\ Append(a, e)[Len(a) + 1] = e
      /\ \A i \in 1 .. Len(a) : Append(a, e)[i] = a[i]
  OBVIOUS
<1>2. CASE Ahead(a, k)
  <2>1. PICK i \in DOMAIN a : /\ a[i].cause \in Messages \ {k}
                              /\ \A j \in DOMAIN a : a[j].cause = k => i < j
    BY <1>2 DEF Ahead
  <2>2. i \in DOMAIN Append(a, e) /\ Append(a, e)[i] = a[i] /\ i < Len(a) + 1
    BY <1>1
  <2>3. \A j \in DOMAIN Append(a, e) : Append(a, e)[j].cause = k => i < j
    BY <1>1, <2>1, <2>2
  <2> QED
    BY <2>1, <2>2, <2>3 DEF Ahead
<1>3. CASE e.cause \in Messages \ {k} /\ \A j \in DOMAIN a : a[j].cause # k
  <2>1. \A j \in DOMAIN Append(a, e) : Append(a, e)[j].cause # k
    BY <1>1, <1>3
  <2> QED
    BY <1>1, <1>3, <2>1 DEF Ahead
<1> QED
  BY <1>2, <1>3

(* Scores that a flush writes have the flushing entry, of another message,  *)
(* ahead of all of their own message: it has none before it is routed.      *)
LEMMA FlushAhead ==
    ASSUME TypeOK, StagedFresh, SessionCauses, SessionRoutings,
           NEW m \in Messages, FlushedFor(session', m),
           NEW k \in Messages, Kind[k] \in {"payment", "edit"},
           k # m \/ k \in session.flushed,
           session'.meta[k] = session.meta[k],
           k \in session'.flushed, session.meta[k] = "scored"
    PROVE  Ahead(session'.audit, k)
<1>1. /\ session.audit \in Seq(AuditRows)
      /\ k \in session.flushed => Ahead(session.audit, k)
  BY SessionFields DEF TypeOK, SessionRoutings
<1>2. CASE session'.audit = session.audit /\ session'.flushed = session.flushed
  BY <1>1, <1>2
<1>3. ASSUME NEW e \in AuditRows, e.cause = m, session'.audit = Append(session.audit, e)
      PROVE  Ahead(session'.audit, k)
  <2>1. CASE k \in session.flushed
    BY <1>1, <1>3, <2>1, AheadGrows
  <2>2. CASE k \notin session.flushed
    <3>1. \A j \in DOMAIN session.audit : session.audit[j].cause # k
      <4>1. session.outcome[k] \notin {"success", "review_needed"}
        <5>1. extraction[k] \in AllExtractions \cup {"none"}
          BY DEF TypeOK
        <5>2. extraction[k] # "scored"
          BY <5>1 DEF AllExtractions
        <5> QED
          BY <2>2, <5>2 DEF SessionRoutings
      <4>2. session.outcome[k] = "pending"
        BY <4>1 DEF StagedFresh
      <4> QED
        BY <4>2 DEF SessionCauses
    <3> QED
      BY <1>1, <1>3, <2>2, <3>1, AheadGrows
  <2> QED
    BY <2>1, <2>2
<1> QED
  BY <1>2, <1>3 DEF FlushedFor

LEMMA SessionRoutingsStep ==
    TypeOK /\ OwnContent /\ NoDraft /\ Candidates /\ StagedFresh /\ SessionCauses
    /\ SessionRoutings /\ [Next]_vars => SessionRoutings'
<1> SUFFICES ASSUME TypeOK, OwnContent, NoDraft, Candidates, StagedFresh,
                    SessionCauses, SessionRoutings, [Next]_vars
             PROVE  SessionRoutings'
  OBVIOUS
<1>0. /\ session.outcome \in [Messages -> Outcomes] /\ session.meta \in [Messages -> Metas]
      /\ cands \in Seq(Messages)
  BY SessionFields DEF TypeOK
<1>1. ASSUME session' = NewSession, cands' = <<>> PROVE SessionRoutings'
  <2>1. Range(<<>>) = {}
    BY DEF Range
  <2> QED
    BY <1>1, <2>1, NewSessionType DEF SessionRoutings
<1>2. ASSUME Commit \/ CommitClashes \/ Fail \/ Settle \/ Crash PROVE SessionRoutings'
  BY <1>1, <1>2 DEF Commit, CommitClashes, Fail, Settle, Crash, Return, Forgotten
<1>3. ASSUME Begin PROVE SessionRoutings'
  <2>1. session' = NewSession /\ cands' = <<>>
    BY <1>3 DEF Begin, NoDraft
  <2> QED
    BY <1>1, <2>1
<1>4. ASSUME UNCHANGED <<session, cands, outcome, extraction>>,
             phase' = phase \/ phase = "preprocess" \/ phase' = "commit"
      PROVE  SessionRoutings'
  BY <1>4 DEF SessionRoutings
<1>5. ASSUME EndPreprocess \/ EndRoute PROVE SessionRoutings'
  BY <1>4, <1>5 DEF EndPreprocess, EndRoute, work, ledger
<1>6. ASSUME Extract PROVE SessionRoutings'
  <2>1. UNCHANGED <<session, cands, outcome>> /\ phase = "extract"
    BY <1>6 DEF Extract, ledger
  <2>2. \A k \in Messages : session.outcome[k] \notin {"success", "review_needed"}
    BY <2>1 DEF StagedFresh
  <2> QED
    BY <2>1, <2>2 DEF SessionRoutings
<1>7. ASSUME Preprocess PROVE SessionRoutings'
  <2> DEFINE m == Head(todo)
  <2>1. /\ m \in Messages /\ phase = "preprocess" /\ UNCHANGED <<outcome, phase, extraction>>
        /\ \/ cands' = cands
           \/ cands' = Append(cands, m) /\ Scores(m)
        /\ Scores(m) \/ Flushes(m)
    BY <1>7, ScoringMove
  <2>2. \A k \in Messages : session'.outcome[k] \notin {"success", "review_needed"}
    <3>1. Passes(m) \/ Chats(m) \/ Revokes(m)
      BY <1>7, PreprocessMove
    <3> HIDE DEF m
    <3> QED
      BY <1>0, <2>1, <3>1 DEF StagedFresh, Passes, Chats, Revokes
  <2> HIDE DEF m
  <2>3. \A k \in Messages : session'.meta[k] # session.meta[k] =>
          k = m /\ session'.meta[k] = "scored" /\ outcome[k] = "pending"
    BY <1>0, <2>1 DEF Scores, Flushes
  <2>4. Scores(m) => session'.meta[m] = "scored"
    BY <1>0, <2>1 DEF Scores
  <2>5. \A k \in Range(cands') : k \in Range(cands) \/ (k = m /\ Scores(m))
    <3>1. Range(Append(cands, m)) = Range(cands) \cup {m}
      BY <1>0, <2>1, AppendTypes
    <3> QED
      BY <2>1, <3>1
  <2>6. Range(cands) \subseteq Messages
    BY <1>0 DEF Range
  <2>7. \A k \in Range(cands') : session'.meta[k] # "none"
    BY <2>3, <2>4, <2>5, <2>6 DEF SessionRoutings
  <2>8. ASSUME NEW k \in Messages, Kind[k] \in {"payment", "edit"},
               k \in session'.flushed, session'.meta[k] = "scored"
        PROVE  Ahead(session'.audit, k)
    <3>1. CASE Scores(m)
      BY <1>0, <2>8, <3>1 DEF Scores, SessionRoutings
    <3>2. CASE /\ session'.meta = session.meta /\ session'.audit = session.audit
               /\ session'.flushed = session.flushed
      BY <2>8, <3>2 DEF SessionRoutings
    <3>3. CASE /\ session'.meta = session.meta /\ Kind[m] = "revoke"
               /\ FlushedFor(session', m)
      BY <2>1, <2>8, <3>3, FlushAhead
    <3> QED
      BY <2>1, <3>1, <3>2, <3>3 DEF Flushes
  <2>9. \A k \in session'.flushed : session'.meta[k] # "none"
    <3>1. session.flushed \subseteq Messages
      BY SessionFields DEF TypeOK
    <3> QED
      BY <2>1, <2>3, <3>1 DEF SessionRoutings, Scores, Flushes, FlushedFor, Noted
  <2> QED
    BY <2>1, <2>2, <2>3, <2>7, <2>8, <2>9 DEF SessionRoutings
<1>8. ASSUME Route PROVE SessionRoutings'
  <2> DEFINE m == Head(todo)
  <2>1. /\ m \in Messages /\ m \in Range(cands) /\ phase = "route"
        /\ UNCHANGED <<outcome, phase, cands, extraction>>
        /\ outcome[m] = "pending"
        /\ session'.outcome = [session.outcome EXCEPT ![m] = Verdict(m)]
        /\ Records(m)
    BY <1>8, RouteMove, RecordingMove DEF ledger
  <2> HIDE DEF m
  <2>2. extraction[m] \in AllExtractions /\ session.meta[m] # "none"
    BY <2>1 DEF Candidates, SessionRoutings
  <2>3. extraction[m] \notin {"none", "scored"}
    BY <2>2 DEF AllExtractions
  <2>4. \A k \in Messages : k # m \/ m \in session.flushed => session'.meta[k] = session.meta[k]
    BY <1>0, <2>1 DEF Records
  <2>5. m \notin session.flushed => session'.meta[m] = extraction[m]
    BY <1>0, <2>1 DEF Records
  <2>6. Range(cands) \subseteq Messages
    BY <1>0 DEF Range
  <2>7. session.flushed \subseteq session'.flushed
    <3>1. \A k \in session.flushed : k \in Messages /\ session'.meta[k] # "none"
      BY <2>4, SessionFields DEF SessionRoutings, TypeOK
    <3> QED
      BY <2>1, <3>1 DEF Records, FlushedFor, Noted
  <2>8. ASSUME NEW k \in Messages, Kind[k] \in {"payment", "edit"},
               k \in session'.flushed, session'.meta[k] = "scored"
        PROVE  Ahead(session'.audit, k)
    <3>1. k # m \/ k \in session.flushed
      BY <2>3, <2>5, <2>8
    <3>2. session'.meta[k] = session.meta[k]
      BY <2>4, <3>1
    <3> QED
      BY <2>1, <2>8, <3>1, <3>2, FlushAhead DEF Records
  <2>9. ASSUME NEW k \in Messages, Kind[k] \in {"payment", "edit"},
               session'.outcome[k] \in {"success", "review_needed"}
        PROVE  /\ extraction[k] # "none"
               /\ \/ session'.meta[k] = extraction[k]
                  \/ session'.meta[k] = "scored" /\ k \in session'.flushed
    <3>1. CASE k = m
      BY <2>1, <2>2, <2>3, <2>4, <2>5, <2>7, <2>9, <3>1 DEF SessionRoutings
    <3>2. CASE k # m
      <4>1. session'.outcome[k] = session.outcome[k]
        BY <1>0, <2>1, <3>2
      <4> QED
        BY <2>4, <2>7, <2>9, <3>2, <4>1 DEF SessionRoutings
    <3> QED
      BY <3>1, <3>2
  <2>10. ASSUME NEW k \in Messages
         PROVE  /\ session'.meta[k] # "none" => outcome[k] = "pending"
                /\ session.meta[k] # "none" => session'.meta[k] # "none"
                /\ Kind[k] \in {"payment", "edit"} =>
                     session'.meta[k] \in {"none", "scored", extraction[k]}
    BY <2>1, <2>3, <2>4, <2>5 DEF SessionRoutings
  <2>11. \A k \in Range(cands') : session'.meta[k] # "none"
    BY <2>1, <2>6, <2>10 DEF SessionRoutings
  <2>12. \A k \in session'.flushed : session'.meta[k] # "none"
    <3>1. \A k \in session.flushed : k \in Messages /\ session'.meta[k] # "none"
      BY <2>4, SessionFields DEF SessionRoutings, TypeOK
    <3> QED
      BY <2>1, <3>1 DEF Records, FlushedFor, Noted
  <2> QED
    BY <2>1, <2>8, <2>9, <2>10, <2>11, <2>12 DEF SessionRoutings
<1>9. ASSUME NEW t \in Messages, NEW status, Review(t, status) PROVE SessionRoutings'
  BY <1>4, <1>9 DEF Review, work
<1>10. CASE UNCHANGED vars
  BY <1>4, <1>10 DEF vars, work, ledger
<1> QED
  BY <1>2, <1>3, <1>5, <1>6, <1>7, <1>8, <1>9, <1>10 DEF Next, Batch

LEMMA RoutingLostStep ==
    TypeOK /\ OwnContent /\ NoDraft /\ Candidates /\ StagedFresh /\ SessionCauses
    /\ SessionRoutings /\ CausesProcessed /\ RoutingLostOnlyBehindFlush /\ [Next]_vars
      => RoutingLostOnlyBehindFlush'
<1> SUFFICES ASSUME TypeOK, OwnContent, NoDraft, Candidates, StagedFresh,
                    SessionCauses, SessionRoutings, CausesProcessed,
                    RoutingLostOnlyBehindFlush, [Next]_vars,
                    NEW m \in Messages,
                    outcome'[m] \in {"success", "review_needed"}, meta'[m] # extracted'[m]
             PROVE  /\ meta'[m] = "scored"
                    /\ \E i \in DOMAIN audit' :
                         /\ audit'[i].batch = writtenBy'[m]
                         /\ audit'[i].cause \in Messages \ {m}
                         /\ \A k \in DOMAIN audit' : audit'[k].cause = m => i < k
  BY DEF RoutingLostOnlyBehindFlush
<1> DEFINE Goal == /\ meta'[m] = "scored"
                   /\ \E i \in DOMAIN audit' :
                        /\ audit'[i].batch = writtenBy'[m]
                        /\ audit'[i].cause \in Messages \ {m}
                        /\ \A k \in DOMAIN audit' : audit'[k].cause = m => i < k
<1>1. ASSUME UNCHANGED ledger PROVE Goal
  BY <1>1 DEF ledger, RoutingLostOnlyBehindFlush
<1>2. ASSUME NEW b \in Seq(AuditRows), audit' = audit \o b, audit \in Seq(AuditRows),
             outcome'[m] = outcome[m], meta'[m] = meta[m],
             extracted'[m] = extracted[m], writtenBy'[m] = writtenBy[m]
      PROVE  Goal
  <2>1. meta[m] = "scored"
        /\ \E i \in DOMAIN audit :
             /\ audit[i].batch = writtenBy[m]
             /\ audit[i].cause \in Messages \ {m}
             /\ \A k \in DOMAIN audit : audit[k].cause = m => i < k
    BY <1>2 DEF RoutingLostOnlyBehindFlush
  <2>2. PICK i \in DOMAIN audit :
          /\ audit[i].batch = writtenBy[m]
          /\ audit[i].cause \in Messages \ {m}
          /\ \A k \in DOMAIN audit : audit[k].cause = m => i < k
    BY <2>1
  <2>3. /\ i \in DOMAIN audit' /\ audit'[i] = audit[i]
        /\ DOMAIN audit = 1 .. Len(audit) /\ Len(audit) \in Nat
        /\ \A k \in DOMAIN audit' :
             \/ k \in DOMAIN audit /\ audit'[k] = audit[k]
             \/ k - Len(audit) \in 1 .. Len(b) /\ k \in Int
    BY <1>2, Joined
  <2>4. \A k \in DOMAIN audit' : audit'[k].cause = m => i < k
    BY <1>2, <2>2, <2>3
  <2> QED
    BY <1>2, <2>1, <2>2, <2>3, <2>4
<1>3. ASSUME Joins PROVE Goal
  <2>1. /\ audit' = audit \o session.audit
        /\ audit \in Seq(AuditRows) /\ session.audit \in Seq(AuditRows)
        /\ meta'[m] = IF session.meta[m] # "none" THEN session.meta[m] ELSE meta[m]
    BY <1>3, WriteFacts DEF Joins
  <2>2. CASE session.outcome[m] = "pending"
    <3>1. /\ outcome'[m] = outcome[m] /\ extracted'[m] = extracted[m]
          /\ writtenBy'[m] = writtenBy[m]
      BY <1>3, <2>2, WriteFacts DEF Joins
    <3>2. session.meta[m] = "none"
      BY <3>1 DEF SessionRoutings
    <3> QED
      BY <1>2, <2>1, <3>1, <3>2
  <2>3. CASE session.outcome[m] # "pending"
    <3>1. /\ outcome'[m] = session.outcome[m] /\ extracted'[m] = extraction[m]
          /\ writtenBy'[m] = batchNo
      BY <1>3, <2>3, WriteFacts DEF Joins
    <3>2. outcome[m] = "pending" /\ Kind[m] \in {"payment", "edit"}
      BY <2>3, <3>1 DEF StagedFresh
    <3>3. meta'[m] = "scored" /\ Ahead(session.audit, m)
      BY <2>1, <3>1, <3>2 DEF SessionRoutings
    <3>4. PICK i \in DOMAIN session.audit :
            /\ session.audit[i].cause \in Messages \ {m}
            /\ \A k \in DOMAIN session.audit : session.audit[k].cause = m => i < k
      BY <3>3 DEF Ahead
    <3> DEFINE n == Len(audit)
    <3>5. /\ n + i \in DOMAIN audit' /\ audit'[n + i] = session.audit[i]
          /\ n \in Nat /\ i \in Nat
          /\ \A k \in DOMAIN audit' :
               \/ k \in DOMAIN audit /\ audit'[k] = audit[k]
               \/ /\ k - n \in DOMAIN session.audit /\ k \in Int
                  /\ audit'[k] = session.audit[k - n]
      BY <2>1, <3>4, Joined
    <3>6. audit'[n + i].batch = writtenBy'[m]
      BY <3>1, <3>4, <3>5 DEF SessionCauses
    <3>7. ASSUME NEW k \in DOMAIN audit', audit'[k].cause = m PROVE n + i < k
      <4>1. ~(k \in DOMAIN audit /\ audit'[k] = audit[k])
        BY <3>2, <3>7, Constants DEF CausesProcessed
      <4>2. /\ k - n \in DOMAIN session.audit /\ k \in Int
            /\ session.audit[k - n].cause = m
        BY <3>5, <3>7, <4>1
      <4>3. i < k - n
        BY <3>4, <4>2
      <4> QED
        BY <3>5, <4>2, <4>3
    <3> QED
      BY <3>3, <3>4, <3>5, <3>6, <3>7
  <2> QED
    BY <2>2, <2>3
<1>4. ASSUME NEW t \in Messages, NEW status \in {"corrected", "invalidated"},
             Reviews(t, status)
      PROVE  Goal
  <2>1. PICK e \in AuditRows : Reviewed(e, t, status)
    BY <1>4, ReviewsEntry
  <2>2. UNCHANGED <<outcome, meta, extracted, writtenBy>>
    BY <1>4 DEF Reviews, Review
  <2> QED
    BY <1>2, <2>1, <2>2 DEF Reviewed
<1> HIDE DEF Goal
<1>5. Goal
  BY <1>1, <1>3, <1>4, BookCases DEF Keeps, Grows, Drops
<1> QED
  BY <1>5 DEF Goal

-----------------------------------------------------------------------------
(* The invariant *)

LEMMA InitTypes == Init => TypeOK
<1> SUFFICES ASSUME Init PROVE TypeOK
  OBVIOUS
<1>1. LedgerTypes
  BY DEF Init, LedgerTypes, Outcomes, Metas, Rows
<1>2. WorkTypes
  BY NewSessionType DEF Init, WorkTypes, Verdicts
<1>3. RedisTypes /\ BudgetTypes /\ batchNo \in Nat
  BY DEF Init, RedisTypes, BudgetTypes
<1> QED
  BY <1>1, <1>2, <1>3, TypeParts

LEMMA InitDraft == Init => Draft
<1> SUFFICES ASSUME Init PROVE Draft
  OBVIOUS
<1>0. DOMAIN <<>> = {} /\ Range(<<>>) = {}
  BY DEF Range
<1>1. /\ session = NewSession /\ cands = <<>> /\ phase = "idle"
      /\ \A t \in Messages : txns[t] = NoRow /\ session.txns[t] = NoRow /\ ~Booked(t)
  BY NewSessionType DEF Init, Booked, Find
<1>2. NoDraft /\ Candidates
  BY <1>0, <1>1 DEF NoDraft, Candidates
<1>3. StagedFresh /\ SessionReviews /\ SessionCauses /\ SessionEdits
  BY <1>0, <1>1, NewSessionType
     DEF StagedFresh, SessionReviews, SessionCauses, SessionEdits
<1>4. OwnContent /\ ContentsDiffer
  BY <1>1 DEF OwnContent, ContentsDiffer
<1>5. SessionTrail /\ SessionPayments /\ SessionRevokes /\ SessionRoutings
  BY <1>0, <1>1, NewSessionType
     DEF SessionTrail, SessionPayments, SessionRevokes, SessionRoutings, Silent
<1> QED
  BY <1>2, <1>3, <1>4, <1>5 DEF Draft

LEMMA IInvInit == Init => IInv
<1> SUFFICES ASSUME Init PROVE IInv
  OBVIOUS
<1>0. DOMAIN <<>> = {}
  OBVIOUS
<1>1. /\ audit = <<>> /\ jobs = <<>> /\ flagged = {}
      /\ \A m \in Messages : /\ outcome[m] = "pending" /\ writtenBy[m] = 0
                             /\ txns[m] = NoRow /\ copies[m] = 1
  BY DEF Init
<1>2. CopiesCover
  <2>1. \A m : {i \in DOMAIN jobs : jobs[i] = m} = {}
    BY <1>0, <1>1
  <2>2. \A m : Cardinality({i \in DOMAIN jobs : jobs[i] = m}) = 0
    BY <2>1, FS_EmptySet
  <2> QED
    BY <1>1, <2>2 DEF CopiesCover, InBatch
<1>3. OnlyProcessedBooked
  BY <1>1, NewSessionType DEF Init, OnlyProcessedBooked
<1>4. CausesProcessed /\ EffectsInOneCommit /\ EditNotDuplicated
  BY <1>0, <1>1 DEF CausesProcessed, EffectsInOneCommit, EditNotDuplicated
<1>5. ReviewsRaised /\ PaymentAccounted /\ RevokeHonoured
  BY <1>1 DEF ReviewsRaised, PaymentAccounted, RevokeHonoured
<1>6. BooksMatchAudit
  BY <1>0, <1>1 DEF BooksMatchAudit, Silent
<1>7. RoutingLostOnlyBehindFlush
  BY <1>1 DEF RoutingLostOnlyBehindFlush
<1> QED
  BY <1>2, <1>3, <1>4, <1>5, <1>6, <1>7, InitTypes, InitDraft DEF IInv

LEMMA IInvStep == IInv /\ [Next]_vars => IInv'
<1> SUFFICES ASSUME IInv, [Next]_vars PROVE IInv'
  OBVIOUS
<1>1. /\ TypeOK /\ CopiesCover /\ CausesProcessed /\ OnlyProcessedBooked
      /\ EffectsInOneCommit /\ ReviewsRaised /\ BooksMatchAudit
      /\ EditNotDuplicated /\ PaymentAccounted /\ RevokeHonoured
      /\ RoutingLostOnlyBehindFlush
  BY DEF IInv
<1>2. /\ NoDraft /\ Candidates /\ StagedFresh /\ SessionReviews /\ SessionCauses
      /\ OwnContent /\ ContentsDiffer /\ SessionTrail /\ SessionEdits
      /\ SessionPayments /\ SessionRevokes /\ SessionRoutings
  BY DEF IInv, Draft
<1>3. TypeOK' /\ CopiesCover' /\ OnlyProcessedBooked'
  BY <1>1, <1>2, TypeStep, CopiesCoverStep, OnlyProcessedBookedStep
<1>4. CausesProcessed' /\ EffectsInOneCommit'
  BY <1>1, <1>2, CausesStep
<1>5. ReviewsRaised' /\ BooksMatchAudit'
  BY <1>1, <1>2, ReviewsRaisedStep, BooksMatchAuditStep
<1>6. EditNotDuplicated'
  BY <1>1, <1>2, EditNotDuplicatedStep
<1>7. PaymentAccounted' /\ RevokeHonoured'
  BY <1>1, <1>2, PaymentAccountedStep, RevokeHonouredStep
<1>8. NoDraft' /\ Candidates' /\ StagedFresh'
  BY <1>1, <1>2, NoDraftStep, CandidatesStep, StagedFreshStep
<1>9. SessionReviews' /\ SessionCauses'
  BY <1>1, <1>2, SessionReviewsStep, SessionCausesStep
<1>10. OwnContent' /\ ContentsDiffer' /\ SessionTrail'
  BY <1>1, <1>2, OwnContentStep, ContentsDifferStep, SessionTrailStep
<1>11. SessionEdits' /\ SessionPayments' /\ SessionRevokes'
  BY <1>1, <1>2, SessionEditsStep, SessionPaymentsStep, SessionRevokesStep
<1>12. SessionRoutings' /\ RoutingLostOnlyBehindFlush'
  BY <1>1, <1>2, SessionRoutingsStep, RoutingLostStep
<1>13. Draft'
  BY <1>8, <1>9, <1>10, <1>11, <1>12 DEF Draft
<1> QED
  BY <1>3, <1>4, <1>5, <1>6, <1>7, <1>12, <1>13 DEF IInv

THEOREM Invariant == Spec => []IInv
<1> QED
  BY IInvInit, IInvStep, PTL DEF Spec

(* Every variable keeps its type: with CopiesCover, no list of Redis holds  *)
(* less than no payload of a message.                                       *)
THEOREM TypeCorrect == Spec => []TypeOK
<1>1. IInv => TypeOK
  BY DEF IInv
<1> QED
  BY <1>1, Invariant, PTL

(* Replays are harmless: a message touches the books only in the batch that *)
(* commits it as processed, whatever is retried, recovered or lost.         *)
THEOREM ReplaysHarmless == Spec => []EffectsInOneCommit
<1>1. IInv => EffectsInOneCommit
  BY DEF IInv
<1> QED
  BY <1>1, Invariant, PTL

(* A payment is booked once: upsert_transaction looks for the hash, the     *)
(* update of a row never changes it, and one batch writes at a time.        *)
THEOREM BookedOnce == Spec => []OneTransactionPerContent
<1>1. ASSUME IInv PROVE OneTransactionPerContent
  <2>1. TypeOK /\ OwnContent /\ ContentsDiffer
    BY <1>1 DEF IInv, Draft
  <2>2. \A t \in Messages : txns[t] # NoRow => Booked(t)
    BY <2>1, FindTypes
  <2> QED
    BY <2>1, <2>2 DEF OneTransactionPerContent, OwnContent, ContentsDiffer
<1> QED
  BY <1>1, Invariant, PTL

(* A message closed as review_needed has its row in audit_logs, and no      *)
(* other message has one: both are written by the same commit.              *)
THEOREM ReviewsAlwaysRaised == Spec => []ReviewsRaised
<1>1. IInv => ReviewsRaised
  BY DEF IInv
<1> QED
  BY <1>1, Invariant, PTL

(* A payment closed as a success is in the books, or corrected the payment  *)
(* it edits; no later batch and no administrator takes it out again.        *)
THEOREM PaymentsAccounted == Spec => []PaymentAccounted
<1>1. IInv => PaymentAccounted
  BY DEF IInv
<1> QED
  BY <1>1, Invariant, PTL

(* The trail of a transaction begins with its creation and ends with the    *)
(* status it has, through batches, rollbacks and reviews.                   *)
THEOREM AuditExplainsBooks == Spec => []BooksMatchAudit
<1>1. IInv => BooksMatchAudit
  BY DEF IInv
<1> QED
  BY <1>1, Invariant, PTL

(* A revoke that was processed after its original's batch invalidated the   *)
(* transaction of the original.                                             *)
THEOREM RevocationsHonoured == Spec => []RevokeHonoured
<1>1. IInv => RevokeHonoured
  BY DEF IInv
<1> QED
  BY <1>1, Invariant, PTL

(* An edit has a transaction of its own only if it was booked before its    *)
(* original was.                                                            *)
THEOREM EditsNotDuplicated == Spec => []EditNotDuplicated
<1>1. IInv => EditNotDuplicated
  BY DEF IInv
<1> QED
  BY <1>1, Invariant, PTL

(* How the extraction of a processed message ended is on its row, unless    *)
(* another message of its commit changed the books between the two loops'   *)
(* work on it, or before its turn in the second: then its scores are.       *)
THEOREM RoutingsLostBehindFlush == Spec => []RoutingLostOnlyBehindFlush
<1>1. IInv => RoutingLostOnlyBehindFlush
  BY DEF IInv
<1> QED
  BY <1>1, Invariant, PTL
=============================================================================
