------------------------------- MODULE Ledger -------------------------------
(***************************************************************************)
(* Transactions and their audit trail under concurrent database sessions:  *)
(* src/backend/app/crud/transaction_crud.py and the correction services,   *)
(* as the worker and the administrators' endpoints call them.              *)
(*                                                                         *)
(* A session is one request of an administrator, or one batch of the       *)
(* worker; PostgreSQL runs it READ COMMITTED.  The ORM loads a row once,   *)
(* and an UPDATE names only the columns whose value differs from what was  *)
(* loaded.  The UPDATE locks the row until the session ends, so another    *)
(* session's UPDATE of it waits.  An audit entry takes both its snapshots  *)
(* from the loaded row, not from the table.                                *)
(***************************************************************************)
EXTENDS Integers, Sequences

CONSTANTS
    Txns,           \* transactions, by the raw message they belong to
    Values,         \* column values, the statuses among them
    Sessions,       \* database sessions
    Plan,           \* [Sessions -> Seq(Operations)], what each one does
    Annotate(_, _), \* remarks with "Invalidated: reason" appended
    None

Fields == {"amount", "remarks", "status"}

Rows == [Fields -> Values]

\* A value, or None, for each column: what a request or an UPDATE names.
Columns == [Fields -> Values \cup {None}]

Named(columns) == {f \in Fields : columns[f] # None}

\* upsert_transaction, correct_transaction_service and
\* invalidate_transaction_service with the fields they are given; for an
\* invalidation that is the reason, if there is one.
Operations == [kind : {"upsert", "correct", "invalidate"}, txn : Txns, set : Columns]

ASSUME LedgerAssumption ==
    /\ Plan \in [Sessions -> Seq(Operations)]
    /\ \A s \in Sessions : \A k \in 1 .. Len(Plan[s]) : LET op == Plan[s][k] IN
         /\ op.kind = "upsert" => Named(op.set) = Fields
         /\ op.kind = "correct" => Named(op.set) \subseteq {"amount", "remarks"}
         /\ op.kind = "invalidate" => Named(op.set) \subseteq {"remarks"}
    /\ {"parsed", "review_needed", "corrected", "invalidated"} \subseteq Values
    /\ \A old, reason \in Values : Annotate(old, reason) \in Values
    /\ None \notin Values \cup Rows

VARIABLES
    row,        \* the committed transactions
    audit,      \* transaction_audit, in commit order
    place,      \* where each session stands
    next,       \* the operation it is at
    loaded,     \* the rows as its identity map holds them
    writes,     \* columns it has written and not committed
    entries     \* audit entries it has not committed

tables == <<row, audit>>
session == <<place, next, loaded, writes, entries>>
vars == <<tables, session>>

-----------------------------------------------------------------------------
Actions == {"created", "updated", "corrected", "invalidated"}

Entries == [txn : Txns, action : Actions, old : Rows \cup {None}, new : Rows]

Nothing == [f \in Fields |-> None]

TypeOK ==
    /\ row \in [Txns -> Rows \cup {None}]
    /\ audit \in Seq(Entries)
    /\ place \in [Sessions -> {"query", "flush", "committed", "aborted"}]
    /\ next \in [Sessions -> Nat \ {0}]
    /\ loaded \in [Sessions -> [Txns -> Rows \cup {None}]]
    /\ writes \in [Sessions -> [Txns -> Columns]]
    /\ entries \in [Sessions -> Seq(Entries)]

Init ==
    /\ row = [t \in Txns |-> None]
    /\ audit = <<>>
    /\ place = [s \in Sessions |-> "query"]
    /\ next = [s \in Sessions |-> 1]
    /\ loaded = [s \in Sessions |-> [t \in Txns |-> None]]
    /\ writes = [s \in Sessions |-> [t \in Txns |-> Nothing]]
    /\ entries = [s \in Sessions |-> <<>>]

-----------------------------------------------------------------------------
Doing(s) == next[s] <= Len(Plan[s])

Op(s) == Plan[s][next[s]]

\* Row r, if there is one, with the columns named in u replaced.
Overlay(u, r) == [f \in Fields |-> IF u[f] # None THEN u[f] ELSE r[f]]

\* Session s has an UPDATE or INSERT of t under way, and its lock.
Locks(s, t) == writes[s][t] # Nothing

Target(s) == Op(s).txn

\* A query of session s sees what is committed and its own writes.
View(s, t) == IF Locks(s, t) THEN Overlay(writes[s][t], row[t]) ELSE row[t]

\* The columns the operation assigns, their values computed from the loaded row.
Assigned(s) ==
    LET op == Op(s)
        closing(v) == [op.set EXCEPT !["status"] = v]
        remarks == IF op.set["remarks"] = None THEN None
                   ELSE Annotate(loaded[s][op.txn]["remarks"], op.set["remarks"])
    IN
    CASE op.kind = "upsert" -> op.set
      [] op.kind = "correct" -> closing("corrected")
      [] op.kind = "invalidate" -> [closing("invalidated") EXCEPT !["remarks"] = remarks]

ActionOf(s) ==
    CASE Op(s).kind = "correct" -> "corrected"
      [] Op(s).kind = "invalidate" -> "invalidated"
      [] Op(s).kind = "upsert" ->
           IF loaded[s][Target(s)] = None THEN "created" ELSE "updated"

\* Nothing to do: no such transaction, no permitted field, or a transaction
\* the upsert must leave to people.
Skipped(s) ==
    LET r == loaded[s][Target(s)] IN
    \/ Op(s).kind # "upsert" /\ r = None
    \/ Op(s).kind = "correct" /\ Op(s).set = Nothing
    \/ /\ Op(s).kind = "upsert" /\ r # None
       /\ r["status"] \in {"corrected", "invalidated"}

\* Mutant: every column is written, changed or not.
Changed_All(old, new) == Fields

\* The columns whose value is new.
Changed(old, new) ==
    IF old = None THEN Fields ELSE {f \in Fields : old[f] # new[f]}

\* Mutant: the snapshot is taken after the assignment.
OldSnapshot_Late(s, new) == new

OldSnapshot(s, new) == loaded[s][Target(s)]

-----------------------------------------------------------------------------
(* The operation reads its transaction: again from the table, or the object *)
(* the session still holds.                                                 *)
Query(s) ==
    /\ place[s] = "query" /\ Doing(s)
    /\ place' = [place EXCEPT ![s] = "flush"]
    /\ \/ loaded' = [loaded EXCEPT ![s][Target(s)] = View(s, Target(s))]
       \/ loaded[s][Target(s)] # None /\ UNCHANGED loaded
    /\ UNCHANGED <<tables, next, writes, entries>>

Advance(s) ==
    /\ place' = [place EXCEPT ![s] = "query"]
    /\ next' = [next EXCEPT ![s] = @ + 1]

Skip(s) ==
    /\ place[s] = "flush" /\ Skipped(s)
    /\ Advance(s)
    /\ UNCHANGED <<tables, loaded, writes, entries>>

(* INSERT or UPDATE, and the INSERT of the audit entry.  With no column     *)
(* changed there is no UPDATE and no lock, but an audit entry all the same. *)
Flush(s) ==
    /\ place[s] = "flush" /\ ~Skipped(s)
    /\ LET t == Target(s)
           old == loaded[s][t]
           new == Overlay(Assigned(s), old)
           columns == Changed(old, new)
       IN
       /\ old = None => row[t] = None
       /\ columns # {} => \A q \in Sessions \ {s} : ~Locks(q, t)
       /\ loaded' = [loaded EXCEPT ![s][t] = new]
       /\ writes' = [writes EXCEPT ![s][t] =
                       [f \in Fields |-> IF f \in columns THEN new[f] ELSE @[f]]]
       /\ entries' = [entries EXCEPT ![s] = Append(@,
             [txn |-> t, action |-> ActionOf(s),
              old |-> OldSnapshot(s, new), new |-> new])]
    /\ Advance(s)
    /\ UNCHANGED tables

\* The session is over and holds nothing any more.
Close(s, how) ==
    /\ place' = [place EXCEPT ![s] = how]
    /\ loaded' = [loaded EXCEPT ![s] = [t \in Txns |-> None]]
    /\ writes' = [writes EXCEPT ![s] = [t \in Txns |-> Nothing]]
    /\ entries' = [entries EXCEPT ![s] = <<>>]
    /\ UNCHANGED next

(* Another session has inserted the transaction first: IntegrityError. *)
Clash(s) ==
    /\ place[s] = "flush" /\ ~Skipped(s)
    /\ loaded[s][Target(s)] = None /\ row[Target(s)] # None
    /\ Close(s, "aborted")
    /\ UNCHANGED tables

Commit(s) ==
    /\ place[s] = "query" /\ ~Doing(s)
    /\ row' = [t \in Txns |-> View(s, t)]
    /\ audit' = audit \o entries[s]
    /\ Close(s, "committed")

(* Mutant: the session is not closed after an exception. *)
Abort_Open(s) ==
    /\ place[s] \in {"query", "flush"}
    /\ place' = [place EXCEPT ![s] = "aborted"]
    /\ UNCHANGED <<tables, next, loaded, writes, entries>>

(* Any exception before the commit, or the process dies: rolled back. *)
Abort(s) ==
    /\ place[s] \in {"query", "flush"}
    /\ Close(s, "aborted")
    /\ UNCHANGED tables

-----------------------------------------------------------------------------
Step(s) == Query(s) \/ Skip(s) \/ Flush(s) \/ Clash(s) \/ Commit(s)

Next == \E s \in Sessions : Step(s) \/ Abort(s)

Spec == Init /\ [][Next]_vars

\* A request that waits for no lock goes on.
FairSpec == Spec /\ \A s \in Sessions : WF_vars(Step(s))

-----------------------------------------------------------------------------
(* Properties *)

\* Entry i of trail a says that column f of transaction t has changed.
Records(a, i, t, f) ==
    a[i].txn = t /\ (a[i].old = None \/ a[i].old[f] # a[i].new[f])

(* The trail explains the books: each column of a transaction has the value *)
(* that the last entry to change it says, whatever sessions did at the same *)
(* time and whoever was rolled back; what is not in the table has no entry. *)
BooksMatchTrail ==
    \A t \in Txns : \A f \in Fields :
        IF row[t] = None THEN \A i \in DOMAIN audit : audit[i].txn # t
        ELSE \E i \in DOMAIN audit :
               /\ Records(audit, i, t, f)
               /\ audit[i].new[f] = row[t][f]
               /\ \A k \in i + 1 .. Len(audit) : ~Records(audit, k, t, f)

\* Session s commits in this step.
Commits(s) == place[s] = "query" /\ place'[s] = "committed"

(* A session working from a stale copy reverts nobody's column: a commit    *)
(* changes only those its own operations name.                              *)
OnlyNamedColumns ==
    [][\A t \in Txns : \A f \in Fields :
         row[t] # None /\ row'[t][f] # row[t][f] =>
           \E s \in Sessions : Commits(s) /\ \E k \in DOMAIN Plan[s] :
              /\ Plan[s][k].txn = t
              /\ f = "status" \/ f \in Named(Plan[s][k].set)]_vars

(* Every session ends: while only the worker locks several rows, nobody     *)
(* waits for ever, and a failing session lets go of its locks.              *)
EverySessionEnds ==
    \A s \in Sessions : <>(place[s] \in {"committed", "aborted"})
=============================================================================
