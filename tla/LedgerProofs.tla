---------------------------- MODULE LedgerProofs ----------------------------
(***************************************************************************)
(* The books and their trail, for any transactions, sessions and plans.    *)
(*                                                                         *)
(* The argument is local to a session: the entries it has not committed    *)
(* say of every column exactly what its uncommitted writes say             *)
(* (EntriesMatch), because an entry's snapshots and the UPDATE's columns   *)
(* are both computed from the loaded row.  It does not matter how stale    *)
(* that row is.  A commit appends the entries and overlays the writes, so  *)
(* the two stay in step in the tables as well.                             *)
(***************************************************************************)
EXTENDS Ledger, SequenceTheorems, TLAPS

-----------------------------------------------------------------------------
(* Trails *)

\* The last entry of trail a to change column f of t says v.
LastSays(a, t, f, v) ==
    \E i \in DOMAIN a :
       /\ Records(a, i, t, f)
       /\ a[i].new[f] = v
       /\ \A k \in i + 1 .. Len(a) : ~Records(a, k, t, f)

Unrecorded(a, t, f) == \A i \in DOMAIN a : ~Records(a, i, t, f)

Unmentioned(a, t) == \A i \in DOMAIN a : a[i].txn # t

(* Where the entries of two trails are in the one that joins them. *)
LEMMA Joined ==
    ASSUME NEW S, NEW a \in Seq(S), NEW b \in Seq(S)
    PROVE  /\ a \o b \in Seq(S)
           /\ Len(a \o b) = Len(a) + Len(b)
           /\ DOMAIN a = 1 .. Len(a) /\ DOMAIN b = 1 .. Len(b)
           /\ DOMAIN (a \o b) = 1 .. Len(a) + Len(b)
           /\ Len(a) \in Nat /\ Len(b) \in Nat
           /\ \A i \in 1 .. Len(a) : (a \o b)[i] = a[i]
           /\ \A i \in 1 .. Len(b) : (a \o b)[Len(a) + i] = b[i]
           /\ \A i \in 1 .. Len(a) + Len(b) :
                i \in 1 .. Len(a) \/ i - Len(a) \in 1 .. Len(b)
OBVIOUS

(* What the later trail says counts. *)
LEMMA LaterSays ==
    ASSUME NEW S, NEW a \in Seq(S), NEW b \in Seq(S), NEW t, NEW f, NEW v,
           LastSays(b, t, f, v)
    PROVE  LastSays(a \o b, t, f, v)
<1>1. PICK i \in 1 .. Len(b) :
         /\ Records(b, i, t, f)
         /\ b[i].new[f] = v
         /\ \A k \in i + 1 .. Len(b) : ~Records(b, k, t, f)
  BY Joined DEF LastSays
<1>2. Len(a) + i \in DOMAIN (a \o b) /\ (a \o b)[Len(a) + i] = b[i]
  BY Joined
<1>3. ASSUME NEW k \in Len(a) + i + 1 .. Len(a \o b)
      PROVE  ~Records(a \o b, k, t, f)
  <2>1. k - Len(a) \in i + 1 .. Len(b) /\ (a \o b)[k] = b[k - Len(a)]
    BY Joined
  <2> QED
    BY <1>1, <2>1 DEF Records
<1> QED
  BY <1>1, <1>2, <1>3 DEF LastSays, Records

(* A trail that is silent on the column changes nothing. *)
LEMMA EarlierSays ==
    ASSUME NEW S, NEW a \in Seq(S), NEW b \in Seq(S), NEW t, NEW f, NEW v,
           LastSays(a, t, f, v), Unrecorded(b, t, f)
    PROVE  LastSays(a \o b, t, f, v)
<1>1. PICK i \in 1 .. Len(a) :
         /\ Records(a, i, t, f)
         /\ a[i].new[f] = v
         /\ \A k \in i + 1 .. Len(a) : ~Records(a, k, t, f)
  BY Joined DEF LastSays
<1>2. i \in DOMAIN (a \o b) /\ (a \o b)[i] = a[i]
  BY Joined
<1>3. ASSUME NEW k \in i + 1 .. Len(a \o b)
      PROVE  ~Records(a \o b, k, t, f)
  <2>1. CASE k \in 1 .. Len(a)
    BY <1>1, <2>1, Joined DEF Records
  <2>2. CASE k - Len(a) \in 1 .. Len(b)
    <3>1. (a \o b)[k] = b[k - Len(a)]
      BY <2>2, Joined
    <3> QED
      BY <2>2, <3>1, Joined DEF Unrecorded, Records
  <2> QED
    BY <2>1, <2>2, Joined
<1> QED
  BY <1>1, <1>2, <1>3 DEF LastSays, Records

LEMMA BothSilent ==
    ASSUME NEW S, NEW a \in Seq(S), NEW b \in Seq(S), NEW t, NEW f
    PROVE  /\ Unrecorded(a, t, f) /\ Unrecorded(b, t, f) => Unrecorded(a \o b, t, f)
           /\ Unmentioned(a, t) /\ Unmentioned(b, t) => Unmentioned(a \o b, t)
<1> SUFFICES ASSUME NEW i \in DOMAIN (a \o b)
             PROVE  (\E k \in DOMAIN a : (a \o b)[i] = a[k])
                    \/ (\E k \in DOMAIN b : (a \o b)[i] = b[k])
  BY DEF Unrecorded, Unmentioned, Records
<1>1. CASE i \in 1 .. Len(a)
  BY <1>1, Joined
<1>2. CASE i - Len(a) \in 1 .. Len(b)
  BY <1>2, Joined
<1> QED
  BY <1>1, <1>2, Joined

(* One entry more. *)
LEMMA OneMore ==
    ASSUME NEW S, NEW a \in Seq(S), NEW e \in S, NEW t, NEW f
    PROVE  /\ Append(a, e) = a \o <<e>> /\ <<e>> \in Seq(S)
           /\ e.txn = t /\ (e.old = None \/ e.old[f] # e.new[f])
                => LastSays(<<e>>, t, f, e.new[f])
           /\ ~(e.txn = t /\ (e.old = None \/ e.old[f] # e.new[f]))
                => Unrecorded(<<e>>, t, f)
           /\ e.txn # t => Unmentioned(<<e>>, t)
<1>1. Append(a, e) = a \o <<e>> /\ <<e>> \in Seq(S)
  OBVIOUS
<1>2. DOMAIN <<e>> = {1} /\ Len(<<e>>) = 1 /\ <<e>>[1] = e
  OBVIOUS
<1>3. 2 .. 1 = {}
  OBVIOUS
<1> QED
  BY <1>1, <1>2, <1>3 DEF LastSays, Unrecorded, Unmentioned, Records

-----------------------------------------------------------------------------
(* The inductive invariant *)

\* A session's entries say what its writes say.
EntriesMatch ==
    \A s \in Sessions : \A t \in Txns : \A f \in Fields :
        IF writes[s][t][f] = None THEN Unrecorded(entries[s], t, f)
        ELSE LastSays(entries[s], t, f, writes[s][t][f])

\* What is not in the table is written whole or not at all, and only the
\* session that writes it knows or mentions it.
InsertsAreWhole ==
    \A s \in Sessions : \A t \in Txns : row[t] = None =>
        \/ \A f \in Fields : writes[s][t][f] # None
        \/ /\ ~Locks(s, t)
           /\ loaded[s][t] = None
           /\ Unmentioned(entries[s], t)

\* A session writes the columns that its operations name, and the status.
WritesAreNamed ==
    \A s \in Sessions : \A t \in Txns : \A f \in Fields :
        writes[s][t][f] # None =>
           \E k \in DOMAIN Plan[s] :
              /\ Plan[s][k].txn = t
              /\ f = "status" \/ f \in Named(Plan[s][k].set)

\* A session that is about to flush is at an operation.
Busy == \A s \in Sessions : place[s] = "flush" => Doing(s)

IInv == TypeOK /\ Busy /\ EntriesMatch /\ InsertsAreWhole /\ WritesAreNamed /\ BooksMatchTrail

-----------------------------------------------------------------------------
(* The operations *)

LEMMA Constants ==
    /\ None \notin Values /\ None \notin Rows
    /\ {"parsed", "review_needed", "corrected", "invalidated"} \subseteq Values
    /\ \A old, reason \in Values : Annotate(old, reason) \in Values
BY LedgerAssumption

LEMMA OpType ==
    ASSUME TypeOK, NEW s \in Sessions, Doing(s)
    PROVE  /\ next[s] \in DOMAIN Plan[s]
           /\ Op(s) \in Operations
           /\ Target(s) \in Txns
           /\ Op(s).kind = "upsert" => Named(Op(s).set) = Fields
<1>1. next[s] \in 1 .. Len(Plan[s]) /\ Plan[s] \in Seq(Operations)
  BY LedgerAssumption DEF TypeOK, Doing
<1>2. Op(s) \in Operations
  BY <1>1 DEF Op
<1>3. Op(s).kind = "upsert" => Named(Op(s).set) = Fields
  BY <1>1, LedgerAssumption DEF Op
<1> QED
  BY <1>1, <1>2, <1>3 DEF Target, Operations

(* The columns assigned are values, or None where nothing is assigned, and  *)
(* only what the operation names, or the status.                            *)
LEMMA AssignedType ==
    ASSUME TypeOK, NEW s \in Sessions, Doing(s), ~Skipped(s)
    PROVE  /\ Assigned(s) \in Columns
           /\ \A f \in Fields : Assigned(s)[f] # None =>
                f = "status" \/ f \in Named(Op(s).set)
           /\ loaded[s][Target(s)] = None =>
                \A f \in Fields : Assigned(s)[f] # None
<1> DEFINE op == Op(s)
           r == loaded[s][Target(s)]
<1>1. op \in Operations /\ Target(s) = op.txn /\ op.txn \in Txns
  BY OpType DEF Target
<1>2. op.kind \in {"upsert", "correct", "invalidate"} /\ op.set \in Columns
  BY <1>1 DEF Operations
<1>3. r \in Rows \cup {None}
  BY <1>1 DEF TypeOK
<1>4. CASE op.kind = "upsert"
  <2>1. Assigned(s) = op.set
    BY <1>4 DEF Assigned
  <2> QED
    BY <1>2, <1>4, <2>1, OpType DEF Named
<1>5. CASE op.kind = "correct"
  <2>1. Assigned(s) = [op.set EXCEPT !["status"] = "corrected"]
    BY <1>5 DEF Assigned
  <2>2. r # None
    BY <1>5 DEF Skipped
  <2> QED
    BY <1>2, <2>1, <2>2, Constants DEF Columns, Named, Fields
<1>6. CASE op.kind = "invalidate"
  <2> DEFINE remarks == IF op.set["remarks"] = None THEN None
                        ELSE Annotate(r["remarks"], op.set["remarks"])
  <2>1. Assigned(s) = [[op.set EXCEPT !["status"] = "invalidated"]
                         EXCEPT !["remarks"] = remarks]
    BY <1>1, <1>6 DEF Assigned, Target
  <2>2. r \in Rows
    BY <1>3, <1>6 DEF Skipped
  <2>3. r["remarks"] \in Values
    BY <2>2 DEF Rows, Fields
  <2>4. op.set["remarks"] \in Values \cup {None}
    BY <1>2 DEF Columns, Fields
  <2>5. remarks \in Values \cup {None}
        /\ (remarks # None => op.set["remarks"] # None)
    BY <2>3, <2>4, Constants
  <2> HIDE DEF remarks
  <2> QED
    BY <1>2, <2>1, <2>2, <2>5, Constants DEF Columns, Named, Fields
<1> QED
  BY <1>2, <1>4, <1>5, <1>6

Copied(s) == loaded[s][Target(s)]

Computed(s) == Overlay(Assigned(s), Copied(s))

Touched(s) == Changed(Copied(s), Computed(s))

Entry(s) == [txn |-> Target(s), action |-> ActionOf(s),
             old |-> Copied(s), new |-> Computed(s)]

(* What a flush computes: a whole row, and the columns in which it differs. *)
LEMMA ComputedType ==
    ASSUME TypeOK, NEW s \in Sessions, Doing(s), ~Skipped(s)
    PROVE  /\ Copied(s) \in Rows \cup {None}
           /\ Computed(s) \in Rows
           /\ Entry(s) \in Entries
           /\ \A f \in Fields : f \in Touched(s) <=>
                Copied(s) = None \/ Copied(s)[f] # Computed(s)[f]
           /\ \A f \in Touched(s) :
                f \in Fields /\ Assigned(s)[f] # None
<1>1. Target(s) \in Txns /\ Op(s) \in Operations
  BY OpType
<1>2. Copied(s) \in Rows \cup {None}
  BY <1>1 DEF Copied, TypeOK
<1>3. Assigned(s) \in Columns
  BY AssignedType
<1>4. ASSUME NEW f \in Fields
      PROVE  (IF Assigned(s)[f] # None THEN Assigned(s)[f] ELSE Copied(s)[f]) \in Values
  <2>1. CASE Assigned(s)[f] # None
    BY <1>3, <1>4, <2>1 DEF Columns
  <2>2. CASE Assigned(s)[f] = None
    <3>1. Copied(s) \in Rows
      BY <1>2, <2>2, AssignedType DEF Copied
    <3> QED
      BY <3>1, <2>2, <1>4 DEF Rows
  <2> QED
    BY <2>1, <2>2
<1>5. Computed(s) \in Rows
  BY <1>4 DEF Computed, Overlay, Rows
<1>6. ActionOf(s) \in Actions
  <2>1. Op(s).kind \in {"upsert", "correct", "invalidate"}
    BY <1>1 DEF Operations
  <2> QED
    BY <2>1 DEF ActionOf, Actions
<1>7. Entry(s) \in Entries
  BY <1>1, <1>2, <1>5, <1>6 DEF Entry, Entries
<1>8. \A f \in Fields : f \in Touched(s) <=>
        Copied(s) = None \/ Copied(s)[f] # Computed(s)[f]
  BY DEF Touched, Changed
<1>9. ASSUME NEW f \in Touched(s)
      PROVE  f \in Fields /\ Assigned(s)[f] # None
  <2>1. f \in Fields
    BY <1>9 DEF Touched, Changed
  <2>2. CASE Copied(s) = None
    BY <2>1, <2>2, AssignedType DEF Copied
  <2>3. CASE Copied(s) # None
    BY <2>1, <2>3, <1>8 DEF Computed, Overlay
  <2> QED
    BY <2>1, <2>2, <2>3
<1> QED
  BY <1>2, <1>5, <1>7, <1>8, <1>9

LEMMA FlushStep ==
    ASSUME TypeOK, NEW s \in Sessions, Flush(s), Doing(s)
    PROVE  /\ UNCHANGED tables
           /\ place' = [place EXCEPT ![s] = "query"]
           /\ next' = [next EXCEPT ![s] = @ + 1]
           /\ loaded' = [loaded EXCEPT ![s][Target(s)] = Computed(s)]
           /\ entries' = [entries EXCEPT ![s] = Append(@, Entry(s))]
           /\ writes' = [writes EXCEPT ![s][Target(s)] =
                 [f \in Fields |-> IF f \in Touched(s) THEN Computed(s)[f] ELSE @[f]]]
           /\ Copied(s) = None => row[Target(s)] = None
BY DEF Flush, Advance, Copied, Computed, Touched, Entry, OldSnapshot

-----------------------------------------------------------------------------
(* Each step is one of four *)

Reads(s) ==
    /\ UNCHANGED <<row, audit, writes, entries>>
    /\ \/ UNCHANGED loaded
       \/ Target(s) \in Txns
          /\ loaded' = [loaded EXCEPT ![s][Target(s)] = View(s, Target(s))]

Ends(s) == Close(s, "aborted") /\ UNCHANGED tables

LEMMA NextCases ==
    ASSUME TypeOK, Busy, [Next]_vars
    PROVE  \/ UNCHANGED vars
           \/ \E s \in Sessions :
                \/ Reads(s)
                \/ Flush(s) /\ Doing(s) /\ ~Skipped(s)
                \/ Ends(s)
                \/ Commit(s)
<1>1. ASSUME NEW s \in Sessions, Query(s)
      PROVE  Reads(s)
  BY <1>1, OpType DEF Query, Reads, tables
<1>2. ASSUME NEW s \in Sessions, Skip(s)
      PROVE  Reads(s)
  BY <1>2 DEF Skip, Reads, tables
<1>3. ASSUME NEW s \in Sessions, Clash(s) \/ Abort(s)
      PROVE  Ends(s)
  BY <1>3 DEF Clash, Abort, Ends
<1>4. ASSUME NEW s \in Sessions, Flush(s)
      PROVE  Doing(s) /\ ~Skipped(s)
  BY <1>4 DEF Flush, Busy
<1> QED
  BY <1>1, <1>2, <1>3, <1>4 DEF Next, Step

(* What a session sees of a transaction is a whole row or none. *)
LEMMA ViewType ==
    ASSUME TypeOK, InsertsAreWhole, NEW s \in Sessions, NEW t \in Txns
    PROVE  /\ View(s, t) \in Rows \cup {None}
           /\ View(s, t) = None <=> row[t] = None /\ ~Locks(s, t)
           /\ View(s, t) # None => \A f \in Fields : View(s, t)[f] =
                IF writes[s][t][f] # None THEN writes[s][t][f] ELSE row[t][f]
<1>1. row[t] \in Rows \cup {None} /\ writes[s][t] \in Columns
  BY DEF TypeOK
<1>2. CASE Locks(s, t)
  <2>1. ASSUME NEW f \in Fields
        PROVE  (IF writes[s][t][f] # None THEN writes[s][t][f] ELSE row[t][f]) \in Values
    <3>1. CASE writes[s][t][f] # None
      BY <1>1, <3>1, <2>1 DEF Columns
    <3>2. CASE writes[s][t][f] = None
      <4>1. row[t] \in Rows
        BY <1>1, <1>2, <3>2, <2>1 DEF InsertsAreWhole
      <4> QED
        BY <4>1, <3>2, <2>1 DEF Rows
    <3> QED
      BY <3>1, <3>2
  <2>2. View(s, t) = [f \in Fields |->
           IF writes[s][t][f] # None THEN writes[s][t][f] ELSE row[t][f]]
    BY <1>2 DEF View, Overlay
  <2>3. View(s, t) \in Rows
    BY <2>1, <2>2 DEF Rows
  <2> QED
    BY <1>2, <2>2, <2>3, Constants
<1>3. CASE ~Locks(s, t)
  BY <1>1, <1>3 DEF View, Locks, Nothing
<1> QED
  BY <1>2, <1>3

-----------------------------------------------------------------------------
(* Types *)

LEMMA SetCell ==
    ASSUME NEW A, NEW B, NEW C, NEW g \in [A -> [B -> C]],
           NEW a \in A, NEW b \in B, NEW c \in C
    PROVE  /\ [g EXCEPT ![a][b] = c] \in [A -> [B -> C]]
           /\ \A x \in A : \A y \in B : [g EXCEPT ![a][b] = c][x][y] =
                IF x = a /\ y = b THEN c ELSE g[x][y]
OBVIOUS

LEMMA TypeStep == TypeOK /\ Busy /\ InsertsAreWhole /\ [Next]_vars => TypeOK' /\ Busy'
<1> SUFFICES ASSUME TypeOK, Busy, InsertsAreWhole, [Next]_vars PROVE TypeOK' /\ Busy'
  OBVIOUS
<1>1. Nothing \in Columns
  BY DEF Nothing, Columns
<1>2. ASSUME NEW s \in Sessions, NEW how \in {"committed", "aborted"}, Close(s, how)
      PROVE  /\ place' \in [Sessions -> {"query", "flush", "committed", "aborted"}]
             /\ next' \in [Sessions -> Nat \ {0}]
             /\ loaded' \in [Sessions -> [Txns -> Rows \cup {None}]]
             /\ writes' \in [Sessions -> [Txns -> Columns]]
             /\ entries' \in [Sessions -> Seq(Entries)]
             /\ Busy'
  <2>1. /\ [t \in Txns |-> None] \in [Txns -> Rows \cup {None}]
        /\ [t \in Txns |-> Nothing] \in [Txns -> Columns]
        /\ <<>> \in Seq(Entries)
    BY <1>1
  <2> QED
    BY <1>2, <2>1 DEF Close, TypeOK, Busy, Doing
<1>3. ASSUME NEW s \in Sessions, Query(s)
      PROVE  TypeOK' /\ Busy'
  <2>1. Target(s) \in Txns /\ View(s, Target(s)) \in Rows \cup {None}
    BY <1>3, OpType, ViewType DEF Query
  <2>2. loaded' \in [Sessions -> [Txns -> Rows \cup {None}]]
    <3>1. loaded \in [Sessions -> [Txns -> Rows \cup {None}]]
      BY DEF TypeOK
    <3>2. [loaded EXCEPT ![s][Target(s)] = View(s, Target(s))]
            \in [Sessions -> [Txns -> Rows \cup {None}]]
      BY <2>1, <3>1, SetCell
    <3> QED
      BY <1>3, <3>1, <3>2 DEF Query
  <2> QED
    BY <1>3, <2>2 DEF Query, TypeOK, Busy, Doing, tables
<1>4. ASSUME NEW s \in Sessions, Skip(s)
      PROVE  TypeOK' /\ Busy'
  BY <1>4 DEF Skip, Advance, TypeOK, Busy, Doing, tables
<1>5. ASSUME NEW s \in Sessions, Flush(s)
      PROVE  TypeOK' /\ Busy'
  <2>1. Doing(s) /\ ~Skipped(s)
    BY <1>5 DEF Flush, Busy
  <2>2. Target(s) \in Txns
    BY <2>1, OpType
  <2>3. loaded' \in [Sessions -> [Txns -> Rows \cup {None}]]
    <3>1. loaded \in [Sessions -> [Txns -> Rows \cup {None}]]
      BY DEF TypeOK
    <3>2. Computed(s) \in Rows \cup {None}
      BY <2>1, ComputedType
    <3>3. [loaded EXCEPT ![s][Target(s)] = Computed(s)]
            \in [Sessions -> [Txns -> Rows \cup {None}]]
      BY <2>2, <3>1, <3>2, SetCell
    <3> QED
      BY <1>5, <2>1, <3>3, FlushStep
  <2>4. [f \in Fields |-> IF f \in Touched(s) THEN Computed(s)[f]
                          ELSE writes[s][Target(s)][f]] \in Columns
    <3>1. Computed(s) \in [Fields -> Values]
      BY <2>1, ComputedType DEF Rows
    <3>2. writes[s][Target(s)] \in [Fields -> Values \cup {None}]
      BY <2>2 DEF TypeOK, Columns
    <3> QED
      BY <3>1, <3>2 DEF Columns
  <2>5. writes' \in [Sessions -> [Txns -> Columns]]
    <3>1. writes \in [Sessions -> [Txns -> Columns]]
      BY DEF TypeOK
    <3> DEFINE cell == [f \in Fields |-> IF f \in Touched(s) THEN Computed(s)[f]
                                        ELSE writes[s][Target(s)][f]]
    <3>2. writes' = [writes EXCEPT ![s][Target(s)] = cell]
      BY <1>5, <2>1, FlushStep
    <3>3. cell \in Columns
      BY <2>4
    <3> HIDE DEF cell
    <3>4. [writes EXCEPT ![s][Target(s)] = cell] \in [Sessions -> [Txns -> Columns]]
      BY <2>2, <3>1, <3>3, SetCell
    <3> QED
      BY <3>2, <3>4
  <2>6. entries' \in [Sessions -> Seq(Entries)]
    <3>1. Append(entries[s], Entry(s)) \in Seq(Entries)
      BY <2>1, ComputedType DEF TypeOK
    <3> QED
      <4>1. entries \in [Sessions -> Seq(Entries)]
        BY DEF TypeOK
      <4>2. entries' = [entries EXCEPT ![s] = Append(entries[s], Entry(s))]
        BY <1>5, <2>1, FlushStep
      <4> QED
        BY ONLY <3>1, <4>1, <4>2
  <2> QED
    <3>1. row' = row /\ audit' = audit
          /\ place' = [place EXCEPT ![s] = "query"]
          /\ next' = [next EXCEPT ![s] = @ + 1]
      BY <1>5, <2>1, FlushStep DEF tables
    <3>2. row' \in [Txns -> Rows \cup {None}] /\ audit' \in Seq(Entries)
          /\ place' \in [Sessions -> {"query", "flush", "committed", "aborted"}]
          /\ next' \in [Sessions -> Nat \ {0}]
      BY <3>1 DEF TypeOK
    <3>3. Busy'
      BY <3>1 DEF TypeOK, Busy, Doing
    <3> QED
      BY <2>3, <2>5, <2>6, <3>2, <3>3 DEF TypeOK
<1>6. ASSUME NEW s \in Sessions, Commit(s)
      PROVE  TypeOK' /\ Busy'
  <2>1. row' \in [Txns -> Rows \cup {None}]
    BY <1>6, ViewType DEF Commit
  <2>2. audit' \in Seq(Entries)
    BY <1>6, Joined DEF Commit, TypeOK
  <2> QED
    BY <1>2, <1>6, <2>1, <2>2 DEF Commit, TypeOK
<1>7. ASSUME NEW s \in Sessions, Clash(s) \/ Abort(s)
      PROVE  TypeOK' /\ Busy'
  BY <1>2, <1>7 DEF Clash, Abort, TypeOK, tables
<1>8. CASE UNCHANGED vars
  BY <1>8 DEF vars, tables, session, TypeOK, Busy, Doing
<1> QED
  BY <1>3, <1>4, <1>5, <1>6, <1>7, <1>8 DEF Next, Step
-----------------------------------------------------------------------------
(* The writes and the entries of a session *)

LEMMA Extended ==
    ASSUME TypeOK, NEW s \in Sessions, Doing(s), ~Skipped(s), Flush(s)
    PROVE  /\ \A q \in Sessions : q # s => entries'[q] = entries[q]
           /\ entries'[s] = entries[s] \o <<Entry(s)>>
           /\ entries[s] \in Seq(Entries) /\ <<Entry(s)>> \in Seq(Entries)
<1>1. /\ entries' = [entries EXCEPT ![s] = Append(entries[s], Entry(s))]
      /\ entries \in [Sessions -> Seq(Entries)]
  BY FlushStep DEF TypeOK
<1>2. Entry(s) \in Entries /\ entries[s] \in Seq(Entries)
  BY <1>1, ComputedType
<1>3. /\ Append(entries[s], Entry(s)) = entries[s] \o <<Entry(s)>>
      /\ <<Entry(s)>> \in Seq(Entries)
  BY <1>2, OneMore
<1>4. entries'[s] = entries[s] \o <<Entry(s)>>
      /\ \A q \in Sessions : q # s => entries'[q] = entries[q]
  BY ONLY <1>1, <1>3, s \in Sessions
<1> QED
  BY <1>2, <1>3, <1>4

LEMMA Reloaded ==
    ASSUME TypeOK, NEW s \in Sessions, Doing(s), ~Skipped(s), Flush(s),
           NEW q \in Sessions, NEW t \in Txns
    PROVE  loaded'[q][t] =
             IF q = s /\ t = Target(s) THEN Computed(s) ELSE loaded[q][t]
<1>1. Target(s) \in Txns
  BY OpType
<1>2. loaded \in [Sessions -> [Txns -> Rows \cup {None}]]
  BY DEF TypeOK
<1>3. loaded' = [loaded EXCEPT ![s][Target(s)] = Computed(s)]
  BY FlushStep
<1> QED
  BY ONLY <1>1, <1>2, <1>3, s \in Sessions, q \in Sessions, t \in Txns

LEMMA Written ==
    ASSUME TypeOK, NEW s \in Sessions, Doing(s), ~Skipped(s), Flush(s),
           NEW q \in Sessions, NEW t \in Txns
    PROVE  /\ q # s \/ t # Target(s) => writes'[q][t] = writes[q][t]
           /\ q = s /\ t = Target(s) => \A f \in Fields : writes'[q][t][f] =
                IF f \in Touched(s) THEN Computed(s)[f] ELSE writes[q][t][f]
<1> DEFINE cell == [f \in Fields |-> IF f \in Touched(s) THEN Computed(s)[f]
                                    ELSE writes[s][Target(s)][f]]
<1>1. Target(s) \in Txns
  BY OpType
<1>2. writes' = [writes EXCEPT ![s][Target(s)] = cell]
      /\ writes \in [Sessions -> [Txns -> Columns]]
  BY FlushStep DEF TypeOK
<1>3. \A f \in Fields : cell[f] =
        IF f \in Touched(s) THEN Computed(s)[f] ELSE writes[s][Target(s)][f]
  OBVIOUS
<1> HIDE DEF cell
<1>4. writes'[q][t] = IF q = s /\ t = Target(s) THEN cell ELSE writes[q][t]
  BY ONLY <1>1, <1>2, s \in Sessions, q \in Sessions, t \in Txns
<1> QED
  BY ONLY <1>3, <1>4

(* A session that is over has neither. *)
LEMMA Closed ==
    ASSUME TypeOK, NEW s \in Sessions, NEW how, Close(s, how)
    PROVE  /\ \A q \in Sessions : q # s =>
                /\ entries'[q] = entries[q] /\ writes'[q] = writes[q]
                /\ loaded'[q] = loaded[q]
           /\ entries'[s] = <<>>
           /\ \A t \in Txns : writes'[s][t] = Nothing /\ loaded'[s][t] = None
           /\ \A t \in Txns : \A f \in Fields : writes'[s][t][f] = None
BY DEF Close, TypeOK, Nothing

LEMMA EntriesMatchStep ==
    TypeOK /\ Busy /\ EntriesMatch /\ [Next]_vars => EntriesMatch'
<1> SUFFICES ASSUME TypeOK, Busy, EntriesMatch, [Next]_vars,
                    NEW q \in Sessions, NEW t \in Txns, NEW f \in Fields
             PROVE  IF writes'[q][t][f] = None THEN Unrecorded(entries'[q], t, f)
                    ELSE LastSays(entries'[q], t, f, writes'[q][t][f])
  BY DEF EntriesMatch, Unrecorded, LastSays, Records
<1> USE DEF EntriesMatch
<1>1. ASSUME writes' = writes, entries' = entries
      PROVE  IF writes'[q][t][f] = None THEN Unrecorded(entries'[q], t, f)
             ELSE LastSays(entries'[q], t, f, writes'[q][t][f])
  BY <1>1
<1>2. ASSUME NEW s \in Sessions, Flush(s), Doing(s), ~Skipped(s)
      PROVE  IF writes'[q][t][f] = None THEN Unrecorded(entries'[q], t, f)
             ELSE LastSays(entries'[q], t, f, writes'[q][t][f])
  <2>1. CASE q # s
    <3>1. entries'[q] = entries[q]
      BY <1>2, <2>1, Extended
    <3>2. writes'[q][t] = writes[q][t]
      BY <1>2, <2>1, Written
    <3> QED
      BY <3>1, <3>2
  <2> SUFFICES ASSUME q = s
               PROVE  IF writes'[q][t][f] = None THEN Unrecorded(entries'[q], t, f)
                      ELSE LastSays(entries'[q], t, f, writes'[q][t][f])
    BY <2>1
  <2>2. /\ entries'[s] = entries[s] \o <<Entry(s)>>
        /\ entries[s] \in Seq(Entries) /\ <<Entry(s)>> \in Seq(Entries)
        /\ Entry(s) \in Entries
    BY <1>2, Extended, ComputedType
  <2>3. CASE t = Target(s) /\ f \in Touched(s)
    <3>1. writes'[s][t][f] = Computed(s)[f] /\ Computed(s)[f] # None
      <4>1. writes'[s][t][f] = Computed(s)[f]
        BY <1>2, <2>3, Written
      <4>2. Computed(s) \in Rows
        BY <1>2, ComputedType
      <4> QED
        BY <4>1, <4>2, Constants DEF Rows
    <3>2. LastSays(<<Entry(s)>>, t, f, Computed(s)[f])
      <4>1. Copied(s) = None \/ Copied(s)[f] # Computed(s)[f]
        BY <1>2, <2>3, ComputedType
      <4>2. Entry(s).txn = t /\ Entry(s).old = Copied(s) /\ Entry(s).new = Computed(s)
        BY <2>3 DEF Entry
      <4> QED
        BY <2>2, <4>1, <4>2, OneMore
    <3> QED
      BY <2>2, <3>1, <3>2, LaterSays
  <2>4. CASE ~(t = Target(s) /\ f \in Touched(s))
    <3>1. writes'[s][t][f] = writes[s][t][f]
      BY <1>2, <2>4, Written
    <3>2. Unrecorded(<<Entry(s)>>, t, f)
      BY <1>2, <2>2, <2>4, OneMore, ComputedType DEF Entry
    <3> QED
      BY <2>2, <3>1, <3>2, EarlierSays, BothSilent
  <2> QED
    BY <2>3, <2>4
<1>3. ASSUME NEW s \in Sessions, NEW how, Close(s, how)
      PROVE  IF writes'[q][t][f] = None THEN Unrecorded(entries'[q], t, f)
             ELSE LastSays(entries'[q], t, f, writes'[q][t][f])
  <2>1. Unrecorded(<<>>, t, f)
    BY DEF Unrecorded
  <2> QED
    BY <1>3, <2>1, Closed
<1> QED
  BY <1>1, <1>2, <1>3, NextCases DEF vars, session, Reads, Ends, Commit

LEMMA InsertsAreWholeStep ==
    TypeOK /\ Busy /\ InsertsAreWhole /\ [Next]_vars => InsertsAreWhole'
<1> SUFFICES ASSUME TypeOK, Busy, InsertsAreWhole, [Next]_vars,
                    NEW q \in Sessions, NEW t \in Txns, row'[t] = None
             PROVE  \/ \A f \in Fields : writes'[q][t][f] # None
                    \/ /\ writes'[q][t] = Nothing
                       /\ loaded'[q][t] = None
                       /\ Unmentioned(entries'[q], t)
  BY DEF InsertsAreWhole, Locks, Unmentioned
<1> DEFINE Goal == \/ \A f \in Fields : writes'[q][t][f] # None
                   \/ /\ writes'[q][t] = Nothing
                      /\ loaded'[q][t] = None
                      /\ Unmentioned(entries'[q], t)
<1>0. row[t] = None =>
        \/ \A f \in Fields : writes[q][t][f] # None
        \/ writes[q][t] = Nothing /\ loaded[q][t] = None /\ Unmentioned(entries[q], t)
  BY DEF InsertsAreWhole, Locks
<1>1. ASSUME UNCHANGED vars PROVE Goal
  BY <1>0, <1>1 DEF vars, session, tables
<1>2. ASSUME NEW s \in Sessions, Reads(s) PROVE Goal
  <2>1. row[t] = None /\ writes'[q] = writes[q] /\ entries'[q] = entries[q]
    BY <1>2 DEF Reads
  <2>2. loaded'[q][t] = loaded[q][t] \/ loaded'[q][t] = View(q, t)
    <3>1. loaded \in [Sessions -> [Txns -> Rows \cup {None}]]
      BY DEF TypeOK
    <3> QED
      BY <1>2, <3>1 DEF Reads
  <2>3. writes[q][t] = Nothing => View(q, t) = None
    BY <2>1 DEF View, Locks
  <2> QED
    BY <1>0, <2>1, <2>2, <2>3
<1>3. ASSUME NEW s \in Sessions, Flush(s), Doing(s), ~Skipped(s) PROVE Goal
  <2>1. row[t] = None
    BY <1>3, FlushStep DEF tables
  <2>2. CASE q # s
    <3>1. entries'[q] = entries[q]
      BY <1>3, <2>2, Extended
    <3>2. writes'[q][t] = writes[q][t] /\ loaded'[q][t] = loaded[q][t]
      BY <1>3, <2>2, Written, Reloaded
    <3> QED
      BY <1>0, <2>1, <3>1, <3>2
  <2>3. CASE q = s /\ t = Target(s)
    <3>1. \A f \in Fields : writes'[s][t][f] =
             IF f \in Touched(s) THEN Computed(s)[f] ELSE writes[s][t][f]
      BY <1>3, <2>3, Written
    <3>2. \A f \in Fields : Computed(s)[f] # None
      <4>1. Computed(s) \in Rows
        BY <1>3, ComputedType
      <4> QED
        BY <4>1, Constants DEF Rows
    <3>3. Copied(s) = None => Touched(s) = Fields
      BY DEF Touched, Changed
    <3>4. Copied(s) # None => \A f \in Fields : writes[s][t][f] # None
      BY <1>0, <2>1, <2>3 DEF Copied
    <3> QED
      BY <2>3, <3>1, <3>2, <3>3, <3>4
  <2>4. CASE q = s /\ t # Target(s)
    <3>1. /\ entries'[s] = entries[s] \o <<Entry(s)>>
          /\ entries[s] \in Seq(Entries) /\ <<Entry(s)>> \in Seq(Entries)
          /\ writes'[s][t] = writes[s][t] /\ loaded'[s][t] = loaded[s][t]
      BY <1>3, <2>4, Extended, Written, Reloaded
    <3>2. Unmentioned(<<Entry(s)>>, t)
      <4>1. Entry(s).txn # t
        BY <2>4 DEF Entry
      <4> QED
        BY <4>1 DEF Unmentioned
    <3>3. Unmentioned(entries[s], t) => Unmentioned(entries'[s], t)
      BY <3>1, <3>2, BothSilent
    <3> QED
      BY <1>0, <2>1, <2>4, <3>1, <3>3
  <2> QED
    BY <2>2, <2>3, <2>4
<1>4. ASSUME NEW s \in Sessions, NEW how, Close(s, how),
             row[t] = None
      PROVE  Goal
  <2>1. Unmentioned(<<>>, t)
    BY DEF Unmentioned
  <2> QED
    BY <1>0, <1>4, <2>1, Closed
<1>5. ASSUME NEW s \in Sessions, Commit(s) PROVE row[t] = None
  BY <1>5, ViewType DEF Commit
<1> QED
  BY <1>1, <1>2, <1>3, <1>4, <1>5, NextCases DEF Ends, Commit, tables

LEMMA WritesAreNamedStep ==
    TypeOK /\ Busy /\ WritesAreNamed /\ [Next]_vars => WritesAreNamed'
<1> SUFFICES ASSUME TypeOK, Busy, WritesAreNamed, [Next]_vars,
                    NEW q \in Sessions, NEW t \in Txns, NEW f \in Fields,
                    writes'[q][t][f] # None
             PROVE  \E k \in DOMAIN Plan[q] :
                       /\ Plan[q][k].txn = t
                       /\ f = "status" \/ f \in Named(Plan[q][k].set)
  BY DEF WritesAreNamed
<1>1. CASE writes[q][t][f] # None
  BY <1>1 DEF WritesAreNamed
<1>2. ASSUME NEW s \in Sessions, Flush(s), Doing(s), ~Skipped(s), writes[q][t][f] = None
      PROVE  \E k \in DOMAIN Plan[q] :
                /\ Plan[q][k].txn = t
                /\ f = "status" \/ f \in Named(Plan[q][k].set)
  <2>1. q = s /\ t = Target(s) /\ f \in Touched(s)
    BY <1>2, Written
  <2>2. f = "status" \/ f \in Named(Op(s).set)
    BY <1>2, <2>1, ComputedType, AssignedType
  <2> QED
    BY <1>2, <2>1, <2>2, OpType DEF Op, Target
<1>3. ASSUME NEW s \in Sessions, NEW how, Close(s, how), writes[q][t][f] = None
      PROVE  FALSE
  BY <1>3, Closed
<1> QED
  BY <1>1, <1>2, <1>3, NextCases DEF vars, session, Reads, Ends, Commit

-----------------------------------------------------------------------------
(* The tables *)

LEMMA BooksMatchTrailStep ==
    TypeOK /\ Busy /\ EntriesMatch /\ InsertsAreWhole /\ BooksMatchTrail /\ [Next]_vars
      => BooksMatchTrail'
<1> SUFFICES ASSUME TypeOK, Busy, EntriesMatch, InsertsAreWhole, BooksMatchTrail,
                    [Next]_vars, NEW t \in Txns, NEW f \in Fields
             PROVE  IF row'[t] = None THEN Unmentioned(audit', t)
                    ELSE LastSays(audit', t, f, row'[t][f])
  BY DEF BooksMatchTrail, Unmentioned, LastSays, Records
<1>0. IF row[t] = None THEN Unmentioned(audit, t)
      ELSE LastSays(audit, t, f, row[t][f])
  BY DEF BooksMatchTrail, Unmentioned, LastSays, Records
<1>1. CASE UNCHANGED tables
  BY <1>0, <1>1 DEF tables
<1>2. ASSUME NEW s \in Sessions, Commit(s)
      PROVE  IF row'[t] = None THEN Unmentioned(audit', t)
             ELSE LastSays(audit', t, f, row'[t][f])
  <2>1. row'[t] = View(s, t) /\ audit' = audit \o entries[s]
    BY <1>2 DEF Commit
  <2>2. audit \in Seq(Entries) /\ entries[s] \in Seq(Entries)
    BY DEF TypeOK
  <2>3. IF writes[s][t][f] = None THEN Unrecorded(entries[s], t, f)
        ELSE LastSays(entries[s], t, f, writes[s][t][f])
    BY DEF EntriesMatch
  <2>4. CASE row'[t] = None
    <3>1. row[t] = None /\ ~Locks(s, t)
      BY <2>1, <2>4, ViewType
    <3>2. Unmentioned(entries[s], t)
      BY <3>1 DEF InsertsAreWhole, Locks, Nothing
    <3> QED
      BY <1>0, <2>1, <2>2, <2>4, <3>1, <3>2, BothSilent
  <2>5. CASE row'[t] # None /\ writes[s][t][f] # None
    <3>1. row'[t][f] = writes[s][t][f]
      BY <2>1, <2>5, ViewType
    <3> QED
      BY <2>1, <2>2, <2>3, <2>5, <3>1, LaterSays
  <2>6. CASE row'[t] # None /\ writes[s][t][f] = None
    <3>1. row'[t][f] = row[t][f]
      BY <2>1, <2>6, ViewType
    <3>2. row[t] # None
      BY <2>1, <2>6, ViewType DEF InsertsAreWhole
    <3> QED
      BY <1>0, <2>1, <2>2, <2>3, <2>6, <3>1, <3>2, EarlierSays
  <2> QED
    BY <2>4, <2>5, <2>6
<1> QED
  BY <1>1, <1>2, NextCases, FlushStep DEF vars, tables, Reads, Ends

-----------------------------------------------------------------------------
(* The theorems *)

LEMMA IInvInit == Init => IInv
<1> SUFFICES ASSUME Init PROVE IInv
  OBVIOUS
<1>1. TypeOK
  <2>1. Nothing \in Columns
    BY DEF Nothing, Columns
  <2>2. [t \in Txns |-> Nothing] \in [Txns -> Columns]
        /\ [t \in Txns |-> None] \in [Txns -> Rows \cup {None}]
        /\ <<>> \in Seq(Entries)
    BY <2>1
  <2> QED
    BY <2>2 DEF Init, TypeOK
<1>2. Busy /\ WritesAreNamed
  BY DEF Init, Busy, WritesAreNamed, Nothing
<1>3. EntriesMatch /\ InsertsAreWhole
  BY DEF Init, EntriesMatch, InsertsAreWhole, Nothing, Locks, Unrecorded, Unmentioned
<1>4. BooksMatchTrail
  BY DEF Init, BooksMatchTrail
<1> QED
  BY <1>1, <1>2, <1>3, <1>4 DEF IInv

LEMMA IInvStep == IInv /\ [Next]_vars => IInv'
BY TypeStep, EntriesMatchStep, InsertsAreWholeStep, WritesAreNamedStep,
   BooksMatchTrailStep DEF IInv

LEMMA Invariant == Spec => []IInv
BY IInvInit, IInvStep, PTL DEF Spec

(* Whatever the plans are, sessions hold rows and entries of the right      *)
(* shape: transaction_crud.py never computes a column from a missing value. *)
THEOREM TypeCorrect == Spec => []TypeOK
BY Invariant, PTL DEF IInv

(* The audit trail explains every column of the books, for any number of    *)
(* concurrent sessions that read stale copies, clash or are rolled back.    *)
THEOREM TrailExplainsBooks == Spec => []BooksMatchTrail
BY Invariant, PTL DEF IInv

(* A commit changes a column only if an operation of that very session      *)
(* names it: stale copies revert nobody's correction.                       *)
THEOREM CommitsOnlyNamed == Spec => OnlyNamedColumns
<1>1. ASSUME IInv, [Next]_vars, NEW t \in Txns, NEW f \in Fields,
             row[t] # None, row'[t][f] # row[t][f]
      PROVE  \E s \in Sessions : Commits(s) /\ \E k \in DOMAIN Plan[s] :
                /\ Plan[s][k].txn = t
                /\ f = "status" \/ f \in Named(Plan[s][k].set)
  <2>1. TypeOK /\ Busy /\ InsertsAreWhole /\ WritesAreNamed
    BY <1>1 DEF IInv
  <2>2. PICK s \in Sessions : Commit(s)
    BY <1>1, <2>1, NextCases, FlushStep DEF vars, tables, Reads, Ends
  <2>3. Commits(s)
    BY <2>1, <2>2 DEF Commit, Close, Commits, TypeOK
  <2>4. writes[s][t][f] # None
    BY <1>1, <2>1, <2>2, ViewType DEF Commit
  <2> QED
    BY <2>1, <2>3, <2>4 DEF WritesAreNamed
<1>2. IInv /\ [Next]_vars =>
        [\A t \in Txns : \A f \in Fields :
           row[t] # None /\ row'[t][f] # row[t][f] =>
             \E s \in Sessions : Commits(s) /\ \E k \in DOMAIN Plan[s] :
                /\ Plan[s][k].txn = t
                /\ f = "status" \/ f \in Named(Plan[s][k].set)]_vars
  BY <1>1
<1> QED
  BY <1>2, Invariant, PTL DEF Spec, OnlyNamedColumns
=============================================================================
