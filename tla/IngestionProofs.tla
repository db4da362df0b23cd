--------------------------- MODULE IngestionProofs ---------------------------
(***************************************************************************)
(* Proofs about Ingestion for any payloads, any number of requests at a    *)
(* time, and any number of crashes and exceptions.                         *)
(***************************************************************************)
EXTENDS Ingestion, TLAPS

(* A request in the middle of its payload has a message in hand.            *)
Working == {"sender", "newSender", "group", "newGroup", "insert", "enqueue"}

InHand ==
    \A r \in Requests :
        /\ rpc[r] # "idle" => payload[r] \in Payloads
        /\ rpc[r] \in Working => todo[r] # <<>>

-----------------------------------------------------------------------------
(* Stored once, queued once *)

StoredOnce == \A q, s \in raw : q.id = s.id => q = s

(* What is queued has a row ...                                             *)
QueuedStored ==
    \A id \in Messages \cup Payloads :
        jobs[id] > 0 => \E row \in raw : row.id = id

(* ... and while a request is between the commit and the LPUSH, the row it  *)
(* wrote is queued by nobody else, now or later: the row was new.           *)
Owns(r, id) == rpc[r] = "enqueue" /\ MessageId(Current(r), payload[r]) = id

OneOwner ==
    \A r \in Requests : \A id \in Messages \cup Payloads : Owns(r, id) =>
        /\ jobs[id] = 0
        /\ \E row \in raw : row.id = id
        /\ \A q \in Requests : Owns(q, id) => q = r

QueuedOnce == \A id \in Messages \cup Payloads : jobs[id] <= 1

-----------------------------------------------------------------------------
(* Rows with their sender and group *)

(* A sender or a group a request has found or flushed is in the tables or   *)
(* will be with its commit; a sender that was rolled back is None.          *)
SenderFound ==
    \A r \in Requests :
        rpc[r] \in {"group", "newGroup", "insert"} /\ sender[r] # None =>
            \E p \in participants \cup newPeople[r] : p.phone = sender[r]

GroupFound ==
    \A r \in Requests :
        rpc[r] = "insert" => group[r] \in groups \cup newGroups[r]

RowsComplete ==
    \A row \in raw : /\ \E p \in participants : p.phone = row.sender
                     /\ row.group \in groups

-----------------------------------------------------------------------------
(* Answered is stored *)

(* Requests that do not overlap: at most one is under way. *)
Alone == \A q, r \in Requests : rpc[q] # "idle" /\ rpc[r] # "idle" => q = r

(* What a hash in the table stands for is there under that id as well: the  *)
(* row of the first message of the payload.                                 *)
HashStored ==
    \A row \in raw : row.hash # None => \E q \in raw : q.id = row.hash

KeyStored(p) == \E row \in raw : row.id = Key(p)

(* A payload under way is at its first message or has that one stored.      *)
FirstDone ==
    \A r \in Requests :
        /\ rpc[r] = "lookup" => todo[r] = Body[payload[r]]
        /\ rpc[r] \in Working =>
             \/ todo[r] = Body[payload[r]] /\ rpc[r] # "enqueue"
             \/ KeyStored(payload[r])

(* Nothing is flushed before the first insert into the session.             *)
NothingFlushed ==
    \A r \in Requests :
        rpc[r] \notin {"group", "newGroup", "insert", "answer"} =>
            newPeople[r] = {} /\ newGroups[r] = {}

(* Nobody else's commit comes between the look-up of a group and its        *)
(* insert, so the sender is not rolled back.                                *)
Undisturbed ==
    \A r \in Requests :
        /\ rpc[r] = "newGroup" => Group[Current(r)] \notin groups
        /\ rpc[r] \in {"group", "newGroup", "insert"} => sender[r] # None

(* A payload that may be answered is accounted for. *)
Accounted(p) ==
    Body[p] # <<>> => NameTaken(Head(Body[p])) \/ KeyStored(p)

Answerable ==
    /\ \A p \in acked : Accounted(p)
    /\ \A r \in Requests : rpc[r] = "answer" => Accounted(payload[r])

Serial == ~overlapped /\ faults = 0

SerialInv == Serial => Alone /\ Undisturbed /\ Answerable

-----------------------------------------------------------------------------
IInv ==
    /\ TypeOK /\ InHand
    /\ StoredOnce /\ QueuedStored /\ OneOwner /\ QueuedOnce
    /\ SenderFound /\ GroupFound /\ RowsComplete
    /\ HashStored /\ FirstDone /\ NothingFlushed
    /\ SerialInv
-----------------------------------------------------------------------------
(* Types *)

(* The key and the id a message is stored under. *)
LEMMA KeyTypes ==
    ASSUME NEW p \in Payloads
    PROVE  /\ Key(p) \in Messages \cup Payloads /\ Key(p) # None
           /\ \A m \in Messages : MessageId(m, p) \in Messages \cup Payloads
<1>1. Body[p] # <<>> => Head(Body[p]) \in Messages
  BY IngestionAssumption
<1> QED
  BY <1>1, IngestionAssumption DEF Key, MessageId

(* The message in hand, its sender and its group. *)
LEMMA CurrentTypes ==
    ASSUME TypeOK, InHand, NEW r \in Requests, rpc[r] \in Working
    PROVE  /\ payload[r] \in Payloads
           /\ todo[r] \in Seq(Messages) /\ todo[r] # <<>>
           /\ Current(r) \in Messages
           /\ Sender[Current(r)] \in Phones /\ Sender[Current(r)] # None
           /\ Username[Current(r)] \in Names
           /\ Group[Current(r)] \in Range(Group)
           /\ MessageId(Current(r), payload[r]) \in Messages \cup Payloads
<1>1. /\ payload[r] \in Payloads
      /\ todo[r] \in Seq(Messages) /\ todo[r] # <<>>
  BY DEF TypeOK, InHand, Working
<1>2. Current(r) \in Messages
  BY <1>1 DEF Current
<1>3. /\ Sender[Current(r)] \in Phones /\ Sender[Current(r)] # None
      /\ Username[Current(r)] \in Names
      /\ Group[Current(r)] \in Range(Group)
  BY <1>2, IngestionAssumption DEF Phones, Names, Range
<1> QED
  BY <1>1, <1>2, <1>3, KeyTypes

(* A row that is committed has a sender and a group. *)
LEMMA RowTypes ==
    ASSUME TypeOK, InHand, GroupFound, NEW r \in Requests, rpc[r] = "insert",
           sender[r] # None
    PROVE  NewRow(r) \in Rows
<1>1. sender[r] \in Phones /\ group[r] \in Range(Group)
  BY DEF TypeOK, GroupFound
<1> QED
  BY <1>1, CurrentTypes, KeyTypes DEF NewRow, Rows, Working

(* The rest of a payload. *)
LEMMA RestTypes ==
    ASSUME NEW S, NEW s \in Seq(S), s # <<>>
    PROVE  Tail(s) \in Seq(S) /\ (Len(s) # 1 => Tail(s) # <<>>)
<1>1. Len(s) \in Nat \ {0} /\ Tail(s) \in Seq(S) /\ Len(Tail(s)) = Len(s) - 1
  OBVIOUS
<1> DEFINE t == Tail(s)
<1>2. t \in Seq(S) /\ Len(t) = Len(s) - 1
  BY <1>1
<1> HIDE DEF t
<1>3. t = <<>> => Len(t) = 0
  OBVIOUS
<1>4. Len(s) # 1 => t # <<>>
  BY ONLY <1>1, <1>2, <1>3
<1> QED
  BY <1>2, <1>4 DEF t

(* A rollback, and the end of a request. *)
LEMMA RollbackTypes ==
    ASSUME TypeOK, NEW r \in Requests, Rollback(r)
    PROVE  /\ newPeople' \in [Requests -> SUBSET People]
           /\ newGroups' \in [Requests -> SUBSET Range(Group)]
BY DEF TypeOK, Rollback

(* Every step keeps the types. *)
LEMMA TypeStep == TypeOK /\ InHand /\ GroupFound /\ [Next]_vars => TypeOK'
<1> SUFFICES ASSUME TypeOK, InHand, GroupFound, [Next]_vars PROVE TypeOK'
  OBVIOUS
<1> USE DEF tables, session, request, budget, Goto, At, Places
<1>1. ASSUME NEW r \in Requests, NEW p \in Payloads, Receive(r, p)
      PROVE  TypeOK'
  BY <1>1, IngestionAssumption DEF Receive, Begin, TypeOK
<1>2. ASSUME NEW r \in Requests, Lookup(r) PROVE TypeOK'
  BY <1>2 DEF Lookup, TypeOK
<1>3. ASSUME NEW r \in Requests, FindSender(r) \/ FindGroup(r) PROVE TypeOK'
  <2>1. Sender[Current(r)] \in Phones /\ Group[Current(r)] \in Range(Group)
    BY <1>3, CurrentTypes DEF FindSender, FindGroup, Working
  <2> QED
    BY <1>3, <2>1 DEF FindSender, FindGroup, TypeOK
<1>4. ASSUME NEW r \in Requests, CreateSender(r) PROVE TypeOK'
  <2> DEFINE person == [phone |-> Sender[Current(r)], name |-> Username[Current(r)]]
  <2>1. person \in People /\ person.phone \in Phones
    BY <1>4, CurrentTypes DEF CreateSender, Working, People
  <2>2. newGroups' \in [Requests -> SUBSET Range(Group)]
    BY <1>4, RollbackTypes DEF CreateSender, TypeOK
  <2>3. newPeople' \in [Requests -> SUBSET People]
    <3>1. CASE Rollback(r)
      BY <3>1, RollbackTypes
    <3>2. CASE newPeople' = [newPeople EXCEPT ![r] = @ \cup {person}]
      BY <2>1, <3>2 DEF TypeOK
    <3> QED
      BY <1>4, <3>1, <3>2 DEF CreateSender
  <2>4. /\ sender' \in [Requests -> Phones \cup {None}]
        /\ rpc' \in [Requests -> Places]
    BY <1>4, <2>1 DEF CreateSender, TypeOK
  <2> QED
    BY <1>4, <2>2, <2>3, <2>4 DEF CreateSender, TypeOK
<1>5. ASSUME NEW r \in Requests, CreateGroup(r) PROVE TypeOK'
  <2>1. Group[Current(r)] \in Range(Group)
    BY <1>5, CurrentTypes DEF CreateGroup, Working
  <2>2. newPeople' \in [Requests -> SUBSET People]
    BY <1>5, RollbackTypes DEF CreateGroup, TypeOK
  <2>3. newGroups' \in [Requests -> SUBSET Range(Group)]
    <3> DEFINE g == Group[Current(r)]
    <3>1. CASE Rollback(r)
      BY <3>1, RollbackTypes
    <3>2. CASE newGroups' = [newGroups EXCEPT ![r] = @ \cup {g}]
      BY <2>1, <3>2 DEF TypeOK
    <3> QED
      BY <1>5, <3>1, <3>2 DEF CreateGroup
  <2>4. sender' \in [Requests -> Phones \cup {None}]
    BY <1>5 DEF CreateGroup, TypeOK
  <2>5. /\ group' \in [Requests -> Range(Group) \cup {None}]
        /\ rpc' \in [Requests -> Places]
    BY <1>5, <2>1 DEF CreateGroup, TypeOK
  <2> QED
    BY <1>5, <2>2, <2>3, <2>4, <2>5 DEF CreateGroup, TypeOK
<1>6. ASSUME NEW r \in Requests, Insert(r) PROVE TypeOK'
  <2>1. CASE Clashes(NewRow(r))
    BY <1>6, <2>1 DEF Insert, Rollback, TypeOK
  <2>2. CASE ~Clashes(NewRow(r))
    <3>1. NewRow(r) \in Rows
      BY <1>6, <2>2, RowTypes DEF Insert, Clashes, NewRow
    <3> QED
      BY <1>6, <2>2, <3>1 DEF Insert, Rollback, TypeOK
  <2> QED
    BY <2>1, <2>2
<1>7. ASSUME NEW r \in Requests, Enqueue(r) PROVE TypeOK'
  <2>1. Tail(todo[r]) \in Seq(Messages)
    BY <1>7, CurrentTypes, RestTypes DEF Enqueue, Working
  <2>2. MessageId(Current(r), payload[r]) \in Messages \cup Payloads
    BY <1>7, CurrentTypes DEF Enqueue, Working
  <2>3. todo' \in [Requests -> Seq(Messages)] /\ rpc' \in [Requests -> Places]
    <3> DEFINE rest == Tail(todo[r])
    <3>1. \/ todo' = [todo EXCEPT ![r] = rest] /\ \E p \in Places : rpc' = [rpc EXCEPT ![r] = p]
          \/ todo' = todo /\ \E p \in Places : rpc' = [rpc EXCEPT ![r] = p]
      BY <1>7 DEF Enqueue, NextMessage, Goto, Places
    <3>2. rest \in Seq(Messages) /\ todo \in [Requests -> Seq(Messages)]
          /\ rpc \in [Requests -> Places]
      BY <2>1 DEF TypeOK
    <3> HIDE DEF rest
    <3> QED
      BY ONLY <3>1, <3>2, r \in Requests
  <2>4. jobs' \in [Messages \cup Payloads -> 0 .. 2]
    <3> DEFINE id == MessageId(Current(r), payload[r])
    <3>1. id \in Messages \cup Payloads /\ jobs[id] \in 0 .. 2
      BY <2>2 DEF TypeOK
    <3>2. \/ jobs' = [jobs EXCEPT ![id] = IF @ < 2 THEN @ + 1 ELSE @]
          \/ jobs' = jobs
      BY <1>7 DEF Enqueue
    <3> HIDE DEF id
    <3> QED
      BY <3>1, <3>2 DEF TypeOK
  <2>5. faults' \in Nat
    BY <1>7 DEF Enqueue, TypeOK
  <2> QED
    BY <1>7, <2>3, <2>4, <2>5 DEF Enqueue, TypeOK
<1>8. ASSUME NEW r \in Requests, Answer(r) \/ Crash(r) PROVE TypeOK'
  <2>1. rpc[r] # "idle" /\ payload[r] \in Payloads
    BY <1>8 DEF Answer, Crash, InHand
  <2>2. Close(r)
    BY <1>8 DEF Answer, Crash
  <2>3. /\ newPeople' \in [Requests -> SUBSET People]
        /\ newGroups' \in [Requests -> SUBSET Range(Group)]
    BY <2>2, RollbackTypes DEF Close
  <2>4. /\ rpc' \in [Requests -> Places]
        /\ payload' \in [Requests -> Payloads \cup {None}]
        /\ todo' \in [Requests -> Seq(Messages)]
    BY <2>2 DEF Close, TypeOK
  <2>5. /\ sender' \in [Requests -> Phones \cup {None}]
        /\ group' \in [Requests -> Range(Group) \cup {None}]
    BY <2>2 DEF Close, TypeOK
  <2> QED
    BY <1>8, <2>1, <2>3, <2>4, <2>5 DEF Answer, Crash, TypeOK
<1>9. ASSUME NEW r \in Requests, Raise(r) PROVE TypeOK'
  BY <1>9 DEF Raise, TypeOK
<1>10. ASSUME NEW row \in raw, Rehash(row) PROVE TypeOK'
  <2>1. [row EXCEPT !.hash = None] \in Rows
    BY DEF TypeOK, Rows
  <2> QED
    BY <1>10, <2>1 DEF Rehash, TypeOK
<1>11. CASE UNCHANGED vars
  BY <1>11 DEF vars, TypeOK
<1> QED
  BY <1>1, <1>2, <1>3, <1>4, <1>5, <1>6, <1>7, <1>8, <1>9, <1>10, <1>11
     DEF Next, Handle
-----------------------------------------------------------------------------
(* What a step does *)

(* A step of request r. *)
Acts(r) == (\E p \in Payloads : Receive(r, p)) \/ Handle(r) \/ Raise(r) \/ Crash(r)

LEMMA NextCases ==
    ASSUME [Next]_vars
    PROVE  \/ \E r \in Requests : Acts(r)
           \/ \E row \in raw : Rehash(row)
           \/ UNCHANGED vars
BY DEF Next, Acts

(* A request leaves the local state of the others alone. *)
LEMMA OthersStep ==
    ASSUME TypeOK, NEW r \in Requests, Acts(r), NEW q \in Requests, q # r
    PROVE  /\ rpc'[q] = rpc[q] /\ payload'[q] = payload[q] /\ todo'[q] = todo[q]
           /\ sender'[q] = sender[q] /\ group'[q] = group[q]
           /\ newPeople'[q] = newPeople[q] /\ newGroups'[q] = newGroups[q]
<1> USE DEF tables, session, request, budget, Goto, Rollback, TypeOK
<1>1. ASSUME NEW p \in Payloads, Receive(r, p) PROVE UNCHANGED session
  BY <1>1 DEF Receive
<1>2. ASSUME NEW p \in Payloads, Receive(r, p)
      PROVE  rpc'[q] = rpc[q] /\ payload'[q] = payload[q] /\ todo'[q] = todo[q]
  BY <1>2 DEF Receive, Begin
<1>3. CASE Lookup(r)
  BY <1>3 DEF Lookup
<1>4. CASE FindSender(r)
  BY <1>4 DEF FindSender
<1>5. CASE CreateSender(r)
  BY <1>5 DEF CreateSender
<1>6. CASE FindGroup(r)
  BY <1>6 DEF FindGroup
<1>7. CASE CreateGroup(r)
  BY <1>7 DEF CreateGroup
<1>8. CASE Insert(r)
  BY <1>8 DEF Insert
<1>9. CASE Enqueue(r)
  BY <1>9 DEF Enqueue, NextMessage
<1>10. CASE Answer(r) \/ Crash(r)
  BY <1>10 DEF Answer, Crash, Close
<1>11. CASE Raise(r)
  BY <1>11 DEF Raise
<1> QED
  BY <1>1, <1>2, <1>3, <1>4, <1>5, <1>6, <1>7, <1>8, <1>9, <1>10, <1>11
     DEF Acts, Handle

(* The tables change by the commit of a new row or by a new hash in one. *)
LEMMA TablesStep ==
    ASSUME [Next]_vars
    PROVE  \/ UNCHANGED tables
           \/ \E r \in Requests :
                /\ Insert(r) /\ ~Clashes(NewRow(r))
                /\ raw' = raw \cup {NewRow(r)}
                /\ participants' = participants \cup newPeople[r]
                /\ groups' = groups \cup newGroups[r]
           \/ \E row \in raw : Rehash(row)
<1>1. ASSUME NEW r \in Requests, Acts(r), ~Insert(r) PROVE UNCHANGED tables
  BY <1>1 DEF Acts, Handle, Receive, Lookup, FindSender, CreateSender,
              FindGroup, CreateGroup, Enqueue, Answer, Raise, Crash
<1>2. ASSUME NEW r \in Requests, Insert(r)
      PROVE  \/ UNCHANGED tables
             \/ /\ ~Clashes(NewRow(r))
                /\ raw' = raw \cup {NewRow(r)}
                /\ participants' = participants \cup newPeople[r]
                /\ groups' = groups \cup newGroups[r]
  BY <1>2 DEF Insert
<1> QED
  BY <1>1, <1>2, NextCases DEF vars, tables

(* Nobody is deleted, and a row stays under its id. *)
LEMMA TablesGrow ==
    ASSUME TypeOK, [Next]_vars
    PROVE  /\ participants \subseteq participants' /\ groups \subseteq groups'
           /\ \A row \in raw : \E q \in raw' : q.id = row.id
<1>1. CASE UNCHANGED tables
  BY <1>1 DEF tables
<1>2. ASSUME NEW r \in Requests, raw' = raw \cup {NewRow(r)},
             participants' = participants \cup newPeople[r],
             groups' = groups \cup newGroups[r]
      PROVE  /\ participants \subseteq participants' /\ groups \subseteq groups'
             /\ \A row \in raw : \E q \in raw' : q.id = row.id
  BY <1>2
<1>3. ASSUME NEW row \in raw, Rehash(row)
      PROVE  /\ participants \subseteq participants' /\ groups \subseteq groups'
             /\ \A s \in raw : \E q \in raw' : q.id = s.id
  <2>1. row \in Rows
    BY DEF TypeOK
  <2>2. [row EXCEPT !.hash = None].id = row.id
    BY <2>1 DEF Rows
  <2> QED
    BY <1>3, <2>2 DEF Rehash
<1> QED
  BY <1>1, <1>2, <1>3, TablesStep

(* Queueing is the only step that changes the jobs. *)
LEMMA JobsStep ==
    ASSUME TypeOK, [Next]_vars
    PROVE  \/ jobs' = jobs
           \/ \E r \in Requests :
                LET id == MessageId(Current(r), payload[r])
                IN  /\ Enqueue(r) /\ rpc[r] = "enqueue" /\ rpc'[r] # "enqueue"
                    /\ jobs' = [jobs EXCEPT ![id] = IF @ < 2 THEN @ + 1 ELSE @]
<1>1. ASSUME NEW r \in Requests, Acts(r), ~Enqueue(r) PROVE jobs' = jobs
  BY <1>1 DEF Acts, Handle, Receive, Lookup, FindSender, CreateSender,
              FindGroup, CreateGroup, Insert, Answer, Raise, Crash
<1>2. ASSUME NEW r \in Requests, Enqueue(r)
      PROVE  /\ rpc[r] = "enqueue" /\ rpc'[r] # "enqueue"
             /\ \/ jobs' = jobs
                \/ LET id == MessageId(Current(r), payload[r])
                   IN  jobs' = [jobs EXCEPT ![id] = IF @ < 2 THEN @ + 1 ELSE @]
  BY <1>2 DEF Enqueue, NextMessage, At, Goto, TypeOK
<1>3. ASSUME NEW row \in raw, Rehash(row) PROVE jobs' = jobs
  BY <1>3 DEF Rehash
<1> QED
  BY <1>1, <1>2, <1>3, NextCases DEF vars

-----------------------------------------------------------------------------
(* A request in the middle of its payload has a message in hand. *)
LEMMA InHandStep == TypeOK /\ InHand /\ [Next]_vars => InHand'
<1> SUFFICES ASSUME TypeOK, InHand, [Next]_vars, NEW q \in Requests
             PROVE  /\ rpc'[q] # "idle" => payload'[q] \in Payloads
                    /\ rpc'[q] \in Working => todo'[q] # <<>>
  BY DEF InHand
<1> DEFINE Goal == /\ rpc'[q] # "idle" => payload'[q] \in Payloads
                   /\ rpc'[q] \in Working => todo'[q] # <<>>
<1>1. /\ rpc[q] # "idle" => payload[q] \in Payloads
      /\ rpc[q] \in Working => todo[q] # <<>>
  BY DEF InHand
<1>2. CASE UNCHANGED request
  BY <1>1, <1>2 DEF request
<1>3. ASSUME NEW r \in Requests, Acts(r), r # q PROVE Goal
  BY <1>1, <1>3, OthersStep
<1> USE DEF Goto, At, TypeOK, Working
<1>4. ASSUME NEW p \in Payloads, Receive(q, p) PROVE Goal
  BY <1>4 DEF Receive, Begin
<1>5. CASE Lookup(q)
  BY <1>1, <1>5 DEF Lookup
<1>6. CASE FindSender(q) \/ FindGroup(q)
  BY <1>1, <1>6 DEF FindSender, FindGroup
<1>7. CASE CreateSender(q)
  BY <1>1, <1>7 DEF CreateSender
<1>8. CASE CreateGroup(q)
  BY <1>1, <1>8 DEF CreateGroup
<1>9. CASE Insert(q)
  BY <1>1, <1>9 DEF Insert
<1>10. CASE Enqueue(q)
  <2>1. todo[q] \in Seq(Messages) /\ todo[q] # <<>>
    BY <1>1, <1>10 DEF Enqueue
  <2>2. Len(todo[q]) # 1 => Tail(todo[q]) # <<>>
    BY <2>1, RestTypes
  <2> QED
    BY <1>1, <1>10, <2>2 DEF Enqueue, NextMessage
<1>11. CASE Answer(q) \/ Crash(q)
  BY <1>11 DEF Answer, Crash, Close
<1>12. CASE Raise(q)
  BY <1>1, <1>12 DEF Raise
<1>13. ASSUME NEW row \in raw, Rehash(row) PROVE Goal
  BY <1>2, <1>13 DEF Rehash
<1> QED
  BY <1>2, <1>3, <1>4, <1>5, <1>6, <1>7, <1>8, <1>9, <1>10, <1>11, <1>12,
     <1>13, NextCases DEF Acts, Handle, vars
-----------------------------------------------------------------------------
(* Stored once, queued once *)

LEMMA StoredOnceStep == TypeOK /\ StoredOnce /\ [Next]_vars => StoredOnce'
<1> SUFFICES ASSUME TypeOK, StoredOnce, [Next]_vars PROVE StoredOnce'
  OBVIOUS
<1>1. CASE UNCHANGED tables
  BY <1>1 DEF tables, StoredOnce
<1>2. ASSUME NEW r \in Requests, ~Clashes(NewRow(r)),
             raw' = raw \cup {NewRow(r)}
      PROVE  StoredOnce'
  BY <1>2 DEF StoredOnce, Clashes
<1>3. ASSUME NEW row \in raw, Rehash(row) PROVE StoredOnce'
  <2> DEFINE new == [row EXCEPT !.hash = None]
  <2>1. new.id = row.id
    BY DEF TypeOK, Rows
  <2>2. raw' = (raw \ {row}) \cup {new}
    BY <1>3 DEF Rehash
  <2> HIDE DEF new
  <2> QED
    BY <2>1, <2>2 DEF StoredOnce
<1> QED
  BY <1>1, <1>2, <1>3, TablesStep

(* A step that is not a commit makes nobody an owner. *)
LEMMA OwnsStep ==
    ASSUME TypeOK, InHand, [Next]_vars, NEW q \in Requests,
           NEW id \in Messages \cup Payloads, Owns(q, id)'
    PROVE  \/ Owns(q, id)
           \/ /\ Insert(q) /\ ~Clashes(NewRow(q)) /\ NewRow(q).id = id
              /\ raw' = raw \cup {NewRow(q)} /\ jobs' = jobs
<1> USE DEF Owns, Current
<1>1. ASSUME UNCHANGED request PROVE Owns(q, id)
  BY <1>1 DEF request
<1>2. ASSUME NEW r \in Requests, Acts(r), r # q PROVE Owns(q, id)
  BY <1>2, OthersStep
<1>3. CASE Insert(q)
  <2>1. /\ ~Clashes(NewRow(q)) /\ raw' = raw \cup {NewRow(q)}
        /\ UNCHANGED <<jobs, payload, todo>>
    BY <1>3 DEF Insert, Goto, At, TypeOK, tables
  <2> QED
    BY <1>3, <2>1 DEF NewRow
<1>4. ASSUME NEW p \in Payloads, Receive(q, p) PROVE FALSE
  BY <1>4 DEF Receive, Begin, Goto, TypeOK
<1>5. ASSUME Acts(q), ~Insert(q), \A p \in Payloads : ~Receive(q, p) PROVE FALSE
  <2> USE DEF Goto, TypeOK
  <2>1. CASE Lookup(q) \/ FindSender(q) \/ FindGroup(q) \/ CreateGroup(q)
    BY <2>1 DEF Lookup, FindSender, FindGroup, CreateGroup
  <2>2. CASE CreateSender(q)
    BY <2>2 DEF CreateSender
  <2>3. CASE Enqueue(q)
    BY <2>3 DEF Enqueue, NextMessage
  <2>4. CASE Answer(q) \/ Crash(q)
    BY <2>4 DEF Answer, Crash, Close
  <2>5. CASE Raise(q)
    BY <2>5 DEF Raise
  <2> QED
    BY <1>5, <2>1, <2>2, <2>3, <2>4, <2>5 DEF Acts, Handle
<1>6. ASSUME NEW row \in raw, Rehash(row) PROVE Owns(q, id)
  BY <1>1, <1>6 DEF Rehash
<1> QED
  BY <1>1, <1>2, <1>3, <1>4, <1>5, <1>6, NextCases DEF vars, Acts

QInv == QueuedStored /\ OneOwner /\ QueuedOnce

LEMMA QueuedOnceStep == TypeOK /\ InHand /\ QInv /\ [Next]_vars => QInv'
<1> SUFFICES ASSUME TypeOK, InHand, QInv, [Next]_vars PROVE QInv'
  OBVIOUS
<1> USE DEF QInv
<1>1. ASSUME NEW id, \E row \in raw : row.id = id
      PROVE  \E row \in raw' : row.id = id
  BY <1>1, TablesGrow
<1>2. CASE jobs' = jobs
  <2>1. QueuedStored' /\ QueuedOnce'
    BY <1>1, <1>2 DEF QueuedStored, QueuedOnce
  <2>2. ASSUME NEW r \in Requests, NEW id \in Messages \cup Payloads, Owns(r, id)'
        PROVE  /\ jobs'[id] = 0
               /\ \E row \in raw' : row.id = id
               /\ \A q \in Requests : Owns(q, id)' => q = r
    <3>1. CASE Owns(r, id)
      <4>1. /\ jobs[id] = 0
            /\ \E row \in raw : row.id = id
            /\ \A q \in Requests : Owns(q, id) => q = r
        BY <3>1 DEF OneOwner
      <4>2. ASSUME NEW q \in Requests, Owns(q, id)' PROVE Owns(q, id)
        BY <4>1, <4>2, OwnsStep DEF Clashes
      <4> QED
        BY <1>1, <1>2, <4>1, <4>2
    <3>2. CASE /\ ~Clashes(NewRow(r)) /\ NewRow(r).id = id /\ Insert(r)
               /\ raw' = raw \cup {NewRow(r)}
      <4>1. ~\E row \in raw : row.id = id
        BY <3>2 DEF Clashes
      <4>2. jobs[id] = 0
        <5>1. jobs[id] \in 0 .. 2
          BY DEF TypeOK
        <5>2. ~(jobs[id] > 0)
          BY <4>1 DEF QueuedStored
        <5> QED
          BY <5>1, <5>2
      <4>3. \A q \in Requests : ~Owns(q, id)
        BY <4>1 DEF OneOwner
      <4>4. ASSUME NEW q \in Requests, q # r, Owns(q, id)' PROVE FALSE
        <5>1. Acts(r)
          BY <3>2 DEF Acts, Handle
        <5> QED
          BY <4>3, <4>4, <5>1, OthersStep DEF Owns, Current
      <4> QED
        BY <1>2, <3>2, <4>2, <4>4
    <3> QED
      BY <2>2, <3>1, <3>2, OwnsStep
  <2> QED
    BY <2>1, <2>2 DEF OneOwner
<1>3. ASSUME NEW r \in Requests, Enqueue(r), rpc[r] = "enqueue",
             rpc'[r] # "enqueue",
             NEW mine, mine = MessageId(Current(r), payload[r]),
             jobs' = [jobs EXCEPT ![mine] = IF @ < 2 THEN @ + 1 ELSE @]
      PROVE  QInv'
  <2>1. mine \in Messages \cup Payloads /\ Owns(r, mine)
    BY <1>3, CurrentTypes DEF Working, Owns
  <2>2. /\ jobs[mine] = 0 /\ \E row \in raw : row.id = mine
        /\ \A q \in Requests : Owns(q, mine) => q = r
    BY <2>1 DEF OneOwner
  <2>3. /\ jobs'[mine] = 1
        /\ \A id \in Messages \cup Payloads : id # mine => jobs'[id] = jobs[id]
    BY <1>3, <2>1, <2>2 DEF TypeOK
  <2>4. QueuedStored' /\ QueuedOnce'
    BY <1>1, <2>2, <2>3 DEF QueuedStored, QueuedOnce
  <2>5. UNCHANGED tables
    BY <1>3 DEF Enqueue
  <2>6. ASSUME NEW q \in Requests, NEW id \in Messages \cup Payloads, Owns(q, id)'
        PROVE  Owns(q, id) /\ id # mine
    <3>1. Owns(q, id)
      <4>1. jobs' # jobs
        BY <2>2, <2>3
      <4> QED
        BY <2>6, <4>1, OwnsStep
    <3>2. q # r
      BY <1>3, <2>6 DEF Owns
    <3> QED
      BY <2>2, <3>1, <3>2
  <2>7. OneOwner'
    BY <2>3, <2>5, <2>6 DEF OneOwner, tables
  <2> QED
    BY <2>4, <2>7
<1> QED
  BY <1>2, <1>3, JobsStep
-----------------------------------------------------------------------------
(* Rows with their sender and group *)

LEMMA NothingFlushedStep == TypeOK /\ NothingFlushed /\ [Next]_vars => NothingFlushed'
<1> SUFFICES ASSUME TypeOK, NothingFlushed, [Next]_vars, NEW q \in Requests,
                    rpc'[q] \notin {"group", "newGroup", "insert", "answer"}
             PROVE  newPeople'[q] = {} /\ newGroups'[q] = {}
  BY DEF NothingFlushed
<1> DEFINE Goal == newPeople'[q] = {} /\ newGroups'[q] = {}
<1> USE DEF Goto, At, TypeOK, NothingFlushed, session, request
<1>1. ASSUME UNCHANGED request, UNCHANGED session PROVE Goal
  BY <1>1
<1>2. ASSUME NEW r \in Requests, Acts(r), r # q PROVE Goal
  BY <1>2, OthersStep
<1>3. ASSUME NEW p \in Payloads, Receive(q, p) PROVE Goal
  BY <1>3 DEF Receive, Begin
<1>4. CASE Lookup(q) \/ FindSender(q)
  BY <1>4 DEF Lookup, FindSender
<1>5. CASE CreateSender(q) \/ FindGroup(q) \/ CreateGroup(q) \/ Raise(q)
  BY <1>5 DEF CreateSender, FindGroup, CreateGroup, Raise
<1>6. CASE Insert(q)
  BY <1>6 DEF Insert, Rollback
<1>7. CASE Enqueue(q)
  BY <1>7 DEF Enqueue, NextMessage
<1>8. CASE Answer(q) \/ Crash(q)
  BY <1>8 DEF Answer, Crash, Close, Rollback
<1>9. ASSUME NEW row \in raw, Rehash(row) PROVE Goal
  BY <1>1, <1>9 DEF Rehash
<1> QED
  BY <1>1, <1>2, <1>3, <1>4, <1>5, <1>6, <1>7, <1>8, <1>9, NextCases
     DEF vars, Acts, Handle

(* The sender a request has found stays found: only a rollback could take   *)
(* it back, and after one the request knows.                                *)
LEMMA SenderFoundStep ==
    TypeOK /\ InHand /\ SenderFound /\ [Next]_vars => SenderFound'
<1> SUFFICES ASSUME TypeOK, InHand, SenderFound, [Next]_vars,
                    NEW q \in Requests,
                    rpc'[q] \in {"group", "newGroup", "insert"}, sender'[q] # None
             PROVE  \E p \in participants' \cup newPeople'[q] : p.phone = sender'[q]
  BY DEF SenderFound
<1> DEFINE Goal == \E p \in participants' \cup newPeople'[q] : p.phone = sender'[q]
<1>1. participants \subseteq participants'
  BY TablesGrow
<1>2. ASSUME rpc[q] \in {"group", "newGroup", "insert"}, sender'[q] = sender[q],
             newPeople'[q] = newPeople[q]
      PROVE  Goal
  BY <1>1, <1>2 DEF SenderFound
<1>3. ASSUME UNCHANGED request, UNCHANGED session PROVE Goal
  BY <1>2, <1>3 DEF request, session
<1>4. ASSUME NEW r \in Requests, Acts(r), r # q PROVE Goal
  BY <1>2, <1>4, OthersStep
<1> USE DEF Goto, At, TypeOK
<1>5. CASE FindSender(q)
  BY <1>1, <1>5 DEF FindSender
<1>6. CASE CreateSender(q)
  <2> DEFINE person == [phone |-> Sender[Current(q)], name |-> Username[Current(q)]]
  <2>1. person.phone = Sender[Current(q)] /\ rpc[q] = "newSender"
    BY <1>6 DEF CreateSender
  <2>2. CASE newPeople' = [newPeople EXCEPT ![q] = @ \cup {person}]
             /\ sender' = [sender EXCEPT ![q] = person.phone]
    BY <2>1, <2>2
  <2>3. CASE /\ \E p \in participants : p.phone = person.phone
             /\ sender' = [sender EXCEPT ![q] = person.phone]
    BY <1>1, <2>3
  <2>4. CASE Goto(q, "answer")
    BY <2>4
  <2> QED
    BY <1>6, <2>2, <2>3, <2>4 DEF CreateSender
<1>7. CASE FindGroup(q)
  BY <1>2, <1>7 DEF FindGroup
<1>8. CASE CreateGroup(q)
  <2>1. CASE UNCHANGED <<newPeople, sender>>
    BY <1>2, <1>8, <2>1 DEF CreateGroup
  <2>2. CASE sender' = [sender EXCEPT ![q] = IF newPeople[q] = {} THEN @ ELSE None]
    <3>1. newPeople[q] = {} /\ sender'[q] = sender[q]
      BY <2>2
    <3>2. \E p \in participants : p.phone = sender[q]
      BY <1>8, <3>1 DEF CreateGroup, SenderFound
    <3> QED
      BY <1>1, <3>1, <3>2
  <2> QED
    BY <1>8, <2>1, <2>2 DEF CreateGroup
<1>9. ASSUME NEW p \in Payloads, Receive(q, p) PROVE FALSE
  BY <1>9 DEF Receive, Begin
<1>10. CASE Lookup(q) \/ Raise(q) \/ Insert(q)
  BY <1>10 DEF Lookup, Raise, Insert
<1>11. CASE Enqueue(q)
  BY <1>11 DEF Enqueue, NextMessage
<1>12. CASE Answer(q) \/ Crash(q)
  BY <1>12 DEF Answer, Crash, Close
<1>13. ASSUME NEW row \in raw, Rehash(row) PROVE Goal
  BY <1>3, <1>13 DEF Rehash
<1> QED
  BY <1>3, <1>4, <1>5, <1>6, <1>7, <1>8, <1>9, <1>10, <1>11, <1>12, <1>13,
     NextCases DEF vars, Acts, Handle

LEMMA GroupFoundStep == TypeOK /\ GroupFound /\ [Next]_vars => GroupFound'
<1> SUFFICES ASSUME TypeOK, GroupFound, [Next]_vars, NEW q \in Requests,
                    rpc'[q] = "insert"
             PROVE  group'[q] \in groups' \cup newGroups'[q]
  BY DEF GroupFound
<1> DEFINE Goal == group'[q] \in groups' \cup newGroups'[q]
<1>1. groups \subseteq groups'
  BY TablesGrow
<1>2. ASSUME rpc[q] = "insert", group'[q] = group[q], newGroups'[q] = newGroups[q]
      PROVE  Goal
  BY <1>1, <1>2 DEF GroupFound
<1>3. ASSUME UNCHANGED request, UNCHANGED session PROVE Goal
  BY <1>2, <1>3 DEF request, session
<1>4. ASSUME NEW r \in Requests, Acts(r), r # q PROVE Goal
  BY <1>2, <1>4, OthersStep
<1> USE DEF Goto, At, TypeOK
<1>5. CASE FindGroup(q)
  BY <1>1, <1>5 DEF FindGroup
<1>6. CASE CreateGroup(q)
  BY <1>1, <1>6 DEF CreateGroup
<1>7. ASSUME NEW p \in Payloads, Receive(q, p) PROVE FALSE
  BY <1>7 DEF Receive, Begin
<1>8. CASE Lookup(q) \/ FindSender(q) \/ Raise(q) \/ Insert(q)
  BY <1>8 DEF Lookup, FindSender, Raise, Insert
<1>9. CASE CreateSender(q)
  BY <1>9 DEF CreateSender
<1>10. CASE Enqueue(q)
  BY <1>10 DEF Enqueue, NextMessage
<1>11. CASE Answer(q) \/ Crash(q)
  BY <1>11 DEF Answer, Crash, Close
<1>12. ASSUME NEW row \in raw, Rehash(row) PROVE Goal
  BY <1>3, <1>12 DEF Rehash
<1> QED
  BY <1>3, <1>4, <1>5, <1>6, <1>7, <1>8, <1>9, <1>10, <1>11, <1>12, NextCases
     DEF vars, Acts, Handle

LEMMA RowsCompleteStep ==
    TypeOK /\ SenderFound /\ GroupFound /\ RowsComplete /\ [Next]_vars
        => RowsComplete'
<1> SUFFICES ASSUME TypeOK, SenderFound, GroupFound, RowsComplete, [Next]_vars
             PROVE  RowsComplete'
  OBVIOUS
<1>1. participants \subseteq participants' /\ groups \subseteq groups'
  BY TablesGrow
<1>2. CASE UNCHANGED tables
  BY <1>2 DEF tables, RowsComplete
<1>3. ASSUME NEW r \in Requests, Insert(r), ~Clashes(NewRow(r)),
             raw' = raw \cup {NewRow(r)},
             participants' = participants \cup newPeople[r],
             groups' = groups \cup newGroups[r]
      PROVE  RowsComplete'
  <2>1. NewRow(r).sender = sender[r] /\ NewRow(r).group = group[r] /\ sender[r] # None
    BY <1>3 DEF NewRow, Clashes
  <2>2. /\ \E p \in participants' : p.phone = NewRow(r).sender
        /\ NewRow(r).group \in groups'
    BY <1>3, <2>1 DEF Insert, At, SenderFound, GroupFound
  <2> QED
    BY <1>1, <1>3, <2>2 DEF RowsComplete
<1>4. ASSUME NEW row \in raw, Rehash(row) PROVE RowsComplete'
  <2> DEFINE new == [row EXCEPT !.hash = None]
  <2>1. new.sender = row.sender /\ new.group = row.group
    BY DEF TypeOK, Rows
  <2>2. raw' = (raw \ {row}) \cup {new}
    BY <1>4 DEF Rehash
  <2> HIDE DEF new
  <2> QED
    BY <1>1, <2>1, <2>2 DEF RowsComplete
<1> QED
  BY <1>2, <1>3, <1>4, TablesStep
-----------------------------------------------------------------------------
(* Answered is stored *)

(* The first message of a payload is stored under the payload's key. *)
LEMMA FirstId ==
    ASSUME NEW p \in Payloads, Body[p] # <<>>
    PROVE  MessageId(Head(Body[p]), p) = Key(p)
BY DEF MessageId, Key

(* What is stored and whose name is taken stays so. *)
LEMMA AccountedGrows ==
    ASSUME TypeOK, [Next]_vars, NEW p
    PROVE  /\ KeyStored(p) => KeyStored(p)'
           /\ Accounted(p) => Accounted(p)'
BY TablesGrow DEF KeyStored, Accounted, NameTaken

(* The key of a payload is in the table after its first commit. *)
LEMMA CommitStoresKey ==
    ASSUME TypeOK, InHand, FirstDone, [Next]_vars, NEW r \in Requests,
           rpc[r] = "insert", raw' = raw \cup {NewRow(r)}
    PROVE  \E row \in raw' : row.id = Key(payload[r])
<1>1. payload[r] \in Payloads /\ todo[r] # <<>>
  BY DEF InHand, Working
<1>2. CASE todo[r] = Body[payload[r]]
  <2>1. NewRow(r).id = Key(payload[r])
    BY <1>1, <1>2, FirstId DEF NewRow, Current
  <2> QED
    BY <2>1
<1>3. CASE KeyStored(payload[r])
  BY <1>3 DEF KeyStored
<1> QED
  BY <1>2, <1>3 DEF FirstDone, Working

LEMMA HashStoredStep ==
    TypeOK /\ InHand /\ FirstDone /\ HashStored /\ [Next]_vars => HashStored'
<1> SUFFICES ASSUME TypeOK, InHand, FirstDone, HashStored, [Next]_vars
             PROVE  HashStored'
  OBVIOUS
<1>1. CASE UNCHANGED tables
  BY <1>1 DEF tables, HashStored
<1>2. ASSUME NEW r \in Requests, Insert(r), raw' = raw \cup {NewRow(r)}
      PROVE  HashStored'
  <2>1. NewRow(r).hash = Key(payload[r])
    BY DEF NewRow
  <2>2. \E row \in raw' : row.id = Key(payload[r])
    BY <1>2, CommitStoresKey DEF Insert, At
  <2> QED
    BY <1>2, <2>1, <2>2 DEF HashStored
<1>3. ASSUME NEW row \in raw, Rehash(row) PROVE HashStored'
  <2> DEFINE new == [row EXCEPT !.hash = None]
  <2>1. new.hash = None
    BY DEF TypeOK, Rows
  <2>2. raw' = (raw \ {row}) \cup {new}
    BY <1>3 DEF Rehash
  <2>3. \A s \in raw : \E q \in raw' : q.id = s.id
    BY TablesGrow
  <2> HIDE DEF new
  <2> SUFFICES ASSUME NEW s \in raw', s.hash # None
               PROVE  \E q \in raw' : q.id = s.hash
    BY DEF HashStored
  <2>4. s \in raw
    BY <2>1, <2>2
  <2>5. PICK t \in raw : t.id = s.hash
    BY <2>4 DEF HashStored
  <2> QED
    BY <2>3, <2>5
<1> QED
  BY <1>1, <1>2, <1>3, TablesStep

LEMMA FirstDoneStep == TypeOK /\ InHand /\ FirstDone /\ [Next]_vars => FirstDone'
<1> SUFFICES ASSUME TypeOK, InHand, FirstDone, [Next]_vars, NEW q \in Requests
             PROVE  /\ rpc'[q] = "lookup" => todo'[q] = Body[payload'[q]]
                    /\ rpc'[q] \in Working =>
                         \/ todo'[q] = Body[payload'[q]] /\ rpc'[q] # "enqueue"
                         \/ \E row \in raw' : row.id = Key(payload'[q])
  BY DEF FirstDone, KeyStored
<1> DEFINE Goal == /\ rpc'[q] = "lookup" => todo'[q] = Body[payload'[q]]
                   /\ rpc'[q] \in Working =>
                        \/ todo'[q] = Body[payload'[q]] /\ rpc'[q] # "enqueue"
                        \/ \E row \in raw' : row.id = Key(payload'[q])
<1>1. /\ rpc[q] = "lookup" => todo[q] = Body[payload[q]]
      /\ rpc[q] \in Working =>
           \/ todo[q] = Body[payload[q]] /\ rpc[q] # "enqueue"
           \/ KeyStored(payload[q])
  BY DEF FirstDone
<1>2. ASSUME payload'[q] = payload[q], KeyStored(payload[q])
      PROVE  \E row \in raw' : row.id = Key(payload'[q])
  BY <1>2, TablesGrow DEF KeyStored
<1>3. ASSUME UNCHANGED request PROVE Goal
  BY <1>1, <1>2, <1>3 DEF request
<1>4. ASSUME NEW r \in Requests, Acts(r), r # q PROVE Goal
  BY <1>1, <1>2, <1>4, OthersStep
<1> USE DEF Goto, At, TypeOK, Working
<1>5. ASSUME NEW p \in Payloads, Receive(q, p) PROVE Goal
  BY <1>5 DEF Receive, Begin
<1>6. CASE Lookup(q) \/ FindSender(q) \/ FindGroup(q) \/ CreateGroup(q)
  BY <1>1, <1>2, <1>6 DEF Lookup, FindSender, FindGroup, CreateGroup
<1>7. CASE CreateSender(q)
  BY <1>1, <1>2, <1>7 DEF CreateSender
<1>8. CASE Insert(q)
  <2>1. CASE rpc'[q] = "answer"
    BY <2>1
  <2>2. CASE raw' = raw \cup {NewRow(q)}
    <3>1. payload'[q] = payload[q] /\ rpc[q] = "insert"
      BY <1>8 DEF Insert
    <3>2. \E row \in raw' : row.id = Key(payload[q])
      BY <2>2, <3>1, CommitStoresKey
    <3>3. rpc'[q] # "lookup"
      BY <1>8 DEF Insert
    <3> QED
      BY <3>1, <3>2, <3>3
  <2> QED
    BY <1>8, <2>1, <2>2 DEF Insert
<1>9. CASE Enqueue(q)
  BY <1>1, <1>2, <1>9 DEF Enqueue, NextMessage
<1>10. CASE Answer(q) \/ Crash(q) \/ Raise(q)
  BY <1>10 DEF Answer, Crash, Close, Raise
<1>11. ASSUME NEW row \in raw, Rehash(row) PROVE Goal
  BY <1>3, <1>11 DEF Rehash
<1> QED
  BY <1>3, <1>4, <1>5, <1>6, <1>7, <1>8, <1>9, <1>10, <1>11, NextCases
     DEF vars, Acts, Handle
(* A request begins when no other is under way, or they overlap. *)
LEMMA AloneStep ==
    ASSUME TypeOK, Alone, [Next]_vars, ~overlapped'
    PROVE  Alone'
<1> USE DEF Goto, At, TypeOK
<1>1. ASSUME NEW q \in Requests, rpc[q] = "idle", rpc'[q] # "idle"
      PROVE  \A r \in Requests : rpc[r] = "idle" /\ (r # q => rpc'[r] = "idle")
  <2>1. PICK r \in Requests : Acts(r)
    BY <1>1, NextCases DEF vars, request, Rehash
  <2>2. r = q
    BY <1>1, <2>1, OthersStep
  <2>3. PICK p \in Payloads : Receive(q, p)
    BY <1>1, <2>1, <2>2 DEF Acts, Handle, Lookup, FindSender, CreateSender,
       FindGroup, CreateGroup, Insert, Enqueue, Answer, Raise, Crash
  <2>4. \A s \in Requests : rpc[s] = "idle"
    BY <2>3 DEF Receive, Begin
  <2> QED
    BY <2>1, <2>2, <2>4, OthersStep
<1>2. ASSUME NEW q \in Requests, NEW r \in Requests,
             rpc'[q] # "idle", rpc'[r] # "idle"
      PROVE  q = r
  BY <1>1, <1>2 DEF Alone
<1> QED
  BY <1>2 DEF Alone

(* While requests do not overlap, nobody else commits. *)
LEMMA OnlyMineCommits ==
    ASSUME TypeOK, Alone, [Next]_vars, NEW q \in Requests, rpc[q] # "idle",
           rpc[q] # "insert"
    PROVE  participants' = participants /\ groups' = groups
BY TablesStep DEF Alone, Insert, At, tables, Rehash

LEMMA UndisturbedStep ==
    ASSUME TypeOK, InHand, Alone, Undisturbed, [Next]_vars, ~overlapped'
    PROVE  Undisturbed'
<1> SUFFICES ASSUME NEW q \in Requests
             PROVE  /\ rpc'[q] = "newGroup" => Group[Current(q)'] \notin groups'
                    /\ rpc'[q] \in {"group", "newGroup", "insert"} => sender'[q] # None
  BY DEF Undisturbed
<1> DEFINE Goal == /\ rpc'[q] = "newGroup" => Group[Head(todo'[q])] \notin groups'
                   /\ rpc'[q] \in {"group", "newGroup", "insert"} => sender'[q] # None
<1> SUFFICES Goal
  BY DEF Current
<1>1. /\ rpc[q] = "newGroup" => Group[Head(todo[q])] \notin groups
      /\ rpc[q] \in {"group", "newGroup", "insert"} => sender[q] # None
  BY DEF Undisturbed, Current
<1>2. rpc[q] \notin {"idle", "insert"} => groups' = groups
  BY OnlyMineCommits
<1>3. ASSUME rpc'[q] = rpc[q], todo'[q] = todo[q], sender'[q] = sender[q]
      PROVE  Goal
  BY <1>1, <1>2, <1>3
<1>4. ASSUME UNCHANGED request, UNCHANGED session PROVE Goal
  BY <1>3, <1>4 DEF request, session
<1>5. ASSUME NEW r \in Requests, Acts(r), r # q PROVE Goal
  BY <1>3, <1>5, OthersStep
<1> USE DEF Goto, At, TypeOK
<1>6. CASE FindSender(q)
  <2>1. Sender[Current(q)] # None
    BY <1>6, CurrentTypes DEF FindSender, Working
  <2> QED
    BY <1>6, <2>1 DEF FindSender
<1>7. CASE CreateSender(q)
  <2>1. Sender[Current(q)] # None
    BY <1>7, CurrentTypes DEF CreateSender, Working
  <2> QED
    BY <1>7, <2>1 DEF CreateSender
<1>8. CASE FindGroup(q)
  BY <1>1, <1>2, <1>8 DEF FindGroup, Current
<1>9. CASE CreateGroup(q)
  BY <1>1, <1>9 DEF CreateGroup, Current
<1>10. ASSUME NEW p \in Payloads, Receive(q, p) PROVE Goal
  BY <1>10 DEF Receive, Begin
<1>11. CASE Lookup(q) \/ Raise(q) \/ Insert(q)
  BY <1>11 DEF Lookup, Raise, Insert
<1>12. CASE Enqueue(q)
  BY <1>12 DEF Enqueue, NextMessage
<1>13. CASE Answer(q) \/ Crash(q)
  BY <1>13 DEF Answer, Crash, Close
<1>14. ASSUME NEW row \in raw, Rehash(row) PROVE Goal
  BY <1>4, <1>14 DEF Rehash
<1> QED
  BY <1>4, <1>5, <1>6, <1>7, <1>8, <1>9, <1>10, <1>11, <1>12, <1>13, <1>14,
     NextCases DEF vars, Acts, Handle
(* How a request that meets no exception comes to its answer. *)
LEMMA AnswerStep ==
    ASSUME TypeOK, InHand, NothingFlushed, HashStored, FirstDone, Undisturbed,
           [Next]_vars, faults' = 0, NEW q \in Requests, rpc'[q] = "answer"
    PROVE  /\ payload'[q] = payload[q] /\ payload[q] \in Payloads
           /\ rpc[q] = "answer" \/ Accounted(payload[q])
<1> DEFINE Goal == /\ payload'[q] = payload[q]
                   /\ rpc[q] = "answer" \/ Accounted(payload[q])
<1>1. payload'[q] \in Payloads
  BY InHandStep DEF InHand
<1> SUFFICES Goal
  BY <1>1
<1>2. ASSUME rpc[q] \in Working, todo[q] # Body[payload[q]]
      PROVE  Accounted(payload[q])
  BY <1>2 DEF FirstDone, Accounted
<1>3. ASSUME rpc[q] \in Working, todo[q] = Body[payload[q]]
      PROVE  /\ Current(q) = Head(Body[payload[q]])
             /\ MessageId(Current(q), payload[q]) = Key(payload[q])
  <2>1. payload[q] \in Payloads /\ todo[q] # <<>>
    BY <1>3 DEF InHand, Working
  <2> QED
    BY <1>3, <2>1, FirstId DEF Current
<1>4. ASSUME UNCHANGED request PROVE Goal
  BY <1>4 DEF request
<1>5. ASSUME NEW r \in Requests, Acts(r), r # q PROVE Goal
  BY <1>5, OthersStep
<1> USE DEF Goto, At, TypeOK
<1>6. ASSUME NEW p \in Payloads, Receive(q, p) PROVE FALSE
  BY <1>6 DEF Receive, Begin
<1>7. CASE Lookup(q)
  <2>1. todo[q] = Body[payload[q]] /\ payload[q] \in Payloads /\ payload' = payload
    BY <1>7 DEF Lookup, FirstDone, InHand
  <2>2. todo[q] = <<>> \/ \E row \in raw : row.hash = Key(payload[q])
    BY <1>7 DEF Lookup
  <2>3. CASE todo[q] = <<>>
    BY <2>1, <2>3 DEF Accounted
  <2>4. ASSUME NEW row \in raw, row.hash = Key(payload[q]) PROVE KeyStored(payload[q])
    BY <2>1, <2>4, KeyTypes DEF HashStored, KeyStored
  <2> QED
    BY <2>1, <2>2, <2>3, <2>4 DEF Accounted
<1>8. CASE FindSender(q) \/ FindGroup(q) \/ CreateGroup(q)
  BY <1>8 DEF FindSender, FindGroup, CreateGroup
<1>9. CASE CreateSender(q)
  <2> DEFINE person == [phone |-> Sender[Current(q)], name |-> Username[Current(q)]]
  <2>1. rpc[q] = "newSender" /\ payload' = payload
    BY <1>9 DEF CreateSender
  <2>2. newPeople[q] = {}
    BY <2>1 DEF NothingFlushed
  <2>3. PICK p \in participants : /\ SamePerson(person, p)
                                  /\ p.phone # person.phone
    BY <1>9, <2>2 DEF CreateSender
  <2>4. SamePerson(p, person)
    BY <2>3 DEF SamePerson
  <2>5. NameTaken(Current(q))
    BY <2>3, <2>4 DEF NameTaken
  <2> QED
    BY <1>2, <1>3, <2>1, <2>5 DEF Accounted, Working
<1>10. CASE Insert(q)
  <2>1. rpc[q] = "insert" /\ payload' = payload
    BY <1>10 DEF Insert
  <2>2. Clashes(NewRow(q)) /\ sender[q] # None
    BY <1>10, <2>1 DEF Insert, Undisturbed
  <2>3. PICK p \in raw : p.hash = Key(payload[q]) \/ p.id = NewRow(q).id
    BY <2>2 DEF Clashes, NewRow
  <2>4. CASE p.hash = Key(payload[q])
    <3>1. payload[q] \in Payloads
      BY <2>1 DEF InHand
    <3>2. KeyStored(payload[q])
      BY <2>4, <3>1, KeyTypes DEF HashStored, KeyStored
    <3> QED
      BY <2>1, <3>2 DEF Accounted
  <2>5. CASE p.id = MessageId(Current(q), payload[q]) /\ todo[q] = Body[payload[q]]
    BY <1>3, <2>1, <2>5 DEF Accounted, KeyStored, Working
  <2> QED
    BY <1>2, <2>1, <2>3, <2>4, <2>5 DEF NewRow, Working
<1>11. CASE Enqueue(q)
  <2>1. rpc[q] = "enqueue" /\ payload' = payload
    BY <1>11 DEF Enqueue
  <2>2. KeyStored(payload[q])
    BY <2>1 DEF FirstDone, Working
  <2> QED
    BY <2>1, <2>2 DEF Accounted
<1>12. CASE Answer(q) \/ Crash(q)
  BY <1>12 DEF Answer, Crash, Close
<1>13. CASE Raise(q)
  BY <1>13 DEF Raise
<1>14. ASSUME NEW row \in raw, Rehash(row) PROVE Goal
  BY <1>4, <1>14 DEF Rehash
<1> QED
  BY <1>4, <1>5, <1>6, <1>7, <1>8, <1>9, <1>10, <1>11, <1>12, <1>13, <1>14,
     NextCases DEF vars, Acts, Handle

(* A payload is answered by the request that has it. *)
LEMMA AckedStep ==
    ASSUME [Next]_vars
    PROVE  \/ acked' = acked
           \/ \E r \in Requests : /\ rpc[r] = "answer"
                                  /\ acked' = acked \cup {payload[r]}
BY DEF Next, Handle, Receive, Lookup, FindSender, CreateSender, FindGroup,
       CreateGroup, Insert, Enqueue, Answer, Raise, Crash, Rehash, At, vars

LEMMA AnswerableStep ==
    ASSUME TypeOK, InHand, NothingFlushed, HashStored, FirstDone, Undisturbed,
           Answerable, [Next]_vars, faults' = 0
    PROVE  Answerable'
<1>1. ASSUME NEW p \in acked' PROVE Accounted(p)'
  <2>1. Accounted(p)
    BY <1>1, AckedStep DEF Answerable
  <2> QED
    BY <2>1, AccountedGrows
<1>2. ASSUME NEW q \in Requests, rpc'[q] = "answer"
      PROVE  \A p : p = payload'[q] => Accounted(p)'
  <2>1. payload'[q] = payload[q] /\ Accounted(payload[q])
    BY <1>2, AnswerStep DEF Answerable
  <2> QED
    BY <2>1, AccountedGrows
<1> QED
  BY <1>1, <1>2 DEF Answerable, Accounted, NameTaken, KeyStored, Key

(* An overlap and an exception are never forgotten. *)
LEMMA SerialBackwards ==
    ASSUME TypeOK, [Next]_vars, Serial'
    PROVE  Serial /\ ~overlapped' /\ faults' = 0
<1>1. overlapped => overlapped'
  BY DEF Next, Handle, Receive, Begin, Lookup, FindSender, CreateSender,
         FindGroup, CreateGroup, Insert, Enqueue, Answer, Raise, Crash, Rehash,
         vars
<1>2. faults' = faults \/ faults' = faults + 1
  BY DEF Next, Handle, Receive, Begin, Lookup, FindSender, CreateSender,
         FindGroup, CreateGroup, Insert, Enqueue, Answer, Raise, Crash, Rehash,
         vars, budget
<1> QED
  BY <1>1, <1>2 DEF Serial, TypeOK

-----------------------------------------------------------------------------
LEMMA IInvInit == Init => IInv
<1> SUFFICES ASSUME Init PROVE IInv
  OBVIOUS
<1>1. TypeOK
  <2>1. raw \subseteq Rows /\ participants \subseteq People
        /\ groups \subseteq Range(Group) /\ acked \subseteq Payloads
        /\ overlapped \in BOOLEAN /\ crashes \in Nat /\ faults \in Nat
    BY DEF Init
  <2>2. jobs \in [Messages \cup Payloads -> 0 .. 2]
    BY DEF Init
  <2>3. rpc \in [Requests -> Places]
    BY DEF Init, Places
  <2>4. todo \in [Requests -> Seq(Messages)]
    <3>1. <<>> \in Seq(Messages)
      OBVIOUS
    <3> QED
      BY <3>1 DEF Init
  <2>5. payload \in [Requests -> Payloads \cup {None}]
        /\ sender \in [Requests -> Phones \cup {None}]
        /\ group \in [Requests -> Range(Group) \cup {None}]
    BY DEF Init
  <2>6. newPeople \in [Requests -> SUBSET People]
    BY {} \in SUBSET People DEF Init
  <2>7. newGroups \in [Requests -> SUBSET Range(Group)]
    BY {} \in SUBSET Range(Group) DEF Init
  <2> QED
    BY <2>1, <2>2, <2>3, <2>4, <2>5, <2>6, <2>7 DEF TypeOK
<1>2. \A r \in Requests : rpc[r] = "idle"
  BY DEF Init
<1>3. InHand /\ StoredOnce /\ QueuedStored /\ QueuedOnce /\ SenderFound
      /\ GroupFound /\ RowsComplete /\ HashStored /\ FirstDone
  BY <1>2 DEF Init, InHand, StoredOnce, QueuedStored, QueuedOnce, SenderFound,
              GroupFound, RowsComplete, HashStored, FirstDone, Working
<1>4. OneOwner /\ NothingFlushed
  BY <1>2 DEF Init, OneOwner, Owns, NothingFlushed
<1>5. SerialInv
  BY <1>2 DEF Init, SerialInv, Alone, Undisturbed, Answerable
<1> QED
  BY <1>1, <1>3, <1>4, <1>5 DEF IInv

LEMMA IInvStep == IInv /\ [Next]_vars => IInv'
<1> SUFFICES ASSUME IInv, [Next]_vars PROVE IInv'
  OBVIOUS
<1> USE DEF IInv
<1>1. TypeOK' /\ InHand' /\ StoredOnce' /\ QInv'
  BY TypeStep, InHandStep, StoredOnceStep, QueuedOnceStep DEF QInv
<1>2. SenderFound' /\ GroupFound' /\ RowsComplete' /\ NothingFlushed'
  BY SenderFoundStep, GroupFoundStep, RowsCompleteStep, NothingFlushedStep
<1>3. HashStored' /\ FirstDone'
  BY HashStoredStep, FirstDoneStep
<1>4. ASSUME Serial' PROVE Alone' /\ Undisturbed' /\ Answerable'
  <2>1. Serial /\ ~overlapped' /\ faults' = 0
    BY <1>4, SerialBackwards
  <2>2. Alone /\ Undisturbed /\ Answerable
    BY <2>1 DEF SerialInv
  <2> QED
    BY <2>1, <2>2, AloneStep, UndisturbedStep, AnswerableStep
<1> QED
  BY <1>1, <1>2, <1>3, <1>4 DEF SerialInv, QInv

LEMMA InvariantHolds == Spec => []IInv
  BY IInvInit, IInvStep, PTL DEF Spec

(* The webhook's tables and local variables stay what they are. *)
THEOREM TypeCorrect == Spec => []TypeOK
<1>1. IInv => TypeOK
  BY DEF IInv
<1> QED
  BY <1>1, InvariantHolds, PTL

(* However often, at the same time or after a rehash, WhatsApp delivers a   *)
(* payload, each of its messages is stored once and queued once.            *)
THEOREM StoredAndQueuedOnce == Spec => []OnceOnly
<1>1. IInv => OnceOnly
  BY DEF IInv, StoredOnce, QueuedOnce, OnceOnly
<1> QED
  BY <1>1, InvariantHolds, PTL

(* A worker that takes a job finds its row, with a sender and a group that  *)
(* are in their tables.                                                     *)
THEOREM JobsFindRows == Spec => []JobsHaveRows
<1>1. IInv => JobsHaveRows
  BY DEF IInv, QueuedStored, RowsComplete, JobsHaveRows
<1> QED
  BY <1>1, InvariantHolds, PTL

(* Requests one at a time lose no payload they answer, through any number   *)
(* of crashes and redeliveries.                                             *)
THEOREM AnsweredStored == Spec => []AnsweredIsStored
<1>1. ASSUME IInv, Serial, NEW p \in acked, Body[p] # <<>>
      PROVE  \/ NameTaken(Head(Body[p]))
             \/ \E row \in raw : row.id = MessageId(Head(Body[p]), p)
  <2>1. p \in Payloads
    BY <1>1 DEF IInv, TypeOK
  <2>2. Accounted(p)
    BY <1>1 DEF IInv, SerialInv, Answerable
  <2> QED
    BY <1>1, <2>1, <2>2, FirstId DEF Accounted, KeyStored
<1>2. IInv => AnsweredIsStored
  BY <1>1 DEF AnsweredIsStored, Serial
<1> QED
  BY <1>2, InvariantHolds, PTL
=============================================================================
