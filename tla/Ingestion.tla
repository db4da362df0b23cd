------------------------------ MODULE Ingestion ------------------------------
(***************************************************************************)
(* The webhook: receive_webhook of src/backend/app/api/webhook.py, from a  *)
(* delivery by WhatsApp to the row in raw_messages and the job in Redis.   *)
(*                                                                         *)
(* A request runs in a database session of its own.  What it has flushed   *)
(* is locked: another session inserting the same unique value waits for    *)
(* the first one's commit or rollback.  A query sees committed rows and    *)
(* the session's own.  WhatsApp delivers a payload again until it is       *)
(* answered with 200, and at times once more after that.  Requests that    *)
(* fail the signature or JSON check change nothing and are left out.       *)
(*                                                                         *)
(* The queue's further life is in JobQueue, the worker's in                *)
(* BatchProcessing; of the worker only the new hash of a row matters here. *)
(***************************************************************************)
EXTENDS Integers, FiniteSets, SequencesExt

CONSTANTS
    Requests,     \* requests handled at a time; one process handles one
    Payloads,     \* webhook bodies
    Messages,     \* WhatsApp messages
    Body,         \* [Payloads -> Seq(Messages)]
    Identified,   \* messages that carry an id
    Typed,        \* messages that carry a type
    Sender,       \* [Messages -> phone numbers]; every message has one
    Username,     \* [Messages -> user names \cup {None}], of the sender
    Group,        \* [Messages -> group ids], or the sender's phone number
    None,
    MaxCrashes,   \* bound: process deaths
    MaxFaults     \* bound: database and Redis errors

ASSUME IngestionAssumption ==
    /\ Payloads \cap Messages = {}
    /\ None \notin Payloads \cup Messages
    /\ Body \in [Payloads -> Seq(Messages)]
    /\ Identified \subseteq Messages /\ Typed \subseteq Messages
    /\ DOMAIN Sender = Messages /\ None \notin Range(Sender)
    /\ DOMAIN Username = Messages
    /\ DOMAIN Group = Messages
    /\ MaxCrashes \in Nat /\ MaxFaults \in Nat

VARIABLES
    raw,            \* committed raw_messages
    participants,   \* committed participants
    groups,         \* committed group ids
    jobs,           \* jobs enqueued for a row, up to two
    acked,          \* payloads answered with 200
    rpc,            \* where each request stands
    payload,        \* the payload of each request
    todo,           \* its messages not yet handled
    sender,         \* sender_db_id, by phone number
    group,          \* group_db_id, by group id
    newPeople,      \* participants flushed, not committed
    newGroups,      \* groups flushed, not committed
    overlapped,     \* history: two requests have been under way at once
    crashes, faults

tables == <<raw, participants, groups>>
session == <<sender, group, newPeople, newGroups>>
request == <<rpc, payload, todo>>
budget == <<crashes, faults>>
vars == <<tables, jobs, acked, request, session, overlapped, budget>>

-----------------------------------------------------------------------------
\* generate_idempotency_key: the id of the first message, or else a hash of
\* the whole payload.
Key(p) == IF Body[p] # <<>> /\ Head(Body[p]) \in Identified
          THEN Head(Body[p]) ELSE p

\* Mutant: message.get("id") without a default.
MessageId_NoDefault(m, p) == IF m \in Identified THEN m ELSE None

\* message.get("id", idem_key)
MessageId(m, p) == IF m \in Identified THEN m ELSE Key(p)

Phones == Range(Sender)
Names == Range(Username)

People == [phone : Phones, name : Names]

\* hash is None once the worker has replaced it by a hash of the content.
Rows == [id : Messages \cup Payloads, hash : Messages \cup Payloads \cup {None},
         msg : Messages, sender : Phones, group : Range(Group)]

Places == {"idle", "lookup", "sender", "newSender", "group", "newGroup",
           "insert", "enqueue", "answer"}

TypeOK ==
    /\ raw \subseteq Rows
    /\ participants \subseteq People
    /\ groups \subseteq Range(Group)
    /\ jobs \in [Messages \cup Payloads -> 0 .. 2]
    /\ acked \subseteq Payloads
    /\ rpc \in [Requests -> Places]
    /\ payload \in [Requests -> Payloads \cup {None}]
    /\ todo \in [Requests -> Seq(Messages)]
    /\ sender \in [Requests -> Phones \cup {None}]
    /\ group \in [Requests -> Range(Group) \cup {None}]
    /\ newPeople \in [Requests -> SUBSET People]
    /\ newGroups \in [Requests -> SUBSET Range(Group)]
    /\ overlapped \in BOOLEAN
    /\ crashes \in Nat /\ faults \in Nat

Init ==
    /\ raw = {} /\ participants = {} /\ groups = {}
    /\ jobs = [id \in Messages \cup Payloads |-> 0]
    /\ acked = {}
    /\ rpc = [r \in Requests |-> "idle"]
    /\ payload = [r \in Requests |-> None]
    /\ todo = [r \in Requests |-> <<>>]
    /\ sender = [r \in Requests |-> None]
    /\ group = [r \in Requests |-> None]
    /\ newPeople = [r \in Requests |-> {}]
    /\ newGroups = [r \in Requests |-> {}]
    /\ overlapped = FALSE
    /\ crashes = 0 /\ faults = 0

-----------------------------------------------------------------------------
At(r, place) == rpc[r] = place

Goto(r, place) == rpc' = [rpc EXCEPT ![r] = place]

\* The message in hand: an element of value["messages"].
Current(r) == Head(todo[r])

\* db.rollback(): what was flushed is gone, the local variables stay.
Rollback(r) ==
    /\ newPeople' = [newPeople EXCEPT ![r] = {}]
    /\ newGroups' = [newGroups EXCEPT ![r] = {}]

Elsewhere(r, new) == UNION {new[q] : q \in Requests \ {r}}

-----------------------------------------------------------------------------
Begin(r) ==
    /\ At(r, "idle")
    /\ Goto(r, "lookup")
    /\ overlapped' = (overlapped \/ \E q \in Requests : ~At(q, "idle"))

(* Mutant: the payload is answered before it is handled. *)
Receive_AnswersFirst(r, p) ==
    /\ Begin(r)
    /\ payload' = [payload EXCEPT ![r] = p]
    /\ todo' = [todo EXCEPT ![r] = Body[p]]
    /\ acked' = acked \cup {p}
    /\ UNCHANGED <<tables, jobs, session, budget>>

(* A delivery, or one of many. *)
Receive(r, p) ==
    /\ Begin(r)
    /\ payload' = [payload EXCEPT ![r] = p]
    /\ todo' = [todo EXCEPT ![r] = Body[p]]
    /\ UNCHANGED <<tables, jobs, acked, session, budget>>

(* Mutant: a payload that is known already gets no answer. *)
Lookup_Unanswered(r) ==
    /\ At(r, "lookup")
    /\ Goto(r, IF \E row \in raw : row.hash = Key(payload[r]) THEN "lookup"
               ELSE IF todo[r] = <<>> THEN "answer" ELSE "sender")
    /\ UNCHANGED <<tables, jobs, acked, payload, todo, session, overlapped, budget>>

(* A known hash is answered at once: DUPLICATE_IGNORED. *)
Lookup(r) ==
    /\ At(r, "lookup")
    /\ Goto(r, IF todo[r] = <<>> \/ \E row \in raw : row.hash = Key(payload[r])
               THEN "answer" ELSE "sender")
    /\ UNCHANGED <<tables, jobs, acked, payload, todo, session, overlapped, budget>>

(* The participant is looked up by phone number ... *)
FindSender(r) ==
    /\ At(r, "sender")
    /\ LET phone == Sender[Current(r)] IN
         IF \E p \in participants \cup newPeople[r] : p.phone = phone
         THEN /\ sender' = [sender EXCEPT ![r] = phone]
              /\ Goto(r, "group")
         ELSE /\ Goto(r, "newSender")
              /\ UNCHANGED sender
    /\ UNCHANGED <<tables, jobs, acked, payload, todo,
                   group, newPeople, newGroups, overlapped, budget>>

\* Two participants the table does not admit together.
SamePerson(p, q) == p.phone = q.phone \/ (p.name = q.name /\ p.name # None)

(* ... or inserted.  On a clash the phone number is looked up once more;    *)
(* when the clash was over the user name nobody is found, and the attribute *)
(* error ends in the outer except.                                          *)
CreateSender(r) ==
    /\ At(r, "newSender")
    /\ LET m == Current(r)
           person == [phone |-> Sender[m], name |-> Username[m]]
       IN
       /\ ~\E q \in Elsewhere(r, newPeople) : SamePerson(person, q)
       /\ \/ /\ ~\E q \in participants \cup newPeople[r] : SamePerson(person, q)
             /\ newPeople' = [newPeople EXCEPT ![r] = @ \cup {person}]
             /\ sender' = [sender EXCEPT ![r] = person.phone]
             /\ Goto(r, "group")
             /\ UNCHANGED newGroups
          \/ /\ \E q \in participants \cup newPeople[r] : SamePerson(person, q)
             /\ Rollback(r)
             /\ IF \E q \in participants : q.phone = person.phone
                THEN /\ sender' = [sender EXCEPT ![r] = person.phone]
                     /\ Goto(r, "group")
                ELSE /\ Goto(r, "answer")
                     /\ UNCHANGED sender
    /\ UNCHANGED <<tables, jobs, acked, payload, todo, group, overlapped, budget>>

(* The group, the same way.  The rollback after a clash takes back the      *)
(* participant flushed just before: sender_db_id is then the id of no row.  *)
FindGroup(r) ==
    /\ At(r, "group")
    /\ LET g == Group[Current(r)] IN
         IF g \in groups \cup newGroups[r]
         THEN /\ group' = [group EXCEPT ![r] = g]
              /\ Goto(r, "insert")
         ELSE /\ Goto(r, "newGroup")
              /\ UNCHANGED group
    /\ UNCHANGED <<tables, jobs, acked, payload, todo,
                   sender, newPeople, newGroups, overlapped, budget>>

CreateGroup(r) ==
    /\ At(r, "newGroup")
    /\ LET g == Group[Current(r)] IN
       /\ g \notin Elsewhere(r, newGroups)
       /\ group' = [group EXCEPT ![r] = g]
       /\ IF g \in groups
          THEN /\ Rollback(r)
               /\ sender' = [sender EXCEPT ![r] = IF newPeople[r] = {}
                                                 THEN @ ELSE None]
          ELSE /\ newGroups' = [newGroups EXCEPT ![r] = @ \cup {g}]
               /\ UNCHANGED <<newPeople, sender>>
    /\ Goto(r, "insert")
    /\ UNCHANGED <<tables, jobs, acked, payload, todo, overlapped, budget>>

-----------------------------------------------------------------------------
\* The row db.add() has put into the session.
NewRow(r) == [id |-> MessageId(Current(r), payload[r]),
              hash |-> Key(payload[r]), msg |-> Current(r),
              sender |-> sender[r], group |-> group[r]]

\* Mutant: the sender is no foreign key.
Clashes_AnySender(row) == \E q \in raw : q.hash = row.hash \/ q.id = row.id

\* IntegrityError: a unique column, or the foreign key of the sender.
Clashes(row) ==
    row.sender = None \/ \E q \in raw : q.hash = row.hash \/ q.id = row.id

(* Mutant: a message the table has already is queued again. *)
Insert_QueuesAgain(r) ==
    /\ At(r, "insert")
    /\ IF Clashes(NewRow(r))
       THEN UNCHANGED tables
       ELSE /\ raw' = raw \cup {NewRow(r)}
            /\ participants' = participants \cup newPeople[r]
            /\ groups' = groups \cup newGroups[r]
    /\ Goto(r, "enqueue")
    /\ Rollback(r)
    /\ UNCHANGED <<jobs, acked, payload, todo, sender, group, overlapped, budget>>

(* The commit, or DUPLICATE_IGNORED_BY_DB: what remains of the payload is   *)
(* given up with the message in hand.                                       *)
Insert(r) ==
    /\ At(r, "insert")
    /\ IF Clashes(NewRow(r))
       THEN /\ Goto(r, "answer")
            /\ UNCHANGED tables
       ELSE /\ raw' = raw \cup {NewRow(r)}
            /\ participants' = participants \cup newPeople[r]
            /\ groups' = groups \cup newGroups[r]
            /\ Goto(r, "enqueue")
    /\ Rollback(r)
    /\ UNCHANGED <<jobs, acked, payload, todo, sender, group, overlapped, budget>>

NextMessage(r) ==
    /\ todo' = [todo EXCEPT ![r] = Tail(@)]
    /\ Goto(r, IF Len(todo[r]) = 1 THEN "answer" ELSE "sender")

(* The job is built and pushed.  A failing LPUSH is logged and forgotten;   *)
(* a message without a type makes the job invalid and ends the request.     *)
Enqueue(r) ==
    /\ At(r, "enqueue")
    /\ LET m == Current(r)
           id == MessageId(m, payload[r])
       IN
       \/ /\ m \in Typed
          /\ jobs' = [jobs EXCEPT ![id] = IF @ < 2 THEN @ + 1 ELSE @]
          /\ NextMessage(r)
          /\ UNCHANGED faults
       \/ /\ m \in Typed
          /\ faults < MaxFaults
          /\ faults' = faults + 1
          /\ NextMessage(r)
          /\ UNCHANGED jobs
       \/ /\ m \notin Typed
          /\ Goto(r, "answer")
          /\ UNCHANGED <<jobs, todo, faults>>
    /\ UNCHANGED <<tables, acked, payload, session, overlapped, crashes>>

\* The request is over and its session closed.
Close(r) ==
    /\ Goto(r, "idle")
    /\ payload' = [payload EXCEPT ![r] = None]
    /\ todo' = [todo EXCEPT ![r] = <<>>]
    /\ sender' = [sender EXCEPT ![r] = None]
    /\ group' = [group EXCEPT ![r] = None]
    /\ Rollback(r)

(* Whatever happened, the answer is 200. *)
Answer(r) ==
    /\ At(r, "answer")
    /\ acked' = acked \cup {payload[r]}
    /\ Close(r)
    /\ UNCHANGED <<tables, jobs, overlapped, budget>>

(* A database error, in a query or in the commit, or any other exception    *)
(* goes to the outer except, and that answers 200 too.                      *)
Raise(r) ==
    /\ ~At(r, "idle") /\ ~At(r, "answer")
    /\ faults < MaxFaults
    /\ faults' = faults + 1
    /\ Goto(r, "answer")
    /\ UNCHANGED <<tables, jobs, acked, payload, todo, session, overlapped, crashes>>

(* The process dies, or the connection does before the answer. *)
Crash(r) ==
    /\ ~At(r, "idle")
    /\ crashes < MaxCrashes
    /\ crashes' = crashes + 1
    /\ Close(r)
    /\ UNCHANGED <<tables, jobs, acked, overlapped, faults>>

(* The worker gives a row without a wamid the hash of its content. *)
Rehash(row) ==
    /\ row \in raw
    /\ jobs[row.id] > 0
    /\ row.id \in Payloads /\ row.hash # None
    /\ raw' = (raw \ {row}) \cup {[row EXCEPT !.hash = None]}
    /\ UNCHANGED <<participants, groups, jobs, acked, request, session, overlapped, budget>>

-----------------------------------------------------------------------------
Handle(r) ==
    \/ Lookup(r)
    \/ FindSender(r) \/ CreateSender(r) \/ FindGroup(r) \/ CreateGroup(r)
    \/ Insert(r) \/ Enqueue(r) \/ Answer(r)

Next ==
    \/ \E r \in Requests, p \in Payloads : Receive(r, p)
    \/ \E r \in Requests : Handle(r) \/ Raise(r) \/ Crash(r)
    \/ \E row \in raw : Rehash(row)

Spec == Init /\ [][Next]_vars

(* WhatsApp keeps delivering what has not been answered; a request that     *)
(* runs and waits for no lock goes on.                                      *)
FairSpec ==
    /\ Spec
    /\ \A p \in Payloads :
         SF_vars(\E r \in Requests : p \notin acked /\ Receive(r, p))
    /\ \A r \in Requests : WF_vars(Handle(r))

-----------------------------------------------------------------------------
(* Properties *)

IdsOf(p) == {MessageId(m, p) : m \in Range(Body[p])}

(* However often a payload is delivered, at the same time or after the      *)
(* worker has replaced the hash it is looked up by, a message is stored     *)
(* once and queued once.                                                    *)
OnceOnly ==
    /\ \A q, s \in raw : q.id = s.id => q = s
    /\ \A id \in Messages \cup Payloads : jobs[id] <= 1

(* No job runs ahead of its row: a worker that takes the job at once finds  *)
(* the raw message with its sender and its group.                           *)
JobsHaveRows ==
    \A id \in Messages \cup Payloads : jobs[id] > 0 =>
        \E row \in raw : /\ row.id = id
                         /\ \E p \in participants : p.phone = row.sender
                         /\ row.group \in groups

\* Another participant has the user name of the message's sender.
NameTaken(m) ==
    \E p \in participants : SamePerson(p, [phone |-> Sender[m], name |-> Username[m]])
                            /\ p.phone # Sender[m]

(* While requests do not overlap, as with the single process deployed, an   *)
(* answered payload has its first message stored, crashes and redeliveries  *)
(* included: only an exception, or a user name that belongs to someone      *)
(* else, is answered with 200 and forgotten.                                *)
AnsweredIsStored ==
    ~overlapped /\ faults = 0 =>
        \A p \in {q \in acked : Body[q] # <<>>} :
            LET m == Head(Body[p]) IN
              NameTaken(m) \/ \E row \in raw : row.id = MessageId(m, p)

(* WhatsApp always gets its answer in the end: no request waits for ever on *)
(* the locks of another.                                                    *)
Answered == \A p \in Payloads : <>(p \in acked)

(* What tests/performance/test_webhook_burst.py:111 asserts: the queue      *)
(* grows by one job for every payload answered with 200.                    *)
AnsweredIsQueued ==
    \A p \in acked : \A id \in IdsOf(p) : jobs[id] > 0
=============================================================================
