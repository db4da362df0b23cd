--------------------------- MODULE JobQueueProofs ---------------------------
(***************************************************************************)
(* Proofs about JobQueue for any sets of jobs and workers, any retry limit *)
(* and batch size, and any number of crashes, stops and exceptions: no job *)
(* is lost, retries are earned, the queue implements AtLeastOnce, and with *)
(* one worker the effects of a job are committed once and the active list  *)
(* is the batch.                                                           *)
(***************************************************************************)
EXTENDS JobQueue, SequenceTheorems, WellFoundedInduction, TLAPS

-----------------------------------------------------------------------------
(* What the Redis list commands do to the elements of a list: LPUSH        *)
(* (Cons), RPOP (Front and Last) and LREM key 1 value (RemoveFirst).       *)

(* A non-empty set of naturals has a least element, the one Min chooses:   *)
(* LREM finds a first occurrence.                                          *)
LEMMA MinInSet ==
    ASSUME NEW I \in SUBSET Nat, I # {}
    PROVE  Min(I) \in I
<1> DEFINE R == OpToRel(<, Nat)
<1>1. IsWellFoundedOn(R, Nat)
  BY NatLessThanWellFounded
<1> HIDE DEF R
<1>2. PICK x \in I : \A y \in I : ~(<<y, x>> \in R)
  BY <1>1, WFMin
<1>3. R = {ss \in Nat \X Nat : ss[1] < ss[2]}
  BY DEF R, OpToRel
<1>4. \A y \in I : x =< y
  <2> SUFFICES ASSUME NEW y \in I PROVE ~(y < x)
    BY SMT
  <2>1. <<y, x>> \in Nat \X Nat /\ <<y, x>>[1] = y /\ <<y, x>>[2] = x
    OBVIOUS
  <2> QED
    BY <1>2, <1>3, <2>1
<1> QED
  BY <1>4 DEF Min

(* LPUSH adds one element to a list. *)
LEMMA ConsElements ==
    ASSUME NEW S, NEW s \in Seq(S), NEW x \in S
    PROVE  /\ Cons(x, s) \in Seq(S)
           /\ Range(Cons(x, s)) = {x} \cup Range(s)
<1> DEFINE one == <<x>>
<1>1. one \in Seq(S) /\ Range(one) = {x}
  BY DEF Range
<1>2. Cons(x, s) = one \o s
  BY DEF Cons
<1> HIDE DEF one
<1>3. one \o s \in Seq(S)
  BY <1>1, ConcatProperties
<1>4. Range(one \o s) = Range(one) \cup Range(s)
  BY <1>1, RangeConcatenation
<1> QED
  BY <1>1, <1>2, <1>3, <1>4

(* RPOP splits a non-empty list into its last element and the rest. *)
LEMMA FrontLastElements ==
    ASSUME NEW S, NEW s \in Seq(S), s # <<>>
    PROVE  /\ Front(s) \in Seq(S)
           /\ Len(Front(s)) = Len(s) - 1
           /\ Last(s) \in S
           /\ Range(s) = Range(Front(s)) \cup {Last(s)}
<1>1. Len(s) \in Nat \ {0} /\ DOMAIN s = 1 .. Len(s)
  OBVIOUS
<1>2. /\ Front(s) \in Seq(S)
      /\ Len(Front(s)) = Len(s) - 1
      /\ \A i \in 1 .. Len(s) - 1 : Front(s)[i] = s[i]
  <2>1. \A i \in 1 .. Len(s) - 1 : s[i] \in S
    BY <1>1
  <2> QED
    BY <1>1, <2>1, SubSeqProperties DEF Front
<1>3. DOMAIN Front(s) = 1 .. Len(s) - 1
  BY <1>2
<1>4. 1 .. Len(s) = (1 .. Len(s) - 1) \cup {Len(s)}
  BY <1>1
<1>5. Range(s) = Range(Front(s)) \cup {Last(s)}
  BY <1>1, <1>2, <1>3, <1>4 DEF Range, Last
<1> QED
  BY <1>1, <1>2, <1>5 DEF Last

(* The last element of a list is an element of it. *)
LEMMA LastInRange ==
    ASSUME NEW S, NEW s \in Seq(S), s # <<>>
    PROVE  Last(s) \in Range(s)
<1>1. Len(s) \in DOMAIN s
  OBVIOUS
<1> QED
  BY <1>1 DEF Range, Last

(* LREM removes at most the value it names, and nothing else. *)
LEMMA RemoveFirstElements ==
    ASSUME NEW S, NEW s \in Seq(S), NEW e
    PROVE  /\ RemoveFirst(s, e) \in Seq(S)
           /\ Range(RemoveFirst(s, e)) \subseteq Range(s)
           /\ Range(s) \ {e} \subseteq Range(RemoveFirst(s, e))
<1>1. CASE ~ \E i \in 1 .. Len(s) : s[i] = e
  BY <1>1 DEF RemoveFirst
<1>2. CASE \E i \in 1 .. Len(s) : s[i] = e
  <2> DEFINE I == {i \in 1 .. Len(s) : s[i] = e}
             k == Min(I)
             r == RemoveAt(s, k)
  <2>1. k \in 1 .. Len(s) /\ s[k] = e
    <3>1. I \in SUBSET Nat /\ I # {}
      BY <1>2
    <3> HIDE DEF I
    <3>2. Min(I) \in I
      BY <3>1, MinInSet
    <3> QED
      BY <3>2 DEF I
  <2>2. RemoveFirst(s, e) = r
    <3>1. SelectInSeq(s, LAMBDA v : v = e) = IF I # {} THEN Min(I) ELSE 0
      BY DEF SelectInSeq
    <3>2. SelectInSeq(s, LAMBDA v : v = e) = k
      BY <1>2, <3>1
    <3> QED
      BY <1>2, <3>2 DEF RemoveFirst
  <2> HIDE DEF k
  <2> DEFINE a == SubSeq(s, 1, k - 1)
             b == SubSeq(s, k + 1, Len(s))
  <2>3. /\ a \in Seq(S) /\ Len(a) = k - 1
        /\ \A i \in 1 .. k - 1 : a[i] = s[i]
    <3>1. \A i \in 1 .. k - 1 : s[i] \in S
      BY <2>1
    <3>2. k - 1 \in Int /\ k - 1 >= 0
      BY <2>1
    <3> QED
      BY <2>1, <3>1, <3>2, SubSeqProperties
  <2>4. /\ b \in Seq(S) /\ Len(b) = Len(s) - k
        /\ \A i \in 1 .. Len(s) - k : b[i] = s[k + i]
    <3>1. \A i \in k + 1 .. Len(s) : s[i] \in S
      BY <2>1
    <3>2. k + 1 \in Int /\ Len(s) \in Int /\ Len(s) >= k
      BY <2>1
    <3> QED
      BY <2>1, <3>1, <3>2, SubSeqProperties
  <2>5. r = a \o b
    BY DEF RemoveAt
  <2> HIDE DEF a, b, r
  <2>6. r \in Seq(S) /\ Range(r) = Range(a) \cup Range(b)
    BY <2>3, <2>4, <2>5, ConcatProperties, RangeConcatenation
  <2>7. Range(a) = {s[i] : i \in 1 .. k - 1}
    BY <2>3, RangeEquality
  <2>8. Range(b) = {s[i] : i \in k + 1 .. Len(s)}
    <3>1. Range(b) = {s[k + i] : i \in 1 .. Len(s) - k}
      BY <2>1, <2>4, RangeEquality
    <3>2. \A i \in k + 1 .. Len(s) : i - k \in 1 .. Len(s) - k /\ k + (i - k) = i
      BY <2>1
    <3>3. \A i \in 1 .. Len(s) - k : k + i \in k + 1 .. Len(s)
      BY <2>1
    <3> QED
      BY <3>1, <3>2, <3>3
  <2>9. Range(s) = {s[i] : i \in 1 .. Len(s)}
    BY RangeEquality
  <2>10. 1 .. Len(s) = (1 .. k - 1) \cup {k} \cup (k + 1 .. Len(s))
    BY <2>1
  <2>11. Range(s) = Range(a) \cup {e} \cup Range(b)
    BY <2>1, <2>7, <2>8, <2>9, <2>10
  <2> QED
    BY <2>2, <2>6, <2>11
<1> QED
  BY <1>1, <1>2

-----------------------------------------------------------------------------
(* What they do to a queue. *)

(* Moving the oldest entry of one list to the front of another. *)
LEMMA MoveElements ==
    ASSUME NEW S, NEW from \in Seq(S), NEW to \in Seq(S), from # <<>>
    PROVE  /\ Last(from) \in S
           /\ Front(from) \in Seq(S)
           /\ Cons(Last(from), to) \in Seq(S)
           /\ Range(Cons(Last(from), to)) \cup Range(Front(from))
                = Range(from) \cup Range(to)
<1>1. /\ Front(from) \in Seq(S) /\ Last(from) \in S
      /\ Range(from) = Range(Front(from)) \cup {Last(from)}
  BY FrontLastElements
<1> DEFINE x == Last(from)
<1> HIDE DEF x
<1>2. x \in S
  BY <1>1 DEF x
<1>3. Cons(x, to) \in Seq(S) /\ Range(Cons(x, to)) = {x} \cup Range(to)
  BY <1>2, ConsElements
<1> QED
  BY <1>1, <1>3 DEF x

(* Forgetting the batch keeps the types. *)
LEMMA DischargeTypes ==
    ASSUME NEW w \in Workers, TypeOK, Discharge(w)
    PROVE  /\ batch' \in [Workers -> Seq(Waiting)]
           /\ seen' \in [Workers -> SUBSET Jobs]
           /\ results' \in [Workers -> [Jobs -> Verdicts]]
<1> DEFINE none == [j \in Jobs |-> "retry"]
<1>1. none \in [Jobs -> Verdicts]
  BY DEF Verdicts
<1>2. results' = [results EXCEPT ![w] = none]
  BY DEF Discharge
<1> HIDE DEF none
<1>3. results' \in [Workers -> [Jobs -> Verdicts]]
  BY <1>1, <1>2 DEF TypeOK
<1>4. <<>> \in Seq(Waiting)
  OBVIOUS
<1> QED
  BY <1>3, <1>4 DEF Discharge, TypeOK

LEMMA ForgetTypes ==
    ASSUME NEW w \in Workers, TypeOK, Forget(w)
    PROVE  /\ wpc' \in [Workers -> Places]
           /\ batch' \in [Workers -> Seq(Waiting)]
           /\ seen' \in [Workers -> SUBSET Jobs]
           /\ results' \in [Workers -> [Jobs -> Verdicts]]
           /\ faults' \in Nat
<1>1. wpc' \in [Workers -> Places]
  BY DEF Forget, Goto, TypeOK, Places
<1>2. faults' \in Nat
  BY DEF Forget, TypeOK
<1>3. Discharge(w)
  BY DEF Forget
<1> QED
  BY <1>1, <1>2, <1>3, DischargeTypes

(* The local variables keep their types through the two ways a command ends. *)
LEMMA ThenTypes ==
    ASSUME NEW w \in Workers, NEW place \in Places, NEW rest \in Seq(Waiting),
           TypeOK, Then(w, place, rest)
    PROVE  /\ wpc' \in [Workers -> Places]
           /\ batch' \in [Workers -> Seq(Waiting)]
           /\ seen' \in [Workers -> SUBSET Jobs]
           /\ results' \in [Workers -> [Jobs -> Verdicts]]
           /\ stopping' \in [Workers -> BOOLEAN]
           /\ crashes' \in Nat /\ stops' \in Nat /\ faults' \in Nat
<1>1. CASE Forget(w)
  BY <1>1, ForgetTypes DEF Forget, TypeOK
<1>2. CASE /\ Goto(w, place)
           /\ batch' = [batch EXCEPT ![w] = rest]
           /\ UNCHANGED <<seen, results, stopping, budget>>
  BY <1>2 DEF Goto, TypeOK, budget
<1> QED
  BY <1>1, <1>2 DEF Then

(* A payload being buried is in hand: the last of a non-empty batch.        *)
InHand == \A w \in Workers : wpc[w] \in {"bury", "discard"} => batch[w] # <<>>

(* Every step keeps the types. *)
LEMMA TypeStep == TypeOK /\ InHand /\ [Next]_vars => TypeOK'
<1> USE QueueAssumption DEF lists, database, locals, budget, vars
<1> SUFFICES ASSUME TypeOK, InHand, [Next]_vars PROVE TypeOK'
  OBVIOUS
<1>1. ASSUME NEW id \in Ids, Enqueue(id) PROVE TypeOK'
  <2> DEFINE p == [id |-> id, retry |-> 0]
  <2>1. p \in Waiting
    BY DEF Waiting
  <2> HIDE DEF p
  <2>2. Cons(p, queue) \in Seq(Waiting)
    BY <2>1, ConsElements DEF TypeOK
  <2>3. queue' = Cons(p, queue)
    BY <1>1 DEF Enqueue, p
  <2> QED
    BY <1>1, <2>2, <2>3 DEF Enqueue, TypeOK
<1>2. ASSUME NEW w \in Workers, Start(w) PROVE TypeOK'
  BY <1>2 DEF Start, Goto, TypeOK, Places
<1>3. ASSUME NEW w \in Workers, Recover(w) PROVE TypeOK'
  <2>1. CASE active = <<>>
    BY <1>3, <2>1 DEF Recover, Goto, TypeOK, Places
  <2>2. CASE active # <<>>
    <3>1. /\ Front(active) \in Seq(Waiting)
          /\ Cons(Last(active), queue) \in Seq(Waiting)
      BY <2>2, MoveElements DEF TypeOK
    <3> QED
      BY <1>3, <2>2, <3>1 DEF Recover, TypeOK
  <2> QED
    BY <2>1, <2>2
<1>4. ASSUME NEW w \in Workers, Gather(w) PROVE TypeOK'
  <2> DEFINE p == Last(queue)
             place == IF p.id \in Poison THEN "bury" ELSE "gather"
             rest == Append(batch[w], p)
  <2>1. /\ p \in Waiting
        /\ Front(queue) \in Seq(Waiting)
        /\ Cons(p, active) \in Seq(Waiting)
    BY <1>4, MoveElements DEF TypeOK, Gather
  <2>2. batch[w] \in Seq(Waiting)
    BY DEF TypeOK
  <2>3. place \in Places /\ rest \in Seq(Waiting)
    BY <2>1, <2>2 DEF Places
  <2>4. Then(w, place, rest)
    BY <1>4 DEF Gather
  <2>5. /\ queue' = Front(queue) /\ active' = Cons(p, active)
        /\ UNCHANGED <<dlq, accepted, database, attempts>>
    BY <1>4 DEF Gather
  <2> HIDE DEF p, place, rest
  <2> QED
    BY <2>1, <2>3, <2>4, <2>5, ThenTypes DEF TypeOK
<1>5. ASSUME NEW w \in Workers, Bury(w) PROVE TypeOK'
  <2>1. batch[w] \in Seq(Waiting) /\ Last(batch[w]) \in Waiting
    BY <1>5, FrontLastElements DEF TypeOK, InHand, Bury, At
  <2>2. Last(batch[w]) \in Payload
    BY <2>1 DEF Waiting, Payload
  <2>3. "discard" \in Places
    BY DEF Places
  <2> QED
    BY <1>5, <2>1, <2>2, <2>3, ThenTypes DEF Bury, TypeOK
<1>6. ASSUME NEW w \in Workers, Discard(w) PROVE TypeOK'
  <2>1. batch[w] \in Seq(Waiting) /\ batch[w] # <<>>
    BY <1>6 DEF TypeOK, InHand, Discard, At
  <2>2. Front(batch[w]) \in Seq(Waiting)
    BY <2>1, FrontLastElements
  <2>3. active' \in Seq(Waiting)
    BY <1>6, RemoveFirstElements DEF Discard, TypeOK
  <2>4. "gather" \in Places
    BY DEF Places
  <2> QED
    BY <1>6, <2>2, <2>3, <2>4, ThenTypes DEF Discard, TypeOK
<1>7. ASSUME NEW w \in Workers, EndGather(w) PROVE TypeOK'
  BY <1>7 DEF EndGather, Goto, TypeOK, Places
<1>8. ASSUME NEW w \in Workers, Fetch(w) PROVE TypeOK'
  <2>1. attempts' \in [Jobs -> 0 .. MaxRetries + 1]
    BY <1>8 DEF Fetch, TypeOK
  <2>2. seen' \in [Workers -> SUBSET Jobs]
    BY <1>8 DEF Fetch, TypeOK
  <2> QED
    BY <1>8, <2>1, <2>2 DEF Fetch, Goto, TypeOK, Places
<1>9. ASSUME NEW w \in Workers, NEW verdict \in [Jobs -> Verdicts],
             Return(w, verdict), WriteBatch(w) \/ UNCHANGED database
      PROVE  TypeOK'
  <2>1. BatchJobs(w) \subseteq Jobs
    BY DEF BatchJobs
  <2>2. CASE WriteBatch(w)
    <3> DEFINE E == Effective(w)
    <3>1. E \subseteq Jobs
      BY <2>1 DEF Effective
    <3>2. /\ processed' = processed \cup E
          /\ effects' = [j \in Jobs |-> IF j \in E /\ effects[j] < 2
                                       THEN effects[j] + 1 ELSE effects[j]]
      BY <2>2 DEF WriteBatch
    <3> HIDE DEF E
    <3> QED
      BY <1>9, <3>1, <3>2 DEF Return, Goto, TypeOK, Places
  <2> QED
    BY <1>9, <2>2 DEF Return, Goto, TypeOK, Places
<1>10. ASSUME NEW w \in Workers, Commit(w) PROVE TypeOK'
  BY <1>9, <1>10 DEF Commit, Verdicts
<1>11. ASSUME NEW w \in Workers, FailRetryable(w) PROVE TypeOK'
  BY <1>9, <1>11 DEF FailRetryable, Verdicts
<1>12. ASSUME NEW w \in Workers, FailFatal(w) PROVE TypeOK'
  BY <1>9, <1>12 DEF FailFatal, Verdicts
<1>13. ASSUME NEW w \in Workers, batch[w] # <<>>
       PROVE  /\ Current(w) \in Waiting
              /\ Tail(batch[w]) \in Seq(Waiting)
              /\ batch[w] \in Seq(Waiting)
  BY <1>13 DEF TypeOK, Current
<1>14. ASSUME NEW w \in Workers, NEW place \in Places,
              batch[w] # <<>>, Lrem(w, place)
       PROVE  TypeOK'
  <2>1. active' \in Seq(Waiting)
    BY <1>14, RemoveFirstElements DEF Lrem, TypeOK
  <2> QED
    BY <1>13, <1>14, <2>1, ThenTypes DEF Lrem, TypeOK
<1>15. ASSUME NEW w \in Workers, Ack(w) PROVE TypeOK'
  BY <1>14, <1>15 DEF Ack, Cleaning, Places
<1>16. ASSUME NEW w \in Workers, Drop(w) PROVE TypeOK'
  BY <1>14, <1>16 DEF Drop, Cleaning, Places
<1>17. ASSUME NEW w \in Workers, SendToDlq(w) PROVE TypeOK'
  <2>1. Current(w) \in Waiting /\ batch[w] \in Seq(Waiting)
    BY <1>13, <1>17 DEF SendToDlq, Cleaning
  <2>3. Waiting \subseteq Payload
    BY DEF Waiting, Payload
  <2>2. "drop" \in Places
    BY DEF Places
  <2> QED
    BY <1>17, <2>1, <2>2, <2>3, ThenTypes DEF SendToDlq, TypeOK
<1>18. ASSUME NEW w \in Workers, Requeue(w) PROVE TypeOK'
  <2> DEFINE again == [Current(w) EXCEPT !.retry = @ + 1]
  <2>1. Current(w) \in Waiting /\ batch[w] \in Seq(Waiting)
    BY <1>13, <1>18 DEF Requeue, Cleaning
  <2>2. /\ again \in Payload
        /\ again.retry <= MaxRetries => again \in Waiting
    BY <2>1 DEF Waiting, Payload
  <2>3. /\ Then(w, "drop", batch[w])
        /\ UNCHANGED <<active, accepted, database, attempts>>
        /\ IF again.retry > MaxRetries
           THEN dlq' = dlq \cup {again} /\ UNCHANGED queue
           ELSE queue' = Cons(again, queue) /\ UNCHANGED dlq
    BY <1>18 DEF Requeue
  <2>4. again.retry \in Nat
    BY <2>1 DEF Waiting
  <2> HIDE DEF again
  <2>5. queue' \in Seq(Waiting) /\ dlq' \subseteq Payload
    BY <2>2, <2>3, <2>4, ConsElements DEF TypeOK
  <2>6. "drop" \in Places
    BY DEF Places
  <2> QED
    BY <2>1, <2>3, <2>5, <2>6, ThenTypes DEF TypeOK
<1>19. ASSUME NEW w \in Workers, EndCleanup(w) PROVE TypeOK'
  BY <1>19, DischargeTypes DEF EndCleanup, Goto, TypeOK, Places
<1>20. ASSUME NEW w \in Workers, Trouble(w) PROVE TypeOK'
  <2>1. CASE Shutdown(w)
    BY <2>1 DEF Shutdown, TypeOK
  <2>2. CASE Crash(w)
    <3>1. Discharge(w)
      BY <2>2 DEF Crash
    <3>2. /\ batch' \in [Workers -> Seq(Waiting)]
          /\ seen' \in [Workers -> SUBSET Jobs]
          /\ results' \in [Workers -> [Jobs -> Verdicts]]
      BY <3>1, DischargeTypes
    <3>3. wpc' \in [Workers -> Places] /\ crashes' \in Nat
      BY <2>2 DEF Crash, Goto, TypeOK, Places
    <3>4. UNCHANGED <<queue, active, dlq, accepted, processed, effects,
                      attempts, stopping, stops, faults>>
      BY <2>2 DEF Crash
    <3> QED
      BY <3>2, <3>3, <3>4 DEF TypeOK
  <2>3. CASE LoopException(w)
    BY <2>3, ForgetTypes DEF LoopException, Forget, TypeOK
  <2> QED
    BY <1>20, <2>1, <2>2, <2>3 DEF Trouble
<1>21. CASE UNCHANGED vars
  BY <1>21 DEF TypeOK
<1> QED
  BY <1>1, <1>2, <1>3, <1>4, <1>5, <1>6, <1>7, <1>8, <1>10, <1>11, <1>12,
     <1>15, <1>16, <1>17, <1>18, <1>19, <1>20, <1>21
     DEF Next, WorkerStep, ProcessBatch, CleanUp

-----------------------------------------------------------------------------
(* The inductive invariant.  Held(id, n): the job is finished, or a list    *)
(* holds a copy of it with a retry count of at least n.  The count is what  *)
(* tells the copy a clean-up has just pushed from the one it is about to    *)
(* remove, whatever other workers do to either of them in between.          *)
Held(id, n) ==
    \/ id \in Finished
    \/ \E p \in Queued : p.id = id /\ p.retry >= n

AcceptedHeld == \A id \in accepted : Held(id, 0)

DropCovered ==
    \A w \in Workers : wpc[w] = "drop" /\ batch[w] # <<>> =>
        Held(Current(w).id, Current(w).retry + 1)

DiscardCovered ==
    \A w \in Workers : wpc[w] = "discard" => Last(batch[w]).id \in Finished

SeenCommitted == \A w \in Workers : seen[w] \subseteq processed

SuccessCommitted ==
    \A w \in Workers, j \in Jobs : results[w][j] = "success" => j \in processed

IInv == /\ TypeOK /\ InHand
        /\ AcceptedHeld /\ DropCovered /\ DiscardCovered
        /\ SeenCommitted /\ SuccessCommitted

(* A step that finishes no less and removes at most an entry e, of a job    *)
(* held at a higher count, keeps every job held.                            *)
LEMMA HeldStable ==
    ASSUME NEW e, NEW id, NEW n \in Nat, TypeOK,
           Finished \subseteq Finished',
           Queued \subseteq Queued' \cup {e},
           e \in Queued => Held(e.id, e.retry + 1),
           Held(id, n)
    PROVE  Held(id, n)'
<1>1. CASE id \in Finished
  BY <1>1 DEF Held
<1>2. ASSUME NEW p \in Queued, p.id = id, p.retry >= n
      PROVE  Held(id, n)'
  <2>1. Queued \subseteq Waiting
    BY RangeOfSeq DEF Queued, TypeOK
  <2>2. p.retry \in Nat
    BY <1>2, <2>1, QueueAssumption DEF Waiting
  <2>3. CASE p \in Queued'
    BY <1>2, <2>3 DEF Held
  <2>4. CASE p \notin Queued'
    <3>1. p = e /\ Held(p.id, p.retry + 1)
      BY <1>2, <2>4
    <3>2. CASE p.id \in Finished
      BY <1>2, <3>2 DEF Held
    <3>3. ASSUME NEW q \in Queued, q.id = p.id, q.retry >= p.retry + 1
          PROVE  Held(id, n)'
      <4>1. q.retry \in Nat
        BY <3>3, <2>1, QueueAssumption DEF Waiting
      <4>2. q # p /\ q.retry >= n
        BY <1>2, <2>2, <3>3, <4>1
      <4>3. q \in Queued'
        BY <3>1, <3>3, <4>2
      <4> QED
        BY <1>2, <3>3, <4>2, <4>3 DEF Held
    <3> QED
      BY <3>1, <3>2, <3>3 DEF Held
  <2> QED
    BY <2>3, <2>4
<1> QED
  BY <1>1, <1>2 DEF Held

(* Nothing in the code takes a job back from the database or the DLQ. *)
LEMMA NothingTakenBack ==
    ASSUME [Next]_vars
    PROVE  processed \subseteq processed' /\ dlq \subseteq dlq'
<1> USE DEF lists, database, locals, budget, vars
<1>1. ASSUME NEW id \in Ids, Enqueue(id)
      PROVE  processed \subseteq processed' /\ dlq \subseteq dlq'
  BY <1>1 DEF Enqueue
<1>2. ASSUME NEW w \in Workers, WorkerStep(w) \/ Trouble(w)
      PROVE  processed \subseteq processed' /\ dlq \subseteq dlq'
  <2>1. CASE Requeue(w)
    BY <2>1 DEF Requeue
  <2>2. CASE Start(w) \/ Recover(w) \/ Gather(w) \/ Bury(w) \/ Discard(w)
               \/ EndGather(w) \/ Fetch(w)
    BY <2>2 DEF Start, Recover, Gather, Bury, Discard, EndGather, Fetch
  <2>3. CASE Commit(w) \/ FailRetryable(w) \/ FailFatal(w)
    BY <2>3 DEF Commit, FailRetryable, FailFatal, WriteBatch, Return
  <2>4. CASE Ack(w) \/ SendToDlq(w) \/ Drop(w) \/ EndCleanup(w)
    BY <2>4 DEF Ack, SendToDlq, Drop, EndCleanup, Lrem
  <2>5. CASE Trouble(w)
    BY <2>5 DEF Trouble, Shutdown, Crash, LoopException
  <2> QED
    BY <1>2, <2>1, <2>2, <2>3, <2>4, <2>5
       DEF WorkerStep, ProcessBatch, CleanUp
<1>3. CASE UNCHANGED vars
  BY <1>3
<1> QED
  BY <1>1, <1>2, <1>3 DEF Next

LEMMA FinishedStep ==
    ASSUME [Next]_vars
    PROVE  Finished \subseteq Finished'
  BY NothingTakenBack DEF Finished, IdsOf

(* Only an LREM takes an entry out of the lists: Discard the payload being  *)
(* buried, Ack and Drop the one being cleaned up.                           *)
LEMMA QueuedStep ==
    ASSUME TypeOK, [Next]_vars
    PROVE  \/ Queued \subseteq Queued'
           \/ \E w \in Workers :
                 \/ Discard(w) /\ Queued \subseteq Queued' \cup {Last(batch[w])}
                 \/ Ack(w) /\ Queued \subseteq Queued' \cup {Current(w)}
                 \/ Drop(w) /\ Queued \subseteq Queued' \cup {Current(w)}
<1> USE DEF lists, database, locals, budget, vars
<1> DEFINE Kept == Queued \subseteq Queued'
<1>1. queue \in Seq(Waiting) /\ active \in Seq(Waiting)
  BY DEF TypeOK
<1>2. ASSUME NEW p \in Waiting, queue' = Cons(p, queue), active' = active
      PROVE  Kept
  BY <1>1, <1>2, ConsElements DEF Queued
<1>3. ASSUME queue' = queue, active' = active PROVE Kept
  BY <1>3 DEF Queued
<1>4. ASSUME NEW e, queue' = queue, active' = RemoveFirst(active, e)
      PROVE  Queued \subseteq Queued' \cup {e}
  BY <1>1, <1>4, RemoveFirstElements DEF Queued
<1>5. ASSUME NEW id \in Ids, Enqueue(id) PROVE Kept
  <2>1. [id |-> id, retry |-> 0] \in Waiting
    BY QueueAssumption DEF Waiting
  <2> QED
    BY <1>2, <1>5, <2>1 DEF Enqueue
<1>6. ASSUME NEW w \in Workers, Recover(w) PROVE Kept
  <2>1. CASE active = <<>>
    BY <1>3, <1>6, <2>1 DEF Recover
  <2>2. CASE active # <<>>
    BY <1>1, <1>6, <2>2, MoveElements DEF Recover, Queued
  <2> QED
    BY <2>1, <2>2
<1>7. ASSUME NEW w \in Workers, Gather(w) PROVE Kept
  BY <1>1, <1>7, MoveElements DEF Gather, Queued
<1>8. ASSUME NEW w \in Workers, Discard(w)
      PROVE  Queued \subseteq Queued' \cup {Last(batch[w])}
  BY <1>4, <1>8 DEF Discard
<1>9. ASSUME NEW w \in Workers, Ack(w) \/ Drop(w)
      PROVE  Queued \subseteq Queued' \cup {Current(w)}
  BY <1>4, <1>9 DEF Ack, Drop, Lrem
<1>10. ASSUME NEW w \in Workers, Requeue(w) PROVE Kept
  <2> DEFINE again == [Current(w) EXCEPT !.retry = @ + 1]
  <2>1. Current(w) \in Waiting
    BY <1>10 DEF Requeue, Cleaning, Current, TypeOK
  <2>2. again.retry <= MaxRetries => again \in Waiting
    BY <2>1, QueueAssumption DEF Waiting
  <2>3. again.retry \in Nat
    BY <2>1, QueueAssumption DEF Waiting
  <2>4. /\ active' = active
        /\ IF again.retry > MaxRetries
           THEN UNCHANGED queue ELSE queue' = Cons(again, queue)
    BY <1>10 DEF Requeue
  <2> HIDE DEF again
  <2> QED
    BY <1>2, <1>3, <2>2, <2>3, <2>4, QueueAssumption
<1>11. ASSUME NEW w \in Workers,
              \/ Start(w) \/ Bury(w) \/ EndGather(w) \/ Fetch(w) \/ Commit(w)
              \/ FailRetryable(w) \/ FailFatal(w) \/ SendToDlq(w)
              \/ EndCleanup(w) \/ Trouble(w)
       PROVE  Kept
  <2>1. queue' = queue /\ active' = active
    BY <1>11 DEF Start, Bury, EndGather, Fetch, Commit, FailRetryable,
                 FailFatal, Return, SendToDlq, EndCleanup, Trouble, Shutdown,
                 Crash, LoopException
  <2> QED
    BY <1>3, <2>1
<1>12. CASE UNCHANGED vars
  BY <1>3, <1>12
<1> QED
  BY <1>5, <1>6, <1>7, <1>8, <1>9, <1>10, <1>11, <1>12
     DEF Next, WorkerStep, ProcessBatch, CleanUp

(* Every job held at some count stays held at that count. *)
LEMMA HeldStep ==
    ASSUME IInv, [Next]_vars, NEW id, NEW n \in Nat, Held(id, n)
    PROVE  Held(id, n)'
<1>1. TypeOK
  BY DEF IInv
<1>2. Finished \subseteq Finished'
  BY FinishedStep
<1>3. CASE Queued \subseteq Queued'
  BY <1>2, <1>3 DEF Held
<1>4. ASSUME NEW w \in Workers, Discard(w),
             Queued \subseteq Queued' \cup {Last(batch[w])}
      PROVE  Held(id, n)'
  <2>1. Last(batch[w]).id \in Finished
    BY <1>4 DEF IInv, DiscardCovered, Discard, At
  <2>2. Held(Last(batch[w]).id, Last(batch[w]).retry + 1)
    BY <2>1 DEF Held
  <2> QED
    BY <1>1, <1>2, <1>4, <2>2, HeldStable
<1>5. ASSUME NEW w \in Workers, Ack(w),
             Queued \subseteq Queued' \cup {Current(w)}
      PROVE  Held(id, n)'
  <2>1. Current(w).id \in processed
    BY <1>5 DEF IInv, SuccessCommitted, Ack, Verdict
  <2>2. Held(Current(w).id, Current(w).retry + 1)
    BY <2>1 DEF Held, Finished
  <2> QED
    BY <1>1, <1>2, <1>5, <2>2, HeldStable
<1>6. ASSUME NEW w \in Workers, Drop(w),
             Queued \subseteq Queued' \cup {Current(w)}
      PROVE  Held(id, n)'
  <2>1. Held(Current(w).id, Current(w).retry + 1)
    BY <1>6 DEF IInv, DropCovered, Drop, Cleaning, At
  <2> QED
    BY <1>1, <1>2, <1>6, <2>1, HeldStable
<1> QED
  BY <1>1, <1>3, <1>4, <1>5, <1>6, QueuedStep

(* A worker's step leaves the local variables of the others alone. *)
LEMMA Frame ==
    ASSUME NEW w \in Workers, TypeOK, WorkerStep(w) \/ Trouble(w),
           NEW v \in Workers, v # w
    PROVE  /\ wpc'[v] = wpc[v] /\ batch'[v] = batch[v]
           /\ seen'[v] = seen[v] /\ results'[v] = results[v]
<1> USE DEF lists, database, locals, budget, Goto
<1>1. ASSUME Forget(w) PROVE /\ wpc'[v] = wpc[v] /\ batch'[v] = batch[v]
                             /\ seen'[v] = seen[v] /\ results'[v] = results[v]
  BY <1>1 DEF Forget, Discharge, TypeOK
<1>2. ASSUME NEW place, NEW rest, Then(w, place, rest)
      PROVE  /\ wpc'[v] = wpc[v] /\ batch'[v] = batch[v]
             /\ seen'[v] = seen[v] /\ results'[v] = results[v]
  BY <1>1, <1>2 DEF Then, TypeOK
<1>3. CASE Gather(w) \/ Bury(w) \/ Discard(w)
  BY <1>2, <1>3 DEF Gather, Bury, Discard
<1>4. CASE Ack(w) \/ SendToDlq(w) \/ Requeue(w) \/ Drop(w)
  BY <1>2, <1>4 DEF Ack, SendToDlq, Requeue, Drop, Lrem
<1>5. CASE Start(w) \/ Recover(w) \/ EndGather(w) \/ Fetch(w)
  BY <1>5 DEF Start, Recover, EndGather, Fetch, TypeOK
<1>6. CASE Commit(w) \/ FailRetryable(w) \/ FailFatal(w)
  BY <1>6 DEF Commit, FailRetryable, FailFatal, Return, TypeOK
<1>7. CASE EndCleanup(w)
  BY <1>7 DEF EndCleanup, Discharge, TypeOK
<1>8. CASE Trouble(w)
  BY <1>1, <1>8 DEF Trouble, Shutdown, Crash, LoopException, Discharge, TypeOK
<1> QED
  BY <1>3, <1>4, <1>5, <1>6, <1>7, <1>8 DEF WorkerStep, ProcessBatch, CleanUp

(* How a worker comes to stand at a command that finishes what another one  *)
(* began: through that command, or it already stood there.                  *)
LEMMA PlaceStep ==
    ASSUME NEW w \in Workers, TypeOK, WorkerStep(w) \/ Trouble(w)
    PROVE  /\ wpc'[w] = "bury" =>
                \/ Gather(w) /\ batch'[w] = Append(batch[w], Last(queue))
                \/ wpc[w] = "bury" /\ batch'[w] = batch[w]
           /\ wpc'[w] = "discard" =>
                \/ Bury(w) /\ batch'[w] = batch[w]
                \/ wpc[w] = "discard" /\ batch'[w] = batch[w]
           /\ wpc'[w] = "drop" =>
                \/ (SendToDlq(w) \/ Requeue(w)) /\ batch'[w] = batch[w]
                \/ wpc[w] = "drop" /\ batch'[w] = batch[w]
<1> USE DEF lists, database, locals, budget, Goto
<1> DEFINE Here == wpc'[w] \in {"bury", "discard", "drop"}
<1>1. ASSUME Forget(w) PROVE ~Here
  BY <1>1 DEF Forget, TypeOK
<1>2. ASSUME NEW place, NEW rest, Then(w, place, rest), Here
      PROVE  wpc'[w] = place /\ batch'[w] = rest
  BY <1>1, <1>2 DEF Then, TypeOK
<1>3. CASE Gather(w)
  <2> DEFINE place == IF Last(queue).id \in Poison THEN "bury" ELSE "gather"
             rest == Append(batch[w], Last(queue))
  <2>1. Then(w, place, rest) /\ place \notin {"discard", "drop"}
    BY <1>3 DEF Gather
  <2> HIDE DEF place, rest
  <2>2. Here => wpc'[w] = place /\ batch'[w] = rest
    BY <1>2, <2>1
  <2> QED
    BY <1>3, <2>1, <2>2 DEF rest
<1>4. CASE Bury(w)
  BY <1>2, <1>4 DEF Bury
<1>5. CASE SendToDlq(w) \/ Requeue(w)
  BY <1>2, <1>5 DEF SendToDlq, Requeue
<1>6. CASE Discard(w) \/ Ack(w) \/ Drop(w)
  BY <1>2, <1>6 DEF Discard, Ack, Drop, Lrem
<1>7. CASE Start(w) \/ Recover(w) \/ EndGather(w) \/ Fetch(w)
  BY <1>7 DEF Start, Recover, EndGather, Fetch, At, TypeOK
<1>8. CASE Commit(w) \/ FailRetryable(w) \/ FailFatal(w)
  BY <1>8 DEF Commit, FailRetryable, FailFatal, Return, TypeOK
<1>9. CASE EndCleanup(w)
  BY <1>9 DEF EndCleanup, TypeOK
<1>10. CASE Trouble(w)
  BY <1>1, <1>10 DEF Trouble, Shutdown, Crash, LoopException, TypeOK
<1> QED
  BY <1>3, <1>4, <1>5, <1>6, <1>7, <1>8, <1>9, <1>10
     DEF WorkerStep, ProcessBatch, CleanUp

-----------------------------------------------------------------------------
(* The conjuncts of the inductive invariant, one lemma each. *)
LEMMA InHandStep == IInv /\ [Next]_vars => InHand'
<1> SUFFICES ASSUME IInv, [Next]_vars, NEW v \in Workers,
                    wpc'[v] \in {"bury", "discard"}
             PROVE  batch'[v] # <<>>
  BY DEF InHand
<1> USE DEF IInv
<1>1. CASE wpc'[v] = wpc[v] /\ batch'[v] = batch[v]
  BY <1>1 DEF InHand
<1>2. CASE WorkerStep(v) \/ Trouble(v)
  <2>1. batch[v] \in Seq(Waiting)
    BY DEF TypeOK
  <2>2. CASE Gather(v) /\ batch'[v] = Append(batch[v], Last(queue))
    BY <2>1, <2>2
  <2>3. CASE Bury(v) /\ batch'[v] = batch[v]
    BY <2>3 DEF Bury, At, InHand
  <2>4. CASE wpc[v] \in {"bury", "discard"} /\ batch'[v] = batch[v]
    BY <2>4 DEF InHand
  <2> QED
    BY <1>2, <2>2, <2>3, <2>4, PlaceStep
<1>3. ASSUME NEW w \in Workers, w # v, WorkerStep(w) \/ Trouble(w)
      PROVE  wpc'[v] = wpc[v] /\ batch'[v] = batch[v]
  BY <1>3, Frame
<1>4. ASSUME NEW id \in Ids, Enqueue(id)
      PROVE  wpc'[v] = wpc[v] /\ batch'[v] = batch[v]
  BY <1>4 DEF Enqueue, locals
<1>5. CASE UNCHANGED vars
  BY <1>1, <1>5 DEF vars, locals
<1> QED
  BY <1>1, <1>2, <1>3, <1>4, <1>5 DEF Next

(* A step of the webhook adds a job that a list holds; no other step        *)
(* accepts one.                                                             *)
LEMMA AcceptedStep == IInv /\ [Next]_vars => AcceptedHeld'
<1> SUFFICES ASSUME IInv, [Next]_vars, NEW id \in accepted'
             PROVE  Held(id, 0)'
  BY DEF AcceptedHeld
<1>1. CASE id \in accepted
  <2>1. Held(id, 0)
    BY <1>1 DEF IInv, AcceptedHeld
  <2> QED
    BY <2>1, HeldStep
<1>2. CASE id \notin accepted
  <2>1. accepted' # accepted
    BY <1>2
  <2>2. PICK new \in Ids : Enqueue(new)
    <3>1. ASSUME NEW w \in Workers, WorkerStep(w) \/ Trouble(w)
          PROVE  accepted' = accepted
      BY <3>1 DEF WorkerStep, Trouble, ProcessBatch, CleanUp, Start, Recover,
                  Gather, Bury, Discard, EndGather, Fetch, Commit,
                  FailRetryable, FailFatal, Return, Ack, SendToDlq, Requeue,
                  Drop, EndCleanup, Lrem, Shutdown, Crash, LoopException
    <3>2. ASSUME UNCHANGED vars PROVE accepted' = accepted
      BY <3>2 DEF vars
    <3> QED
      BY <2>1, <3>1, <3>2 DEF Next
  <2> DEFINE p == [id |-> new, retry |-> 0]
  <2>3. id = new /\ queue' = Cons(p, queue) /\ active' = active
    BY <1>2, <2>2 DEF Enqueue
  <2>4. p \in Waiting /\ p.id = new /\ p.retry >= 0
    BY QueueAssumption DEF Waiting
  <2> HIDE DEF p
  <2>5. p \in Range(queue')
    BY <2>3, <2>4, ConsElements DEF IInv, TypeOK
  <2>6. p \in Queued' /\ p.id = id
    BY <2>3, <2>4, <2>5 DEF Queued
  <2> QED
    BY <2>4, <2>6 DEF Held
<1> QED
  BY <1>1, <1>2

(* Between LPUSH and LREM the next copy is out, or the job is finished. *)
LEMMA DropStep == IInv /\ [Next]_vars => DropCovered'
<1> SUFFICES ASSUME IInv, [Next]_vars, NEW v \in Workers,
                    wpc'[v] = "drop", batch'[v] # <<>>
             PROVE  Held(Current(v).id, Current(v).retry + 1)'
  BY DEF DropCovered
<1> USE DEF IInv
<1>1. ASSUME wpc[v] = "drop", batch'[v] = batch[v]
      PROVE  Held(Current(v).id, Current(v).retry + 1)'
  <2>1. Current(v) \in Waiting
    BY <1>1 DEF TypeOK, Current
  <2>2. Current(v).retry + 1 \in Nat
    BY <2>1, QueueAssumption DEF Waiting
  <2>3. Held(Current(v).id, Current(v).retry + 1)
    BY <1>1 DEF DropCovered
  <2>4. PICK i, n : i = Current(v).id /\ n = Current(v).retry + 1
    OBVIOUS
  <2>5. Held(i, n)'
    BY <2>2, <2>3, <2>4, HeldStep
  <2>6. Current(v)' = Current(v)
    BY <1>1 DEF Current
  <2> QED
    BY <2>4, <2>5, <2>6 DEF Held
<1>2. ASSUME SendToDlq(v), batch'[v] = batch[v]
      PROVE  Held(Current(v).id, Current(v).retry + 1)'
  <2>1. Current(v)' = Current(v) /\ Current(v) \in dlq'
    BY <1>2 DEF SendToDlq, Current
  <2> QED
    BY <2>1 DEF Held, Finished, IdsOf
<1>3. ASSUME Requeue(v), batch'[v] = batch[v]
      PROVE  Held(Current(v).id, Current(v).retry + 1)'
  <2> DEFINE again == [Current(v) EXCEPT !.retry = @ + 1]
  <2>1. Current(v) \in Waiting /\ Current(v)' = Current(v)
    BY <1>3 DEF Requeue, Cleaning, Current, TypeOK
  <2>2. /\ again.id = Current(v).id /\ again.retry = Current(v).retry + 1
        /\ again.retry \in Nat
        /\ again.retry <= MaxRetries => again \in Waiting
    BY <2>1, QueueAssumption DEF Waiting
  <2>3. IF again.retry > MaxRetries
        THEN dlq' = dlq \cup {again} ELSE queue' = Cons(again, queue)
    BY <1>3 DEF Requeue
  <2> HIDE DEF again
  <2>4. again \in dlq' \/ again \in Range(queue')
    BY <2>2, <2>3, QueueAssumption, ConsElements DEF TypeOK
  <2>5. CASE again \in dlq'
    BY <2>1, <2>2, <2>5 DEF Held, Finished, IdsOf
  <2>6. CASE again \in Range(queue')
    <3>1. again \in Queued' /\ again.retry >= Current(v).retry + 1
      BY <2>2, <2>6 DEF Queued
    <3> QED
      BY <2>1, <2>2, <3>1 DEF Held
  <2> QED
    BY <2>4, <2>5, <2>6
<1>4. CASE WorkerStep(v) \/ Trouble(v)
  BY <1>1, <1>2, <1>3, <1>4, PlaceStep
<1>5. ASSUME NEW w \in Workers, w # v, WorkerStep(w) \/ Trouble(w)
      PROVE  wpc'[v] = wpc[v] /\ batch'[v] = batch[v]
  BY <1>5, Frame
<1>6. ASSUME NEW id \in Ids, Enqueue(id)
      PROVE  wpc'[v] = wpc[v] /\ batch'[v] = batch[v]
  BY <1>6 DEF Enqueue, locals
<1>7. CASE UNCHANGED vars
  BY <1>1, <1>7 DEF vars, locals
<1> QED
  BY <1>1, <1>4, <1>5, <1>6, <1>7 DEF Next

(* Between the LPUSH and the LREM of a payload that does not parse it is in *)
(* the dead letter list.                                                    *)
LEMMA DiscardStep == IInv /\ [Next]_vars => DiscardCovered'
<1> SUFFICES ASSUME IInv, [Next]_vars, NEW v \in Workers, wpc'[v] = "discard"
             PROVE  (Last(batch[v]).id \in Finished)'
  BY DEF DiscardCovered
<1> USE DEF IInv
<1>1. ASSUME wpc[v] = "discard", batch'[v] = batch[v]
      PROVE  (Last(batch[v]).id \in Finished)'
  BY <1>1, FinishedStep DEF DiscardCovered
<1>2. ASSUME Bury(v), batch'[v] = batch[v]
      PROVE  (Last(batch[v]).id \in Finished)'
  BY <1>2 DEF Bury, Finished, IdsOf
<1>3. CASE WorkerStep(v) \/ Trouble(v)
  BY <1>1, <1>2, <1>3, PlaceStep
<1>4. ASSUME NEW w \in Workers, w # v, WorkerStep(w) \/ Trouble(w)
      PROVE  wpc'[v] = wpc[v] /\ batch'[v] = batch[v]
  BY <1>4, Frame
<1>5. ASSUME NEW id \in Ids, Enqueue(id)
      PROVE  wpc'[v] = wpc[v] /\ batch'[v] = batch[v]
  BY <1>5 DEF Enqueue, locals
<1>6. CASE UNCHANGED vars
  BY <1>1, <1>6 DEF vars, locals
<1> QED
  BY <1>1, <1>3, <1>4, <1>5, <1>6 DEF Next

(* What a worker read as processed, and what it was told is a success, it   *)
(* forgets, keeps or learns from the database.                              *)
LEMMA VerdictStep ==
    ASSUME NEW w \in Workers, TypeOK, WorkerStep(w) \/ Trouble(w)
    PROVE  /\ seen'[w] = seen[w] \/ seen'[w] \subseteq processed
           /\ \/ results'[w] = results[w]
              \/ \A j \in Jobs : results'[w][j] # "success"
              \/ Commit(w)
<1> USE DEF lists, database, locals, budget, Goto
<1>1. ASSUME Discharge(w)
      PROVE  seen'[w] = {} /\ \A j \in Jobs : results'[w][j] # "success"
  BY <1>1 DEF Discharge, TypeOK
<1>2. ASSUME NEW place, NEW rest, Then(w, place, rest)
      PROVE  \/ seen'[w] = seen[w] /\ results'[w] = results[w]
             \/ seen'[w] = {} /\ \A j \in Jobs : results'[w][j] # "success"
  BY <1>1, <1>2 DEF Then, Forget
<1>3. CASE Gather(w) \/ Bury(w) \/ Discard(w)
  BY <1>2, <1>3 DEF Gather, Bury, Discard
<1>4. CASE Ack(w) \/ SendToDlq(w) \/ Requeue(w) \/ Drop(w)
  BY <1>2, <1>4 DEF Ack, SendToDlq, Requeue, Drop, Lrem
<1>5. CASE Start(w) \/ Recover(w) \/ EndGather(w)
  BY <1>5 DEF Start, Recover, EndGather
<1>6. CASE Fetch(w)
  BY <1>6 DEF Fetch, TypeOK
<1>7. CASE Commit(w)
  BY <1>7 DEF Commit, Return, TypeOK
<1>8. CASE FailRetryable(w)
  BY <1>8 DEF FailRetryable, Return, TypeOK
<1>9. CASE FailFatal(w)
  BY <1>9 DEF FailFatal, Return, TypeOK
<1>11. CASE EndCleanup(w)
  BY <1>1, <1>11 DEF EndCleanup
<1>10. CASE Trouble(w)
  BY <1>1, <1>10 DEF Trouble, Shutdown, Crash, LoopException, Forget
<1> QED
  BY <1>3, <1>4, <1>5, <1>6, <1>7, <1>8, <1>9, <1>10, <1>11
     DEF WorkerStep, ProcessBatch, CleanUp

LEMMA SuccessStep ==
    IInv /\ [Next]_vars => SeenCommitted' /\ SuccessCommitted'
<1> SUFFICES ASSUME IInv, [Next]_vars, NEW v \in Workers
             PROVE  /\ seen'[v] \subseteq processed'
                    /\ \A j \in Jobs :
                          results'[v][j] = "success" => j \in processed'
  BY DEF SeenCommitted, SuccessCommitted
<1> USE DEF IInv
<1>1. processed \subseteq processed'
  BY NothingTakenBack
<1>2. /\ seen[v] \subseteq processed
      /\ \A j \in Jobs : results[v][j] = "success" => j \in processed
  BY DEF SeenCommitted, SuccessCommitted
<1>3. ASSUME Commit(v)
      PROVE  \A j \in Jobs : results'[v][j] = "success" => j \in processed'
  <2> TAKE j \in Jobs
  <2>1. results'[v][j] = "success" => j \in BatchJobs(v) \ Missing
    BY <1>3 DEF Commit, Return, TypeOK
  <2>2. BatchJobs(v) \ Missing \subseteq Effective(v) \cup seen[v]
    BY DEF Effective
  <2>3. Effective(v) \subseteq processed'
    BY <1>3 DEF Commit, WriteBatch
  <2> QED
    BY <1>1, <1>2, <2>1, <2>2, <2>3
<1>4. CASE WorkerStep(v) \/ Trouble(v)
  BY <1>1, <1>2, <1>3, <1>4, VerdictStep
<1>5. ASSUME NEW w \in Workers, w # v, WorkerStep(w) \/ Trouble(w)
      PROVE  seen'[v] = seen[v] /\ results'[v] = results[v]
  BY <1>5, Frame
<1>6. ASSUME NEW id \in Ids, Enqueue(id)
      PROVE  seen'[v] = seen[v] /\ results'[v] = results[v]
  BY <1>6 DEF Enqueue, locals
<1>7. CASE UNCHANGED vars
  BY <1>1, <1>2, <1>7 DEF vars, locals
<1> QED
  BY <1>1, <1>2, <1>4, <1>5, <1>6, <1>7 DEF Next

(* The invariant holds in the empty system. *)
LEMMA IInvInit == Init => IInv
<1> SUFFICES ASSUME Init PROVE IInv
  OBVIOUS
<1> USE QueueAssumption DEF Init
<1>1. /\ <<>> \in Seq(Waiting)
      /\ [j \in Jobs |-> "retry"] \in [Jobs -> Verdicts]
      /\ "down" \in Places
  BY DEF Verdicts, Places
<1>2. TypeOK
  BY <1>1 DEF TypeOK
<1> QED
  BY <1>2 DEF IInv, InHand, AcceptedHeld, DropCovered, DiscardCovered,
              SeenCommitted, SuccessCommitted

LEMMA IInvStep == IInv /\ [Next]_vars => IInv'
  BY TypeStep, InHandStep, AcceptedStep, DropStep, DiscardStep, SuccessStep
     DEF IInv

LEMMA Invariance == Spec => []IInv
  BY IInvInit, IInvStep, PTL DEF Spec

(* The lists, the database flags and the workers' local variables keep the  *)
(* types the code gives them, retry_count within MAX_RETRIES in the lists   *)
(* and one beyond it in the dead letter list.                               *)
THEOREM TypeCorrect == Spec => []TypeOK
<1>1. IInv => TypeOK
  BY DEF IInv
<1> QED
  BY <1>1, Invariance, PTL

(* An accepted job is never lost, for any number of workers stealing from   *)
(* each other, crashing and losing replies.                                 *)
THEOREM NoLoss == Spec => []NoJobLost
<1>1. IInv => NoJobLost
  BY DEF IInv, AcceptedHeld, Held, NoJobLost, IdsOf
<1> QED
  BY <1>1, Invariance, PTL

-----------------------------------------------------------------------------
(* retry_count never runs ahead of the work, for any number of workers that *)
(* take jobs from each other.                                               *)

(* What a batch becomes: its first entry goes, or one is added. *)
LEMMA TailElements ==
    ASSUME NEW S, NEW s \in Seq(S), s # <<>>
    PROVE  Head(s) \in Range(s) /\ Range(Tail(s)) \subseteq Range(s)
<1>1. /\ Len(s) \in Nat \ {0} /\ DOMAIN s = 1 .. Len(s)
      /\ Head(s) = s[1]
      /\ DOMAIN Tail(s) = 1 .. Len(s) - 1
      /\ \A i \in 1 .. Len(s) - 1 : Tail(s)[i] = s[i + 1]
  OBVIOUS
<1>2. \A i \in 1 .. Len(s) - 1 : i + 1 \in 1 .. Len(s)
  BY <1>1
<1> QED
  BY <1>1, <1>2 DEF Range

LEMMA AppendElements ==
    ASSUME NEW S, NEW s \in Seq(S), NEW x \in S
    PROVE  Range(Append(s, x)) \subseteq Range(s) \cup {x}
<1>1. /\ DOMAIN s = 1 .. Len(s) /\ Len(s) \in Nat
      /\ DOMAIN Append(s, x) = 1 .. Len(s) + 1
      /\ Append(s, x)[Len(s) + 1] = x
      /\ \A i \in 1 .. Len(s) : Append(s, x)[i] = s[i]
  OBVIOUS
<1>2. \A i \in 1 .. Len(s) + 1 : i \in 1 .. Len(s) \/ i = Len(s) + 1
  BY <1>1
<1> QED
  BY <1>1, <1>2 DEF Range

(* The invariant: what a worker has in hand is earned too, and once the     *)
(* batch has been fetched so is its next retry.                             *)
Counted(w) == wpc[w] \in {"commit", "cleanup", "drop"}

Earned(p) == p.id \in Jobs => attempts[p.id] >= p.retry

NextEarned(p) == p.id \in Jobs => attempts[p.id] >= p.retry + 1

BatchEarned ==
    \A w \in Workers : \A p \in Range(batch[w]) :
        Earned(p) /\ (Counted(w) => NextEarned(p))

EInv == IInv /\ RetriesEarned /\ BatchEarned

(* Attempts are never taken back, and the fetch of a batch adds one to each *)
(* of its jobs, up to one beyond MAX_RETRIES.                               *)
LEMMA AttemptsStep ==
    ASSUME TypeOK, [Next]_vars
    PROVE  /\ attempts \in [Jobs -> Nat] /\ attempts' \in [Jobs -> Nat]
           /\ \A j \in Jobs : attempts'[j] >= attempts[j]
<1> USE QueueAssumption DEF TypeOK, lists, database, locals, budget, vars
<1>1. attempts \in [Jobs -> Nat]
  OBVIOUS
<1>2. ASSUME NEW w \in Workers, Fetch(w)
      PROVE  /\ attempts' \in [Jobs -> Nat]
             /\ \A j \in Jobs : attempts'[j] >= attempts[j]
  BY <1>1, <1>2 DEF Fetch
<1>3. ASSUME NEW w \in Workers, WorkerStep(w) \/ Trouble(w), ~Fetch(w)
      PROVE  attempts' = attempts
  BY <1>3 DEF WorkerStep, Trouble, ProcessBatch, CleanUp, Start, Recover,
              Gather, Bury, Discard, EndGather, Commit, FailRetryable,
              FailFatal, Return, Ack, SendToDlq, Requeue, Drop, EndCleanup,
              Lrem, Shutdown, Crash, LoopException
<1>4. ASSUME NEW id \in Ids, Enqueue(id) PROVE attempts' = attempts
  BY <1>4 DEF Enqueue
<1>5. CASE UNCHANGED vars
  BY <1>1, <1>5
<1> QED
  BY <1>1, <1>2, <1>3, <1>4, <1>5 DEF Next

(* An earned payload stays earned. *)
LEMMA EarnedStep ==
    ASSUME TypeOK, [Next]_vars, NEW p, p.retry \in Nat
    PROVE  (Earned(p) => Earned(p)') /\ (NextEarned(p) => NextEarned(p)')
  BY AttemptsStep DEF Earned, NextEarned

LEMMA EntryTypes ==
    ASSUME TypeOK
    PROVE  /\ \A p \in Queued \cup dlq : p.retry \in Nat
           /\ \A w \in Workers : \A p \in Range(batch[w]) :
                 p \in Waiting /\ p.retry \in 0 .. MaxRetries
<1>1. Queued \subseteq Waiting
  BY RangeOfSeq DEF Queued, TypeOK
<1>2. ASSUME NEW w \in Workers PROVE Range(batch[w]) \subseteq Waiting
  <2>1. batch[w] \in Seq(Waiting)
    BY DEF TypeOK
  <2> QED
    BY <2>1, RangeOfSeq
<1> QED
  BY <1>1, <1>2, QueueAssumption DEF TypeOK, Waiting, Payload

(* The batch after a worker's step: what it was or less, with no place in   *)
(* the loop that demands more of it; or fetched; or with an entry more from *)
(* the queue, still gathering.                                              *)
LEMMA BatchStep ==
    ASSUME NEW w \in Workers, TypeOK, InHand, WorkerStep(w) \/ Trouble(w)
    PROVE  \/ /\ Range(batch'[w]) \subseteq Range(batch[w])
              /\ Counted(w)' => Counted(w)
           \/ Fetch(w)
           \/ /\ Range(batch'[w]) \subseteq Range(batch[w]) \cup Queued
              /\ ~Counted(w)'
<1> USE DEF lists, database, locals, budget, Goto, Counted
<1> DEFINE Less == /\ Range(batch'[w]) \subseteq Range(batch[w])
                   /\ Counted(w)' => Counted(w)
<1>1. batch[w] \in Seq(Waiting) /\ Range(<<>>) = {}
  BY DEF TypeOK, Range
<1>2. ASSUME Discharge(w) PROVE batch'[w] = <<>>
  BY <1>2 DEF Discharge, TypeOK
<1>3. ASSUME Forget(w) PROVE Less
  BY <1>1, <1>2, <1>3 DEF Forget, TypeOK
<1>4. ASSUME NEW place, NEW rest, Then(w, place, rest)
      PROVE  Less \/ (wpc'[w] = place /\ batch'[w] = rest)
  BY <1>3, <1>4 DEF Then, TypeOK
<1>5. CASE Gather(w)
  <2> DEFINE place == IF Last(queue).id \in Poison THEN "bury" ELSE "gather"
             rest == Append(batch[w], Last(queue))
  <2>1. Then(w, place, rest) /\ place \notin {"commit", "cleanup", "drop"}
    BY <1>5 DEF Gather
  <2>2. Last(queue) \in Waiting /\ Last(queue) \in Queued
    <3>1. queue \in Seq(Waiting) /\ queue # <<>>
      BY <1>5 DEF Gather, TypeOK
    <3> QED
      BY <3>1, FrontLastElements DEF Queued
  <2>3. Range(rest) \subseteq Range(batch[w]) \cup Queued
    BY <1>1, <2>2, AppendElements
  <2> HIDE DEF place, rest
  <2> QED
    BY <1>4, <2>1, <2>3
<1>6. CASE Bury(w)
  BY <1>4, <1>6 DEF Bury
<1>7. CASE Discard(w)
  <2>1. batch[w] # <<>>
    BY <1>7 DEF Discard, At, InHand
  <2>2. Range(Front(batch[w])) \subseteq Range(batch[w])
    BY <1>1, <2>1, FrontLastElements
  <2>3. Then(w, "gather", Front(batch[w]))
    BY <1>7 DEF Discard
  <2>4. Less \/ (wpc'[w] = "gather" /\ batch'[w] = Front(batch[w]))
    BY <1>4, <2>3
  <2> QED
    BY <2>2, <2>4
<1>8. CASE Ack(w) \/ Drop(w)
  <2>1. batch[w] # <<>> /\ Counted(w) /\ Then(w, "cleanup", Tail(batch[w]))
    BY <1>8 DEF Ack, Drop, Cleaning, Lrem, At
  <2>2. Range(Tail(batch[w])) \subseteq Range(batch[w])
    BY <1>1, <2>1, TailElements
  <2>3. Less \/ (wpc'[w] = "cleanup" /\ batch'[w] = Tail(batch[w]))
    BY <1>4, <2>1
  <2> QED
    BY <2>1, <2>2, <2>3
<1>9. CASE SendToDlq(w) \/ Requeue(w)
  <2>1. Counted(w) /\ Then(w, "drop", batch[w])
    BY <1>9 DEF SendToDlq, Requeue, Cleaning, At
  <2> QED
    BY <1>4, <2>1
<1>10. CASE Start(w) \/ Recover(w) \/ EndGather(w)
  BY <1>10 DEF Start, Recover, EndGather, At, TypeOK
<1>11. CASE Commit(w) \/ FailRetryable(w) \/ FailFatal(w)
  BY <1>11 DEF Commit, FailRetryable, FailFatal, Return, At, TypeOK
<1>12. CASE EndCleanup(w)
  BY <1>1, <1>2, <1>12 DEF EndCleanup, TypeOK
<1>13. CASE Trouble(w)
  <2>1. CASE Shutdown(w)
    BY <2>1 DEF Shutdown
  <2>2. CASE Crash(w)
    BY <1>1, <1>2, <2>2 DEF Crash, TypeOK
  <2>3. CASE LoopException(w)
    BY <1>3, <2>3 DEF LoopException
  <2> QED
    BY <1>13, <2>1, <2>2, <2>3 DEF Trouble
<1> QED
  BY <1>5, <1>6, <1>7, <1>8, <1>9, <1>10, <1>11, <1>12, <1>13
     DEF WorkerStep, ProcessBatch, CleanUp

(* What a worker has in hand stays earned: a fetch counts an attempt for    *)
(* every job of its batch.                                                  *)
LEMMA BatchEarnedStep == EInv /\ [Next]_vars => BatchEarned'
<1> SUFFICES ASSUME EInv, [Next]_vars, NEW v \in Workers,
                    NEW p \in Range(batch'[v])
             PROVE  Earned(p)' /\ (Counted(v)' => NextEarned(p)')
  BY DEF BatchEarned
<1> USE DEF EInv, IInv
<1>1. ASSUME p \in Range(batch[v]), Counted(v)' => Counted(v)
      PROVE  Earned(p)' /\ (Counted(v)' => NextEarned(p)')
  <2>1. Earned(p) /\ (Counted(v) => NextEarned(p))
    BY <1>1 DEF BatchEarned
  <2>2. p.retry \in Nat
    BY <1>1, EntryTypes, QueueAssumption
  <2> QED
    BY <1>1, <2>1, <2>2, EarnedStep
<1>2. CASE Fetch(v)
  <2>1. batch' = batch
    BY <1>2 DEF Fetch
  <2>2. p \in Range(batch[v]) /\ p.retry \in 0 .. MaxRetries
    BY <2>1, EntryTypes
  <2>3. Earned(p)
    BY <2>2 DEF BatchEarned
  <2>4. Earned(p)'
    BY <2>2, <2>3, EarnedStep, QueueAssumption
  <2>5. NextEarned(p)'
    <3> SUFFICES ASSUME p.id \in Jobs PROVE attempts'[p.id] >= p.retry + 1
      BY DEF NextEarned
    <3>1. p.id \in BatchJobs(v)
      BY <2>2 DEF BatchJobs
    <3>2. attempts'[p.id] = IF attempts[p.id] <= MaxRetries
                            THEN attempts[p.id] + 1 ELSE attempts[p.id]
      BY <1>2, <3>1 DEF Fetch
    <3>3. attempts[p.id] \in Nat /\ attempts[p.id] >= p.retry
      BY <2>3, AttemptsStep DEF Earned
    <3> QED
      BY <2>2, <3>2, <3>3, QueueAssumption
  <2> QED
    BY <2>4, <2>5
<1>3. ASSUME p \in Queued, ~Counted(v)'
      PROVE  Earned(p)' /\ (Counted(v)' => NextEarned(p)')
  <2>1. Earned(p) /\ p.retry \in Nat
    BY <1>3, EntryTypes DEF RetriesEarned, Earned
  <2> QED
    BY <1>3, <2>1, EarnedStep
<1>4. CASE WorkerStep(v) \/ Trouble(v)
  BY <1>1, <1>2, <1>3, <1>4, BatchStep
<1>5. ASSUME wpc'[v] = wpc[v] /\ batch'[v] = batch[v]
      PROVE  Earned(p)' /\ (Counted(v)' => NextEarned(p)')
  BY <1>1, <1>5 DEF Counted
<1>6. ASSUME NEW w \in Workers, w # v, WorkerStep(w) \/ Trouble(w)
      PROVE  wpc'[v] = wpc[v] /\ batch'[v] = batch[v]
  BY <1>6, Frame
<1>7. ASSUME NEW id \in Ids, Enqueue(id)
      PROVE  wpc'[v] = wpc[v] /\ batch'[v] = batch[v]
  BY <1>7 DEF Enqueue, locals
<1>8. CASE UNCHANGED vars
  BY <1>5, <1>8 DEF vars, locals
<1> QED
  BY <1>4, <1>5, <1>6, <1>7, <1>8 DEF Next

(* What comes into a list: a fresh job, an entry of another list, a payload *)
(* in hand, or the next retry of one that is being cleaned up.              *)
LEMMA EntryStep ==
    ASSUME TypeOK, InHand, [Next]_vars, NEW p \in Queued' \cup dlq'
    PROVE  \/ p \in Queued \cup dlq
           \/ p.retry = 0 /\ p.id \in accepted'
           \/ \E w \in Workers :
                 \/ p \in Range(batch[w])
                 \/ /\ At(w, "cleanup") /\ batch[w] # <<>>
                    /\ p.id = Current(w).id /\ p.retry = Current(w).retry + 1
<1> USE DEF lists, database, locals, budget, vars
<1> DEFINE Old == p \in Queued \cup dlq
<1>1. queue \in Seq(Waiting) /\ active \in Seq(Waiting)
  BY DEF TypeOK
<1>2. ASSUME queue' = queue, active' = active, dlq' = dlq PROVE Old
  BY <1>2 DEF Queued
<1>3. ASSUME NEW e, queue' = queue, active' = RemoveFirst(active, e), dlq' = dlq
      PROVE  Old
  BY <1>1, <1>3, RemoveFirstElements DEF Queued
<1>4. ASSUME NEW id \in Ids, Enqueue(id)
      PROVE  Old \/ (p.retry = 0 /\ p.id \in accepted')
  <2> DEFINE new == [id |-> id, retry |-> 0]
  <2>1. new \in Waiting /\ new.retry = 0 /\ new.id = id
    BY QueueAssumption DEF Waiting
  <2>2. /\ queue' = Cons(new, queue) /\ active' = active /\ dlq' = dlq
        /\ id \in accepted'
    BY <1>4 DEF Enqueue
  <2> HIDE DEF new
  <2> QED
    BY <1>1, <2>1, <2>2, ConsElements DEF Queued
<1>5. ASSUME NEW w \in Workers, Recover(w) PROVE Old
  <2>1. CASE active = <<>>
    BY <1>2, <1>5, <2>1 DEF Recover
  <2>2. CASE active # <<>>
    BY <1>1, <1>5, <2>2, MoveElements DEF Recover, Queued
  <2> QED
    BY <2>1, <2>2
<1>6. ASSUME NEW w \in Workers, Gather(w) PROVE Old
  BY <1>1, <1>6, MoveElements DEF Gather, Queued
<1>7. ASSUME NEW w \in Workers, Bury(w) PROVE Old \/ p \in Range(batch[w])
  <2>1. batch[w] \in Seq(Waiting) /\ batch[w] # <<>>
    BY <1>7 DEF Bury, At, InHand, TypeOK
  <2>2. Last(batch[w]) \in Range(batch[w])
    BY ONLY <2>1, LastInRange
  <2> QED
    BY <1>7, <2>2 DEF Bury, Queued
<1>8. ASSUME NEW w \in Workers, Discard(w) PROVE Old
  BY <1>3, <1>8 DEF Discard
<1>9. ASSUME NEW w \in Workers, Ack(w) \/ Drop(w) PROVE Old
  BY <1>3, <1>9 DEF Ack, Drop, Lrem
<1>10. ASSUME NEW w \in Workers, SendToDlq(w)
       PROVE  Old \/ p \in Range(batch[w])
  <2>1. batch[w] \in Seq(Waiting) /\ batch[w] # <<>>
    BY <1>10 DEF SendToDlq, Cleaning, TypeOK
  <2>2. Current(w) \in Range(batch[w])
    BY <2>1, TailElements DEF Current
  <2> QED
    BY <1>10, <2>2 DEF SendToDlq, Queued
<1>11. ASSUME NEW w \in Workers, Requeue(w)
       PROVE  Old \/ /\ At(w, "cleanup") /\ batch[w] # <<>>
                     /\ p.id = Current(w).id /\ p.retry = Current(w).retry + 1
  <2> DEFINE again == [Current(w) EXCEPT !.retry = @ + 1]
  <2>1. At(w, "cleanup") /\ batch[w] # <<>> /\ Current(w) \in Waiting
    BY <1>11 DEF Requeue, Cleaning, Current, TypeOK
  <2>2. /\ again.id = Current(w).id /\ again.retry = Current(w).retry + 1
        /\ again.retry \in Nat
        /\ again.retry <= MaxRetries => again \in Waiting
    BY <2>1, QueueAssumption DEF Waiting
  <2>3. /\ active' = active
        /\ IF again.retry > MaxRetries
           THEN dlq' = dlq \cup {again} /\ UNCHANGED queue
           ELSE queue' = Cons(again, queue) /\ UNCHANGED dlq
    BY <1>11 DEF Requeue
  <2> HIDE DEF again
  <2>4. Old \/ p = again
    BY <1>1, <2>2, <2>3, QueueAssumption, ConsElements DEF Queued
  <2> QED
    BY <2>1, <2>2, <2>4
<1>12. ASSUME NEW w \in Workers,
              \/ Start(w) \/ EndGather(w) \/ Fetch(w) \/ Commit(w)
              \/ FailRetryable(w) \/ FailFatal(w) \/ EndCleanup(w) \/ Trouble(w)
       PROVE  Old
  <2>1. queue' = queue /\ active' = active /\ dlq' = dlq
    BY <1>12 DEF Start, EndGather, Fetch, Commit, FailRetryable, FailFatal,
                 Return, EndCleanup, Trouble, Shutdown, Crash, LoopException
  <2> QED
    BY <1>2, <2>1
<1>13. CASE UNCHANGED vars
  BY <1>2, <1>13
<1> QED
  BY <1>4, <1>5, <1>6, <1>7, <1>8, <1>9, <1>10, <1>11, <1>12, <1>13
     DEF Next, WorkerStep, ProcessBatch, CleanUp

LEMMA RetriesStep == EInv /\ [Next]_vars => RetriesEarned'
<1> SUFFICES ASSUME EInv, [Next]_vars, NEW p \in Queued' \cup dlq',
                    p.id \in Jobs
             PROVE  attempts'[p.id] >= p.retry
  BY DEF RetriesEarned
<1> USE DEF EInv, IInv
<1>1. /\ attempts[p.id] \in Nat /\ attempts'[p.id] \in Nat
      /\ attempts'[p.id] >= attempts[p.id]
  BY AttemptsStep
<1>2. CASE p \in Queued \cup dlq
  BY <1>1, <1>2, EntryTypes DEF RetriesEarned
<1>3. CASE p.retry = 0
  BY <1>1, <1>3
<1>4. ASSUME NEW w \in Workers, p \in Range(batch[w])
      PROVE  attempts'[p.id] >= p.retry
  <2>1. Earned(p) /\ p.retry \in Nat
    BY <1>4, EntryTypes, QueueAssumption DEF BatchEarned
  <2> QED
    BY <1>1, <2>1 DEF Earned
<1>5. ASSUME NEW w \in Workers, At(w, "cleanup"), batch[w] # <<>>,
             p.id = Current(w).id, p.retry = Current(w).retry + 1
      PROVE  attempts'[p.id] >= p.retry
  <2>1. batch[w] \in Seq(Waiting)
    BY DEF TypeOK
  <2>2. Current(w) \in Range(batch[w])
    BY <1>5, <2>1, TailElements DEF Current
  <2>3. NextEarned(Current(w)) /\ Current(w).retry \in Nat
    BY <1>5, <2>2, EntryTypes, QueueAssumption DEF BatchEarned, Counted, At
  <2> QED
    BY <1>1, <1>5, <2>3 DEF NextEarned
<1> QED
  BY <1>2, <1>3, <1>4, <1>5, EntryStep

LEMMA EInvInit == Init => EInv
<1> SUFFICES ASSUME Init PROVE EInv
  OBVIOUS
<1>1. Range(<<>>) = {}
  BY DEF Range
<1> QED
  BY <1>1, IInvInit
     DEF Init, EInv, RetriesEarned, BatchEarned, Queued

(* retry_count never runs ahead of the work: a copy of a job with a count   *)
(* of n, dead letters included, has been handed to process_webhook_batch n  *)
(* times, whoever else took the job meanwhile.                              *)
THEOREM RetriesAreEarned == Spec => []RetriesEarned
<1>1. EInv /\ [Next]_vars => EInv'
  BY IInvStep, RetriesStep, BatchEarnedStep DEF EInv
<1>2. EInv => RetriesEarned
  BY DEF EInv
<1> QED
  BY <1>1, <1>2, EInvInit, PTL DEF Spec

-----------------------------------------------------------------------------
(* Every step of the queue, the workers and their troubles accepts,         *)
(* finishes, releases or replays ids, or changes nothing that the webhook   *)
(* could see.                                                               *)

(* Whatever goes about in the queue, and whatever is done, was accepted.    *)
KnownIds ==
    /\ \A p \in Queued \cup dlq : p.id \in accepted
    /\ processed \subseteq accepted
    /\ \A w \in Workers : \A p \in Range(batch[w]) : p.id \in accepted

(* No id is taken back, and what a batch commits is of the batch. *)
LEMMA HistoryStep ==
    ASSUME [Next]_vars
    PROVE  /\ accepted \subseteq accepted'
           /\ \/ processed' = processed
              \/ \E w \in Workers : processed' = processed \cup Effective(w)
<1> USE DEF lists, database, locals, budget, vars
<1>1. ASSUME NEW id \in Ids, Enqueue(id)
      PROVE  accepted \subseteq accepted' /\ processed' = processed
  BY <1>1 DEF Enqueue
<1>2. ASSUME NEW w \in Workers, Commit(w) \/ FailRetryable(w)
      PROVE  /\ accepted' = accepted
             /\ \/ processed' = processed
                \/ processed' = processed \cup Effective(w)
  BY <1>2 DEF Commit, FailRetryable, WriteBatch, Return
<1>3. ASSUME NEW w \in Workers, WorkerStep(w) \/ Trouble(w),
             ~Commit(w), ~FailRetryable(w)
      PROVE  accepted' = accepted /\ processed' = processed
  BY <1>3 DEF WorkerStep, Trouble, ProcessBatch, CleanUp, Start, Recover,
              Gather, Bury, Discard, EndGather, Fetch, FailFatal, Return, Ack,
              SendToDlq, Requeue, Drop, EndCleanup, Lrem, Shutdown, Crash,
              LoopException
<1>4. CASE UNCHANGED vars
  BY <1>4
<1> QED
  BY <1>1, <1>2, <1>3, <1>4 DEF Next

LEMMA BatchJobsKnown ==
    ASSUME KnownIds, NEW w \in Workers
    PROVE  Effective(w) \subseteq accepted
  BY DEF KnownIds, Effective, BatchJobs

LEMMA KnownStep == IInv /\ KnownIds /\ [Next]_vars => KnownIds'
<1> SUFFICES ASSUME IInv, KnownIds, [Next]_vars PROVE KnownIds'
  OBVIOUS
<1> USE DEF IInv
<1>1. accepted \subseteq accepted'
  BY HistoryStep
<1>2. processed' \subseteq accepted'
  BY <1>1, HistoryStep, BatchJobsKnown DEF KnownIds
<1>3. ASSUME NEW p \in Queued' \cup dlq' PROVE p.id \in accepted'
  <2>1. ASSUME NEW w \in Workers, batch[w] # <<>>, p.id = Current(w).id
        PROVE  p.id \in accepted'
    <3>1. batch[w] \in Seq(Waiting)
      BY DEF TypeOK
    <3>2. Current(w) \in Range(batch[w])
      BY <2>1, <3>1, TailElements DEF Current
    <3> QED
      BY <1>1, <2>1, <3>2 DEF KnownIds
  <2> QED
    BY <1>1, <2>1, EntryStep DEF KnownIds
<1>4. ASSUME NEW v \in Workers, NEW p \in Range(batch'[v])
      PROVE  p.id \in accepted'
  <2>1. CASE WorkerStep(v) \/ Trouble(v)
    <3>1. Range(batch'[v]) \subseteq Range(batch[v]) \cup Queued
      BY <2>1, BatchStep DEF Fetch
    <3> QED
      BY <1>1, <1>4, <3>1 DEF KnownIds
  <2>2. ASSUME batch'[v] = batch[v] PROVE p.id \in accepted'
    BY <1>1, <1>4, <2>2 DEF KnownIds
  <2>3. ASSUME NEW w \in Workers, w # v, WorkerStep(w) \/ Trouble(w)
        PROVE  batch'[v] = batch[v]
    BY <2>3, Frame
  <2>4. ASSUME NEW id \in Ids, Enqueue(id) PROVE batch'[v] = batch[v]
    BY <2>4 DEF Enqueue, locals
  <2>5. CASE UNCHANGED vars
    BY <2>2, <2>5 DEF vars, locals
  <2> QED
    BY <2>1, <2>2, <2>3, <2>4, <2>5 DEF Next
<1> QED
  BY <1>2, <1>3, <1>4 DEF KnownIds

-----------------------------------------------------------------------------
(* The ways in which a step of the queue looks from the outside. *)
Outside == [Promise!Next]_(Promise!vars)

LEMMA Stutters ==
    ASSUME accepted' = accepted, IdsOf(Queued') = IdsOf(Queued),
           Finished' = Finished
    PROVE  Outside
  BY DEF Outside, Promise!vars

LEMMA Finishes ==
    ASSUME NEW S \in SUBSET accepted, Finished' = Finished \cup S,
           accepted' = accepted, IdsOf(Queued') = IdsOf(Queued)
    PROVE  Outside
  BY DEF Outside, Promise!Next, Promise!Finish

(* An LREM: the entry that goes is finished, or another copy of it stays.   *)
LEMMA Releases ==
    ASSUME NEW e, Queued' \subseteq Queued, Queued \subseteq Queued' \cup {e},
           e.id \in Finished \/ \E q \in Queued : q # e /\ q.id = e.id,
           accepted' = accepted, Finished' = Finished
    PROVE  Outside
<1>1. IdsOf(Queued') \subseteq IdsOf(Queued)
  BY DEF IdsOf
<1>2. IdsOf(Queued) \subseteq IdsOf(Queued') \cup {e.id}
  BY DEF IdsOf
<1>3. CASE IdsOf(Queued') = IdsOf(Queued)
  BY <1>3, Stutters
<1>4. CASE IdsOf(Queued') # IdsOf(Queued)
  <2>1. e.id \in IdsOf(Queued) /\ e.id \notin IdsOf(Queued')
    BY <1>1, <1>2, <1>4
  <2>2. \A q \in Queued : q # e => q.id # e.id
    BY <2>1 DEF IdsOf
  <2>3. e.id \in IdsOf(Queued) \cap Finished
    BY <2>1, <2>2
  <2>4. IdsOf(Queued') = IdsOf(Queued) \ {e.id}
    BY <1>1, <1>2, <2>1
  <2> QED
    BY <2>3, <2>4 DEF Outside, Promise!Next, Promise!Release
<1> QED
  BY <1>3, <1>4

(* An LPUSH of a job in hand. *)
LEMMA Replays ==
    ASSUME NEW id \in accepted, IdsOf(Queued') = IdsOf(Queued) \cup {id},
           accepted' = accepted, Finished' = Finished
    PROVE  Outside
<1>1. CASE id \in IdsOf(Queued)
  <2>1. IdsOf(Queued') = IdsOf(Queued)
    BY <1>1
  <2> QED
    BY <2>1, Stutters
<1>2. CASE id \notin IdsOf(Queued)
  BY <1>2 DEF Outside, Promise!Next, Promise!Replay
<1> QED
  BY <1>1, <1>2

LEMMA Simulation ==
    ASSUME IInv, KnownIds, [Next]_vars
    PROVE  Outside
<1> USE DEF IInv, lists, database, locals, budget, vars
<1>1. queue \in Seq(Waiting) /\ active \in Seq(Waiting)
  BY DEF TypeOK
<1>2. ASSUME NEW id \in Ids, Enqueue(id) PROVE Outside
  <2> DEFINE new == [id |-> id, retry |-> 0]
  <2>1. new \in Waiting /\ new.id = id
    BY QueueAssumption DEF Waiting
  <2>2. queue' = Cons(new, queue) /\ active' = active
    BY <1>2 DEF Enqueue
  <2> HIDE DEF new
  <2>3. Queued' = Queued \cup {new}
    BY <1>1, <2>1, <2>2, ConsElements DEF Queued
  <2>4. IdsOf(Queued') = IdsOf(Queued) \cup {id}
    BY <2>1, <2>3 DEF IdsOf
  <2>5. /\ id \notin accepted /\ accepted' = accepted \cup {id}
        /\ Finished' = Finished
    BY <1>2 DEF Enqueue, Finished
  <2> QED
    BY <2>4, <2>5 DEF Outside, Promise!Next, Promise!Accept
<1>3. ASSUME Queued' = Queued, accepted' = accepted, processed' = processed,
             dlq' = dlq
      PROVE  Outside
  <2>1. IdsOf(Queued') = IdsOf(Queued) /\ Finished' = Finished
    BY <1>3 DEF Finished
  <2> QED
    BY <1>3, <2>1, Stutters
<1>4. ASSUME NEW w \in Workers, Recover(w) PROVE Outside
  <2>1. CASE active = <<>>
    BY <1>3, <1>4, <2>1 DEF Recover, Queued
  <2>2. CASE active # <<>>
    <3>1. Queued' = Queued
      BY <1>1, <1>4, <2>2, MoveElements DEF Recover, Queued
    <3> QED
      BY <1>3, <1>4, <3>1 DEF Recover
  <2> QED
    BY <2>1, <2>2
<1>5. ASSUME NEW w \in Workers, Gather(w) PROVE Outside
  <2>1. Queued' = Queued
    BY <1>1, <1>5, MoveElements DEF Gather, Queued
  <2> QED
    BY <1>3, <1>5, <2>1 DEF Gather
\* A dead letter: its id is finished.
<1>6. ASSUME NEW p, p.id \in accepted, dlq' = dlq \cup {p},
             queue' = queue, active' = active, accepted' = accepted,
             processed' = processed
      PROVE  Outside
  <2>1. Finished' = Finished \cup {p.id}
    BY <1>6 DEF Finished, IdsOf
  <2>2. IdsOf(Queued') = IdsOf(Queued) /\ {p.id} \in SUBSET accepted
    BY <1>6 DEF Queued
  <2> QED
    BY <1>6, <2>1, <2>2, Finishes
<1>7. ASSUME NEW w \in Workers, batch[w] # <<>>
      PROVE  /\ Last(batch[w]).id \in accepted /\ Current(w).id \in accepted
             /\ Current(w) \in Waiting
  <2>1. batch[w] \in Seq(Waiting) /\ batch[w] # <<>>
    BY <1>7 DEF TypeOK
  <2>2. Last(batch[w]) \in Range(batch[w])
    BY ONLY <2>1, LastInRange
  <2>3. Current(w) \in Range(batch[w])
    BY ONLY <2>1, TailElements DEF Current
  <2> QED
    BY <2>2, <2>3, EntryTypes DEF KnownIds
<1>8. ASSUME NEW w \in Workers, Bury(w) PROVE Outside
  <2>1. Last(batch[w]).id \in accepted
    BY <1>7, <1>8 DEF Bury, At, InHand
  <2> QED
    BY <1>6, <1>8, <2>1 DEF Bury
<1>9. ASSUME NEW w \in Workers, SendToDlq(w) PROVE Outside
  <2>1. Current(w).id \in accepted
    BY <1>7, <1>9 DEF SendToDlq, Cleaning
  <2> QED
    BY <1>6, <1>9, <2>1 DEF SendToDlq
<1>10. ASSUME NEW w \in Workers, Requeue(w) PROVE Outside
  <2> DEFINE again == [Current(w) EXCEPT !.retry = @ + 1]
  <2>1. Current(w) \in Waiting /\ Current(w).id \in accepted
    BY <1>7, <1>10 DEF Requeue, Cleaning
  <2>2. /\ again.id \in accepted /\ again.retry \in Nat
        /\ again.retry <= MaxRetries => again \in Waiting
    BY <2>1, QueueAssumption DEF Waiting
  <2>3. /\ UNCHANGED <<active, accepted, processed>>
        /\ IF again.retry > MaxRetries
           THEN dlq' = dlq \cup {again} /\ UNCHANGED queue
           ELSE queue' = Cons(again, queue) /\ UNCHANGED dlq
    BY <1>10 DEF Requeue
  <2> HIDE DEF again
  <2>4. CASE again.retry > MaxRetries
    BY <1>6, <2>2, <2>3, <2>4
  <2>5. CASE ~(again.retry > MaxRetries)
    <3>1. again \in Waiting
      BY <2>2, <2>5, QueueAssumption
    <3>2. Queued' = Queued \cup {again}
      BY <1>1, <2>3, <2>5, <3>1, ConsElements DEF Queued
    <3>3. IdsOf(Queued') = IdsOf(Queued) \cup {again.id}
      BY <3>2 DEF IdsOf
    <3>4. accepted' = accepted /\ Finished' = Finished
      BY <2>3, <2>5 DEF Finished
    <3> QED
      BY <2>2, <3>3, <3>4, Replays
  <2> QED
    BY <2>4, <2>5
\* An LREM.
<1>11. ASSUME NEW e, queue' = queue, active' = RemoveFirst(active, e),
              e.id \in Finished \/ \E q \in Queued : q # e /\ q.id = e.id,
              accepted' = accepted, dlq' = dlq, processed' = processed
       PROVE  Outside
  <2>1. Queued' \subseteq Queued /\ Queued \subseteq Queued' \cup {e}
    BY <1>1, <1>11, RemoveFirstElements DEF Queued
  <2>2. Finished' = Finished
    BY <1>11 DEF Finished
  <2> QED
    BY <1>11, <2>1, <2>2, Releases
<1>12. ASSUME NEW w \in Workers, Discard(w) PROVE Outside
  <2>1. Last(batch[w]).id \in Finished
    BY <1>12 DEF Discard, At, DiscardCovered
  <2> QED
    BY <1>11, <1>12, <2>1 DEF Discard
<1>13. ASSUME NEW w \in Workers, Ack(w) PROVE Outside
  <2>1. Current(w).id \in Finished
    BY <1>13 DEF SuccessCommitted, Ack, Verdict, Finished
  <2> QED
    BY <1>11, <1>13, <2>1 DEF Ack, Lrem
<1>14. ASSUME NEW w \in Workers, Drop(w) PROVE Outside
  <2>1. /\ Held(Current(w).id, Current(w).retry + 1)
        /\ Current(w) \in Waiting
    BY <1>7, <1>14 DEF DropCovered, Drop, Cleaning, At
  <2>2. ASSUME NEW q \in Queued, q.retry >= Current(w).retry + 1
        PROVE  q # Current(w)
    BY <2>1, <2>2, QueueAssumption DEF Waiting
  <2>3. \/ Current(w).id \in Finished
        \/ \E q \in Queued : q # Current(w) /\ q.id = Current(w).id
    BY <2>1, <2>2 DEF Held
  <2> QED
    BY <1>11, <1>14, <2>3 DEF Drop, Lrem
<1>15. ASSUME NEW w \in Workers, Commit(w) \/ FailRetryable(w) PROVE Outside
  <2>1. UNCHANGED <<queue, active, dlq, accepted>>
    BY <1>15 DEF Commit, FailRetryable, Return
  <2>2. CASE processed' = processed
    BY <1>3, <2>1, <2>2 DEF Queued
  <2>3. CASE processed' = processed \cup Effective(w)
    <3>1. Effective(w) \in SUBSET accepted
      BY BatchJobsKnown
    <3>2. /\ Finished' = Finished \cup Effective(w)
          /\ IdsOf(Queued') = IdsOf(Queued)
      BY <2>1, <2>3 DEF Finished, Queued
    <3> QED
      BY <2>1, <3>1, <3>2, Finishes
  <2> QED
    BY <1>15, <2>2, <2>3 DEF Commit, FailRetryable, WriteBatch
<1>16. ASSUME NEW w \in Workers,
              \/ Start(w) \/ EndGather(w) \/ Fetch(w) \/ FailFatal(w)
              \/ EndCleanup(w) \/ Trouble(w)
       PROVE  Outside
  <2>1. UNCHANGED <<queue, active, dlq, accepted, processed>>
    BY <1>16 DEF Start, EndGather, Fetch, FailFatal, Return, EndCleanup,
                 Trouble, Shutdown, Crash, LoopException
  <2> QED
    BY <1>3, <2>1 DEF Queued
<1>17. CASE UNCHANGED vars
  BY <1>3, <1>17 DEF Queued
<1> QED
  BY <1>2, <1>4, <1>5, <1>8, <1>9, <1>10, <1>12, <1>13, <1>14, <1>15, <1>16,
     <1>17 DEF Next, WorkerStep, ProcessBatch, CleanUp

LEMMA KnownInit == Init => KnownIds /\ Promise!Init
<1> SUFFICES ASSUME Init PROVE KnownIds /\ Promise!Init
  OBVIOUS
<1>1. Range(<<>>) = {}
  BY DEF Range
<1> QED
  BY <1>1 DEF Init, KnownIds, Promise!Init, Queued, Finished, IdsOf

(* The queue keeps its promise to the webhook: with any number of workers,  *)
(* crashes and lost replies, an accepted job is pending until its effects   *)
(* are committed or it is a dead letter, and only then is it let go.        *)
THEOREM Refinement == Spec => AtLeastOnceSpec
<1>1. IInv /\ KnownIds /\ [Next]_vars => KnownIds' /\ Outside
  BY KnownStep, Simulation
<1>2. Spec => Promise!Init
  BY KnownInit DEF Spec
<1>3. Spec => [][Promise!Next]_(Promise!vars)
  BY <1>1, KnownInit, Invariance, PTL DEF Spec, Outside
<1> QED
  BY <1>2, <1>3 DEF AtLeastOnceSpec, Promise!Spec

-----------------------------------------------------------------------------
(* With one worker, as it is deployed, the effects of a job are committed   *)
(* once, however often the job is replayed.                                 *)

(* An effect is never without its processed flag, which the same            *)
(* transaction writes, ...                                                  *)
EffectsFlagged ==
    \A j \in Jobs : effects[j] <= 1 /\ (effects[j] = 1 => j \in processed)

(* ... and the flags of a batch are still as they were read when it is      *)
(* committed: nobody else commits.                                          *)
SeenCurrent ==
    \A w \in Workers :
        wpc[w] = "commit" => BatchJobs(w) \cap processed \subseteq seen[w]

SInv == IInv /\ EffectsFlagged /\ SeenCurrent

(* The ends of process_webhook_batch are the only steps that write. *)
LEMMA DatabaseStep ==
    ASSUME [Next]_vars
    PROVE  \/ UNCHANGED database
           \/ \E w \in Workers : /\ Commit(w) \/ FailRetryable(w)
                                 /\ WriteBatch(w)
<1> USE DEF lists, database, locals, budget, vars
<1>1. ASSUME NEW id \in Ids, Enqueue(id) PROVE UNCHANGED database
  BY <1>1 DEF Enqueue
<1>2. ASSUME NEW w \in Workers, Commit(w) \/ FailRetryable(w)
      PROVE  WriteBatch(w) \/ UNCHANGED database
  BY <1>2 DEF Commit, FailRetryable
<1>3. ASSUME NEW w \in Workers, WorkerStep(w) \/ Trouble(w),
             ~Commit(w), ~FailRetryable(w)
      PROVE  UNCHANGED database
  BY <1>3 DEF WorkerStep, Trouble, ProcessBatch, CleanUp, Start, Recover,
              Gather, Bury, Discard, EndGather, Fetch, FailFatal, Return, Ack,
              SendToDlq, Requeue, Drop, EndCleanup, Lrem, Shutdown, Crash,
              LoopException
<1>4. CASE UNCHANGED vars
  BY <1>4
<1> QED
  BY <1>1, <1>2, <1>3, <1>4 DEF Next

(* A worker comes to the commit by a fetch, with the batch it fetched. *)
LEMMA CommitPlace ==
    ASSUME NEW w \in Workers, TypeOK, WorkerStep(w) \/ Trouble(w),
           wpc'[w] = "commit"
    PROVE  \/ Fetch(w)
           \/ Shutdown(w) /\ wpc[w] = "commit"
<1> USE DEF lists, database, locals, budget, Goto
<1>1. ASSUME Forget(w) PROVE FALSE
  BY <1>1 DEF Forget, TypeOK
<1>2. ASSUME NEW place, NEW rest, place # "commit", Then(w, place, rest)
      PROVE  FALSE
  BY <1>1, <1>2 DEF Then, TypeOK
<1>3. CASE Gather(w)
  <2> DEFINE place == IF Last(queue).id \in Poison THEN "bury" ELSE "gather"
             rest == Append(batch[w], Last(queue))
  <2>1. Then(w, place, rest) /\ place # "commit"
    BY <1>3 DEF Gather
  <2> HIDE DEF place, rest
  <2> QED
    BY <1>2, <2>1
<1>4. CASE Bury(w) \/ Discard(w) \/ Ack(w) \/ SendToDlq(w) \/ Requeue(w)
             \/ Drop(w)
  BY <1>2, <1>4 DEF Bury, Discard, Ack, SendToDlq, Requeue, Drop, Lrem
<1>5. CASE Start(w) \/ Recover(w) \/ EndGather(w) \/ EndCleanup(w)
  BY <1>5 DEF Start, Recover, EndGather, EndCleanup, At, TypeOK
<1>6. CASE Commit(w) \/ FailRetryable(w) \/ FailFatal(w)
  BY <1>6 DEF Commit, FailRetryable, FailFatal, Return, TypeOK
<1>7. CASE Trouble(w)
  BY <1>1, <1>7 DEF Trouble, Shutdown, Crash, LoopException, TypeOK
<1> QED
  BY <1>3, <1>4, <1>5, <1>6, <1>7 DEF WorkerStep, ProcessBatch, CleanUp

(* A commit adds an effect only to jobs that had none. *)
LEMMA EffectsStep == SInv /\ [Next]_vars => EffectsFlagged'
<1> SUFFICES ASSUME SInv, [Next]_vars PROVE EffectsFlagged'
  OBVIOUS
<1> USE DEF SInv, IInv
<1>1. CASE UNCHANGED database
  BY <1>1 DEF EffectsFlagged, database
<1>2. ASSUME NEW w \in Workers, wpc[w] = "commit", WriteBatch(w)
      PROVE  EffectsFlagged'
  <2> SUFFICES ASSUME NEW j \in Jobs
               PROVE  effects'[j] <= 1 /\ (effects'[j] = 1 => j \in processed')
    BY DEF EffectsFlagged
  <2>1. /\ processed' = processed \cup Effective(w)
        /\ effects'[j] = IF j \in Effective(w) /\ effects[j] < 2
                         THEN effects[j] + 1 ELSE effects[j]
    BY <1>2 DEF WriteBatch
  <2>2. /\ effects[j] \in 0 .. 2 /\ effects[j] <= 1
        /\ effects[j] = 1 => j \in processed
    BY DEF EffectsFlagged, TypeOK
  <2>3. j \in Effective(w) => j \notin processed
    BY <1>2 DEF Effective, SeenCurrent
  <2> QED
    BY <2>1, <2>2, <2>3
<1> QED
  BY <1>1, <1>2, DatabaseStep DEF Commit, FailRetryable, At

LEMMA SeenStep ==
    ASSUME NEW u, Workers = {u}, SInv, [Next]_vars
    PROVE  SeenCurrent'
<1> SUFFICES ASSUME wpc'[u] = "commit"
             PROVE  BatchJobs(u)' \cap processed' \subseteq seen'[u]
  BY DEF SeenCurrent
<1> USE DEF SInv, IInv, lists, database, locals, budget, vars
<1>1. ASSUME wpc[u] = "commit", batch' = batch, processed' = processed,
             seen' = seen
      PROVE  BatchJobs(u)' \cap processed' \subseteq seen'[u]
  BY <1>1 DEF SeenCurrent, BatchJobs
<1>2. CASE Fetch(u)
  BY <1>2 DEF Fetch, BatchJobs, TypeOK
<1>3. CASE Shutdown(u) /\ wpc[u] = "commit"
  BY <1>1, <1>3 DEF Shutdown
<1>4. ASSUME NEW id \in Ids, Enqueue(id)
      PROVE  BatchJobs(u)' \cap processed' \subseteq seen'[u]
  BY <1>1, <1>4 DEF Enqueue
<1>5. CASE UNCHANGED vars
  BY <1>1, <1>5
<1> QED
  BY <1>2, <1>3, <1>4, <1>5, CommitPlace DEF Next

LEMMA SInvInit == Init => SInv
  BY IInvInit, QueueAssumption DEF Init, SInv, EffectsFlagged, SeenCurrent

(* With a single worker a job takes effect at most once, whatever crashes,  *)
(* replays and lost replies there are.  (With two the flag may be stale     *)
(* when it is used.)                                                        *)
THEOREM OnceWithOneWorker ==
    ASSUME NEW u, Workers = {u}
    PROVE  Spec => []EffectsAtMostOnce
<1>1. SInv /\ [Next]_vars => SInv'
  BY IInvStep, EffectsStep, SeenStep DEF SInv
<1>2. SInv => EffectsAtMostOnce
  BY DEF SInv, EffectsFlagged, EffectsAtMostOnce
<1> QED
  BY <1>1, <1>2, SInvInit, PTL DEF Spec

-----------------------------------------------------------------------------
(* With one worker and without trouble the active list is the batch, and    *)
(* the clean-up removes the entries it means.                               *)

(* A list names an id once. *)
Once(list) == \A i, k \in DOMAIN list : list[i].id = list[k].id => i = k

(* The batch is in the active list backwards; every id is in one place of   *)
(* the queue or the batch, but for the copy that a drop is about to remove; *)
(* a worker that is down has no batch.                                      *)
Mirror(waiting, taken, own, place) ==
    /\ Len(taken) = Len(own)
    /\ \A i \in 1 .. Len(own) : taken[i] = own[Len(own) - i + 1]
    /\ place \in {"down", "recover"} => own = <<>>
    /\ Once(waiting) /\ Once(own)
    /\ \A i \in DOMAIN waiting : \A k \in DOMAIN own :
         waiting[i].id = own[k].id => place = "drop" /\ k = 1

Mirrored ==
    crashes = 0 /\ faults = 0 =>
        \A w \in Workers : Mirror(queue, active, batch[w], wpc[w])

(* LREM takes out the first occurrence: what is before and behind it stays. *)
LEMMA RemoveFirstPlaces ==
    ASSUME NEW S, NEW s \in Seq(S), NEW k \in 1 .. Len(s),
           \A i \in 1 .. k - 1 : s[i] # s[k]
    PROVE  /\ Len(RemoveFirst(s, s[k])) = Len(s) - 1
           /\ \A i \in 1 .. Len(s) - 1 :
                RemoveFirst(s, s[k])[i] = IF i < k THEN s[i] ELSE s[i + 1]
<1> DEFINE e == s[k]
           I == {i \in 1 .. Len(s) : s[i] = e}
<1>1. k \in I /\ I \in SUBSET Nat
  OBVIOUS
<1>2. Min(I) = k
  <2>1. Min(I) \in I
    BY <1>1, MinInSet
  <2>2. \A y \in I : Min(I) =< y
    <3>1. \A i \in I : k =< i
      OBVIOUS
    <3>2. \E x \in I : \A y \in I : x =< y
      BY <1>1, <3>1
    <3> HIDE DEF I
    <3> QED
      BY <3>2 DEF Min
  <2> QED
    BY <1>1, <2>1, <2>2
<1>3. RemoveFirst(s, e) = RemoveAt(s, k)
  <2>1. SelectInSeq(s, LAMBDA v : v = e) = IF I # {} THEN Min(I) ELSE 0
    BY DEF SelectInSeq
  <2>2. SelectInSeq(s, LAMBDA v : v = e) = k
    BY <1>1, <1>2, <2>1
  <2> QED
    BY <1>1, <2>2 DEF RemoveFirst
<1> DEFINE a == SubSeq(s, 1, k - 1)
           b == SubSeq(s, k + 1, Len(s))
<1>4. /\ a \in Seq(S) /\ Len(a) = k - 1
      /\ \A i \in 1 .. k - 1 : a[i] = s[i]
  <2>1. \A i \in 1 .. k - 1 : s[i] \in S
    OBVIOUS
  <2> QED
    BY <2>1, SubSeqProperties
<1>5. /\ b \in Seq(S) /\ Len(b) = Len(s) - k
      /\ \A i \in 1 .. Len(s) - k : b[i] = s[k + i]
  <2>1. \A i \in k + 1 .. Len(s) : s[i] \in S
    OBVIOUS
  <2>2. k + 1 \in Int /\ Len(s) \in Int /\ Len(s) >= k
    OBVIOUS
  <2> QED
    BY <2>1, <2>2, SubSeqProperties
<1>6. RemoveAt(s, k) = a \o b
  BY DEF RemoveAt
<1> HIDE DEF a, b
<1>7. /\ Len(a \o b) = Len(a) + Len(b)
      /\ \A i \in 1 .. Len(a) + Len(b) :
           (a \o b)[i] = IF i <= Len(a) THEN a[i] ELSE b[i - Len(a)]
  BY <1>4, <1>5, ConcatProperties
<1>8. ASSUME NEW i \in 1 .. Len(s) - 1
      PROVE  (a \o b)[i] = IF i < k THEN s[i] ELSE s[i + 1]
  <2>1. CASE i < k
    BY <1>4, <1>5, <1>7, <2>1
  <2>2. CASE ~(i < k)
    <3>1. i - (k - 1) \in 1 .. Len(s) - k /\ k + (i - (k - 1)) = i + 1
      BY <2>2
    <3>2. i \in 1 .. Len(a) + Len(b) /\ ~(i <= Len(a)) /\ Len(a) = k - 1
      BY <1>4, <1>5, <2>2
    <3>3. (a \o b)[i] = b[i - (k - 1)]
      BY <1>7, <3>2
    <3>4. b[i - (k - 1)] = s[i + 1]
      <4> DEFINE j == i - (k - 1)
      <4>1. j \in 1 .. Len(s) - k /\ k + j = i + 1
        BY <3>1
      <4> HIDE DEF j
      <4>2. b[j] = s[k + j]
        BY <1>5, <4>1
      <4> QED
        BY <4>1, <4>2 DEF j
    <3> QED
      BY <2>2, <3>3, <3>4
  <2> QED
    BY <2>1, <2>2
<1>9. RemoveFirst(s, s[k]) = a \o b
  BY <1>3, <1>6
<1>10. Len(a \o b) = Len(s) - 1
  BY <1>4, <1>5, <1>7
<1> HIDE DEF e, I
<1> QED
  BY <1>8, <1>9, <1>10

(* LPUSH puts an entry before the others, RPOP takes the last. *)
LEMMA ConsPlaces ==
    ASSUME NEW S, NEW s \in Seq(S), NEW x \in S
    PROVE  /\ Cons(x, s) \in Seq(S) /\ Len(Cons(x, s)) = Len(s) + 1
           /\ DOMAIN Cons(x, s) = 1 .. Len(s) + 1
           /\ Cons(x, s)[1] = x
           /\ \A i \in DOMAIN Cons(x, s) :
                i # 1 => i - 1 \in DOMAIN s /\ Cons(x, s)[i] = s[i - 1]
<1> DEFINE one == <<x>>
           c == one \o s
<1>1. one \in Seq(S) /\ Len(one) = 1 /\ one[1] = x
  OBVIOUS
<1> HIDE DEF one
<1>2. /\ one \o s \in Seq(S) /\ Len(one \o s) = Len(one) + Len(s)
      /\ \A i \in 1 .. Len(one) + Len(s) :
           (one \o s)[i] = IF i <= Len(one) THEN one[i] ELSE s[i - Len(one)]
  BY <1>1, ConcatProperties
<1> HIDE DEF c
<1>3. c \in Seq(S) /\ Len(c) = Len(s) + 1 /\ Len(s) \in Nat
  BY <1>1, <1>2 DEF c
<1>4. DOMAIN c = 1 .. Len(s) + 1 /\ DOMAIN s = 1 .. Len(s)
  BY <1>3
<1>5. \A i \in 1 .. Len(s) + 1 : c[i] = IF i <= 1 THEN one[i] ELSE s[i - 1]
  BY <1>1, <1>2, <1>3 DEF c
<1>6. c[1] = x
  BY <1>1, <1>3, <1>5
<1>7. \A i \in DOMAIN c : i # 1 => i - 1 \in DOMAIN s /\ c[i] = s[i - 1]
  BY <1>3, <1>4, <1>5
<1>8. Cons(x, s) = c
  BY DEF Cons, c, one
<1> QED
  BY <1>3, <1>4, <1>6, <1>7, <1>8

LEMMA FrontPlaces ==
    ASSUME NEW S, NEW s \in Seq(S), s # <<>>
    PROVE  /\ Front(s) \in Seq(S) /\ Len(Front(s)) = Len(s) - 1
           /\ \A i \in 1 .. Len(s) - 1 : Front(s)[i] = s[i]
<1>1. Len(s) \in Nat \ {0}
  OBVIOUS
<1>2. \A i \in 1 .. Len(s) - 1 : s[i] \in S
  BY <1>1
<1> DEFINE n == Len(s) - 1
           f == SubSeq(s, 1, n)
<1>3. n \in Nat
  BY <1>1
<1>4. \A i \in 1 .. n : s[i] \in S
  BY <1>2
<1> HIDE DEF n
<1>5. /\ f \in Seq(S)
      /\ Len(f) = IF 1 <= n THEN n - 1 + 1 ELSE 0
      /\ \A i \in 1 .. n - 1 + 1 : f[i] = s[1 + i - 1]
  BY <1>3, <1>4, SubSeqProperties
<1> HIDE DEF f
<1>6. f \in Seq(S) /\ Len(f) = n /\ \A i \in 1 .. n : f[i] = s[i]
  BY <1>3, <1>5
<1>7. Front(s) = f
  BY DEF Front, f, n
<1> QED
  BY <1>6, <1>7 DEF n

LEMMA TailPlaces ==
    ASSUME NEW S, NEW s \in Seq(S), s # <<>>
    PROVE  /\ Tail(s) \in Seq(S) /\ Len(Tail(s)) = Len(s) - 1
           /\ \A i \in 1 .. Len(s) - 1 : Tail(s)[i] = s[i + 1]
  OBVIOUS

LEMMA AppendPlaces ==
    ASSUME NEW S, NEW s \in Seq(S), NEW x \in S
    PROVE  /\ Append(s, x) \in Seq(S) /\ Len(Append(s, x)) = Len(s) + 1
           /\ Append(s, x)[Len(s) + 1] = x
           /\ \A i \in 1 .. Len(s) : Append(s, x)[i] = s[i]
  OBVIOUS

(* A part of a list names an id once if the list does, *)
LEMMA OncePart ==
    ASSUME NEW s, Once(s), NEW t, NEW d \in Nat,
           \A i \in DOMAIN t : i \in Nat /\ i + d \in DOMAIN s /\ t[i] = s[i + d]
    PROVE  Once(t)
<1> SUFFICES ASSUME NEW i \in DOMAIN t, NEW k \in DOMAIN t, t[i].id = t[k].id
             PROVE  i = k
  BY DEF Once
<1>1. i + d \in DOMAIN s /\ k + d \in DOMAIN s /\ s[i + d].id = s[k + d].id
  OBVIOUS
<1>2. i + d = k + d
  BY <1>1 DEF Once
<1> QED
  BY <1>2

(* and so does the list with an entry of another id at the end or in front. *)
LEMMA OnceAppend ==
    ASSUME NEW s, Once(s), NEW t, NEW n,
           \A i \in DOMAIN t : i # n => i \in DOMAIN s /\ t[i] = s[i],
           \A k \in DOMAIN s : s[k].id # t[n].id
    PROVE  Once(t)
<1> SUFFICES ASSUME NEW i \in DOMAIN t, NEW k \in DOMAIN t, t[i].id = t[k].id
             PROVE  i = k
  BY DEF Once
<1>1. CASE i # n /\ k # n
  BY <1>1 DEF Once
<1>2. CASE i = n \/ k = n
  BY <1>2
<1> QED
  BY <1>1, <1>2

LEMMA OnceCons ==
    ASSUME NEW s, Once(s), NEW t, DOMAIN t \subseteq Int,
           \A i \in DOMAIN t : i # 1 => i - 1 \in DOMAIN s /\ t[i] = s[i - 1],
           \A k \in DOMAIN s : s[k].id # t[1].id
    PROVE  Once(t)
<1> SUFFICES ASSUME NEW i \in DOMAIN t, NEW k \in DOMAIN t, t[i].id = t[k].id
             PROVE  i = k
  BY DEF Once
<1>1. CASE i # 1 /\ k # 1
  <2>1. s[i - 1].id = s[k - 1].id /\ i - 1 \in DOMAIN s /\ k - 1 \in DOMAIN s
    BY <1>1
  <2>2. i - 1 = k - 1
    BY <2>1 DEF Once
  <2> QED
    BY <2>2
<1>2. CASE i = 1 \/ k = 1
  BY <1>2
<1> QED
  BY <1>1, <1>2

(* While nothing goes wrong a command leads to its place. *)
LEMMA CalmThen ==
    ASSUME TypeOK, NEW u \in Workers, NEW place, NEW rest, Then(u, place, rest),
           faults' = 0
    PROVE  wpc'[u] = place /\ batch'[u] = rest
<1>1. faults \in Nat
  BY DEF TypeOK
<1>2. ~Forget(u)
  BY <1>1 DEF Forget
<1> QED
  BY <1>2 DEF Then, Goto, TypeOK

(* Trouble is not forgotten. *)
LEMMA CalmBefore ==
    ASSUME TypeOK, [Next]_vars, crashes' = 0, faults' = 0
    PROVE  crashes = 0 /\ faults = 0
<1> USE DEF lists, database, locals, budget, vars
<1>1. crashes \in Nat /\ faults \in Nat
  BY DEF TypeOK
<1>2. ASSUME NEW w \in Workers, Forget(w) PROVE FALSE
  BY <1>1, <1>2 DEF Forget
<1>3. ASSUME NEW w \in Workers, NEW place, NEW rest, Then(w, place, rest)
      PROVE  crashes = 0 /\ faults = 0
  BY <1>2, <1>3 DEF Then
<1>4. ASSUME NEW w \in Workers, WorkerStep(w) PROVE crashes = 0 /\ faults = 0
  <2>1. CASE Gather(w)
    <3> DEFINE place == IF Last(queue).id \in Poison THEN "bury" ELSE "gather"
               rest == Append(batch[w], Last(queue))
    <3>1. Then(w, place, rest)
      BY <2>1 DEF Gather
    <3> HIDE DEF place, rest
    <3> QED
      BY <1>3, <3>1
  <2>2. CASE Bury(w) \/ Discard(w) \/ Ack(w) \/ SendToDlq(w) \/ Requeue(w) \/ Drop(w)
    BY <1>3, <2>2 DEF Bury, Discard, Ack, SendToDlq, Requeue, Drop, Lrem
  <2>3. CASE \/ Start(w) \/ Recover(w) \/ EndGather(w) \/ EndCleanup(w) \/ Fetch(w)
             \/ Commit(w) \/ FailRetryable(w) \/ FailFatal(w)
    BY <2>3 DEF Start, Recover, EndGather, EndCleanup, Fetch, Commit, FailRetryable,
                FailFatal, Return
  <2> QED
    BY <1>4, <2>1, <2>2, <2>3 DEF WorkerStep, ProcessBatch, CleanUp
<1>5. ASSUME NEW w \in Workers, Trouble(w) PROVE crashes = 0 /\ faults = 0
  BY <1>1, <1>2, <1>5 DEF Trouble, Shutdown, Crash, LoopException
<1>6. ASSUME NEW id \in Ids, Enqueue(id) PROVE crashes = 0 /\ faults = 0
  BY <1>6 DEF Enqueue
<1>7. CASE UNCHANGED vars
  BY <1>7
<1> QED
  BY <1>4, <1>5, <1>6, <1>7 DEF Next
(* What a fresh job, a move of the worker, ... *)
LEMMA MirrorEnqueue ==
    ASSUME NEW q \in Seq(Waiting), NEW a \in Seq(Waiting), NEW b \in Seq(Waiting), NEW p,
           Mirror(q, a, b, p), NEW x \in Waiting,
           \A i \in DOMAIN q : q[i].id # x.id, \A k \in DOMAIN b : b[k].id # x.id
    PROVE  Mirror(Cons(x, q), a, b, p)
<1> DEFINE c == Cons(x, q)
<1>1. /\ DOMAIN c = 1 .. Len(q) + 1 /\ c[1] = x
      /\ \A i \in DOMAIN c : i # 1 => i - 1 \in DOMAIN q /\ c[i] = q[i - 1]
  BY ConsPlaces
<1> HIDE DEF c
<1>2. Once(q) /\ \A i \in DOMAIN q : \A k \in DOMAIN b :
                    q[i].id = b[k].id => p = "drop" /\ k = 1
  BY DEF Mirror
<1>3. Once(c)
  <2>1. DOMAIN c \subseteq Int
    BY <1>1
  <2>2. \A k \in DOMAIN q : q[k].id # c[1].id
    BY <1>1
  <2> QED
    BY <1>1, <1>2, <2>1, <2>2, OnceCons
<1>4. \A i \in DOMAIN c : \A k \in DOMAIN b :
        c[i].id = b[k].id => p = "drop" /\ k = 1
  BY <1>1, <1>2
<1>5. Mirror(c, a, b, p)
  BY <1>3, <1>4 DEF Mirror
<1> QED
  BY <1>5 DEF c

LEMMA MirrorMove ==
    ASSUME NEW q, NEW a, NEW b, NEW p, Mirror(q, a, b, p),
           NEW to, to \in {"down", "recover"} => b = <<>>, p = "drop" => to = "drop"
    PROVE  Mirror(q, a, b, to)
  BY DEF Mirror

(* ... a BRPOPLPUSH, ... *)
LEMMA MirrorGather ==
    ASSUME NEW q \in Seq(Waiting), NEW a \in Seq(Waiting), NEW b \in Seq(Waiting),
           Mirror(q, a, b, "gather"), q # <<>>, NEW to \in {"gather", "bury"}
    PROVE  Mirror(Front(q), Cons(Last(q), a), Append(b, Last(q)), to)
<1> DEFINE x == Last(q)
           f == Front(q)
           c == Cons(x, a)
           d == Append(b, x)
<1>1. Len(q) \in Nat \ {0} /\ DOMAIN q = 1 .. Len(q)
  OBVIOUS
<1>2. x = q[Len(q)] /\ x \in Waiting
  BY <1>1 DEF Last
<1>3. f \in Seq(Waiting) /\ Len(f) = Len(q) - 1 /\ \A i \in 1 .. Len(q) - 1 : f[i] = q[i]
  BY FrontPlaces
<1> HIDE DEF x
<1>4. /\ Len(c) = Len(a) + 1 /\ c[1] = x /\ DOMAIN c = 1 .. Len(a) + 1
      /\ \A i \in DOMAIN c : i # 1 => i - 1 \in DOMAIN a /\ c[i] = a[i - 1]
  <2> HIDE DEF f, d
  <2>1. ASSUME NEW y \in Waiting
        PROVE  /\ Len(Cons(y, a)) = Len(a) + 1 /\ Cons(y, a)[1] = y
               /\ DOMAIN Cons(y, a) = 1 .. Len(a) + 1
               /\ \A i \in DOMAIN Cons(y, a) :
                    i # 1 => i - 1 \in DOMAIN a /\ Cons(y, a)[i] = a[i - 1]
    BY ConsPlaces
  <2> QED
    BY <1>2, <2>1
<1>5. /\ d \in Seq(Waiting) /\ Len(d) = Len(b) + 1 /\ d[Len(b) + 1] = x
      /\ \A i \in 1 .. Len(b) : d[i] = b[i]
  BY <1>2, AppendPlaces
<1> HIDE DEF f, c, d
<1>6. /\ DOMAIN f = 1 .. Len(q) - 1 /\ DOMAIN d = 1 .. Len(b) + 1
      /\ DOMAIN b = 1 .. Len(b) /\ Len(b) \in Nat /\ Len(a) = Len(b)
  BY <1>3, <1>5 DEF Mirror
<1>7. Once(q) /\ Once(b) /\ \A i \in DOMAIN q : \A k \in DOMAIN b : q[i].id # b[k].id
  BY DEF Mirror
<1>8. ASSUME NEW i \in 1 .. Len(d) PROVE c[i] = d[Len(d) - i + 1]
  <2>1. CASE i = 1
    BY <1>4, <1>5, <1>6, <2>1
  <2>2. CASE i # 1
    <3>1. i \in DOMAIN c
      BY <1>4, <1>5, <1>6
    <3>2. i - 1 \in 1 .. Len(b) /\ c[i] = a[i - 1]
      BY <1>4, <1>5, <1>6, <2>2, <3>1
    <3>3. a[i - 1] = b[Len(b) - (i - 1) + 1]
      BY <3>2 DEF Mirror
    <3>4. Len(b) - (i - 1) + 1 \in 1 .. Len(b) /\ Len(b) - (i - 1) + 1 = Len(d) - i + 1
      BY <1>5, <1>6, <3>2
    <3> QED
      BY <1>5, <3>2, <3>3, <3>4
  <2> QED
    BY <2>1, <2>2
<1>9. Once(f)
  <2>1. \A i \in DOMAIN f : i \in Nat /\ i + 0 \in DOMAIN q /\ f[i] = q[i + 0]
    BY <1>1, <1>3, <1>6
  <2> QED
    BY <1>7, <2>1, OncePart
<1>10. Once(d)
  <2> DEFINE n == Len(b) + 1
  <2>1. \A i \in DOMAIN d : i # n => i \in DOMAIN b /\ d[i] = b[i]
    BY <1>5, <1>6
  <2>2. \A k \in DOMAIN b : b[k].id # d[n].id
    BY <1>1, <1>2, <1>5, <1>7
  <2>3. Once(b)
    BY <1>7
  <2> HIDE DEF n
  <2> QED
    BY <2>1, <2>2, <2>3, OnceAppend
<1>11. \A i \in DOMAIN f : \A k \in DOMAIN d : f[i].id # d[k].id
  <2> SUFFICES ASSUME NEW i \in DOMAIN f, NEW k \in DOMAIN d PROVE f[i].id # d[k].id
    OBVIOUS
  <2>1. i \in DOMAIN q /\ f[i] = q[i] /\ i # Len(q) /\ Len(q) \in DOMAIN q
    BY <1>1, <1>3, <1>6
  <2>2. CASE k = Len(b) + 1
    BY <1>2, <1>5, <1>7, <2>1, <2>2 DEF Once
  <2>3. CASE k # Len(b) + 1
    <3>1. k \in DOMAIN b /\ d[k] = b[k]
      BY <1>5, <1>6, <2>3
    <3> QED
      BY <1>7, <2>1, <3>1
  <2> QED
    BY <2>2, <2>3
<1>12. Mirror(f, c, d, to)
  BY <1>4, <1>5, <1>6, <1>8, <1>9, <1>10, <1>11 DEF Mirror
<1> QED
  BY <1>12 DEF f, c, d, x

(* ... the LREM of a payload that did not parse, the newest of the batch, ... *)
LEMMA MirrorDiscard ==
    ASSUME NEW q \in Seq(Waiting), NEW a \in Seq(Waiting), NEW b \in Seq(Waiting),
           Mirror(q, a, b, "discard"), b # <<>>
    PROVE  Mirror(q, RemoveFirst(a, Last(b)), Front(b), "gather")
<1> DEFINE f == Front(b)
           r == RemoveFirst(a, Last(b))
<1>1. /\ Len(b) \in Nat \ {0} /\ DOMAIN b = 1 .. Len(b) /\ Len(a) = Len(b)
      /\ \A i \in 1 .. Len(b) : a[i] = b[Len(b) - i + 1]
  BY DEF Mirror
<1>2. Last(b) = a[1]
  BY <1>1 DEF Last
<1>3. /\ Len(r) = Len(b) - 1
      /\ \A i \in 1 .. Len(b) - 1 : r[i] = a[i + 1]
  <2>1. 1 \in 1 .. Len(a) /\ \A i \in 1 .. 1 - 1 : a[i] # a[1]
    BY <1>1
  <2>2. /\ Len(RemoveFirst(a, a[1])) = Len(a) - 1
        /\ \A i \in 1 .. Len(a) - 1 :
             RemoveFirst(a, a[1])[i] = IF i < 1 THEN a[i] ELSE a[i + 1]
    BY <2>1, RemoveFirstPlaces
  <2> QED
    BY <1>1, <1>2, <2>2
<1>4. f \in Seq(Waiting) /\ Len(f) = Len(b) - 1 /\ \A i \in 1 .. Len(b) - 1 : f[i] = b[i]
  BY FrontPlaces
<1> HIDE DEF f, r
<1>5. DOMAIN f = 1 .. Len(b) - 1
  BY <1>4
<1>6. ASSUME NEW i \in 1 .. Len(f) PROVE r[i] = f[Len(f) - i + 1]
  <2>1. i \in 1 .. Len(b) - 1 /\ i + 1 \in 1 .. Len(b)
          /\ Len(b) - (i + 1) + 1 = Len(f) - i + 1
          /\ Len(f) - i + 1 \in 1 .. Len(b) - 1
    BY <1>1, <1>4
  <2>2. r[i] = b[Len(b) - (i + 1) + 1]
    BY <1>1, <1>3, <2>1
  <2> QED
    BY <1>4, <2>1, <2>2
<1>7. \A i \in DOMAIN f : i \in Nat /\ i + 0 \in DOMAIN b /\ f[i] = b[i + 0]
  BY <1>1, <1>4, <1>5
<1>8. Once(b) /\ \A i \in DOMAIN q : \A k \in DOMAIN b : q[i].id # b[k].id
  BY DEF Mirror
<1>9. Once(f)
  BY <1>7, <1>8, OncePart
<1>10. \A i \in DOMAIN q : \A k \in DOMAIN f : q[i].id # f[k].id
  <2>1. \A k \in DOMAIN f : k \in DOMAIN b /\ f[k] = b[k]
    BY <1>1, <1>4, <1>5
  <2> QED
    BY <1>8, <2>1
<1>11. Mirror(q, r, f, "gather")
  BY <1>3, <1>4, <1>6, <1>9, <1>10 DEF Mirror
<1> QED
  BY <1>11 DEF f, r

(* ... the LREM of the clean-up, whose entry is the last of the list, ... *)
LEMMA MirrorLrem ==
    ASSUME NEW q \in Seq(Waiting), NEW a \in Seq(Waiting), NEW b \in Seq(Waiting),
           NEW p, Mirror(q, a, b, p), b # <<>>
    PROVE  Mirror(q, RemoveFirst(a, Head(b)), Tail(b), "cleanup")
<1> DEFINE t == Tail(b)
           r == RemoveFirst(a, Head(b))
           n == Len(b)
<1>1. /\ n \in Nat \ {0} /\ DOMAIN b = 1 .. n /\ Len(a) = n
      /\ \A i \in 1 .. n : a[i] = b[n - i + 1]
  BY DEF Mirror
<1>2. Head(b) = b[1]
  BY <1>1
<1>3. t \in Seq(Waiting) /\ Len(t) = n - 1 /\ \A i \in 1 .. n - 1 : t[i] = b[i + 1]
  BY TailPlaces
<1>4. Once(b)
  BY DEF Mirror
<1> HIDE DEF t, n
<1>5. a[n] = b[1]
  BY <1>1
<1>6. ASSUME NEW i \in 1 .. n - 1 PROVE a[i] # a[n]
  <2>1. i \in 1 .. n /\ n - i + 1 \in 1 .. n /\ n - i + 1 # 1 /\ 1 \in 1 .. n
    BY <1>1
  <2>2. a[i] = b[n - i + 1]
    BY <1>1, <2>1
  <2> QED
    BY <1>1, <1>4, <1>5, <2>1, <2>2 DEF Once
<1>7. Len(r) = n - 1 /\ \A i \in 1 .. n - 1 : r[i] = a[i]
  <2>1. n \in 1 .. Len(a)
    BY <1>1
  <2>2. /\ Len(RemoveFirst(a, a[n])) = Len(a) - 1
        /\ \A i \in 1 .. Len(a) - 1 :
             RemoveFirst(a, a[n])[i] = IF i < n THEN a[i] ELSE a[i + 1]
    BY <1>6, <2>1, RemoveFirstPlaces
  <2>3. r = RemoveFirst(a, a[n])
    BY <1>2, <1>5
  <2> HIDE DEF r
  <2>4. \A i \in 1 .. n - 1 : i < n
    BY <1>1
  <2> QED
    BY <1>1, <2>2, <2>3, <2>4
<1> HIDE DEF r
<1>8. DOMAIN t = 1 .. n - 1
  BY <1>3
<1>9. ASSUME NEW i \in 1 .. Len(t) PROVE r[i] = t[Len(t) - i + 1]
  <2>1. i \in 1 .. n - 1 /\ i \in 1 .. n /\ Len(t) - i + 1 \in 1 .. n - 1
          /\ Len(t) - i + 1 + 1 = n - i + 1
    BY <1>1, <1>3
  <2> QED
    BY <1>1, <1>3, <1>7, <2>1
<1>10. \A i \in 1 .. n - 1 : i + 1 \in 1 .. n /\ i + 1 # 1
  BY <1>1
<1>11. Once(t)
  <2>1. \A i \in DOMAIN t : i \in Nat /\ i + 1 \in DOMAIN b /\ t[i] = b[i + 1]
    BY <1>1, <1>3, <1>8, <1>10
  <2> QED
    BY <1>4, <2>1, OncePart
<1>12. \A i \in DOMAIN q : \A k \in DOMAIN t : q[i].id # t[k].id
  BY <1>1, <1>3, <1>8, <1>10 DEF Mirror
<1>13. Mirror(q, r, t, "cleanup")
  BY <1>3, <1>7, <1>9, <1>11, <1>12 DEF Mirror
<1> QED
  BY <1>13 DEF r, t

(* ... and the LPUSH of a retry do to the mirror. *)
LEMMA MirrorRequeue ==
    ASSUME NEW q \in Seq(Waiting), NEW a \in Seq(Waiting), NEW b \in Seq(Waiting),
           Mirror(q, a, b, "cleanup"), b # <<>>, NEW x \in Waiting, x.id = Head(b).id
    PROVE  Mirror(Cons(x, q), a, b, "drop")
<1> DEFINE c == Cons(x, q)
<1>1. /\ DOMAIN c = 1 .. Len(q) + 1 /\ c[1] = x
      /\ \A i \in DOMAIN c : i # 1 => i - 1 \in DOMAIN q /\ c[i] = q[i - 1]
  BY ConsPlaces
<1> HIDE DEF c
<1>2. 1 \in DOMAIN b /\ x.id = b[1].id
  OBVIOUS
<1>3. /\ Once(q) /\ Once(b)
      /\ \A i \in DOMAIN q : \A k \in DOMAIN b : q[i].id # b[k].id
  BY DEF Mirror
<1>4. Once(c)
  <2>1. DOMAIN c \subseteq Int
    BY <1>1
  <2>2. \A k \in DOMAIN q : q[k].id # c[1].id
    BY <1>1, <1>2, <1>3
  <2> QED
    BY <1>1, <1>3, <2>1, <2>2, OnceCons
<1>5. ASSUME NEW i \in DOMAIN c, NEW k \in DOMAIN b, c[i].id = b[k].id PROVE k = 1
  <2>1. CASE i = 1
    BY <1>1, <1>2, <1>3, <1>5, <2>1 DEF Once
  <2>2. CASE i # 1
    BY <1>1, <1>3, <1>5, <2>2
  <2> QED
    BY <2>1, <2>2
<1>6. Mirror(c, a, b, "drop")
  BY <1>4, <1>5 DEF Mirror
<1> QED
  BY <1>6 DEF c

LEMMA MirrorStep ==
    ASSUME NEW u, Workers = {u}, IInv, KnownIds, Mirrored, [Next]_vars
    PROVE  Mirrored'
<1> SUFFICES ASSUME NEW q, q = queue', NEW a, a = active', NEW b, b = batch'[u],
                    NEW p, p = wpc'[u], crashes' = 0, faults' = 0
             PROVE  Mirror(q, a, b, p)
  BY DEF Mirrored, Mirror, Once
<1> USE DEF IInv, lists, database, locals, budget, vars
<1>1. /\ u \in Workers /\ queue \in Seq(Waiting) /\ active \in Seq(Waiting)
      /\ batch[u] \in Seq(Waiting)
  BY DEF TypeOK
<1>2. Mirror(queue, active, batch[u], wpc[u])
  BY <1>1, CalmBefore DEF Mirrored
<1>3. ASSUME queue' = queue, active' = active, batch'[u] = batch[u],
             wpc'[u] \in {"down", "recover"} => batch[u] = <<>>,
             wpc[u] = "drop" => wpc'[u] = "drop"
      PROVE  Mirror(q, a, b, p)
  BY <1>2, <1>3, MirrorMove
<1>4. ASSUME NEW place, NEW rest, Then(u, place, rest) PROVE p = place /\ b = rest
  BY <1>1, <1>4, CalmThen
<1>5. ASSUME NEW id \in Ids, Enqueue(id) PROVE Mirror(q, a, b, p)
  <2> DEFINE x == [id |-> id, retry |-> 0]
  <2>1. x \in Waiting /\ x.id = id
    BY QueueAssumption DEF Waiting
  <2>2. /\ q = Cons(x, queue) /\ a = active /\ b = batch[u] /\ p = wpc[u]
        /\ id \notin accepted
    BY <1>5 DEF Enqueue
  <2> HIDE DEF x
  <2>3. \A i \in DOMAIN queue : queue[i].id # id
    BY <2>2 DEF KnownIds, Queued, Range
  <2>4. \A k \in DOMAIN batch[u] : batch[u][k].id # id
    BY <1>1, <2>2 DEF KnownIds, Range
  <2> QED
    BY <1>1, <1>2, <2>1, <2>2, <2>3, <2>4, MirrorEnqueue
<1>6. CASE Start(u)
  <2>1. wpc'[u] = "recover" /\ wpc[u] = "down" /\ UNCHANGED <<queue, active, batch>>
    BY <1>1, <1>6 DEF Start, At, Goto, TypeOK
  <2> QED
    BY <1>2, <1>3, <2>1 DEF Mirror
<1>7. CASE Recover(u)
  <2>1. batch[u] = <<>>
    BY <1>2, <1>7 DEF Recover, At, Mirror
  <2>2. active = <<>>
    BY <1>1, <1>2, <2>1 DEF Mirror
  <2>3. wpc'[u] = "gather" /\ wpc[u] = "recover" /\ UNCHANGED <<queue, active, batch>>
    BY <1>1, <1>7, <2>2 DEF Recover, At, Goto, TypeOK
  <2> QED
    BY <1>3, <2>3
<1>8. CASE Gather(u)
  <2> DEFINE place == IF Last(queue).id \in Poison THEN "bury" ELSE "gather"
             rest == Append(batch[u], Last(queue))
  <2>1. Then(u, place, rest) /\ place \in {"gather", "bury"}
    BY <1>8 DEF Gather
  <2> HIDE DEF place, rest
  <2>2. p = place /\ b = rest
    BY <1>4, <2>1
  <2>3. /\ wpc[u] = "gather" /\ queue # <<>>
        /\ q = Front(queue) /\ a = Cons(Last(queue), active)
    BY <1>8 DEF Gather, At
  <2> QED
    BY <1>1, <1>2, <2>1, <2>2, <2>3, MirrorGather DEF rest
<1>9. CASE Bury(u)
  <2>1. p = "discard" /\ b = batch[u]
    BY <1>4, <1>9 DEF Bury
  <2>2. wpc[u] = "bury" /\ UNCHANGED <<queue, active>>
    BY <1>9 DEF Bury, At
  <2> QED
    BY <1>3, <2>1, <2>2
<1>10. CASE Discard(u)
  <2>1. p = "gather" /\ b = Front(batch[u])
    BY <1>4, <1>10 DEF Discard
  <2>2. /\ wpc[u] = "discard" /\ batch[u] # <<>>
        /\ q = queue /\ a = RemoveFirst(active, Last(batch[u]))
    BY <1>1, <1>10 DEF Discard, At, InHand
  <2> QED
    BY <1>1, <1>2, <2>1, <2>2, MirrorDiscard
<1>11. CASE EndGather(u)
  <2>1. UNCHANGED <<queue, active, batch>> /\ wpc[u] = "gather"
    BY <1>11 DEF EndGather, At
  <2>2. wpc'[u] = "fetch" \/ (wpc'[u] = "down" /\ batch[u] = <<>>)
    BY <1>1, <1>11 DEF EndGather, Goto, TypeOK
  <2> QED
    BY <1>3, <2>1, <2>2
<1>12. CASE ProcessBatch(u)
  <2>1. /\ UNCHANGED <<queue, active, batch>> /\ wpc[u] \in {"fetch", "commit"}
        /\ wpc'[u] \in {"commit", "cleanup"}
    BY <1>1, <1>12 DEF ProcessBatch, Fetch, Commit, FailRetryable, FailFatal, Return,
                       At, Goto, TypeOK
  <2> QED
    BY <1>3, <2>1
<1>13. CASE Ack(u) \/ Drop(u)
  <2>1. p = "cleanup" /\ b = Tail(batch[u])
    BY <1>4, <1>13 DEF Ack, Drop, Lrem
  <2>2. /\ batch[u] # <<>> /\ q = queue
        /\ a = RemoveFirst(active, Head(batch[u]))
    BY <1>13 DEF Ack, Drop, Lrem, Cleaning, Current
  <2> QED
    BY <1>1, <1>2, <2>1, <2>2, MirrorLrem
<1>14. CASE SendToDlq(u)
  <2>1. p = "drop" /\ b = batch[u]
    BY <1>4, <1>14 DEF SendToDlq
  <2>2. UNCHANGED <<queue, active>>
    BY <1>14 DEF SendToDlq
  <2> QED
    BY <1>3, <2>1, <2>2
<1>15. CASE Requeue(u)
  <2> DEFINE again == [Current(u) EXCEPT !.retry = @ + 1]
  <2>1. p = "drop" /\ b = batch[u]
    BY <1>4, <1>15 DEF Requeue
  <2>2. wpc[u] = "cleanup" /\ batch[u] # <<>> /\ a = active
    BY <1>15 DEF Requeue, Cleaning, At
  <2>3. Head(batch[u]) \in Waiting
    BY <1>1, <2>2
  <2>4. /\ again.id = Head(batch[u]).id /\ again.id \in Ids
        /\ again.retry \in Nat
        /\ again = [id |-> again.id, retry |-> again.retry]
    BY <2>3, QueueAssumption DEF Waiting, Current
  <2>5. q = queue \/ (q = Cons(again, queue) /\ again.retry <= MaxRetries)
    BY <1>15, <2>4, QueueAssumption DEF Requeue
  <2> HIDE DEF again
  <2>6. CASE q = queue
    BY <1>3, <2>1, <2>2, <2>6
  <2>7. CASE q = Cons(again, queue) /\ again.retry <= MaxRetries
    <3>1. again \in Waiting
      BY <2>4, <2>7, QueueAssumption DEF Waiting
    <3> QED
      BY <1>1, <1>2, <2>1, <2>2, <2>4, <2>7, <3>1, MirrorRequeue
  <2> QED
    BY <2>5, <2>6, <2>7
<1>16. CASE EndCleanup(u)
  <2>1. batch[u] = <<>> /\ wpc[u] = "cleanup" /\ UNCHANGED <<queue, active>>
    BY <1>16 DEF EndCleanup, At
  <2>2. batch'[u] = <<>>
    BY <1>1, <1>16 DEF EndCleanup, Discharge, TypeOK
  <2> QED
    BY <1>3, <2>1, <2>2
<1>17. CASE Shutdown(u) \/ UNCHANGED vars
  <2>1. UNCHANGED <<queue, active, batch, wpc>>
    BY <1>17 DEF Shutdown
  <2> QED
    BY <1>2, <1>3, <2>1 DEF Mirror
<1>18. ~Crash(u) /\ ~LoopException(u)
  <2>1. crashes \in Nat /\ faults \in Nat
    BY DEF TypeOK
  <2> QED
    BY <2>1 DEF Crash, LoopException, Forget
<1> QED
  BY <1>5, <1>6, <1>7, <1>8, <1>9, <1>10, <1>11, <1>12, <1>13, <1>14, <1>15, <1>16,
     <1>17, <1>18 DEF Next, WorkerStep, CleanUp, Trouble

(* With one worker and neither crashes nor exceptions the active list holds *)
(* the worker's batch and nothing else: no clean-up path leaves an entry    *)
(* behind, and no LREM takes another one than it means.                     *)
THEOREM ActiveIsTheBatch ==
    ASSUME NEW u, Workers = {u}
    PROVE  Spec => []ActiveMirrorsBatch
<1>1. Init => Mirrored
  BY DEF Init, Mirrored, Mirror, Once
<1>2. IInv /\ KnownIds /\ Mirrored /\ [Next]_vars => KnownIds' /\ Mirrored'
  BY KnownStep, MirrorStep
<1>3. IInv /\ Mirrored => ActiveMirrorsBatch
  <2> SUFFICES ASSUME IInv, Mirrored, crashes = 0, faults = 0, NEW w \in Workers
               PROVE  active = Reverse(batch[w])
    BY DEF ActiveMirrorsBatch
  <2> DEFINE b == batch[w]
             r == [i \in 1 .. Len(b) |-> b[Len(b) - i + 1]]
  <2>1. active \in Seq(Waiting) /\ b \in Seq(Waiting)
    BY DEF IInv, TypeOK
  <2>2. Len(active) = Len(b) /\ \A i \in 1 .. Len(b) : active[i] = b[Len(b) - i + 1]
    BY DEF Mirrored, Mirror
  <2>3. Reverse(b) = r
    BY DEF Reverse
  <2> HIDE DEF b
  <2>4. r \in [1 .. Len(b) -> Waiting] /\ Len(b) \in Nat
    BY <2>1
  <2>5. r \in Seq(Waiting)
    BY <2>4, SeqDef
  <2>6. Len(r) = Len(b) /\ \A i \in 1 .. Len(active) : active[i] = r[i]
    BY <2>2, <2>4, <2>5
  <2>7. active = r
    BY <2>1, <2>2, <2>5, <2>6, SeqEqual
  <2> QED
    BY <2>3, <2>7 DEF b
<1> QED
  BY <1>1, <1>2, <1>3, KnownInit, Invariance, PTL DEF Spec
=============================================================================
