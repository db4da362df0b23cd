----------------------------- MODULE AtLeastOnce -----------------------------
(***************************************************************************)
(* What the Redis queue and its worker promise, with no lists, retries or  *)
(* processes in it: an accepted id stays pending until it is finished.  It *)
(* may be delivered again after that, so delivery is at least once.        *)
(***************************************************************************)
CONSTANT Ids

VARIABLES
    accepted,   \* ids handed to the queue
    pending,    \* ids the queue still holds a copy of
    finished    \* ids processed or dead-lettered

vars == <<accepted, pending, finished>>

Init == accepted = {} /\ pending = {} /\ finished = {}

\* A new id is accepted and held from then on.
Accept ==
    \E id \in Ids \ accepted :
        /\ accepted' = accepted \cup {id}
        /\ pending' = pending \cup {id}
        /\ UNCHANGED finished

\* Some pending or redelivered ids are finished, together.
Finish ==
    \E S \in SUBSET accepted :
        /\ finished' = finished \cup S
        /\ UNCHANGED <<accepted, pending>>

\* The last copy of an id goes only when the id is finished.
Release ==
    \E id \in pending \cap finished :
        /\ pending' = pending \ {id}
        /\ UNCHANGED <<accepted, finished>>

\* A worker that had the job in hand puts a copy back.
Replay ==
    \E id \in accepted \ pending :
        /\ pending' = pending \cup {id}
        /\ UNCHANGED <<accepted, finished>>

Next == Accept \/ Finish \/ Release \/ Replay

Spec == Init /\ [][Next]_vars
=============================================================================
