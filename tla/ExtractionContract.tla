------------------------- MODULE ExtractionContract -------------------------
(***************************************************************************)
(* What extraction promises the messages, with no language model, cache or *)
(* thresholds in it: a batch is taken as a whole, and settled as a whole   *)
(* or given back, with none of its jobs decided but those that go to the   *)
(* dead letters; a verdict once given is final.                            *)
(***************************************************************************)
CONSTANTS Messages, Verdicts, Undecided, Dead

VARIABLES
    busy,       \* messages in some worker's batch
    verdict     \* what has been decided of each message

vars == <<busy, verdict>>

Init == busy = {} /\ verdict = [m \in Messages |-> Undecided]

\* A worker takes undecided messages that no other worker has.
Take ==
    \E S \in SUBSET (Messages \ busy) :
        /\ S # {}
        /\ \A m \in S : verdict[m] = Undecided
        /\ busy' = busy \cup S
        /\ UNCHANGED verdict

\* A whole batch is decided, each message by a verdict of its own.
Settle ==
    \E S \in SUBSET busy :
        /\ S # {}
        /\ verdict' \in [Messages -> Verdicts \cup {Undecided}]
        /\ \A m \in Messages :
             IF m \in S THEN verdict[m] = Undecided /\ verdict'[m] \in Verdicts
                        ELSE verdict'[m] = verdict[m]
        /\ busy' = busy \ S

\* A whole batch is given up: the jobs D are dead, the rest come back.
GiveBack ==
    \E S \in SUBSET busy : \E D \in SUBSET S :
        /\ S # {}
        /\ \A m \in D : verdict[m] = Undecided
        /\ verdict' = [m \in Messages |-> IF m \in D THEN Dead ELSE verdict[m]]
        /\ busy' = busy \ S

Next == Take \/ Settle \/ GiveBack

Spec == Init /\ [][Next]_vars
=============================================================================
