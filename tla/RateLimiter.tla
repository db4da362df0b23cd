----------------------------- MODULE RateLimiter -----------------------------
(***************************************************************************)
(* The check in front of the webhook (middleware/rate_limiter.py,          *)
(* api/webhook.py, 28 and 46).                                             *)
(*                                                                         *)
(* The limiter reads the clock, counts the request in a Redis key named by *)
(* the caller and the window, and gives a new key a time to live: three    *)
(* steps, between which time passes, other processes count, and the        *)
(* process may die.  It has no await, so that a process checks one request *)
(* at a time.  Both methods of the webhook share the path and so the keys. *)
(***************************************************************************)
EXTENDS Integers, FiniteSets

CONSTANTS
    Servers,     \* web processes
    Callers,     \* client addresses, "unknown_ip" among them
    None,
    Requests,    \* the limit: 15 for the webhook
    Window,      \* its length in ticks of the clock
    MaxTime,     \* bound: ticks
    MaxArrivals, \* bound: requests
    MaxFaults,   \* bound: failures of Redis
    MaxCrashes   \* bound: deaths of a process

ASSUME LimiterAssumption ==
    /\ IsFiniteSet(Servers)
    /\ Requests \in Nat \ {0} /\ Window \in Nat \ {0}
    /\ MaxTime \in Nat /\ MaxArrivals \in Nat
    /\ MaxFaults \in Nat /\ MaxCrashes \in Nat

VARIABLES
    now,        \* time.time()
    key,        \* the keys in Redis: a count and the end of its life
    step,       \* what each process does next
    hand,       \* the request it checks, None between two
    tally,      \* history: what became of the requests of each window
    faults, crashes

vars == <<now, key, step, hand, tally, faults, crashes>>

-----------------------------------------------------------------------------
Windows == 0 .. MaxTime \div Window

\* The end of the life of a key that was given none.
Never == MaxTime + Window + 1

NoKey == [count |-> 0, until |-> Never]

Unseen == [arrived |-> 0, passed |-> 0, refused |-> 0, uncounted |-> 0]

TypeOK ==
    /\ now \in 0 .. MaxTime
    /\ key \in [Callers \X Windows -> [count : Nat, until : 0 .. Never]]
    /\ step \in [Servers -> {"idle", "incr", "expire", "compare"}]
    /\ DOMAIN hand = Servers
    /\ \A s \in Servers :
         IF step[s] = "idle" THEN hand[s] = None
         ELSE hand[s] \in [caller : Callers, window : Windows, count : Nat]
    /\ tally \in [Callers \X Windows ->
                   [arrived : Nat, passed : Nat, refused : Nat, uncounted : Nat]]
    /\ faults \in 0 .. MaxFaults /\ crashes \in 0 .. MaxCrashes

Init ==
    /\ now = 0
    /\ key = [k \in Callers \X Windows |-> NoKey]
    /\ step = [s \in Servers |-> "idle"]
    /\ hand = [s \in Servers |-> None]
    /\ tally = [k \in Callers \X Windows |-> Unseen]
    /\ faults = 0 /\ crashes = 0

-----------------------------------------------------------------------------
\* Mutant: one key for a caller, whatever the window.
KeyOf_Caller(s) == <<hand[s].caller, 0>>

\* The key of a request in hand.
KeyOf(s) == <<hand[s].caller, hand[s].window>>

\* The request's place in the tally.
PlaceOf(s) == <<hand[s].caller, hand[s].window>>

\* A key whose life is over is as good as none.
Held(k) == IF key[k].until > now THEN key[k] ELSE NoKey

Goto(s, place) == step' = [step EXCEPT ![s] = place]

\* The check is over.
Ends(s) == Goto(s, "idle") /\ hand' = [hand EXCEPT ![s] = None]

Fault == faults < MaxFaults /\ faults' = faults + 1

\* A request comes; the window is that of the clock.
Arrive(s, c) ==
    LET k == <<c, now \div Window>> IN
    /\ step[s] = "idle"
    /\ tally[k].arrived < MaxArrivals
    /\ hand' = [hand EXCEPT ![s] = [caller |-> c, window |-> k[2], count |-> 0]]
    /\ tally' = [tally EXCEPT ![k].arrived = @ + 1]
    /\ Goto(s, "incr")
    /\ UNCHANGED <<now, key, faults, crashes>>

\* INCR keeps the time to live of a key.
Incremented(s) ==
    key' = [key EXCEPT ![KeyOf(s)] = [Held(KeyOf(s)) EXCEPT !.count = @ + 1]]

Incr(s) ==
    LET count == Held(KeyOf(s)).count + 1 IN
    /\ step[s] = "incr"
    /\ Incremented(s)
    /\ hand' = [hand EXCEPT ![s].count = count]
    /\ Goto(s, IF count = 1 THEN "expire" ELSE "compare")
    /\ UNCHANGED <<now, tally, faults, crashes>>

\* Mutant: the life of a key is counted in another unit.
Expire_Early(s) ==
    /\ step[s] = "expire"
    /\ key' = IF Held(KeyOf(s)) = NoKey THEN key
              ELSE [key EXCEPT ![KeyOf(s)].until = now + 1]
    /\ Goto(s, "compare")
    /\ UNCHANGED <<now, hand, tally, faults, crashes>>

\* EXPIRE; of no key it is no error.
Expire(s) ==
    /\ step[s] = "expire"
    /\ key' = IF Held(KeyOf(s)) = NoKey THEN key
              ELSE [key EXCEPT ![KeyOf(s)].until = now + Window]
    /\ Goto(s, "compare")
    /\ UNCHANGED <<now, hand, tally, faults, crashes>>

\* A command fails, carried out or not: the request passes.
RedisFails(s) ==
    /\ step[s] \in {"incr", "expire"}
    /\ Fault
    /\ \/ UNCHANGED key
       \/ step[s] = "incr" /\ Incremented(s)
       \/ /\ step[s] = "expire" /\ Held(KeyOf(s)) # NoKey
          /\ key' = [key EXCEPT ![KeyOf(s)].until = now + Window]
    /\ Ends(s)
    /\ tally' = [tally EXCEPT ![PlaceOf(s)].passed = @ + 1,
                              ![PlaceOf(s)].uncounted = @ + 1]
    /\ UNCHANGED <<now, crashes>>

Compare(s) ==
    /\ step[s] = "compare"
    /\ Ends(s)
    /\ tally' = IF hand[s].count > Requests
                THEN [tally EXCEPT ![PlaceOf(s)].refused = @ + 1]     \* 429
                ELSE [tally EXCEPT ![PlaceOf(s)].passed = @ + 1]
    /\ UNCHANGED <<now, key, faults, crashes>>

\* The process dies with the request.
Crash(s) ==
    /\ crashes < MaxCrashes
    /\ step[s] # "idle"
    /\ crashes' = crashes + 1
    /\ Ends(s)
    /\ UNCHANGED <<now, key, tally, faults>>

\* Redis is nearby: a check is over within a window.
Tick ==
    /\ now < MaxTime
    /\ \A s \in Servers :
         step[s] # "idle" => hand[s].window + 1 >= (now + 1) \div Window
    /\ now' = now + 1
    /\ UNCHANGED <<key, step, hand, tally, faults, crashes>>

Next ==
    \/ \E s \in Servers :
         \/ \E c \in Callers : Arrive(s, c)
         \/ Incr(s) \/ Expire(s) \/ RedisFails(s) \/ Compare(s) \/ Crash(s)
    \/ Tick

Spec == Init /\ [][Next]_vars

-----------------------------------------------------------------------------
(* Properties *)

(* No more requests of a caller pass in a window than the limit, but for    *)
(* those Redis failed to count and for one of every process: a key lives a  *)
(* window from its first request on, and may be gone when a request of the  *)
(* window's last moment is counted, in a key of its own (line 23).  Two     *)
(* windows meet, so that as many may pass twice within the length of one.   *)
LimitHolds ==
    \A k \in DOMAIN tally :
        tally[k].passed <= Requests + tally[k].uncounted + Cardinality(Servers)

(* A request is refused only when as many as the limit have come before it  *)
(* in its window: a key that a crash between INCR and EXPIRE, or a lost     *)
(* reply, leaves without an end locks nobody out (lines 23-26).             *)
RefusalsEarned ==
    \A k \in DOMAIN tally :
        tally[k].refused > 0 => tally[k].arrived >= Requests + tally[k].refused
=============================================================================
