------------------------- MODULE RateLimiterProofs -------------------------
(***************************************************************************)
(* The two promises of the rate limiter, for any number of processes,      *)
(* callers, failures and deaths, any limit and any length of a window.     *)
(*                                                                         *)
(* Both are about numbers: of the requests of one caller and window, those *)
(* that still wait to be counted, those counted that will pass and those   *)
(* that will be refused are kept in balance with the key and the tally.    *)
(* Every step moves one request from one of these sets to another.         *)
(***************************************************************************)
EXTENDS RateLimiter, FiniteSetTheorems, TLAPS

-----------------------------------------------------------------------------
(* The inductive invariant *)

Places == Callers \X Windows

\* When a window begins, and when it is over.
Opens(k) == k[2] * Window

Closes(k) == Opens(k) + Window

\* The requests under way at k: not yet counted, to be refused, to pass.
Waiting(k) == {s \in Servers : step[s] = "incr" /\ PlaceOf(s) = k}

Refusable(k) ==
    {s \in Servers : /\ step[s] \in {"expire", "compare"} /\ PlaceOf(s) = k
                     /\ hand[s].count > Requests}

Passing(k) ==
    {s \in Servers : /\ step[s] \in {"expire", "compare"} /\ PlaceOf(s) = k
                     /\ hand[s].count <= Requests}

Uncounted(k) == Cardinality(Waiting(k))

ToRefuse(k) == Cardinality(Refusable(k))

ToPass(k) == Cardinality(Passing(k))

\* What a count says of the limit.
Capped(n) == IF n < Requests THEN n ELSE Requests

\* Nobody is checked before the window has begun.
HandsBegun == \A s \in Servers : step[s] # "idle" => Opens(PlaceOf(s)) <= now

\* A key outlives its window.
KeysLast == \A k \in Places : Closes(k) <= key[k].until

\* A key counts only requests that have come.
CountsEarned(k) ==
    tally[k].arrived >= tally[k].refused + Uncounted(k) + ToRefuse(k)
                          + Capped(key[k].count)

\* Who is refused, or will be, came after as many as the limit.
RefusalsDue(k) ==
    tally[k].refused > 0 \/ ToRefuse(k) > 0 =>
      tally[k].arrived >= tally[k].refused + Uncounted(k) + ToRefuse(k) + Requests

\* While a window lasts, its key knows of whoever passes.
PassesCounted(k) ==
    now < Closes(k) =>
      tally[k].passed + ToPass(k) <= Capped(key[k].count) + tally[k].uncounted

\* Afterwards those few may pass that the window's end has met on the way.
LatePassesFew(k) ==
    Closes(k) <= now =>
      tally[k].passed + ToPass(k) + Uncounted(k) <=
        Requests + Cardinality(Servers) + tally[k].uncounted

Balance(k) ==
    CountsEarned(k) /\ RefusalsDue(k) /\ PassesCounted(k) /\ LatePassesFew(k)

IInv ==
    /\ TypeOK
    /\ HandsBegun
    /\ KeysLast
    /\ \A k \in Places : Balance(k)

-----------------------------------------------------------------------------
(* Windows *)

LEMMA ClockInWindow ==
    ASSUME NEW t \in 0 .. MaxTime
    PROVE  /\ t \div Window \in Windows
           /\ (t \div Window) * Window <= t
           /\ t < (t \div Window) * Window + Window
BY LimiterAssumption DEF Windows

(* Every window begins before the last tick, so that a key without an end   *)
(* outlives it.                                                             *)
LEMMA PlaceTimes ==
    ASSUME NEW k \in Places
    PROVE  /\ Opens(k) \in Nat /\ Closes(k) \in Nat
           /\ Opens(k) < Closes(k) /\ Closes(k) <= Never
           /\ Closes(k) = Opens(k) + Window
<1>1. k[2] \in Windows
  BY DEF Places
<1>2. (MaxTime \div Window) * Window <= MaxTime
  BY ClockInWindow, LimiterAssumption
<1>3. k[2] * Window <= (MaxTime \div Window) * Window
  BY <1>1, ClockInWindow, LimiterAssumption DEF Windows
<1>4. k[2] * Window \in Nat
  BY <1>1, LimiterAssumption DEF Windows
<1> QED
  BY <1>2, <1>3, <1>4, LimiterAssumption DEF Opens, Closes, Never
-----------------------------------------------------------------------------
(* What a step does to the numbers *)

LEMMA Sizes ==
    ASSUME NEW k
    PROVE  /\ IsFiniteSet(Waiting(k)) /\ IsFiniteSet(Refusable(k))
           /\ IsFiniteSet(Passing(k))
           /\ Uncounted(k) \in Nat /\ ToRefuse(k) \in Nat /\ ToPass(k) \in Nat
           /\ Uncounted(k) <= Cardinality(Servers)
           /\ Cardinality(Servers) \in Nat
<1>1. Waiting(k) \in SUBSET Servers /\ Refusable(k) \in SUBSET Servers
      /\ Passing(k) \in SUBSET Servers
  BY DEF Waiting, Refusable, Passing
<1> QED
  BY <1>1, FS_Subset, FS_CardinalityType, LimiterAssumption
     DEF Uncounted, ToRefuse, ToPass

\* One more, one less, as many.
LEMMA OneMore ==
    ASSUME NEW S, NEW T, NEW x, IsFiniteSet(S), x \notin S, T = S \cup {x}
    PROVE  Cardinality(T) = Cardinality(S) + 1
BY FS_AddElement

LEMMA OneLess ==
    ASSUME NEW S, NEW T, NEW x, IsFiniteSet(S), x \in S, T = S \ {x}
    PROVE  Cardinality(T) = Cardinality(S) - 1
BY FS_RemoveElement

LEMMA SameSizes ==
    ASSUME NEW k, UNCHANGED <<step, hand>>
    PROVE  UNCHANGED <<Uncounted(k), ToRefuse(k), ToPass(k)>>
<1>1. UNCHANGED <<Waiting(k), Refusable(k), Passing(k)>>
  BY DEF Waiting, Refusable, Passing, PlaceOf
<1> QED
  BY <1>1 DEF Uncounted, ToRefuse, ToPass

LEMMA Domains ==
    ASSUME TypeOK
    PROVE  /\ step \in [Servers -> {"idle", "incr", "expire", "compare"}]
           /\ DOMAIN step = Servers /\ DOMAIN hand = Servers
BY DEF TypeOK

LEMMA ArriveSizes ==
    ASSUME TypeOK, NEW s \in Servers, NEW c \in Callers, Arrive(s, c), NEW k
    PROVE  /\ UNCHANGED <<ToRefuse(k), ToPass(k)>>
           /\ k = <<c, now \div Window>> => Uncounted(k)' = Uncounted(k) + 1
           /\ k # <<c, now \div Window>> => UNCHANGED Uncounted(k)
<1>1. /\ step[s] = "idle" /\ step' = [step EXCEPT ![s] = "incr"]
      /\ hand' = [hand EXCEPT ![s] =
                    [caller |-> c, window |-> now \div Window, count |-> 0]]
  BY DEF Arrive, Goto
<1>2. /\ step'[s] = "incr" /\ hand'[s].caller = c
      /\ hand'[s].window = now \div Window
      /\ \A u \in Servers \ {s} : step'[u] = step[u] /\ hand'[u] = hand[u]
  BY <1>1, Domains
<1>3. UNCHANGED <<Refusable(k), Passing(k)>>
  BY <1>1, <1>2 DEF Refusable, Passing, PlaceOf
<1>4. CASE k = <<c, now \div Window>>
  <2>1. s \notin Waiting(k) /\ Waiting(k)' = Waiting(k) \cup {s}
    BY <1>1, <1>2, <1>4 DEF Waiting, PlaceOf
  <2> QED
    BY <1>3, <1>4, <2>1, Sizes, OneMore DEF Uncounted, ToRefuse, ToPass
<1>5. CASE k # <<c, now \div Window>>
  <2>1. Waiting(k)' = Waiting(k)
    BY <1>1, <1>2, <1>5 DEF Waiting, PlaceOf
  <2> QED
    BY <1>3, <1>5, <2>1 DEF Uncounted, ToRefuse, ToPass
<1> QED
  BY <1>4, <1>5

LEMMA IncrSizes ==
    ASSUME TypeOK, NEW s \in Servers, Incr(s), NEW k
    PROVE  /\ k = PlaceOf(s) =>
                /\ Uncounted(k)' = Uncounted(k) - 1
                /\ Held(k).count + 1 > Requests =>
                     ToRefuse(k)' = ToRefuse(k) + 1 /\ UNCHANGED ToPass(k)
                /\ ~(Held(k).count + 1 > Requests) =>
                     ToPass(k)' = ToPass(k) + 1 /\ UNCHANGED ToRefuse(k)
           /\ k # PlaceOf(s) =>
                UNCHANGED <<Uncounted(k), ToRefuse(k), ToPass(k)>>
<1> DEFINE n == Held(KeyOf(s)).count + 1
<1>1. /\ step[s] = "incr" /\ step'[s] \in {"expire", "compare"}
      /\ hand'[s].caller = hand[s].caller /\ hand'[s].window = hand[s].window
      /\ hand'[s].count = n
      /\ \A u \in Servers \ {s} : step'[u] = step[u] /\ hand'[u] = hand[u]
  <2>1. /\ step[s] = "incr"
        /\ hand' = [hand EXCEPT ![s].count = n]
        /\ step' = [step EXCEPT ![s] = IF n = 1 THEN "expire" ELSE "compare"]
    BY DEF Incr, Goto
  <2>2. /\ DOMAIN step = Servers /\ DOMAIN hand = Servers
        /\ hand[s] \in [caller : Callers, window : Windows, count : Nat]
    <3>1. hand[s] \in [caller : Callers, window : Windows, count : Nat]
      BY <2>1 DEF TypeOK
    <3> QED
      BY <3>1, Domains
  <2> HIDE DEF n
  <2>3. step'[s] \in {"expire", "compare"}
    BY <2>1, <2>2
  <2> QED
    BY <2>1, <2>2, <2>3
<1>2. n \in Int
  <2>1. KeyOf(s) \in Callers \X Windows
    BY <1>1 DEF TypeOK, KeyOf
  <2> QED
    BY <2>1 DEF TypeOK, Held, NoKey
<1>3. KeyOf(s) = PlaceOf(s) /\ PlaceOf(s)' = PlaceOf(s)
      /\ \A u \in Servers \ {s} : PlaceOf(u)' = PlaceOf(u)
  BY <1>1 DEF KeyOf, PlaceOf
<1> HIDE DEF n
<1>4. CASE k = PlaceOf(s)
  <2>1. n = Held(k).count + 1
    BY <1>3, <1>4 DEF n
  <2>2. Uncounted(k)' = Uncounted(k) - 1
    <3>1. s \in Waiting(k) /\ Waiting(k)' = Waiting(k) \ {s}
      BY <1>1, <1>3, <1>4 DEF Waiting
    <3> QED
      BY <3>1, Sizes, OneLess DEF Uncounted
  <2>3. CASE n > Requests
    <3>1. /\ s \notin Refusable(k) /\ Refusable(k)' = Refusable(k) \cup {s}
          /\ Passing(k)' = Passing(k)
      BY <1>1, <1>2, <1>3, <1>4, <2>3, LimiterAssumption DEF Refusable, Passing
    <3> QED
      BY <1>4, <2>1, <2>2, <2>3, <3>1, Sizes, OneMore DEF ToRefuse, ToPass
  <2>4. CASE ~(n > Requests)
    <3>1. /\ s \notin Passing(k) /\ Passing(k)' = Passing(k) \cup {s}
          /\ Refusable(k)' = Refusable(k)
      BY <1>1, <1>2, <1>3, <1>4, <2>4, LimiterAssumption DEF Refusable, Passing
    <3> QED
      BY <1>4, <2>1, <2>2, <2>4, <3>1, Sizes, OneMore DEF ToRefuse, ToPass
  <2> QED
    BY <2>3, <2>4
<1>5. CASE k # PlaceOf(s)
  <2>1. UNCHANGED <<Waiting(k), Refusable(k), Passing(k)>>
    BY <1>1, <1>3, <1>5 DEF Waiting, Refusable, Passing
  <2> QED
    BY <1>5, <2>1 DEF Uncounted, ToRefuse, ToPass
<1> QED
  BY <1>4, <1>5

LEMMA ExpireSizes ==
    ASSUME TypeOK, NEW s \in Servers, Expire(s), NEW k
    PROVE  UNCHANGED <<Uncounted(k), ToRefuse(k), ToPass(k)>>
<1>1. /\ step[s] = "expire" /\ step'[s] = "compare" /\ hand' = hand
      /\ \A u \in Servers \ {s} : step'[u] = step[u]
  BY DEF Expire, Goto, TypeOK
<1>2. UNCHANGED <<Waiting(k), Refusable(k), Passing(k)>>
  BY <1>1 DEF Waiting, Refusable, Passing, PlaceOf
<1> QED
  BY <1>2 DEF Uncounted, ToRefuse, ToPass

LEMMA EndSizes ==
    ASSUME TypeOK, NEW s \in Servers, step[s] # "idle", Ends(s), NEW k
    PROVE  /\ k = PlaceOf(s) =>
                /\ step[s] = "incr" =>
                     /\ Uncounted(k)' = Uncounted(k) - 1
                     /\ UNCHANGED <<ToRefuse(k), ToPass(k)>>
                /\ step[s] # "incr" /\ hand[s].count > Requests =>
                     /\ ToRefuse(k)' = ToRefuse(k) - 1
                     /\ UNCHANGED <<Uncounted(k), ToPass(k)>>
                /\ step[s] # "incr" /\ ~(hand[s].count > Requests) =>
                     /\ ToPass(k)' = ToPass(k) - 1
                     /\ UNCHANGED <<Uncounted(k), ToRefuse(k)>>
           /\ k # PlaceOf(s) =>
                UNCHANGED <<Uncounted(k), ToRefuse(k), ToPass(k)>>
<1>1. /\ step'[s] = "idle"
      /\ \A u \in Servers \ {s} : step'[u] = step[u] /\ hand'[u] = hand[u]
      /\ step[s] \in {"incr", "expire", "compare"}
      /\ hand[s].count \in Nat
  <2>1. hand[s] \in [caller : Callers, window : Windows, count : Nat]
    BY DEF TypeOK
  <2>2. \A u \in Servers \ {s} : hand'[u] = hand[u]
    BY DEF Ends
  <2> QED
    BY <2>1, <2>2 DEF Ends, Goto, TypeOK
<1>2. \A u \in Servers \ {s} : PlaceOf(u)' = PlaceOf(u)
  BY <1>1 DEF PlaceOf
<1>3. /\ Waiting(k)' = Waiting(k) \ {s}
      /\ Refusable(k)' = Refusable(k) \ {s}
      /\ Passing(k)' = Passing(k) \ {s}
  BY <1>1, <1>2 DEF Waiting, Refusable, Passing
<1>4. /\ s \in Waiting(k) <=> step[s] = "incr" /\ k = PlaceOf(s)
      /\ s \in Refusable(k) <=>
           step[s] # "incr" /\ k = PlaceOf(s) /\ hand[s].count > Requests
      /\ s \in Passing(k) <=>
           step[s] # "incr" /\ k = PlaceOf(s) /\ ~(hand[s].count > Requests)
  BY <1>1, LimiterAssumption DEF Waiting, Refusable, Passing
<1>5. /\ s \in Waiting(k) => Uncounted(k)' = Uncounted(k) - 1
      /\ s \notin Waiting(k) => UNCHANGED Uncounted(k)
  BY <1>3, Sizes, FS_RemoveElement DEF Uncounted
<1>6. /\ s \in Refusable(k) => ToRefuse(k)' = ToRefuse(k) - 1
      /\ s \notin Refusable(k) => UNCHANGED ToRefuse(k)
  BY <1>3, Sizes, FS_RemoveElement DEF ToRefuse
<1>7. /\ s \in Passing(k) => ToPass(k)' = ToPass(k) - 1
      /\ s \notin Passing(k) => UNCHANGED ToPass(k)
  BY <1>3, Sizes, FS_RemoveElement DEF ToPass
<1> QED
  BY <1>4, <1>5, <1>6, <1>7
-----------------------------------------------------------------------------
(* Types, and what lasts *)

LEMMA HandType ==
    ASSUME TypeOK, NEW s \in Servers, step[s] # "idle"
    PROVE  /\ hand[s] \in [caller : Callers, window : Windows, count : Nat]
           /\ PlaceOf(s) \in Places /\ KeyOf(s) = PlaceOf(s)
           /\ hand[s].count \in Nat
BY DEF TypeOK, PlaceOf, KeyOf, Places

LEMMA HeldType ==
    ASSUME TypeOK, NEW k \in Places
    PROVE  /\ Held(k) \in [count : Nat, until : 0 .. Never]
           /\ Held(k) = key[k] \/ Held(k) = NoKey
           /\ Held(k).count \in Nat
           /\ key[k] \in [count : Nat, until : 0 .. Never]
           /\ key[k].count \in Nat
           /\ NoKey.count = 0 /\ NoKey.until = Never
BY LimiterAssumption DEF TypeOK, Held, NoKey, Never, Places

LEMMA IncrementedType ==
    ASSUME TypeOK, NEW s \in Servers, step[s] # "idle", Incremented(s)
    PROVE  /\ key' \in [Callers \X Windows -> [count : Nat, until : 0 .. Never]]
           /\ key'[PlaceOf(s)].count = Held(PlaceOf(s)).count + 1
           /\ key'[PlaceOf(s)].until = Held(PlaceOf(s)).until
           /\ \A k \in Places \ {PlaceOf(s)} : key'[k] = key[k]
<1> DEFINE k == PlaceOf(s)
<1>1. k \in Callers \X Windows /\ KeyOf(s) = k
  BY HandType DEF Places
<1>2. Held(k) \in [count : Nat, until : 0 .. Never]
  BY <1>1, HeldType DEF Places
<1>3. key' = [key EXCEPT ![k] = [Held(k) EXCEPT !.count = @ + 1]]
  BY <1>1 DEF Incremented
<1>4. /\ [Held(k) EXCEPT !.count = @ + 1] \in [count : Nat, until : 0 .. Never]
      /\ [Held(k) EXCEPT !.count = @ + 1].count = Held(k).count + 1
      /\ [Held(k) EXCEPT !.count = @ + 1].until = Held(k).until
  BY <1>2
<1>5. key \in [Callers \X Windows -> [count : Nat, until : 0 .. Never]]
  BY DEF TypeOK
<1> HIDE DEF k
<1>6. key' \in [Callers \X Windows -> [count : Nat, until : 0 .. Never]]
  BY <1>1, <1>3, <1>4, <1>5
<1>7. key'[k].count = Held(k).count + 1 /\ key'[k].until = Held(k).until
  BY <1>1, <1>3, <1>4, <1>5
<1>8. \A p \in Places \ {k} : key'[p] = key[p]
  BY <1>3, <1>5 DEF Places
<1> QED
  BY <1>6, <1>7, <1>8 DEF k

\* EXPIRE leaves the count alone.
LEMMA ExpiredType ==
    ASSUME TypeOK, NEW s \in Servers, step[s] # "idle",
           key' = [key EXCEPT ![KeyOf(s)].until = now + Window]
    PROVE  /\ key' \in [Callers \X Windows -> [count : Nat, until : 0 .. Never]]
           /\ \A k \in Places : key'[k].count = key[k].count
           /\ key'[PlaceOf(s)].until = now + Window
           /\ \A k \in Places \ {PlaceOf(s)} : key'[k] = key[k]
<1> DEFINE k == PlaceOf(s)
<1>1. k \in Callers \X Windows /\ KeyOf(s) = k
  BY HandType DEF Places
<1>2. now + Window \in 0 .. Never
  BY LimiterAssumption DEF TypeOK, Never
<1>3. key \in [Callers \X Windows -> [count : Nat, until : 0 .. Never]]
  BY DEF TypeOK
<1>4. key' = [key EXCEPT ![k] = [key[k] EXCEPT !.until = now + Window]]
  BY <1>1
<1>5. /\ [key[k] EXCEPT !.until = now + Window]
           \in [count : Nat, until : 0 .. Never]
      /\ [key[k] EXCEPT !.until = now + Window].count = key[k].count
      /\ [key[k] EXCEPT !.until = now + Window].until = now + Window
  BY <1>1, <1>2, <1>3
<1> HIDE DEF k
<1>6. key' \in [Callers \X Windows -> [count : Nat, until : 0 .. Never]]
  BY <1>1, <1>3, <1>4, <1>5
<1>7. key'[k].count = key[k].count /\ key'[k].until = now + Window
  BY <1>1, <1>3, <1>4, <1>5
<1>8. \A p \in Places \ {k} : key'[p] = key[p]
  BY <1>3, <1>4 DEF Places
<1> QED
  BY <1>6, <1>7, <1>8 DEF k, Places
Outcomes == [arrived : Nat, passed : Nat, refused : Nat, uncounted : Nat]

LEMMA TallyType ==
    ASSUME TypeOK, NEW k \in Places
    PROVE  /\ tally[k] \in Outcomes
           /\ tally[k].arrived \in Nat /\ tally[k].passed \in Nat
           /\ tally[k].refused \in Nat /\ tally[k].uncounted \in Nat
BY DEF TypeOK, Places, Outcomes

LEMMA Tallied ==
    ASSUME TypeOK, NEW k \in Places, NEW o \in Outcomes,
           tally' = [tally EXCEPT ![k] = o]
    PROVE  /\ tally' \in [Callers \X Windows -> Outcomes]
           /\ tally'[k] = o
           /\ \A p \in Places \ {k} : tally'[p] = tally[p]
BY DEF TypeOK, Places, Outcomes

LEMMA ArriveTally ==
    ASSUME TypeOK, NEW s \in Servers, NEW c \in Callers, Arrive(s, c)
    PROVE  LET k == <<c, now \div Window>> IN
           /\ k \in Places
           /\ tally' \in [Callers \X Windows -> Outcomes]
           /\ tally'[k] = [tally[k] EXCEPT !.arrived = @ + 1]
           /\ \A p \in Places \ {k} : tally'[p] = tally[p]
<1> DEFINE k == <<c, now \div Window>>
<1>1. k \in Places
  BY ClockInWindow DEF Places, TypeOK
<1>2. tally' = [tally EXCEPT ![k] = [tally[k] EXCEPT !.arrived = @ + 1]]
  BY DEF Arrive
<1>3. [tally[k] EXCEPT !.arrived = @ + 1] \in Outcomes
  BY <1>1, TallyType DEF Outcomes
<1> HIDE DEF k
<1>4. /\ tally' \in [Callers \X Windows -> Outcomes]
      /\ tally'[k] = [tally[k] EXCEPT !.arrived = @ + 1]
      /\ \A p \in Places \ {k} : tally'[p] = tally[p]
  BY <1>1, <1>2, <1>3, Tallied
<1> QED
  BY <1>1, <1>4 DEF k

LEMMA FailTally ==
    ASSUME TypeOK, NEW s \in Servers, RedisFails(s)
    PROVE  /\ tally' \in [Callers \X Windows -> Outcomes]
           /\ tally'[PlaceOf(s)] =
                [tally[PlaceOf(s)] EXCEPT !.passed = @ + 1, !.uncounted = @ + 1]
           /\ \A p \in Places \ {PlaceOf(s)} : tally'[p] = tally[p]
<1> DEFINE k == PlaceOf(s)
<1>1. k \in Places
  BY HandType DEF RedisFails
<1>2. k \in Callers \X Windows
      /\ tally \in [Callers \X Windows -> Outcomes]
  BY <1>1 DEF Places, TypeOK, Outcomes
<1>3. tally' = [tally EXCEPT ![k].passed = @ + 1, ![k].uncounted = @ + 1]
  BY DEF RedisFails
<1> DEFINE o == [tally[k] EXCEPT !.passed = @ + 1, !.uncounted = @ + 1]
<1>4. o \in Outcomes
  <2> DEFINE q == [tally[k] EXCEPT !.passed = @ + 1]
  <2>1. q \in Outcomes
    BY <1>1, TallyType DEF Outcomes
  <2>2. o = [q EXCEPT !.uncounted = @ + 1]
    OBVIOUS
  <2> HIDE DEF q, o
  <2> QED
    BY <2>1, <2>2 DEF Outcomes
<1> HIDE DEF k
<1>5. tally' = [tally EXCEPT ![k] = o]
  BY <1>2, <1>3
<1> QED
  BY <1>1, <1>4, <1>5, Tallied DEF k

LEMMA CompareTally ==
    ASSUME TypeOK, NEW s \in Servers, Compare(s)
    PROVE  /\ tally' \in [Callers \X Windows -> Outcomes]
           /\ hand[s].count > Requests =>
                tally'[PlaceOf(s)] = [tally[PlaceOf(s)] EXCEPT !.refused = @ + 1]
           /\ ~(hand[s].count > Requests) =>
                tally'[PlaceOf(s)] = [tally[PlaceOf(s)] EXCEPT !.passed = @ + 1]
           /\ \A p \in Places \ {PlaceOf(s)} : tally'[p] = tally[p]
<1> DEFINE k == PlaceOf(s)
<1>1. k \in Places
  BY HandType DEF Compare
<1>2. /\ [tally[k] EXCEPT !.refused = @ + 1] \in Outcomes
      /\ [tally[k] EXCEPT !.passed = @ + 1] \in Outcomes
  BY <1>1, TallyType DEF Outcomes
<1>3. /\ hand[s].count > Requests =>
           tally' = [tally EXCEPT ![k] = [tally[k] EXCEPT !.refused = @ + 1]]
      /\ ~(hand[s].count > Requests) =>
           tally' = [tally EXCEPT ![k] = [tally[k] EXCEPT !.passed = @ + 1]]
  BY DEF Compare
<1> HIDE DEF k
<1>4. CASE hand[s].count > Requests
  BY <1>1, <1>2, <1>3, <1>4, Tallied DEF k
<1>5. CASE ~(hand[s].count > Requests)
  BY <1>1, <1>2, <1>3, <1>5, Tallied DEF k
<1> QED
  BY <1>4, <1>5

\* What becomes of key when Redis fails.
LEMMA FailKey ==
    ASSUME TypeOK, NEW s \in Servers, RedisFails(s)
    PROVE  /\ key' \in [Callers \X Windows -> [count : Nat, until : 0 .. Never]]
           /\ \/ key' = key
              \/ step[s] = "incr" /\ Incremented(s)
              \/ key' = [key EXCEPT ![KeyOf(s)].until = now + Window]
           /\ step[s] # "idle" /\ Ends(s)
<1>1. step[s] # "idle" /\ Ends(s)
  BY DEF RedisFails
<1>2. \/ key' = key
      \/ step[s] = "incr" /\ Incremented(s)
      \/ key' = [key EXCEPT ![KeyOf(s)].until = now + Window]
  BY DEF RedisFails
<1> QED
  BY <1>1, <1>2, IncrementedType, ExpiredType DEF TypeOK
-----------------------------------------------------------------------------
(* The invariant is preserved, action by action *)

LEMMA InitInv == Init => IInv
<1> SUFFICES ASSUME Init PROVE IInv
  OBVIOUS
<1>1. TypeOK
  BY LimiterAssumption DEF Init, TypeOK, NoKey, Unseen, Never
<1>2. \A k \in Places :
        /\ key[k] = NoKey /\ tally[k] = Unseen
        /\ Uncounted(k) = 0 /\ ToRefuse(k) = 0 /\ ToPass(k) = 0
  <2> TAKE k \in Places
  <2>1. Waiting(k) = {} /\ Refusable(k) = {} /\ Passing(k) = {}
    BY DEF Init, Waiting, Refusable, Passing
  <2> QED
    BY <2>1, FS_EmptySet DEF Init, Places, Uncounted, ToRefuse, ToPass
<1>3. HandsBegun
  BY DEF Init, HandsBegun
<1>4. KeysLast
  BY <1>2, PlaceTimes DEF KeysLast, NoKey
<1>5. ASSUME NEW k \in Places PROVE Balance(k)
  <2>1. /\ key[k].count = 0
        /\ tally[k].arrived = 0 /\ tally[k].refused = 0
        /\ tally[k].passed = 0 /\ tally[k].uncounted = 0
    BY <1>2 DEF NoKey, Unseen
  <2>2. Capped(0) = 0
    BY LimiterAssumption DEF Capped
  <2>3. now = 0 /\ 0 < Closes(k)
    BY PlaceTimes DEF Init
  <2> QED
    BY <1>2, <2>1, <2>2, <2>3, PlaceTimes, LimiterAssumption
       DEF Balance, CountsEarned, RefusalsDue, PassesCounted, LatePassesFew
<1> QED
  BY <1>1, <1>3, <1>4, <1>5 DEF IInv

LEMMA TypeStep == TypeOK /\ [Next]_vars => TypeOK'
<1> SUFFICES ASSUME TypeOK, [Next]_vars PROVE TypeOK'
  OBVIOUS
<1> DEFINE Steps == [Servers -> {"idle", "incr", "expire", "compare"}]
           Hand == [caller : Callers, window : Windows, count : Nat]
           HandOK == /\ DOMAIN hand = Servers
                     /\ \A u \in Servers :
                          IF step[u] = "idle" THEN hand[u] = None
                          ELSE hand[u] \in Hand
<1>0. step \in Steps /\ HandOK
  <2>1. step \in Steps
    BY Domains
  <2>2. HandOK
    BY DEF TypeOK
  <2> QED
    BY <2>1, <2>2
<1>1. ASSUME NEW s \in Servers, NEW c \in Callers, Arrive(s, c)
      PROVE  TypeOK'
  <2>1. step' \in Steps
    BY <1>1, <1>0 DEF Arrive, Goto
  <2>2. now \div Window \in Windows
    BY ClockInWindow DEF TypeOK
  <2>3. HandOK'
    BY <1>1, <1>0, <2>2 DEF Arrive, Goto
  <2>4. tally' \in [Callers \X Windows -> Outcomes]
    BY <1>1, ArriveTally
  <2> QED
    BY <1>1, <2>1, <2>3, <2>4 DEF Arrive, TypeOK, Outcomes
<1>2. ASSUME NEW s \in Servers, Incr(s)
      PROVE  TypeOK'
  <2> DEFINE n == Held(KeyOf(s)).count + 1
  <2>1. step[s] = "incr" /\ hand[s] \in Hand /\ n \in Nat /\ Incremented(s)
    BY <1>2, HandType, HeldType DEF Incr
  <2>2. /\ hand' = [hand EXCEPT ![s].count = n]
        /\ step' = [step EXCEPT ![s] = IF n = 1 THEN "expire" ELSE "compare"]
    BY <1>2 DEF Incr, Goto
  <2> HIDE DEF n
  <2>3. step' \in Steps
    BY <2>1, <2>2, <1>0
  <2>4. HandOK'
    <3>1. hand'[s] \in Hand /\ DOMAIN hand' = Servers
      BY <2>1, <2>2, <1>0
    <3>2. \A u \in Servers \ {s} : hand'[u] = hand[u] /\ step'[u] = step[u]
      BY <2>2, <1>0
    <3>3. step'[s] # "idle"
      BY <2>1, <2>2, <1>0
    <3> QED
      BY <3>1, <3>2, <3>3, <1>0
  <2>5. key' \in [Callers \X Windows -> [count : Nat, until : 0 .. Never]]
    BY <2>1, IncrementedType
  <2> QED
    BY <1>2, <2>3, <2>4, <2>5 DEF Incr, TypeOK
<1>3. ASSUME NEW s \in Servers, Expire(s)
      PROVE  TypeOK'
  <2>1. step[s] = "expire" /\ step' = [step EXCEPT ![s] = "compare"]
        /\ UNCHANGED hand
    BY <1>3 DEF Expire, Goto
  <2>2. step' \in Steps /\ HandOK'
    BY <2>1, <1>0
  <2>3. key' \in [Callers \X Windows -> [count : Nat, until : 0 .. Never]]
    BY <1>3, <2>1, ExpiredType DEF Expire, TypeOK
  <2> QED
    BY <1>3, <2>2, <2>3 DEF Expire, TypeOK
<1>4. ASSUME NEW s \in Servers, Ends(s)
      PROVE  step' \in Steps /\ HandOK'
  BY <1>4, <1>0 DEF Ends, Goto
<1>5. ASSUME NEW s \in Servers, RedisFails(s)
      PROVE  TypeOK'
  <2>1. /\ key' \in [Callers \X Windows -> [count : Nat, until : 0 .. Never]]
        /\ tally' \in [Callers \X Windows -> Outcomes]
        /\ step' \in Steps /\ HandOK'
    BY <1>5, <1>4, FailKey, FailTally
  <2>2. faults' \in 0 .. MaxFaults /\ UNCHANGED <<now, crashes>>
    BY <1>5, LimiterAssumption DEF RedisFails, Fault, TypeOK
  <2> QED
    BY <2>1, <2>2 DEF TypeOK, Outcomes
<1>6. ASSUME NEW s \in Servers, Compare(s)
      PROVE  TypeOK'
  <2>1. step' \in Steps /\ HandOK'
    BY <1>6, <1>4 DEF Compare
  <2>2. tally' \in [Callers \X Windows -> Outcomes]
    BY <1>6, CompareTally
  <2> QED
    BY <1>6, <2>1, <2>2 DEF Compare, TypeOK, Outcomes
<1>7. ASSUME NEW s \in Servers, Crash(s)
      PROVE  TypeOK'
  <2>1. step' \in Steps /\ HandOK'
    BY <1>7, <1>4 DEF Crash
  <2>2. crashes' \in 0 .. MaxCrashes /\ UNCHANGED <<now, key, tally, faults>>
    BY <1>7, LimiterAssumption DEF Crash, TypeOK
  <2> QED
    BY <2>1, <2>2 DEF TypeOK
<1>8. CASE Tick
  BY <1>8, LimiterAssumption DEF Tick, TypeOK
<1>9. CASE UNCHANGED vars
  BY <1>9 DEF vars, TypeOK
<1> QED
  BY <1>1, <1>2, <1>3, <1>5, <1>6, <1>7, <1>8, <1>9 DEF Next
\* Whose check ends leaves the others as they are.
LEMMA EndHands ==
    ASSUME TypeOK, HandsBegun, NEW s \in Servers, Ends(s), now' = now
    PROVE  HandsBegun'
<1>1. /\ step'[s] = "idle"
      /\ \A u \in Servers \ {s} : step'[u] = step[u] /\ hand'[u] = hand[u]
  BY DEF Ends, Goto, TypeOK
<1> QED
  BY <1>1 DEF HandsBegun, PlaceOf, Opens

LEMMA HandsBegunStep ==
    TypeOK /\ HandsBegun /\ [Next]_vars => HandsBegun'
<1> SUFFICES ASSUME TypeOK, HandsBegun, [Next]_vars PROVE HandsBegun'
  OBVIOUS
<1>1. ASSUME NEW s \in Servers, NEW c \in Callers, Arrive(s, c)
      PROVE  HandsBegun'
  <2>1. /\ hand'[s] =
             [caller |-> c, window |-> now \div Window, count |-> 0]
        /\ \A u \in Servers \ {s} : step'[u] = step[u] /\ hand'[u] = hand[u]
        /\ now' = now
    BY <1>1, Domains DEF Arrive, Goto
  <2>2. (now \div Window) * Window <= now
    BY ClockInWindow DEF TypeOK
  <2>3. PlaceOf(s)'[2] = now \div Window
    BY <2>1 DEF PlaceOf
  <2> QED
    BY <2>1, <2>2, <2>3 DEF HandsBegun, PlaceOf, Opens
<1>2. ASSUME NEW s \in Servers, Incr(s)
      PROVE  HandsBegun'
  <2>1. /\ hand'[s].caller = hand[s].caller /\ hand'[s].window = hand[s].window
        /\ \A u \in Servers \ {s} : step'[u] = step[u] /\ hand'[u] = hand[u]
        /\ now' = now /\ step[s] # "idle"
    <3>1. hand[s] \in [caller : Callers, window : Windows, count : Nat]
      BY <1>2, HandType DEF Incr
    <3> QED
      BY <1>2, <3>1 DEF Incr, Goto, TypeOK
  <2> QED
    BY <2>1 DEF HandsBegun, PlaceOf, Opens
<1>3. ASSUME NEW s \in Servers, Expire(s)
      PROVE  HandsBegun'
  BY <1>3 DEF Expire, Goto, TypeOK, HandsBegun, PlaceOf, Opens
<1>4. ASSUME NEW s \in Servers, RedisFails(s) \/ Compare(s) \/ Crash(s)
      PROVE  HandsBegun'
  BY <1>4, EndHands DEF RedisFails, Compare, Crash
<1>5. CASE Tick
  <2>1. ASSUME NEW s \in Servers, step[s] # "idle"
        PROVE  Opens(PlaceOf(s)) <= now + 1
    BY <2>1, HandType, PlaceTimes DEF HandsBegun, TypeOK
  <2> QED
    BY <1>5, <2>1 DEF Tick, HandsBegun, PlaceOf, Opens
<1>6. CASE UNCHANGED vars
  BY <1>6 DEF vars, HandsBegun, PlaceOf, Opens
<1> QED
  BY <1>1, <1>2, <1>3, <1>4, <1>5, <1>6 DEF Next

\* INCR keeps the end of a key's life or makes a key without one; EXPIRE is
\* of a request whose window has begun.
LEMMA IncrementedLasts ==
    ASSUME TypeOK, KeysLast, NEW s \in Servers, step[s] # "idle", Incremented(s)
    PROVE  KeysLast'
<1>1. ASSUME NEW k \in Places PROVE Closes(k) <= key'[k].until
  <2>1. Closes(k) <= Held(k).until
    BY HeldType, PlaceTimes DEF KeysLast
  <2> QED
    BY <2>1, IncrementedType DEF KeysLast
<1> QED
  BY <1>1 DEF KeysLast, Closes, Opens

LEMMA ExpiredLasts ==
    ASSUME TypeOK, HandsBegun, KeysLast, NEW s \in Servers, step[s] # "idle",
           key' = [key EXCEPT ![KeyOf(s)].until = now + Window]
    PROVE  KeysLast'
<1>1. ASSUME NEW k \in Places PROVE Closes(k) <= key'[k].until
  <2>1. CASE k = PlaceOf(s)
    <3>1. key'[k].until = now + Window
      BY <2>1, ExpiredType
    <3>2. Opens(k) <= now
      BY <2>1 DEF HandsBegun
    <3> QED
      BY <3>1, <3>2, PlaceTimes, LimiterAssumption DEF TypeOK
  <2>2. CASE k # PlaceOf(s)
    BY <2>2, ExpiredType DEF KeysLast
  <2> QED
    BY <2>1, <2>2
<1> QED
  BY <1>1 DEF KeysLast, Closes, Opens

LEMMA KeysLastStep ==
    TypeOK /\ HandsBegun /\ KeysLast /\ [Next]_vars => KeysLast'
<1> SUFFICES ASSUME TypeOK, HandsBegun, KeysLast, [Next]_vars PROVE KeysLast'
  OBVIOUS
<1>1. ASSUME key' = key PROVE KeysLast'
  BY <1>1 DEF KeysLast, Closes, Opens
<1>2. ASSUME NEW s \in Servers, Incr(s) PROVE KeysLast'
  BY <1>2, IncrementedLasts DEF Incr
<1>3. ASSUME NEW s \in Servers, Expire(s) PROVE KeysLast'
  BY <1>1, <1>3, ExpiredLasts DEF Expire
<1>4. ASSUME NEW s \in Servers, RedisFails(s) PROVE KeysLast'
  BY <1>1, <1>4, FailKey, IncrementedLasts, ExpiredLasts
<1>5. ASSUME NEW s \in Servers,
             (\E c \in Callers : Arrive(s, c)) \/ Compare(s) \/ Crash(s)
      PROVE  KeysLast'
  BY <1>1, <1>5 DEF Arrive, Compare, Crash
<1>6. CASE Tick \/ UNCHANGED vars
  BY <1>1, <1>6 DEF Tick, vars
<1> QED
  BY <1>2, <1>3, <1>4, <1>5, <1>6 DEF Next

-----------------------------------------------------------------------------
(* The balance *)

\* While its window lasts, a key is alive, and its count only grows.
LEMMA HeldOpen ==
    ASSUME TypeOK, KeysLast, NEW k \in Places, now < Closes(k)
    PROVE  Held(k) = key[k]
<1>1. now < key[k].until
  BY PlaceTimes, HeldType DEF KeysLast, TypeOK
<1> QED
  BY <1>1, HeldType DEF Held, TypeOK

\* Where nothing is counted or decided the balance stays.
LEMMA BalanceUntouched ==
    ASSUME NEW k \in Places, Balance(k), now' = now,
           key'[k].count = key[k].count, tally'[k] = tally[k],
           UNCHANGED <<Uncounted(k), ToRefuse(k), ToPass(k)>>
    PROVE  Balance(k)'
BY DEF Balance, CountsEarned, RefusalsDue, PassesCounted, LatePassesFew, Closes,
       Opens, Capped

LEMMA ArriveBalance ==
    ASSUME IInv, NEW s \in Servers, NEW c \in Callers, Arrive(s, c),
           NEW k \in Places
    PROVE  Balance(k)'
<1>0. TypeOK /\ Balance(k) /\ now' = now /\ key' = key
  BY DEF IInv, Arrive
<1>1. CASE k # <<c, now \div Window>>
  BY <1>0, <1>1, ArriveSizes, ArriveTally, BalanceUntouched
<1>2. CASE k = <<c, now \div Window>>
  <2>1. tally'[k] = [tally[k] EXCEPT !.arrived = @ + 1]
    BY <1>0, <1>2, ArriveTally
  <2>2. /\ tally'[k].arrived = tally[k].arrived + 1
        /\ tally'[k].refused = tally[k].refused
        /\ tally'[k].passed = tally[k].passed
        /\ tally'[k].uncounted = tally[k].uncounted
    BY <1>0, <2>1, TallyType DEF Outcomes
  <2>3. Uncounted(k)' = Uncounted(k) + 1
        /\ UNCHANGED <<ToRefuse(k), ToPass(k)>>
    BY <1>0, <1>2, ArriveSizes
  <2>4. now < Closes(k) /\ Closes(k)' = Closes(k)
    BY <1>0, <1>2, ClockInWindow DEF Closes, Opens, TypeOK
  <2>5. Capped(key[k].count)' = Capped(key[k].count)
        /\ Capped(key[k].count) \in Nat
    BY <1>0, HeldType, LimiterAssumption DEF Capped
  <2>6. CountsEarned(k)' /\ RefusalsDue(k)'
    BY <1>0, <2>2, <2>3, <2>5, Sizes, TallyType, LimiterAssumption
       DEF Balance, CountsEarned, RefusalsDue
  <2>7. PassesCounted(k)' /\ LatePassesFew(k)'
    BY <1>0, <2>2, <2>3, <2>4, <2>5, Sizes, TallyType, PlaceTimes
       DEF Balance, PassesCounted, LatePassesFew, TypeOK
  <2> QED
    BY <2>6, <2>7 DEF Balance
<1> QED
  BY <1>1, <1>2

LEMMA IncrBalance ==
    ASSUME IInv, NEW s \in Servers, Incr(s), NEW k \in Places
    PROVE  Balance(k)'
<1>0. /\ TypeOK /\ KeysLast /\ Balance(k) /\ now' = now /\ tally' = tally
      /\ Incremented(s) /\ step[s] # "idle"
  BY DEF IInv, Incr
<1>1. CASE k # PlaceOf(s)
  BY <1>0, <1>1, IncrSizes, IncrementedType, BalanceUntouched
<1>2. CASE k = PlaceOf(s)
  <2> DEFINE n == Held(k).count
  <2>1. key'[k].count = n + 1 /\ n \in Nat /\ (n = key[k].count \/ n = 0)
        /\ key[k].count \in Nat
    BY <1>0, <1>2, IncrementedType, HeldType
  <2>2. now < Closes(k) => n = key[k].count
    BY <1>0, HeldOpen
  <2>3. /\ Uncounted(k)' = Uncounted(k) - 1
        /\ n + 1 > Requests =>
             ToRefuse(k)' = ToRefuse(k) + 1 /\ UNCHANGED ToPass(k)
        /\ ~(n + 1 > Requests) =>
             ToPass(k)' = ToPass(k) + 1 /\ UNCHANGED ToRefuse(k)
    BY <1>0, <1>2, IncrSizes
  <2> HIDE DEF n
  <2>4. /\ Capped(key[k].count)' = Capped(n + 1)
        /\ Capped(n + 1) \in Nat /\ Capped(key[k].count) \in Nat
        /\ Capped(n + 1) <= Capped(key[k].count) + 1
        /\ n + 1 > Requests =>
             Capped(key[k].count) = Requests /\ Capped(n + 1) = Requests
        /\ ~(n + 1 > Requests) /\ n = key[k].count =>
             Capped(n + 1) = Capped(key[k].count) + 1
    BY <2>1, LimiterAssumption DEF Capped
  <2>5. Closes(k)' = Closes(k)
    BY DEF Closes, Opens
  <2>6. CountsEarned(k)'
    BY <1>0, <2>3, <2>4, Sizes, TallyType, LimiterAssumption
       DEF Balance, CountsEarned
  <2>7. RefusalsDue(k)'
    BY <1>0, <2>3, <2>4, Sizes, TallyType, LimiterAssumption
       DEF Balance, CountsEarned, RefusalsDue
  <2>8. PassesCounted(k)'
    BY <1>0, <2>2, <2>3, <2>4, <2>5, Sizes, TallyType, PlaceTimes,
       LimiterAssumption DEF Balance, PassesCounted, TypeOK
  <2>9. LatePassesFew(k)'
    BY <1>0, <2>3, <2>5, Sizes, TallyType, PlaceTimes, LimiterAssumption
       DEF Balance, LatePassesFew, TypeOK
  <2> QED
    BY <2>6, <2>7, <2>8, <2>9 DEF Balance
<1> QED
  BY <1>1, <1>2

LEMMA ExpireBalance ==
    ASSUME IInv, NEW s \in Servers, Expire(s), NEW k \in Places
    PROVE  Balance(k)'
<1>1. TypeOK /\ Balance(k) /\ now' = now /\ tally' = tally /\ step[s] # "idle"
  BY DEF IInv, Expire
<1>2. key'[k].count = key[k].count
  BY <1>1, ExpiredType DEF Expire
<1> QED
  BY <1>1, <1>2, ExpireSizes, BalanceUntouched
\* A request that Redis failed to count passes and is counted as such.
LEMMA FailBalance ==
    ASSUME IInv, NEW s \in Servers, RedisFails(s), NEW k \in Places
    PROVE  Balance(k)'
<1>0. /\ TypeOK /\ Balance(k) /\ now' = now
      /\ step[s] # "idle" /\ Ends(s)
  BY FailKey DEF IInv, RedisFails
<1>1. CASE k # PlaceOf(s)
  <2>1. key'[k].count = key[k].count
    BY <1>0, <1>1, FailKey, IncrementedType, ExpiredType
  <2> QED
    BY <1>0, <1>1, <2>1, EndSizes, FailTally, BalanceUntouched
<1>2. CASE k = PlaceOf(s)
  <2>1. tally'[k] = [tally[k] EXCEPT !.passed = @ + 1, !.uncounted = @ + 1]
    BY <1>0, <1>2, FailTally
  <2>2. /\ tally'[k].arrived = tally[k].arrived
        /\ tally'[k].refused = tally[k].refused
        /\ tally'[k].passed = tally[k].passed + 1
        /\ tally'[k].uncounted = tally[k].uncounted + 1
    <3>1. tally[k] \in Outcomes
      BY <1>0, TallyType
    <3> QED
      BY <2>1, <3>1 DEF Outcomes
  <2>3. /\ key'[k].count \in Nat /\ key[k].count \in Nat
        /\ \/ key'[k].count = key[k].count
           \/ step[s] = "incr" /\ key'[k].count = key[k].count + 1
           \/ step[s] = "incr" /\ key'[k].count = 1
    <3>1. /\ key'[k].count \in Nat /\ key[k].count \in Nat
      BY <1>0, FailKey, HeldType DEF Places
    <3>2. ASSUME Incremented(s)
          PROVE  key'[k].count = key[k].count + 1 \/ key'[k].count = 1
      <4>1. key'[k].count = Held(k).count + 1
        BY <1>0, <1>2, <3>2, IncrementedType
      <4>2. Held(k).count = key[k].count \/ Held(k).count = 0
        BY <1>0, HeldType
      <4> QED
        BY <4>1, <4>2
    <3> QED
      BY <1>0, <1>2, <3>1, <3>2, FailKey, ExpiredType
  <2>4. /\ Capped(key[k].count)' = Capped(key'[k].count)
        /\ Capped(key'[k].count) \in Nat /\ Capped(key[k].count) \in Nat
        /\ key'[k].count = key[k].count =>
             Capped(key'[k].count) = Capped(key[k].count)
        /\ step[s] = "incr" => Capped(key'[k].count) <= Capped(key[k].count) + 1
    BY <2>3, LimiterAssumption DEF Capped
  <2>5. \/ /\ step[s] = "incr" /\ Uncounted(k)' = Uncounted(k) - 1
           /\ UNCHANGED <<ToRefuse(k), ToPass(k)>>
        \/ /\ key'[k].count = key[k].count /\ ToRefuse(k)' = ToRefuse(k) - 1
           /\ UNCHANGED <<Uncounted(k), ToPass(k)>>
        \/ /\ key'[k].count = key[k].count /\ ToPass(k)' = ToPass(k) - 1
           /\ UNCHANGED <<Uncounted(k), ToRefuse(k)>>
    BY <1>0, <1>2, <2>3, EndSizes
  <2>6. CountsEarned(k)'
    BY <1>0, <2>2, <2>4, <2>5, Sizes, TallyType DEF Balance, CountsEarned
  <2>7. RefusalsDue(k)'
    BY <1>0, <2>2, <2>5, Sizes, TallyType, LimiterAssumption
       DEF Balance, RefusalsDue
  <2>8. Closes(k)' = Closes(k)
    BY DEF Closes, Opens
  <2>9. PassesCounted(k)'
    <3>1. SUFFICES ASSUME now < Closes(k)
                   PROVE  tally'[k].passed + ToPass(k)' <=
                            Capped(key'[k].count) + tally'[k].uncounted
      BY <1>0, <2>4, <2>8 DEF PassesCounted
    <3>2. tally[k].passed + ToPass(k) <= Capped(key[k].count) + tally[k].uncounted
      BY <1>0, <3>1 DEF Balance, PassesCounted
    <3>3. key'[k].count = key[k].count \/ key'[k].count = key[k].count + 1
      BY <1>0, <1>2, <3>1, FailKey, IncrementedType, ExpiredType, HeldOpen
         DEF IInv
    <3>4. Capped(key[k].count) <= Capped(key'[k].count)
      BY <2>3, <3>3, LimiterAssumption DEF Capped
    <3> QED
      BY <2>2, <2>4, <2>5, <3>2, <3>4, Sizes, TallyType, <1>0
  <2>10. LatePassesFew(k)'
    BY <1>0, <2>2, <2>5, <2>8, Sizes, TallyType, PlaceTimes, LimiterAssumption
       DEF Balance, LatePassesFew, TypeOK
  <2> QED
    BY <2>6, <2>7, <2>9, <2>10 DEF Balance
<1> QED
  BY <1>1, <1>2
LEMMA CompareBalance ==
    ASSUME IInv, NEW s \in Servers, Compare(s), NEW k \in Places
    PROVE  Balance(k)'
<1>0. /\ TypeOK /\ Balance(k) /\ now' = now /\ key' = key
      /\ step[s] = "compare" /\ Ends(s)
  BY DEF IInv, Compare
<1>1. CASE k # PlaceOf(s)
  BY <1>0, <1>1, EndSizes, CompareTally, BalanceUntouched
<1>2. CASE k = PlaceOf(s)
  <2>1. Closes(k)' = Closes(k) /\ Capped(key[k].count)' = Capped(key[k].count)
        /\ Capped(key[k].count) \in Nat
    BY <1>0, HeldType, LimiterAssumption DEF Closes, Opens, Capped
  <2>2. tally[k] \in Outcomes
    BY <1>0, TallyType
  <2>3. CASE hand[s].count > Requests
    <3>1. tally'[k] = [tally[k] EXCEPT !.refused = @ + 1]
      BY <1>0, <1>2, <2>3, CompareTally
    <3>2. /\ tally'[k].arrived = tally[k].arrived
          /\ tally'[k].refused = tally[k].refused + 1
          /\ tally'[k].passed = tally[k].passed
          /\ tally'[k].uncounted = tally[k].uncounted
      BY <2>2, <3>1 DEF Outcomes
    <3>3. /\ ToRefuse(k)' = ToRefuse(k) - 1
          /\ UNCHANGED <<Uncounted(k), ToPass(k)>>
      BY <1>0, <1>2, <2>3, EndSizes
    <3>4. ToRefuse(k) > 0
      <4>1. s \in Refusable(k)
        BY <1>0, <1>2, <2>3 DEF Refusable
      <4> QED
        BY <4>1, Sizes, FS_EmptySet DEF ToRefuse
    <3>5. CountsEarned(k)'
      BY <1>0, <2>1, <3>2, <3>3, Sizes, TallyType DEF Balance, CountsEarned
    <3>6. RefusalsDue(k)'
      BY <1>0, <3>2, <3>3, <3>4, Sizes, TallyType, LimiterAssumption
         DEF Balance, RefusalsDue
    <3>7. PassesCounted(k)' /\ LatePassesFew(k)'
      BY <1>0, <2>1, <3>2, <3>3 DEF Balance, PassesCounted, LatePassesFew
    <3> QED
      BY <3>5, <3>6, <3>7 DEF Balance
  <2>4. CASE ~(hand[s].count > Requests)
    <3>1. tally'[k] = [tally[k] EXCEPT !.passed = @ + 1]
      BY <1>0, <1>2, <2>4, CompareTally
    <3>2. /\ tally'[k].arrived = tally[k].arrived
          /\ tally'[k].refused = tally[k].refused
          /\ tally'[k].passed = tally[k].passed + 1
          /\ tally'[k].uncounted = tally[k].uncounted
      BY <2>2, <3>1 DEF Outcomes
    <3>3. /\ ToPass(k)' = ToPass(k) - 1
          /\ UNCHANGED <<Uncounted(k), ToRefuse(k)>>
      BY <1>0, <1>2, <2>4, EndSizes
    <3>4. CountsEarned(k)' /\ RefusalsDue(k)'
      BY <1>0, <2>1, <3>2, <3>3 DEF Balance, CountsEarned, RefusalsDue
    <3>5. PassesCounted(k)' /\ LatePassesFew(k)'
      BY <1>0, <2>1, <3>2, <3>3, Sizes, TallyType
         DEF Balance, PassesCounted, LatePassesFew
    <3> QED
      BY <3>4, <3>5 DEF Balance
  <2> QED
    BY <2>3, <2>4
<1> QED
  BY <1>1, <1>2

LEMMA CrashBalance ==
    ASSUME IInv, NEW s \in Servers, Crash(s), NEW k \in Places
    PROVE  Balance(k)'
<1>0. /\ TypeOK /\ Balance(k) /\ now' = now /\ key' = key /\ tally' = tally
      /\ step[s] # "idle" /\ Ends(s)
  BY DEF IInv, Crash
<1>1. /\ Uncounted(k)' <= Uncounted(k) /\ ToRefuse(k)' <= ToRefuse(k)
      /\ ToPass(k)' <= ToPass(k)
      /\ Uncounted(k)' \in Int /\ ToRefuse(k)' \in Int /\ ToPass(k)' \in Int
  BY <1>0, EndSizes, Sizes
<1>2. Closes(k)' = Closes(k) /\ Capped(key[k].count)' = Capped(key[k].count)
      /\ Capped(key[k].count) \in Nat
  BY <1>0, HeldType, LimiterAssumption DEF Closes, Opens, Capped
<1>3. CountsEarned(k)' /\ RefusalsDue(k)'
  BY <1>0, <1>1, <1>2, Sizes, TallyType, LimiterAssumption
     DEF Balance, CountsEarned, RefusalsDue
<1>4. PassesCounted(k)' /\ LatePassesFew(k)'
  BY <1>0, <1>1, <1>2, Sizes, TallyType, LimiterAssumption
     DEF Balance, PassesCounted, LatePassesFew
<1> QED
  BY <1>3, <1>4 DEF Balance

\* When a window ends, as many as there are processes are still on the way.
LEMMA TickBalance ==
    ASSUME IInv, Tick, NEW k \in Places
    PROVE  Balance(k)'
<1>0. /\ TypeOK /\ Balance(k) /\ now' = now + 1 /\ key' = key /\ tally' = tally
      /\ UNCHANGED <<Uncounted(k), ToRefuse(k), ToPass(k)>>
  BY SameSizes DEF IInv, Tick
<1>1. Closes(k)' = Closes(k) /\ Capped(key[k].count)' = Capped(key[k].count)
      /\ Capped(key[k].count) \in Nat /\ Capped(key[k].count) <= Requests
  BY <1>0, HeldType, LimiterAssumption DEF Closes, Opens, Capped
<1>2. CountsEarned(k)' /\ RefusalsDue(k)'
  BY <1>0, <1>1 DEF Balance, CountsEarned, RefusalsDue
<1>3. PassesCounted(k)'
  BY <1>0, <1>1, PlaceTimes DEF Balance, PassesCounted, TypeOK
<1>4. LatePassesFew(k)'
  BY <1>0, <1>1, Sizes, TallyType, PlaceTimes, LimiterAssumption
     DEF Balance, PassesCounted, LatePassesFew, TypeOK
<1> QED
  BY <1>2, <1>3, <1>4 DEF Balance

LEMMA BalanceStep ==
    ASSUME IInv, [Next]_vars
    PROVE  (\A k \in Places : Balance(k))'
<1>1. ASSUME NEW k \in Places PROVE Balance(k)'
  <2>1. CASE UNCHANGED vars
    BY <2>1, SameSizes, BalanceUntouched DEF vars, IInv
  <2> QED
    BY <2>1, ArriveBalance, IncrBalance, ExpireBalance, FailBalance,
       CompareBalance, CrashBalance, TickBalance DEF Next
<1> QED
  BY <1>1 DEF Places, Windows

LEMMA IInvStep == IInv /\ [Next]_vars => IInv'
BY TypeStep, HandsBegunStep, KeysLastStep, BalanceStep DEF IInv

LEMMA Invariant == Spec => []IInv
BY InitInv, IInvStep, PTL DEF Spec

-----------------------------------------------------------------------------
(* The theorems *)

(* The clock, the keys, the requests in hand and the tally keep their       *)
(* types, for any processes, callers, limits and failures.                  *)
THEOREM TypeCorrect == Spec => []TypeOK
BY Invariant, PTL DEF IInv

(* A request is refused only when as many as the limit have come before it  *)
(* in its window, whatever fails or dies, for any number of processes: no   *)
(* key counts a request twice or for another window.                        *)
THEOREM RefusalsAreEarned == Spec => []RefusalsEarned
<1>1. IInv => RefusalsEarned
  <2> SUFFICES ASSUME IInv, NEW k \in DOMAIN tally, tally[k].refused > 0
               PROVE  tally[k].arrived >= Requests + tally[k].refused
    BY DEF RefusalsEarned
  <2>1. k \in Places /\ TypeOK
    BY DEF IInv, TypeOK, Places
  <2>2. RefusalsDue(k)
    BY <2>1 DEF IInv, Balance
  <2> QED
    BY <2>1, <2>2, Sizes, TallyType, LimiterAssumption DEF RefusalsDue
<1> QED
  BY <1>1, Invariant, PTL

(* In a window no more requests of a caller pass than the limit, the ones   *)
(* Redis failed to count and one for each process, for any number of        *)
(* processes, any limit and any window: INCR and EXPIRE being two commands  *)
(* costs no more than that.                                                 *)
THEOREM LimitIsKept == Spec => []LimitHolds
<1>1. IInv => LimitHolds
  <2> SUFFICES ASSUME IInv, NEW k \in DOMAIN tally
               PROVE  tally[k].passed <=
                        Requests + tally[k].uncounted + Cardinality(Servers)
    BY DEF LimitHolds
  <2>1. k \in Places /\ TypeOK
    BY DEF IInv, TypeOK, Places
  <2>2. PassesCounted(k) /\ LatePassesFew(k)
    BY <2>1 DEF IInv, Balance
  <2>3. Capped(key[k].count) \in Nat /\ Capped(key[k].count) <= Requests
    BY <2>1, HeldType, LimiterAssumption DEF Capped
  <2>4. now < Closes(k) \/ Closes(k) <= now
    BY <2>1, PlaceTimes DEF TypeOK
  <2> QED
    BY <2>1, <2>2, <2>3, <2>4, Sizes, TallyType, LimiterAssumption
       DEF PassesCounted, LatePassesFew
<1> QED
  BY <1>1, Invariant, PTL
=============================================================================
