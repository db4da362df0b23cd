---------------------------- MODULE PagingProofs ----------------------------
(***************************************************************************)
(* What scrolling skips and repeats, for any rows, batches, page sizes and *)
(* numbers of creations, details, edits, refreshes and restarts.           *)
(*                                                                         *)
(* The list counts on its length as an offset, and the server on its rows. *)
(* A page is asked for at an offset, cut out of rows that have moved since *)
(* the list was new, and put behind a list that a creation may have made   *)
(* longer meanwhile, by entries of its own and by the page itself.  The    *)
(* proof counts the rows before the offset that are missing from the list, *)
(* now and at the start of the page under way.                             *)
(***************************************************************************)
EXTENDS Paging, FiniteSetTheorems, SequenceTheorems, WellFoundedInduction, TLAPS

-----------------------------------------------------------------------------
(* The inductive invariant *)

IdsOf(list) == {e.id : e \in Range(list)}

\* The first rows of an order, and how many of them a list does not have.
First(order, r) == {order[i] : i \in {j \in DOMAIN order : j <= r}}

Missing(order, list, r) == Cardinality(First(order, r) \ IdsOf(list))

CachedIds(box) == {id \in Ids : box[id] # "absent"}

\* An order has every row once, and rows are never deleted.
Ordered(order) == IsInjective(order) /\ Len(order) <= booked

\* A task from the answer on, and from the merge on.
Later == {"answered", "clear", "save", "show"}
Saving == {"clear", "save", "show"}

\* What a sync or a refresh is about to show of n rows.
Right(r, n) ==
    /\ r.offset = 0
    /\ r.at \in Later => /\ IsInjective(r.order) /\ Len(r.order) <= n
                         /\ r.rows = Slice(r.order, 0)
    /\ r.at \in Saving => Range(r.rows) \subseteq IdsOf(r.list) /\ Len(r.rows) <= Len(r.list)

Requested ==
    /\ Ordered(base)
    /\ \A t \in Tasks \ {"more"} : Right(request[t], booked)
    /\ isFetchingMore <=> request["more"].at # "none"

OffsetIsLength == offset = Len(shown)

Reached ==
    clean => Missing(base, shown, IF hasMore THEN offset - Moved ELSE Len(base)) <= extra

\* The rows a page was cut out of had moved by d.
Page(rows, o, d) ==
    /\ Len(rows) <= Limit
    /\ Len(rows) < Limit => Len(base) + d <= o + Len(rows)
    /\ Len(rows) > 0 => o + Len(rows) <= Len(base) + d
    /\ \A i \in DOMAIN base : o - d < i /\ i <= o - d + Len(rows) => base[i] \in Range(rows)

\* What is missing before the start of a page, and by how much the list has
\* become longer since it was asked for.
StartsRight(o, d) ==
    /\ Missing(base, shown, o - d) <= extra
    /\ Missing(base, shown, o - d) + offset - o <= extra + Moved - d

OnTheWay ==
    LET more == request["more"]  o == more.offset IN
    clean /\ more.at # "none" =>
        /\ more.at = "sent" => StartsRight(o, Moved)
        /\ more.at \in Later =>
             \E d \in 0 .. Moved : StartsRight(o, d) /\ Page(more.rows, o, d)

IInv ==
    /\ TypeOK /\ Requested /\ OffsetIsLength
    /\ Reached /\ OnTheWay /\ RepeatsOnlyForMoved

-----------------------------------------------------------------------------
(* What Only keeps *)

(* A non-empty set of naturals has a least element. *)
LEMMA Least ==
    ASSUME NEW I \in SUBSET Nat, I # {}
    PROVE  \E n \in I : \A k \in I : n <= k
<1> DEFINE R == OpToRel(<, Nat)
<1>1. IsWellFoundedOn(R, Nat)
  BY NatLessThanWellFounded
<1> HIDE DEF R
<1>2. PICK n \in I : \A k \in I : ~(<<k, n>> \in R)
  BY <1>1, WFMin
<1>3. R = {ss \in Nat \X Nat : ss[1] < ss[2]}
  BY DEF R, OpToRel
<1>4. ASSUME NEW k \in I PROVE n <= k
  <2>1. <<k, n>> \in Nat \X Nat /\ <<k, n>>[1] = k /\ <<k, n>>[2] = n
    OBVIOUS
  <2>2. ~(k < n)
    BY <1>2, <1>3, <2>1
  <2> QED
    BY <2>2
<1> QED
  BY <1>4

\* One step of Only, from what is kept of the places before.
Keep(seq, set, before, i) ==
    IF i = 0 THEN <<>>
    ELSE IF seq[i] \in set THEN Append(before[i - 1], seq[i]) ELSE before[i - 1]

(* The recursion of Only has a solution. *)
LEMMA KeptExists ==
    ASSUME NEW seq, NEW set, NEW n \in Nat
    PROVE  \E f : f = [i \in 0 .. n |-> Keep(seq, set, f, i)]
<1> DEFINE Solved(m) == \E f : f = [i \in 0 .. m |-> Keep(seq, set, f, i)]
           Bad == {m \in Nat : ~Solved(m)}
<1>1. ASSUME Bad # {} PROVE FALSE
  <2>1. PICK m \in Bad : \A k \in Bad : m <= k
    BY <1>1, Least
  <2>2. CASE m = 0
    <3> DEFINE f == [i \in 0 .. 0 |-> <<>>]
    <3>1. f = [i \in 0 .. 0 |-> Keep(seq, set, f, i)]
      BY DEF Keep
    <3> QED
      BY <2>1, <2>2, <3>1
  <2>3. CASE m # 0
    <3>1. m - 1 \in Nat /\ Solved(m - 1)
      BY <2>1, <2>3
    <3>2. PICK f : f = [i \in 0 .. m - 1 |-> Keep(seq, set, f, i)]
      BY <3>1
    <3> DEFINE g == [i \in 0 .. m |-> IF i = m THEN Keep(seq, set, f, m) ELSE f[i]]
    <3>3. ASSUME NEW i \in 0 .. m PROVE g[i] = Keep(seq, set, g, i)
      <4>1. CASE i = m
        <5>1. g[m - 1] = f[m - 1]
          BY <3>1
        <5> QED
          BY <4>1, <5>1, <2>3 DEF Keep
      <4>2. CASE i # m
        <5>1. i \in 0 .. m - 1 /\ g[i] = f[i] /\ f[i] = Keep(seq, set, f, i)
          BY <3>2, <4>2
        <5>2. i # 0 => g[i - 1] = f[i - 1]
          BY <4>2
        <5> QED
          BY <5>1, <5>2 DEF Keep
      <4> QED
        BY <4>1, <4>2
    <3>4. g = [i \in 0 .. m |-> Keep(seq, set, g, i)]
      BY <3>3
    <3> QED
      BY <2>1, <3>4
  <2> QED
    BY <2>2, <2>3
<1> QED
  BY <1>1

LEMMA OnlyUnfolds ==
    ASSUME NEW S, NEW seq \in Seq(S), NEW set
    PROVE  \E f : /\ f = [i \in 0 .. Len(seq) |-> Keep(seq, set, f, i)]
                  /\ Only(seq, set) = f[Len(seq)]
<1> DEFINE f == CHOOSE g : g = [i \in 0 .. Len(seq) |-> Keep(seq, set, g, i)]
<1>1. Len(seq) \in Nat
  OBVIOUS
<1>2. f = [i \in 0 .. Len(seq) |-> Keep(seq, set, f, i)]
  BY <1>1, KeptExists
<1>3. Only(seq, set) = f[Len(seq)]
  BY DEF Only, Keep
<1> QED
  BY <1>2, <1>3

\* The places whose elements are in a set.
Places(seq, set, n) == {j \in 1 .. n : seq[j] \in set}

LEMMA PlacesFinite ==
    ASSUME NEW seq, NEW set, NEW n \in Nat
    PROVE  IsFiniteSet(Places(seq, set, n)) /\ Cardinality(Places(seq, set, n)) \in Nat
<1>1. IsFiniteSet(1 .. n) /\ Places(seq, set, n) \in SUBSET (1 .. n)
  BY FS_Interval DEF Places
<1> QED
  BY <1>1, FS_Subset, FS_CardinalityType

LEMMA AppendFacts ==
    ASSUME NEW S, NEW s \in Seq(S), NEW x \in S
    PROVE  /\ Append(s, x) \in Seq(S) /\ Len(Append(s, x)) = Len(s) + 1
           /\ Range(Append(s, x)) = Range(s) \cup {x}
<1>1. /\ DOMAIN s = 1 .. Len(s) /\ Len(s) \in Nat
      /\ Append(s, x) \in Seq(S) /\ Len(Append(s, x)) = Len(s) + 1
      /\ DOMAIN Append(s, x) = 1 .. Len(s) + 1
      /\ Append(s, x)[Len(s) + 1] = x
      /\ \A i \in 1 .. Len(s) : Append(s, x)[i] = s[i]
  OBVIOUS
<1>2. \A i \in 1 .. Len(s) + 1 : i \in 1 .. Len(s) \/ i = Len(s) + 1
  BY <1>1
<1>3. Range(Append(s, x)) \subseteq Range(s) \cup {x}
  BY <1>1, <1>2 DEF Range
<1>4. Range(s) \subseteq Range(Append(s, x))
  <2>1. \A i \in 1 .. Len(s) : i \in 1 .. Len(s) + 1
    BY <1>1
  <2> QED
    BY <1>1, <2>1 DEF Range
<1>5. x \in Range(Append(s, x))
  <2>1. Len(s) + 1 \in 1 .. Len(s) + 1
    BY <1>1
  <2> QED
    BY <1>1, <2>1 DEF Range
<1> QED
  BY <1>1, <1>3, <1>4, <1>5

(* Only keeps exactly what is in the set, each place once. *)
LEMMA OnlyFacts ==
    ASSUME NEW S, NEW seq \in Seq(S), NEW set
    PROVE  /\ Only(seq, set) \in Seq(S)
           /\ Range(Only(seq, set)) = Range(seq) \cap set
           /\ Len(Only(seq, set)) = Cardinality(Places(seq, set, Len(seq)))
<1>1. PICK f : /\ f = [i \in 0 .. Len(seq) |-> Keep(seq, set, f, i)]
               /\ Only(seq, set) = f[Len(seq)]
  BY OnlyUnfolds
<1>2. Len(seq) \in Nat /\ DOMAIN seq = 1 .. Len(seq)
  OBVIOUS
<1>3. \A i \in 0 .. Len(seq) : f[i] = Keep(seq, set, f, i)
  BY <1>1
<1> DEFINE Kept(i) == /\ f[i] \in Seq(S)
                      /\ Range(f[i]) = {seq[j] : j \in Places(seq, set, i)}
                      /\ Len(f[i]) = Cardinality(Places(seq, set, i))
           Bad == {i \in 0 .. Len(seq) : ~Kept(i)}
<1>4. ASSUME Bad # {} PROVE FALSE
  <2>1. PICK i \in Bad : \A k \in Bad : i <= k
    <3> HIDE DEF Kept
    <3>1. Bad \in SUBSET Nat
      BY <1>2
    <3> HIDE DEF Bad
    <3> QED
      BY <1>4, <3>1, Least
  <2>2. CASE i = 0
    <3>1. f[0] = <<>>
      BY <1>2, <1>3 DEF Keep
    <3>2. Places(seq, set, 0) = {}
      BY DEF Places
    <3>3. <<>> \in Seq(S) /\ Len(<<>>) = 0 /\ Range(<<>>) = {}
      BY DEF Range
    <3>4. {seq[j] : j \in Places(seq, set, 0)} = {}
      BY <3>2
    <3>5. Cardinality(Places(seq, set, 0)) = 0
      BY <3>2, FS_EmptySet
    <3> QED
      BY <2>1, <2>2, <3>1, <3>3, <3>4, <3>5
  <2>3. CASE i # 0
    <3>1. i \in 1 .. Len(seq) /\ i - 1 \in 0 .. Len(seq) /\ ~(i <= i - 1)
      BY <1>2, <2>1, <2>3
    <3>2. Kept(i - 1)
      BY <2>1, <3>1
    <3> DEFINE P == Places(seq, set, i - 1)
    <3>3. f[i] = IF seq[i] \in set THEN Append(f[i - 1], seq[i]) ELSE f[i - 1]
      BY <1>3, <2>3, <3>1 DEF Keep
    <3>4. seq[i] \in S
      BY <1>2, <3>1
    <3>5. CASE seq[i] \in set
      <4>1. i \notin P /\ Places(seq, set, i) = P \cup {i}
        BY <3>1, <3>5 DEF Places
      <4>2. IsFiniteSet(P)
        BY <3>1, PlacesFinite
      <4> HIDE DEF P
      <4>3. Cardinality(Places(seq, set, i)) = Cardinality(P) + 1
        BY <4>1, <4>2, FS_AddElement
      <4>4. {seq[j] : j \in P \cup {i}} = {seq[j] : j \in P} \cup {seq[i]}
        OBVIOUS
      <4>5. /\ f[i] \in Seq(S) /\ Len(f[i]) = Len(f[i - 1]) + 1
            /\ Range(f[i]) = Range(f[i - 1]) \cup {seq[i]}
        BY <3>2, <3>3, <3>4, <3>5, AppendFacts
      <4> QED
        BY <2>1, <3>2, <4>1, <4>3, <4>4, <4>5 DEF P
    <3>6. CASE seq[i] \notin set
      <4>1. Places(seq, set, i) = P
        BY <3>1, <3>6 DEF Places
      <4> QED
        BY <2>1, <3>2, <3>3, <3>6, <4>1
    <3> QED
      BY <3>5, <3>6
  <2> QED
    BY <2>2, <2>3
<1> HIDE DEF Kept
<1>5. Kept(Len(seq))
  BY <1>2, <1>4
<1> USE DEF Kept
<1>6. {seq[j] : j \in Places(seq, set, Len(seq))} = Range(seq) \cap set
  BY <1>2 DEF Places, Range
<1> QED
  BY <1>1, <1>5, <1>6

(* What an order keeps of two sets that share it out is all of it. *)
LEMMA OnlyShares ==
    ASSUME NEW S, NEW seq \in Seq(S), NEW A, NEW B,
           \A x \in Range(seq) : x \in A <=> x \notin B
    PROVE  Len(Only(seq, A)) + Len(Only(seq, B)) = Len(seq)
<1> DEFINE n == Len(seq)
           P == Places(seq, A, n)
           Q == Places(seq, B, n)
<1>1. n \in Nat /\ DOMAIN seq = 1 .. n
  OBVIOUS
<1>2. P \cap Q = {} /\ P \cup Q = 1 .. n
  BY <1>1 DEF Places, Range
<1>3. /\ IsFiniteSet(P) /\ IsFiniteSet(Q)
      /\ Len(Only(seq, A)) = Cardinality(P) /\ Len(Only(seq, B)) = Cardinality(Q)
      /\ Cardinality(P) \in Nat /\ Cardinality(Q) \in Nat
  BY <1>1, PlacesFinite, OnlyFacts
<1> HIDE DEF P, Q, n
<1>4. Cardinality(P \cup Q) = Cardinality(P) + Cardinality(Q) - Cardinality(P \cap Q)
  BY <1>3, FS_Union
<1>5. Cardinality(P \cap Q) = 0
  BY <1>2, FS_EmptySet
<1>6. Cardinality(P \cup Q) = n
  <2>1. Cardinality(1 .. n) = IF 1 > n THEN 0 ELSE n - 1 + 1
    BY <1>1, FS_Interval
  <2>2. n \in Nat
    BY <1>1
  <2>3. Cardinality(1 .. n) = n
    BY <2>1, <2>2
  <2>4. P \cup Q = 1 .. n
    BY <1>2
  <2> QED
    BY <2>3, <2>4
<1> QED
  BY <1>3, <1>4, <1>5, <1>6 DEF n

-----------------------------------------------------------------------------
(* Counting *)

LEMMA Image ==
    ASSUME NEW f, NEW S \in SUBSET DOMAIN f, IsFiniteSet(S)
    PROVE  /\ IsFiniteSet({f[x] : x \in S})
           /\ Cardinality({f[x] : x \in S}) <= Cardinality(S)
           /\ (\A x, y \in S : f[x] = f[y] => x = y) =>
                Cardinality({f[x] : x \in S}) = Cardinality(S)
<1> DEFINE g == [x \in S |-> f[x]]
           T == {f[x] : x \in S}
<1>1. g \in Surjection(S, T)
  BY DEF Surjection
<1>2. (\A x, y \in S : f[x] = f[y] => x = y) => g \in Injection(S, T)
  BY DEF Injection, IsInjective
<1> HIDE DEF g, T
<1>3. /\ IsFiniteSet(T) /\ Cardinality(T) <= Cardinality(S)
      /\ Cardinality(T) = Cardinality(S) <=> g \in Injection(S, T)
  BY <1>1, FS_Surjection
<1> QED
  BY <1>2, <1>3 DEF T

(* As many ids as are in a set: an order without repetitions has each once. *)
LEMMA OnlyCounts ==
    ASSUME NEW S, NEW seq \in Seq(S), IsInjective(seq), NEW set \in SUBSET Range(seq)
    PROVE  IsFiniteSet(set) /\ Len(Only(seq, set)) = Cardinality(set)
<1> DEFINE P == Places(seq, set, Len(seq))
<1>1. Len(seq) \in Nat /\ DOMAIN seq = 1 .. Len(seq)
  OBVIOUS
<1>2. P \in SUBSET DOMAIN seq /\ IsFiniteSet(P)
  BY <1>1, PlacesFinite DEF Places
<1>3. {seq[x] : x \in P} = set
  BY <1>1 DEF Places, Range
<1>4. \A x, y \in P : seq[x] = seq[y] => x = y
  BY <1>2 DEF IsInjective
<1>5. Len(Only(seq, set)) = Cardinality(P)
  BY OnlyFacts
<1> HIDE DEF P
<1> QED
  BY <1>2, <1>3, <1>4, <1>5, Image

LEMMA FirstFinite ==
    ASSUME NEW S, NEW order \in Seq(S), NEW list, NEW r \in Int
    PROVE  /\ IsFiniteSet(First(order, r)) /\ IsFiniteSet(First(order, r) \ IdsOf(list))
           /\ Missing(order, list, r) \in Nat
<1> DEFINE I == {j \in DOMAIN order : j <= r}
<1>1. DOMAIN order = 1 .. Len(order) /\ Len(order) \in Nat
  OBVIOUS
<1>2. IsFiniteSet(I) /\ I \in SUBSET DOMAIN order
  <2>1. IsFiniteSet(1 .. Len(order)) /\ I \in SUBSET (1 .. Len(order))
    BY <1>1, FS_Interval
  <2> HIDE DEF I
  <2> QED
    BY <1>1, <2>1, FS_Subset
<1>3. First(order, r) = {order[i] : i \in I}
  BY DEF First
<1> HIDE DEF I
<1>4. IsFiniteSet(First(order, r))
  BY <1>2, <1>3, Image
<1> QED
  BY <1>4, FS_Subset, FS_CardinalityType DEF Missing

(* A list that has become longer by the rows from a to b misses of the      *)
(* first r rows what it missed of the first a, and what is behind b.        *)
LEMMA MissingAfter ==
    ASSUME NEW S, NEW order \in Seq(S), NEW list, NEW longer,
           IdsOf(list) \subseteq IdsOf(longer),
           NEW a \in Int, NEW b \in Int, a <= b,
           \A i \in DOMAIN order : a < i /\ i <= b => order[i] \in IdsOf(longer),
           NEW r \in Int
    PROVE  Missing(order, longer, r) <=
             Missing(order, list, a) + (IF b < r THEN r - b ELSE 0)
<1> DEFINE X == First(order, r) \ IdsOf(longer)
           A == First(order, a) \ IdsOf(list)
           I == {j \in DOMAIN order : b < j /\ j <= r}
           B == {order[i] : i \in I}
<1>1. DOMAIN order = 1 .. Len(order) /\ Len(order) \in Nat
  OBVIOUS
<1>2. IsFiniteSet(A) /\ Cardinality(A) = Missing(order, list, a)
      /\ Cardinality(X) = Missing(order, longer, r)
      /\ Cardinality(A) \in Nat
  BY FirstFinite DEF Missing
<1>3. X \subseteq A \cup B
  <2> SUFFICES ASSUME NEW x \in X, x \notin B PROVE x \in A
    OBVIOUS
  <2>1. PICK i \in DOMAIN order : i <= r /\ x = order[i] /\ x \notin IdsOf(longer)
    BY DEF First
  <2>2. ~(b < i)
    BY <2>1
  <2>3. ~(a < i)
    BY <2>1, <2>2, <1>1
  <2> QED
    BY <2>1, <2>3, <1>1 DEF First
<1>4. /\ IsFiniteSet(I) /\ I \in SUBSET DOMAIN order
      /\ Cardinality(I) <= IF b < r THEN r - b ELSE 0
      /\ Cardinality(I) \in Nat
  <2>1. I \subseteq b + 1 .. r
    BY <1>1
  <2>2. /\ IsFiniteSet(b + 1 .. r)
        /\ Cardinality(b + 1 .. r) = IF b + 1 > r THEN 0 ELSE r - (b + 1) + 1
    BY FS_Interval
  <2>3. I \in SUBSET DOMAIN order
    OBVIOUS
  <2> HIDE DEF I
  <2>4. IsFiniteSet(I) /\ Cardinality(I) <= Cardinality(b + 1 .. r) /\ Cardinality(I) \in Nat
    BY <2>1, <2>2, FS_Subset, FS_CardinalityType
  <2> QED
    BY <2>2, <2>3, <2>4
<1> HIDE DEF X, A, I
<1>5. IsFiniteSet(B) /\ Cardinality(B) <= Cardinality(I)
  BY <1>4, Image
<1>6. Cardinality(B) \in Nat
  BY <1>5, FS_CardinalityType
<1> HIDE DEF B
<1>7. /\ IsFiniteSet(A \cup B)
      /\ Cardinality(A \cup B) = Cardinality(A) + Cardinality(B) - Cardinality(A \cap B)
  BY <1>2, <1>5, FS_Union
<1>8. Cardinality(A \cap B) \in Nat
  <2>1. A \cap B \subseteq A
    OBVIOUS
  <2> QED
    BY <1>2, <2>1, FS_Subset, FS_CardinalityType
<1>9. Cardinality(X) <= Cardinality(A \cup B) /\ Cardinality(X) \in Nat
  BY <1>3, <1>7, FS_Subset, FS_CardinalityType
<1>10. Cardinality(X) <= Cardinality(A) + Cardinality(B)
  BY <1>2, <1>6, <1>7, <1>8, <1>9
<1> QED
  BY <1>2, <1>4, <1>5, <1>6, <1>9, <1>10

LEMMA AllOfFirst ==
    ASSUME NEW S, NEW order \in Seq(S), NEW r \in Int, Len(order) <= r
    PROVE  First(order, r) = Range(order) /\ First(order, Len(order)) = Range(order)
<1>1. DOMAIN order = 1 .. Len(order) /\ Len(order) \in Nat
  OBVIOUS
<1>2. \A j \in DOMAIN order : j <= Len(order) /\ j <= r
  BY <1>1
<1> QED
  BY <1>2 DEF First, Range

LEMMA FirstCounts ==
    ASSUME NEW S, NEW order \in Seq(S), IsInjective(order), NEW r \in 0 .. Len(order)
    PROVE  Cardinality(First(order, r)) = r
<1> DEFINE I == {j \in DOMAIN order : j <= r}
<1>1. DOMAIN order = 1 .. Len(order) /\ Len(order) \in Nat /\ r \in Nat
  OBVIOUS
<1>2. I = 1 .. r /\ I \in SUBSET DOMAIN order
  BY <1>1
<1>3. First(order, r) = {order[i] : i \in I}
  BY DEF First
<1>4. \A i, j \in I : order[i] = order[j] => i = j
  BY DEF IsInjective
<1> HIDE DEF I
<1>5. IsFiniteSet(1 .. r) /\ Cardinality(1 .. r) = IF 1 > r THEN 0 ELSE r - 1 + 1
  BY <1>1, FS_Interval
<1>6. Cardinality(1 .. r) = r
  BY <1>1, <1>5
<1>7. IsFiniteSet(I) /\ Cardinality(I) = r
  BY <1>2, <1>5, <1>6
<1>8. Cardinality({order[i] : i \in I}) = Cardinality(I)
  <2>1. I \in SUBSET DOMAIN order /\ IsFiniteSet(I)
    BY <1>2, <1>7
  <2> QED
    BY <1>4, <2>1, Image
<1> QED
  BY <1>3, <1>7, <1>8

LEMMA IdsCount ==
    ASSUME NEW S, NEW list \in Seq(S)
    PROVE  /\ IsFiniteSet(IdsOf(list)) /\ Cardinality(IdsOf(list)) \in Nat
           /\ Cardinality(IdsOf(list)) <= Len(list)
<1> DEFINE D == DOMAIN list
           f == [i \in D |-> list[i].id]
<1>1. D = 1 .. Len(list) /\ Len(list) \in Nat
  OBVIOUS
<1>2. IdsOf(list) = {f[i] : i \in D}
  BY DEF IdsOf, Range
<1>3. D \in SUBSET DOMAIN f
  OBVIOUS
<1> HIDE DEF f, D
<1>4. IsFiniteSet(1 .. Len(list))
      /\ Cardinality(1 .. Len(list)) = IF 1 > Len(list) THEN 0 ELSE Len(list) - 1 + 1
  BY <1>1, FS_Interval
<1>5. Cardinality(1 .. Len(list)) = Len(list)
  BY <1>1, <1>4
<1>6. IsFiniteSet(D) /\ Cardinality(D) = Len(list)
  BY <1>1, <1>4, <1>5
<1>7. /\ IsFiniteSet({f[i] : i \in D})
      /\ Cardinality({f[i] : i \in D}) <= Cardinality(D)
  BY <1>3, <1>6, Image
<1> QED
  BY <1>2, <1>6, <1>7, FS_CardinalityType

(* A list shows of the first rows all that are not missing. *)
LEMMA ShownCount ==
    ASSUME NEW R, NEW order \in Seq(R), IsInjective(order), NEW r \in 0 .. Len(order),
           NEW S, NEW list \in Seq(S)
    PROVE  r <= Cardinality(IdsOf(list)) + Missing(order, list, r)
<1> DEFINE F == First(order, r)
           T == IdsOf(list)
<1>1. /\ IsFiniteSet(F) /\ Cardinality(F) = r /\ r \in Int
      /\ Cardinality(F \ T) = Missing(order, list, r)
      /\ IsFiniteSet(T) /\ Cardinality(T) \in Nat
  <2>1. r \in Int
    OBVIOUS
  <2>2. IsFiniteSet(F)
    BY <2>1, FirstFinite
  <2>3. Cardinality(F) = r
    BY FirstCounts
  <2>4. IsFiniteSet(T) /\ Cardinality(T) \in Nat
    BY IdsCount
  <2> QED
    BY <2>1, <2>2, <2>3, <2>4 DEF Missing
<1> HIDE DEF F, T
<1>2. Cardinality(F \ T) = Cardinality(F) - Cardinality(F \cap T)
  BY <1>1, FS_Difference
<1>3. Cardinality(F \cap T) <= Cardinality(T) /\ Cardinality(F \cap T) \in Nat
  <2>1. F \cap T \in SUBSET T
    OBVIOUS
  <2> QED
    BY <1>1, <2>1, FS_Subset, FS_CardinalityType
<1> QED
  BY <1>1, <1>2, <1>3 DEF T

-----------------------------------------------------------------------------
(* What the lists are *)

LEMMA IdFacts ==
    /\ Cached \in Seq(Ids) /\ IsInjective(Cached) /\ Range(Cached) = Ids
    /\ Ids \subseteq Int /\ Rows \subseteq Ids
    /\ \A x \in Ids : x > 0 => x \in Rows
    /\ \A x \in Rows : x \in Nat \ {0}
    /\ \A k \in 1 .. MaxCreations : -k \in Ids
    /\ Limit \in Nat /\ Limit > 0
    /\ Len(Batch) \in Nat /\ Rows = 1 .. Len(Batch)
<1>1. /\ Len(Batch) \in Nat /\ Rows = 1 .. Len(Batch) /\ MaxCreations \in Nat
      /\ Ids = (-MaxCreations .. Len(Batch)) \ {0}
      /\ Limit \in Nat /\ Limit > 0
  BY PagingAssumption DEF PagingAssumption, Rows, Ids
<1>2. Cached \in Seq(Ids)
  BY PagingAssumption DEF PagingAssumption, Ids, Range
<1>3. IsInjective(Cached) /\ Range(Cached) = Ids
  BY PagingAssumption DEF PagingAssumption, Ids
<1>4. Rows \subseteq Ids /\ \A k \in 1 .. MaxCreations : -k \in Ids
  BY <1>1
<1> QED
  BY <1>1, <1>2, <1>3, <1>4

LEMMA RowsAreIds ==
    ASSUME NEW rows \in Seq(Rows)
    PROVE  rows \in Seq(Ids) /\ Range(rows) \subseteq Ids
<1>1. Rows \subseteq Ids
  BY IdFacts
<1>2. \A i \in 1 .. Len(rows) : rows[i] \in Rows
  OBVIOUS
<1> QED
  BY <1>1, <1>2 DEF Range

LEMMA EntryFacts ==
    ASSUME NEW id \in Ids, NEW pending \in BOOLEAN
    PROVE  Entry(id, pending) \in Entries /\ Entry(id, pending).id = id
BY DEF Entry, Entries

LEMMA EntriesOfFacts ==
    ASSUME NEW ids \in Seq(Ids), NEW pending \in BOOLEAN
    PROVE  /\ EntriesOf(ids, pending) \in Seq(Entries)
           /\ Len(EntriesOf(ids, pending)) = Len(ids)
           /\ IdsOf(EntriesOf(ids, pending)) = Range(ids)
<1>1. DOMAIN ids = 1 .. Len(ids) /\ Len(ids) \in Nat /\ \A i \in DOMAIN ids : ids[i] \in Ids
  OBVIOUS
<1>2. \A i \in DOMAIN ids : Entry(ids[i], pending) \in Entries
                            /\ Entry(ids[i], pending).id = ids[i]
  BY <1>1, EntryFacts
<1> DEFINE E == Entries
           f == EntriesOf(ids, pending)
<1>3. DOMAIN f = 1 .. Len(ids) /\ \A i \in DOMAIN f : f[i] \in E /\ f[i].id = ids[i]
  BY <1>1, <1>2 DEF EntriesOf
<1>4. f = [i \in 1 .. Len(ids) |-> f[i]]
  BY <1>1 DEF EntriesOf
<1> HIDE DEF E, f
<1>5. f \in Seq(E) /\ Len(f) = Len(ids)
  BY <1>1, <1>3, <1>4
<1>6. IdsOf(f) = Range(ids)
  BY <1>1, <1>3 DEF IdsOf, Range
<1> QED
  BY <1>5, <1>6 DEF E, f

Boxes == [Ids -> {"absent", "synced", "pending"}]

LEMMA CacheListFacts ==
    ASSUME NEW box \in Boxes
    PROVE  /\ CacheList(box) \in Seq(Entries)
           /\ Len(CacheList(box)) = Cardinality(CachedIds(box))
           /\ IdsOf(CacheList(box)) = CachedIds(box)
           /\ IsFiniteSet(CachedIds(box))
<1> DEFINE ids == Only(Cached, CachedIds(box))
           f == CacheList(box)
           E == Entries
<1>1. /\ ids \in Seq(Ids) /\ Range(ids) = CachedIds(box)
      /\ IsFiniteSet(CachedIds(box)) /\ Len(ids) = Cardinality(CachedIds(box))
  <2>1. CachedIds(box) \in SUBSET Range(Cached)
    BY IdFacts DEF CachedIds
  <2>2. Range(Cached) \cap CachedIds(box) = CachedIds(box)
    BY <2>1
  <2> QED
    BY <2>1, <2>2, IdFacts, OnlyFacts, OnlyCounts
<1>2. f = [i \in DOMAIN ids |-> Entry(ids[i], box[ids[i]] = "pending")]
  BY DEF CacheList, CachedIds
<1> HIDE DEF ids
<1>3. DOMAIN ids = 1 .. Len(ids) /\ Len(ids) \in Nat /\ \A i \in DOMAIN ids : ids[i] \in Ids
  BY <1>1
<1>4. \A i \in DOMAIN ids : (box[ids[i]] = "pending") \in BOOLEAN
  OBVIOUS
<1>5. ASSUME NEW i \in DOMAIN ids PROVE f[i] \in E /\ f[i].id = ids[i]
  <2>1. f[i] = Entry(ids[i], box[ids[i]] = "pending")
    BY <1>2
  <2> QED
    BY <1>3, <1>4, <2>1, EntryFacts
<1>6. f = [i \in 1 .. Len(ids) |-> f[i]] /\ DOMAIN f = 1 .. Len(ids)
  BY <1>2, <1>3
<1> HIDE DEF f, E
<1>7. f \in Seq(E) /\ Len(f) = Len(ids)
  BY <1>3, <1>5, <1>6
<1>8. IdsOf(f) = Range(ids)
  BY <1>3, <1>5, <1>6 DEF IdsOf, Range
<1> QED
  BY <1>1, <1>7, <1>8 DEF f, E

LEMMA ConcatFacts ==
    ASSUME NEW S, NEW s \in Seq(S), NEW t \in Seq(S)
    PROVE  /\ s \o t \in Seq(S) /\ Len(s \o t) = Len(s) + Len(t)
           /\ Range(s \o t) = Range(s) \cup Range(t)
           /\ IdsOf(s \o t) = IdsOf(s) \cup IdsOf(t)
<1> DEFINE u == s \o t
<1>1. /\ DOMAIN s = 1 .. Len(s) /\ Len(s) \in Nat /\ DOMAIN t = 1 .. Len(t) /\ Len(t) \in Nat
      /\ u \in Seq(S) /\ Len(u) = Len(s) + Len(t) /\ DOMAIN u = 1 .. Len(s) + Len(t)
      /\ \A i \in 1 .. Len(s) + Len(t) : u[i] = IF i <= Len(s) THEN s[i] ELSE t[i - Len(s)]
  BY ConcatProperties
<1> HIDE DEF u
<1>2. Range(u) \subseteq Range(s) \cup Range(t)
  <2> SUFFICES ASSUME NEW i \in DOMAIN u PROVE u[i] \in Range(s) \cup Range(t)
    BY DEF Range
  <2>1. CASE i <= Len(s)
    BY <1>1, <2>1 DEF Range
  <2>2. CASE ~(i <= Len(s))
    <3>1. i - Len(s) \in 1 .. Len(t) /\ u[i] = t[i - Len(s)]
      BY <1>1, <2>2
    <3> QED
      BY <1>1, <3>1 DEF Range
  <2> QED
    BY <2>1, <2>2
<1>3. Range(s) \subseteq Range(u)
  <2>1. \A i \in 1 .. Len(s) : i \in DOMAIN u /\ u[i] = s[i]
    BY <1>1
  <2> QED
    BY <1>1, <2>1 DEF Range
<1>4. Range(t) \subseteq Range(u)
  <2> SUFFICES ASSUME NEW i \in 1 .. Len(t) PROVE t[i] \in Range(u)
    BY <1>1 DEF Range
  <2> DEFINE j == Len(s) + i
  <2>1. j \in 1 .. Len(s) + Len(t) /\ ~(j <= Len(s)) /\ j - Len(s) = i
    BY <1>1
  <2>2. j \in DOMAIN u /\ u[j] = t[i]
    BY <1>1, <2>1
  <2> HIDE DEF j
  <2> QED
    BY <2>2 DEF Range
<1>5. Range(u) = Range(s) \cup Range(t)
  BY <1>2, <1>3, <1>4
<1>6. IdsOf(u) = IdsOf(s) \cup IdsOf(t)
  BY <1>5 DEF IdsOf
<1> QED
  BY <1>1, <1>5, <1>6 DEF u

LEMMA SliceFacts ==
    ASSUME NEW S, NEW seq \in Seq(S), NEW from \in Nat
    PROVE  /\ Slice(seq, from) \in Seq(S)
           /\ Len(Slice(seq, from)) <= Limit
           /\ Len(Slice(seq, from)) < Limit => Len(seq) <= from + Len(Slice(seq, from))
           /\ Len(Slice(seq, from)) > 0 => from + Len(Slice(seq, from)) <= Len(seq)
           /\ \A i \in 1 .. Len(Slice(seq, from)) : Slice(seq, from)[i] = seq[from + i]
<1> DEFINE to == Smaller(from + Limit, Len(seq))
           t == Slice(seq, from)
<1>0. \A i \in 1 .. Len(seq) : seq[i] \in S
  OBVIOUS
<1>1. Len(seq) \in Nat /\ Limit \in Nat /\ Limit > 0 /\ from \in Nat
  BY IdFacts
<1>2. to \in Nat /\ to <= Len(seq) /\ to <= from + Limit
      /\ (to = Len(seq) \/ to = from + Limit)
  <2>1. to = IF from + Limit < Len(seq) THEN from + Limit ELSE Len(seq)
    BY DEF Smaller
  <2>2. Len(seq) \in Nat /\ Limit \in Nat /\ from + Limit \in Nat
    BY <1>1
  <2> HIDE DEF to
  <2> QED
    BY <2>1, <2>2
<1>3. t = SubSeq(seq, from + 1, to)
  BY DEF Slice
<1> HIDE DEF to, t
<1>4. ASSUME NEW i \in from + 1 .. to PROVE seq[i] \in S
  <2>1. i \in 1 .. Len(seq)
    BY <1>1, <1>2
  <2> QED
    BY <1>0, <2>1
<1>5. /\ t \in Seq(S)
      /\ Len(t) = IF from + 1 <= to THEN to - (from + 1) + 1 ELSE 0
      /\ \A i \in 1 .. to - (from + 1) + 1 : t[i] = seq[from + 1 + i - 1]
  BY <1>2, <1>3, <1>4, SubSeqProperties
<1>6. Len(t) = IF from < to THEN to - from ELSE 0
  BY <1>2, <1>5
<1>7. \A i \in 1 .. Len(t) : t[i] = seq[from + i]
  BY <1>2, <1>5, <1>6
<1>8. /\ Len(t) <= Limit /\ (Len(t) < Limit => Len(seq) <= from + Len(t))
      /\ (Len(t) > 0 => from + Len(t) <= Len(seq))
  <2>1. CASE from < to
    BY <1>1, <1>2, <1>6, <2>1
  <2>2. CASE ~(from < to)
    BY <1>1, <1>2, <1>6, <2>2
  <2> QED
    BY <2>1, <2>2
<1> QED
  BY <1>5, <1>7, <1>8 DEF t

LEMMA PinnedFacts ==
    ASSUME cache \in Boxes, NEW rows
    PROVE  /\ Pinned(rows) \in Seq(Ids) /\ Len(Pinned(rows)) \in Nat
           /\ Range(Pinned(rows)) = {id \in Ids \ Range(rows) : cache[id] = "pending"}
<1> DEFINE P == {id \in Ids \ Range(rows) : cache[id] = "pending"}
<1>1. Pinned(rows) = Only(Cached, P)
  BY DEF Pinned
<1>2. Range(Cached) \cap P = P
  BY IdFacts
<1> HIDE DEF P
<1>3. Pinned(rows) \in Seq(Ids) /\ Range(Pinned(rows)) = P
  <2>1. Cached \in Seq(Ids)
    BY IdFacts
  <2>2. Only(Cached, P) \in Seq(Ids) /\ Range(Only(Cached, P)) = Range(Cached) \cap P
    BY <2>1, OnlyFacts
  <2> QED
    BY <1>1, <1>2, <2>2
<1> QED
  BY <1>3 DEF P

(* A new list has the rows of its page, and what is pending. *)
LEMMA MergedFacts ==
    ASSUME cache \in Boxes, NEW rows \in Seq(Rows)
    PROVE  /\ Merged(rows) \in Seq(Entries)
           /\ Len(Merged(rows)) = Len(Pinned(rows)) + Len(rows)
           /\ IdsOf(Merged(rows)) = Range(rows) \cup {id \in Ids : cache[id] = "pending"}
<1> DEFINE edited == {id \in Ids : cache[id] = "pending"}
           A == Only(rows, edited)
           B == Only(rows, Ids \ edited)
           P == EntriesOf(Pinned(rows), TRUE)
           Q == EntriesOf(A, TRUE)
           R == EntriesOf(B, FALSE)
           E == Entries
<1>1. Merged(rows) = (P \o Q) \o R
  BY DEF Merged
<1>2. rows \in Seq(Ids) /\ Range(rows) \subseteq Ids
  BY RowsAreIds
<1>3. /\ A \in Seq(Ids) /\ Range(A) = Range(rows) \cap edited
      /\ B \in Seq(Ids) /\ Range(B) = Range(rows) \cap (Ids \ edited)
  BY <1>2, OnlyFacts
<1>4. Len(A) + Len(B) = Len(rows)
  <2>1. \A x \in Range(rows) : x \in edited <=> x \notin Ids \ edited
    BY <1>2
  <2> HIDE DEF edited
  <2> QED
    BY <1>2, <2>1, OnlyShares
<1>5. /\ Pinned(rows) \in Seq(Ids) /\ Len(Pinned(rows)) \in Nat
      /\ Range(Pinned(rows)) = edited \ Range(rows)
  BY PinnedFacts
<1> HIDE DEF edited, A, B
<1>6. P \in Seq(E) /\ Len(P) = Len(Pinned(rows)) /\ IdsOf(P) = edited \ Range(rows)
  BY <1>5, EntriesOfFacts
<1>7. Q \in Seq(E) /\ Len(Q) = Len(A) /\ IdsOf(Q) = Range(rows) \cap edited
  BY <1>3, EntriesOfFacts
<1>8. R \in Seq(E) /\ Len(R) = Len(B) /\ IdsOf(R) = Range(rows) \cap (Ids \ edited)
  BY <1>3, EntriesOfFacts
<1> HIDE DEF P, Q, R, E
<1>9. /\ P \o Q \in Seq(E) /\ Len(P \o Q) = Len(P) + Len(Q)
      /\ IdsOf(P \o Q) = IdsOf(P) \cup IdsOf(Q)
  <2>1. P \in Seq(E) /\ Q \in Seq(E)
    BY <1>6, <1>7
  <2> QED
    BY <2>1, ConcatFacts
<1>10. /\ (P \o Q) \o R \in Seq(E) /\ Len((P \o Q) \o R) = Len(P \o Q) + Len(R)
       /\ IdsOf((P \o Q) \o R) = IdsOf(P \o Q) \cup IdsOf(R)
  <2> DEFINE PQ == P \o Q
  <2>1. PQ \in Seq(E) /\ R \in Seq(E)
    BY <1>8, <1>9
  <2> HIDE DEF PQ
  <2>2. /\ PQ \o R \in Seq(E) /\ Len(PQ \o R) = Len(PQ) + Len(R)
        /\ IdsOf(PQ \o R) = IdsOf(PQ) \cup IdsOf(R)
    BY <2>1, ConcatFacts
  <2> QED
    BY <2>2 DEF PQ
<1>11. Len(A) \in Nat /\ Len(B) \in Nat /\ Len(rows) \in Nat
  BY <1>3
<1>12. Len(Merged(rows)) = Len(Pinned(rows)) + Len(rows)
  <2>1. Len(Merged(rows)) = (Len(P) + Len(Q)) + Len(R)
    BY <1>1, <1>9, <1>10
  <2>2. Len(Merged(rows)) = (Len(Pinned(rows)) + Len(A)) + Len(B)
    BY <1>6, <1>7, <1>8, <2>1
  <2> QED
    BY <1>4, <1>5, <1>11, <2>2
<1>13. IdsOf(Merged(rows)) = Range(rows) \cup edited
  BY <1>1, <1>2, <1>6, <1>7, <1>8, <1>9, <1>10
<1> QED
  BY <1>1, <1>10, <1>12, <1>13 DEF E, edited

LEMMA SavedFacts ==
    ASSUME cache \in Boxes, NEW list
    PROVE  Saved(list) \in Boxes
BY DEF Saved, Boxes

LEMMA AddedFacts ==
    ASSUME cache \in Boxes, NEW rows
    PROVE  Added(rows) \in Seq(Entries)
<1> DEFINE box == [id \in Ids |-> IF id \in Range(rows) /\ cache[id] # "pending"
                                  THEN "synced" ELSE cache[id]]
<1>1. box \in Boxes
  BY DEF Boxes
<1>2. Added(rows) = CacheList(box)
  BY DEF Added
<1> HIDE DEF box
<1> QED
  BY <1>1, <1>2, CacheListFacts

LEMMA OrderFacts ==
    ASSUME NEW n \in 0 .. Len(Batch), NEW order \in OrdersOf[n]
    PROVE  order \in Seq(Rows) /\ Len(order) = n /\ IsInjective(order)
<1>1. Len(Batch) \in Nat /\ Rows = 1 .. Len(Batch)
  BY IdFacts
<1>2. /\ order \in [1 .. n -> 1 .. n]
      /\ \A i, j \in 1 .. n : i < j => order[i] # order[j]
  BY DEF OrdersOf
<1>3. order \in Seq(Rows) /\ Len(order) = n
  BY <1>1, <1>2
<1>4. IsInjective(order)
  <2> SUFFICES ASSUME NEW i \in 1 .. n, NEW j \in 1 .. n, order[i] = order[j]
               PROVE  i = j
    BY <1>2 DEF IsInjective
  <2>1. ~(i < j) /\ ~(j < i)
    BY <1>2
  <2> QED
    BY <2>1
<1> QED
  BY <1>3, <1>4

LEMMA SliceInjective ==
    ASSUME NEW S, NEW seq \in Seq(S), NEW from \in Nat, IsInjective(seq)
    PROVE  IsInjective(Slice(seq, from))
<1> DEFINE t == Slice(seq, from)
<1>1. /\ t \in Seq(S) /\ \A i \in 1 .. Len(t) : t[i] = seq[from + i]
      /\ (Len(t) > 0 => from + Len(t) <= Len(seq))
  BY SliceFacts
<1>2. Len(seq) \in Nat /\ DOMAIN seq = 1 .. Len(seq)
  OBVIOUS
<1> HIDE DEF t
<1>3. Len(t) \in Nat /\ DOMAIN t = 1 .. Len(t)
  BY <1>1
<1> SUFFICES ASSUME NEW i \in DOMAIN t, NEW j \in DOMAIN t, t[i] = t[j] PROVE i = j
  BY DEF IsInjective, t
<1>4. /\ from + i \in DOMAIN seq /\ from + j \in DOMAIN seq
      /\ i \in Nat /\ j \in Nat
  BY <1>1, <1>2, <1>3
<1>5. seq[from + i] = seq[from + j]
  BY <1>1, <1>3
<1>6. from + i = from + j
  BY <1>4, <1>5 DEF IsInjective
<1> QED
  BY <1>4, <1>6

-----------------------------------------------------------------------------
(* The types *)

LEMMA RequestTypes ==
    /\ Nothing \in Requests /\ Nothing.at = "none" /\ Nothing.offset = 0
    /\ \A n \in Nat : Ask(n) \in Requests /\ Ask(n).at = "sent" /\ Ask(n).offset = n
<1> DEFINE Q == Seq(Rows)
           L == Seq(Entries)
           R == [at : Stages, offset : Nat, rows : Q, order : Q, list : L]
<1>1. <<>> \in Q /\ <<>> \in L /\ Requests = R
  BY DEF Requests
<1> HIDE DEF Q, L
<1>2. Nothing \in R /\ Nothing.at = "none" /\ Nothing.offset = 0
  BY <1>1 DEF Nothing, Stages
<1>3. ASSUME NEW n \in Nat
      PROVE  Ask(n) \in R /\ Ask(n).at = "sent" /\ Ask(n).offset = n
  BY <1>1 DEF Nothing, Ask, Stages
<1> QED
  BY <1>1, <1>2, <1>3

LEMMA RequestFacts ==
    ASSUME TypeOK, NEW t \in Tasks
    PROVE  /\ request[t] \in Requests /\ request[t].offset \in Nat
           /\ request[t].at \in Stages
           /\ request[t].rows \in Seq(Rows) /\ request[t].order \in Seq(Rows)
           /\ request[t].list \in Seq(Entries)
<1> DEFINE Q == Seq(Rows)
           L == Seq(Entries)
<1>1. request[t] \in [at : Stages, offset : Nat, rows : Q, order : Q, list : L]
  BY DEF TypeOK, Requests
<1> HIDE DEF Q, L
<1>2. /\ request[t].offset \in Nat /\ request[t].at \in Stages
      /\ request[t].rows \in Q /\ request[t].order \in Q /\ request[t].list \in L
  BY <1>1
<1> QED
  BY <1>2 DEF TypeOK, Q, L

\* A request that has come further, with what it is about to save.
Advanced(r, to, list) == [r EXCEPT !.at = to, !.list = list]

LEMMA AdvancedFacts ==
    ASSUME NEW r \in Requests, NEW to \in Stages, NEW list \in Seq(Entries)
    PROVE  /\ Advanced(r, to, list) \in Requests
           /\ Advanced(r, to, list).at = to /\ Advanced(r, to, list).list = list
           /\ Advanced(r, to, list).offset = r.offset
           /\ Advanced(r, to, list).rows = r.rows /\ Advanced(r, to, list).order = r.order
<1> DEFINE Q == Seq(Rows)
           L == Seq(Entries)
           R == [at : Stages, offset : Nat, rows : Q, order : Q, list : L]
<1>1. r \in R /\ list \in L /\ Requests = R
  BY DEF Requests
<1> HIDE DEF Q, L
<1>2. /\ Advanced(r, to, list) \in R
      /\ Advanced(r, to, list).at = to /\ Advanced(r, to, list).list = list
      /\ Advanced(r, to, list).offset = r.offset
      /\ Advanced(r, to, list).rows = r.rows /\ Advanced(r, to, list).order = r.order
  BY <1>1 DEF Advanced
<1> QED
  BY <1>1, <1>2

LEMMA MoveFacts ==
    ASSUME TypeOK, NEW t \in Tasks, NEW from, NEW to \in Stages, Move(t, from, to)
    PROVE  /\ request[t].at = from
           /\ request' = [request EXCEPT ![t] = Advanced(request[t], to, request[t].list)]
<1> DEFINE Q == Seq(Rows)
           L == Seq(Entries)
<1>1. request \in [Tasks -> [at : Stages, offset : Nat, rows : Q, order : Q, list : L]]
  BY DEF TypeOK, Requests
<1> HIDE DEF Q, L
<1>2. request' = [request EXCEPT ![t] = [request[t] EXCEPT !.at = to]]
  BY <1>1 DEF Move
<1>3. [request[t] EXCEPT !.at = to] = Advanced(request[t], to, request[t].list)
  BY <1>1 DEF Advanced
<1> QED
  BY <1>2, <1>3 DEF Move

LEMMA SendTypes ==
    ASSUME request \in [Tasks -> Requests], NEW t \in Tasks, NEW n \in Nat, Send(t, n)
    PROVE  request' \in [Tasks -> Requests]
BY RequestTypes DEF Send

LEMMA OverTypes ==
    ASSUME request \in [Tasks -> Requests], NEW t \in Tasks, Over(t)
    PROVE  request' \in [Tasks -> Requests]
BY RequestTypes DEF Over

LEMMA SpendTypes ==
    ASSUME TypeOK, NEW what \in Events, NEW bound, Spend(what, bound)
    PROVE  spent' \in [Events -> Nat]
BY DEF TypeOK, Spend

\* The requests after a start.
Starting == [t \in Tasks |-> IF t = "sync" THEN Ask(0) ELSE Nothing]

LEMMA StartingTypes == Starting \in [Tasks -> Requests]
BY RequestTypes DEF Starting

LEMMA InitTypes ==
    ASSUME Init PROVE TypeOK
<1>1. <<>> \in Seq(Entries) /\ <<>> \in Seq(Rows)
  OBVIOUS
<1>2. request \in [Tasks -> Requests]
  BY StartingTypes DEF Init, Starting
<1>3. booked \in 0 .. Len(Batch) /\ cache \in [Ids -> {"absent", "synced", "pending"}]
  BY DEF Init, Empty
<1>4. shown \in Seq(Entries) /\ offset \in Nat /\ base \in Seq(Rows) /\ extra \in Nat
  BY <1>1 DEF Init
<1>5. spent \in [Events -> Nat] /\ details \in SUBSET (Rows \X {"fetch", "review"})
  BY DEF Init
<1> QED
  BY <1>2, <1>3, <1>4, <1>5 DEF Init, TypeOK

LEMMA FullType ==
    ASSUME NEW n, hasMore' = (n >= Limit) PROVE hasMore' \in BOOLEAN
OBVIOUS

LEMMA ReplaceTypes ==
    ASSUME NEW list \in Seq(Entries), Replace(list)
    PROVE  shown' \in Seq(Entries) /\ offset' \in Nat /\ offset' = Len(shown')
BY DEF Replace

LEMMA CacheTypes ==
    ASSUME TypeOK PROVE cache \in Boxes
BY DEF TypeOK, Boxes

LEMMA BookTypes ==
    ASSUME TypeOK, Book
    PROVE  TypeOK' /\ booked' >= booked
<1> DEFINE N == {n \in booked + 1 .. Len(Batch) :
                   Whole(n) /\ \A k \in booked + 1 .. n - 1 : ~Whole(k)}
<1>1. booked \in 0 .. Len(Batch) /\ booked < Len(Batch) /\ Len(Batch) \in Nat
  BY IdFacts DEF Book, TypeOK
<1>2. N # {}
  <2> DEFINE W == {n \in booked + 1 .. Len(Batch) : Whole(n)}
  <2>1. Len(Batch) \in W /\ W \in SUBSET Nat
    BY <1>1 DEF Whole
  <2>2. PICK n \in W : \A k \in W : n <= k
    <3> HIDE DEF W
    <3> QED
      BY <2>1, Least
  <2>3. \A k \in booked + 1 .. n - 1 : ~Whole(k)
    BY <1>1, <2>2
  <2> QED
    BY <2>2, <2>3
<1>3. booked' \in N
  BY <1>2 DEF Book
<1>4. booked' \in 0 .. Len(Batch) /\ booked' >= booked
  BY <1>1, <1>3
<1> QED
  BY <1>4 DEF Book, TypeOK, screen, history

LEMMA RestartTypes ==
    ASSUME TypeOK, Restart PROVE TypeOK'
<1> DEFINE box == cache'
<1>0. box \in Boxes
  BY CacheTypes DEF Restart, Empty, Boxes
<1>1. FromCache(box)
  BY DEF Restart
<1>2. box \in [Ids -> {"absent", "synced", "pending"}]
  BY <1>0 DEF Boxes
<1> HIDE DEF box
<1>3. CacheList(box) \in Seq(Entries) /\ <<>> \in Seq(Entries)
  BY <1>0, CacheListFacts
<1>4. /\ shown' \in Seq(Entries) /\ offset' \in Nat /\ hasMore' \in BOOLEAN
      /\ isLoading' \in BOOLEAN
  <2>1. CASE CacheList(box) # <<>>
    <3>1. Replace(CacheList(box)) /\ hasMore' = (Len(CacheList(box)) >= Limit)
          /\ isLoading' = FALSE
      BY <1>1, <2>1 DEF FromCache
    <3>2. shown' \in Seq(Entries) /\ offset' \in Nat
      BY <1>3, <3>1, ReplaceTypes
    <3>3. hasMore' \in BOOLEAN /\ isLoading' \in BOOLEAN
      BY <3>1, FullType
    <3> QED
      BY <3>2, <3>3
  <2>2. CASE ~(CacheList(box) # <<>>)
    BY <1>1, <1>3, <2>2 DEF FromCache
  <2> QED
    BY <2>1, <2>2
<1>5. request' \in [Tasks -> Requests]
  BY StartingTypes DEF Restart, Starting
<1>6. spent' \in [Events -> Nat]
  BY SpendTypes DEF Restart, Events
<1>7. details' \in SUBSET (Rows \X {"fetch", "review"})
  BY DEF Restart
<1>8. /\ booked' \in 0 .. Len(Batch) /\ base' \in Seq(Rows) /\ extra' \in Nat
      /\ clean' \in BOOLEAN /\ opened' = None
      /\ isSyncing' \in BOOLEAN /\ isFetchingMore' \in BOOLEAN /\ failed' \in BOOLEAN
  BY DEF Restart, TypeOK
<1> QED
  BY <1>2, <1>4, <1>5, <1>6, <1>7, <1>8 DEF TypeOK, box

LEMMA RetryTypes ==
    ASSUME TypeOK, Retry PROVE TypeOK'
<1>1. CacheList(cache) \in Seq(Entries)
  BY CacheTypes, CacheListFacts
<1>2. /\ shown' \in Seq(Entries) /\ offset' \in Nat /\ hasMore' \in BOOLEAN
      /\ isLoading' \in BOOLEAN
  <2>1. CASE CacheList(cache) # <<>>
    <3>1. Replace(CacheList(cache)) /\ hasMore' = (Len(CacheList(cache)) >= Limit)
          /\ isLoading' = isLoading
      BY <2>1 DEF Retry
    <3>2. shown' \in Seq(Entries) /\ offset' \in Nat
      BY <1>1, <3>1, ReplaceTypes
    <3> QED
      BY <3>1, <3>2 DEF TypeOK
  <2>2. CASE ~(CacheList(cache) # <<>>)
    BY <1>1, <2>2 DEF Retry, TypeOK
  <2> QED
    BY <2>1, <2>2
<1>3. request' \in [Tasks -> Requests]
  BY SendTypes DEF Retry, TypeOK, Tasks
<1>4. spent' \in [Events -> Nat]
  BY SpendTypes DEF Retry, Events
<1> QED
  BY <1>2, <1>3, <1>4 DEF Retry, TypeOK

LEMMA RefreshTypes ==
    ASSUME TypeOK, Refresh PROVE TypeOK'
<1>1. request' \in [Tasks -> Requests]
  BY SendTypes DEF Refresh, TypeOK, Tasks
<1>2. spent' \in [Events -> Nat]
  BY SpendTypes DEF Refresh, Events
<1> QED
  BY <1>1, <1>2 DEF Refresh, TypeOK, history

\* What an answer makes of a request.
Answered(r, t, order) ==
    [r EXCEPT !.at = "answered", !.rows = Slice(order, r.offset),
              !.order = IF t = "more" THEN <<>> ELSE order]

LEMMA AnsweredFacts ==
    ASSUME NEW r \in Requests, NEW t, NEW order \in Seq(Rows)
    PROVE  /\ Answered(r, t, order) \in Requests
           /\ Answered(r, t, order).at = "answered"
           /\ Answered(r, t, order).offset = r.offset
           /\ Answered(r, t, order).rows = Slice(order, r.offset)
           /\ Answered(r, t, order).order = IF t = "more" THEN <<>> ELSE order
<1> DEFINE Q == Seq(Rows)
           L == Seq(Entries)
           R == [at : Stages, offset : Nat, rows : Q, order : Q, list : L]
           o == IF t = "more" THEN <<>> ELSE order
           s == Slice(order, r.offset)
<1>1. r.offset \in Nat /\ r \in R /\ Requests = R
  BY DEF Requests
<1>2. s \in Q /\ o \in Q
  BY <1>1, SliceFacts
<1> HIDE DEF Q, L, o, s
<1>3. Answered(r, t, order) = [r EXCEPT !.at = "answered", !.rows = s, !.order = o]
  BY DEF Answered, s, o
<1>4. /\ Answered(r, t, order) \in R
      /\ Answered(r, t, order).at = "answered"
      /\ Answered(r, t, order).offset = r.offset
      /\ Answered(r, t, order).rows = s
      /\ Answered(r, t, order).order = o
  BY <1>1, <1>2, <1>3 DEF Stages
<1> QED
  BY <1>1, <1>4 DEF o, s

\* An answer, by the order it comes from.
LEMMA AnswerFacts ==
    ASSUME TypeOK, NEW t \in Tasks, Answer(t)
    PROVE  \E order \in OrdersOf[booked] :
             /\ order \in Seq(Rows) /\ Len(order) = booked /\ IsInjective(order)
             /\ request' = [request EXCEPT ![t] = Answered(request[t], t, order)]
             /\ clean' = (clean /\ (t = "more" => SubSeq(order, Moved + 1, booked) = base))
<1>1. PICK order \in OrdersOf[booked] :
         /\ request' = [request EXCEPT
               ![t] = [@ EXCEPT !.at = "answered",
                                !.rows = Slice(order, request[t].offset),
                                !.order = IF t = "more" THEN <<>> ELSE order]]
         /\ clean' = (clean /\ (t = "more" => SubSeq(order, Moved + 1, booked) = base))
  BY DEF Answer
<1>2. booked \in 0 .. Len(Batch)
  BY DEF TypeOK
<1>3. order \in Seq(Rows) /\ Len(order) = booked /\ IsInjective(order)
  BY <1>2, OrderFacts
<1>4. request' = [request EXCEPT ![t] = Answered(request[t], t, order)]
  BY <1>1 DEF TypeOK, Answered
<1> QED
  BY <1>1, <1>3, <1>4

LEMMA AnswerTypes ==
    ASSUME TypeOK, NEW t \in Tasks, Answer(t) PROVE TypeOK'
<1>1. PICK order \in Seq(Rows) :
         request' = [request EXCEPT ![t] = Answered(request[t], t, order)]
  BY AnswerFacts
<1>2. request \in [Tasks -> Requests]
  BY DEF TypeOK
<1>3. Answered(request[t], t, order) \in Requests
  BY <1>2, AnsweredFacts
<1>4. request' \in [Tasks -> Requests]
  BY <1>1, <1>2, <1>3
<1>5. clean' \in BOOLEAN
  BY AnswerFacts
<1> QED
  BY <1>4, <1>5 DEF Answer, TypeOK, screen

LEMMA EndSyncTypes ==
    ASSUME isSyncing \in BOOLEAN, isLoading \in BOOLEAN, NEW t, EndSync(t)
    PROVE  isSyncing' \in BOOLEAN /\ isLoading' \in BOOLEAN
BY DEF EndSync

(* What a merge makes of a request. *)
LEMMA MergeFacts ==
    ASSUME TypeOK, NEW t \in Tasks, Merge(t)
    PROVE  \E to \in {"clear", "show"}, list \in Seq(Entries) :
             /\ request' = [request EXCEPT ![t] = Advanced(request[t], to, list)]
             /\ request[t].at = "answered"
             /\ t # "more" => to = "clear" /\ list = Merged(request[t].rows)
<1> DEFINE Q == Seq(Rows)
           L == Seq(Entries)
           rows == request[t].rows
           r == request[t]
<1>1. request \in [Tasks -> [at : Stages, offset : Nat, rows : Q, order : Q, list : L]]
  BY DEF TypeOK, Requests
<1>2. rows \in Seq(Rows) /\ r.list \in L
  BY RequestFacts
<1>3. Merged(rows) \in L /\ Added(rows) \in L
  BY <1>2, CacheTypes, MergedFacts, AddedFacts
<1>4. /\ request[t].at = "answered"
      /\ request' = [request EXCEPT ![t] =
          IF t = "more" /\ rows = <<>> THEN [@ EXCEPT !.at = "show"]
          ELSE [@ EXCEPT !.at = "clear",
                         !.list = IF t = "more" THEN Added(rows) ELSE Merged(rows)]]
  BY DEF Merge
<1> HIDE DEF Q, L, rows
<1>5. CASE t = "more" /\ rows = <<>>
  <2>1. request' = [request EXCEPT ![t] = [r EXCEPT !.at = "show"]]
    BY <1>1, <1>4, <1>5
  <2>2. [r EXCEPT !.at = "show"] = Advanced(r, "show", r.list)
    BY <1>1 DEF Advanced
  <2> QED
    BY <1>2, <1>4, <1>5, <2>1, <2>2 DEF L
<1>6. CASE ~(t = "more" /\ rows = <<>>)
  <2> DEFINE list == IF t = "more" THEN Added(rows) ELSE Merged(rows)
  <2>1. list \in L /\ (t # "more" => list = Merged(rows))
    BY <1>3
  <2>2. request' = [request EXCEPT ![t] = [r EXCEPT !.at = "clear", !.list = list]]
    BY <1>1, <1>4, <1>6
  <2> HIDE DEF list
  <2>3. [r EXCEPT !.at = "clear", !.list = list] = Advanced(r, "clear", list)
    BY DEF Advanced
  <2> QED
    BY <1>4, <2>1, <2>2, <2>3 DEF L, rows
<1> QED
  BY <1>5, <1>6

LEMMA AdvancedTypes ==
    ASSUME TypeOK, NEW t \in Tasks, NEW to \in Stages, NEW list \in Seq(Entries),
           request' = [request EXCEPT ![t] = Advanced(request[t], to, list)]
    PROVE  request' \in [Tasks -> Requests]
<1>1. request \in [Tasks -> Requests] /\ request[t] \in Requests
  BY DEF TypeOK
<1>2. Advanced(request[t], to, list) \in Requests
  BY <1>1, AdvancedFacts
<1> QED
  BY <1>1, <1>2

(* A save, step by step, changes how far its task is, and the box. *)
LEMMA SaveFacts ==
    ASSUME TypeOK, NEW t \in Tasks, Save(t)
    PROVE  /\ \E to \in Saving, list \in Seq(Entries) :
                /\ request' = [request EXCEPT ![t] = Advanced(request[t], to, list)]
                /\ request[t].at \in Later
                /\ t # "more" => \/ list = Merged(request[t].rows)
                                 \/ list = request[t].list /\ request[t].at \in Saving
           /\ cache' \in Boxes
           /\ UNCHANGED <<booked, screen, opened, details, spent, history>>
<1>1. request[t].list \in Seq(Entries)
  BY RequestFacts
<1>2. cache \in Boxes
  BY CacheTypes
<1>3. CASE Merge(t)
  <2>1. UNCHANGED <<booked, cache, screen, opened, details, spent, history>>
    BY <1>3 DEF Merge
  <2> QED
    BY <1>2, <1>3, <2>1, MergeFacts DEF Saving, Later
<1>4. CASE Clear(t)
  <2>1. /\ Move(t, "clear", "save") /\ cache' = Empty
        /\ UNCHANGED <<booked, screen, opened, details, spent, history>>
    BY <1>4 DEF Clear
  <2>2. /\ request[t].at = "clear"
        /\ request' = [request EXCEPT ![t] = Advanced(request[t], "save", request[t].list)]
    BY <2>1, MoveFacts DEF Stages
  <2>3. cache' \in Boxes
    BY <2>1 DEF Empty, Boxes
  <2> QED
    BY <1>1, <2>1, <2>2, <2>3 DEF Saving, Later
<1>5. CASE PutAll(t)
  <2>1. /\ Move(t, "save", "show") /\ cache' = Saved(request[t].list)
        /\ UNCHANGED <<booked, screen, opened, details, spent, history>>
    BY <1>5 DEF PutAll
  <2>2. /\ request[t].at = "save"
        /\ request' = [request EXCEPT ![t] = Advanced(request[t], "show", request[t].list)]
    BY <2>1, MoveFacts DEF Stages
  <2>3. cache' \in Boxes
    BY <1>2, <2>1, SavedFacts
  <2> QED
    BY <1>1, <2>1, <2>2, <2>3 DEF Saving, Later
<1> QED
  BY <1>3, <1>4, <1>5 DEF Save

LEMMA SaveTypes ==
    ASSUME TypeOK, NEW t \in Tasks, Save(t) PROVE TypeOK'
<1>1. PICK to \in Saving, list \in Seq(Entries) :
         request' = [request EXCEPT ![t] = Advanced(request[t], to, list)]
  BY SaveFacts
<1>2. to \in Stages
  BY DEF Saving, Stages
<1>3. request' \in [Tasks -> Requests]
  BY <1>1, <1>2, AdvancedTypes
<1>4. cache' \in [Ids -> {"absent", "synced", "pending"}]
  BY SaveFacts DEF Boxes
<1>5. UNCHANGED <<booked, screen, opened, details, spent, history>>
  BY SaveFacts
<1> QED
  BY <1>3, <1>4, <1>5 DEF TypeOK, screen, history

LEMMA ArriveNewTypes ==
    ASSUME TypeOK, Requested, NEW t \in Tasks, ArriveNew(t) PROVE TypeOK'
<1> DEFINE list == request[t].list
           rows == request[t].rows
<1>1. /\ Replace(list) /\ hasMore' = (Len(list) >= Limit)
      /\ extra' = Len(list) - Len(rows) /\ t # "more" /\ request[t].at = "show"
  BY DEF ArriveNew
<1>2. rows \in Seq(Rows) /\ request[t].order \in Seq(Rows) /\ list \in Seq(Entries)
  BY RequestFacts
<1>3. Len(rows) <= Len(list)
  BY <1>1 DEF Requested, Right, Saving
<1> HIDE DEF list, rows
<1>4. extra' \in Nat
  BY <1>1, <1>2, <1>3
<1>5. shown' \in Seq(Entries) /\ offset' \in Nat
  BY <1>1, <1>2, ReplaceTypes
<1>6. request' \in [Tasks -> Requests]
  BY OverTypes DEF ArriveNew, TypeOK
<1>7. hasMore' \in BOOLEAN
  BY <1>1
<1>8. isSyncing' \in BOOLEAN /\ isLoading' \in BOOLEAN
  BY EndSyncTypes DEF ArriveNew, TypeOK
<1>9. clean' \in BOOLEAN /\ failed' \in BOOLEAN
  BY DEF ArriveNew
<1>10. base' \in Seq(Rows)
  BY <1>2 DEF ArriveNew
<1> QED
  BY <1>4, <1>5, <1>6, <1>7, <1>8, <1>9, <1>10 DEF ArriveNew, TypeOK

LEMMA FailNewTypes ==
    ASSUME TypeOK, NEW t \in Tasks, FailNew(t) PROVE TypeOK'
<1>1. request' \in [Tasks -> Requests]
  BY OverTypes DEF FailNew, TypeOK
<1>2. isSyncing' \in BOOLEAN /\ isLoading' \in BOOLEAN
  BY EndSyncTypes DEF FailNew, TypeOK
<1>3. failed' \in BOOLEAN
  BY DEF FailNew
<1> QED
  BY <1>1, <1>2, <1>3 DEF FailNew, TypeOK, history

LEMMA MoreTypes ==
    ASSUME TypeOK, More PROVE TypeOK'
<1>1. request' \in [Tasks -> Requests]
  BY SendTypes DEF More, TypeOK, Tasks
<1> QED
  BY <1>1 DEF More, TypeOK, history

LEMMA AddAllTypes ==
    ASSUME TypeOK, NEW results \in Seq(Entries), AddAll(results)
    PROVE  /\ shown' \in Seq(Entries) /\ offset' \in Nat /\ hasMore' \in BOOLEAN
           /\ request' \in [Tasks -> Requests] /\ isFetchingMore' \in BOOLEAN
           /\ Len(shown') = Len(shown) + Len(results)
           /\ IdsOf(shown') = IdsOf(shown) \cup IdsOf(results)
<1>1. shown \in Seq(Entries) /\ shown' = shown \o results
  BY DEF TypeOK, AddAll
<1>2. shown' \in Seq(Entries) /\ Len(shown') = Len(shown) + Len(results)
      /\ IdsOf(shown') = IdsOf(shown) \cup IdsOf(results)
  BY <1>1, ConcatFacts
<1>3. request' \in [Tasks -> Requests]
  BY OverTypes DEF AddAll, TypeOK, Tasks
<1>4. hasMore' \in BOOLEAN /\ isFetchingMore' \in BOOLEAN
  BY FullType DEF AddAll
<1>5. offset' \in Nat
  BY DEF AddAll, TypeOK
<1> QED
  BY <1>2, <1>3, <1>4, <1>5

LEMMA ArriveMoreTypes ==
    ASSUME TypeOK, ArriveMore PROVE TypeOK'
<1> DEFINE results == EntriesOf(request["more"].rows, FALSE)
<1>1. AddAll(results)
  BY DEF ArriveMore
<1>2. results \in Seq(Entries)
  <2>1. request["more"].rows \in Seq(Rows)
    BY RequestFacts DEF Tasks
  <2>2. request["more"].rows \in Seq(Ids)
    BY <2>1, RowsAreIds
  <2> QED
    BY <2>2, EntriesOfFacts
<1> HIDE DEF results
<1>3. /\ shown' \in Seq(Entries) /\ offset' \in Nat /\ hasMore' \in BOOLEAN
      /\ request' \in [Tasks -> Requests] /\ isFetchingMore' \in BOOLEAN
  BY <1>1, <1>2, AddAllTypes
<1> QED
  BY <1>1, <1>3 DEF AddAll, ArriveMore, TypeOK

LEMMA FailMoreTypes ==
    ASSUME TypeOK, FailMore PROVE TypeOK'
<1> DEFINE results == Slice(CacheList(cache), request["more"].offset)
<1>1. AddAll(results)
  BY DEF FailMore
<1>2. results \in Seq(Entries)
  <2>1. request["more"].offset \in Nat
    BY RequestFacts DEF Tasks
  <2>2. CacheList(cache) \in Seq(Entries)
    BY CacheTypes, CacheListFacts
  <2> QED
    BY <2>1, <2>2, SliceFacts
<1> HIDE DEF results
<1>3. /\ shown' \in Seq(Entries) /\ offset' \in Nat /\ hasMore' \in BOOLEAN
      /\ request' \in [Tasks -> Requests] /\ isFetchingMore' \in BOOLEAN
  BY <1>1, <1>2, AddAllTypes
<1> QED
  BY <1>1, <1>3 DEF AddAll, FailMore, TypeOK

\* The id of the next creation.
Fresh == -(spent["creations"] + 1)

LEMMA CreateTypes ==
    ASSUME TypeOK, Create PROVE TypeOK'
<1>1. spent["creations"] \in Nat /\ spent["creations"] < MaxCreations /\ MaxCreations \in Nat
  BY PagingAssumption DEF TypeOK, Create, Spend, PagingAssumption, Events
<1>2. spent["creations"] + 1 \in 1 .. MaxCreations
  BY <1>1
<1>3. Fresh \in Ids
  BY <1>2, IdFacts DEF Fresh
<1>4. cache' = [cache EXCEPT ![Fresh] = "pending"] /\ opened' = [index |-> 0, id |-> Fresh]
  BY DEF Create, Fresh
<1>5. cache' \in [Ids -> {"absent", "synced", "pending"}]
  BY <1>4 DEF TypeOK
<1>6. opened' \in [index : Nat, id : Ids]
  BY <1>3, <1>4
<1>7. spent' \in [Events -> Nat]
  BY SpendTypes DEF Create, Events
<1> QED
  BY <1>5, <1>6, <1>7 DEF Create, TypeOK, screen, history

(* A creation that is saved and shown: the list is the cache. *)
LEMMA CreatedFacts ==
    ASSUME TypeOK, Created
    PROVE  \/ UNCHANGED <<screen, extra, clean>>
           \/ \E e \in Nat :
                /\ shown' \in Seq(Entries) /\ offset' = Len(shown') /\ failed' = FALSE
                /\ extra' = extra + e /\ clean' \in BOOLEAN
                /\ clean' => clean /\ IdsOf(shown) \subseteq IdsOf(shown')
                /\ Len(shown') = Cardinality(IdsOf(shown'))
                /\ Len(shown') <= Cardinality(IdsOf(shown)) + e
                /\ UNCHANGED <<hasMore, isLoading, isSyncing, isFetchingMore>>
<1> DEFINE ids == CachedIds(cache)
           S == IdsOf(shown)
           e == Cardinality(ids \ S)
           list == CacheList(cache)
<1>1. cache \in Boxes /\ shown \in Seq(Entries)
  BY CacheTypes DEF TypeOK
<1>2. /\ list \in Seq(Entries) /\ IdsOf(list) = ids /\ Len(list) = Cardinality(ids)
      /\ IsFiniteSet(ids)
  BY <1>1, CacheListFacts
<1>3. IsFiniteSet(S) /\ Cardinality(S) \in Nat
  BY <1>1, IdsCount
<1>4. ids = {id \in Ids : cache[id] # "absent"} /\ S = ShownIds
  BY DEF CachedIds, IdsOf, ShownIds
<1>5. CASE UNCHANGED <<screen, extra, clean>>
  BY <1>5
<1>6. CASE ~UNCHANGED <<screen, extra, clean>>
  <2>1. /\ Replace(list) /\ failed' = FALSE /\ extra' = extra + e
        /\ clean' = (clean /\ S \subseteq ids)
        /\ UNCHANGED <<hasMore, isLoading, isSyncing, isFetchingMore>>
    BY <1>4, <1>6 DEF Created
  <2> HIDE DEF ids, S, list
  <2>2. e \in Nat /\ IsFiniteSet(ids \ S)
    BY <1>2, FS_Subset, FS_CardinalityType
  <2>3. Cardinality(ids) <= Cardinality(S) + e
    <3>1. Cardinality(ids \ S) = Cardinality(ids) - Cardinality(ids \cap S)
      BY <1>2, FS_Difference
    <3>2. Cardinality(ids \cap S) <= Cardinality(S) /\ Cardinality(ids \cap S) \in Nat
      <4>1. ids \cap S \in SUBSET S
        OBVIOUS
      <4> QED
        BY <1>3, <4>1, FS_Subset, FS_CardinalityType
    <3>3. Cardinality(ids) \in Nat
      BY <1>2, FS_CardinalityType
    <3> QED
      BY <1>3, <3>1, <3>2, <3>3
  <2>4. shown' = list /\ offset' = Len(list)
    BY <2>1 DEF Replace
  <2>5. clean' => clean /\ S \subseteq IdsOf(list)
    BY <1>2, <2>1
  <2> HIDE DEF e
  <2>6. clean' \in BOOLEAN
    BY <2>1
  <2> QED
    BY <1>2, <2>1, <2>2, <2>3, <2>4, <2>5, <2>6 DEF S
<1> QED
  BY <1>5, <1>6

LEMMA CreatedTypes ==
    ASSUME TypeOK, Created PROVE TypeOK'
<1>1. /\ shown' \in Seq(Entries) /\ offset' \in Nat /\ extra' \in Nat /\ clean' \in BOOLEAN
      /\ failed' \in BOOLEAN /\ UNCHANGED <<hasMore, isLoading, isSyncing, isFetchingMore>>
  <2>1. CASE UNCHANGED <<screen, extra, clean>>
    BY <2>1 DEF TypeOK, screen
  <2>2. CASE ~UNCHANGED <<screen, extra, clean>>
    <3>1. PICK e \in Nat :
            /\ shown' \in Seq(Entries) /\ offset' = Len(shown') /\ failed' = FALSE
            /\ extra' = extra + e /\ clean' \in BOOLEAN
            /\ UNCHANGED <<hasMore, isLoading, isSyncing, isFetchingMore>>
      BY <2>2, CreatedFacts
    <3>2. offset' \in Nat
      BY <3>1
    <3>3. extra' \in Nat
      BY <3>1 DEF TypeOK
    <3> QED
      BY <3>1, <3>2, <3>3
  <2> QED
    BY <2>1, <2>2
<1> QED
  BY <1>1 DEF Created, TypeOK

LEMMA FetchTypes ==
    ASSUME TypeOK, NEW id, NEW what \in {"fetch", "review"}, Fetch(id, what)
    PROVE  details' \in SUBSET (Rows \X {"fetch", "review"})
BY DEF TypeOK, Fetch

LEMMA OpenTypes ==
    ASSUME TypeOK, NEW i \in DOMAIN shown, Open(i) PROVE TypeOK'
<1> DEFINE E == Entries
<1>1. shown \in Seq(E)
  BY DEF TypeOK
<1>2. \A e \in E : e.id \in Ids
  BY DEF Entries
<1> HIDE DEF E
<1>3. i \in Nat /\ shown[i] \in E
  BY <1>1
<1>4. opened' \in [index : Nat, id : Ids]
  BY <1>2, <1>3 DEF Open
<1>5. details' \in SUBSET (Rows \X {"fetch", "review"})
  BY FetchTypes DEF Open
<1>6. spent' \in [Events -> Nat]
  BY SpendTypes DEF Open, Events
<1> QED
  BY <1>4, <1>5, <1>6 DEF Open, TypeOK, screen, history

LEMMA ReviewTypes ==
    ASSUME TypeOK, Review PROVE TypeOK'
<1>1. cache' \in [Ids -> {"absent", "synced", "pending"}]
  BY DEF Review, TypeOK
<1>2. details' \in SUBSET (Rows \X {"fetch", "review"})
  BY FetchTypes DEF Review
<1>3. spent' \in [Events -> Nat]
  BY SpendTypes DEF Review, Events
<1> QED
  BY <1>1, <1>2, <1>3 DEF Review, TypeOK, screen, history

LEMMA DetailTypes ==
    ASSUME TypeOK, NEW id, NEW what, Detail(id, what) PROVE TypeOK'
<1>1. cache' \in [Ids -> {"absent", "synced", "pending"}]
  BY DEF Detail, TypeOK
<1>2. details' \in SUBSET (Rows \X {"fetch", "review"})
  BY DEF Detail, TypeOK
<1> QED
  BY <1>1, <1>2 DEF Detail, TypeOK, screen, history

(* What closing the detail leaves of the list. *)
LEMMA CloseFacts ==
    ASSUME TypeOK, Close
    PROVE  /\ shown' \in Seq(Entries) /\ Len(shown') = Len(shown)
           /\ clean' \in BOOLEAN
           /\ clean' => clean /\ IdsOf(shown') = IdsOf(shown)
<1> DEFINE i == opened.index
           id == opened.id
           e == Entry(id, cache[id] = "pending")
           E == Entries
<1>1. id \in Ids
  BY DEF TypeOK, Close
<1>2. shown \in Seq(E) /\ clean \in BOOLEAN
  BY DEF TypeOK
<1>3. IF cache[id] # "absent" /\ i \in DOMAIN shown
      THEN shown' = [shown EXCEPT ![i] = e] /\ clean' = (clean /\ shown[i].id = id)
      ELSE shown' = shown /\ clean' = clean
  BY DEF Close
<1>4. e \in E /\ e.id = id
  BY <1>1, EntryFacts
<1> HIDE DEF i, id, e, E
<1>5. CASE cache[id] # "absent" /\ i \in DOMAIN shown
  <2>1. shown' \in Seq(E) /\ Len(shown') = Len(shown) /\ DOMAIN shown' = DOMAIN shown
        /\ shown'[i] = e /\ \A j \in DOMAIN shown : j # i => shown'[j] = shown[j]
    BY <1>2, <1>3, <1>4, <1>5
  <2>2. ASSUME clean' PROVE clean /\ IdsOf(shown') = IdsOf(shown)
    <3>1. clean /\ shown[i].id = id
      BY <1>3, <1>5, <2>2
    <3>2. \A j \in DOMAIN shown : shown'[j].id = shown[j].id
      BY <1>4, <2>1, <3>1
    <3> QED
      BY <2>1, <3>1, <3>2 DEF IdsOf, Range
  <2>3. clean' \in BOOLEAN
    BY <1>3, <1>5
  <2> QED
    BY <2>1, <2>2, <2>3 DEF E
<1>6. CASE ~(cache[id] # "absent" /\ i \in DOMAIN shown)
  BY <1>2, <1>3, <1>6 DEF E
<1> QED
  BY <1>5, <1>6

LEMMA CloseTypes ==
    ASSUME TypeOK, Close PROVE TypeOK'
<1>1. shown' \in Seq(Entries) /\ clean' \in BOOLEAN
  BY CloseFacts
<1> QED
  BY <1>1 DEF Close, TypeOK, flags

LEMMA NextTypes ==
    ASSUME TypeOK, Requested, [Next]_vars
    PROVE  TypeOK' /\ booked' \in Nat /\ booked' >= booked
<1>1. booked \in Nat
  BY DEF TypeOK
<1>2. CASE UNCHANGED vars
  BY <1>1, <1>2 DEF vars, TypeOK, screen, history
<1>3. CASE Book
  <2>1. TypeOK' /\ booked' >= booked
    BY <1>3, BookTypes
  <2>2. booked' \in Nat
    BY <2>1 DEF TypeOK
  <2> QED
    BY <2>1, <2>2
<1>4. CASE Next /\ ~Book
  <2>1. TypeOK'
    BY <1>4, RestartTypes, RetryTypes, RefreshTypes, AnswerTypes, SaveTypes,
       ArriveNewTypes, FailNewTypes, MoreTypes, ArriveMoreTypes, FailMoreTypes,
       CreateTypes, CreatedTypes, OpenTypes, ReviewTypes, DetailTypes, CloseTypes
       DEF Next, Progress, ProgressMore, Tasks
  <2>2. booked' = booked
    BY <1>4 DEF Next, Progress, ProgressMore, Restart, Retry, Refresh, Answer, Save, Merge,
       Clear, PutAll, ArriveNew, FailNew, More, ArriveMore, FailMore, AddAll, Create,
       Created, Open, Review, Detail, Close
  <2> QED
    BY <1>1, <2>1, <2>2
<1> QED
  BY <1>2, <1>3, <1>4

-----------------------------------------------------------------------------
(* Requests, offsets and ids *)

LEMMA NotLater ==
    \A n : Right(Nothing, n) /\ Right(Ask(0), n)
<1>1. 0 \in Nat
  OBVIOUS
<1>2. \A r \in {Nothing, Ask(0)} : r.offset = 0 /\ r.at \in {"none", "sent"}
  BY <1>1, RequestTypes
<1> QED
  BY <1>2 DEF Right, Later, Saving

\* A step in which a task stays, asks anew, forgets or comes further.
LEMMA RequestedStays ==
    ASSUME Requested, booked \in Nat, booked' \in Nat, booked' >= booked, base' = base,
           Len(base) \in Nat,
           \A t \in Tasks \ {"more"} :
             request'[t] \in {request[t], Ask(0), Nothing} \/ Right(request'[t], booked'),
           \A t \in Tasks \ {"more"} : Len(request[t].order) \in Nat,
           isFetchingMore' <=> request'["more"].at # "none"
    PROVE  Requested'
<1>1. Ordered(base)'
  BY DEF Requested, Ordered
<1>2. ASSUME NEW t \in Tasks \ {"more"} PROVE Right(request'[t], booked')
  <2>1. CASE request'[t] = request[t]
    <3>1. Right(request[t], booked)
      BY DEF Requested
    <3>2. Len(request[t].order) <= booked => Len(request[t].order) <= booked'
      OBVIOUS
    <3> QED
      BY <2>1, <3>1, <3>2 DEF Right
  <2>2. CASE request'[t] \in {Nothing, Ask(0)}
    BY <2>2, NotLater
  <2> QED
    BY <2>1, <2>2
<1>3. ASSUME NEW t \in Tasks \ {"more"} PROVE Right(request[t], booked)'
  BY <1>2 DEF Right
<1> QED
  BY <1>1, <1>3 DEF Requested

(* A save has the rows of its page in its list from the merge on. *)
LEMMA SaveKeepsRight ==
    ASSUME TypeOK, Requested, NEW t \in Tasks \ {"more"}, Save(t)
    PROVE  Right(request'[t], booked')
<1>1. PICK to \in Saving, list \in Seq(Entries) :
         /\ request' = [request EXCEPT ![t] = Advanced(request[t], to, list)]
         /\ request[t].at \in Later
         /\ t # "more" => \/ list = Merged(request[t].rows)
                          \/ list = request[t].list /\ request[t].at \in Saving
  BY SaveFacts
<1> DEFINE r == request[t]
           a == Advanced(r, to, list)
<1>2. r \in Requests /\ r.rows \in Seq(Rows) /\ request \in [Tasks -> Requests] /\ t \in Tasks
  BY RequestFacts DEF TypeOK
<1>3. to \in Stages /\ to \in Saving
  BY DEF Saving, Stages
<1>4. /\ a.at = to /\ a.list = list /\ a.offset = r.offset
      /\ a.rows = r.rows /\ a.order = r.order
  BY <1>2, <1>3, AdvancedFacts
<1>5. request'[t] = a
  BY <1>1, <1>2
<1>6. Right(r, booked) /\ booked' = booked /\ r.at \in Later
  BY <1>1, SaveFacts DEF Requested
<1>7. Range(r.rows) \subseteq IdsOf(list) /\ Len(r.rows) <= Len(list)
  <2>1. CASE list = Merged(r.rows)
    <3> DEFINE rows == r.rows
    <3>1. rows \in Seq(Rows) /\ list = Merged(rows) /\ cache \in Boxes
      BY <1>2, <2>1, CacheTypes
    <3> HIDE DEF rows, r
    <3>2. /\ Len(Merged(rows)) = Len(Pinned(rows)) + Len(rows)
          /\ Range(rows) \subseteq IdsOf(Merged(rows))
          /\ Len(Pinned(rows)) \in Nat /\ Len(rows) \in Nat
      BY <3>1, MergedFacts, PinnedFacts
    <3>3. Len(rows) <= Len(list) /\ Range(rows) \subseteq IdsOf(list)
      BY <3>1, <3>2
    <3> QED
      BY <3>3 DEF rows
  <2>2. CASE list = r.list /\ r.at \in Saving
    BY <1>6, <2>2 DEF Right
  <2> QED
    BY <1>1, <2>1, <2>2
<1> HIDE DEF a, r
<1> QED
  BY <1>3, <1>4, <1>5, <1>6, <1>7 DEF Right

LEMMA NextRequested ==
    ASSUME TypeOK, Requested, [Next]_vars PROVE Requested'
<1>1. booked \in Nat /\ booked' \in Nat /\ booked' >= booked
  BY NextTypes DEF TypeOK
<1>2. \A t \in Tasks : Len(request[t].order) \in Nat
  BY RequestFacts
<1>3. Len(base) \in Nat /\ request \in [Tasks -> Requests]
  BY DEF TypeOK
<1>4. isFetchingMore <=> request["more"].at # "none"
  BY DEF Requested
<1>5. "sync" \in Tasks \ {"more"} /\ "refresh" \in Tasks \ {"more"} /\ "more" \in Tasks
  BY DEF Tasks
<1> DEFINE Easy == /\ base' = base
                   /\ \A t \in Tasks \ {"more"} :
                        \/ request'[t] \in {request[t], Ask(0), Nothing}
                        \/ Right(request'[t], booked')
                   /\ isFetchingMore' <=> request'["more"].at # "none"
<1>6. Easy => Requested'
  BY <1>1, <1>2, <1>3, RequestedStays
<1>7. CASE UNCHANGED vars
  BY <1>4, <1>6, <1>7 DEF vars, screen, history
<1>8. CASE \/ Book \/ Create \/ Review \/ Close \/ (\E i \in DOMAIN shown : Open(i))
           \/ \E d \in details : Detail(d[1], d[2])
  BY <1>4, <1>6, <1>8 DEF Book, Create, Review, Close, Open, Detail, screen, history, flags
<1>9. CASE Created
  <2>1. isFetchingMore' = isFetchingMore /\ base' = base /\ request' = request
    BY <1>9 DEF Created, screen
  <2> QED
    BY <1>4, <1>6, <2>1
<1>10. CASE Restart
  <2>1. request' = Starting /\ base' = base /\ isFetchingMore' = FALSE
    BY <1>10 DEF Restart, Starting
  <2> QED
    BY <1>5, <1>6, <2>1, RequestTypes DEF Starting
<1>11. CASE Retry \/ Refresh
  <2>1. /\ base' = base /\ isFetchingMore' = isFetchingMore
        /\ \E t \in Tasks \ {"more"} : request' = [request EXCEPT ![t] = Ask(0)]
    BY <1>5, <1>11 DEF Retry, Refresh, Send, history
  <2> QED
    BY <1>3, <1>4, <1>5, <1>6, <2>1
<1>12. CASE More
  <2>1. /\ base' = base /\ isFetchingMore' = TRUE
        /\ request' = [request EXCEPT !["more"] = Ask(offset)] /\ offset \in Nat
    BY <1>12 DEF More, Send, history, TypeOK
  <2> QED
    BY <1>3, <1>5, <1>6, <2>1, RequestTypes
<1>13. CASE \E t \in Tasks \ {"more"} : FailNew(t)
  <2>1. /\ base' = base /\ isFetchingMore' = isFetchingMore
        /\ \E t \in Tasks \ {"more"} : request' = [request EXCEPT ![t] = Nothing]
    BY <1>13 DEF FailNew, Over, history
  <2> QED
    BY <1>3, <1>4, <1>5, <1>6, <2>1
<1>14. CASE ArriveMore \/ FailMore
  <2>1. /\ base' = base /\ isFetchingMore' = FALSE
        /\ request' = [request EXCEPT !["more"] = Nothing]
    BY <1>14 DEF ArriveMore, FailMore, AddAll, Over
  <2> QED
    BY <1>3, <1>5, <1>6, <2>1, RequestTypes
<1>15. CASE Answer("more")
  <2>1. PICK order \in Seq(Rows) :
          request' = [request EXCEPT !["more"] = Answered(request["more"], "more", order)]
    BY <1>5, <1>15, AnswerFacts
  <2>2. Answered(request["more"], "more", order).at = "answered"
    BY <1>3, <1>5, AnsweredFacts
  <2>3. base' = base /\ isFetchingMore' = isFetchingMore /\ request["more"].at = "sent"
    BY <1>15 DEF Answer, screen
  <2> QED
    BY <1>3, <1>4, <1>5, <1>6, <2>1, <2>2, <2>3
<1>16. CASE Save("more")
  <2>1. PICK to \in Saving, list \in Seq(Entries) :
          /\ request' = [request EXCEPT !["more"] = Advanced(request["more"], to, list)]
          /\ request["more"].at \in Later
    BY <1>5, <1>16, SaveFacts
  <2>2. to \in Stages /\ request["more"] \in Requests
    BY <1>3, <1>5 DEF Saving, Stages
  <2>3. Advanced(request["more"], to, list).at = to
    BY <2>2, AdvancedFacts
  <2>4. request'["more"].at = to /\ \A t \in Tasks \ {"more"} : request'[t] = request[t]
    BY <1>3, <1>5, <2>1, <2>3
  <2>5. base' = base /\ isFetchingMore' = isFetchingMore
    BY <1>5, <1>16, SaveFacts DEF screen, history
  <2>6. to # "none" /\ request["more"].at # "none"
    BY <2>1 DEF Saving, Later
  <2> QED
    BY <1>4, <1>6, <2>4, <2>5, <2>6
<1>17. ASSUME NEW t \in Tasks \ {"more"}, Save(t) PROVE Requested'
  <2>1. PICK to \in Saving, list \in Seq(Entries) :
          request' = [request EXCEPT ![t] = Advanced(request[t], to, list)]
    BY <1>17, SaveFacts
  <2>2. Right(request'[t], booked')
    BY <1>17, SaveKeepsRight
  <2>3. \A u \in Tasks : u # t => request'[u] = request[u]
    BY <1>3, <2>1
  <2>4. base' = base /\ isFetchingMore' = isFetchingMore
    BY <1>17, SaveFacts DEF screen, history
  <2> QED
    BY <1>4, <1>5, <1>6, <2>2, <2>3, <2>4
<1>18. ASSUME NEW t \in Tasks \ {"more"}, Answer(t) PROVE Requested'
  <2>1. PICK order \in Seq(Rows) :
          /\ Len(order) = booked /\ IsInjective(order)
          /\ request' = [request EXCEPT ![t] = Answered(request[t], t, order)]
    BY <1>18, AnswerFacts
  <2> DEFINE r == Answered(request[t], t, order)
  <2>2. /\ r.at = "answered" /\ r.offset = request[t].offset
        /\ r.rows = Slice(order, request[t].offset) /\ r.order = order
    BY <1>3, AnsweredFacts
  <2>3. request[t].offset = 0
    BY DEF Requested, Right
  <2>4. booked' = booked /\ base' = base /\ isFetchingMore' = isFetchingMore
    BY <1>18 DEF Answer, screen
  <2> HIDE DEF r
  <2>5. /\ request'[t] = r
        /\ \A u \in Tasks : u # t => request'[u] = request[u]
    BY <1>3, <2>1 DEF r
  <2>6. Right(r, booked')
    BY <1>1, <2>1, <2>2, <2>3, <2>4 DEF Right, Saving
  <2> QED
    BY <1>4, <1>5, <1>6, <2>4, <2>5, <2>6
<1>19. ASSUME NEW t \in Tasks \ {"more"}, ArriveNew(t) PROVE Requested'
  <2>1. /\ booked' = booked /\ base' = request[t].order /\ isFetchingMore' = isFetchingMore
        /\ request' = [request EXCEPT ![t] = Nothing] /\ request[t].at = "show"
    BY <1>19 DEF ArriveNew, Over
  <2>2. Ordered(base)'
    BY <2>1 DEF Requested, Right, Later, Ordered
  <2>3. /\ request'[t] = Nothing
        /\ \A u \in Tasks : u # t => request'[u] = request[u]
    BY <1>3, <2>1
  <2>4. ASSUME NEW u \in Tasks \ {"more"} PROVE Right(request'[u], booked')
    <3>1. CASE u = t
      BY <2>3, <3>1, NotLater
    <3>2. CASE u # t
      BY <2>1, <2>3, <3>2 DEF Requested
    <3> QED
      BY <3>1, <3>2
  <2>5. \A u \in Tasks \ {"more"} : Right(request[u], booked)'
    BY <2>4 DEF Right
  <2> QED
    BY <1>4, <1>5, <2>1, <2>2, <2>3, <2>5 DEF Requested
<1> QED
  BY <1>7, <1>8, <1>9, <1>10, <1>11, <1>12, <1>13, <1>14, <1>15, <1>16, <1>17, <1>18, <1>19
     DEF Next, Progress, ProgressMore

(* What the steps that change the list leave. *)
LEMMA ArriveNewFacts ==
    ASSUME TypeOK, Requested, NEW t \in Tasks, ArriveNew(t)
    PROVE  LET rows == request[t].rows  order == request[t].order IN
           /\ order \in Seq(Rows) /\ IsInjective(order) /\ Len(order) <= booked
           /\ rows \in Seq(Rows) /\ IsInjective(rows) /\ rows = Slice(order, 0)
           /\ extra' \in Nat
           /\ Len(shown') = extra' + Len(rows) /\ offset' = Len(shown')
           /\ Range(rows) \subseteq IdsOf(shown')
           /\ hasMore' = (Len(shown') >= Limit)
<1> DEFINE rows == request[t].rows
           order == request[t].order
           list == request[t].list
<1>1. t # "more" /\ request[t].at = "show"
  BY DEF ArriveNew
<1>2. rows \in Seq(Rows) /\ order \in Seq(Rows) /\ list \in Seq(Entries)
  BY RequestFacts
<1>3. Right(request[t], booked) /\ request[t].at \in Later /\ request[t].at \in Saving
  BY <1>1 DEF Requested, Later, Saving
<1>4. /\ rows = Slice(order, 0) /\ IsInjective(order) /\ Len(order) <= booked
      /\ Range(rows) \subseteq IdsOf(list) /\ Len(rows) <= Len(list)
  BY <1>3 DEF Right
<1>5. /\ shown' = list /\ offset' = Len(list)
      /\ extra' = Len(list) - Len(rows) /\ hasMore' = (Len(list) >= Limit)
  BY DEF ArriveNew, Replace
<1> HIDE DEF rows, order, list
<1>6. IsInjective(rows)
  BY <1>2, <1>4, SliceInjective
<1>7. extra' \in Nat /\ Len(list) = extra' + Len(rows)
  BY <1>2, <1>4, <1>5
<1> QED
  BY <1>2, <1>4, <1>5, <1>6, <1>7 DEF rows, order

LEMMA ArriveMoreFacts ==
    ASSUME TypeOK, ArriveMore
    PROVE  LET rows == request["more"].rows IN
           /\ rows \in Seq(Rows)
           /\ Len(shown') = Len(shown) + Len(rows) /\ offset' = offset + Len(rows)
           /\ IdsOf(shown') = IdsOf(shown) \cup Range(rows)
           /\ hasMore' = (Len(rows) >= Limit)
           /\ clean' = clean /\ base' = base /\ extra' = extra /\ booked' = booked
           /\ request' = [request EXCEPT !["more"] = Nothing]
<1> DEFINE rows == request["more"].rows
           results == EntriesOf(rows, FALSE)
<1>1. AddAll(results)
  BY DEF ArriveMore
<1>2. rows \in Seq(Rows)
  BY RequestFacts DEF Tasks
<1> HIDE DEF rows
<1>4. rows \in Seq(Ids) /\ Range(rows) \subseteq Ids
  BY <1>2, RowsAreIds
<1>5. results \in Seq(Entries) /\ Len(results) = Len(rows) /\ IdsOf(results) = Range(rows)
  BY <1>4, EntriesOfFacts
<1> HIDE DEF results
<1>6. Len(shown') = Len(shown) + Len(results) /\ IdsOf(shown') = IdsOf(shown) \cup IdsOf(results)
  BY <1>1, <1>5, AddAllTypes
<1>7. offset' = offset + Len(results) /\ hasMore' = (Len(results) >= Limit)
  BY <1>1 DEF AddAll
<1>8. clean' = clean /\ base' = base /\ extra' = extra /\ booked' = booked
      /\ request' = [request EXCEPT !["more"] = Nothing]
  BY <1>1 DEF AddAll, ArriveMore, Over
<1> QED
  BY <1>2, <1>5, <1>6, <1>7, <1>8 DEF rows

LEMMA NextOffset ==
    ASSUME TypeOK, OffsetIsLength, [Next]_vars PROVE OffsetIsLength'
<1>1. CASE UNCHANGED vars
  BY <1>1 DEF vars, screen, OffsetIsLength
<1>2. CASE Restart
  <2> DEFINE box == cache'
  <2>1. FromCache(box)
    BY <1>2 DEF Restart
  <2> HIDE DEF box
  <2> QED
    BY <2>1 DEF FromCache, Replace, OffsetIsLength
<1>3. CASE Retry
  BY <1>3 DEF Retry, Replace, OffsetIsLength
<1>4. CASE \E t \in Tasks \ {"more"} : ArriveNew(t)
  BY <1>4 DEF ArriveNew, Replace, OffsetIsLength
<1>5. CASE ArriveMore
  <2>1. Len(shown') = Len(shown) + Len(request["more"].rows)
        /\ offset' = offset + Len(request["more"].rows)
    BY <1>5, ArriveMoreFacts
  <2> QED
    BY <2>1 DEF OffsetIsLength
<1>6. CASE FailMore
  <2> DEFINE results == Slice(CacheList(cache), request["more"].offset)
  <2>1. results \in Seq(Entries)
    <3>1. request["more"].offset \in Nat
      BY RequestFacts DEF Tasks
    <3>2. CacheList(cache) \in Seq(Entries)
      BY CacheTypes, CacheListFacts
    <3> QED
      BY <3>1, <3>2, SliceFacts
  <2>2. AddAll(results)
    BY <1>6 DEF FailMore
  <2> HIDE DEF results
  <2>3. Len(shown') = Len(shown) + Len(results)
    BY <2>1, <2>2, AddAllTypes
  <2> QED
    BY <2>2, <2>3 DEF AddAll, OffsetIsLength
<1>7. CASE Created
  BY <1>7, CreatedFacts DEF screen, OffsetIsLength
<1>8. CASE Close
  <2>1. Len(shown') = Len(shown)
    BY <1>8, CloseFacts
  <2> QED
    BY <1>8, <2>1 DEF Close, OffsetIsLength
<1>9. CASE \/ Book \/ Refresh \/ More \/ Create \/ Review
           \/ (\E t \in Tasks : Answer(t) \/ FailNew(t))
           \/ (\E i \in DOMAIN shown : Open(i)) \/ \E d \in details : Detail(d[1], d[2])
  BY <1>9 DEF Book, Refresh, More, Create, Review, Answer, FailNew, Open, Detail, screen,
              OffsetIsLength
<1>10. CASE \E t \in Tasks : Save(t)
  BY <1>10, SaveFacts DEF screen, OffsetIsLength
<1> QED
  BY <1>1, <1>2, <1>3, <1>4, <1>5, <1>6, <1>7, <1>8, <1>9, <1>10
     DEF Next, Progress, ProgressMore, Tasks

-----------------------------------------------------------------------------
(* What is missing, and what is repeated *)

Counted == Reached /\ OnTheWay /\ RepeatsOnlyForMoved

\* The same, of the state after a step.
CountedAfter ==
    clean' =>
      /\ Missing(base', shown', IF hasMore' THEN offset' - (booked' - Len(base'))
                                            ELSE Len(base')) <= extra'
      /\ Len(shown') - Cardinality(IdsOf(shown')) <= (booked' - Len(base')) + extra'

LEMMA MissingLess ==
    ASSUME NEW S, NEW order \in Seq(S), NEW list, NEW longer,
           IdsOf(list) \subseteq IdsOf(longer), NEW q \in Int, NEW r \in Int,
           NEW e \in Nat
    PROVE  /\ Missing(order, longer, r) \in Nat /\ Missing(order, list, q) \in Nat
           /\ r <= q => Missing(order, longer, r) <= Missing(order, list, q)
           /\ r <= q + e => Missing(order, longer, r) <= Missing(order, list, q) + e
<1>1. Missing(order, longer, r) \in Nat /\ Missing(order, list, q) \in Nat
  BY FirstFinite
<1>2. \A i \in DOMAIN order : ~(q < i /\ i <= q)
  <2>1. DOMAIN order = 1 .. Len(order) /\ Len(order) \in Nat
    OBVIOUS
  <2> QED
    BY <2>1
<1>3. Missing(order, longer, r) <= Missing(order, list, q) + (IF q < r THEN r - q ELSE 0)
  <2>1. q <= q
    OBVIOUS
  <2> QED
    BY <1>2, <2>1, MissingAfter
<1> QED
  BY <1>1, <1>3

(* Sums, of whole numbers of which nothing else is known. *)
LEMMA Shifted ==
    ASSUME NEW a \in Int, NEW b \in Int, NEW c \in Int, NEW e \in Nat, b <= a + e
    PROVE  a - c \in Int /\ b - c \in Int /\ b - c <= (a - c) + e
OBVIOUS

LEMMA Further ==
    ASSUME NEW e \in Int, NEW m \in Int, NEW n \in Int, m <= n, NEW d \in Int
    PROVE  e + m - d \in Int /\ e + n - d \in Int /\ e + m - d <= e + n - d
OBVIOUS

(* A list of u + n entries that shows S of the b rows, all but y of them:   *)
(* of these k came before its last page, which starts at o - d.             *)
LEMMA Balance ==
    ASSUME NEW k \in Nat, NEW y \in Nat, NEW S \in Nat, NEW u \in Int, NEW n \in Int,
           NEW b \in Int, NEW o \in Int, NEW d \in Int, NEW e \in Int, NEW m \in Int,
           k + u - o <= e + m - d, o + n <= b + d, b <= S + y,
           y <= k + (IF o - d + n < b THEN b - (o - d + n) ELSE 0)
    PROVE  (u + n) - S <= m + e
OBVIOUS

LEMMA Shorter ==
    ASSUME NEW n \in Nat, NEW e \in Nat, NEW l \in Nat, ~(e + n >= l) PROVE n < l
OBVIOUS

LEMMA Above ==
    ASSUME NEW x \in Nat, NEW e \in Nat, NEW n \in Nat, NEW r \in Int,
           x <= IF n < r THEN r - n ELSE 0, r <= n + e
    PROVE  x <= e
OBVIOUS

LEMMA AtMost ==
    ASSUME NEW x \in Nat, NEW y \in Nat, x <= y, NEW e \in Int, NEW u \in Int,
           NEW v \in Int, NEW f \in Int, NEW g \in Int, f <= g, y <= e, y + u - v <= f
    PROVE  x <= e /\ x + u - v <= g
OBVIOUS

LEMMA SomeMore ==
    ASSUME NEW x \in Nat, NEW y \in Nat, x <= y, NEW e \in Int, NEW u \in Int,
           NEW k \in Nat, NEW w \in Int, w <= u + k, NEW v \in Int, NEW m \in Int,
           NEW d \in Int, y <= e, y + u - v <= e + m - d
    PROVE  x <= e + k /\ x + w - v <= (e + k) + m - d
OBVIOUS

LEMMA CountedPrime ==
    ASSUME CountedAfter,
           clean' /\ request'["more"].at # "none" => (OnTheWay)'
    PROVE  Counted'
BY DEF CountedAfter, Counted, Reached, OnTheWay, RepeatsOnlyForMoved, ShownIds, IdsOf, Moved

\* What the counting steps have at hand.
Numbers ==
    /\ booked \in Nat /\ offset \in Nat /\ extra \in Nat /\ hasMore \in BOOLEAN
    /\ base \in Seq(Rows) /\ Len(base) \in Nat /\ Moved \in Nat
    /\ shown \in Seq(Entries) /\ Len(shown) \in Nat
    /\ request["more"].offset \in Nat

LEMMA NumbersHold ==
    ASSUME TypeOK, Requested PROVE Numbers
<1>1. /\ booked \in Nat /\ offset \in Nat /\ extra \in Nat /\ hasMore \in BOOLEAN
      /\ base \in Seq(Rows) /\ shown \in Seq(Entries)
  BY DEF TypeOK
<1>2. Len(base) \in Nat /\ Len(shown) \in Nat
  BY <1>1
<1>3. Moved \in Nat
  BY <1>1, <1>2 DEF Requested, Ordered, Moved
<1>4. request["more"].offset \in Nat
  BY RequestFacts DEF Tasks
<1> QED
  BY <1>1, <1>2, <1>3, <1>4 DEF Numbers

(* A step that leaves the list and what the page on its way has, wherever   *)
(* it is: rows booked move the pages, which only brings more of what was    *)
(* asked for again.                                                         *)
LEMMA Unmoved ==
    ASSUME Numbers, Counted, booked' \in Nat, booked' >= booked,
           clean' => clean /\ IdsOf(shown') = IdsOf(shown),
           Len(shown') = Len(shown), offset' = offset, hasMore' = hasMore,
           base' = base, extra' = extra,
           request'["more"].offset = request["more"].offset,
           request'["more"].rows = request["more"].rows,
           \/ request'["more"].at = request["more"].at
           \/ request'["more"].at \in Later /\ request["more"].at \in Later
    PROVE  Counted'
<1> SUFFICES ASSUME clean' PROVE Counted'
  BY CountedPrime DEF CountedAfter
<1>0. clean /\ IdsOf(shown') = IdsOf(shown)
  OBVIOUS
<1>1. /\ booked \in Nat /\ offset \in Nat /\ extra \in Nat /\ hasMore \in BOOLEAN
      /\ base \in Seq(Rows) /\ Len(base) \in Nat /\ Moved \in Nat
      /\ Len(shown) \in Nat /\ request["more"].offset \in Nat
      /\ Moved = booked - Len(base)
  BY DEF Numbers, Moved
<1> DEFINE m == booked' - Len(base)
           o == request["more"].offset
<1>2. m \in Nat /\ m >= Moved
  BY <1>1
<1>3. ASSUME NEW q \in Int, NEW r \in Int, r <= q
      PROVE  /\ Missing(base, shown', r) <= Missing(base, shown, q)
             /\ Missing(base, shown', r) \in Nat /\ Missing(base, shown, q) \in Nat
  <2>1. 0 \in Nat
    OBVIOUS
  <2> QED
    BY <1>0, <1>1, <1>3, <2>1, MissingLess
<1>4. CountedAfter
  <2>1. Missing(base, shown', IF hasMore THEN offset - m ELSE Len(base)) <= extra
    <3> DEFINE q == IF hasMore THEN offset - Moved ELSE Len(base)
               r == IF hasMore THEN offset - m ELSE Len(base)
    <3>1. q \in Int /\ r \in Int /\ r <= q
      BY <1>1, <1>2
    <3>2. Missing(base, shown, q) <= extra
      BY <1>0 DEF Counted, Reached
    <3> HIDE DEF q, r
    <3>3. Missing(base, shown', r) <= extra
      <4>1. /\ Missing(base, shown', r) <= Missing(base, shown, q)
            /\ Missing(base, shown', r) \in Nat /\ Missing(base, shown, q) \in Nat
        BY <1>3, <3>1
      <4>2. extra \in Int
        BY <1>1
      <4> QED
        BY <3>2, <4>1, <4>2
    <3> QED
      BY <3>3 DEF r
  <2>2. Len(shown) - Cardinality(IdsOf(shown)) <= m + extra
    <3>1. Len(shown) - Cardinality(IdsOf(shown)) <= Moved + extra
      BY <1>0 DEF Counted, RepeatsOnlyForMoved, ShownIds, IdsOf
    <3>2. Cardinality(IdsOf(shown)) \in Nat
      BY IdsCount DEF Numbers
    <3> QED
      BY <1>1, <1>2, <3>1, <3>2
  <2> QED
    BY <1>0, <2>1, <2>2 DEF CountedAfter
<1>5. /\ m \in Int /\ Moved \in Int /\ Moved <= m /\ extra \in Int
      /\ offset \in Int /\ o \in Int
  BY <1>1, <1>2
<1>7. o = request["more"].offset /\ m = booked' - Len(base)
  OBVIOUS
<1> HIDE DEF m, o
<1>6. ASSUME request["more"].at # "none" PROVE (OnTheWay)'
  <2> DEFINE P(d) == /\ Missing(base, shown, o - d) <= extra
                     /\ Missing(base, shown, o - d) + offset - o <= extra + Moved - d
             Q(d) == /\ Missing(base, shown', o - d) <= extra
                     /\ Missing(base, shown', o - d) + offset - o <= extra + m - d
  <2>1. ASSUME request["more"].at = "sent" PROVE Q(m)
    <3>1. P(Moved)
      BY <1>0, <1>7, <2>1 DEF Counted, OnTheWay, StartsRight
    <3>2. o - m \in Int /\ o - Moved \in Int /\ o - m <= o - Moved
      BY <1>5
    <3>3. /\ Missing(base, shown', o - m) <= Missing(base, shown, o - Moved)
          /\ Missing(base, shown', o - m) \in Nat /\ Missing(base, shown, o - Moved) \in Nat
      BY <1>3, <3>2
    <3>4. extra \in Int /\ offset \in Int /\ o \in Int
          /\ extra + Moved - Moved \in Int /\ extra + m - m \in Int
          /\ extra + Moved - Moved <= extra + m - m
      BY <1>5
    <3> QED
      BY <3>1, <3>3, <3>4, AtMost
  <2>2. ASSUME request["more"].at \in Later
        PROVE  \E d \in 0 .. m : Q(d) /\ Page(request["more"].rows, o, d)
    <3>1. PICK d \in 0 .. Moved : P(d) /\ Page(request["more"].rows, o, d)
      BY <1>0, <1>7, <2>2 DEF Counted, OnTheWay, StartsRight, Later
    <3>2. d \in 0 .. m /\ o - d \in Int /\ o - d <= o - d /\ d \in Int
      BY <1>5
    <3>3. /\ Missing(base, shown', o - d) <= Missing(base, shown, o - d)
          /\ Missing(base, shown', o - d) \in Nat /\ Missing(base, shown, o - d) \in Nat
      BY <1>3, <3>2
    <3>4. Q(d)
      <4>1. extra \in Int /\ offset \in Int /\ o \in Int
            /\ extra + Moved - d \in Int /\ extra + m - d \in Int
            /\ extra + Moved - d <= extra + m - d
        <5>1. d \in Int
          BY <3>2
        <5> QED
          BY <1>5, <5>1, Further
      <4> QED
        BY <3>1, <3>3, <4>1, AtMost
    <3> QED
      BY <3>1, <3>2, <3>4
  <2>3. request'["more"].at = "sent" => request["more"].at = "sent"
    BY DEF Later
  <2>4. request'["more"].at \in Later => request["more"].at \in Later
    OBVIOUS
  <2> QED
    BY <1>7, <2>1, <2>2, <2>3, <2>4 DEF OnTheWay, StartsRight, Page, Moved
<1>8. request'["more"].at # "none" => request["more"].at # "none"
  BY DEF Later
<1> QED
  BY <1>4, <1>6, <1>8, CountedPrime

LEMMA CountedNumbers ==
    ASSUME Numbers, Counted, clean
    PROVE  LET S == Cardinality(IdsOf(shown)) IN
           /\ S \in Nat /\ S <= Len(shown)
           /\ Len(shown) - S <= Moved + extra
           /\ Missing(base, shown, IF hasMore THEN offset - Moved ELSE Len(base)) <= extra
<1>1. Cardinality(IdsOf(shown)) \in Nat /\ Cardinality(IdsOf(shown)) <= Len(shown)
  BY IdsCount DEF Numbers
<1> QED
  BY <1>1 DEF Counted, Reached, RepeatsOnlyForMoved, ShownIds, IdsOf

LEMMA MoreCounted ==
    ASSUME TypeOK, Numbers, Counted, More PROVE Counted'
<1> SUFFICES ASSUME clean' PROVE Counted'
  BY CountedPrime DEF CountedAfter
<1>1. /\ shown' = shown /\ offset' = offset /\ hasMore' = hasMore /\ booked' = booked
      /\ base' = base /\ extra' = extra /\ clean /\ hasMore
      /\ request' = [request EXCEPT !["more"] = Ask(offset)]
  BY DEF More, history, Send
<1>2. CountedAfter
  BY <1>1, CountedNumbers DEF CountedAfter, Moved
<1>3. (OnTheWay)'
  <2>1. Missing(base, shown, offset - Moved) <= extra
        /\ Missing(base, shown, offset - Moved) \in Nat
    <3>1. offset - Moved \in Int /\ base \in Seq(Rows)
      BY DEF Numbers
    <3> QED
      BY <1>1, <3>1, CountedNumbers, FirstFinite
  <2>2. Missing(base, shown, offset - Moved) + offset - offset <= extra + Moved - Moved
    BY <2>1 DEF Numbers
  <2>3. request'["more"].offset = offset /\ request'["more"].at = "sent"
    <3>1. request \in [Tasks -> Requests] /\ "more" \in Tasks /\ offset \in Nat
      BY DEF TypeOK, Tasks
    <3>2. request'["more"] = Ask(offset)
      BY <1>1, <3>1
    <3> QED
      BY <3>1, <3>2, RequestTypes
  <2> QED
    BY <1>1, <2>1, <2>2, <2>3 DEF OnTheWay, StartsRight, Moved, Later
<1> QED
  BY <1>2, <1>3, CountedPrime

(* The page has the rows from its offset on, as they have moved meanwhile.  *)
LEMMA AnswerMoreCounted ==
    ASSUME TypeOK, Numbers, Counted, Answer("more") PROVE Counted'
<1> SUFFICES ASSUME clean' PROVE Counted'
  BY CountedPrime DEF CountedAfter
<1>0. "more" \in Tasks
  BY DEF Tasks
<1>1. PICK order \in OrdersOf[booked] :
          /\ order \in Seq(Rows) /\ Len(order) = booked
          /\ request' = [request EXCEPT !["more"] = Answered(request["more"], "more", order)]
          /\ clean' = (clean /\ ("more" = "more" => SubSeq(order, Moved + 1, booked) = base))
  BY <1>0, AnswerFacts
<1>2. clean /\ SubSeq(order, Moved + 1, booked) = base
  BY <1>1
<1>3. /\ shown' = shown /\ offset' = offset /\ hasMore' = hasMore /\ booked' = booked
      /\ base' = base /\ extra' = extra /\ request["more"].at = "sent"
  BY DEF Answer, screen
<1> DEFINE o == request["more"].offset
           rows == Slice(order, o)
<1>4. /\ request'["more"].offset = o /\ request'["more"].at = "answered"
      /\ request'["more"].rows = rows
  <2>1. request \in [Tasks -> Requests] /\ request["more"] \in Requests
    BY <1>0 DEF TypeOK
  <2>2. request'["more"] = Answered(request["more"], "more", order)
    BY <1>0, <1>1, <2>1
  <2> QED
    BY <1>1, <2>1, <2>2, AnsweredFacts
<1>5. CountedAfter
  BY <1>2, <1>3, CountedNumbers DEF CountedAfter, Moved
<1>6. StartsRight(o, Moved)
  BY <1>2, <1>3 DEF Counted, OnTheWay
<1>7. o \in Nat /\ Moved \in Nat /\ booked \in Nat /\ Len(base) \in Nat /\ Limit \in Nat
      /\ Moved = booked - Len(base)
  BY IdFacts DEF Numbers, Moved
<1> HIDE DEF o
<1>8. /\ rows \in Seq(Rows) /\ Len(rows) <= Limit
      /\ (Len(rows) < Limit => booked <= o + Len(rows))
      /\ (Len(rows) > 0 => o + Len(rows) <= booked)
      /\ \A i \in 1 .. Len(rows) : rows[i] = order[o + i]
  BY <1>1, <1>7, SliceFacts
<1> HIDE DEF rows
<1>9. Len(rows) \in Nat /\ DOMAIN rows = 1 .. Len(rows)
  BY <1>8
<1>10. ASSUME NEW i \in DOMAIN base, o - Moved < i, i <= o - Moved + Len(rows)
       PROVE  base[i] \in Range(rows)
  <2>1. i \in 1 .. Len(base)
    <3>1. base \in Seq(Rows)
      BY DEF Numbers
    <3> QED
      BY <3>1
  <2>2. base[i] = order[Moved + i]
    <3>1. \A k \in Moved + 1 .. booked : order[k] \in Rows
      BY <1>1, <1>7
    <3>2. Moved + 1 \in Int /\ booked \in Int /\ booked - (Moved + 1) + 1 = Len(base)
      BY <1>7
    <3>3. \A k \in 1 .. booked - (Moved + 1) + 1 :
             SubSeq(order, Moved + 1, booked)[k] = order[Moved + 1 + k - 1]
      BY <3>1, <3>2, SubSeqProperties
    <3>4. Moved + 1 + i - 1 = Moved + i
      BY <1>7, <2>1
    <3> QED
      BY <1>2, <2>1, <3>2, <3>3, <3>4
  <2> DEFINE j == Moved + i - o
  <2>3. j \in 1 .. Len(rows) /\ o + j = Moved + i
    BY <1>7, <1>9, <1>10, <2>1
  <2> HIDE DEF j
  <2>4. rows[j] = order[Moved + i]
    BY <1>8, <2>3
  <2> QED
    BY <1>9, <2>2, <2>3, <2>4 DEF Range
<1>11. Page(rows, o, Moved)
  BY <1>7, <1>8, <1>9, <1>10 DEF Page
<1>12. (OnTheWay)'
  <2>1. Moved \in 0 .. Moved
    BY <1>7
  <2> QED
    BY <1>3, <1>4, <1>6, <1>11, <2>1 DEF OnTheWay, StartsRight, Page, Moved, Later
<1> QED
  BY <1>5, <1>12, CountedPrime

(* A page that comes has what was missing before it, and what the list had  *)
(* become longer by; what it repeats the rows had moved by.                 *)
LEMMA ArriveMoreCounted ==
    ASSUME TypeOK, Requested, Numbers, OffsetIsLength, Counted, ArriveMore PROVE Counted'
<1> SUFFICES ASSUME clean' PROVE Counted'
  BY CountedPrime DEF CountedAfter
<1> DEFINE rows == request["more"].rows
           o == request["more"].offset
           n == Len(rows)
           s == shown'
<1>1. /\ rows \in Seq(Rows) /\ Len(s) = Len(shown) + n /\ offset' = offset + n
      /\ IdsOf(s) = IdsOf(shown) \cup Range(rows) /\ hasMore' = (n >= Limit)
      /\ clean /\ base' = base /\ extra' = extra /\ booked' = booked
  BY ArriveMoreFacts
<1>2. request["more"].at \in Later /\ request["more"].at # "none"
  BY DEF ArriveMore, Later
<1>3. PICK d \in 0 .. Moved : StartsRight(o, d) /\ Page(rows, o, d)
  BY <1>1, <1>2 DEF Counted, OnTheWay
<1>4. request'["more"].at = "none"
  BY ArriveMoreFacts, RequestTypes DEF TypeOK, Tasks
<1>5. s \in Seq(Entries)
  BY NextTypes DEF TypeOK, Next, ProgressMore
<1>6. /\ o \in Nat /\ Moved \in Nat /\ d \in Nat /\ Limit \in Nat /\ offset \in Nat
      /\ extra \in Nat /\ Len(base) \in Nat /\ Len(shown) = offset /\ Len(shown) \in Nat
  BY IdFacts DEF Numbers, OffsetIsLength
<1>7. base \in Seq(Rows) /\ IsInjective(base)
  BY DEF Numbers, Requested, Ordered
<1> HIDE DEF rows, o, s
<1>8. n \in Nat /\ DOMAIN rows = 1 .. n
  BY <1>1
<1> DEFINE K == Missing(base, shown, o - d)
<1>9. K \in Nat /\ K <= extra /\ K + offset - o <= extra + Moved - d
  <2>1. K \in Nat
    <3>1. o - d \in Int
      BY <1>6
    <3> QED
      BY <1>7, <3>1, FirstFinite
  <2> QED
    BY <1>3, <2>1 DEF StartsRight
<1>10. /\ (n < Limit => Len(base) + d <= o + n)
       /\ (n > 0 => o + n <= Len(base) + d)
       /\ \A i \in DOMAIN base : o - d < i /\ i <= o - d + n => base[i] \in Range(rows)
  BY <1>3 DEF Page
<1> HIDE DEF n
<1>11. ASSUME NEW r \in Int
       PROVE  /\ Missing(base, s, r) \in Nat
              /\ Missing(base, s, r) <= K + (IF o - d + n < r THEN r - (o - d + n) ELSE 0)
  <2> DEFINE a == o - d
             b == o - d + n
  <2>1. a \in Int /\ b \in Int /\ a <= b
    BY <1>6, <1>8
  <2>2. \A i \in DOMAIN base : a < i /\ i <= b => base[i] \in IdsOf(s)
    BY <1>1, <1>10
  <2>3. IdsOf(shown) \subseteq IdsOf(s)
    BY <1>1
  <2> HIDE DEF a, b
  <2>4. Missing(base, s, r) <= Missing(base, shown, a) + (IF b < r THEN r - b ELSE 0)
    BY <1>7, <2>1, <2>2, <2>3, MissingAfter
  <2>5. Missing(base, s, r) \in Nat
    BY <1>7, FirstFinite
  <2> QED
    BY <2>4, <2>5 DEF a, b
<1> HIDE DEF K
<1>12. n < Limit => Missing(base, s, Len(base)) <= extra
  <2>1. Missing(base, s, Len(base)) \in Nat
        /\ Missing(base, s, Len(base)) <=
             K + (IF o - d + n < Len(base) THEN Len(base) - (o - d + n) ELSE 0)
    BY <1>6, <1>11
  <2> QED
    BY <1>6, <1>8, <1>9, <1>10, <2>1
<1>13. Missing(base, s, offset + n - Moved) <= extra
  <2> DEFINE r == offset + n - Moved
  <2>1. r \in Int
    BY <1>6, <1>8
  <2> HIDE DEF r
  <2>2. /\ Missing(base, s, r) \in Nat
        /\ Missing(base, s, r) <= K + (IF o - d + n < r THEN r - (o - d + n) ELSE 0)
    BY <1>11, <2>1
  <2>3. r = offset + n - Moved
    BY DEF r
  <2>4. Missing(base, s, r) <= extra
    BY <1>6, <1>8, <1>9, <2>2, <2>3
  <2> QED
    BY <2>4 DEF r
<1>14. Len(s) - Cardinality(IdsOf(s)) <= Moved + extra
  <2>1. CASE n = 0
    <3>1. Range(rows) = {}
      BY <1>8, <2>1 DEF Range
    <3>2. IdsOf(s) = IdsOf(shown) /\ Len(s) = Len(shown)
      BY <1>1, <1>6, <2>1, <3>1
    <3> QED
      BY <1>1, <3>2, CountedNumbers
  <2>2. CASE n # 0
    <3>1. Missing(base, s, Len(base)) \in Nat
          /\ Missing(base, s, Len(base)) <=
               K + (IF o - d + n < Len(base) THEN Len(base) - (o - d + n) ELSE 0)
      BY <1>6, <1>11
    <3>2. o + n <= Len(base) + d
      BY <1>8, <1>10, <2>2
    <3>3. Cardinality(IdsOf(s)) \in Nat
      BY <1>5, IdsCount
    <3>4. Len(base) \in 0 .. Len(base)
      BY <1>6
    <3>5. Len(base) <= Cardinality(IdsOf(s)) + Missing(base, s, Len(base))
      BY <1>5, <1>7, <3>4, ShownCount
    <3>6. Len(s) = offset + n
      BY <1>1, <1>6
    <3>7. /\ o \in Int /\ Moved \in Int /\ d \in Int /\ n \in Int /\ offset \in Int
          /\ extra \in Int /\ Len(base) \in Int
      BY <1>6, <1>8
    <3>8. (offset + n) - Cardinality(IdsOf(s)) <= Moved + extra
      BY <1>9, <3>1, <3>2, <3>3, <3>5, <3>7, Balance
    <3> QED
      BY <3>6, <3>8
  <2> QED
    BY <2>1, <2>2
<1>15. CountedAfter
  <2>1. /\ booked' - Len(base') = Moved /\ offset' = offset + n
        /\ base' = base /\ extra' = extra
    BY <1>1 DEF Moved
  <2>2. ASSUME hasMore' PROVE Missing(base', s, offset' - (booked' - Len(base'))) <= extra'
    <3> DEFINE r == offset' - (booked' - Len(base'))
    <3>1. r = offset + n - Moved
      <4> DEFINE m == booked' - Len(base')
      <4>1. m = Moved /\ offset' = offset + n
        BY <2>1
      <4>2. r = offset' - m /\ offset \in Int /\ n \in Int /\ Moved \in Int
        BY <1>6, <1>8
      <4> HIDE DEF m, r
      <4> QED
        BY <4>1, <4>2
    <3> HIDE DEF r
    <3>2. Missing(base, s, r) <= extra
      BY <1>13, <3>1
    <3>3. Missing(base', s, r) <= extra'
      BY <2>1, <3>2
    <3> QED
      BY <3>3 DEF r
  <2>3. ASSUME ~hasMore' PROVE Missing(base', s, Len(base')) <= extra'
    <3>1. ~(n >= Limit)
      BY <1>1, <2>3
    <3>2. n < Limit
      BY <1>6, <1>8, <3>1
    <3> QED
      BY <1>12, <2>1, <3>2
  <2>4. Len(s) - Cardinality(IdsOf(s)) <= (booked' - Len(base')) + extra'
    BY <1>14, <2>1
  <2> QED
    BY <2>2, <2>3, <2>4 DEF CountedAfter, s
<1> QED
  BY <1>4, <1>15, CountedPrime

(* A new list has the first rows of its order, and whatever else is pinned  *)
(* on top of them.                                                          *)
LEMMA ArriveNewCounted ==
    ASSUME TypeOK, Requested, NEW t \in Tasks, ArriveNew(t) PROVE Counted'
<1> SUFFICES ASSUME clean' PROVE Counted'
  BY CountedPrime DEF CountedAfter
<1> DEFINE rows == request[t].rows
           order == request[t].order
           n == Len(rows)
           s == shown'
           m == booked - Len(order)
<1>1. /\ order \in Seq(Rows) /\ IsInjective(order) /\ Len(order) <= booked
      /\ rows \in Seq(Rows) /\ IsInjective(rows) /\ rows = Slice(order, 0)
      /\ extra' \in Nat /\ Len(s) = extra' + n /\ offset' = Len(s)
      /\ Range(rows) \subseteq IdsOf(s) /\ hasMore' = (Len(s) >= Limit)
  BY ArriveNewFacts
<1>2. /\ booked' = booked /\ base' = order /\ ~isFetchingMore
      /\ request' = [request EXCEPT ![t] = Nothing] /\ t # "more"
  BY DEF ArriveNew, Over
<1>3. request'["more"].at = "none"
  <2>1. request["more"].at = "none"
    BY <1>2 DEF Requested
  <2>2. request \in [Tasks -> Requests] /\ "more" \in Tasks
    BY DEF TypeOK, Tasks
  <2>3. request'["more"] = request["more"]
    BY <1>2, <2>2
  <2> QED
    BY <2>1, <2>3
<1>4. s \in Seq(Entries)
  BY ArriveNewTypes DEF TypeOK
<1> HIDE DEF rows, order, s
<1>5. /\ n \in Nat /\ DOMAIN rows = 1 .. n /\ Len(order) \in Nat /\ booked \in Nat
      /\ Limit \in Nat /\ DOMAIN order = 1 .. Len(order)
  <2>1. booked \in Nat
    BY DEF TypeOK
  <2>2. Limit \in Nat
    BY IdFacts
  <2>3. rows \in Seq(Rows) /\ order \in Seq(Rows)
    BY <1>1
  <2> QED
    BY <2>1, <2>2, <2>3
<1>6. /\ (n < Limit => Len(order) <= n)
      /\ \A i \in 1 .. n : rows[i] = order[0 + i]
  BY <1>1, SliceFacts
<1> HIDE DEF n
<1>7. ASSUME NEW r \in Int
      PROVE  /\ Missing(order, s, r) \in Nat
             /\ Missing(order, s, r) <= IF n < r THEN r - n ELSE 0
  <2>1. IdsOf(<<>>) = {} /\ IdsOf(<<>>) \subseteq IdsOf(s)
    BY DEF IdsOf, Range
  <2>2. \A i \in DOMAIN order : 0 < i /\ i <= n => order[i] \in IdsOf(s)
    <3> SUFFICES ASSUME NEW i \in DOMAIN order, 0 < i, i <= n PROVE order[i] \in IdsOf(s)
      OBVIOUS
    <3>1. i \in 1 .. n /\ 0 + i = i
      BY <1>5
    <3>2. rows[i] = order[i]
      BY <1>6, <3>1
    <3> QED
      BY <1>1, <1>5, <3>1, <3>2 DEF Range
  <2>3. Missing(order, <<>>, 0) = 0
    <3>1. First(order, 0) \ IdsOf(<<>>) = {}
      BY <1>5 DEF First
    <3> QED
      BY <3>1, FS_EmptySet DEF Missing
  <2>4. 0 \in Int /\ n \in Int /\ 0 <= n
    BY <1>5
  <2>5. Missing(order, s, r) <= Missing(order, <<>>, 0) + (IF n < r THEN r - n ELSE 0)
    BY <1>1, <2>1, <2>2, <2>4, MissingAfter
  <2>6. Missing(order, s, r) \in Nat
    BY <1>1, FirstFinite
  <2> QED
    BY <1>5, <2>3, <2>5, <2>6
<1>8. m \in Nat
  BY <1>1, <1>5
<1>9. ASSUME Len(s) >= Limit PROVE Missing(order, s, offset' - m) <= extra'
  <2> DEFINE r == offset' - m
  <2>1. r \in Int /\ r <= n + extra'
    BY <1>1, <1>5, <1>8
  <2> HIDE DEF r
  <2>2. Missing(order, s, r) \in Nat /\ Missing(order, s, r) <= IF n < r THEN r - n ELSE 0
    BY <1>7, <2>1
  <2>3. Missing(order, s, r) <= extra'
    <3>1. extra' \in Nat /\ n \in Nat
      BY <1>1, <1>5
    <3> QED
      BY <2>1, <2>2, <3>1, Above
  <2> QED
    BY <2>3 DEF r
<1>10. ASSUME ~(Len(s) >= Limit) PROVE Missing(order, s, Len(order)) <= extra'
  <2>1. Len(order) <= n
    <3>1. Len(s) = extra' + n /\ extra' \in Nat /\ n \in Nat /\ Limit \in Nat
      BY <1>1, <1>5
    <3>2. n < Limit
      BY <1>10, <3>1, Shorter
    <3> QED
      BY <1>6, <3>2
  <2>2. /\ Missing(order, s, Len(order)) \in Nat
        /\ Missing(order, s, Len(order)) <= IF n < Len(order) THEN Len(order) - n ELSE 0
    BY <1>5, <1>7
  <2> QED
    BY <1>1, <1>5, <2>1, <2>2
<1>11. Len(s) - Cardinality(IdsOf(s)) <= m + extra'
  <2>1. Cardinality(Range(rows)) = n
    <3> DEFINE D == DOMAIN rows
    <3>1. D \in SUBSET DOMAIN rows /\ \A x, y \in D : rows[x] = rows[y] => x = y
      BY <1>1 DEF IsInjective
    <3>2. IsFiniteSet(1 .. n) /\ Cardinality(1 .. n) = IF 1 > n THEN 0 ELSE n - 1 + 1
      BY <1>5, FS_Interval
    <3>3. Cardinality(1 .. n) = n
      BY <1>5, <3>2
    <3>4. IsFiniteSet(D) /\ Cardinality(D) = n
      BY <1>5, <3>2, <3>3
    <3>5. Range(rows) = {rows[x] : x \in D}
      BY DEF Range
    <3> HIDE DEF D
    <3>6. Cardinality({rows[x] : x \in D}) = Cardinality(D)
      BY <3>1, <3>4, Image
    <3> QED
      BY <3>4, <3>5, <3>6
  <2>2. IsFiniteSet(IdsOf(s)) /\ Cardinality(IdsOf(s)) \in Nat
    BY <1>4, IdsCount
  <2>3. Cardinality(Range(rows)) <= Cardinality(IdsOf(s))
    BY <1>1, <2>2, FS_Subset
  <2> QED
    BY <1>1, <1>5, <1>8, <2>1, <2>2, <2>3
<1>12. CountedAfter
  <2>1. Missing(order, s, IF hasMore' THEN offset' - m ELSE Len(order)) <= extra'
    BY <1>1, <1>9, <1>10
  <2>2. base' = order /\ booked' - Len(base') = m
    BY <1>2
  <2> QED
    BY <1>11, <2>1, <2>2 DEF CountedAfter, s
<1> QED
  BY <1>3, <1>12, CountedPrime

(* A creation makes the list longer by the e entries it brings from the     *)
(* cache at most, among which a page that is still to be shown may be.      *)
LEMMA CreatedCounted ==
    ASSUME TypeOK, Numbers, OffsetIsLength, Counted, Created,
           ~UNCHANGED <<screen, extra, clean>>
    PROVE  Counted'
<1> SUFFICES ASSUME clean' PROVE Counted'
  BY CountedPrime DEF CountedAfter
<1> DEFINE s == shown'
<1>0. PICK e \in Nat :
         /\ s \in Seq(Entries) /\ offset' = Len(s) /\ extra' = extra + e
         /\ clean' => clean /\ IdsOf(shown) \subseteq IdsOf(s)
         /\ Len(s) = Cardinality(IdsOf(s)) /\ Len(s) <= Cardinality(IdsOf(shown)) + e
         /\ hasMore' = hasMore
  BY CreatedFacts
<1>1. /\ hasMore' = hasMore /\ booked' = booked /\ base' = base /\ extra' = extra + e
      /\ request' = request /\ clean
  BY <1>0 DEF Created
<1>2. /\ IdsOf(shown) \subseteq IdsOf(s) /\ Len(s) = Cardinality(IdsOf(s))
      /\ offset' = Len(s) /\ Len(s) <= Cardinality(IdsOf(shown)) + e
  BY <1>0
<1>3. Cardinality(IdsOf(shown)) \in Nat /\ Cardinality(IdsOf(shown)) <= Len(shown)
  BY IdsCount DEF Numbers
<1>4. s \in Seq(Entries)
  BY <1>0
<1> HIDE DEF s
<1>5. /\ booked \in Nat /\ offset \in Nat /\ extra \in Nat /\ Len(base) \in Nat
      /\ Moved \in Nat /\ Len(shown) = offset /\ Len(s) \in Nat
  BY <1>4 DEF Numbers, OffsetIsLength
<1>6. base \in Seq(Rows) /\ request["more"].offset \in Nat
  BY DEF Numbers
<1>7. offset' \in Nat /\ offset' <= offset + e
  BY <1>2, <1>3, <1>5
<1>8. ASSUME NEW q \in Int, NEW r \in Int
      PROVE  /\ Missing(base, s, r) \in Nat /\ Missing(base, shown, q) \in Nat
             /\ r <= q => Missing(base, s, r) <= Missing(base, shown, q)
             /\ r <= q + e => Missing(base, s, r) <= Missing(base, shown, q) + e
  BY <1>2, <1>6, MissingLess
<1>9. CountedAfter
  <2>1. CASE hasMore
    <3>1. Missing(base, shown, offset - Moved) <= extra
      BY <1>1, <2>1, CountedNumbers
    <3>2. /\ offset - Moved \in Int /\ offset' - Moved \in Int
          /\ offset' - Moved <= (offset - Moved) + e
      <4>1. offset \in Int /\ Moved \in Int /\ offset' \in Int /\ offset' <= offset + e
        BY <1>5, <1>7
      <4> QED
        BY <4>1, Shifted
    <3>3. /\ Missing(base, s, offset' - Moved) <= Missing(base, shown, offset - Moved) + e
          /\ Missing(base, s, offset' - Moved) \in Nat
          /\ Missing(base, shown, offset - Moved) \in Nat
      BY <1>8, <3>2
    <3>4. Missing(base, s, offset' - Moved) <= extra + e
      BY <1>5, <3>1, <3>3
    <3>5. Len(s) - Cardinality(IdsOf(s)) <= Moved + (extra + e)
      BY <1>2, <1>5
    <3> QED
      BY <1>1, <2>1, <3>4, <3>5 DEF CountedAfter, Moved, s
  <2>2. CASE ~hasMore
    <3>1. Missing(base, shown, Len(base)) <= extra
      BY <1>1, <2>2, CountedNumbers
    <3>2. Len(base) \in Int /\ Len(base) <= Len(base)
      BY <1>5
    <3>3. /\ Missing(base, s, Len(base)) <= Missing(base, shown, Len(base))
          /\ Missing(base, s, Len(base)) \in Nat /\ Missing(base, shown, Len(base)) \in Nat
      BY <1>8, <3>2
    <3>4. Missing(base, s, Len(base)) <= extra + e
      BY <1>5, <3>1, <3>3
    <3>5. Len(s) - Cardinality(IdsOf(s)) <= Moved + (extra + e)
      BY <1>2, <1>5
    <3> QED
      BY <1>1, <2>2, <3>4, <3>5 DEF CountedAfter, Moved, s
  <2> QED
    BY <2>1, <2>2
<1>10. ASSUME request["more"].at # "none" PROVE (OnTheWay)'
  <2> DEFINE o == request["more"].offset
             P(d) == /\ Missing(base, shown, o - d) <= extra
                     /\ Missing(base, shown, o - d) + offset - o <= extra + Moved - d
             Q(d) == /\ Missing(base, s, o - d) <= extra + e
                     /\ Missing(base, s, o - d) + offset' - o <= (extra + e) + Moved - d
  <2>1. ASSUME NEW d \in Nat, P(d) PROVE Q(d)
    <3> HIDE DEF o
    <3>1. o \in Nat /\ o - d \in Int /\ o - d <= o - d
      BY <1>6 DEF o
    <3>2. /\ Missing(base, s, o - d) <= Missing(base, shown, o - d)
          /\ Missing(base, s, o - d) \in Nat /\ Missing(base, shown, o - d) \in Nat
      BY <1>8, <3>1
    <3>3. P(d)
      BY <2>1
    <3>4. /\ offset' \in Int /\ offset \in Int /\ offset' <= offset + e
          /\ extra \in Int /\ Moved \in Int /\ d \in Int /\ o \in Int
      BY <1>5, <1>7, <3>1
    <3> QED
      BY <3>2, <3>3, <3>4, SomeMore
  <2>2. request["more"].at = "sent" => Q(Moved)
    BY <1>1, <1>5, <2>1 DEF Counted, OnTheWay, StartsRight
  <2>3. request["more"].at \in Later =>
          \E d \in 0 .. Moved : Q(d) /\ Page(request["more"].rows, o, d)
    <3> SUFFICES ASSUME request["more"].at \in Later
                 PROVE  \E d \in 0 .. Moved : Q(d) /\ Page(request["more"].rows, o, d)
      OBVIOUS
    <3>1. PICK d \in 0 .. Moved : P(d) /\ Page(request["more"].rows, o, d)
      BY <1>1 DEF Counted, OnTheWay, StartsRight, Later
    <3>2. d \in Nat
      BY <1>5
    <3> QED
      BY <2>1, <3>1, <3>2
  <2> QED
    BY <1>1, <2>2, <2>3 DEF OnTheWay, StartsRight, Page, Moved, s
<1> QED
  BY <1>1, <1>9, <1>10, CountedPrime

LEMMA NextCounted ==
    ASSUME TypeOK, Requested, OffsetIsLength, Counted, [Next]_vars
    PROVE  Counted'
<1>1. Numbers
  BY NumbersHold
<1>2. booked' \in Nat /\ booked' >= booked
  BY NextTypes
<1>3. CASE \/ UNCHANGED vars \/ Book \/ Refresh \/ Create \/ Review
           \/ (\E i \in DOMAIN shown : Open(i)) \/ \E d \in details : Detail(d[1], d[2])
  <2>1. /\ clean' = clean /\ shown' = shown /\ offset' = offset /\ hasMore' = hasMore
        /\ base' = base /\ extra' = extra
    BY <1>3 DEF vars, Book, Refresh, Create, Review, Open, Detail, screen, history
  <2>2. request'["more"] = request["more"]
    BY <1>3 DEF vars, Book, Refresh, Create, Review, Open, Detail, Send, TypeOK, Tasks
  <2> QED
    BY <1>1, <1>2, <2>1, <2>2, Unmoved
<1>4. CASE \E t \in Tasks \ {"more"} : Answer(t) \/ Save(t) \/ FailNew(t)
  <2>1. PICK t \in Tasks \ {"more"} : Answer(t) \/ Save(t) \/ FailNew(t)
    BY <1>4
  <2>2. /\ shown' = shown /\ offset' = offset /\ hasMore' = hasMore
        /\ base' = base /\ extra' = extra
    BY <2>1, SaveFacts DEF Answer, FailNew, screen, history
  <2>3. clean' => clean
    BY <2>1, AnswerFacts, SaveFacts DEF FailNew, history
  <2>4. request'["more"] = request["more"]
    <3>1. request \in [Tasks -> Requests] /\ "more" \in Tasks /\ t # "more"
      BY DEF TypeOK, Tasks
    <3>2. \E r : request' = [request EXCEPT ![t] = r]
      <4>1. CASE Answer(t)
        BY <4>1, AnswerFacts
      <4>2. CASE FailNew(t)
        BY <4>2 DEF FailNew, Over
      <4>3. CASE Save(t)
        BY <4>3, SaveFacts
      <4> QED
        BY <2>1, <4>1, <4>2, <4>3
    <3> QED
      BY <3>1, <3>2
  <2> QED
    BY <1>1, <1>2, <2>2, <2>3, <2>4, Unmoved
<1>5. CASE Close
  <2>1. /\ Len(shown') = Len(shown) /\ (clean' => clean /\ IdsOf(shown') = IdsOf(shown))
    BY <1>5, CloseFacts
  <2>2. /\ offset' = offset /\ hasMore' = hasMore /\ base' = base /\ extra' = extra
        /\ request' = request
    BY <1>5 DEF Close
  <2> QED
    BY <1>1, <1>2, <2>1, <2>2, Unmoved
<1>6. CASE Save("more")
  <2>1. "more" \in Tasks /\ request["more"] \in Requests /\ request \in [Tasks -> Requests]
    BY DEF TypeOK, Tasks
  <2>2. PICK to \in Saving, list \in Seq(Entries) :
          /\ request' = [request EXCEPT !["more"] = Advanced(request["more"], to, list)]
          /\ request["more"].at \in Later
    BY <1>6, <2>1, SaveFacts
  <2>3. to \in Stages /\ to \in Later
    BY DEF Saving, Stages, Later
  <2>4. /\ Advanced(request["more"], to, list).at = to
        /\ Advanced(request["more"], to, list).offset = request["more"].offset
        /\ Advanced(request["more"], to, list).rows = request["more"].rows
    BY <2>1, <2>3, AdvancedFacts
  <2>5. request'["more"] = Advanced(request["more"], to, list)
    BY <2>1, <2>2
  <2>6. /\ clean' = clean /\ shown' = shown /\ offset' = offset /\ hasMore' = hasMore
        /\ base' = base /\ extra' = extra
    BY <1>6, <2>1, SaveFacts DEF screen, history
  <2> QED
    BY <1>1, <1>2, <2>2, <2>3, <2>4, <2>5, <2>6, Unmoved
<1>7. CASE Restart \/ Retry \/ FailMore
  <2>1. ~clean'
    BY <1>7 DEF Restart, Retry, FailMore
  <2> QED
    BY <2>1, CountedPrime DEF CountedAfter
<1>8. CASE \E t \in Tasks \ {"more"} : ArriveNew(t)
  BY <1>8, ArriveNewCounted
<1>9. CASE More
  BY <1>1, <1>9, MoreCounted
<1>10. CASE Answer("more")
  BY <1>1, <1>10, AnswerMoreCounted
<1>11. CASE ArriveMore
  BY <1>1, <1>11, ArriveMoreCounted
<1>12. CASE Created
  <2>1. CASE UNCHANGED <<screen, extra, clean>>
    <3>1. /\ clean' = clean /\ shown' = shown /\ offset' = offset /\ hasMore' = hasMore
          /\ base' = base /\ extra' = extra /\ request' = request
      BY <1>12, <2>1 DEF Created, screen
    <3> QED
      BY <1>1, <1>2, <3>1, Unmoved
  <2>2. CASE ~UNCHANGED <<screen, extra, clean>>
    BY <1>1, <1>12, <2>2, CreatedCounted
  <2> QED
    BY <2>1, <2>2
<1> QED
  BY <1>3, <1>4, <1>5, <1>6, <1>7, <1>8, <1>9, <1>10, <1>11, <1>12
     DEF Next, Progress, ProgressMore

-----------------------------------------------------------------------------
(* The theorems *)

LEMMA IInvInit ==
    Init => IInv
<1> SUFFICES ASSUME Init PROVE IInv
  OBVIOUS
<1>1. TypeOK
  BY InitTypes
<1>2. Requested
  <2>1. base = <<>> /\ Len(base) = 0 /\ booked \in Nat /\ ~isFetchingMore /\ request = Starting
    BY DEF Init, Starting
  <2>2. Ordered(base)
    BY <2>1 DEF Ordered, IsInjective
  <2>3. /\ request["sync"] = Ask(0) /\ request["refresh"] = Nothing
        /\ request["more"] = Nothing
    BY <2>1 DEF Starting, Tasks
  <2>4. \A t \in Tasks \ {"more"} : Right(request[t], booked)
    BY <2>3, NotLater DEF Tasks
  <2> QED
    BY <2>1, <2>2, <2>3, <2>4, RequestTypes DEF Requested
<1>3. OffsetIsLength
  BY DEF Init, OffsetIsLength
<1>4. ~clean
  BY DEF Init
<1> QED
  BY <1>1, <1>2, <1>3, <1>4 DEF IInv, Reached, OnTheWay, RepeatsOnlyForMoved

LEMMA IInvStep ==
    IInv /\ [Next]_vars => IInv'
<1> SUFFICES ASSUME IInv, [Next]_vars PROVE IInv'
  OBVIOUS
<1>1. TypeOK'
  BY NextTypes DEF IInv
<1>2. Requested'
  BY NextRequested DEF IInv
<1>3. OffsetIsLength'
  BY NextOffset DEF IInv
<1>4. Counted'
  BY NextCounted DEF IInv, Counted
<1> QED
  BY <1>1, <1>2, <1>3, <1>4 DEF IInv, Counted

LEMMA IInvAlways == Spec => []IInv
BY IInvInit, IInvStep, PTL DEF Spec

LEMMA IInvSkips ==
    IInv => SkipsOnlyForCached
<1> SUFFICES ASSUME IInv, clean PROVE SkipsOnlyForCached
  BY DEF SkipsOnlyForCached
<1> DEFINE reached == IF hasMore THEN Smaller(offset - Moved, Len(base)) ELSE Len(base)
           r == IF hasMore THEN offset - Moved ELSE Len(base)
<1>1. Numbers
  BY NumbersHold DEF IInv
<1>2. Missing(base, shown, r) <= extra
  BY DEF IInv, Reached
<1>3. /\ base \in Seq(Rows) /\ Len(base) \in Nat /\ offset \in Nat /\ Moved \in Nat
      /\ DOMAIN base = 1 .. Len(base)
  BY <1>1 DEF Numbers
<1>4. r \in Int /\ reached \in Int /\ reached <= Len(base) /\ reached <= r
  BY <1>3 DEF Smaller
<1>5. \A i \in 1 .. reached : base[i] \in Rows /\ i \in DOMAIN base
  BY <1>3, <1>4
<1> HIDE DEF r, reached
<1> DEFINE t == SubSeq(base, 1, reached)
<1>6. /\ t \in Seq(Rows) /\ Len(t) = IF 1 <= reached THEN reached - 1 + 1 ELSE 0
      /\ \A i \in 1 .. reached - 1 + 1 : t[i] = base[1 + i - 1]
  BY <1>4, <1>5, SubSeqProperties
<1>7. Range(t) \subseteq First(base, r)
  <2>1. DOMAIN t = 1 .. Len(t)
    BY <1>6
  <2> HIDE DEF t
  <2> SUFFICES ASSUME NEW i \in DOMAIN t PROVE t[i] \in First(base, r)
    BY DEF Range
  <2>2. i \in 1 .. reached /\ 1 + i - 1 = i /\ i \in 1 .. reached - 1 + 1 /\ i <= r
    BY <1>4, <1>6, <2>1
  <2>3. t[i] = base[i] /\ i \in DOMAIN base
    BY <1>5, <1>6, <2>2
  <2> QED
    BY <2>2, <2>3 DEF First
<1> HIDE DEF t
<1>8. Range(t) \ ShownIds \subseteq First(base, r) \ IdsOf(shown)
  BY <1>7 DEF ShownIds, IdsOf
<1>9. /\ IsFiniteSet(First(base, r) \ IdsOf(shown))
      /\ Missing(base, shown, r) \in Nat
  BY <1>3, <1>4, FirstFinite
<1>10. Cardinality(Range(t) \ ShownIds) <= Missing(base, shown, r)
       /\ Cardinality(Range(t) \ ShownIds) \in Nat
  BY <1>8, <1>9, FS_Subset, FS_CardinalityType DEF Missing
<1>11. extra \in Nat
  BY <1>1 DEF Numbers
<1>12. Cardinality(Range(t) \ ShownIds) <= extra
  BY <1>2, <1>9, <1>10, <1>11
<1> QED
  BY <1>12 DEF SkipsOnlyForCached, t, reached

(* In every reachable state the list screen's fields, its requests and the  *)
(* Hive box have their types: the list holds entries with ids the cache     *)
(* knows, and the offset is a number of entries.                            *)
THEOREM TypeCorrect == Spec => []TypeOK
<1>1. IInv => TypeOK
  BY DEF IInv
<1> QED
  BY <1>1, IInvAlways, PTL

(* _offset is the length of _transactions, whatever step changes them: it   *)
(* counts what is pinned, created and repeated as if the server had sent    *)
(* it, which is why rows are skipped.                                       *)
THEOREM OffsetCountsTheList == Spec => []OffsetIsLength
<1>1. IInv => OffsetIsLength
  BY DEF IInv
<1> QED
  BY <1>1, IInvAlways, PTL

(* A page and a creation whose steps come in any order, with rows booked,   *)
(* details, edits and failures at any await: scrolling skips no more rows   *)
(* than entries came from the cache.                                        *)
THEOREM SkipsAreBounded == Spec => []SkipsOnlyForCached
BY IInvAlways, IInvSkips, PTL

(* ... and repeats no more entries than rows were booked since the list was *)
(* new or entries came from the cache.                                      *)
THEOREM RepeatsAreBounded == Spec => []RepeatsOnlyForMoved
<1>1. IInv => RepeatsOnlyForMoved
  BY DEF IInv
<1> QED
  BY <1>1, IInvAlways, PTL
=============================================================================
