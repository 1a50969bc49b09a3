---------------------------- MODULE Sorting_proofs ----------------------------
(***************************************************************************)
(* When before is a strict total order of a finite set, Ordered is the     *)
(* sequence of the members in that order.  The proofs about fusion, about  *)
(* the parts of a question and about percentiles rest on it.               *)
(***************************************************************************)
EXTENDS Sorting, TLAPS, FiniteSetTheorems, Functions

StrictOrder(S, before) ==
    /\ \A x \in S : <<x, x>> \notin before
    /\ \A x, y, z \in S : <<x, y>> \in before /\ <<y, z>> \in before => <<x, z>> \in before
    /\ \A x, y \in S : x = y \/ <<x, y>> \in before \/ <<y, x>> \in before

Predecessors(S, before, x) == {y \in S : <<y, x>> \in before}

(* One with more predecessors comes later, and nobody has all of them.     *)
LEMMA PredecessorsGrow ==
    ASSUME NEW S, IsFiniteSet(S), NEW before, StrictOrder(S, before), NEW x \in S
    PROVE  /\ IsFiniteSet(Predecessors(S, before, x))
           /\ Cardinality(Predecessors(S, before, x)) \in Nat
           /\ Cardinality(Predecessors(S, before, x)) < Cardinality(S)
           /\ \A y \in S : <<x, y>> \in before =>
                 Cardinality(Predecessors(S, before, x))
                   < Cardinality(Predecessors(S, before, y))
<1> DEFINE P(z) == Predecessors(S, before, z)
<1>1. ASSUME NEW z \in S
      PROVE  /\ P(z) \subseteq S /\ IsFiniteSet(P(z)) /\ Cardinality(P(z)) \in Nat
             /\ z \notin P(z)
  <2>1. P(z) \subseteq S /\ z \notin P(z)
    BY DEF StrictOrder, Predecessors
  <2> QED BY <2>1, FS_Subset, FS_CardinalityType
<1>2. Cardinality(P(x)) < Cardinality(S)
  <2>1. P(x) # S
    BY <1>1
  <2> HIDE DEF P
  <2> QED BY <1>1, <2>1, FS_Subset, FS_CardinalityType
<1>3. ASSUME NEW y \in S, <<x, y>> \in before
      PROVE  Cardinality(P(x)) < Cardinality(P(y))
  <2>1. P(x) \subseteq P(y) /\ x \in P(y)
    BY <1>3 DEF StrictOrder, Predecessors
  <2>2. P(x) # P(y)
    BY <1>1, <2>1
  <2>3. IsFiniteSet(P(y)) /\ Cardinality(P(x)) \in Nat /\ Cardinality(P(y)) \in Nat
    BY <1>1
  <2> HIDE DEF P
  <2> QED BY <2>1, <2>2, <2>3, FS_Subset
<1> QED
  BY <1>1, <1>2, <1>3

(* So every place is that of exactly one member.                           *)
LEMMA PlacesAreTaken ==
    ASSUME NEW S, IsFiniteSet(S), NEW before, StrictOrder(S, before)
    PROVE  /\ Cardinality(S) \in Nat
           /\ \A k \in 1..Cardinality(S) :
                 \E x \in S : Cardinality(Predecessors(S, before, x)) = k - 1
           /\ \A x, y \in S : Cardinality(Predecessors(S, before, x))
                                = Cardinality(Predecessors(S, before, y)) => x = y
<1> DEFINE C(x) == Cardinality(Predecessors(S, before, x))
           n == Cardinality(S)
           place == [x \in S |-> C(x) + 1]
<1>1. n \in Nat
  BY FS_CardinalityType
<1>2. \A x \in S : C(x) \in Nat /\ C(x) < n
  BY PredecessorsGrow
<1>3. \A x, y \in S : C(x) = C(y) => x = y
  <2> SUFFICES ASSUME NEW x \in S, NEW y \in S, C(x) = C(y), x # y
               PROVE  FALSE
    OBVIOUS
  <2>1. C(x) < C(y) \/ C(y) < C(x)
    BY PredecessorsGrow DEF StrictOrder
  <2> QED BY <1>2, <2>1
<1>4. place \in Injection(S, 1..n)
  <2> HIDE DEF C, n
  <2>1. place \in [S -> 1..n]
    BY <1>1, <1>2
  <2>2. IsInjective(place)
    BY <1>2, <1>3 DEF IsInjective
  <2> QED BY <2>1, <2>2 DEF Injection
<1>5. IsFiniteSet(1..n) /\ Cardinality(1..n) = n
  BY <1>1, FS_Interval
<1>6. place \in Surjection(S, 1..n)
  <2> HIDE DEF place
  <2> QED BY <1>4, <1>5, FS_Injection
<1>7. ASSUME NEW k \in 1..n PROVE \E x \in S : C(x) = k - 1
  <2> HIDE DEF C, n
  <2>1. PICK x \in S : place[x] = k
    BY <1>6 DEF Surjection
  <2> QED BY <1>1, <1>2, <2>1
<1> QED
  BY <1>1, <1>3, <1>7

LEMMA OrderedIsSorted ==
    ASSUME NEW S, IsFiniteSet(S), NEW before, StrictOrder(S, before)
    PROVE  /\ Cardinality(S) \in Nat
           /\ Ordered(S, before) \in [1..Cardinality(S) -> S]
           /\ \A k \in 1..Cardinality(S) :
                 Cardinality(Predecessors(S, before, Ordered(S, before)[k])) = k - 1
           /\ \A x \in S : \E k \in 1..Cardinality(S) : Ordered(S, before)[k] = x
           /\ \A j, k \in 1..Cardinality(S) :
                 <<Ordered(S, before)[j], Ordered(S, before)[k]>> \in before => j < k
           /\ IsInjective(Ordered(S, before))
<1> DEFINE C(x) == Cardinality(Predecessors(S, before, x))
           n == Cardinality(S)
           s == Ordered(S, before)
<1>1. n \in Nat
  BY PlacesAreTaken
<1>2. s = [k \in 1..n |-> CHOOSE x \in S : C(x) = k - 1]
  BY DEF Ordered, Predecessors
<1>3. \A k \in 1..n : s[k] \in S /\ C(s[k]) = k - 1
  BY <1>2, PlacesAreTaken
<1>4. s \in [1..n -> S]
  BY <1>2, <1>3
<1>5. ASSUME NEW x \in S PROVE \E k \in 1..n : s[k] = x
  <2>1. C(x) \in Nat /\ C(x) < n
    BY PredecessorsGrow
  <2>2. C(x) + 1 \in 1..n
    BY <1>1, <2>1
  <2>3. s[C(x) + 1] \in S /\ C(s[C(x) + 1]) = C(x)
    BY <1>3, <2>1, <2>2
  <2> QED BY <2>2, <2>3, PlacesAreTaken
<1>6. ASSUME NEW j \in 1..n, NEW k \in 1..n, <<s[j], s[k]>> \in before
      PROVE  j < k
  <2>1. C(s[j]) < C(s[k])
    BY <1>3, <1>6, PredecessorsGrow
  <2> HIDE DEF n, s
  <2> QED BY <1>1, <1>3, <2>1
<1>7. IsInjective(s)
  <2> HIDE DEF n, s
  <2> QED BY <1>1, <1>3, <1>4 DEF IsInjective
<1> QED
  BY <1>1, <1>3, <1>4, <1>5, <1>6, <1>7

(* Numbers in order: strictly ascending, and nobody is left out.           *)
LEMMA AscendingIsSorted ==
    ASSUME NEW S, IsFiniteSet(S), S \subseteq Int
    PROVE  /\ Cardinality(S) \in Nat
           /\ Ascending(S) \in [1..Cardinality(S) -> S]
           /\ \A x \in S : \E k \in 1..Cardinality(S) : Ascending(S)[k] = x
           /\ \A j, k \in 1..Cardinality(S) :
                 j < k => Ascending(S)[j] < Ascending(S)[k]
<1> DEFINE before == {pair \in S \X S : pair[1] < pair[2]}
           n == Cardinality(S)
           s == Ordered(S, before)
<1>1. \A x, y \in S : <<x, y>> \in before <=> x < y
  OBVIOUS
<1>2. StrictOrder(S, before)
  <2> HIDE DEF before
  <2> QED BY <1>1 DEF StrictOrder
<1> HIDE DEF before
<1>3. /\ n \in Nat
      /\ s \in [1..n -> S]
      /\ \A x \in S : \E k \in 1..n : s[k] = x
      /\ \A j, k \in 1..n : <<s[j], s[k]>> \in before => j < k
      /\ IsInjective(s)
  BY <1>2, OrderedIsSorted
<1> HIDE DEF n, s
<1>4. ASSUME NEW j \in 1..n, NEW k \in 1..n, j < k
      PROVE  s[j] < s[k]
  <2>1. s[j] \in S /\ s[k] \in S /\ s[j] # s[k]
    <3>1. j # k /\ DOMAIN s = 1..n
      BY <1>3, <1>4
    <3> QED BY <1>3, <3>1 DEF IsInjective
  <2>2. ~(<<s[k], s[j]>> \in before)
    BY <1>3, <1>4
  <2>3. s[j] \in Int /\ s[k] \in Int
    BY <2>1
  <2>4. ~(s[k] < s[j])
    BY <1>1, <2>1, <2>2
  <2> QED BY <2>1, <2>3, <2>4
<1>5. Ascending(S) = s
  BY DEF Ascending, before, s
<1> QED
  BY <1>3, <1>4, <1>5 DEF n

(* A finite set of numbers has a smallest one.                             *)
LEMMA HasSmallest ==
    ASSUME NEW S, IsFiniteSet(S), S \subseteq Int, S # {}
    PROVE  \E x \in S : \A y \in S : x <= y
<1> DEFINE n == Cardinality(S)
           s == Ascending(S)
<1>1. /\ n \in Nat
      /\ s \in [1..n -> S]
      /\ \A y \in S : \E k \in 1..n : s[k] = y
      /\ \A j, k \in 1..n : j < k => s[j] < s[k]
  BY AscendingIsSorted
<1> HIDE DEF n, s
<1>2. 1 \in 1..n
  <2>1. PICK y \in S : TRUE
    OBVIOUS
  <2>2. PICK k \in 1..n : s[k] = y
    BY <1>1, <2>1
  <2> QED BY <1>1, <2>2
<1>3. s[1] \in S
  BY <1>1, <1>2
<1>4. ASSUME NEW y \in S PROVE s[1] <= y
  <2>1. PICK k \in 1..n : s[k] = y
    BY <1>1
  <2>2. s[1] \in Int /\ y \in Int
    BY <1>3
  <2>3. CASE k = 1
    BY <2>1, <2>2, <2>3
  <2>4. CASE k # 1
    <3>1. s[1] < s[k]
      BY <1>1, <1>2, <2>4
    <3> QED BY <2>1, <2>2, <3>1
  <2> QED BY <2>3, <2>4
<1> QED
  BY <1>3, <1>4
==============================================================================
