------------------------ MODULE HybridRetrieval_proofs ------------------------
(***************************************************************************)
(* Proofs about fusion and reranking, for every number of passages, every  *)
(* alpha, rank constant and cut-off, and every pair of candidate lists.    *)
(***************************************************************************)
EXTENDS HybridRetrieval, Sorting_proofs, SequenceTheorems

------------------------------------------------------------------------------
(* The best of a sorted set: a member that precedes one of them is among   *)
(* them, further ahead; one with few predecessors is among them.           *)
AreBest(best, S, before, cut) ==
    /\ best \in Seq(S) /\ IsInjective(best)
    /\ Len(best) = IF Cardinality(S) < cut THEN Cardinality(S) ELSE cut
    /\ \A x \in S, i \in 1..Len(best) : <<x, best[i]>> \in before =>
          \E j \in 1..(i - 1) : best[j] = x
    /\ \A x \in S : Cardinality(Predecessors(S, before, x)) < cut =>
          \E i \in 1..Len(best) : best[i] = x

LEMMA TheBestArePrefix ==
    ASSUME NEW S, IsFiniteSet(S), NEW before, StrictOrder(S, before),
           NEW cut, cut \in Nat
    PROVE  AreBest(Truncated(Ordered(S, before), cut), S, before, cut)
<1> DEFINE n == Cardinality(S)
           s == Ordered(S, before)
           best == Truncated(s, cut)
           m == IF n < cut THEN n ELSE cut
<1>1. /\ n \in Nat
      /\ s \in [1..n -> S]
      /\ \A k \in 1..n : Cardinality(Predecessors(S, before, s[k])) = k - 1
      /\ \A x \in S : \E k \in 1..n : s[k] = x
      /\ \A j, k \in 1..n : <<s[j], s[k]>> \in before => j < k
      /\ IsInjective(s)
  BY OrderedIsSorted
<1> HIDE DEF n, s
<1>2. s \in Seq(S) /\ Len(s) = n
  BY <1>1
<1>3. m \in Nat /\ m <= n /\ m <= cut
  BY <1>1
<1>4. best = SubSeq(s, 1, m)
  BY <1>2 DEF Truncated
<1> HIDE DEF best, m
<1>5. /\ best \in Seq(S)
      /\ Len(best) = m
      /\ \A i \in 1..m : best[i] = s[i]
  <2>1. \A i \in 1..m : s[i] \in S
    BY <1>1, <1>3
  <2>2. /\ SubSeq(s, 1, m) \in Seq(S)
        /\ Len(SubSeq(s, 1, m)) = IF 1 <= m THEN m - 1 + 1 ELSE 0
        /\ \A i \in 1..(m - 1 + 1) : SubSeq(s, 1, m)[i] = s[1 + i - 1]
    BY <1>3, <2>1, SubSeqProperties
  <2> QED BY <1>3, <1>4, <2>2
<1>6. DOMAIN best = 1..m
  BY <1>3, <1>5
<1>7. IsInjective(best)
  <2>1. ASSUME NEW i \in 1..m, NEW j \in 1..m, best[i] = best[j]
        PROVE  i = j
    <3>1. i \in 1..n /\ j \in 1..n
      BY <1>1, <1>3
    <3>2. s[i] = s[j]
      BY <1>5, <2>1
    <3> QED BY <1>1, <3>1, <3>2 DEF IsInjective
  <2> QED BY <1>6, <2>1 DEF IsInjective
<1>8. ASSUME NEW x \in S, NEW i \in 1..m, <<x, best[i]>> \in before
      PROVE  \E j \in 1..(i - 1) : best[j] = x
  <2>1. PICK k \in 1..n : s[k] = x
    BY <1>1
  <2>2. k < i
    <3>1. i \in 1..n /\ best[i] = s[i]
      BY <1>1, <1>3, <1>5
    <3>2. <<s[k], s[i]>> \in before
      BY <1>8, <2>1, <3>1
    <3> QED BY <1>1, <3>1, <3>2
  <2> QED BY <1>3, <1>5, <2>1, <2>2
<1>9. ASSUME NEW x \in S, Cardinality(Predecessors(S, before, x)) < cut
      PROVE  \E i \in 1..m : best[i] = x
  <2>1. PICK k \in 1..n : s[k] = x
    BY <1>1
  <2>2. k - 1 < cut
    BY <1>1, <1>9, <2>1
  <2>3. k \in 1..m
    BY <1>1, <2>2 DEF m
  <2> QED BY <1>5, <2>1, <2>3
<1> QED
  BY <1>5, <1>7, <1>8, <1>9 DEF AreBest, best, m, n, s

------------------------------------------------------------------------------
(* Candidate lists and ranks                                               *)

IsAnswer(list) ==
    list \in Seq(SourcePassages) /\ IsInjective(list) /\ Len(list) <= CandidateK

LEMMA AnswersAreDistinct ==
    ASSUME NEW list \in Answers PROVE IsAnswer(list)
<1>1. PICK S \in SUBSET SourcePassages : list \in SetToSeqs(S)
  BY DEF Answers, SetToAllKPermutations
<1>2. IsFiniteSet(S) /\ Cardinality(S) \in Nat
  <2>1. IsFiniteSet(SourcePassages)
    BY RetrievalAssumption, FS_Interval DEF SourcePassages
  <2> QED BY <2>1, FS_Subset, FS_CardinalityType
<1>3. list \in [1..Cardinality(S) -> S] /\ IsInjective(list)
  BY <1>1 DEF SetToSeqs, IsInjective
<1>4. list \in Seq(SourcePassages)
  <2>1. list \in Seq(S)
    BY <1>2, <1>3
  <2> QED BY <2>1, SeqMonotonic
<1> QED
  BY <1>3, <1>4 DEF IsAnswer, Answers

LEMMA EmptyIsAnswer == IsAnswer(<<>>)
<1>1. <<>> \in Seq(SourcePassages) /\ Len(<<>>) = 0 /\ DOMAIN <<>> = {}
  BY EmptySeq
<1> QED
  BY <1>1, RetrievalAssumption DEF IsAnswer, IsInjective

(* In a list without duplicates a rank is a place, and the place is its.   *)
LEMMA RanksArePlaces ==
    ASSUME NEW list, IsAnswer(list)
    PROVE  /\ DOMAIN list = 1..Len(list) /\ Len(list) \in Nat
           /\ \A i \in 1..Len(list) : list[i] \in SourcePassages
           /\ \A i \in 1..Len(list) : Rank(list, list[i]) = i
           /\ \A p : p \in ToSet(list) =>
                 Rank(list, p) \in 1..Len(list) /\ list[Rank(list, p)] = p
           /\ \A p : p \notin ToSet(list) => Rank(list, p) = Unranked
           /\ \A p : Rank(list, p) \in Nat
<1>1. DOMAIN list = 1..Len(list) /\ Len(list) \in Nat
  BY DEF IsAnswer
<1>2. \A i \in 1..Len(list) : list[i] \in SourcePassages
  BY <1>1 DEF IsAnswer
<1>3. ASSUME NEW i \in 1..Len(list) PROVE Rank(list, list[i]) = i
  <2>1. \A j \in DOMAIN list : list[j] = list[i] => j = i
    BY <1>1 DEF IsAnswer, IsInjective
  <2> QED BY <1>1, <2>1 DEF Rank
<1>4. ASSUME NEW p, p \in ToSet(list)
      PROVE  Rank(list, p) \in 1..Len(list) /\ list[Rank(list, p)] = p
  <2>1. PICK i \in 1..Len(list) : list[i] = p
    BY <1>1, <1>4 DEF ToSet
  <2> QED BY <1>3, <2>1
<1>5. ASSUME NEW p, p \notin ToSet(list) PROVE Rank(list, p) = Unranked
  BY <1>5 DEF ToSet, Rank
<1>6. ASSUME NEW p PROVE Rank(list, p) \in Nat
  <2>1. CASE p \in ToSet(list)
    BY <1>1, <1>4, <2>1
  <2>2. CASE p \notin ToSet(list)
    BY <1>5, <2>2 DEF Unranked
  <2> QED BY <2>1, <2>2
<1> QED
  BY <1>1, <1>2, <1>3, <1>4, <1>5, <1>6

------------------------------------------------------------------------------
(* Fractions with positive denominators are ordered by their cross         *)
(* products.                                                               *)

Fractions == [num : Nat, den : Nat \ {0}]

LEMMA Scaled ==
    ASSUME NEW a \in Nat, NEW b \in Nat, NEW c \in Nat \ {0}
    PROVE  /\ a > b <=> a * c > b * c
           /\ a >= b <=> a * c >= b * c
OBVIOUS

LEMMA CrossProducts ==
    ASSUME NEW an \in Nat, NEW ad \in Nat \ {0}, NEW bn \in Nat, NEW bd \in Nat \ {0},
           NEW cn \in Nat, NEW cd \in Nat \ {0},
           an * bd >= bn * ad, bn * cd >= cn * bd
    PROVE  /\ an * cd >= cn * ad
           /\ an * bd > bn * ad \/ bn * cd > cn * bd => an * cd > cn * ad
<1> DEFINE x == (an * bd) * cd
           y == (bn * ad) * cd
           z == (cn * bd) * ad
<1>1. x \in Nat /\ y \in Nat /\ z \in Nat
  OBVIOUS
<1>2. x >= y /\ (an * bd > bn * ad => x > y)
  BY Scaled
<1>3. y = (bn * cd) * ad
  OBVIOUS
<1>4. y >= z /\ (bn * cd > cn * bd => y > z)
  BY <1>3, Scaled
<1>5. x = (an * cd) * bd /\ z = (cn * ad) * bd
  OBVIOUS
<1>6. x >= z /\ (an * bd > bn * ad \/ bn * cd > cn * bd => x > z)
  <2> HIDE DEF x, y, z
  <2> QED BY <1>1, <1>2, <1>4
<1>7. /\ x >= z <=> an * cd >= cn * ad
      /\ x > z <=> an * cd > cn * ad
  BY <1>5, Scaled
<1> QED
  BY <1>6, <1>7

LEMMA FractionsAreOrdered ==
    ASSUME NEW x \in Fractions, NEW y \in Fractions, NEW z \in Fractions,
           ~Exceeds(y, x), ~Exceeds(z, y)
    PROVE  /\ ~Exceeds(z, x)
           /\ Exceeds(x, y) \/ Exceeds(y, z) => Exceeds(x, z)
<1>1. /\ x.num \in Nat /\ x.den \in Nat \ {0}
      /\ y.num \in Nat /\ y.den \in Nat \ {0}
      /\ z.num \in Nat /\ z.den \in Nat \ {0}
  BY DEF Fractions
<1>2. x.num * y.den >= y.num * x.den /\ y.num * z.den >= z.num * y.den
  BY <1>1 DEF Exceeds
<1>3. /\ x.num * z.den >= z.num * x.den
      /\ x.num * y.den > y.num * x.den \/ y.num * z.den > z.num * y.den
           => x.num * z.den > z.num * x.den
  BY <1>1, <1>2, CrossProducts
<1>4. ~Exceeds(z, x)
  BY <1>1, <1>3 DEF Exceeds
<1> QED
  BY <1>3, <1>4 DEF Exceeds

LEMMA ExceedsIsAsymmetric ==
    ASSUME NEW x \in Fractions, NEW y \in Fractions
    PROVE  ~(Exceeds(x, y) /\ Exceeds(y, x)) /\ ~Exceeds(x, x)
BY DEF Fractions, Exceeds

(* A sum of two fractions that are not smaller is not smaller, and greater *)
(* if one of them is.                                                      *)
LEMMA SumsAreOrdered ==
    ASSUME NEW b \in Fractions, NEW d \in Fractions, NEW c \in Fractions, NEW e \in Fractions,
           ~Exceeds(c, b), ~Exceeds(e, d), Exceeds(b, c) \/ Exceeds(d, e)
    PROVE  Exceeds([num |-> b.num * d.den + d.num * b.den, den |-> b.den * d.den],
                   [num |-> c.num * e.den + e.num * c.den, den |-> c.den * e.den])
<1> DEFINE bn == b.num  bd == b.den  dn == d.num  dd == d.den
           cn == c.num  cd == c.den  en == e.num  ed == e.den
<1>1. /\ bn \in Nat /\ bd \in Nat \ {0} /\ dn \in Nat /\ dd \in Nat \ {0}
      /\ cn \in Nat /\ cd \in Nat \ {0} /\ en \in Nat /\ ed \in Nat \ {0}
  BY DEF Fractions
<1>2. /\ bn * cd >= cn * bd /\ dn * ed >= en * dd
      /\ bn * cd > cn * bd \/ dn * ed > en * dd
  BY <1>1 DEF Exceeds
<1> HIDE DEF bn, bd, dn, dd, cn, cd, en, ed
<1> DEFINE k == dd * ed
           l == bd * cd
           x == (bn * cd) * k
           y == (cn * bd) * k
           u == (dn * ed) * l
           v == (en * dd) * l
<1>3. k \in Nat \ {0} /\ l \in Nat \ {0}
  BY <1>1
<1>4. /\ bn * cd \in Nat /\ cn * bd \in Nat /\ dn * ed \in Nat /\ en * dd \in Nat
  BY <1>1
<1>5. /\ x \in Nat /\ y \in Nat /\ u \in Nat /\ v \in Nat
      /\ x >= y /\ u >= v /\ (x > y \/ u > v)
  <2> HIDE DEF k, l
  <2>1. /\ x >= y /\ (bn * cd > cn * bd => x > y)
        /\ u >= v /\ (dn * ed > en * dd => u > v)
    BY <1>2, <1>3, <1>4, Scaled
  <2>2. x \in Nat /\ y \in Nat /\ u \in Nat /\ v \in Nat
    BY <1>3, <1>4
  <2> QED BY <1>2, <2>1, <2>2
<1>6. x + u > y + v
  <2> HIDE DEF x, y, u, v
  <2> QED BY <1>5
<1>7. /\ (bn * dd + dn * bd) * (cd * ed) = x + u
      /\ (cn * ed + en * cd) * (bd * dd) = y + v
  BY <1>1
<1> QED
  BY <1>6, <1>7 DEF Exceeds, bn, bd, dn, dd, cn, cd, en, ed

------------------------------------------------------------------------------
(* Weighted fusion sorts the candidates of two lists.                      *)

ListsOK ==
    configuration \in Configurations /\ IsAnswer(bm25) /\ IsAnswer(dense)

LEMMA CandidatesAreFinite ==
    ListsOK => IsFiniteSet(Candidates) /\ Candidates \subseteq SourcePassages
<1> SUFFICES ASSUME ListsOK
             PROVE  IsFiniteSet(Candidates) /\ Candidates \subseteq SourcePassages
  OBVIOUS
<1>1. ToSet(bm25) \subseteq SourcePassages /\ ToSet(dense) \subseteq SourcePassages
  BY RanksArePlaces DEF ListsOK, ToSet
<1>2. IsFiniteSet(SourcePassages)
  BY RetrievalAssumption, FS_Interval DEF SourcePassages
<1> QED
  BY <1>1, <1>2, FS_Subset DEF Candidates

LEMMA SharesAreFractions ==
    ASSUME NEW weight \in Nat, NEW rank \in Nat
    PROVE  Share(weight, rank) \in Fractions
BY RetrievalAssumption DEF Share, Fractions, Unranked

LEMMA WeightsAreNatural ==
    ListsOK => /\ configuration.alpha \in Nat /\ AlphaScale - configuration.alpha \in Nat
               /\ configuration.alpha <= AlphaScale
BY RetrievalAssumption DEF ListsOK, Configurations

LEMMA FusedScoresAreFractions ==
    ASSUME ListsOK, NEW p
    PROVE  FusedScore(p) \in Fractions
<1> DEFINE b == Share(AlphaScale - configuration.alpha, Rank(bm25, p))
           d == Share(configuration.alpha, Rank(dense, p))
<1>1. b \in Fractions /\ d \in Fractions
  <2>1. Rank(bm25, p) \in Nat /\ Rank(dense, p) \in Nat
    BY RanksArePlaces DEF ListsOK
  <2> QED BY <2>1, WeightsAreNatural, SharesAreFractions
<1>2. FusedScore(p) = [num |-> b.num * d.den + d.num * b.den, den |-> b.den * d.den]
  BY DEF FusedScore
<1> HIDE DEF b, d
<1>3. /\ b.num \in Nat /\ b.den \in Nat \ {0}
      /\ d.num \in Nat /\ d.den \in Nat \ {0}
  BY <1>1 DEF Fractions
<1>4. b.num * d.den + d.num * b.den \in Nat /\ b.den * d.den \in Nat \ {0}
  BY <1>3
<1> QED
  BY <1>2, <1>4 DEF Fractions

LEMMA FusionIsStrictOrder ==
    ListsOK => StrictOrder(Candidates, ByFusedScore)
<1> SUFFICES ASSUME ListsOK PROVE StrictOrder(Candidates, ByFusedScore)
  OBVIOUS
<1>1. \A p, q \in Candidates : <<p, q>> \in ByFusedScore <=> Precedes(p, q)
  BY DEF ByFusedScore
<1>2. ASSUME NEW p \in Candidates
      PROVE  p \in Nat /\ FusedScore(p) \in Fractions
  BY CandidatesAreFinite, FusedScoresAreFractions, RetrievalAssumption DEF SourcePassages
<1>3. ASSUME NEW p \in Candidates PROVE ~Precedes(p, p)
  BY <1>2, ExceedsIsAsymmetric DEF Precedes
<1>4. ASSUME NEW p \in Candidates, NEW q \in Candidates, NEW r \in Candidates,
             Precedes(p, q), Precedes(q, r)
      PROVE  Precedes(p, r)
  <2>1. ~Exceeds(FusedScore(q), FusedScore(p)) /\ ~Exceeds(FusedScore(r), FusedScore(q))
    BY <1>2, <1>4, ExceedsIsAsymmetric DEF Precedes
  <2>2. /\ ~Exceeds(FusedScore(r), FusedScore(p))
        /\ Exceeds(FusedScore(p), FusedScore(q)) \/ Exceeds(FusedScore(q), FusedScore(r))
             => Exceeds(FusedScore(p), FusedScore(r))
    BY <1>2, <2>1, FractionsAreOrdered
  <2>3. \/ Exceeds(FusedScore(p), FusedScore(q)) \/ Exceeds(FusedScore(q), FusedScore(r))
        \/ p < q /\ q < r
    BY <1>4 DEF Precedes
  <2>4. p < q /\ q < r => p < r
    BY <1>2
  <2> QED BY <2>2, <2>3, <2>4 DEF Precedes
<1>5. ASSUME NEW p \in Candidates, NEW q \in Candidates
      PROVE  p = q \/ Precedes(p, q) \/ Precedes(q, p)
  <2>1. p = q \/ p < q \/ q < p
    BY <1>2
  <2> QED BY <2>1 DEF Precedes
<1> QED
  BY <1>1, <1>3, <1>4, <1>5 DEF StrictOrder

(* A rank that is no worse gives no smaller share, a better one a greater. *)
LEMMA SharesFollowRanks ==
    ASSUME NEW weight \in Nat, NEW i \in Nat, NEW j \in Nat,
           j = Unranked \/ i \in 1..j
    PROVE  /\ ~Exceeds(Share(weight, j), Share(weight, i))
           /\ weight # 0 /\ i # j => Exceeds(Share(weight, i), Share(weight, j))
<1>1. RankConstant \in Nat \ {0}
  BY RetrievalAssumption
<1>2. CASE j = Unranked /\ i = Unranked
  BY <1>2 DEF Share, Exceeds, Unranked
<1>3. CASE j = Unranked /\ i # Unranked
  <2>1. /\ Share(weight, i).num = weight /\ Share(weight, i).den = RankConstant + i
        /\ Share(weight, j).num = 0 /\ Share(weight, j).den = 1
    BY <1>3 DEF Share
  <2> QED BY <1>1, <2>1 DEF Exceeds
<1>4. CASE j # Unranked
  <2>1. i # Unranked /\ i <= j
    BY <1>4 DEF Unranked
  <2>2. /\ Share(weight, i).num = weight /\ Share(weight, i).den = RankConstant + i
        /\ Share(weight, j).num = weight /\ Share(weight, j).den = RankConstant + j
    BY <1>4, <2>1 DEF Share
  <2>3. weight * (RankConstant + j) = weight * (RankConstant + i) + weight * (j - i)
    BY <1>1
  <2>4. weight * (j - i) \in Nat /\ (weight # 0 /\ i # j => weight * (j - i) > 0)
    BY <2>1
  <2>5. weight * (RankConstant + i) \in Nat
    BY <1>1
  <2>6. /\ ~(weight * (RankConstant + i) > weight * (RankConstant + j))
        /\ weight # 0 /\ i # j =>
             weight * (RankConstant + j) > weight * (RankConstant + i)
    BY <2>3, <2>4, <2>5
  <2> QED BY <2>2, <2>6 DEF Exceeds
<1> QED
  BY <1>2, <1>3, <1>4

(* One that is nowhere behind and somewhere ahead has the greater score.   *)
LEMMA ScoresFollowRanks ==
    ASSUME ListsOK, NEW p, NEW q,
           \A list \in Weighted : NoWorse(list, p, q),
           \E list \in Weighted : ~NoWorse(list, q, p)
    PROVE  Exceeds(FusedScore(p), FusedScore(q))
<1> DEFINE w == AlphaScale - configuration.alpha
           v == configuration.alpha
           b == Share(w, Rank(bm25, p))
           c == Share(w, Rank(bm25, q))
           d == Share(v, Rank(dense, p))
           e == Share(v, Rank(dense, q))
<1>1. /\ w \in Nat /\ v \in Nat
      /\ Rank(bm25, p) \in Nat /\ Rank(bm25, q) \in Nat
      /\ Rank(dense, p) \in Nat /\ Rank(dense, q) \in Nat
  BY WeightsAreNatural, RanksArePlaces DEF ListsOK
<1>2. /\ w # 0 => bm25 \in Weighted
      /\ v # 0 => dense \in Weighted
      /\ \A list \in Weighted : (list = bm25 /\ w # 0) \/ (list = dense /\ v # 0)
  BY WeightsAreNatural, RetrievalAssumption DEF Weighted
<1> HIDE DEF w, v
<1>3. b \in Fractions /\ c \in Fractions /\ d \in Fractions /\ e \in Fractions
  BY <1>1, SharesAreFractions
<1>4. ASSUME w = 0 PROVE ~Exceeds(c, b)
  BY <1>1, <1>4, RetrievalAssumption DEF Share, Exceeds, Unranked
<1>5. ASSUME v = 0 PROVE ~Exceeds(e, d)
  BY <1>1, <1>5, RetrievalAssumption DEF Share, Exceeds, Unranked
<1>6. ~Exceeds(c, b)
  <2>1. CASE w # 0
    <3>1. Rank(bm25, q) = Unranked \/ Rank(bm25, p) \in 1..Rank(bm25, q)
      BY <1>2, <2>1 DEF NoWorse
    <3> QED BY <1>1, <3>1, SharesFollowRanks
  <2> QED BY <1>4, <2>1
<1>7. ~Exceeds(e, d)
  <2>1. CASE v # 0
    <3>1. Rank(dense, q) = Unranked \/ Rank(dense, p) \in 1..Rank(dense, q)
      BY <1>2, <2>1 DEF NoWorse
    <3> QED BY <1>1, <3>1, SharesFollowRanks
  <2> QED BY <1>5, <2>1
<1>8. Exceeds(b, c) \/ Exceeds(d, e)
  <2>1. PICK list \in Weighted : ~NoWorse(list, q, p)
    OBVIOUS
  <2>2. NoWorse(list, p, q) /\ Rank(list, p) # Rank(list, q)
    <3>1. Rank(list, p) \in Nat /\ Rank(list, q) \in Nat
      BY <1>1, <1>2
    <3> QED BY <2>1, <3>1 DEF NoWorse, Unranked
  <2>3. CASE list = bm25 /\ w # 0
    BY <1>1, <2>2, <2>3, SharesFollowRanks DEF NoWorse
  <2>4. CASE list = dense /\ v # 0
    BY <1>1, <2>2, <2>4, SharesFollowRanks DEF NoWorse
  <2> QED BY <1>2, <2>3, <2>4
<1>9. /\ FusedScore(p) = [num |-> b.num * d.den + d.num * b.den, den |-> b.den * d.den]
      /\ FusedScore(q) = [num |-> c.num * e.den + e.num * c.den, den |-> c.den * e.den]
  BY DEF FusedScore, w, v
<1> HIDE DEF b, c, d, e
<1> QED
  BY <1>3, <1>6, <1>7, <1>8, <1>9, SumsAreOrdered

(* What a fusion leaves of the candidates is a list like those it fuses.   *)
LEMMA BestCandidates ==
    ASSUME ListsOK, NEW before, StrictOrder(Candidates, before), NEW cut \in 1..CandidateK,
           NEW best, best = Truncated(Ordered(Candidates, before), cut)
    PROVE  /\ IsAnswer(best)
           /\ best \in Seq(Candidates)
           /\ \A x \in Candidates, i \in 1..Len(best) : <<x, best[i]>> \in before =>
                 \E j \in 1..(i - 1) : best[j] = x
           /\ \A x \in Candidates :
                 Cardinality(Predecessors(Candidates, before, x)) < cut =>
                    x \in ToSet(best)
<1>1. /\ IsFiniteSet(Candidates) /\ Candidates \subseteq SourcePassages
      /\ cut \in Nat /\ cut <= CandidateK /\ CandidateK \in Nat
  BY CandidatesAreFinite, RetrievalAssumption
<1>2. AreBest(best, Candidates, before, cut)
  BY <1>1, TheBestArePrefix
<1>3. Len(best) <= CandidateK
  <2>1. Cardinality(Candidates) \in Nat
    BY <1>1, FS_CardinalityType
  <2> QED BY <1>1, <1>2, <2>1 DEF AreBest
<1>4. best \in Seq(SourcePassages)
  BY <1>1, <1>2, SeqMonotonic DEF AreBest
<1>5. DOMAIN best = 1..Len(best)
  BY <1>4
<1> QED
  BY <1>2, <1>3, <1>4, <1>5 DEF AreBest, IsAnswer, ToSet

LEMMA WeightedFusion ==
    ASSUME ListsOK, NEW cut \in 1..CandidateK, NEW fused, fused = Truncated(Fused, cut)
    PROVE  /\ IsAnswer(fused)
           /\ \A p \in Candidates, q \in ToSet(fused) :
                 (/\ \A list \in Weighted : NoWorse(list, p, q)
                  /\ \E list \in Weighted : ~NoWorse(list, q, p))
                     => Rank(fused, p) \in 1..(Rank(fused, q) - 1)
<1>1. /\ IsAnswer(fused)
      /\ fused \in Seq(Candidates)
      /\ \A x \in Candidates, i \in 1..Len(fused) : <<x, fused[i]>> \in ByFusedScore =>
            \E j \in 1..(i - 1) : fused[j] = x
  <2>1. StrictOrder(Candidates, ByFusedScore)
    BY FusionIsStrictOrder
  <2>2. fused = Truncated(Ordered(Candidates, ByFusedScore), cut)
    BY DEF Fused
  <2> QED BY <2>1, <2>2, BestCandidates
<1>2. ASSUME NEW p \in Candidates, NEW q \in ToSet(fused),
             \A list \in Weighted : NoWorse(list, p, q),
             \E list \in Weighted : ~NoWorse(list, q, p)
      PROVE  Rank(fused, p) \in 1..(Rank(fused, q) - 1)
  <2>1. Rank(fused, q) \in 1..Len(fused) /\ fused[Rank(fused, q)] = q
    BY <1>1, RanksArePlaces
  <2>2. q \in Candidates
    BY <1>1, <2>1
  <2>3. <<p, q>> \in ByFusedScore
    BY <1>2, <2>2, ScoresFollowRanks DEF ByFusedScore, Precedes
  <2>4. PICK j \in 1..(Rank(fused, q) - 1) : fused[j] = p
    BY <1>1, <2>1, <2>3
  <2>5. j \in 1..Len(fused)
    BY <1>1, <2>1, RanksArePlaces
  <2> QED BY <1>1, <2>4, <2>5, RanksArePlaces
<1> QED
  BY <1>1, <1>2

------------------------------------------------------------------------------
(* Balanced fusion alternates between the lists: BM25 has the odd turns,   *)
(* dense the even ones, and a passage takes its first.                     *)

LEMMA TurnsAreFirstPlaces ==
    ASSUME ListsOK, NEW p \in Candidates
    PROVE  /\ Turn(p) \in Nat \ {0}
           /\ \/ \E i \in 1..Len(bm25) : Turn(p) = 2 * i - 1 /\ bm25[i] = p
              \/ \E i \in 1..Len(dense) : Turn(p) = 2 * i /\ dense[i] = p
           /\ \A i \in 1..Len(bm25) : bm25[i] = p => Turn(p) <= 2 * i - 1
           /\ \A i \in 1..Len(dense) : dense[i] = p => Turn(p) <= 2 * i
<1> DEFINE r == Rank(bm25, p)
           s == Rank(dense, p)
<1>1. /\ r \in Nat /\ s \in Nat
      /\ r # 0 => r \in 1..Len(bm25) /\ bm25[r] = p
      /\ s # 0 => s \in 1..Len(dense) /\ dense[s] = p
      /\ \A i \in 1..Len(bm25) : bm25[i] = p => i = r
      /\ \A i \in 1..Len(dense) : dense[i] = p => i = s
      /\ Len(bm25) \in Nat /\ Len(dense) \in Nat
  BY RanksArePlaces DEF ListsOK, Unranked
<1>2. r # 0 \/ s # 0
  BY RanksArePlaces DEF ListsOK, Candidates
<1>3. Turn(p) = IF 2 * r - 1 < 0 THEN 2 * s
                ELSE IF 2 * s = 0 \/ 2 * r - 1 < 2 * s THEN 2 * r - 1 ELSE 2 * s
  BY DEF Turn
<1> HIDE DEF r, s
<1>4. /\ r = 0 => Turn(p) = 2 * s
      /\ r # 0 /\ s = 0 => Turn(p) = 2 * r - 1
      /\ r # 0 /\ s # 0 /\ r <= s => Turn(p) = 2 * r - 1
      /\ r # 0 /\ s # 0 /\ s < r => Turn(p) = 2 * s
  BY <1>1, <1>3
<1>5. CASE r # 0 /\ (s = 0 \/ r <= s)
  <2>1. Turn(p) = 2 * r - 1
    BY <1>4, <1>5
  <2>2. 2 * r - 1 \in Nat \ {0} /\ (s # 0 => 2 * r - 1 <= 2 * s)
    BY <1>1, <1>5
  <2>3. \A i \in 1..Len(dense) : dense[i] = p => Turn(p) <= 2 * i
    BY <1>1, <2>1, <2>2
  <2> QED BY <1>1, <1>5, <2>1, <2>2, <2>3
<1>6. CASE s # 0 /\ (r = 0 \/ s < r)
  <2>1. Turn(p) = 2 * s
    BY <1>4, <1>6
  <2>2. 2 * s \in Nat \ {0} /\ (r # 0 => 2 * s <= 2 * r - 1)
    BY <1>1, <1>6
  <2>3. \A i \in 1..Len(bm25) : bm25[i] = p => Turn(p) <= 2 * i - 1
    BY <1>1, <2>1, <2>2
  <2> QED BY <1>1, <1>6, <2>1, <2>2, <2>3
<1> QED
  BY <1>1, <1>2, <1>5, <1>6

LEMMA TurnsDiffer ==
    ASSUME ListsOK, NEW p \in Candidates, NEW q \in Candidates, Turn(p) = Turn(q)
    PROVE  p = q
<1>1. /\ Len(bm25) \in Nat /\ Len(dense) \in Nat
  BY RanksArePlaces DEF ListsOK
<1>2. \A i \in Nat, j \in Nat : 2 * i - 1 # 2 * j /\ (2 * i = 2 * j => i = j)
                               /\ (2 * i - 1 = 2 * j - 1 => i = j)
  OBVIOUS
<1>3. CASE \E i \in 1..Len(bm25) : Turn(p) = 2 * i - 1 /\ bm25[i] = p
  <2>1. PICK i \in 1..Len(bm25) : Turn(p) = 2 * i - 1 /\ bm25[i] = p
    BY <1>3
  <2>2. i \in Nat /\ \A j \in 1..Len(dense) : j \in Nat /\ 2 * i - 1 # 2 * j
    BY <1>1, <1>2
  <2>3. PICK j \in 1..Len(bm25) : Turn(q) = 2 * j - 1 /\ bm25[j] = q
    BY <2>1, <2>2, TurnsAreFirstPlaces
  <2>4. i \in Nat /\ j \in Nat
    BY <1>1
  <2>5. 2 * i - 1 = 2 * j - 1
    BY <2>1, <2>3
  <2>6. i = j
    BY <2>4, <2>5
  <2> QED BY <2>1, <2>3, <2>6
<1>4. CASE \E i \in 1..Len(dense) : Turn(p) = 2 * i /\ dense[i] = p
  <2>1. PICK i \in 1..Len(dense) : Turn(p) = 2 * i /\ dense[i] = p
    BY <1>4
  <2>2. i \in Nat /\ \A j \in 1..Len(bm25) : j \in Nat /\ 2 * j - 1 # 2 * i
    BY <1>1, <1>2
  <2>3. PICK j \in 1..Len(dense) : Turn(q) = 2 * j /\ dense[j] = q
    BY <2>1, <2>2, TurnsAreFirstPlaces
  <2>4. i \in Nat /\ j \in Nat
    BY <1>1
  <2>5. 2 * i = 2 * j
    BY <2>1, <2>3
  <2>6. i = j
    BY <2>4, <2>5
  <2> QED BY <2>1, <2>3, <2>6
<1> QED
  BY <1>3, <1>4, TurnsAreFirstPlaces

LEMMA TurnsAreStrictOrder ==
    ListsOK => StrictOrder(Candidates, ByTurn)
<1> SUFFICES ASSUME ListsOK PROVE StrictOrder(Candidates, ByTurn)
  OBVIOUS
<1>1. \A p, q \in Candidates : <<p, q>> \in ByTurn <=> Turn(p) < Turn(q)
  BY DEF ByTurn
<1>2. \A p \in Candidates : Turn(p) \in Nat
  BY TurnsAreFirstPlaces
<1>3. \A p, q \in Candidates : Turn(p) = Turn(q) => p = q
  BY TurnsDiffer
<1> QED
  BY <1>1, <1>2, <1>3 DEF StrictOrder

(* Before a passage come at most as many as there are turns before its.    *)
LEMMA FewTurnsBefore ==
    ASSUME ListsOK, NEW p \in Candidates
    PROVE  Cardinality(Predecessors(Candidates, ByTurn, p)) < Turn(p)
<1> DEFINE before == Predecessors(Candidates, ByTurn, p)
           turn == [q \in before |-> Turn(q)]
<1>1. /\ Turn(p) \in Nat \ {0}
      /\ \A q \in before : /\ q \in Candidates
                           /\ Turn(q) \in Nat \ {0}
                           /\ Turn(q) < Turn(p)
  BY TurnsAreFirstPlaces DEF Predecessors, ByTurn
<1>2. \A q, r \in before : Turn(q) = Turn(r) => q = r
  BY <1>1, TurnsDiffer
<1> HIDE DEF before
<1>3. turn \in Injection(before, 1..(Turn(p) - 1))
  <2>1. turn \in [before -> 1..(Turn(p) - 1)]
    BY <1>1
  <2> QED BY <1>2, <2>1 DEF Injection, IsInjective
<1>4. IsFiniteSet(1..(Turn(p) - 1)) /\ Cardinality(1..(Turn(p) - 1)) = Turn(p) - 1
  <2>1. Turn(p) - 1 \in Nat /\ 1 \in Int
    BY <1>1
  <2>2. /\ IsFiniteSet(1..(Turn(p) - 1))
        /\ Cardinality(1..(Turn(p) - 1))
             = IF 1 > Turn(p) - 1 THEN 0 ELSE (Turn(p) - 1) - 1 + 1
    BY <2>1, FS_Interval
  <2> QED BY <2>1, <2>2
<1> HIDE DEF turn
<1>5. IsFiniteSet(before) /\ Cardinality(before) <= Turn(p) - 1
  BY <1>3, <1>4, FS_Injection
<1>6. Cardinality(before) \in Nat
  BY <1>5, FS_CardinalityType
<1> QED
  BY <1>1, <1>5, <1>6 DEF before

LEMMA BalancedFusion ==
    ASSUME ListsOK, NEW cut \in 1..CandidateK, NEW fused, fused = Truncated(Balanced, cut)
    PROVE  /\ IsAnswer(fused)
           /\ \A i \in DOMAIN bm25 : 2 * i - 1 <= cut => bm25[i] \in ToSet(fused)
           /\ \A i \in DOMAIN dense : 2 * i <= cut => dense[i] \in ToSet(fused)
<1>1. /\ IsAnswer(fused)
      /\ \A x \in Candidates :
            Cardinality(Predecessors(Candidates, ByTurn, x)) < cut =>
               x \in ToSet(fused)
  <2>1. StrictOrder(Candidates, ByTurn)
    BY TurnsAreStrictOrder
  <2>2. fused = Truncated(Ordered(Candidates, ByTurn), cut)
    BY DEF Balanced
  <2> QED BY <2>1, <2>2, BestCandidates
<1>2. ASSUME NEW x \in Candidates, Turn(x) <= cut
      PROVE  x \in ToSet(fused)
  <2>1. Turn(x) \in Nat /\ cut \in Nat
    BY TurnsAreFirstPlaces, RetrievalAssumption
  <2>2. /\ Cardinality(Predecessors(Candidates, ByTurn, x)) \in Nat
        /\ Cardinality(Predecessors(Candidates, ByTurn, x)) < Turn(x)
    BY FewTurnsBefore, PredecessorsGrow, CandidatesAreFinite, TurnsAreStrictOrder
  <2> QED BY <1>1, <1>2, <2>1, <2>2
<1>3. /\ DOMAIN bm25 = 1..Len(bm25) /\ Len(bm25) \in Nat
      /\ DOMAIN dense = 1..Len(dense) /\ Len(dense) \in Nat
  BY RanksArePlaces DEF ListsOK
<1>4. ASSUME NEW i \in DOMAIN bm25, 2 * i - 1 <= cut
      PROVE  bm25[i] \in ToSet(fused)
  <2>1. bm25[i] \in Candidates
    BY DEF Candidates, ToSet
  <2>2. Turn(bm25[i]) \in Nat /\ Turn(bm25[i]) <= 2 * i - 1
    BY <1>3, <2>1, TurnsAreFirstPlaces
  <2>3. Turn(bm25[i]) <= cut
    BY <1>3, <1>4, <2>2, RetrievalAssumption
  <2> QED BY <1>2, <2>1, <2>3
<1>5. ASSUME NEW i \in DOMAIN dense, 2 * i <= cut
      PROVE  dense[i] \in ToSet(fused)
  <2>1. dense[i] \in Candidates
    BY DEF Candidates, ToSet
  <2>2. Turn(dense[i]) \in Nat /\ Turn(dense[i]) <= 2 * i
    BY <1>3, <2>1, TurnsAreFirstPlaces
  <2>3. Turn(dense[i]) <= cut
    BY <1>3, <1>5, <2>2, RetrievalAssumption
  <2> QED BY <1>2, <2>1, <2>3
<1> QED
  BY <1>1, <1>4, <1>5

------------------------------------------------------------------------------
(* Reranking                                                               *)

Row(list, score, i) == [passage |-> list[i], score |-> score[i], hybrid_rank |-> i]

(* The passages of a list, their scores and their places there: of enough  *)
(* of them the best final_k are that many, different, and name their place.*)
LEMMA RerankedIsWhole ==
    ASSUME NEW list, IsAnswer(list), FinalK <= Len(list),
           NEW score \in [1..Len(list) -> Scores],
           NEW rows, rows = {Row(list, score, i) : i \in 1..Len(list)},
           NEW best, best = Truncated(Ordered(rows, ByScore(rows)), FinalK)
    PROVE  /\ Len(best) = FinalK /\ DOMAIN best = 1..FinalK
           /\ \A i, j \in 1..FinalK : best[i].passage = best[j].passage => i = j
           /\ \A i \in 1..FinalK : /\ best[i].hybrid_rank \in 1..Len(list)
                                   /\ list[best[i].hybrid_rank] = best[i].passage
           /\ best \in Seq(rows)
<1> DEFINE n == Len(list)
           place == [row \in rows |-> row.hybrid_rank]
<1>1. /\ n \in Nat /\ DOMAIN list = 1..n
      /\ \A i \in 1..n : list[i] \in SourcePassages
      /\ \A i, j \in 1..n : list[i] = list[j] => i = j
  BY RanksArePlaces DEF IsAnswer, IsInjective
<1> HIDE DEF n
<1>2. /\ \A i \in 1..n : Row(list, score, i) \in rows
      /\ \A row \in rows : \E i \in 1..n : row = Row(list, score, i)
  BY DEF n
<1>3. ASSUME NEW row \in rows
      PROVE  /\ row.hybrid_rank \in 1..n
             /\ row = Row(list, score, row.hybrid_rank)
             /\ row.passage = list[row.hybrid_rank]
             /\ row.passage \in Int /\ row.score \in Int
  <2>1. PICK i \in 1..n : row = Row(list, score, i)
    BY <1>2
  <2>2. row.passage = list[i] /\ row.score = score[i] /\ row.hybrid_rank = i
    BY <2>1 DEF Row
  <2>3. list[i] \in Int
    <3>1. list[i] \in 1..PassageCount
      BY <1>1 DEF SourcePassages
    <3> QED BY <3>1, RetrievalAssumption
  <2>4. score[i] \in Int
    <3>1. score[i] \in Scores
      BY DEF n
    <3> QED BY <3>1, RetrievalAssumption
  <2> QED BY <2>1, <2>2, <2>3, <2>4
<1>4. ASSUME NEW x \in rows, NEW y \in rows, x.passage = y.passage
      PROVE  x = y
  <2>1. x.hybrid_rank = y.hybrid_rank
    BY <1>1, <1>3, <1>4
  <2> QED BY <1>3, <2>1
<1>5. place \in Injection(rows, 1..n) /\ place \in Surjection(rows, 1..n)
  <2>1. place \in [rows -> 1..n]
    BY <1>3
  <2>2. IsInjective(place)
    BY <1>3 DEF IsInjective
  <2>3. ASSUME NEW i \in 1..n PROVE \E row \in rows : place[row] = i
    <3>1. Row(list, score, i) \in rows /\ Row(list, score, i).hybrid_rank = i
      BY <1>2 DEF Row
    <3> QED BY <3>1
  <2> QED BY <2>1, <2>2, <2>3 DEF Injection, Surjection
<1>6. IsFiniteSet(rows) /\ Cardinality(rows) = n
  <2> HIDE DEF place
  <2>1. /\ IsFiniteSet(1..n)
        /\ Cardinality(1..n) = IF 1 > n THEN 0 ELSE n - 1 + 1
    BY <1>1, FS_Interval
  <2>2. IsFiniteSet(rows) /\ Cardinality(rows) = Cardinality(1..n)
    BY <1>5, <2>1, FS_Injection
  <2> QED BY <1>1, <2>1, <2>2
<1>7. StrictOrder(rows, ByScore(rows))
  <2>1. \A x, y \in rows : <<x, y>> \in ByScore(rows) <=> Outscores(x, y)
    BY DEF ByScore
  <2>2. ASSUME NEW x \in rows PROVE ~Outscores(x, x)
    BY <1>3 DEF Outscores
  <2>3. ASSUME NEW x \in rows, NEW y \in rows, NEW z \in rows,
               Outscores(x, y), Outscores(y, z)
        PROVE  Outscores(x, z)
    <3>1. /\ x.score \in Int /\ y.score \in Int /\ z.score \in Int
          /\ x.passage \in Int /\ y.passage \in Int /\ z.passage \in Int
      BY <1>3
    <3> QED BY <2>3, <3>1 DEF Outscores
  <2>4. ASSUME NEW x \in rows, NEW y \in rows
        PROVE  x = y \/ Outscores(x, y) \/ Outscores(y, x)
    <3>1. /\ x.score \in Int /\ y.score \in Int
          /\ x.passage \in Int /\ y.passage \in Int
      BY <1>3
    <3>2. x.passage = y.passage \/ Outscores(x, y) \/ Outscores(y, x)
      BY <3>1 DEF Outscores
    <3> QED BY <1>4, <3>2
  <2> QED BY <2>1, <2>2, <2>3, <2>4 DEF StrictOrder
<1>8. FinalK \in Nat /\ FinalK <= n
  BY RetrievalAssumption DEF n
<1>9. /\ best \in Seq(rows) /\ IsInjective(best)
      /\ Len(best) = IF Cardinality(rows) < FinalK THEN Cardinality(rows) ELSE FinalK
  <2>1. AreBest(best, rows, ByScore(rows), FinalK)
    BY <1>6, <1>7, <1>8, TheBestArePrefix
  <2> QED BY <2>1 DEF AreBest
<1>10. Len(best) = FinalK /\ DOMAIN best = 1..FinalK
  BY <1>1, <1>6, <1>8, <1>9
<1>11. \A i \in 1..FinalK : best[i] \in rows
  BY <1>9, <1>10, ElementOfSeq
<1>12. \A i, j \in 1..FinalK : best[i].passage = best[j].passage => i = j
  BY <1>4, <1>9, <1>10, <1>11 DEF IsInjective
<1> QED
  BY <1>3, <1>9, <1>10, <1>11, <1>12 DEF n

------------------------------------------------------------------------------
(* The invariant of a question                                             *)

HasHybrid ==
    /\ pc \notin {"bm25", "dense", "fuse", "raised"}
    /\ configuration.mode \in {"hybrid", "hybrid-rerank"}

(* Once fused, the list is the fusion of the two lists that were read.     *)
FusionInv ==
    HasHybrid => hybrid = Truncated(IF configuration.selection = "balanced"
                                    THEN Balanced ELSE Fused, configuration.final_k)

(* A mode reads its own lists; only a reranking run has candidates, and    *)
(* those it scores are enough, and all loaded.                             *)
CandidatesInv ==
    /\ pc = "bm25" => configuration.mode # "dense"
    /\ pc = "dense" => configuration.mode # "bm25"
    /\ pc = "fuse" => configuration.mode \in {"hybrid", "hybrid-rerank"}
    /\ pc \in {"candidates", "scoring"} => configuration.mode = "hybrid-rerank"
    /\ pc = "scoring" => FinalK <= Len(hybrid) /\ ToSet(hybrid) \subseteq Known

QuestionInv ==
    /\ ListsOK /\ IsAnswer(hybrid)
    /\ FusionInv /\ CandidatesInv /\ EvidenceIsWhole

LEMMA FusionIsOfTheLists ==
    ASSUME UNCHANGED <<configuration, bm25, dense>>
    PROVE  Fused' = Fused /\ Balanced' = Balanced
<1>1. Candidates' = Candidates
  BY DEF Candidates
<1>2. ASSUME NEW p
      PROVE  Rank(bm25, p)' = Rank(bm25, p) /\ Rank(dense, p)' = Rank(dense, p)
  OBVIOUS
<1>3. ByTurn' = ByTurn
  BY <1>1, <1>2 DEF ByTurn, Turn
<1>4. ByFusedScore' = ByFusedScore
  BY <1>1, <1>2 DEF ByFusedScore, Precedes, FusedScore
<1> QED
  BY <1>1, <1>3, <1>4 DEF Fused, Balanced

LEMMA FusionHasACut ==
    ASSUME ListsOK PROVE configuration.final_k \in 1..CandidateK
BY RetrievalAssumption DEF ListsOK, Configurations

LEMMA FusionIsAnAnswer ==
    ASSUME ListsOK
    PROVE  IsAnswer(Truncated(IF configuration.selection = "balanced"
                              THEN Balanced ELSE Fused, configuration.final_k))
<1>1. IsAnswer(Truncated(Balanced, configuration.final_k))
  BY BalancedFusion, FusionHasACut
<1>2. IsAnswer(Truncated(Fused, configuration.final_k))
  BY WeightedFusion, FusionHasACut
<1> QED
  BY <1>1, <1>2

LEMMA RerankStep ==
    ASSUME QuestionInv, Rerank
    PROVE  /\ Len(reranked') = FinalK
           /\ \A i, j \in DOMAIN reranked' :
                 reranked'[i].passage = reranked'[j].passage => i = j
           /\ \A i \in DOMAIN reranked' :
                 /\ reranked'[i].passage \in Known
                 /\ hybrid[reranked'[i].hybrid_rank] = reranked'[i].passage
<1>1. /\ IsAnswer(hybrid) /\ FinalK <= Len(hybrid) /\ ToSet(hybrid) \subseteq Known
      /\ DOMAIN hybrid = 1..Len(hybrid)
  BY RanksArePlaces DEF QuestionInv, CandidatesInv, Rerank
<1>2. PICK rows : rows = {Row(hybrid, scores', i) : i \in 1..Len(hybrid)}
  OBVIOUS
<1>3. /\ scores' \in [1..Len(hybrid) -> Scores]
      /\ reranked' = Truncated(Ordered(rows, ByScore(rows)), FinalK)
  BY <1>1, <1>2 DEF Rerank, Row
<1>4. PICK list, score, best : list = hybrid /\ score = scores' /\ best = reranked'
  OBVIOUS
<1>5. /\ Len(best) = FinalK /\ DOMAIN best = 1..FinalK
      /\ \A i, j \in 1..FinalK : best[i].passage = best[j].passage => i = j
      /\ \A i \in 1..FinalK : /\ best[i].hybrid_rank \in 1..Len(list)
                              /\ list[best[i].hybrid_rank] = best[i].passage
  <2>1. /\ IsAnswer(list) /\ FinalK <= Len(list)
        /\ score \in [1..Len(list) -> Scores]
        /\ rows = {Row(list, score, i) : i \in 1..Len(list)}
        /\ best = Truncated(Ordered(rows, ByScore(rows)), FinalK)
    BY <1>1, <1>2, <1>3, <1>4
  <2> QED BY <2>1, RerankedIsWhole, SMTT(30)
<1>6. \A i \in 1..FinalK : best[i].passage \in Known
  BY <1>1, <1>4, <1>5 DEF ToSet
<1> QED
  BY <1>4, <1>5, <1>6

(* Inductive invariant: the lists have no duplicates and fit, the fused    *)
(* list is the fusion of the lists that were read, and what is scored is   *)
(* enough and loaded.                                                      *)
THEOREM QuestionInvariant == Spec => []QuestionInv
<1>1. Init => QuestionInv
  <2> SUFFICES ASSUME Init PROVE QuestionInv
    OBVIOUS
  <2>1. IsAnswer(bm25) /\ IsAnswer(dense) /\ IsAnswer(hybrid) /\ ToSet(shown) = {}
    BY EmptyIsAnswer DEF Init, ToSet
  <2>2. /\ pc = IF configuration.mode = "dense" THEN "dense" ELSE "bm25"
        /\ configuration \in Configurations
    BY DEF Init
  <2> QED
    BY <2>1, <2>2 DEF QuestionInv, ListsOK, FusionInv, HasHybrid, CandidatesInv, EvidenceIsWhole
<1>2. QuestionInv /\ [Next]_vars => QuestionInv'
  <2> SUFFICES ASSUME QuestionInv, [Next]_vars
               PROVE  QuestionInv'
    OBVIOUS
  <2>0. configuration.mode \in {"bm25", "dense", "hybrid", "hybrid-rerank"}
    BY DEF QuestionInv, ListsOK, Configurations
  <2>1. CASE Raise
    <3>1. ListsOK' /\ IsAnswer(hybrid)'
      BY <2>1 DEF Raise, QuestionInv, ListsOK
    <3>2. FusionInv' /\ CandidatesInv' /\ EvidenceIsWhole'
      BY <2>1 DEF Raise, QuestionInv, FusionInv, HasHybrid, CandidatesInv, EvidenceIsWhole
    <3> QED BY <3>1, <3>2 DEF QuestionInv
  <2>2. CASE QueryBm25
    <3>1. /\ pc = "bm25"
          /\ pc' = IF configuration.mode = "bm25" THEN "returned" ELSE "dense"
          /\ UNCHANGED <<configuration, dense, hybrid, reranked, shown>>
      BY <2>2 DEF QueryBm25
    <3>2. IsAnswer(bm25')
      BY <2>2, AnswersAreDistinct DEF QueryBm25
    <3>3. ListsOK' /\ IsAnswer(hybrid)'
      BY <3>1, <3>2 DEF QuestionInv, ListsOK
    <3>4. FusionInv'
      BY <3>1 DEF FusionInv, HasHybrid
    <3>5. CandidatesInv' /\ EvidenceIsWhole'
      BY <2>0, <3>1 DEF QuestionInv, CandidatesInv, EvidenceIsWhole
    <3> QED BY <3>3, <3>4, <3>5 DEF QuestionInv
  <2>3. CASE QueryDense
    <3>1. /\ pc = "dense"
          /\ pc' = IF configuration.mode = "dense" THEN "returned" ELSE "fuse"
          /\ UNCHANGED <<configuration, bm25, hybrid, reranked, shown>>
      BY <2>3 DEF QueryDense
    <3>2. IsAnswer(dense')
      BY <2>3, AnswersAreDistinct DEF QueryDense
    <3>3. ListsOK' /\ IsAnswer(hybrid)'
      BY <3>1, <3>2 DEF QuestionInv, ListsOK
    <3>4. FusionInv'
      BY <3>1 DEF FusionInv, HasHybrid
    <3>5. CandidatesInv' /\ EvidenceIsWhole'
      BY <2>0, <3>1 DEF QuestionInv, CandidatesInv, EvidenceIsWhole
    <3> QED BY <3>3, <3>4, <3>5 DEF QuestionInv
  <2>4. CASE Fuse
    <3>1. /\ hybrid' = Truncated(IF configuration.selection = "balanced"
                                 THEN Balanced ELSE Fused, configuration.final_k)
          /\ pc' = IF configuration.mode = "hybrid" THEN "returned" ELSE "candidates"
          /\ UNCHANGED <<configuration, bm25, dense, reranked, shown>>
      BY <2>4 DEF Fuse
    <3>2. IsAnswer(hybrid')
      BY <3>1, FusionIsAnAnswer DEF QuestionInv
    <3>3. ListsOK'
      BY <3>1 DEF QuestionInv, ListsOK
    <3>4. FusionInv'
      BY <3>1, FusionIsOfTheLists DEF FusionInv
    <3>5. CandidatesInv' /\ EvidenceIsWhole'
      BY <2>4, <3>1 DEF Fuse, QuestionInv, CandidatesInv, EvidenceIsWhole
    <3> QED BY <3>2, <3>3, <3>4, <3>5 DEF QuestionInv
  <2>5. CASE SelectCandidates
    <3>1. /\ pc = "candidates"
          /\ pc' = IF Len(hybrid) >= FinalK /\ ToSet(hybrid) \subseteq Known
                   THEN "scoring" ELSE "raised"
          /\ UNCHANGED <<configuration, bm25, dense, hybrid, reranked, shown>>
      BY <2>5 DEF SelectCandidates
    <3>2. ListsOK' /\ IsAnswer(hybrid)'
      BY <3>1 DEF QuestionInv, ListsOK
    <3>3. FusionInv'
      BY <3>1, FusionIsOfTheLists DEF QuestionInv, FusionInv, HasHybrid
    <3>4. Len(hybrid) \in Nat /\ FinalK \in Nat
      BY RanksArePlaces, RetrievalAssumption DEF QuestionInv
    <3>5. CandidatesInv' /\ EvidenceIsWhole'
      BY <3>1, <3>4 DEF QuestionInv, CandidatesInv, EvidenceIsWhole
    <3> QED BY <3>2, <3>3, <3>5 DEF QuestionInv
  <2>6. CASE Rerank
    <3>1. /\ pc = "scoring" /\ pc' = "returned"
          /\ UNCHANGED <<configuration, bm25, dense, hybrid, shown>>
      BY <2>6 DEF Rerank
    <3>2. ListsOK' /\ IsAnswer(hybrid)'
      BY <3>1 DEF QuestionInv, ListsOK
    <3>3. FusionInv'
      BY <3>1, FusionIsOfTheLists DEF QuestionInv, FusionInv, HasHybrid
    <3>4. CandidatesInv'
      BY <3>1 DEF CandidatesInv
    <3>5. EvidenceIsWhole'
      BY <2>6, <3>1, RerankStep DEF QuestionInv, EvidenceIsWhole
    <3> QED BY <3>2, <3>3, <3>4, <3>5 DEF QuestionInv
  <2>7. CASE Show
    <3>1. /\ pc = "returned" /\ pc' \in {"shown", "raised"}
          /\ shown' = shown \/ ToSet(shown') \subseteq Known
          /\ UNCHANGED <<configuration, bm25, dense, hybrid, reranked>>
      BY <2>7 DEF Show
    <3>2. ListsOK' /\ IsAnswer(hybrid)'
      BY <3>1 DEF QuestionInv, ListsOK
    <3>3. FusionInv'
      BY <3>1, FusionIsOfTheLists DEF QuestionInv, FusionInv, HasHybrid
    <3>4. CandidatesInv'
      BY <3>1 DEF CandidatesInv
    <3>5. EvidenceIsWhole'
      BY <3>1 DEF QuestionInv, EvidenceIsWhole
    <3> QED BY <3>2, <3>3, <3>4, <3>5 DEF QuestionInv
  <2>8. CASE UNCHANGED vars
    <3>1. UNCHANGED <<configuration, bm25, dense, hybrid, reranked, shown, pc>>
      BY <2>8 DEF vars
    <3>2. ListsOK' /\ IsAnswer(hybrid)'
      BY <3>1 DEF QuestionInv, ListsOK
    <3>3. FusionInv'
      BY <3>1, FusionIsOfTheLists DEF QuestionInv, FusionInv, HasHybrid
    <3>4. CandidatesInv' /\ EvidenceIsWhole'
      BY <3>1 DEF QuestionInv, CandidatesInv, EvidenceIsWhole
    <3> QED BY <3>2, <3>3, <3>4 DEF QuestionInv
  <2> QED BY <2>1, <2>2, <2>3, <2>4, <2>5, <2>6, <2>7, <2>8 DEF Next
<1> QED BY <1>1, <1>2, PTL DEF Spec

(* Weighted fusion: whatever alpha, the rank constant and the two lists,   *)
(* a passage nowhere behind another and ahead of it in a list that counts  *)
(* is fused before it (hybrid_retrieval.py).                               *)
THEOREM FusionKeepsRanks == Spec => []FusionRespectsRanks
<1>1. QuestionInv => FusionRespectsRanks
  <2> SUFFICES ASSUME QuestionInv, HasFused("weighted_rrf")
               PROVE  \A p \in ToSet(bm25) \cup ToSet(dense), q \in ToSet(hybrid) :
                         (/\ \A list \in Weighted : NoWorse(list, p, q)
                          /\ \E list \in Weighted : ~NoWorse(list, q, p))
                             => Rank(hybrid, p) \in 1..(Rank(hybrid, q) - 1)
    BY DEF FusionRespectsRanks
  <2>1. ListsOK /\ hybrid = Truncated(Fused, configuration.final_k)
    BY DEF QuestionInv, FusionInv, HasHybrid, HasFused
  <2> QED BY <2>1, WeightedFusion, FusionHasACut DEF Candidates
<1> QED BY <1>1, QuestionInvariant, PTL

(* Balanced fusion: the lists share the places evenly, for every           *)
(* candidate_k, both cuts and however they overlap (hybrid_retrieval.py).  *)
THEOREM TopHitsAreProtected == Spec => []BalancedProtectsTopHits
<1>1. QuestionInv => BalancedProtectsTopHits
  <2> SUFFICES ASSUME QuestionInv, HasFused("balanced")
               PROVE  /\ \A i \in DOMAIN bm25 :
                            2 * i - 1 <= configuration.final_k => bm25[i] \in ToSet(hybrid)
                      /\ \A i \in DOMAIN dense :
                            2 * i <= configuration.final_k => dense[i] \in ToSet(hybrid)
    BY DEF BalancedProtectsTopHits
  <2>1. ListsOK /\ hybrid = Truncated(Balanced, configuration.final_k)
    BY DEF QuestionInv, FusionInv, HasHybrid, HasFused
  <2> QED BY <2>1, BalancedFusion, FusionHasACut
<1> QED BY <1>1, QuestionInvariant, PTL

(* Reranked evidence is never short, has no passage twice and none the     *)
(* loaded files lack, and names each one's true place in the fusion; what  *)
(* is shown is loaded in every mode (reranked_retrieval.py,                *)
(* demo_retrieval.py).                                                     *)
THEOREM EvidenceStaysWhole == Spec => []EvidenceIsWhole
<1>1. QuestionInv => EvidenceIsWhole
  BY DEF QuestionInv
<1> QED BY <1>1, QuestionInvariant, PTL
------------------------------------------------------------------------------
(* Types.  A list without duplicates that fits is one a query may answer.  *)
LEMMA DistinctIsAnAnswer ==
    ASSUME NEW list, IsAnswer(list) PROVE list \in Answers
<1> DEFINE n == Len(list)
           S == {list[i] : i \in 1..n}
<1>1. /\ n \in Nat /\ DOMAIN list = 1..n
      /\ \A i \in 1..n : list[i] \in SourcePassages
      /\ \A i, j \in 1..n : list[i] = list[j] => i = j
  BY RanksArePlaces DEF IsAnswer, IsInjective
<1>2. list \in [1..n -> S]
  BY <1>1 DEF IsAnswer
<1>3. Cardinality(S) = n
  <2>1. list \in Bijection(1..n, S)
    BY <1>1, <1>2 DEF Bijection, Injection, Surjection, IsInjective
  <2>2. IsFiniteSet(1..n) /\ Cardinality(1..n) = n
    BY <1>1, FS_Interval
  <2>3. Cardinality(S) = Cardinality(1..n)
    <3>1. ExistsBijection(1..n, S)
      BY <2>1 DEF ExistsBijection
    <3> QED BY <2>2, <3>1, FS_Bijection
  <2> QED BY <2>2, <2>3
<1>4. S \in SUBSET SourcePassages
  BY <1>1
<1> HIDE DEF S
<1>5. list \in SetToSeqs(S)
  BY <1>1, <1>2, <1>3 DEF SetToSeqs
<1> QED
  BY <1>4, <1>5 DEF IsAnswer, Answers, SetToAllKPermutations

LEMMA ShorterIsAnAnswer ==
    ASSUME NEW list, IsAnswer(list) PROVE IsAnswer(Truncated(list, FinalK))
<1> DEFINE m == IF Len(list) < FinalK THEN Len(list) ELSE FinalK
           top == Truncated(list, FinalK)
<1>1. /\ Len(list) \in Nat /\ DOMAIN list = 1..Len(list)
      /\ \A i \in 1..Len(list) : list[i] \in SourcePassages
      /\ \A i, j \in 1..Len(list) : list[i] = list[j] => i = j
      /\ Len(list) <= CandidateK
  BY RanksArePlaces DEF IsAnswer, IsInjective
<1>2. m \in Nat /\ m <= Len(list) /\ CandidateK \in Nat
  BY <1>1, RetrievalAssumption
<1>3. top = SubSeq(list, 1, m)
  BY DEF Truncated
<1> HIDE DEF m, top
<1>4. /\ top \in Seq(SourcePassages) /\ Len(top) = m
      /\ \A i \in 1..m : top[i] = list[i]
  <2>1. \A i \in 1..m : list[i] \in SourcePassages
    BY <1>1, <1>2
  <2>2. /\ SubSeq(list, 1, m) \in Seq(SourcePassages)
        /\ Len(SubSeq(list, 1, m)) = IF 1 <= m THEN m - 1 + 1 ELSE 0
        /\ \A i \in 1..(m - 1 + 1) : SubSeq(list, 1, m)[i] = list[1 + i - 1]
    BY <1>2, <2>1, SubSeqProperties
  <2> QED BY <1>2, <1>3, <2>2
<1>5. IsInjective(top)
  <2>1. DOMAIN top = 1..m
    BY <1>2, <1>4
  <2>2. \A i, j \in 1..m : top[i] = top[j] => i = j
    BY <1>1, <1>2, <1>4
  <2> QED BY <2>1, <2>2 DEF IsInjective
<1>6. Len(top) <= CandidateK
  BY <1>1, <1>2, <1>4
<1> QED
  BY <1>4, <1>5, <1>6 DEF IsAnswer, top

LEMMA RerankKeepsTypes ==
    ASSUME QuestionInv, Rerank
    PROVE  scores' \in Seq(Scores) /\ reranked' \in Seq(RerankedPassage)
<1>1. /\ IsAnswer(hybrid) /\ FinalK <= Len(hybrid)
      /\ DOMAIN hybrid = 1..Len(hybrid) /\ Len(hybrid) \in Nat
      /\ \A i \in 1..Len(hybrid) : hybrid[i] \in SourcePassages
  BY RanksArePlaces DEF QuestionInv, CandidatesInv, Rerank
<1>2. PICK rows : rows = {Row(hybrid, scores', i) : i \in 1..Len(hybrid)}
  OBVIOUS
<1>3. /\ scores' \in [1..Len(hybrid) -> Scores]
      /\ reranked' = Truncated(Ordered(rows, ByScore(rows)), FinalK)
  BY <1>1, <1>2 DEF Rerank, Row
<1>4. PICK list, score, best : list = hybrid /\ score = scores' /\ best = reranked'
  OBVIOUS
<1>5. best \in Seq(rows)
  BY <1>1, <1>2, <1>3, <1>4, RerankedIsWhole
<1>6. rows \subseteq RerankedPassage
  <2>1. 1..Len(hybrid) \subseteq 1..CandidateK
    BY <1>1, RetrievalAssumption DEF IsAnswer
  <2> QED BY <1>1, <1>2, <1>3, <2>1 DEF Row, RerankedPassage
<1>7. best \in Seq(RerankedPassage)
  BY <1>5, <1>6, SeqMonotonic
<1> QED
  BY <1>1, <1>3, <1>4, <1>7

(* What the demonstration shows is a list without duplicates in each mode. *)
LEMMA ResultIsAnAnswer ==
    ASSUME QuestionInv, TypeOK, pc = "returned"
    PROVE  Result \in Answers
<1>1. CASE configuration.mode = "hybrid"
  BY <1>1, ShorterIsAnAnswer, DistinctIsAnAnswer DEF QuestionInv, Result
<1>2. CASE configuration.mode = "hybrid-rerank"
  <2> DEFINE list == [i \in DOMAIN reranked |-> reranked[i].passage]
  <2>1. /\ Len(reranked) = FinalK /\ FinalK \in Nat /\ FinalK <= CandidateK
        /\ \A i, j \in DOMAIN reranked :
              reranked[i].passage = reranked[j].passage => i = j
    BY <1>2, RetrievalAssumption DEF QuestionInv, EvidenceIsWhole
  <2>2. DOMAIN reranked = 1..FinalK
    BY <2>1 DEF TypeOK
  <2>3. \A i \in 1..FinalK : reranked[i].passage \in SourcePassages
    <3>1. \A i \in 1..FinalK : reranked[i] \in RerankedPassage
      BY <2>2, ElementOfSeq, <2>1 DEF TypeOK
    <3> QED BY <3>1 DEF RerankedPassage
  <2>4. list \in Seq(SourcePassages) /\ Len(list) = FinalK /\ DOMAIN list = 1..FinalK
    BY <2>1, <2>2, <2>3
  <2>5. IsInjective(list)
    BY <2>1, <2>2, <2>4 DEF IsInjective
  <2>6. IsAnswer(list)
    BY <2>1, <2>4, <2>5 DEF IsAnswer
  <2>7. Result = list
    BY <1>2 DEF Result
  <2> QED BY <2>6, <2>7, DistinctIsAnAnswer
<1>3. CASE configuration.mode \in {"bm25", "dense"}
  BY <1>3 DEF Result, TypeOK
<1> QED
  BY <1>1, <1>2, <1>3 DEF TypeOK, Configurations

(* Every list a question holds, up to the rows that are shown, is short    *)
(* enough, names passages only and none twice (hybrid_retrieval.py,        *)
(* reranked_retrieval.py, demo_retrieval.py).                              *)
THEOREM RetrievalTypeCorrect == Spec => []TypeOK
<1>1. Init => TypeOK
  <2> SUFFICES ASSUME Init PROVE TypeOK
    OBVIOUS
  <2>1. <<>> \in Answers
    BY EmptyIsAnswer, DistinctIsAnAnswer
  <2>2. <<>> \in Seq(Scores) /\ <<>> \in Seq(RerankedPassage)
    BY EmptySeq
  <2>3. pc \in {"bm25", "dense"}
    BY DEF Init
  <2> QED BY <2>1, <2>2, <2>3 DEF Init, TypeOK
<1>2. QuestionInv /\ TypeOK /\ [Next]_vars => TypeOK'
  <2> SUFFICES ASSUME QuestionInv, TypeOK, [Next]_vars PROVE TypeOK'
    OBVIOUS
  <2>1. CASE QueryBm25 \/ QueryDense \/ SelectCandidates \/ Raise
    BY <2>1 DEF QueryBm25, QueryDense, SelectCandidates, Raise, TypeOK
  <2>2. CASE Fuse
    <3>1. hybrid' \in Answers
      BY <2>2, FusionIsAnAnswer, DistinctIsAnAnswer DEF Fuse, QuestionInv
    <3>2. /\ pc' \in {"returned", "candidates"}
          /\ UNCHANGED <<configuration, bm25, dense, scores, reranked, shown>>
      BY <2>2 DEF Fuse
    <3> QED BY <3>1, <3>2 DEF TypeOK
  <2>3. CASE Rerank
    <3>1. pc' = "returned" /\ UNCHANGED <<configuration, bm25, dense, hybrid, shown>>
      BY <2>3 DEF Rerank
    <3> QED BY <2>3, <3>1, RerankKeepsTypes DEF TypeOK
  <2>4. CASE Show
    <3>1. /\ pc = "returned" /\ pc' \in {"shown", "raised"}
          /\ shown' = Result \/ shown' = shown
          /\ UNCHANGED <<configuration, bm25, dense, hybrid, scores, reranked>>
      BY <2>4 DEF Show
    <3> QED BY <3>1, ResultIsAnAnswer DEF TypeOK
  <2>5. CASE UNCHANGED vars
    BY <2>5 DEF vars, TypeOK
  <2> QED BY <2>1, <2>2, <2>3, <2>4, <2>5 DEF Next
<1> QED
  BY <1>1, <1>2, QuestionInvariant, PTL DEF Spec
==============================================================================
