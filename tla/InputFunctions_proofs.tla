------------------------ MODULE InputFunctions_proofs -------------------------
(***************************************************************************)
(* The parts that compute without shared state, for every input and every  *)
(* limit: sections, questions, reference suites and rankings.              *)
(*                                                                         *)
(* Sections need an invariant of the loop: the passages of the current     *)
(* section end at or before start, and later sections have none.  The      *)
(* others take one step, and the work is in the lemmas about what that     *)
(* step computes: cutting a text at its ends, a dash between a section and *)
(* a chunk, one place in a sorted list.                                    *)
(***************************************************************************)
EXTENDS QueryPreparation, ExactReferences, RetrievalScoring, SectionChunker,
        Sorting_proofs, SequenceTheorems

------------------------------------------------------------------------------
(* SectionChunker                                                          *)

(* What a passage is by itself.                                            *)
WellCut(text, from, end) ==
    /\ end - from \in 1..MaxChars
    /\ end <= Len(text)
    /\ end < Len(text) /\ Character(text, end - 1) \notin Whitespace =>
          \A k \in (from + 1)..(end - 1) : Character(text, k) # "space"

PassagesWellCut ==
    \A i \in 1..Len(passages) :
        WellCut(sections[passages[i].section], passages[i].start_char, passages[i].end_char)

(* Nothing has been emitted past the place where the loop stands.          *)
BehindStart ==
    \A i \in 1..Len(passages) :
        /\ passages[i].section <= section
        /\ passages[i].section = section => passages[i].end_char <= start

ChunkerInvariant == TypeOK /\ PassagesWellCut /\ BehindStart /\ EveryCharacterOnce

(* The rule for the end of a passage: progress, the limit, the text.       *)
LEMMA BoundaryRule ==
    ASSUME NEW text \in Texts, NEW from \in Nat, from < Len(text),
           NEW end \in Int, IsChunkEnd(text, from, end)
    PROVE  WellCut(text, from, end)
<1>1. Len(text) \in Nat
  BY DEF Texts
<1>2. MaxChars \in Nat \ {0}
  BY ChunkerAssumption
<1>3. HardEnd(text, from) \in (from + 1)..Len(text) /\ HardEnd(text, from) - from <= MaxChars
  BY <1>1, <1>2 DEF HardEnd
<1>4. CASE end = HardEnd(text, from)
  <2>1. end - from \in 1..MaxChars /\ end <= Len(text)
    BY <1>2, <1>3, <1>4, <1>1
  <2>2. ASSUME end < Len(text), Character(text, end - 1) \notin Whitespace
        PROVE  Spaces(text, from) = {}
    BY <1>1, <1>3, <1>4, <2>2 DEF IsChunkEnd, Spaces, Whitespace
  <2>3. QED
    BY <2>1, <2>2, <1>4 DEF WellCut, Spaces
<1>5. CASE end - 1 \in Spaces(text, from)
  <2>1. end - 1 \in (from + 1)..(HardEnd(text, from) - 1)
    BY <1>5 DEF Spaces
  <2>2. Character(text, end - 1) \in Whitespace
    BY <1>5 DEF Spaces, Whitespace
  <2>3. end - from \in 1..MaxChars /\ end <= Len(text)
    BY <2>1, <1>1, <1>2, <1>3
  <2>4. QED
    BY <2>2, <2>3 DEF WellCut
<1>6. QED
  BY <1>4, <1>5 DEF IsChunkEnd

LEMMA ChunkerStarts == Init => ChunkerInvariant
<1> SUFFICES ASSUME Init PROVE ChunkerInvariant
  OBVIOUS
<1>1. sections \in [1..SectionCount -> Texts]
  <2>1. \A n \in 1..MaxLength : [1..n -> Characters] \subseteq Texts
    BY ChunkerAssumption DEF Texts
  <2>2. QED
    BY <2>1 DEF Init
<1>2. TypeOK
  <2>1. 1 \in 1..(SectionCount + 1)
    BY ChunkerAssumption
  <2>2. 1 <= SectionCount => Len(sections[1]) \in Nat
    BY <1>1, ChunkerAssumption DEF Texts
  <2>3. QED
    BY <1>1, <2>1, <2>2 DEF Init, TypeOK
<1>3. Len(passages) = 0
  BY DEF Init
<1>4. EveryCharacterOnce
  <2>1. \A s \in 1..SectionCount : Len(sections[s]) \in Nat
    BY <1>1 DEF Texts
  <2>2. QED
    BY <1>3, <2>1 DEF Init, EveryCharacterOnce, Done
<1>5. QED
  BY <1>2, <1>3, <1>4 DEF ChunkerInvariant, PassagesWellCut, BehindStart

LEMMA EmitKeeps == ChunkerInvariant /\ Emit => ChunkerInvariant'
<1> SUFFICES ASSUME ChunkerInvariant, Emit PROVE ChunkerInvariant'
  OBVIOUS
<1> DEFINE text == sections[section]
<1>0. PICK n \in Nat : n = Len(passages)
  BY DEF ChunkerInvariant, TypeOK
<1>1. PICK end \in 0..Len(text) :
          /\ IsChunkEnd(text, start, end)
          /\ passages' = Append(passages, [section |-> section,
                                           start_char |-> start, end_char |-> end])
          /\ start' = end
  BY DEF Emit
<1>2. /\ section \in 1..SectionCount /\ section' = section /\ sections' = sections
      /\ start < Len(text) /\ start \in Nat /\ text \in Texts /\ Len(text) \in Nat
  BY ChunkerAssumption DEF Emit, ChunkerInvariant, TypeOK, Texts
<1>3. WellCut(text, start, end)
  BY <1>1, <1>2, BoundaryRule
<1>4. end \in Nat /\ start < end /\ end <= Len(text)
  BY <1>1, <1>2, <1>3, ChunkerAssumption DEF WellCut
<1>5. /\ n \in Nat /\ Len(passages') = n + 1
      /\ \A i \in 1..n : passages'[i] = passages[i] /\ passages[i] \in DerivedPassage
      /\ passages'[n + 1] = [section |-> section, start_char |-> start, end_char |-> end]
  BY <1>0, <1>1 DEF ChunkerInvariant, TypeOK
<1> HIDE DEF text
<1>6. TypeOK'
  <2>1. [section |-> section, start_char |-> start, end_char |-> end] \in DerivedPassage
    BY <1>2, <1>4 DEF DerivedPassage
  <2>2. passages' \in Seq(DerivedPassage)
    BY <1>1, <2>1 DEF ChunkerInvariant, TypeOK
  <2>3. start' <= Len(sections[section])
    BY <1>1, <1>4 DEF text
  <2>4. QED
    BY <1>1, <1>2, <1>4, <2>2, <2>3 DEF ChunkerInvariant, TypeOK
<1>7. PassagesWellCut'
  <2> SUFFICES ASSUME NEW i \in 1..Len(passages')
               PROVE  WellCut(sections[passages'[i].section],
                              passages'[i].start_char, passages'[i].end_char)
    BY <1>2 DEF PassagesWellCut, WellCut
  <2>1. CASE i \in 1..n
    BY <2>1, <1>0, <1>5 DEF ChunkerInvariant, PassagesWellCut
  <2>2. CASE i = n + 1
    BY <2>2, <1>3, <1>5 DEF text
  <2>3. QED
    BY <2>1, <2>2, <1>5
<1>8. BehindStart'
  <2> SUFFICES ASSUME NEW i \in 1..Len(passages')
               PROVE  /\ passages'[i].section <= section
                      /\ passages'[i].section = section => passages'[i].end_char <= end
    BY <1>1, <1>2 DEF BehindStart
  <2>1. CASE i \in 1..n
    BY <2>1, <1>2, <1>4, <1>0, <1>5 DEF ChunkerInvariant, BehindStart, DerivedPassage
  <2>2. CASE i = n + 1
    BY <2>2, <1>2, <1>4, <1>5
  <2>3. QED
    BY <2>1, <2>2, <1>5
<1>9. EveryCharacterOnce'
  <2> SUFFICES ASSUME NEW s \in 1..SectionCount, NEW offset \in 0..(Len(sections[s]) - 1)
               PROVE  /\ Done(s, offset)' => \E i \in 1..Len(passages') : Covers(i, s, offset)'
                      /\ \A i, j \in 1..Len(passages') :
                            Covers(i, s, offset)' /\ Covers(j, s, offset)' => i = j
    BY <1>2 DEF EveryCharacterOnce, Done, Covers
  <2>1. offset \in Nat
    BY <1>2 DEF ChunkerInvariant, TypeOK, Texts
  <2>2. \A i \in 1..n : Covers(i, s, offset)' <=> Covers(i, s, offset)
    BY <1>5 DEF Covers
  <2>3. Covers(n + 1, s, offset)' <=> s = section /\ start <= offset /\ offset < end
    BY <1>5 DEF Covers
  <2>4. Done(s, offset)' => \E i \in 1..Len(passages') : Covers(i, s, offset)'
    <3> SUFFICES ASSUME Done(s, offset)'
                 PROVE  \E i \in 1..Len(passages') : Covers(i, s, offset)'
      OBVIOUS
    <3>1. CASE Done(s, offset)
      <4>1. PICK i \in 1..n : Covers(i, s, offset)
        BY <1>0, <3>1 DEF ChunkerInvariant, EveryCharacterOnce
      <4>2. QED
        BY <4>1, <2>2, <1>5
    <3>2. CASE ~Done(s, offset)
      <4>1. s = section /\ start <= offset /\ offset < end
        BY <3>2, <1>1, <1>2, <1>4, <2>1 DEF Done
      <4>2. QED
        BY <4>1, <2>3, <1>5
    <3>3. QED
      BY <3>1, <3>2
  <2>5. ASSUME NEW i \in 1..n
        PROVE  ~(Covers(i, s, offset)' /\ Covers(n + 1, s, offset)')
    BY <2>1, <2>2, <2>3, <1>2, <1>0, <1>4, <1>5 DEF Covers, ChunkerInvariant, BehindStart, DerivedPassage
  <2>6. \A i, j \in 1..Len(passages') :
            Covers(i, s, offset)' /\ Covers(j, s, offset)' => i = j
    <3> SUFFICES ASSUME NEW i \in 1..(n + 1), NEW j \in 1..(n + 1),
                        Covers(i, s, offset)', Covers(j, s, offset)'
                 PROVE  i = j
      BY <1>5
    <3>1. CASE i \in 1..n /\ j \in 1..n
      BY <1>0, <3>1, <2>2 DEF ChunkerInvariant, EveryCharacterOnce
    <3>2. CASE i = n + 1 /\ j = n + 1
      BY <3>2
    <3>3. ~(i \in 1..n /\ j = n + 1) /\ ~(j \in 1..n /\ i = n + 1)
      BY <2>5
    <3>4. QED
      BY <3>1, <3>2, <3>3, <1>5
  <2>7. QED
    BY <2>4, <2>6
<1>10. QED
  BY <1>6, <1>7, <1>8, <1>9 DEF ChunkerInvariant

LEMMA NextSectionKeeps == ChunkerInvariant /\ NextSection => ChunkerInvariant'
<1> SUFFICES ASSUME ChunkerInvariant, NextSection PROVE ChunkerInvariant'
  OBVIOUS
<1>1. /\ section \in 1..SectionCount /\ section' = section + 1 /\ start' = 0
      /\ sections' = sections /\ passages' = passages /\ start >= Len(sections[section])
  BY ChunkerAssumption DEF NextSection, ChunkerInvariant, TypeOK
<1>2. TypeOK'
  <2>1. section' <= SectionCount => Len(sections[section']) \in Nat
    BY <1>1, ChunkerAssumption DEF ChunkerInvariant, TypeOK, Texts
  <2>2. QED
    BY <1>1, <2>1, ChunkerAssumption DEF ChunkerInvariant, TypeOK
<1>3. PassagesWellCut'
  BY <1>1 DEF ChunkerInvariant, PassagesWellCut, WellCut
<1>4. BehindStart'
  <2> SUFFICES ASSUME NEW i \in 1..Len(passages)
               PROVE  /\ passages[i].section \in Nat
                      /\ passages[i].section < section + 1
    BY <1>1 DEF BehindStart
  <2>1. passages[i] \in DerivedPassage
    BY DEF ChunkerInvariant, TypeOK
  <2>2. QED
    BY <1>1, <2>1 DEF ChunkerInvariant, BehindStart, DerivedPassage
<1>5. EveryCharacterOnce'
  <2>1. \A s \in 1..SectionCount : Len(sections[s]) \in Nat
    BY DEF ChunkerInvariant, TypeOK, Texts
  <2>2. ASSUME NEW s \in 1..SectionCount, NEW offset \in 0..(Len(sections[s]) - 1)
        PROVE  Done(s, offset)' => Done(s, offset)
    <3>1. Done(s, offset)' <=> s < section + 1 \/ (s = section + 1 /\ offset < 0)
      BY <1>1 DEF Done
    <3>2. s = section => offset < start
      BY <1>1, <2>1 DEF ChunkerInvariant, TypeOK
    <3>3. QED
      BY <1>1, <2>1, <3>1, <3>2 DEF Done
  <2>3. \A i, s, offset : Covers(i, s, offset)' <=> Covers(i, s, offset)
    BY <1>1 DEF Covers
  <2>4. QED
    BY <1>1, <2>2, <2>3 DEF ChunkerInvariant, EveryCharacterOnce
<1>6. QED
  BY <1>2, <1>3, <1>4, <1>5 DEF ChunkerInvariant

LEMMA ChunkerIsInductive == Spec => []ChunkerInvariant
<1>1. ChunkerInvariant /\ [Next]_vars => ChunkerInvariant'
  <2>1. ChunkerInvariant /\ UNCHANGED vars => ChunkerInvariant'
    BY DEF ChunkerInvariant, TypeOK, PassagesWellCut, WellCut, BehindStart, EveryCharacterOnce,
           Done, Covers, vars
  <2>2. QED
    BY <2>1, EmitKeeps, NextSectionKeeps DEF Next, Returned
<1>2. QED
  BY ChunkerStarts, <1>1, PTL DEF Spec

(* The loop never runs past its section and emits well-formed passages.    *)
THEOREM SectionsTypeCorrect == Spec => []TypeOK
<1>1. ChunkerInvariant => TypeOK
  BY DEF ChunkerInvariant, TypeOK
<1>2. QED
  BY ChunkerIsInductive, <1>1, PTL

(* The passages partition every section that has been split: concatenated, *)
(* they are its text.                                                      *)
THEOREM Lossless == Spec => []EveryCharacterOnce
<1>1. ChunkerInvariant => EveryCharacterOnce
  BY DEF ChunkerInvariant
<1>2. QED
  BY ChunkerIsInductive, <1>1, PTL

(* No passage is empty, longer than max_chars or reaches past its section. *)
THEOREM Bounded == Spec => []PassagesFit
<1>1. ChunkerInvariant => PassagesFit
  BY DEF ChunkerInvariant, PassagesWellCut, WellCut, PassagesFit
<1>2. QED
  BY ChunkerIsInductive, <1>1, PTL

(* A word is cut only when no space follows the passage's first character. *)
THEOREM CutsAreForced == Spec => []CutsOnlyUnbrokenText
<1>1. ChunkerInvariant => CutsOnlyUnbrokenText
  BY DEF ChunkerInvariant, PassagesWellCut, WellCut, CutsOnlyUnbrokenText
<1>2. QED
  BY ChunkerIsInductive, <1>1, PTL

------------------------------------------------------------------------------
(* QueryPreparation: the parts of a text                                   *)

IsQuestionText(text) == text \in Seq(Words) /\ text # <<>>

(* Where the part before the k-th end begins, less one.                    *)
Before(ends, k) == IF k = 1 THEN 0 ELSE ends[k - 1]

(* Ends cut a text into parts that are not empty, and reach every word.    *)
AreEnds(ends, n, text, cuts) ==
    /\ n \in Nat \ {0}
    /\ ends \in [1..n -> 1..Len(text)]
    /\ ends[n] = Len(text)
    /\ \A k \in 1..n : ends[k] \in cuts \/ k = n
    /\ \A x \in cuts : \E k \in 1..n : ends[k] = x
    /\ \A j, k \in 1..n : j < k => ends[j] < ends[k]
    /\ \A k \in 1..n : Before(ends, k) \in 0..(ends[k] - 1)
    /\ \A i \in 1..Len(text) : \E k \in 1..n : i \in (Before(ends, k) + 1)..ends[k]

LEMMA CutsGiveEnds ==
    ASSUME NEW text, IsQuestionText(text), NEW cuts, cuts \subseteq 1..Len(text)
    PROVE  AreEnds(Ends(text, cuts), Cardinality(cuts \cup {Len(text)}), text, cuts)
<1> DEFINE S == cuts \cup {Len(text)}
           n == Cardinality(S)
           e == Ends(text, cuts)
           m == Len(text)
<1>1. m \in Nat \ {0}
  BY EmptySeq DEF IsQuestionText
<1>2. S = cuts \cup {m} /\ cuts \subseteq 1..m
  OBVIOUS
<1> HIDE DEF m, S
<1>3. S \subseteq 1..m /\ m \in S
  BY <1>1, <1>2
<1>4. IsFiniteSet(S)
  <2>1. IsFiniteSet(1..m)
    BY <1>1, FS_Interval
  <2> QED BY <1>3, <2>1, FS_Subset
<1>5. e = Ascending(S)
  BY <1>2 DEF Ends, m
<1>6. cuts \subseteq S /\ \A x \in S : x \in cuts \/ x = m
  BY <1>2
<1>7. S \subseteq Int
  BY <1>3
<1> HIDE DEF n, e
<1>8. /\ n \in Nat
      /\ e \in [1..n -> S]
      /\ \A x \in S : \E k \in 1..n : e[k] = x
      /\ \A j, k \in 1..n : j < k => e[j] < e[k]
  BY <1>4, <1>5, <1>7, AscendingIsSorted DEF n
<1>9. \A k \in 1..n : e[k] \in 1..m
  BY <1>3, <1>8
<1>10. n \in 1..n /\ e[n] = m
  <2>1. PICK k \in 1..n : e[k] = m
    BY <1>3, <1>8
  <2>2. n \in 1..n
    BY <1>8
  <2>3. ~(k < n)
    BY <1>1, <1>8, <1>9, <2>1, <2>2
  <2> QED BY <1>8, <2>1, <2>2, <2>3
<1>11. \A k \in 1..n : e[k] \in cuts \/ k = n
  <2> SUFFICES ASSUME NEW k \in 1..n, k # n PROVE e[k] \in cuts
    OBVIOUS
  <2>1. e[k] < e[n]
    BY <1>8, <1>10
  <2>2. e[k] # m
    BY <1>1, <1>9, <1>10, <2>1
  <2> QED BY <1>6, <1>8, <2>2
<1>12. ASSUME NEW k \in 1..n PROVE Before(e, k) \in 0..(e[k] - 1)
  <2>1. CASE k = 1
    BY <1>9, <2>1 DEF Before
  <2>2. CASE k # 1
    <3>1. k - 1 \in 1..n /\ k - 1 < k
      BY <1>8, <2>2
    <3>2. e[k - 1] < e[k] /\ e[k - 1] \in 1..m /\ e[k] \in 1..m
      BY <1>8, <1>9, <3>1
    <3> QED BY <2>2, <3>2 DEF Before
  <2> QED BY <2>1, <2>2
<1>13. ASSUME NEW i \in 1..m
       PROVE  \E k \in 1..n : i \in (Before(e, k) + 1)..e[k]
  <2> DEFINE later == {k \in 1..n : i <= e[k]}
  <2>1. n \in later
    BY <1>10
  <2>2. IsFiniteSet(later)
    <3>1. IsFiniteSet(1..n)
      BY <1>8, FS_Interval
    <3> QED BY <3>1, FS_Subset
  <2>3. later \subseteq 1..n /\ later \subseteq Int
    BY <1>8
  <2>4. PICK k \in later : \A j \in later : k <= j
    <3> HIDE DEF later
    <3> QED BY <2>1, <2>2, <2>3, HasSmallest
  <2>5. k \in 1..n /\ i <= e[k]
    OBVIOUS
  <2>6. Before(e, k) < i
    <3>1. CASE k = 1
      BY <3>1 DEF Before
    <3>2. CASE k # 1
      <4>1. k - 1 \in 1..n /\ ~(k <= k - 1)
        BY <1>8, <2>5, <3>2
      <4>2. ~(i <= e[k - 1])
        BY <2>4, <4>1
      <4>3. e[k - 1] \in 1..m
        BY <1>9, <4>1
      <4> QED BY <3>2, <4>2, <4>3 DEF Before
    <3> QED BY <3>1, <3>2
  <2>7. Before(e, k) \in 0..(e[k] - 1) /\ e[k] \in 1..m
    BY <1>9, <1>12, <2>5
  <2>8. i \in (Before(e, k) + 1)..e[k]
    BY <2>5, <2>6, <2>7
  <2> QED BY <2>5, <2>8
<1>14. n \in Nat \ {0} /\ e \in [1..n -> 1..m]
  BY <1>8, <1>9, <1>10
<1>15. \A x \in cuts : \E k \in 1..n : e[k] = x
  BY <1>6, <1>8
<1>16. AreEnds(e, n, text, cuts)
  BY <1>8, <1>10, <1>11, <1>12, <1>13, <1>14, <1>15 DEF AreEnds, m
<1> QED
  BY <1>2, <1>16 DEF e, n, m

(* The stretch of a text that follows its f-th word and ends with its b-th, *)
(* and the stretch without its last word.                                  *)
IsStretch(part, text, f, b) ==
    /\ part \in Seq(Words)
    /\ Len(part) = b - f
    /\ \A i \in 1..(b - f) : part[i] = text[f + i]

LEMMA Stretches ==
    ASSUME NEW text, IsQuestionText(text),
           NEW b, b \in 1..Len(text), NEW f, f \in 0..(b - 1)
    PROVE  /\ IsStretch(SubSeq(text, f + 1, b), text, f, b)
           /\ IsStretch(SubSeq(text, f + 1, b - 1), text, f, b - 1)
           /\ Front(SubSeq(text, f + 1, b)) = SubSeq(text, f + 1, b - 1)
<1> DEFINE m == Len(text)
           part == SubSeq(text, f + 1, b)
           less == SubSeq(text, f + 1, b - 1)
<1>1. m \in Nat /\ \A i \in 1..m : text[i] \in Words
  BY DEF IsQuestionText
<1>2. /\ b \in 1..m /\ f \in 0..(b - 1)
      /\ f + 1 \in Int /\ b \in Int /\ b - 1 \in Int /\ f + 1 <= b
  BY <1>1
<1> HIDE DEF m
<1>3. \A i \in (f + 1)..b : text[i] \in Words
  BY <1>1, <1>2
<1>4. /\ part \in Seq(Words)
      /\ Len(part) = IF f + 1 <= b THEN b - (f + 1) + 1 ELSE 0
      /\ \A i \in 1..(b - (f + 1) + 1) : part[i] = text[f + 1 + i - 1]
  BY <1>2, <1>3, SubSeqProperties
<1>5. /\ part \in Seq(Words) /\ Len(part) = b - f
      /\ \A i \in 1..(b - f) : part[i] = text[f + i]
  BY <1>2, <1>4
<1>6. /\ less \in Seq(Words)
      /\ Len(less) = IF f + 1 <= b - 1 THEN b - 1 - (f + 1) + 1 ELSE 0
      /\ \A i \in 1..(b - 1 - (f + 1) + 1) : less[i] = text[f + 1 + i - 1]
  <2>1. \A i \in (f + 1)..(b - 1) : text[i] \in Words
    BY <1>2, <1>3
  <2> QED BY <1>2, <2>1, SubSeqProperties
<1>7. /\ Len(less) = b - 1 - f
      /\ \A i \in 1..(b - 1 - f) : less[i] = text[f + i]
  BY <1>2, <1>6
<1> HIDE DEF part, less
<1>8. Front(part) = SubSeq(part, 1, b - f - 1)
  BY <1>5 DEF Front
<1>9. /\ Front(part) \in Seq(Words)
      /\ Len(Front(part)) = IF 1 <= b - f - 1 THEN b - f - 1 - 1 + 1 ELSE 0
      /\ \A i \in 1..(b - f - 1 - 1 + 1) : Front(part)[i] = part[1 + i - 1]
  <2>1. 1 \in Int /\ b - f - 1 \in Int
    BY <1>2
  <2>2. \A i \in 1..(b - f - 1) : part[i] \in Words
    BY <1>2, <1>5
  <2> QED BY <1>8, <2>1, <2>2, SubSeqProperties
<1>10. /\ Len(Front(part)) = b - 1 - f
       /\ \A i \in 1..(b - 1 - f) : Front(part)[i] = part[i]
  BY <1>2, <1>9
<1>11. \A i \in 1..(b - 1 - f) : Front(part)[i] = less[i]
  BY <1>2, <1>5, <1>7, <1>10
<1>12. Front(part) = less
  BY <1>6, <1>7, <1>9, <1>10, <1>11, SeqEqual
<1> QED
  BY <1>5, <1>6, <1>7, <1>12 DEF IsStretch, part, less

(* The parts of a text are what lies between its ends.                     *)
ArePieces(parts, ends, n, text) ==
    /\ parts \in Seq(Seq(Words)) /\ Len(parts) = n /\ DOMAIN parts = 1..n
    /\ \A k \in 1..n : parts[k] = SubSeq(text, Before(ends, k) + 1, ends[k])

LEMMA PartsLieBetween ==
    ASSUME NEW text, IsQuestionText(text), NEW cuts, cuts \subseteq 1..Len(text),
           NEW ends, ends = Ends(text, cuts),
           NEW n, AreEnds(ends, n, text, cuts)
    PROVE  ArePieces(PartsAt(text, cuts), ends, n, text)
<1>1. n \in Nat \ {0} /\ DOMAIN ends = 1..n
  BY DEF AreEnds
<1>2. PartsAt(text, cuts) =
          [k \in 1..n |-> SubSeq(text, IF k = 1 THEN 1 ELSE ends[k - 1] + 1, ends[k])]
  BY <1>1 DEF PartsAt
<1>3. ASSUME NEW k \in 1..n
      PROVE  PartsAt(text, cuts)[k] = SubSeq(text, Before(ends, k) + 1, ends[k])
  <2>1. (IF k = 1 THEN 1 ELSE ends[k - 1] + 1) = Before(ends, k) + 1
    BY DEF Before
  <2> QED BY <1>2, <2>1
<1>4. ASSUME NEW k \in 1..n
      PROVE  PartsAt(text, cuts)[k] \in Seq(Words)
  <2>1. ends[k] \in 1..Len(text) /\ Before(ends, k) \in 0..(ends[k] - 1)
    BY DEF AreEnds
  <2>2. IsStretch(SubSeq(text, Before(ends, k) + 1, ends[k]), text, Before(ends, k), ends[k])
    BY <2>1, Stretches
  <2> QED BY <1>3, <2>2 DEF IsStretch
<1>5. PartsAt(text, cuts) \in [1..n -> Seq(Words)]
  BY <1>2, <1>4
<1> QED
  BY <1>1, <1>3, <1>5 DEF ArePieces

------------------------------------------------------------------------------
(* Focusing                                                                *)

LEMMA QuestionsAreTexts ==
    ASSUME NEW text \in Questions
    PROVE  /\ IsQuestionText(text)
           /\ Len(text) \in Nat \ {0}
           /\ DOMAIN text = 1..Len(text)
           /\ Marks(text) \subseteq 1..Len(text)
           /\ Conjunctions(text) \subseteq 1..Len(text)
           /\ \A i \in Conjunctions(text) : text[i] = "and"
<1>1. IsQuestionText(text)
  BY QuestionAssumption DEF IsQuestionText
<1>2. Len(text) \in Nat \ {0} /\ DOMAIN text = 1..Len(text)
  BY <1>1, EmptySeq DEF IsQuestionText
<1>3. Marks(text) \subseteq 1..Len(text)
  BY <1>2 DEF Marks
<1>4. Conjunctions(text) \subseteq Ands(text)
  BY DEF Conjunctions
<1>5. Ands(text) \subseteq 1..Len(text) /\ \A i \in Ands(text) : text[i] = "and"
  BY <1>2 DEF Ands
<1> QED
  BY <1>1, <1>2, <1>3, <1>4, <1>5

(* What FocusKeepsTheQuestion says of a question that is focused.          *)
LEMMA FactPatternIsFocused ==
    ASSUME NEW text \in Questions, IsFactPattern(text),
           NEW kept, kept = FinalQuestion(text),
           NEW dropped, dropped = SubSeq(text, 1, Len(text) - Len(kept))
    PROVE  /\ text = dropped \o kept
           /\ Marks(dropped) = {}
           /\ Last(dropped) \in {"stop", "citation"}
           /\ \A i \in DOMAIN kept : kept[i] # "stop"
           /\ Len(text) >= FocusWords /\ Len(kept) >= SentenceWords
<1> DEFINE cuts == {i \in DOMAIN text : EndsSentence(text[i])}
           n == Cardinality(cuts \cup {Len(text)})
           e == Ends(text, cuts)
           m == Len(text)
           f == Before(e, n)
<1>1. IsQuestionText(text) /\ m \in Nat \ {0} /\ DOMAIN text = 1..m
  BY QuestionsAreTexts
<1>2. cuts \subseteq 1..Len(text)
  BY <1>1
<1>3. AreEnds(e, n, text, cuts)
  BY <1>1, <1>2, CutsGiveEnds
<1>4. Sentences(text) = PartsAt(text, cuts)
  BY DEF Sentences
<1>5. \A i \in 1..m : i \in cuts <=> text[i] \in {"stop", "citation"}
  BY <1>1 DEF EndsSentence
<1> HIDE DEF cuts, n, e
<1>6. /\ DOMAIN Sentences(text) = 1..n
      /\ \A k \in 1..n : Sentences(text)[k] = SubSeq(text, Before(e, k) + 1, e[k])
  <2>1. e = Ends(text, cuts)
    BY DEF e
  <2> HIDE DEF m, f
  <2>2. ArePieces(PartsAt(text, cuts), e, n, text)
    BY <1>1, <1>2, <1>3, <2>1, PartsLieBetween
  <2> QED BY <1>4, <2>2 DEF ArePieces
<1>7. /\ n \in Nat \ {0} /\ e[n] = m /\ f \in 0..(m - 1)
      /\ \A k \in 1..n : e[k] \in 1..m
      /\ \A k \in 1..n : e[k] \in cuts \/ k = n
      /\ \A x \in cuts : \E k \in 1..n : e[k] = x
      /\ \A j, k \in 1..n : j < k => e[j] < e[k]
  <2> HIDE DEF m, f
  <2>1. /\ n \in Nat \ {0} /\ e[n] = Len(text)
        /\ e \in [1..n -> 1..Len(text)]
        /\ \A k \in 1..n : e[k] \in cuts \/ k = n
        /\ \A x \in cuts : \E k \in 1..n : e[k] = x
        /\ \A j, k \in 1..n : j < k => e[j] < e[k]
        /\ \A k \in 1..n : Before(e, k) \in 0..(e[k] - 1)
    BY <1>3 DEF AreEnds
  <2>2. n \in 1..n
    BY <2>1
  <2>3. Before(e, n) \in 0..(e[n] - 1)
    BY <2>1, <2>2
  <2> QED BY <2>1, <2>3 DEF m, f
<1>8. /\ SubSeq(text, f + 1, m) \in Seq(Words)
      /\ Len(SubSeq(text, f + 1, m)) = m - f
      /\ \A i \in 1..(m - f) : SubSeq(text, f + 1, m)[i] = text[f + i]
  <2>1. m \in 1..Len(text)
    BY <1>1
  <2> HIDE DEF m, f
  <2>2. IsStretch(SubSeq(text, f + 1, m), text, f, m)
    BY <1>1, <1>7, <2>1, Stretches
  <2> QED BY <2>2 DEF IsStretch
<1>9. Sentences(text)[n] = SubSeq(text, f + 1, m)
  BY <1>6, <1>7
<1> HIDE DEF m, f
<1>10. text[m] = "mark"
  BY DEF IsFactPattern, Last, m
<1>11. n \in Asked(text)
  <2>1. Last(Sentences(text)[n]) = "mark"
    <3>1. m - f \in 1..(m - f) /\ f + (m - f) = m
      BY <1>1, <1>7
    <3>2. SubSeq(text, f + 1, m)[m - f] = text[m]
      BY <1>8, <3>1
    <3> QED BY <1>8, <1>9, <1>10, <3>2 DEF Last
  <2> QED BY <1>6, <1>7, <2>1 DEF Asked, IsQuestion
<1>12. Asked(text) = {n}
  <2>1. Cardinality(Asked(text)) = 1
    BY DEF IsFactPattern
  <2>2. IsFiniteSet(1..n)
    BY <1>7, FS_Interval
  <2>3. IsFiniteSet(Asked(text))
    BY <1>6, <2>2, FS_Subset DEF Asked
  <2>4. PICK x : Asked(text) = {x}
    BY <2>1, <2>3, FS_Singleton
  <2> QED BY <1>11, <2>4
<1>13. kept = SubSeq(text, f + 1, m)
  <2>1. (CHOOSE k \in Asked(text) : \A j \in Asked(text) : j <= k) = n
    BY <1>7, <1>12
  <2> QED BY <1>9, <2>1 DEF FinalQuestion
<1>14. Len(kept) = m - f /\ kept \in Seq(Words) /\ \A i \in 1..(m - f) : kept[i] = text[f + i]
  BY <1>8, <1>13
<1>15. n # 1
  <2> SUFFICES ASSUME n = 1 PROVE FALSE
    OBVIOUS
  <2>1. f = 0
    BY DEF f, Before
  <2>2. SubSeq(text, 1, Len(text)) = text
    BY <1>1, SubSeqFull DEF IsQuestionText
  <2>3. kept = text
    BY <1>13, <2>1, <2>2 DEF m
  <2> QED BY <2>3 DEF IsFactPattern
<1>16. n - 1 \in 1..n /\ n \in 1..n /\ f = e[n - 1]
  BY <1>7, <1>15 DEF f, Before
<1>17. f \in 1..m /\ f < m /\ text[f] \in {"stop", "citation"}
  <2>1. f \in cuts
    BY <1>7, <1>16
  <2>2. f < m
    BY <1>7, <1>16
  <2> QED BY <1>5, <1>7, <1>16, <2>1, <2>2
<1>18. dropped = SubSeq(text, 1, f)
  <2>1. m - (m - f) = f
    BY <1>1, <1>17
  <2> QED BY <1>14, <2>1 DEF m
<1>19. /\ dropped \in Seq(Words) /\ Len(dropped) = f
       /\ \A i \in 1..f : dropped[i] = text[i]
  <2>1. f \in 1..Len(text) /\ 0 \in 0..(f - 1)
    BY <1>1, <1>17 DEF m
  <2>2. IsStretch(SubSeq(text, 0 + 1, f), text, 0, f)
    BY <1>1, <2>1, Stretches
  <2>3. 0 + 1 = 1
    OBVIOUS
  <2>4. IsStretch(dropped, text, 0, f)
    BY <1>18, <2>2, <2>3
  <2> QED BY <1>17, <2>4 DEF IsStretch
<1>20. text = dropped \o kept
  <2>1. text \in Seq(Words)
    BY <1>1 DEF IsQuestionText
  <2>2. /\ 1 \in 1..(Len(text) + 1) /\ f \in (1 - 1)..Len(text)
        /\ m \in f..Len(text)
    BY <1>1, <1>17 DEF m
  <2>3. SubSeq(text, 1, f) \o SubSeq(text, f + 1, m) = SubSeq(text, 1, m)
    BY <2>1, <2>2, ConcatAdjacentSubSeq
  <2>4. SubSeq(text, 1, m) = text
    BY <2>1, SubSeqFull DEF m
  <2> QED BY <1>13, <1>18, <2>3, <2>4
<1>21. Marks(dropped) = {}
  <2>1. m \in Marks(text) /\ Marks(text) \subseteq 1..m
    BY <1>1, <1>10 DEF Marks
  <2>2. IsFiniteSet(Marks(text)) /\ Cardinality(Marks(text)) = 1
    <3>1. IsFiniteSet(1..m)
      BY <1>1, FS_Interval
    <3> QED BY <2>1, <3>1, FS_Subset DEF IsFactPattern
  <2>3. PICK x : Marks(text) = {x}
    BY <2>2, FS_Singleton
  <2>4. \A i \in 1..m : text[i] = "mark" => i = m
    BY <1>1, <2>1, <2>3 DEF Marks
  <2>5. DOMAIN dropped = 1..f
    BY <1>19
  <2>6. \A i \in 1..f : dropped[i] # "mark"
    BY <1>1, <1>17, <1>19, <2>4
  <2> QED BY <2>5, <2>6 DEF Marks
<1>22. Last(dropped) \in {"stop", "citation"}
  BY <1>17, <1>19 DEF Last
<1>23. ASSUME NEW i \in DOMAIN kept, kept[i] = "stop" PROVE FALSE
  <2>1. i \in 1..(m - f) /\ text[f + i] = "stop"
    BY <1>14, <1>23
  <2>2. f + i \in 1..m /\ f < f + i
    BY <1>1, <1>17, <2>1
  <2>3. PICK k \in 1..n : e[k] = f + i
    BY <1>5, <1>7, <2>1, <2>2
  <2>4. k # n
    BY <1>7, <1>10, <2>1, <2>3
  <2>5. k = n - 1 \/ k < n - 1
    BY <1>7, <2>4
  <2>6. e[k] <= f
    BY <1>7, <1>16, <1>17, <2>5
  <2> QED BY <1>17, <2>1, <2>2, <2>3, <2>6
<1>24. Len(text) >= FocusWords /\ Len(kept) >= SentenceWords
  BY DEF IsFactPattern
<1> QED
  BY <1>20, <1>21, <1>22, <1>23, <1>24

------------------------------------------------------------------------------
(* Routing                                                                 *)

(* One query that is the whole question.                                   *)
LEMMA TheWholeIsCovered ==
    ASSUME NEW text \in Questions
    PROVE  CoverTheContent(<<text>>, text) /\ Len(<<text>>) = 1
<1>1. /\ IsQuestionText(text) /\ Len(text) \in Nat \ {0} /\ DOMAIN text = 1..Len(text)
      /\ SubSeq(text, 1, Len(text)) = text
  BY QuestionsAreTexts, SubSeqFull DEF IsQuestionText
<1>2. PICK list : list = <<text>>
  OBVIOUS
<1>3. DOMAIN list = {1} /\ list[1] = text /\ Len(list) = 1
  BY <1>2
<1>4. PICK from : from = [k \in DOMAIN list |-> 0]
  OBVIOUS
<1>5. PICK end : end = [k \in DOMAIN list |-> from[k] + Len(list[k])]
  OBVIOUS
<1>6. from \in [DOMAIN list -> 0..Len(text)] /\ from[1] = 0 /\ end[1] = Len(text)
  BY <1>1, <1>3, <1>4, <1>5
<1>7. \A k \in DOMAIN list :
          end[k] <= Len(text) /\ list[k] = SubSeq(text, from[k] + 1, end[k])
  BY <1>1, <1>3, <1>6
<1>8. \A i \in DOMAIN text : i \in (from[1] + 1)..end[1]
  BY <1>1, <1>6
<1>9. CoverTheContent(list, text)
  BY <1>3, <1>5, <1>6, <1>7, <1>8 DEF CoverTheContent
<1> QED
  BY <1>2, <1>3, <1>9

(* Taking a question apart loses its conjunctions alone: a part ends where *)
(* the next begins, or with the conjunction in between.                    *)
LEMMA ThePartsCover ==
    ASSUME NEW text \in Questions
    PROVE  CoverTheContent(Parts(text), text) /\ Parts(text) \in Seq(Seq(Words))
<1> DEFINE C == Conjunctions(text)
           cuts == C \cup Marks(text)
           n == Cardinality(cuts \cup {Len(text)})
           e == Ends(text, cuts)
           list == Parts(text)
<1>1. /\ IsQuestionText(text) /\ Len(text) \in Nat \ {0} /\ DOMAIN text = 1..Len(text)
      /\ C \subseteq 1..Len(text) /\ Marks(text) \subseteq 1..Len(text)
      /\ \A i \in C : text[i] = "and"
  BY QuestionsAreTexts
<1> HIDE DEF C
<1>2. cuts \subseteq 1..Len(text)
  BY <1>1
<1>3. list = [k \in DOMAIN PartsAt(text, cuts) |->
                IF e[k] \in C THEN Front(PartsAt(text, cuts)[k]) ELSE PartsAt(text, cuts)[k]]
  BY DEF Parts, C
<1> HIDE DEF cuts, list
<1>4. AreEnds(e, n, text, cuts)
  BY <1>1, <1>2, CutsGiveEnds
<1> HIDE DEF n
<1>5. ArePieces(PartsAt(text, cuts), e, n, text)
  BY <1>1, <1>2, <1>4, PartsLieBetween
<1> HIDE DEF e
<1>6. /\ n \in Nat \ {0}
      /\ \A k \in 1..n : e[k] \in 1..Len(text) /\ Before(e, k) \in 0..(e[k] - 1)
      /\ \A i \in 1..Len(text) : \E k \in 1..n : i \in (Before(e, k) + 1)..e[k]
  BY <1>4 DEF AreEnds
<1>7. DOMAIN list = 1..n
  BY <1>3, <1>5 DEF ArePieces
<1>8. ASSUME NEW k \in 1..n
      PROVE  /\ list[k] \in Seq(Words)
             /\ \/ /\ e[k] \in C
                   /\ list[k] = SubSeq(text, Before(e, k) + 1, e[k] - 1)
                   /\ Len(list[k]) = e[k] - 1 - Before(e, k)
                \/ /\ e[k] \notin C
                   /\ list[k] = SubSeq(text, Before(e, k) + 1, e[k])
                   /\ Len(list[k]) = e[k] - Before(e, k)
  <2>1. PICK b : b = e[k]
    OBVIOUS
  <2>2. PICK f : f = Before(e, k)
    OBVIOUS
  <2>3. b \in 1..Len(text) /\ f \in 0..(b - 1)
    BY <1>6, <2>1, <2>2
  <2>4. /\ IsStretch(SubSeq(text, f + 1, b), text, f, b)
        /\ IsStretch(SubSeq(text, f + 1, b - 1), text, f, b - 1)
        /\ Front(SubSeq(text, f + 1, b)) = SubSeq(text, f + 1, b - 1)
    BY <1>1, <2>3, Stretches
  <2>5. PartsAt(text, cuts)[k] = SubSeq(text, f + 1, b)
    BY <1>5, <2>1, <2>2 DEF ArePieces
  <2>6. list[k] = IF b \in C THEN SubSeq(text, f + 1, b - 1) ELSE SubSeq(text, f + 1, b)
    BY <1>3, <1>7, <2>1, <2>4, <2>5
  <2> QED BY <2>1, <2>2, <2>4, <2>6 DEF IsStretch
<1>9. PICK from : from = [k \in DOMAIN list |-> Before(e, k)]
  OBVIOUS
<1>10. PICK end : end = [k \in DOMAIN list |-> from[k] + Len(list[k])]
  OBVIOUS
<1>11. ASSUME NEW k \in 1..n
       PROVE  /\ from[k] = Before(e, k) /\ from[k] \in 0..Len(text)
              /\ end[k] = IF e[k] \in C THEN e[k] - 1 ELSE e[k]
              /\ list[k] = SubSeq(text, from[k] + 1, end[k])
  <2>1. from[k] = Before(e, k) /\ end[k] = Before(e, k) + Len(list[k])
    BY <1>7, <1>9, <1>10
  <2>2. e[k] \in 1..Len(text) /\ Before(e, k) \in 0..(e[k] - 1)
    BY <1>6
  <2>3. end[k] = IF e[k] \in C THEN e[k] - 1 ELSE e[k]
    BY <1>8, <2>1, <2>2
  <2>4. list[k] = SubSeq(text, from[k] + 1, end[k])
    BY <1>8, <2>1, <2>3
  <2>5. from[k] \in 0..Len(text)
    BY <1>1, <2>1, <2>2
  <2> QED BY <2>1, <2>3, <2>4, <2>5
<1>12. from \in [DOMAIN list -> 0..Len(text)]
  BY <1>7, <1>9, <1>11
<1>13. \A k \in DOMAIN list :
           end[k] <= Len(text) /\ list[k] = SubSeq(text, from[k] + 1, end[k])
  <2> SUFFICES ASSUME NEW k \in 1..n
               PROVE  end[k] <= Len(text) /\ list[k] = SubSeq(text, from[k] + 1, end[k])
    BY <1>7
  <2>1. e[k] \in 1..Len(text) /\ end[k] = IF e[k] \in C THEN e[k] - 1 ELSE e[k]
    BY <1>6, <1>11
  <2>2. end[k] <= Len(text)
    BY <1>1, <2>1
  <2> QED BY <1>11, <2>2
<1>14. ASSUME NEW k \in DOMAIN list \ {1} PROVE end[k - 1] <= from[k]
  <2>1. k \in 1..n /\ k - 1 \in 1..n /\ k # 1
    BY <1>6, <1>7
  <2>2. from[k] = e[k - 1]
    BY <1>11, <2>1 DEF Before
  <2>3. e[k - 1] \in Nat /\ end[k - 1] = IF e[k - 1] \in C THEN e[k - 1] - 1 ELSE e[k - 1]
    BY <1>6, <1>11, <2>1
  <2> QED BY <2>2, <2>3
<1>15. ASSUME NEW i \in DOMAIN text, IsContent(text[i])
       PROVE  \E k \in DOMAIN list : i \in (from[k] + 1)..end[k]
  <2>1. PICK k \in 1..n : i \in (Before(e, k) + 1)..e[k]
    BY <1>1, <1>6
  <2>2. e[k] \in C => i # e[k]
    BY <1>1, <1>15 DEF IsContent
  <2>3. /\ from[k] = Before(e, k)
        /\ end[k] = IF e[k] \in C THEN e[k] - 1 ELSE e[k]
        /\ e[k] \in Nat /\ Before(e, k) \in Nat
    BY <1>6, <1>11
  <2>4. i \in (from[k] + 1)..end[k]
    BY <2>1, <2>2, <2>3
  <2> QED BY <1>7, <2>4
<1>16. CoverTheContent(list, text)
  BY <1>10, <1>12, <1>13, <1>14, <1>15 DEF CoverTheContent
<1>17. list \in Seq(Seq(Words))
  <2>1. list = [k \in 1..n |-> list[k]]
    BY <1>3, <1>7
  <2>2. list \in [1..n -> Seq(Words)]
    BY <1>8, <2>1
  <2> QED BY <1>6, <2>2
<1> QED
  BY <1>16, <1>17 DEF list

(* The invariant behind both: a question is one that was asked, and what   *)
(* is sent was made from it.                                               *)
QuestionInvariant ==
    question \in Questions /\ FocusKeepsTheQuestion /\ PartsKeepTheContent

LEMMA QuestionStarts == QuestionInit => QuestionInvariant
BY DEF QuestionInit, QuestionInvariant, FocusKeepsTheQuestion, PartsKeepTheContent

LEMMA FocusKeeps == question \in Questions /\ Focus => FocusKeepsTheQuestion'
<1> SUFFICES ASSUME question \in Questions, Focus PROVE FocusKeepsTheQuestion'
  OBVIOUS
<1>1. question' = question
  BY DEF Focus
<1>2. PICK text : text = question
  OBVIOUS
<1>3. IsQuestionText(text) /\ Len(text) \in Nat \ {0}
  BY <1>2, QuestionsAreTexts
<1>4. CASE IsFactPattern(question)
  <2>1. PICK kept : kept = FinalQuestion(text)
    OBVIOUS
  <2>2. PICK dropped : dropped = SubSeq(text, 1, Len(text) - Len(kept))
    OBVIOUS
  <2>3. queries' = <<kept>> /\ queries'[1] = kept /\ route' = "focused"
    BY <1>2, <1>4, <2>1 DEF Focus
  <2>4. /\ text = dropped \o kept
        /\ Marks(dropped) = {}
        /\ Last(dropped) \in {"stop", "citation"}
        /\ \A i \in DOMAIN kept : kept[i] # "stop"
        /\ Len(text) >= FocusWords /\ Len(kept) >= SentenceWords
    BY <1>2, <1>4, <2>1, <2>2, FactPatternIsFocused
  <2> QED BY <1>1, <1>2, <2>2, <2>3, <2>4 DEF FocusKeepsTheQuestion
<1>5. CASE ~IsFactPattern(question)
  <2>1. queries'[1] = text /\ route' = "original"
    BY <1>2, <1>5 DEF Focus
  <2>2. SubSeq(text, 1, Len(text) - Len(text)) = <<>>
    <3>1. 1 \in Int /\ Len(text) - Len(text) \in Int /\ Len(text) - Len(text) < 1
      BY <1>3
    <3> QED BY <3>1, SubSeqEmpty
  <2>3. <<>> \o text = text
    BY <1>3, ConcatEmptySeq DEF IsQuestionText
  <2>4. Marks(<<>>) = {}
    BY DEF Marks
  <2> QED BY <1>1, <1>2, <2>1, <2>2, <2>3, <2>4 DEF FocusKeepsTheQuestion
<1> QED
  BY <1>4, <1>5

LEMMA RouteKeeps == question \in Questions /\ Route => PartsKeepTheContent'
<1> SUFFICES ASSUME question \in Questions, Route PROVE PartsKeepTheContent'
  OBVIOUS
<1>1. question' = question
  BY DEF Route
<1>2. CoverTheContent(<<question>>, question) /\ Len(<<question>>) = 1
  BY TheWholeIsCovered
<1>3. CASE queries' = <<question>> /\ route' # "multi_part_question"
  <2>1. Len(queries') \in 1..3 /\ CoverTheContent(queries', question')
    BY <1>1, <1>2, <1>3
  <2> QED BY <1>3, <2>1 DEF PartsKeepTheContent
<1>4. CASE queries' = Parts(question) /\ IsMultiPart(question)
  <2>1. CoverTheContent(queries', question')
    BY <1>1, <1>4, ThePartsCover
  <2>2. Len(queries') \in 1..3
    BY <1>4 DEF IsMultiPart
  <2>3. \A k \in DOMAIN queries' : Len(queries'[k]) >= PartWords
    BY <1>4 DEF IsMultiPart
  <2> QED BY <2>1, <2>2, <2>3 DEF PartsKeepTheContent
<1> QED
  BY <1>3, <1>4 DEF Route

LEMMA QuestionSteps ==
    QuestionInvariant /\ [QuestionNext]_questionVars => QuestionInvariant'
<1> SUFFICES ASSUME QuestionInvariant, [QuestionNext]_questionVars
             PROVE  QuestionInvariant'
  OBVIOUS
<1>1. question' \in Questions
  BY DEF QuestionInvariant, QuestionNext, Focus, Route, questionVars
<1>2. CASE Focus
  <2>1. PartsKeepTheContent'
    BY <1>2 DEF Focus, PartsKeepTheContent
  <2> QED BY <1>1, <1>2, <2>1, FocusKeeps DEF QuestionInvariant
<1>3. CASE Route
  <2>1. FocusKeepsTheQuestion'
    BY <1>3 DEF Route, FocusKeepsTheQuestion
  <2> QED BY <1>1, <1>3, <2>1, RouteKeeps DEF QuestionInvariant
<1>4. CASE UNCHANGED questionVars
  BY <1>1, <1>4 DEF QuestionInvariant, questionVars, FocusKeepsTheQuestion, PartsKeepTheContent
<1> QED
  BY <1>2, <1>3, <1>4 DEF QuestionNext

LEMMA QuestionsAreKept == QuestionSpec => []QuestionInvariant
BY QuestionStarts, QuestionSteps, PTL DEF QuestionSpec

(* Whatever the question and the limits: what is searched for instead of a *)
(* fact pattern is its end, behind a sentence, with the one question mark  *)
(* and nothing of the facts dropped from behind it.                        *)
THEOREM QuestionIsKept == QuestionSpec => []FocusKeepsTheQuestion
<1>1. QuestionInvariant => FocusKeepsTheQuestion
  BY DEF QuestionInvariant
<1> QED
  BY <1>1, QuestionsAreKept, PTL

(* Whatever the question: at most three queries, stretches of the question *)
(* one behind the other, outside of which there is no word but "and".      *)
THEOREM ContentIsKept == QuestionSpec => []PartsKeepTheContent
<1>1. QuestionInvariant => PartsKeepTheContent
  BY DEF QuestionInvariant
<1> QED
  BY <1>1, QuestionsAreKept, PTL

------------------------------------------------------------------------------
(* ExactReferences                                                         *)

(* What a text with a dash at its end is, character by character.          *)
LEMMA WithDash ==
    ASSUME NEW s, IsText(s)
    PROVE  /\ Len(s) \in Nat
           /\ s \o Dash \in Seq(Symbols)
           /\ Len(s \o Dash) = Len(s) + 1
           /\ \A i \in 1..Len(s) : (s \o Dash)[i] = s[i]
           /\ (s \o Dash)[Len(s) + 1] = "-"
<1>1. s \in Seq(Symbols) /\ "-" \in Symbols
  BY PassageAssumption DEF IsText
<1>2. s \o Dash = Append(s, "-")
  BY <1>1, AppendIsConcat DEF Dash
<1> QED
  BY <1>1, <1>2, AppendProperties, LenProperties

LEMMA PassageIdText ==
    ASSUME NEW s, IsText(s), NEW c, IsText(c)
    PROVE  /\ s \o Dash \o c \in Seq(Symbols)
           /\ Len(c) \in Nat
           /\ Len(s \o Dash \o c) = Len(s) + 1 + Len(c)
           /\ \A i \in 1..Len(s) : (s \o Dash \o c)[i] = s[i]
           /\ (s \o Dash \o c)[Len(s) + 1] = "-"
<1>1. c \in Seq(Symbols) /\ Len(c) \in Nat
  BY DEF IsText
<1> DEFINE d == s \o Dash
<1>2. /\ Len(s) \in Nat
      /\ d \in Seq(Symbols)
      /\ Len(d) = Len(s) + 1
      /\ \A i \in 1..Len(s) : d[i] = s[i]
      /\ d[Len(s) + 1] = "-"
  BY WithDash
<1> HIDE DEF d
<1>3. /\ d \o c \in Seq(Symbols)
      /\ Len(d \o c) = Len(s) + 1 + Len(c)
      /\ \A i \in 1..Len(d) : (d \o c)[i] = d[i]
  BY <1>1, <1>2
<1>4. \A i \in 1..(Len(s) + 1) : (d \o c)[i] = d[i]
  BY <1>2, <1>3
<1> QED
  BY <1>1, <1>2, <1>3, <1>4 DEF d

(* A prefix agrees in every place.                                         *)
LEMMA PrefixAgrees ==
    ASSUME NEW s \in Seq(Symbols), NEW t \in Seq(Symbols)
    PROVE  IsPrefix(s, t) <=> Len(s) <= Len(t) /\ \A i \in 1..Len(s) : s[i] = t[i]
<1>1. Len(s) \in Nat /\ Len(t) \in Nat
  OBVIOUS
<1>2. SubSeq(s, 1, Len(s)) = s
  OBVIOUS
<1>3. ASSUME Len(s) <= Len(t)
      PROVE  /\ SubSeq(t, 1, Len(s)) \in Seq(Symbols)
             /\ Len(SubSeq(t, 1, Len(s))) = Len(s)
             /\ \A i \in 1..Len(s) : SubSeq(t, 1, Len(s))[i] = t[i]
  BY <1>1, <1>3
<1>4. CASE Len(s) <= Len(t)
  <2> DEFINE u == SubSeq(t, 1, Len(s))
  <2>1. /\ u \in Seq(Symbols)
        /\ Len(u) = Len(s)
        /\ \A i \in 1..Len(s) : u[i] = t[i]
    BY <1>3, <1>4
  <2>2. IsPrefix(s, t) <=> s = u
    BY <1>2, <1>4 DEF IsPrefix
  <2> HIDE DEF u
  <2>3. (s = u) <=> \A i \in 1..Len(s) : s[i] = u[i]
    BY <2>1, SeqEqual
  <2> QED BY <1>4, <2>1, <2>2, <2>3
<1>5. CASE ~(Len(s) <= Len(t))
  BY <1>5 DEF IsPrefix
<1> QED
  BY <1>4, <1>5

(* The dash is what keeps 1.1 from matching 1.10 and 1.1.1: the passages   *)
(* that a section matches are its own.                                     *)
LEMMA MatchesItsOwn ==
    ASSUME NEW s, IsText(s), IsDashless(s), NEW c, IsText(c),
           NEW r, IsText(r), IsDashless(r)
    PROVE  /\ Matches(r, s \o Dash \o c) <=> r = s
           /\ Matches(r, s) <=> r = s
<1> DEFINE id == s \o Dash \o c
           d == r \o Dash
           m == Len(r)
           n == Len(s)
<1>1. /\ r \in Seq(Symbols) /\ m \in Nat
      /\ s \in Seq(Symbols) /\ n \in Nat
      /\ \A i \in 1..m : r[i] # "-"
      /\ \A i \in 1..n : s[i] # "-"
  BY DEF IsText, IsDashless
<1>2. /\ d \in Seq(Symbols)
      /\ Len(d) = m + 1
      /\ \A i \in 1..m : d[i] = r[i]
      /\ d[m + 1] = "-"
  BY WithDash
<1>3. /\ id \in Seq(Symbols)
      /\ Len(c) \in Nat
      /\ Len(id) = n + 1 + Len(c)
      /\ \A i \in 1..n : id[i] = s[i]
      /\ id[n + 1] = "-"
  BY PassageIdText
<1> HIDE DEF id, d, m, n
<1>4. IsPrefix(d, id) <=> m + 1 <= Len(id) /\ \A i \in 1..(m + 1) : d[i] = id[i]
  BY <1>2, <1>3, PrefixAgrees
<1>5. IsPrefix(d, s) <=> m + 1 <= n /\ \A i \in 1..(m + 1) : d[i] = s[i]
  BY <1>1, <1>2, PrefixAgrees DEF n
<1>6. id # r
  <2> SUFFICES ASSUME id = r PROVE FALSE
    OBVIOUS
  <2>1. n + 1 \in 1..m
    BY <1>1, <1>3 DEF m
  <2> QED BY <1>1, <1>3, <2>1
<1>7. ~IsPrefix(d, s)
  <2> SUFFICES ASSUME m + 1 <= n, \A i \in 1..(m + 1) : d[i] = s[i] PROVE FALSE
    BY <1>5
  <2>1. m + 1 \in 1..n /\ m + 1 \in 1..(m + 1)
    BY <1>1
  <2> QED BY <1>1, <1>2, <2>1
<1>8. ASSUME IsPrefix(d, id) PROVE r = s
  <2>1. \A i \in 1..(m + 1) : d[i] = id[i]
    BY <1>4, <1>8
  <2>2. ~(m < n)
    <3> SUFFICES ASSUME m < n PROVE FALSE
      OBVIOUS
    <3>1. m + 1 \in 1..n /\ m + 1 \in 1..(m + 1)
      BY <1>1
    <3> QED BY <1>1, <1>2, <1>3, <2>1, <3>1
  <2>3. ~(n < m)
    <3> SUFFICES ASSUME n < m PROVE FALSE
      OBVIOUS
    <3>1. n + 1 \in 1..m /\ n + 1 \in 1..(m + 1)
      BY <1>1
    <3> QED BY <1>1, <1>2, <1>3, <2>1, <3>1
  <2>4. m = n
    BY <1>1, <2>2, <2>3
  <2>5. ASSUME NEW i \in 1..m PROVE r[i] = s[i]
    <3>1. i \in 1..n /\ i \in 1..(m + 1)
      BY <1>1, <2>4
    <3> QED BY <1>2, <1>3, <2>1, <3>1
  <2> QED BY <1>1, <2>4, <2>5, SeqEqual DEF m, n
<1>9. ASSUME r = s PROVE IsPrefix(d, id)
  <2>1. m = n
    BY <1>9 DEF m, n
  <2>2. ASSUME NEW i \in 1..(m + 1) PROVE d[i] = id[i]
    <3>1. CASE i = m + 1
      BY <1>2, <1>3, <2>1, <3>1
    <3>2. CASE i \in 1..m
      BY <1>2, <1>3, <1>9, <2>1, <3>2
    <3> QED BY <1>1, <3>1, <3>2
  <2>3. m + 1 <= Len(id)
    BY <1>1, <1>3, <2>1
  <2> QED BY <1>4, <2>2, <2>3
<1> QED
  BY <1>6, <1>7, <1>8, <1>9 DEF Matches, id, d

(* The resolver answers with the passages of exactly the section.          *)
LEMMA ResolvedIsExact ==
    ASSUME corpus \in Corpora, NEW r, IsText(r), IsDashless(r), r # Unsupported
    PROVE  Resolved(r) = Ids({p \in corpus : p.section = r})
<1>1. ASSUME NEW p \in corpus
      PROVE  Matches(r, PassageId(p)) <=> p.section = r
  <2>1. IsText(p.section) /\ IsDashless(p.section) /\ IsText(p.chunk)
    BY PassageAssumption
  <2>2. /\ Matches(r, p.section \o Dash \o p.chunk) <=> r = p.section
        /\ Matches(r, p.section) <=> r = p.section
    BY <2>1, MatchesItsOwn
  <2> QED BY <2>2 DEF PassageId
<1>2. Resolved(r) = {id \in Ids(corpus) : Matches(r, id)}
  BY DEF Resolved
<1> QED
  BY <1>1, <1>2 DEF Ids

(* The invariant behind it: the script exits with 0 only when every case   *)
(* passed against the passages it loaded.                                  *)
SuiteInvariant ==
    /\ corpus \in Corpora
    /\ suite \in Suites
    /\ exit = 0 => \A i \in DOMAIN suite : Passed(suite[i])

LEMMA PassedSuiteIsExact == SuiteInvariant => AcceptedSuiteIsExact
<1> SUFFICES ASSUME SuiteInvariant, exit = 0, NEW i \in DOMAIN suite
             PROVE  suite[i].ids =
                        IF suite[i].reference = Unsupported THEN {}
                        ELSE Ids({p \in corpus : p.section = suite[i].reference})
  BY DEF AcceptedSuiteIsExact
<1>1. corpus \in Corpora /\ suite \in Suites /\ Resolved(suite[i].reference) = suite[i].ids
  BY DEF SuiteInvariant, Passed
<1>2. CASE suite[i].reference = Unsupported
  BY <1>1, <1>2 DEF Resolved
<1>3. CASE suite[i].reference # Unsupported
  <2>1. IsText(suite[i].reference) /\ IsDashless(suite[i].reference)
    BY <1>1, <1>3, PassageAssumption
  <2>2. Resolved(suite[i].reference) = Ids({p \in corpus : p.section = suite[i].reference})
    BY <1>1, <1>3, <2>1, ResolvedIsExact
  <2> QED BY <1>1, <1>3, <2>2
<1> QED
  BY <1>2, <1>3

LEMMA SuiteStarts == SuiteInit => SuiteInvariant
BY DEF SuiteInit, SuiteInvariant

LEMMA SuiteSteps == SuiteInvariant /\ [SuiteNext]_suiteVars => SuiteInvariant'
<1> SUFFICES ASSUME SuiteInvariant, [SuiteNext]_suiteVars
             PROVE  SuiteInvariant'
  OBVIOUS
<1>1. corpus' = corpus /\ suite' = suite
  BY DEF SuiteNext, EvaluateSuite, suiteVars
<1>2. \A i \in DOMAIN suite : Passed(suite[i])' <=> Passed(suite[i])
  BY <1>1 DEF Passed, Status, Resolved, Ids
<1>3. exit' = 0 => \A i \in DOMAIN suite : Passed(suite[i])
  BY DEF SuiteNext, EvaluateSuite, suiteVars, SuiteInvariant
<1> QED
  BY <1>1, <1>2, <1>3 DEF SuiteInvariant

(* Whatever corpus and suite: a suite that is accepted has, for every      *)
(* supported reference, the identifiers of exactly the passages of that    *)
(* section, no child section and no section with the same beginning.       *)
THEOREM AcceptedIsExact == SuiteSpec => []AcceptedSuiteIsExact
<1>1. SuiteSpec => []SuiteInvariant
  BY SuiteStarts, SuiteSteps, PTL DEF SuiteSpec
<1> QED
  BY <1>1, PassedSuiteIsExact, PTL

------------------------------------------------------------------------------
(* RetrievalScoring                                                        *)

(* Comparing the number of distinct questions with the length of the list  *)
(* finds every duplicate.                                                  *)
LEMMA QuestionsAreDistinct ==
    ASSUME NEW list, IsList(list), ~HasDuplicates(list)
    PROVE  /\ Len(list) \in Nat
           /\ DOMAIN list = 1..Len(list)
           /\ Cardinality(QuestionsOf(list)) = Len(list)
           /\ \A i, j \in 1..Len(list) : list[i].question = list[j].question => i = j
<1> DEFINE n == Len(list)
           ask == [i \in 1..n |-> list[i].question]
<1>1. n \in Nat /\ DOMAIN list = 1..n
  BY DEF IsList
<1>2. Cardinality(QuestionsOf(list)) = n
  BY DEF HasDuplicates
<1> HIDE DEF n
<1>3. IsFiniteSet(1..n) /\ Cardinality(1..n) = n
  BY <1>1, FS_Interval
<1>4. ask \in Surjection(1..n, QuestionsOf(list))
  <2>1. \A i \in 1..n : ask[i] \in QuestionsOf(list)
    BY <1>1 DEF QuestionsOf
  <2>2. \A q \in QuestionsOf(list) : \E i \in 1..n : ask[i] = q
    BY <1>1 DEF QuestionsOf
  <2>3. ask \in [1..n -> QuestionsOf(list)]
    BY <2>1
  <2> HIDE DEF ask
  <2> QED BY <2>2, <2>3 DEF Surjection
<1>5. ask \in Injection(1..n, QuestionsOf(list))
  <2> HIDE DEF ask
  <2> QED BY <1>2, <1>3, <1>4, FS_SurjSameCardinalityImpliesInj
<1>6. ASSUME NEW i \in 1..n, NEW j \in 1..n, list[i].question = list[j].question
      PROVE  i = j
  <2>1. ask[i] = ask[j]
    BY <1>6
  <2> HIDE DEF ask
  <2>2. DOMAIN ask = 1..n
    BY <1>5 DEF Injection
  <2> QED BY <1>5, <2>1, <2>2 DEF Injection, IsInjective
<1> QED
  BY <1>1, <1>2, <1>6 DEF n

------------------------------------------------------------------------------
(* math.ceil of the quotient, and what it says of the place it names       *)
LEMMA NearestPlace ==
    ASSUME NEW n \in Nat, NEW share \in Nat, 1 <= share, share <= 100 * n
    PROVE  /\ (share + 99) \div 100 \in 1..n
           /\ 100 * ((share + 99) \div 100) >= share
           /\ 100 * ((share + 99) \div 100 - 1) < share
OBVIOUS

AtMost(latency, n, v) == {i \in 1..n : latency[i] <= v}

(* The value in that place of the sorted latencies: enough of them do not  *)
(* exceed it, and of a smaller value too few.                              *)
IsNearestRank(latency, n, share, x) ==
    /\ x \in 1..n
    /\ 100 * Cardinality(AtMost(latency, n, latency[x])) >= share
    /\ \A v \in Nat : v < latency[x] => 100 * Cardinality(AtMost(latency, n, v)) < share

LEMMA NearestRankOfSorted ==
    ASSUME NEW n \in Nat, NEW latency, latency \in [1..n -> Nat],
           NEW before,
           \A i, j \in 1..n : <<i, j>> \in before <=>
               (latency[i] < latency[j] \/ (latency[i] = latency[j] /\ i < j)),
           NEW share \in Nat, 1 <= share, share <= 100 * n
    PROVE  /\ Ordered(1..n, before) \in [1..n -> 1..n]
           /\ IsNearestRank(latency, n, share, Ordered(1..n, before)[(share + 99) \div 100])
<1> DEFINE m == (share + 99) \div 100
           s == Ordered(1..n, before)
           x == s[m]
           first == Predecessors(1..n, before, x)
<1>1. m \in 1..n /\ 100 * m >= share /\ 100 * (m - 1) < share
  BY NearestPlace
<1> HIDE DEF m
<1>2. IsFiniteSet(1..n) /\ Cardinality(1..n) = n
  BY FS_Interval
<1>3. StrictOrder(1..n, before)
  BY DEF StrictOrder
<1>4. /\ s \in [1..n -> 1..n]
      /\ \A k \in 1..n : Cardinality(Predecessors(1..n, before, s[k])) = k - 1
  BY <1>2, <1>3, OrderedIsSorted
<1> HIDE DEF s
<1>5. x \in 1..n /\ Cardinality(first) = m - 1
  BY <1>1, <1>4
<1> HIDE DEF x
<1>6. IsFiniteSet(first) /\ first \subseteq 1..n /\ x \notin first
  BY <1>2, <1>3, <1>5, FS_Subset DEF Predecessors, StrictOrder
<1>7. latency[x] \in Nat /\ \A i \in 1..n : latency[i] \in Nat
  BY <1>5
<1>8. 100 * Cardinality(AtMost(latency, n, latency[x])) >= share
  <2> DEFINE below == AtMost(latency, n, latency[x])
  <2>1. first \cup {x} \subseteq below
    BY <1>5, <1>6, <1>7 DEF AtMost, Predecessors
  <2>2. IsFiniteSet(below) /\ Cardinality(below) \in Nat
    BY <1>2, FS_Subset, FS_CardinalityType DEF AtMost
  <2> HIDE DEF below, first
  <2>3. IsFiniteSet(first \cup {x}) /\ Cardinality(first \cup {x}) = Cardinality(first) + 1
    BY <1>6, FS_AddElement
  <2>4. Cardinality(first \cup {x}) <= Cardinality(below)
    BY <2>1, <2>2, FS_Subset
  <2>5. m <= Cardinality(below)
    BY <1>1, <1>5, <2>2, <2>3, <2>4
  <2> QED BY <1>1, <2>2, <2>5 DEF below
<1>9. ASSUME NEW v \in Nat, v < latency[x]
      PROVE  100 * Cardinality(AtMost(latency, n, v)) < share
  <2> DEFINE below == AtMost(latency, n, v)
  <2>1. below \subseteq first
    BY <1>5, <1>7, <1>9 DEF AtMost, Predecessors
  <2> HIDE DEF below, first
  <2>2. IsFiniteSet(below) /\ Cardinality(below) <= Cardinality(first)
    BY <1>6, <2>1, FS_Subset
  <2>3. Cardinality(below) \in Nat /\ Cardinality(below) <= m - 1
    BY <1>5, <2>2, FS_CardinalityType
  <2> QED BY <1>1, <2>3 DEF below
<1> QED
  BY <1>4, <1>5, <1>8, <1>9 DEF IsNearestRank, x, m, s

------------------------------------------------------------------------------
(* Every case has its own ranking and every ranking a case.                *)

PlaceOf(i) == CHOOSE j \in DOMAIN rankings : rankings[j].question = cases[i].question

Chosen == cases \in CaseLists /\ rankings \in RankingLists

ArePaired ==
    /\ Len(cases) \in Nat \ {0}
    /\ DOMAIN cases = 1..Len(cases)
    /\ DOMAIN rankings = 1..Len(cases)
    /\ Len(rankings) = Len(cases)
    /\ \A i \in 1..Len(cases) :
          /\ PlaceOf(i) \in 1..Len(cases)
          /\ rankings[PlaceOf(i)].question = cases[i].question
          /\ RankingOf(i) = rankings[PlaceOf(i)]
          /\ rankings[PlaceOf(i)].latency \in Nat
    /\ \A h, j \in 1..Len(cases) : rankings[h].question = rankings[j].question => h = j
    /\ \A i, j \in 1..Len(cases) : PlaceOf(i) = PlaceOf(j) => i = j
    /\ \A j \in 1..Len(cases) : \E i \in 1..Len(cases) : PlaceOf(i) = j

LEMMA CasesArePaired ==
    ASSUME Chosen, Joinable PROVE ArePaired
<1> DEFINE n == Len(cases)
<1>1. /\ IsList(cases) /\ cases # <<>> /\ IsList(rankings)
      /\ \A j \in DOMAIN rankings : rankings[j].latency \in Nat
  BY ScoringAssumption DEF Chosen
<1>2. /\ n \in Nat
      /\ DOMAIN cases = 1..n
      /\ Cardinality(QuestionsOf(cases)) = n
      /\ \A i, j \in 1..n : cases[i].question = cases[j].question => i = j
  BY <1>1, QuestionsAreDistinct DEF Joinable
<1>3. /\ DOMAIN rankings = 1..Len(rankings)
      /\ Cardinality(QuestionsOf(rankings)) = Len(rankings)
      /\ \A i, j \in 1..Len(rankings) : rankings[i].question = rankings[j].question => i = j
  BY <1>1, QuestionsAreDistinct DEF Joinable
<1>4. QuestionsOf(cases) = QuestionsOf(rankings)
  BY DEF Joinable
<1>5. Len(rankings) = n
  BY <1>2, <1>3, <1>4
<1>6. n # 0
  <2>1. cases \in Seq(ToSet(cases))
    BY <1>1 DEF IsList
  <2> QED BY <1>1, <2>1, EmptySeq
<1> HIDE DEF n
<1>7. ASSUME NEW i \in 1..n
      PROVE  /\ PlaceOf(i) \in 1..n
             /\ rankings[PlaceOf(i)].question = cases[i].question
             /\ RankingOf(i) = rankings[PlaceOf(i)]
             /\ rankings[PlaceOf(i)].latency \in Nat
  <2>1. cases[i].question \in QuestionsOf(rankings)
    BY <1>2, <1>4 DEF QuestionsOf
  <2>2. \E j \in DOMAIN rankings : rankings[j].question = cases[i].question
    BY <2>1 DEF QuestionsOf
  <2>3. /\ PlaceOf(i) \in DOMAIN rankings
        /\ rankings[PlaceOf(i)].question = cases[i].question
    BY <2>2 DEF PlaceOf
  <2> QED BY <1>1, <1>3, <1>5, <2>3 DEF RankingOf, PlaceOf
<1>8. ASSUME NEW i \in 1..n, NEW j \in 1..n, PlaceOf(i) = PlaceOf(j) PROVE i = j
  <2>1. rankings[PlaceOf(i)].question = cases[i].question
    BY <1>7
  <2>2. rankings[PlaceOf(j)].question = cases[j].question
    BY <1>7
  <2>3. cases[i].question = cases[j].question
    BY <1>8, <2>1, <2>2
  <2> QED BY <1>2, <2>3
<1>9. ASSUME NEW j \in 1..n PROVE \E i \in 1..n : PlaceOf(i) = j
  <2>1. rankings[j].question \in QuestionsOf(cases)
    BY <1>3, <1>4, <1>5 DEF QuestionsOf
  <2>2. PICK i \in 1..n : cases[i].question = rankings[j].question
    BY <1>2, <2>1 DEF QuestionsOf
  <2> QED BY <1>3, <1>5, <1>7, <2>2
<1> QED
  BY <1>2, <1>3, <1>5, <1>6, <1>7, <1>8, <1>9 DEF ArePaired, n

LEMMA CasesHaveTheLatencies ==
    ASSUME ArePaired, NEW v \in Nat,
           NEW latency, latency = [i \in 1..Len(cases) |-> Latency(i)]
    PROVE  Cardinality({j \in DOMAIN rankings : rankings[j].latency <= v})
             = Cardinality(AtMost(latency, Len(cases), v))
<1> DEFINE A == AtMost(latency, Len(cases), v)
           B == {j \in DOMAIN rankings : rankings[j].latency <= v}
           place == [i \in A |-> PlaceOf(i)]
<1>1. IsFiniteSet(A)
  <2>1. IsFiniteSet(1..Len(cases))
    BY FS_Interval DEF ArePaired
  <2> QED BY <2>1, FS_Subset DEF AtMost
<1>2. \A i \in 1..Len(cases) : latency[i] = rankings[PlaceOf(i)].latency
  BY DEF ArePaired, Latency
<1>3. \A i \in A : i \in 1..Len(cases) /\ PlaceOf(i) \in B
  BY <1>2 DEF ArePaired, AtMost
<1>4. ASSUME NEW i \in A, NEW j \in A, place[i] = place[j] PROVE i = j
  <2>1. PlaceOf(i) = PlaceOf(j)
    BY <1>4
  <2> QED BY <1>3, <2>1 DEF ArePaired
<1>5. ASSUME NEW j \in B PROVE \E i \in A : place[i] = j
  <2>1. j \in 1..Len(cases) /\ rankings[j].latency <= v
    BY DEF ArePaired
  <2>2. PICK i \in 1..Len(cases) : PlaceOf(i) = j
    BY <2>1 DEF ArePaired
  <2>3. i \in A
    BY <1>2, <2>1, <2>2 DEF AtMost
  <2> QED BY <2>2, <2>3
<1>6. place \in [A -> B] /\ DOMAIN place = A
  BY <1>3
<1> HIDE DEF A, B, place
<1>7. place \in Injection(A, B)
  BY <1>4, <1>6 DEF Injection, IsInjective
<1>8. place \in Surjection(A, B)
  BY <1>5, <1>6 DEF Surjection
<1>9. ExistsBijection(A, B)
  BY <1>7, <1>8 DEF ExistsBijection, Bijection
<1> QED
  BY <1>1, <1>9, FS_Bijection DEF A, B

LEMMA Shares ==
    ASSUME NEW n \in Nat \ {0}, NEW percent \in 1..100
    PROVE  percent * n \in Nat /\ 1 <= percent * n /\ percent * n <= 100 * n
OBVIOUS

LEMMA PercentilesAreNearest ==
    ASSUME ArePaired, NEW percent \in 1..100
    PROVE  IsPercentile(percent, NearestRank(percent, Latencies))
<1>1. PICK n : n = Len(cases)
  OBVIOUS
<1>2. PICK latency : latency = [i \in 1..n |-> Latency(i)]
  OBVIOUS
<1>3. PICK before : before = ByLatency
  OBVIOUS
<1>4. PICK share : share = percent * n
  OBVIOUS
<1>5. /\ n \in Nat \ {0}
      /\ DOMAIN cases = 1..n /\ DOMAIN rankings = 1..n /\ Len(rankings) = n
      /\ \A i \in 1..n : latency[i] = rankings[PlaceOf(i)].latency
      /\ \A i \in 1..n : PlaceOf(i) \in 1..n
      /\ \A j \in 1..n : \E i \in 1..n : PlaceOf(i) = j
      /\ \A i \in 1..n : Latency(i) = latency[i]
      /\ latency \in [1..n -> Nat]
  BY <1>1, <1>2 DEF ArePaired, Latency
<1>6. share \in Nat /\ 1 <= share /\ share <= 100 * n
  BY <1>4, <1>5, Shares
<1>7. \A i, j \in 1..n : <<i, j>> \in before <=>
          (latency[i] < latency[j] \/ (latency[i] = latency[j] /\ i < j))
  <2> SUFFICES ASSUME NEW i \in 1..n, NEW j \in 1..n
               PROVE  <<i, j>> \in before <=>
                          (latency[i] < latency[j] \/ (latency[i] = latency[j] /\ i < j))
    OBVIOUS
  <2>1. <<i, j>> \in before <=> IsFaster(i, j)
    BY <1>3, <1>5 DEF ByLatency
  <2>2. Latency(i) = latency[i] /\ Latency(j) = latency[j]
    BY <1>5
  <2> QED BY <2>1, <2>2 DEF IsFaster
<1>8. PICK x : x = Ordered(1..n, before)[(share + 99) \div 100]
  OBVIOUS
<1>9. /\ Ordered(1..n, before) \in [1..n -> 1..n]
      /\ IsNearestRank(latency, n, share, x)
  BY <1>5, <1>6, <1>7, <1>8, NearestRankOfSorted
<1>10. NearestRank(percent, Latencies) = latency[x]
  <2>1. Latencies = [k \in 1..n |-> Latency(Ordered(1..n, before)[k])]
    BY <1>3, <1>5, <1>9 DEF Latencies
  <2>2. Len(Latencies) = n
    BY <1>5, <2>1
  <2>3. (share + 99) \div 100 \in 1..n
    BY <1>5, <1>6, NearestPlace
  <2>4. NearestRank(percent, Latencies) = Latencies[(share + 99) \div 100]
    BY <1>4, <2>2 DEF NearestRank
  <2>5. Latencies[(share + 99) \div 100] = Latency(x)
    BY <1>8, <2>1, <2>3
  <2>6. x \in 1..n
    BY <1>9 DEF IsNearestRank
  <2> QED BY <1>5, <2>4, <2>5, <2>6
<1>11. ASSUME NEW v \in Nat
       PROVE  Cardinality({j \in DOMAIN rankings : rankings[j].latency <= v})
                = Cardinality(AtMost(latency, n, v))
  BY <1>1, <1>2, CasesHaveTheLatencies
<1>12. x \in 1..n /\ latency[x] \in Nat
  BY <1>5, <1>9 DEF IsNearestRank
<1>13. latency[x] \in {rankings[j].latency : j \in DOMAIN rankings}
  BY <1>5, <1>12
<1>14. \A v \in {rankings[j].latency : j \in DOMAIN rankings} : v \in Nat
  <2>1. ASSUME NEW j \in DOMAIN rankings PROVE rankings[j].latency \in Nat
    <3>1. PICK i \in 1..n : PlaceOf(i) = j
      BY <1>5
    <3>2. rankings[j].latency = latency[i]
      BY <1>5, <3>1
    <3> QED BY <1>5, <3>2
  <2> QED BY <2>1
<1>15. 100 * Cardinality({j \in DOMAIN rankings : rankings[j].latency <= latency[x]})
         >= percent * Len(rankings)
  BY <1>4, <1>5, <1>9, <1>11, <1>12 DEF IsNearestRank
<1>16. ASSUME NEW v \in {rankings[j].latency : j \in DOMAIN rankings}, v < latency[x]
       PROVE  100 * Cardinality({j \in DOMAIN rankings : rankings[j].latency <= v})
                < percent * Len(rankings)
  BY <1>4, <1>5, <1>9, <1>11, <1>14, <1>16 DEF IsNearestRank
<1> QED
  BY <1>10, <1>13, <1>15, <1>16 DEF IsPercentile

------------------------------------------------------------------------------
(* Ranks                                                                   *)

LEMMA RanksAreOfTheGold ==
    ASSUME NEW list, IsList(list), IsInjective(list), NEW gold
    PROVE  /\ RankIn(list, gold) \in Nat
           /\ RankIn(list, gold) \in {NoRank} \cup DOMAIN list
           /\ \A k \in DOMAIN list : list[k] = gold <=> k = RankIn(list, gold)
<1>1. Len(list) \in Nat /\ DOMAIN list = 1..Len(list)
  BY DEF IsList
<1>2. CASE gold \in ToSet(list)
  <2>1. \E k \in DOMAIN list : list[k] = gold
    BY <1>2 DEF ToSet
  <2>2. RankIn(list, gold) \in DOMAIN list /\ list[RankIn(list, gold)] = gold
    BY <1>2, <2>1 DEF RankIn
  <2> QED BY <1>1, <2>2 DEF IsInjective
<1>3. CASE gold \notin ToSet(list)
  BY <1>1, <1>3 DEF RankIn, ToSet, NoRank
<1> QED
  BY <1>2, <1>3

(* The invariant behind it: the lists are the ones that were given, and    *)
(* what was computed was computed from them.                               *)
ScoringInvariant == Chosen /\ ScoresAreOfTheirCases

LEMMA ScoringStarts == ScoringInit => ScoringInvariant
BY DEF ScoringInit, ScoringInvariant, Chosen, ScoresAreOfTheirCases

LEMMA ScoreIsOfItsCases == Chosen /\ Score => ScoresAreOfTheirCases'
<1> SUFFICES ASSUME Chosen, Score PROVE ScoresAreOfTheirCases'
  OBVIOUS
<1>1. ArePaired
  BY CasesArePaired DEF Score
<1>2. cases' = cases /\ rankings' = rankings
  BY DEF Score
<1>3. /\ ranks' = [i \in DOMAIN cases |-> RankIn(RankingOf(i).passages, cases[i].gold)]
      /\ hits' = [k \in Cutoffs |->
                     Cardinality({i \in DOMAIN cases :
                        Within(RankIn(RankingOf(i).passages, cases[i].gold), k)})]
      /\ p50' = NearestRank(50, Latencies)
      /\ p95' = NearestRank(95, Latencies)
  BY DEF Score
<1>4. Len(ranks') = Len(cases)
  BY <1>1, <1>3 DEF ArePaired
<1>5. \A i \in DOMAIN rankings :
          IsList(rankings[i].passages) /\ IsInjective(rankings[i].passages)
  BY ScoringAssumption DEF Chosen
<1>6. ASSUME NEW i \in DOMAIN cases
      PROVE  /\ ranks'[i] \in Nat
             /\ \E j \in DOMAIN rankings :
                    /\ rankings[j].question = cases[i].question
                    /\ \A h \in DOMAIN rankings \ {j} : rankings[h].question # cases[i].question
                    /\ \A k \in DOMAIN rankings[j].passages :
                          rankings[j].passages[k] = cases[i].gold <=> k = ranks'[i]
                    /\ ranks'[i] \in {NoRank} \cup DOMAIN rankings[j].passages
  <2>1. PICK j : j = PlaceOf(i)
    OBVIOUS
  <2>2. /\ j \in DOMAIN rankings
        /\ rankings[j].question = cases[i].question
        /\ RankingOf(i) = rankings[j]
        /\ \A h \in DOMAIN rankings \ {j} : rankings[h].question # rankings[j].question
    BY <1>1, <2>1 DEF ArePaired
  <2>3. ranks'[i] = RankIn(rankings[j].passages, cases[i].gold)
    BY <1>3, <2>2
  <2>4. PICK list : list = rankings[j].passages
    OBVIOUS
  <2>5. PICK gold : gold = cases[i].gold
    OBVIOUS
  <2>6. /\ RankIn(list, gold) \in Nat
        /\ RankIn(list, gold) \in {NoRank} \cup DOMAIN list
        /\ \A k \in DOMAIN list : list[k] = gold <=> k = RankIn(list, gold)
    BY <1>5, <2>2, <2>4, RanksAreOfTheGold
  <2>7. ranks'[i] = RankIn(list, gold)
    BY <2>3, <2>4, <2>5
  <2> QED BY <2>2, <2>4, <2>5, <2>6, <2>7
<1>7. ASSUME NEW k \in Cutoffs
      PROVE  hits'[k] = Cardinality({i \in DOMAIN cases : ranks'[i] \in 1..k})
  <2>1. k \in Nat
    BY ScoringAssumption
  <2>2. \A i \in DOMAIN cases :
            Within(RankIn(RankingOf(i).passages, cases[i].gold), k) <=> ranks'[i] \in 1..k
    BY <1>3, <1>6, <2>1 DEF Within, NoRank
  <2>3. {i \in DOMAIN cases : Within(RankIn(RankingOf(i).passages, cases[i].gold), k)}
          = {i \in DOMAIN cases : ranks'[i] \in 1..k}
    BY <2>2
  <2> QED BY <1>3, <2>3
<1>13. \A i, h \in DOMAIN cases :
          cases[i].split # "holdout" /\ cases[h].origin = cases[i].origin
  BY DEF Score, Joinable, AreOfOneSplit
<1>8. IsPercentile(50, p50') /\ IsPercentile(95, p95')
  BY <1>1, <1>3, PercentilesAreNearest
<1>9. IsPercentile(50, p50)' /\ IsPercentile(95, p95)'
  BY <1>2, <1>8 DEF IsPercentile
<1>10. \A i \in DOMAIN cases' : \E j \in DOMAIN rankings' :
          /\ rankings'[j].question = cases'[i].question
          /\ \A h \in DOMAIN rankings' \ {j} : rankings'[h].question # cases'[i].question
          /\ \A k \in DOMAIN rankings'[j].passages :
                rankings'[j].passages[k] = cases'[i].gold <=> k = ranks'[i]
          /\ ranks'[i] \in {NoRank} \cup DOMAIN rankings'[j].passages
  BY <1>2, <1>6
<1>11. \A k \in Cutoffs :
          hits'[k] = Cardinality({i \in DOMAIN cases' : ranks'[i] \in 1..k})
  BY <1>2, <1>7
<1>12. Len(ranks') = Len(cases')
  BY <1>2, <1>4
<1> QED
  BY <1>2, <1>9, <1>10, <1>11, <1>12, <1>13 DEF ScoresAreOfTheirCases

LEMMA ScoringSteps ==
    ScoringInvariant /\ [ScoringNext]_scoringVars => ScoringInvariant'
<1> SUFFICES ASSUME ScoringInvariant, [ScoringNext]_scoringVars
             PROVE  ScoringInvariant'
  OBVIOUS
<1>1. Chosen'
  BY DEF ScoringInvariant, Chosen, ScoringNext, Score, Reject, scoringVars
<1>2. CASE Score
  BY <1>1, <1>2, ScoreIsOfItsCases DEF ScoringInvariant
<1>3. CASE Reject
  BY <1>1, <1>3 DEF ScoringInvariant, Reject, ScoresAreOfTheirCases
<1>4. CASE UNCHANGED scoringVars
  BY <1>1, <1>4 DEF ScoringInvariant, scoringVars, ScoresAreOfTheirCases, IsPercentile
<1> QED
  BY <1>2, <1>3, <1>4 DEF ScoringNext

(* Whatever the cases, the rankings and their order: a scored evaluation   *)
(* takes the rank of every case from the one ranking of its own question,  *)
(* counts exactly those ranks, and reports nearest-rank percentiles.       *)
THEOREM ScoresAreTheirs == ScoringSpec => []ScoresAreOfTheirCases
<1>1. ScoringSpec => []ScoringInvariant
  BY ScoringStarts, ScoringSteps, PTL DEF ScoringSpec
<1>2. ScoringInvariant => ScoresAreOfTheirCases
  BY DEF ScoringInvariant
<1> QED
  BY <1>1, <1>2, PTL
==============================================================================
