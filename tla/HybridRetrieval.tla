--------------------------- MODULE HybridRetrieval ---------------------------
(***************************************************************************)
(* One question of `make demo` or of an experiment: BM25 candidates, dense *)
(* candidates or both, their fusion, and the reranking of what is left of  *)
(* them; the demonstration then shows the passages.  The two lists are     *)
(* read one after the other from an index that other scripts may drop and  *)
(* refill in between, so nothing relates their contents: each is any list  *)
(* the server could answer at any time.                                    *)
(*                                                                         *)
(* Passages are numbered in the order of their IDs, alpha is a fraction    *)
(* Alpha/AlphaScale, and scores are compared exactly (the code's floats    *)
(* are not modelled).  A list is a sequence of passages, best first.       *)
(*                                                                         *)
(* pc:  bm25 - dense - fuse - candidates - scoring - returned - shown      *)
(***************************************************************************)
EXTENDS Integers, Sequences, FiniteSets, SequencesExt, Sorting

CONSTANTS
    PassageCount,    \* passages of the snapshot, in the files or in the index
    Known,           \* those of them that the loaded files contain
    AlphaScale,      \* the denominator of alpha
    RankConstant,    \* rank_constant
    CandidateK,      \* candidate_k of the retrieval and of the reranking
    FinalK,          \* top_k of the script, final_k of the reranking
    Scores           \* reranker scores

SourcePassages == 1..PassageCount

ASSUME RetrievalAssumption ==
    /\ PassageCount \in Nat \ {0}
    /\ Known \subseteq SourcePassages
    /\ AlphaScale \in Nat \ {0}
    /\ RankConstant \in Nat \ {0}
    /\ CandidateK \in Nat \ {0}
    /\ FinalK \in 1..CandidateK
    /\ Scores \subseteq Int /\ Scores # {}

VARIABLES
    configuration,    \* mode, alpha, candidate_selection and final_k of the fusion
    bm25, dense,      \* the two candidate lists
    hybrid,           \* the fused list
    scores,           \* the reranker's score of each candidate
    reranked,         \* the reranked passages
    shown,            \* the passages of the rows the demonstration prints
    pc

vars == <<configuration, bm25, dense, hybrid, scores, reranked, shown, pc>>

(* What a query may answer: up to candidate_k passages of the requested    *)
(* snapshot and jurisdiction, without duplicates, in the server's order.   *)
Answers == {list \in SetToAllKPermutations(SourcePassages) : Len(list) <= CandidateK}

(* A baseline without reranking cuts the fusion to its top_k; the          *)
(* demonstration, and every run that reranks, keeps candidate_k of it.     *)
Configurations ==
    {c \in [mode : {"bm25", "dense", "hybrid", "hybrid-rerank"},
            alpha : 0..AlphaScale,
            selection : {"weighted_rrf", "balanced"},
            final_k : {FinalK, CandidateK}] :
        c.mode = "hybrid-rerank" => c.final_k = CandidateK}

RerankedPassage == [passage : SourcePassages, score : Scores, hybrid_rank : 1..CandidateK]

TypeOK ==
    /\ configuration \in Configurations
    /\ {bm25, dense, hybrid} \subseteq Answers
    /\ scores \in Seq(Scores)
    /\ reranked \in Seq(RerankedPassage)
    /\ shown \in Answers
    /\ pc \in {"bm25", "dense", "fuse", "candidates", "scoring", "returned", "shown", "raised"}

Init ==
    /\ configuration \in Configurations
    /\ bm25 = <<>> /\ dense = <<>> /\ hybrid = <<>>
    /\ scores = <<>> /\ reranked = <<>> /\ shown = <<>>
    /\ pc = IF configuration.mode = "dense" THEN "dense" ELSE "bm25"

------------------------------------------------------------------------------
(* Fusion                                                                  *)

Truncated(list, k) == SubSeq(list, 1, IF Len(list) < k THEN Len(list) ELSE k)

Unranked == 0
Rank(list, p) == IF \E i \in DOMAIN list : list[i] = p
                 THEN CHOOSE i \in DOMAIN list : list[i] = p ELSE Unranked

(* weight / (rank_constant + rank), or nothing without a rank.             *)
Share(weight, rank) ==
    IF rank = Unranked THEN [num |-> 0, den |-> 1]
    ELSE [num |-> weight, den |-> RankConstant + rank]

(* Mutant: a passage without a rank is treated like one of rank zero.      *)
FusedScore_missing_is_best(p) ==
    LET b == [num |-> AlphaScale - configuration.alpha, den |-> RankConstant + Rank(bm25, p)]
        d == [num |-> configuration.alpha, den |-> RankConstant + Rank(dense, p)]
    IN  [num |-> b.num * d.den + d.num * b.den, den |-> b.den * d.den]

(* The fused score as a fraction, in units of 1 / AlphaScale.              *)
FusedScore(p) ==
    LET b == Share(AlphaScale - configuration.alpha, Rank(bm25, p))
        d == Share(configuration.alpha, Rank(dense, p))
    IN  [num |-> b.num * d.den + d.num * b.den, den |-> b.den * d.den]

Exceeds(x, y) == x.num * y.den > y.num * x.den

(* sorted(..., key=(-fused_score, passage_id))                             *)
Precedes(p, q) ==
    \/ Exceeds(FusedScore(p), FusedScore(q))
    \/ ~Exceeds(FusedScore(q), FusedScore(p)) /\ p < q

Candidates == ToSet(bm25) \cup ToSet(dense)
ByFusedScore == {pair \in Candidates \X Candidates : Precedes(pair[1], pair[2])}
Fused == Ordered(Candidates, ByFusedScore)

(* Mutant: the BM25 list first, then what only the dense list has.         *)
Balanced_exhausts_bm25 ==
    bm25 \o SelectSeq(dense, LAMBDA p : Rank(bm25, p) = Unranked)

(* The turn of a passage when the two lists alternate, BM25 first.         *)
Turn(p) ==
    LET b == 2 * Rank(bm25, p) - 1
        d == 2 * Rank(dense, p)
    IN  IF b < 0 THEN d ELSE IF d = 0 \/ b < d THEN b ELSE d

ByTurn == {pair \in Candidates \X Candidates : Turn(pair[1]) < Turn(pair[2])}
Balanced == Ordered(Candidates, ByTurn)

------------------------------------------------------------------------------
(* An unreachable server, a collection that has been dropped, an embedding *)
(* of another contract, a failing or mismatching reranker.                 *)
Raise ==
    /\ pc \in {"bm25", "dense", "scoring"}
    /\ pc' = "raised"
    /\ UNCHANGED <<configuration, bm25, dense, hybrid, scores, reranked, shown>>

QueryBm25 ==
    /\ pc = "bm25"
    /\ bm25' \in Answers
    /\ pc' = IF configuration.mode = "bm25" THEN "returned" ELSE "dense"
    /\ UNCHANGED <<configuration, dense, hybrid, scores, reranked, shown>>

(* The query is embedded first; the collection is read only then.          *)
QueryDense ==
    /\ pc = "dense"
    /\ dense' \in Answers
    /\ pc' = IF configuration.mode = "dense" THEN "returned" ELSE "fuse"
    /\ UNCHANGED <<configuration, bm25, hybrid, scores, reranked, shown>>

Fuse ==
    /\ pc = "fuse"
    /\ hybrid' = Truncated(IF configuration.selection = "balanced"
                           THEN Balanced ELSE Fused, configuration.final_k)
    /\ pc' = IF configuration.mode = "hybrid" THEN "returned" ELSE "candidates"
    /\ UNCHANGED <<configuration, bm25, dense, scores, reranked, shown>>

(* Mutant: a short candidate list is reranked as it is.                    *)
SelectCandidates_unchecked ==
    /\ pc = "candidates"
    /\ pc' = IF ToSet(hybrid) \subseteq Known THEN "scoring" ELSE "raised"
    /\ UNCHANGED <<configuration, bm25, dense, hybrid, scores, reranked, shown>>

(* Too few candidates, or one the loaded files do not contain.             *)
SelectCandidates ==
    /\ pc = "candidates"
    /\ pc' = IF Len(hybrid) >= FinalK /\ ToSet(hybrid) \subseteq Known
             THEN "scoring" ELSE "raised"
    /\ UNCHANGED <<configuration, bm25, dense, hybrid, scores, reranked, shown>>

(* sorted(..., key=(-reranker_score, passage_id))                          *)
Outscores(x, y) ==
    \/ x.score > y.score
    \/ x.score = y.score /\ x.passage < y.passage

ByScore(rows) == {pair \in rows \X rows : Outscores(pair[1], pair[2])}

(* One score per candidate; the best final_k are returned.                 *)
Rerank ==
    /\ pc = "scoring"
    /\ scores' \in [DOMAIN hybrid -> Scores]
    /\ LET rows == {[passage |-> hybrid[i], score |-> scores'[i], hybrid_rank |-> i] :
                       i \in DOMAIN hybrid}
       IN  reranked' = Truncated(Ordered(rows, ByScore(rows)), FinalK)
    /\ pc' = "returned"
    /\ UNCHANGED <<configuration, bm25, dense, hybrid, shown>>

------------------------------------------------------------------------------
(* scripts/demo_retrieval.py                                               *)

Result ==
    CASE configuration.mode = "bm25" -> bm25
      [] configuration.mode = "dense" -> dense
      [] configuration.mode = "hybrid" -> Truncated(hybrid, FinalK)
      [] configuration.mode = "hybrid-rerank" ->
            [i \in DOMAIN reranked |-> reranked[i].passage]

(* Title and excerpt come from the loaded files; a KeyError ends it.       *)
Show ==
    /\ pc = "returned"
    /\ IF ToSet(Result) \subseteq Known
       THEN shown' = Result /\ pc' = "shown"
       ELSE pc' = "raised" /\ UNCHANGED shown
    /\ UNCHANGED <<configuration, bm25, dense, hybrid, scores, reranked>>

Next == QueryBm25 \/ QueryDense \/ Fuse \/ SelectCandidates \/ Rerank \/ Show \/ Raise

Spec == Init /\ [][Next]_vars

------------------------------------------------------------------------------
(* docs/data-and-evaluation.md, docs/reranker-capability.md                *)

NoWorse(list, p, q) ==
    Rank(list, q) = Unranked \/ Rank(list, p) \in 1..Rank(list, q)

(* The lists that alpha gives a weight.                                    *)
Weighted ==
    (IF configuration.alpha < AlphaScale THEN {bm25} ELSE {})
        \cup (IF configuration.alpha > 0 THEN {dense} ELSE {})

HasFused(selection) ==
    /\ pc \notin {"bm25", "dense", "fuse", "raised"}
    /\ configuration.mode \in {"hybrid", "hybrid-rerank"}
    /\ configuration.selection = selection

(* "Weighted rank fusion": whatever alpha and the rank constant are, a     *)
(* passage that is nowhere behind another one, and ahead of it in a list   *)
(* that counts, is fused before it, also where one of them has no rank.    *)
FusionRespectsRanks ==
    HasFused("weighted_rrf") =>
        \A p \in ToSet(bm25) \cup ToSet(dense), q \in ToSet(hybrid) :
            (/\ \A list \in Weighted : NoWorse(list, p, q)
             /\ \E list \in Weighted : ~NoWorse(list, q, p))
                => Rank(hybrid, p) \in 1..(Rank(hybrid, q) - 1)

(* "This protects dense-only high-ranked hits that weighted fusion may     *)
(* suppress": with balanced selection the lists share the final_k places   *)
(* evenly; the top of each survives the cut, however they overlap.         *)
BalancedProtectsTopHits ==
    HasFused("balanced") =>
        /\ \A i \in DOMAIN bm25 : 2 * i - 1 <= configuration.final_k => bm25[i] \in ToSet(hybrid)
        /\ \A i \in DOMAIN dense : 2 * i <= configuration.final_k => dense[i] \in ToSet(hybrid)

(* "preserves source passage IDs and hybrid rank provenance": reranked     *)
(* evidence is never short, has no passage twice and none the loaded files *)
(* do not contain, and names the true place of each in the fusion.  What   *)
(* the demonstration shows has the text of the loaded files in every mode. *)
EvidenceIsWhole ==
    /\ pc \in {"returned", "shown"} /\ configuration.mode = "hybrid-rerank" =>
          /\ Len(reranked) = FinalK
          /\ \A i, j \in DOMAIN reranked :
                reranked[i].passage = reranked[j].passage => i = j
          /\ \A i \in DOMAIN reranked :
                /\ reranked[i].passage \in Known
                /\ hybrid[reranked[i].hybrid_rank] = reranked[i].passage
    /\ ToSet(shown) \subseteq Known
==============================================================================
