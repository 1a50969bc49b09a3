--------------------------- MODULE RetrievalScoring ---------------------------
(***************************************************************************)
(* FastRetrievalEvaluator: the rankings of an experiment are joined with   *)
(* the cases of its split by question ID, scored and aggregated.           *)
(*                                                                         *)
(* Means are kept as the sums they are quotients of; reciprocal rank and   *)
(* nDCG are functions of the rank.                                         *)
(***************************************************************************)
EXTENDS Integers, Sequences, FiniteSets, SequencesExt, Sorting

CONSTANTS
    CaseLists,       \* the case lists the evaluator may be given: question, gold passage,
                     \* split and origin, the benchmark and the snapshot of the case
    RankingLists,    \* the rankings a retriever may give: question, passages, latency
    Cutoffs          \* the depths at which recall is measured: 1, 5 and 10

IsList(list) == list \in Seq(ToSet(list))

(* A ranking has no passage twice, and its latency is not negative.        *)
ASSUME ScoringAssumption ==
    /\ \A cs \in CaseLists : IsList(cs) /\ cs # <<>>
    /\ \A rs \in RankingLists :
          /\ IsList(rs)
          /\ \A j \in DOMAIN rs :
                /\ IsList(rs[j].passages) /\ IsInjective(rs[j].passages)
                /\ rs[j].latency \in Nat
    /\ Cutoffs \subseteq Nat

NoRank == 0        \* None

VARIABLES
    cases, rankings,
    ranks,         \* rank of the gold passage of each case, in the order of the cases
    hits,          \* for each cutoff, how many cases have their passage within it
    p50, p95,      \* latency percentiles
    verdict        \* "none", "scored" or "raised"

scoringVars == <<cases, rankings, ranks, hits, p50, p95, verdict>>

ScoringInit ==
    /\ cases \in CaseLists
    /\ rankings \in RankingLists
    /\ ranks = <<>>
    /\ hits = [k \in Cutoffs |-> 0]
    /\ p50 = 0 /\ p95 = 0
    /\ verdict = "none"

QuestionsOf(list) == {list[i].question : i \in DOMAIN list}
HasDuplicates(list) == Cardinality(QuestionsOf(list)) # Len(list)

(* _validate_cases: only the first case is asked for the holdout, and the  *)
(* others must be of its split, benchmark and snapshot.                    *)
AreOfOneSplit ==
    /\ cases[1].split # "holdout"
    /\ \A i \in DOMAIN cases :
          cases[i].split = cases[1].split /\ cases[i].origin = cases[1].origin

(* _validate_cases, _index_rankings and the comparison of the two ID sets  *)
Joinable ==
    /\ AreOfOneSplit
    /\ ~HasDuplicates(cases)
    /\ ~HasDuplicates(rankings)
    /\ QuestionsOf(cases) = QuestionsOf(rankings)

(* Mutant: rankings are taken in the order they come.                      *)
RankingOf_by_position(i) == rankings[i]

(* rankings_by_question[case.question_id]                                  *)
RankingOf(i) == rankings[CHOOSE j \in DOMAIN rankings : rankings[j].question = cases[i].question]

(* passage_ids.index(relevant_passage_id) + 1, or None                     *)
RankIn(passages, gold) ==
    IF gold \in ToSet(passages)
    THEN CHOOSE k \in DOMAIN passages : passages[k] = gold
    ELSE NoRank

Within(rank, k) == rank # NoRank /\ rank <= k

(* _nearest_rank_percentile; math.ceil of the quotient                     *)
NearestRank(percent, ordered) ==
    ordered[(percent * Len(ordered) + 99) \div 100]

(* The latencies of the cases in order; sorted() is stable.                *)
Latency(i) == RankingOf(i).latency
IsFaster(i, j) == Latency(i) < Latency(j) \/ (Latency(i) = Latency(j) /\ i < j)
ByLatency == {pair \in (DOMAIN cases) \X (DOMAIN cases) : IsFaster(pair[1], pair[2])}
Latencies ==
    LET fastest == Ordered(DOMAIN cases, ByLatency)
    IN  [k \in DOMAIN fastest |-> Latency(fastest[k])]

Score ==
    LET rank == [i \in DOMAIN cases |-> RankIn(RankingOf(i).passages, cases[i].gold)]
    IN  /\ verdict = "none" /\ Joinable
        /\ ranks' = rank
        /\ hits' = [k \in Cutoffs |-> Cardinality({i \in DOMAIN cases : Within(rank[i], k)})]
        /\ p50' = NearestRank(50, Latencies)
        /\ p95' = NearestRank(95, Latencies)
        /\ verdict' = "scored"
        /\ UNCHANGED <<cases, rankings>>

Reject ==
    /\ verdict = "none" /\ ~Joinable
    /\ verdict' = "raised"
    /\ UNCHANGED <<cases, rankings, ranks, hits, p50, p95>>

ScoringNext == Score \/ Reject

ScoringSpec == ScoringInit /\ [][ScoringNext]_scoringVars

------------------------------------------------------------------------------
(* docs/data-and-evaluation.md, "Retrieval evaluator"                      *)

(* A latency that was measured, and the smallest that this many of a       *)
(* hundred rankings do not exceed.                                         *)
IsPercentile(percent, value) ==
    LET Below(v) == Cardinality({j \in DOMAIN rankings : rankings[j].latency <= v})
        measured == {rankings[j].latency : j \in DOMAIN rankings}
    IN  /\ value \in measured
        /\ 100 * Below(value) >= percent * Len(rankings)
        /\ \A v \in measured : v < value => 100 * Below(v) < percent * Len(rankings)

(* A scored evaluation is of one origin and has no case of the holdout.    *)
(* It covers every case once, and the rank of a case is                    *)
(* its gold passage's place in the one ranking of its own question, in     *)
(* whatever order the rankings came; recall counts exactly those ranks,    *)
(* and p50 and p95 are nearest-rank percentiles of the latencies.          *)
ScoresAreOfTheirCases ==
    verdict = "scored" =>
        /\ \A i \in DOMAIN cases :
              /\ cases[i].split # "holdout"
              /\ \A h \in DOMAIN cases : cases[h].origin = cases[i].origin
        /\ Len(ranks) = Len(cases)
        /\ \A i \in DOMAIN cases : \E j \in DOMAIN rankings :
              /\ rankings[j].question = cases[i].question
              /\ \A h \in DOMAIN rankings \ {j} : rankings[h].question # cases[i].question
              /\ \A k \in DOMAIN rankings[j].passages :
                    rankings[j].passages[k] = cases[i].gold <=> k = ranks[i]
              /\ ranks[i] \in {NoRank} \cup DOMAIN rankings[j].passages
        /\ \A k \in Cutoffs : hits[k] = Cardinality({i \in DOMAIN cases : ranks[i] \in 1..k})
        /\ IsPercentile(50, p50) /\ IsPercentile(95, p95)
==============================================================================
