----------------------------- MODULE MCFunctions -----------------------------
(* The parts that compute without shared state, on every input up to a     *)
(* bound: sections, questions, reference suites and rankings.  A behaviour *)
(* works on one part; the others have no input.                            *)
EXTENDS MCQuestion, ExactReferences, RetrievalScoring, SectionChunker

(* The sections 1, 1.1 and 1.10 and their chunks.                          *)
Section == {<<"1">>, <<"1", ".", "1">>, <<"1", ".", "1", "0">>}
AnyPassages ==
    [section : Section, chunk : {<<"c">>}] \cup [section : {<<"1">>}, chunk : {<<>>}]
AnyCorpora == SUBSET AnyPassages

NotASection == <<"s", "1">>
AnyCase ==
    {c \in [reference : Section \cup {NotASection},
            ids : SUBSET Ids(AnyPassages),
            status : {"resolved", "not_found", "unsupported"}] : IsCase(c)}
AnySuites == {<<c, d>> : c \in {e \in AnyCase : e.status = "resolved"}, d \in AnyCase}

(* Three cases of one split, with the second and third or only the third   *)
(* of another one; three rankings of any three questions, or fewer.        *)
Case(q, g, s, o) == [question |-> q, gold |-> g, split |-> s, origin |-> o]
ThreeCases ==
    {<<Case(3, "a", s, "b1"), Case(1, "b", t, "b1"), Case(2, "a", t, o)>> :
        s \in {"development", "holdout"}, t \in {"development", "holdout"}, o \in {"b1", "b2"}}
AnyRanking ==
    [question : 1..3, passages : {<<>>, <<"a">>, <<"b", "a">>}, latency : 1..3]
AnyRankings == UNION {[1..n -> AnyRanking] : n \in 0..3}

VARIABLE part

NoQuestion == question = <<>> /\ queries = <<>> /\ route = "nothing"
NoSuite == corpus = {} /\ suite = <<>> /\ exit = -1
NoRanking ==
    /\ cases = <<>> /\ rankings = <<>> /\ ranks = <<>>
    /\ hits = [k \in Cutoffs |-> 0] /\ p50 = 0 /\ p95 = 0 /\ verdict = "nothing"
NoSection ==
    sections = [s \in 1..SectionCount |-> <<>>] /\ section = 1 /\ start = 0 /\ passages = <<>>

FunctionsInit ==
    \/ part = "question" /\ QuestionInit /\ NoSuite /\ NoRanking /\ NoSection
    \/ part = "suite" /\ NoQuestion /\ SuiteInit /\ NoRanking /\ NoSection
    \/ part = "ranking" /\ NoQuestion /\ NoSuite /\ ScoringInit /\ NoSection
    \/ part = "section" /\ NoQuestion /\ NoSuite /\ NoRanking /\ Init

FunctionsNext ==
    /\ \/ part = "question" /\ QuestionNext /\ UNCHANGED <<suiteVars, scoringVars, vars>>
       \/ part = "suite" /\ SuiteNext /\ UNCHANGED <<questionVars, scoringVars, vars>>
       \/ part = "ranking" /\ ScoringNext /\ UNCHANGED <<questionVars, suiteVars, vars>>
       \/ part = "section" /\ Next /\ UNCHANGED <<questionVars, suiteVars, scoringVars>>
       \/ /\ \/ part = "question" /\ route # "none"
             \/ part = "suite" /\ exit # -1
             \/ part = "ranking" /\ verdict # "none"
          /\ UNCHANGED <<questionVars, suiteVars, scoringVars, vars>>
    /\ UNCHANGED part

FunctionsSpec ==
    FunctionsInit /\ [][FunctionsNext]_<<questionVars, suiteVars, scoringVars, vars, part>>
==============================================================================
