---------------------- MODULE RetrievalExperiment_proofs ----------------------
(***************************************************************************)
(* Proofs about the runs of run_retrieval_baseline.py, for every number of *)
(* runs, experiments, cases and passages: published artifacts are those of *)
(* one run, stay, and rest on complete rankings.                           *)
(***************************************************************************)
EXTENDS RetrievalExperiment, TLAPS

Querying == {"idle", "bm25", "dense"}
Publishing == {"aggregate", "per_case"}
AfterRanking == {"evaluate", "exists", "mkdir", "aggregate", "per_case", "returned"}
Points == {"idle", "bm25", "dense", "rerank", "evaluate", "exists", "mkdir",
           "aggregate", "per_case"} \cup Ended

RunTypeOK ==
    /\ mode \in [Runs -> Modes]
    /\ experiment \in [Runs -> ExperimentIds]
    /\ pc \in [Runs -> Points]
    /\ lexical \in [Runs -> 0..CandidateK]
    /\ found \in [Runs -> Seq(0..CandidateK)]
    /\ reranked \in [Runs -> Nat]

IndexTypeOK ==
    /\ exists \in BOOLEAN
    /\ indexed \in 0..PassageCount

ArtifactTypeOK ==
    artifacts \in [ExperimentIds -> [present : BOOLEAN,
                                     aggregate : Runs \cup {Nobody},
                                     per_case : Runs \cup {Nobody}]]

(* A run counts the cases it found candidates for, then those it reranked; *)
(* a reranked case had enough candidates, and a reranking run evaluates    *)
(* only when it has reranked every case.                                   *)
RankingInv(r) ==
    /\ Len(found[r]) <= CaseCount /\ reranked[r] <= Len(found[r])
    /\ \A i \in 1..reranked[r] : found[r][i] >= FinalK
    /\ pc[r] \in Querying => Len(found[r]) < CaseCount /\ reranked[r] = 0
    /\ pc[r] = "rerank" => Len(found[r]) = CaseCount /\ reranked[r] < CaseCount
    /\ mode[r] = "hybrid-rerank" /\ pc[r] \in AfterRanking => reranked[r] = CaseCount

(* The files of an experiment, and of a run between mkdir and its return.  *)
FilesInv(e) ==
    /\ ~artifacts[e].present => artifacts[e].aggregate = Nobody
    /\ artifacts[e].per_case # Nobody => artifacts[e].aggregate = artifacts[e].per_case

PublishInv(r) ==
    /\ pc[r] \in Publishing =>
          Directory(r).present /\ Directory(r).per_case = Nobody
    /\ pc[r] = "aggregate" => Directory(r).aggregate = Nobody
    /\ pc[r] = "per_case" => Directory(r).aggregate = r
    /\ Directory(r).aggregate = r =>
          /\ pc[r] \in {"per_case"} \cup Ended
          /\ mode[r] = "hybrid-rerank" => reranked[r] = CaseCount

(* mkdir lets one run of an experiment through.                            *)
SoleWriter(r, q) ==
    pc[r] \in Publishing /\ pc[q] \in Publishing /\ experiment[r] = experiment[q] => r = q

ExperimentInv ==
    /\ RunTypeOK /\ IndexTypeOK /\ ArtifactTypeOK
    /\ \A r \in Runs : RankingInv(r) /\ PublishInv(r)
    /\ \A e \in ExperimentIds : FilesInv(e)
    /\ \A r, q \in Runs : SoleWriter(r, q)

------------------------------------------------------------------------------
LEMMA ExperimentInitInv == Init => ExperimentInv
<1> SUFFICES ASSUME Init PROVE ExperimentInv
  OBVIOUS
<1>1. RunTypeOK /\ IndexTypeOK /\ ArtifactTypeOK
  BY ExperimentAssumption
     DEF Init, RunTypeOK, IndexTypeOK, ArtifactTypeOK, Points, NoDirectory
<1>2. ASSUME NEW r \in Runs
      PROVE  RankingInv(r) /\ PublishInv(r)
  <2>1. /\ pc[r] = "idle" /\ found[r] = <<>> /\ reranked[r] = 0
        /\ experiment[r] \in ExperimentIds
    BY DEF Init
  <2>2. RankingInv(r)
    BY <2>1, ExperimentAssumption DEF RankingInv, Querying, AfterRanking
  <2>3. Directory(r) = NoDirectory
    BY <2>1 DEF Init, Directory
  <2> QED
    BY <2>1, <2>2, <2>3, ExperimentAssumption DEF PublishInv, Publishing, NoDirectory
<1>3. \A e \in ExperimentIds : FilesInv(e)
  BY DEF Init, FilesInv, NoDirectory
<1>4. \A r, q \in Runs : SoleWriter(r, q)
  BY DEF Init, SoleWriter, Publishing
<1> QED
  BY <1>1, <1>2, <1>3, <1>4 DEF ExperimentInv

(* What a step of r must respect of the runs beside it.                    *)
LEMMA RunKeepsInv ==
    ASSUME ExperimentInv, NEW r \in Runs,
           RunTypeOK', IndexTypeOK', ArtifactTypeOK',
           UNCHANGED <<mode, experiment>>,
           \A q \in Runs \ {r} :
              pc'[q] = pc[q] /\ found'[q] = found[q] /\ reranked'[q] = reranked[q],
           \A e \in ExperimentIds \ {experiment[r]} : artifacts'[e] = artifacts[e],
           RankingInv(r)', PublishInv(r)', FilesInv(experiment[r])',
           \A q \in Runs \ {r} : experiment[q] = experiment[r] => PublishInv(q)',
           pc'[r] \in Publishing => pc[r] \in Publishing \/ ~Directory(r).present
    PROVE  ExperimentInv'
<1>1. \A q \in Runs : experiment[q] \in ExperimentIds
  BY DEF ExperimentInv, RunTypeOK
<1>2. ASSUME NEW q \in Runs \ {r}
      PROVE  RankingInv(q)' /\ PublishInv(q)'
  <2>1. RankingInv(q)'
    BY DEF ExperimentInv, RankingInv
  <2>2. CASE experiment[q] = experiment[r]
    BY <2>1, <2>2
  <2>3. CASE experiment[q] # experiment[r]
    <3>1. Directory(q)' = Directory(q)
      BY <1>1, <2>3 DEF Directory
    <3>2. PublishInv(q)'
      BY <3>1 DEF ExperimentInv, PublishInv
    <3> QED BY <2>1, <3>2
  <2> QED BY <2>2, <2>3
<1>3. ASSUME NEW e \in ExperimentIds
      PROVE  FilesInv(e)'
  BY DEF ExperimentInv, FilesInv
<1>4. ASSUME NEW q \in Runs \ {r}, pc'[r] \in Publishing, pc[q] \in Publishing,
             experiment[r] = experiment[q]
      PROVE  FALSE
  <2>1. Directory(q).present /\ Directory(q) = Directory(r)
    BY <1>4 DEF ExperimentInv, PublishInv, Directory
  <2>2. pc[r] \in Publishing
    BY <1>4, <2>1
  <2> QED BY <1>4, <2>2 DEF ExperimentInv, SoleWriter
<1>5. ASSUME NEW p \in Runs, NEW q \in Runs
      PROVE  SoleWriter(p, q)'
  <2>1. CASE p # r /\ q # r
    BY <2>1 DEF ExperimentInv, SoleWriter
  <2>2. CASE p = r \/ q = r
    BY <1>4, <2>2 DEF SoleWriter
  <2> QED BY <2>1, <2>2
<1> QED
  BY <1>2, <1>3, <1>5 DEF ExperimentInv

(* A step that publishes nothing: before the artifacts, or to an end.      *)
LEMMA UnpublishedKeepsInv ==
    ASSUME ExperimentInv, NEW r \in Runs, NEW to \in Points \ Publishing,
           pc' = [pc EXCEPT ![r] = to],
           RunTypeOK',
           UNCHANGED <<indexVars, mode, experiment, artifacts>>,
           \A q \in Runs \ {r} : found'[q] = found[q] /\ reranked'[q] = reranked[q],
           RankingInv(r)',
           \/ to \in Ended /\ reranked'[r] = reranked[r]
           \/ pc[r] \notin {"per_case"} \cup Ended
    PROVE  ExperimentInv'
<1>1. /\ pc \in [Runs -> Points]
      /\ \A q \in Runs : experiment[q] \in ExperimentIds
  BY DEF ExperimentInv, RunTypeOK
<1>2. pc'[r] = to /\ \A q \in Runs \ {r} : pc'[q] = pc[q]
  BY <1>1
<1>3. /\ IndexTypeOK' /\ ArtifactTypeOK'
  BY DEF ExperimentInv, IndexTypeOK, ArtifactTypeOK, indexVars
<1>4. \A q \in Runs : Directory(q)' = Directory(q)
  BY DEF Directory
<1>5. PublishInv(r)'
  BY <1>2, <1>4 DEF ExperimentInv, PublishInv, Publishing, Ended
<1>6. \A q \in Runs \ {r} : PublishInv(q)'
  BY <1>2, <1>4 DEF ExperimentInv, PublishInv
<1>7. FilesInv(experiment[r])'
  BY <1>1 DEF ExperimentInv, FilesInv
<1> QED
  BY <1>2, <1>3, <1>5, <1>6, <1>7, RunKeepsInv

LEMMA ControlKeepsInv ==
    ASSUME ExperimentInv, NEW r \in Runs,
           Begin(r) \/ QueryRaises(r) \/ Evaluate(r) \/ CheckDirectory(r) \/ Crash(r)
    PROVE  ExperimentInv'
<1>1. /\ UNCHANGED <<indexVars, mode, experiment, artifacts>>
      /\ UNCHANGED <<lexical, found, reranked>>
  BY DEF Begin, QueryRaises, Evaluate, CheckDirectory, Crash
<1>2. pc[r] \in Points
  BY DEF ExperimentInv, RunTypeOK
<1>3. PICK to \in Points \ Publishing :
         /\ pc' = [pc EXCEPT ![r] = to]
         /\ \/ to \in {"raised", "crashed"}
            \/ pc[r] = "idle" /\ to \in Querying
            \/ pc[r] \in {"evaluate", "exists"} /\ to \in {"exists", "mkdir"}
  BY DEF Begin, QueryRaises, Evaluate, CheckDirectory, Crash, Goto, FirstQuery,
         Points, Publishing, Querying, Ended
<1>4. RunTypeOK' /\ pc'[r] = to
  BY <1>1, <1>3 DEF ExperimentInv, RunTypeOK
<1>5. RankingInv(r)'
  BY <1>1, <1>3, <1>4 DEF ExperimentInv, RankingInv, Querying, AfterRanking
<1>6. \/ to \in Ended /\ reranked'[r] = reranked[r]
      \/ pc[r] \notin {"per_case"} \cup Ended
  BY <1>1, <1>3 DEF Ended
<1> QED
  BY <1>1, <1>3, <1>4, <1>5, <1>6, UnpublishedKeepsInv

LEMMA CandidatesAreBounded ==
    ASSUME ExperimentInv
    PROVE  /\ Smaller(CandidateK, indexed) \in 0..CandidateK
           /\ \A n \in 0..CandidateK :
                 /\ Larger(Smaller(CandidateK, indexed), n) \in Int
                 /\ Smaller(CandidateK, Smaller(CandidateK, indexed) + n) \in 0..CandidateK
                 /\ Larger(Smaller(CandidateK, indexed), n) >= 0
BY ExperimentAssumption DEF ExperimentInv, IndexTypeOK, Smaller, Larger

(* One more case has its candidates.                                       *)
LEMMA ContinueKeepsInv ==
    ASSUME ExperimentInv, NEW r \in Runs, NEW n \in 0..CandidateK,
           pc[r] \in Querying, Continue(r, n),
           UNCHANGED <<indexVars, mode, experiment, reranked, artifacts>>,
           lexical' \in [Runs -> 0..CandidateK]
    PROVE  ExperimentInv'
<1>1. /\ found \in [Runs -> Seq(0..CandidateK)] /\ pc \in [Runs -> Points]
      /\ Len(found[r]) < CaseCount /\ reranked[r] = 0 /\ Len(found[r]) \in Nat
  BY DEF ExperimentInv, RunTypeOK, RankingInv
<1>2. PICK to \in Points \ Publishing :
         /\ pc' = [pc EXCEPT ![r] = to]
         /\ \/ to \in Querying /\ Len(found[r]) + 1 < CaseCount
            \/ /\ ~(Len(found[r]) + 1 < CaseCount)
               /\ to \in {"rerank", "evaluate"}
               /\ to = "evaluate" => mode[r] # "hybrid-rerank"
  <2> DEFINE next == IF Len(found[r]) + 1 < CaseCount THEN FirstQuery(r)
                     ELSE IF mode[r] = "hybrid-rerank" THEN "rerank" ELSE "evaluate"
  <2>1. pc' = [pc EXCEPT ![r] = next]
    BY DEF Continue, Goto
  <2>2. FirstQuery(r) \in {"dense", "bm25"}
    BY DEF FirstQuery
  <2>3. CASE Len(found[r]) + 1 < CaseCount
    BY <2>1, <2>2, <2>3 DEF Points, Publishing, Querying
  <2>4. CASE ~(Len(found[r]) + 1 < CaseCount)
    <3>1. next \in {"rerank", "evaluate"} /\ (next = "evaluate" => mode[r] # "hybrid-rerank")
      BY <2>4
    <3>2. next \in Points \ Publishing
      BY <3>1 DEF Points, Publishing
    <3> HIDE DEF next
    <3> QED BY <2>1, <2>4, <3>1, <3>2
  <2> QED BY <2>3, <2>4
<1>3. found' = [found EXCEPT ![r] = Append(found[r], n)]
  BY DEF Continue
<1>4. Append(found[r], n) \in Seq(0..CandidateK)
  BY <1>1
<1>5. /\ found' \in [Runs -> Seq(0..CandidateK)]
      /\ found'[r] = Append(found[r], n)
      /\ \A q \in Runs \ {r} : found'[q] = found[q]
  BY <1>1, <1>3, <1>4
<1>6. Len(found'[r]) = Len(found[r]) + 1
  BY <1>1, <1>5
<1>7. RunTypeOK' /\ pc'[r] = to
  BY <1>1, <1>2, <1>5 DEF ExperimentInv, RunTypeOK
<1>8. RankingInv(r)'
  BY <1>1, <1>2, <1>6, <1>7, ExperimentAssumption DEF RankingInv, Querying, AfterRanking
<1>9. pc[r] \notin {"per_case"} \cup Ended
  BY DEF Querying, Ended
<1> QED
  BY <1>2, <1>5, <1>7, <1>8, <1>9, UnpublishedKeepsInv

LEMMA QueryBm25KeepsInv ==
    ASSUME ExperimentInv, NEW r \in Runs, QueryBm25(r)
    PROVE  ExperimentInv'
<1>1. /\ pc[r] = "bm25" /\ pc[r] \in Querying
      /\ UNCHANGED <<indexVars, mode, experiment, reranked, artifacts>>
      /\ pc \in [Runs -> Points]
      /\ lexical \in [Runs -> 0..CandidateK]
  BY DEF QueryBm25, Querying, ExperimentInv, RunTypeOK
<1>2. PICK n \in 0..Smaller(CandidateK, indexed) :
         IF mode[r] = "bm25"
         THEN Continue(r, n) /\ UNCHANGED lexical
         ELSE /\ lexical' = [lexical EXCEPT ![r] = n]
              /\ Goto(r, "dense")
              /\ UNCHANGED found
  BY DEF QueryBm25
<1>3. n \in 0..CandidateK
  BY CandidatesAreBounded, ExperimentAssumption
<1>4. CASE mode[r] = "bm25"
  <2>1. Continue(r, n) /\ lexical' \in [Runs -> 0..CandidateK]
    BY <1>1, <1>2, <1>4
  <2> QED BY <1>1, <1>3, <2>1, ContinueKeepsInv
<1>5. CASE mode[r] # "bm25"
  <2>1. /\ lexical' = [lexical EXCEPT ![r] = n]
        /\ pc' = [pc EXCEPT ![r] = "dense"]
        /\ UNCHANGED found
    BY <1>2, <1>5 DEF Goto
  <2>2. RunTypeOK' /\ pc'[r] = "dense"
    BY <1>1, <1>3, <2>1 DEF ExperimentInv, RunTypeOK, Points
  <2>3. RankingInv(r)'
    BY <1>1, <2>1, <2>2 DEF ExperimentInv, RankingInv, Querying, AfterRanking
  <2>4. "dense" \in Points \ Publishing /\ pc[r] \notin {"per_case"} \cup Ended
    BY <1>1 DEF Points, Publishing, Ended
  <2> QED
    BY <1>1, <2>1, <2>2, <2>3, <2>4, UnpublishedKeepsInv
<1> QED
  BY <1>4, <1>5

LEMMA QueryDenseKeepsInv ==
    ASSUME ExperimentInv, NEW r \in Runs, QueryDense(r)
    PROVE  ExperimentInv'
<1> DEFINE n == Smaller(CandidateK, indexed)
<1>1. /\ pc[r] = "dense" /\ pc[r] \in Querying
      /\ UNCHANGED <<indexVars, mode, experiment, reranked, artifacts>>
      /\ lexical \in [Runs -> 0..CandidateK]
  BY DEF QueryDense, Querying, ExperimentInv, RunTypeOK
<1>2. n \in 0..CandidateK
  BY CandidatesAreBounded
<1>3. CASE mode[r] = "dense"
  <2>1. Continue(r, n) /\ lexical' \in [Runs -> 0..CandidateK]
    BY <1>1, <1>3 DEF QueryDense
  <2> QED BY <1>1, <1>2, <2>1, ContinueKeepsInv
<1>4. CASE mode[r] # "dense"
  <2>1. PICK candidates \in Larger(n, lexical[r])..Smaller(CandidateK, n + lexical[r]) :
           Continue(r, candidates)
    BY <1>4 DEF QueryDense
  <2>2. candidates \in 0..CandidateK
    <3>1. lexical[r] \in 0..CandidateK
      BY <1>1
    <3>2. /\ Larger(n, lexical[r]) \in Int /\ Larger(n, lexical[r]) >= 0
          /\ Smaller(CandidateK, n + lexical[r]) \in 0..CandidateK
      BY <3>1, CandidatesAreBounded
    <3> HIDE DEF n
    <3> QED BY <3>2, ExperimentAssumption
  <2>3. lexical' \in [Runs -> 0..CandidateK]
    <3>1. lexical' = [lexical EXCEPT ![r] = 0]
      BY <1>4 DEF QueryDense
    <3> QED BY <1>1, <3>1, ExperimentAssumption
  <2> QED BY <1>1, <2>1, <2>2, <2>3, ContinueKeepsInv
<1> QED
  BY <1>3, <1>4

LEMMA RerankKeepsInv ==
    ASSUME ExperimentInv, NEW r \in Runs, Rerank(r)
    PROVE  ExperimentInv'
<1>1. /\ pc[r] = "rerank" /\ pc \in [Runs -> Points]
      /\ UNCHANGED <<indexVars, mode, experiment, lexical, found, artifacts>>
      /\ reranked \in [Runs -> Nat] /\ reranked[r] < CaseCount
      /\ Len(found[r]) = CaseCount
  BY DEF Rerank, ExperimentInv, RunTypeOK, RankingInv
<1>2. pc[r] \notin {"per_case"} \cup Ended
  BY <1>1 DEF Ended
<1>3. CASE Goto(r, "raised") /\ UNCHANGED reranked
  <2>1. RunTypeOK' /\ pc'[r] = "raised"
    BY <1>1, <1>3 DEF ExperimentInv, RunTypeOK, Goto, Points, Ended
  <2>2. RankingInv(r)'
    BY <1>1, <1>3, <2>1 DEF ExperimentInv, RankingInv, Querying, AfterRanking
  <2>3. "raised" \in Points \ Publishing
    BY DEF Points, Publishing, Ended
  <2> QED
    BY <1>1, <1>2, <1>3, <2>1, <2>2, <2>3, UnpublishedKeepsInv DEF Goto
<1>4. CASE /\ found[r][reranked[r] + 1] >= FinalK
           /\ reranked' = [reranked EXCEPT ![r] = @ + 1]
           /\ Goto(r, IF reranked[r] + 1 = CaseCount THEN "evaluate" ELSE "rerank")
  <2>1. PICK to \in {"evaluate", "rerank"} :
           /\ pc' = [pc EXCEPT ![r] = to]
           /\ to = "evaluate" <=> reranked[r] + 1 = CaseCount
    BY <1>4 DEF Goto
  <2>2. /\ reranked' \in [Runs -> Nat]
        /\ reranked'[r] = reranked[r] + 1
        /\ \A q \in Runs \ {r} : reranked'[q] = reranked[q]
    BY <1>1, <1>4
  <2>3. RunTypeOK' /\ pc'[r] = to
    BY <1>1, <2>1, <2>2 DEF ExperimentInv, RunTypeOK, Points
  <2>4. \A i \in 1..reranked'[r] : found[r][i] >= FinalK
    BY <1>1, <1>4, <2>2 DEF ExperimentInv, RankingInv
  <2>5. RankingInv(r)'
    BY <1>1, <2>1, <2>2, <2>3, <2>4, ExperimentAssumption
       DEF RankingInv, Querying, AfterRanking
  <2>6. to \in Points \ Publishing
    BY DEF Points, Publishing
  <2> QED
    BY <1>1, <1>2, <2>1, <2>2, <2>3, <2>5, <2>6, UnpublishedKeepsInv
<1> QED
  BY <1>3, <1>4 DEF Rerank

------------------------------------------------------------------------------
(* The publication: one lemma for a run that replaces its directory by     *)
(* one that fits the point it goes to, one for the three steps.            *)

DirectoryType == [present : BOOLEAN, aggregate : Runs \cup {Nobody}, per_case : Runs \cup {Nobody}]

(* What a published file is, stays.                                        *)
FilesKept(e) ==
    /\ artifacts[e].aggregate # Nobody => artifacts'[e].aggregate = artifacts[e].aggregate
    /\ artifacts[e].per_case # Nobody => artifacts'[e].per_case = artifacts[e].per_case

LEMMA PublishKeepsInv ==
    ASSUME ExperimentInv, NEW r \in Runs, NEW to \in Points, NEW directory \in DirectoryType,
           pc' = [pc EXCEPT ![r] = to],
           artifacts' = [artifacts EXCEPT ![experiment[r]] = directory],
           UNCHANGED <<indexVars, mode, experiment, lexical, found, reranked>>,
           pc[r] \in {"mkdir"} \cup Publishing,
           to \in Publishing => pc[r] \in Publishing \/ ~Directory(r).present,
           to \notin Querying \cup {"rerank"},
           directory.present,
           to \in Publishing => directory.per_case = Nobody,
           to = "aggregate" => directory.aggregate = Nobody,
           to = "per_case" => directory.aggregate = r,
           directory.aggregate = r => to \in {"per_case"} \cup Ended,
           directory.aggregate \in {r, Directory(r).aggregate},
           directory.per_case \in {directory.aggregate, Directory(r).per_case},
           directory.aggregate = Directory(r).aggregate \/ pc[r] = "aggregate",
           directory.per_case = Directory(r).per_case \/ pc[r] = "per_case"
    PROVE  ExperimentInv' /\ \A e \in ExperimentIds : FilesKept(e)
<1>1. /\ pc \in [Runs -> Points]
      /\ \A q \in Runs : experiment[q] \in ExperimentIds
      /\ artifacts \in [ExperimentIds -> DirectoryType]
  BY DEF ExperimentInv, RunTypeOK, ArtifactTypeOK, DirectoryType
<1>2. /\ pc'[r] = to /\ \A q \in Runs \ {r} : pc'[q] = pc[q]
      /\ artifacts'[experiment[r]] = directory
      /\ \A e \in ExperimentIds \ {experiment[r]} : artifacts'[e] = artifacts[e]
  BY <1>1
<1>3. RunTypeOK' /\ IndexTypeOK' /\ ArtifactTypeOK'
  <2>1. artifacts' \in [ExperimentIds -> DirectoryType]
    BY <1>1
  <2> QED BY <1>1, <2>1 DEF ExperimentInv, RunTypeOK, IndexTypeOK, indexVars,
                            ArtifactTypeOK, DirectoryType
<1>4. RankingInv(r)'
  BY <1>2 DEF ExperimentInv, RankingInv, Publishing, AfterRanking
<1>5. Directory(r)' = directory
  BY <1>2 DEF Directory
<1>6. mode[r] = "hybrid-rerank" => reranked[r] = CaseCount
  BY DEF ExperimentInv, RankingInv, Publishing, AfterRanking
<1>7. PublishInv(r)'
  BY <1>2, <1>5, <1>6 DEF PublishInv
<1>8. FilesInv(experiment[r])'
  <2>1. /\ FilesInv(experiment[r]) /\ Directory(r) = artifacts[experiment[r]]
        /\ pc[r] = "aggregate" => Directory(r).per_case = Nobody
    BY <1>1 DEF ExperimentInv, PublishInv, Publishing, Directory
  <2>2. directory.per_case # Nobody => directory.aggregate = directory.per_case
    BY <2>1 DEF FilesInv
  <2> QED BY <1>1, <1>2, <2>2 DEF FilesInv
<1>9. ASSUME NEW q \in Runs \ {r}, experiment[q] = experiment[r]
      PROVE  PublishInv(q)'
  <2>1. /\ Directory(q) = Directory(r) /\ Directory(q)' = directory
        /\ pc'[q] = pc[q]
    BY <1>2, <1>9 DEF Directory
  <2>2. PublishInv(q) /\ SoleWriter(q, r)
    BY DEF ExperimentInv
  <2>3. CASE pc[q] \in Publishing
    <3>1. pc[r] \notin Publishing
      BY <1>9, <2>2, <2>3 DEF SoleWriter
    <3>2. /\ directory.aggregate = Directory(q).aggregate
          /\ directory.per_case = Directory(q).per_case
      BY <2>1, <3>1 DEF Publishing
    <3> QED BY <2>1, <2>2, <2>3, <3>2 DEF PublishInv
  <2>4. CASE pc[q] \notin Publishing
    <3>1. directory.aggregate = q => Directory(q).aggregate = q
      BY <2>1
    <3> QED BY <2>1, <2>2, <2>4, <3>1 DEF PublishInv, Publishing
  <2> QED BY <2>3, <2>4
<1>10. ExperimentInv'
  BY <1>2, <1>3, <1>4, <1>7, <1>8, <1>9, RunKeepsInv
<1>11. ASSUME NEW e \in ExperimentIds PROVE FilesKept(e)
  BY <1>2, ExperimentAssumption DEF FilesKept, ExperimentInv, PublishInv, Directory, Publishing
<1> QED
  BY <1>10, <1>11

LEMMA PublicationKeepsInv ==
    ASSUME ExperimentInv, NEW r \in Runs,
           MakeDirectory(r) \/ WriteAggregate(r) \/ WritePerCase(r)
    PROVE  ExperimentInv' /\ \A e \in ExperimentIds : FilesKept(e)
<1>1. /\ UNCHANGED <<indexVars, mode, experiment, lexical, found, reranked>>
      /\ pc[r] \in {"mkdir"} \cup Publishing
  BY DEF MakeDirectory, WriteAggregate, WritePerCase, Publishing
<1>2. /\ Directory(r) \in DirectoryType
      /\ Directory(r) = artifacts[experiment[r]]
      /\ pc[r] \in Publishing => Directory(r).present /\ Directory(r).per_case = Nobody
      /\ pc[r] = "aggregate" => Directory(r).aggregate = Nobody
      /\ pc[r] = "per_case" => Directory(r).aggregate = r
      /\ FilesInv(experiment[r])
  BY DEF ExperimentInv, RunTypeOK, ArtifactTypeOK, DirectoryType, PublishInv, Directory
<1>3. CASE Goto(r, "raised") /\ UNCHANGED artifacts
  <2>1. "raised" \in Points \ Publishing /\ "raised" \in Ended
    BY DEF Points, Publishing, Ended
  <2>2. RunTypeOK' /\ pc'[r] = "raised"
    BY <1>1, <1>3, <2>1 DEF ExperimentInv, RunTypeOK, Goto
  <2>3. RankingInv(r)'
    BY <1>1, <2>2 DEF ExperimentInv, RankingInv, Querying, AfterRanking
  <2>4. ExperimentInv'
    BY <1>1, <1>3, <2>1, <2>2, <2>3, UnpublishedKeepsInv DEF Goto
  <2> QED BY <1>3, <2>4 DEF FilesKept
<1>4. CASE /\ pc[r] = "mkdir" /\ ~Directory(r).present
           /\ artifacts' = [artifacts EXCEPT ![experiment[r]].present = TRUE]
           /\ Goto(r, "aggregate")
  <2> DEFINE directory == [Directory(r) EXCEPT !.present = TRUE]
  <2>1. /\ directory \in DirectoryType
        /\ directory.present
        /\ directory.aggregate = Directory(r).aggregate
        /\ directory.per_case = Directory(r).per_case
    BY <1>2 DEF DirectoryType
  <2>2. Directory(r).aggregate = Nobody /\ Directory(r).per_case = Nobody
    BY <1>2, <1>4 DEF FilesInv
  <2>3. artifacts' = [artifacts EXCEPT ![experiment[r]] = directory]
    BY <1>2, <1>4
  <2>4. /\ "aggregate" \in Points
        /\ "aggregate" \notin Querying \cup {"rerank"}
    BY DEF Points, Querying
  <2> HIDE DEF directory
  <2> QED
    BY <1>1, <1>4, <2>1, <2>2, <2>3, <2>4, ExperimentAssumption, PublishKeepsInv DEF Goto
<1>5. CASE /\ pc[r] = "aggregate"
           /\ artifacts' = [artifacts EXCEPT ![experiment[r]].aggregate = r]
           /\ Goto(r, "per_case")
  <2> DEFINE directory == [Directory(r) EXCEPT !.aggregate = r]
  <2>1. /\ directory \in DirectoryType
        /\ directory.present = Directory(r).present
        /\ directory.aggregate = r
        /\ directory.per_case = Directory(r).per_case
    BY <1>2 DEF DirectoryType
  <2>2. pc[r] \in Publishing /\ Directory(r).present /\ Directory(r).per_case = Nobody
    BY <1>2, <1>5 DEF Publishing
  <2>3. artifacts' = [artifacts EXCEPT ![experiment[r]] = directory]
    BY <1>2, <1>5
  <2>4. /\ "per_case" \in Points
        /\ "per_case" \notin Querying \cup {"rerank"}
    BY DEF Points, Querying
  <2> HIDE DEF directory
  <2> QED
    BY <1>1, <1>5, <2>1, <2>2, <2>3, <2>4, PublishKeepsInv DEF Goto
<1>6. CASE /\ pc[r] = "per_case"
           /\ artifacts' = [artifacts EXCEPT ![experiment[r]].per_case = r]
           /\ Goto(r, "returned")
  <2> DEFINE directory == [Directory(r) EXCEPT !.per_case = r]
  <2>1. /\ directory \in DirectoryType
        /\ directory.present = Directory(r).present
        /\ directory.aggregate = Directory(r).aggregate
        /\ directory.per_case = r
    BY <1>2 DEF DirectoryType
  <2>2. /\ Directory(r).present /\ Directory(r).aggregate = r
    BY <1>2, <1>6 DEF Publishing
  <2>3. artifacts' = [artifacts EXCEPT ![experiment[r]] = directory]
    BY <1>2, <1>6
  <2>4. /\ "returned" \in Points /\ "returned" \in Ended /\ "returned" \notin Publishing
        /\ "returned" \notin Querying \cup {"rerank"}
    BY DEF Points, Querying, Ended, Publishing
  <2> HIDE DEF directory
  <2> QED
    BY <1>1, <1>6, <2>1, <2>2, <2>3, <2>4, PublishKeepsInv DEF Goto
<1> QED
  BY <1>3, <1>4, <1>5, <1>6 DEF MakeDirectory, WriteAggregate, WritePerCase

LEMMA IndexChangesKeepInv ==
    ASSUME ExperimentInv, IndexChanges
    PROVE  ExperimentInv'
<1>1. IndexTypeOK'
  <2>1. indexed \in 0..PassageCount
    BY DEF ExperimentInv, IndexTypeOK
  <2>2. exists' \in BOOLEAN
    BY DEF ExperimentInv, IndexTypeOK, IndexChanges
  <2>3. indexed' = 0 \/ (indexed < PassageCount /\ indexed' = indexed + 1)
    BY DEF IndexChanges
  <2>4. indexed' \in 0..PassageCount
    BY <2>1, <2>3, ExperimentAssumption
  <2> QED BY <2>2, <2>4 DEF IndexTypeOK
<1>2. UNCHANGED <<mode, experiment, pc, lexical, found, reranked, artifacts>>
  BY DEF IndexChanges, runVars
<1>3. (\A r \in Runs : RankingInv(r)' /\ PublishInv(r)')
        /\ (\A e \in ExperimentIds : FilesInv(e)')
        /\ (\A r, q \in Runs : SoleWriter(r, q)')
  BY <1>2 DEF ExperimentInv, RankingInv, PublishInv, Directory, FilesInv, SoleWriter
<1>4. RunTypeOK' /\ ArtifactTypeOK'
  BY <1>2 DEF ExperimentInv, RunTypeOK, ArtifactTypeOK
<1> QED
  BY <1>1, <1>3, <1>4 DEF ExperimentInv

LEMMA ExperimentNextKeepsInv ==
    ASSUME ExperimentInv, [Next]_vars
    PROVE  ExperimentInv' /\ \A e \in ExperimentIds : FilesKept(e)
<1>1. CASE UNCHANGED vars
  BY <1>1 DEF vars, ExperimentInv, RunTypeOK, IndexTypeOK, ArtifactTypeOK, RankingInv,
              PublishInv, Directory, FilesInv, SoleWriter, FilesKept
<1>2. CASE IndexChanges
  BY <1>2, IndexChangesKeepInv DEF IndexChanges, FilesKept
<1>3. ASSUME NEW r \in Runs,
             \/ Begin(r) \/ QueryRaises(r) \/ Evaluate(r) \/ CheckDirectory(r) \/ Crash(r)
             \/ QueryBm25(r) \/ QueryDense(r) \/ Rerank(r)
      PROVE  ExperimentInv' /\ \A e \in ExperimentIds : FilesKept(e)
  <2>1. UNCHANGED artifacts
    BY <1>3 DEF Begin, QueryRaises, Evaluate, CheckDirectory, Crash, QueryBm25,
                QueryDense, Rerank
  <2> QED
    BY <1>3, <2>1, ControlKeepsInv, QueryBm25KeepsInv, QueryDenseKeepsInv, RerankKeepsInv
       DEF FilesKept
<1>4. ASSUME NEW r \in Runs, MakeDirectory(r) \/ WriteAggregate(r) \/ WritePerCase(r)
      PROVE  ExperimentInv' /\ \A e \in ExperimentIds : FilesKept(e)
  BY <1>4, PublicationKeepsInv
<1> QED
  BY <1>1, <1>2, <1>3, <1>4 DEF Next, Step

------------------------------------------------------------------------------
THEOREM ExperimentInvariant == Spec => []ExperimentInv
BY ExperimentInitInv, ExperimentNextKeepsInv, PTL DEF Spec

(* Every run keeps its variables in range, and never reranks more cases    *)
(* than it queried.                                                        *)
THEOREM ExperimentTypeCorrect == Spec => []TypeOK
<1>1. ExperimentInv => TypeOK
  BY DEF ExperimentInv, RunTypeOK, IndexTypeOK, ArtifactTypeOK, RankingInv, TypeOK, Points
<1> QED
  BY <1>1, ExperimentInvariant, PTL

(* However many runs of one ID pass the check for an existing directory    *)
(* together, the two files of an experiment come from one of them          *)
(* (write_evaluation_artifacts).                                           *)
THEOREM ArtifactsComeFromOneRun == Spec => []ArtifactsAreOfOneRun
<1>1. ExperimentInv => ArtifactsAreOfOneRun
  BY DEF ExperimentInv, FilesInv, ArtifactsAreOfOneRun
<1> QED
  BY <1>1, ExperimentInvariant, PTL

(* What a reranked run publishes has enough candidates in every case,      *)
(* whatever a rebuild does to the index below its queries (main of         *)
(* run_retrieval_baseline.py, rerank_retrieval_run).                       *)
THEOREM RerankedArtifactsAreFull == Spec => []RerankedResultsAreFull
<1>1. ExperimentInv => RerankedResultsAreFull
  <2> SUFFICES ASSUME ExperimentInv, NEW r \in Runs,
                      artifacts[experiment[r]].aggregate = r, mode[r] = "hybrid-rerank"
               PROVE  /\ Len(found[r]) = CaseCount
                      /\ \A i \in 1..CaseCount : found[r][i] >= FinalK
    BY DEF RerankedResultsAreFull
  <2>1. reranked[r] = CaseCount
    BY DEF ExperimentInv, PublishInv, Directory
  <2>2. found[r] \in Seq(0..CandidateK)
    BY DEF ExperimentInv, RunTypeOK
  <2>3. Len(found[r]) \in Nat /\ CaseCount \in Nat
    BY <2>2, ExperimentAssumption
  <2> QED BY <2>1, <2>3 DEF ExperimentInv, RankingInv
<1> QED
  BY <1>1, ExperimentInvariant, PTL

(* A published file is never overwritten, not even by a run that checked   *)
(* the directory before it existed (write_evaluation_artifacts, mkdir).    *)
THEOREM ResultsAreNeverOverwritten == Spec => ResultsAreKept
<1>1. ExperimentInv /\ [Next]_vars =>
        [\A e \in ExperimentIds :
          /\ artifacts[e].aggregate # Nobody => artifacts'[e].aggregate = artifacts[e].aggregate
          /\ artifacts[e].per_case # Nobody => artifacts'[e].per_case = artifacts[e].per_case]_vars
  BY ExperimentNextKeepsInv DEF FilesKept
<1> QED
  BY <1>1, ExperimentInvariant, PTL DEF Spec, ResultsAreKept
==============================================================================
