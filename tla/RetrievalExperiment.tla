------------------------- MODULE RetrievalExperiment -------------------------
(***************************************************************************)
(* scripts/run_retrieval_baseline.py: runs of an experiment query the      *)
(* index case by case while other scripts rebuild it, rerank all cases     *)
(* afterwards, evaluate, and publish two artifact files in the directory   *)
(* of their experiment ID.  Runs may share an ID: an operator who repeats  *)
(* a run, or starts it twice.                                              *)
(*                                                                         *)
(* A retrieval is abstracted to the number of passages it found (what it   *)
(* does with them is HybridRetrieval), metrics to the run they come from.  *)
(*                                                                         *)
(* pc:  idle - bm25 - dense - rerank - evaluate - exists - mkdir -         *)
(*      aggregate - per_case - returned                                    *)
(***************************************************************************)
EXTENDS Integers, Sequences

CONSTANTS
    Runs,            \* runs of the script
    ExperimentIds,   \* values of --experiment-id
    Nobody,          \* no run has written the file
    CaseCount,       \* cases of the split
    PassageCount,    \* passages of the corpus
    CandidateK,      \* passages asked for: candidate_k, or top_k without reranking
    FinalK,          \* final_k of the reranking
    Faults,          \* the kinds of failure the environment may produce
    Unreliable       \* the runs that meet them

(* query: a query, an embedding or a scoring raises                        *)
(* git: git rev-parse fails                                                *)
(* disk: a file or directory cannot be written                             *)
(* crash: the process is killed between two of its steps                   *)
FaultKinds == {"query", "git", "disk", "crash"}

ASSUME ExperimentAssumption ==
    /\ Nobody \notin Runs
    /\ CaseCount \in Nat \ {0}
    /\ PassageCount \in Nat
    /\ FinalK \in Nat \ {0} /\ CandidateK \in Nat \ {0} /\ FinalK <= CandidateK
    /\ Faults \subseteq FaultKinds
    /\ Unreliable \subseteq Runs

Fails(r, kind) == r \in Unreliable /\ kind \in Faults

Modes == {"bm25", "dense", "hybrid", "hybrid-rerank"}

VARIABLES
    exists,        \* whether the collection exists
    indexed,       \* how many passages it holds
    mode,          \* --mode of each run
    experiment,    \* --experiment-id of each run
    pc,
    lexical,       \* BM25 candidates of the current case
    found,         \* candidates of the cases queried so far
    reranked,      \* how many cases are reranked
    artifacts      \* artifacts/<experiment_id>; a file counts once it is whole

indexVars == <<exists, indexed>>
runVars == <<mode, experiment, pc, lexical, found, reranked>>
vars == <<exists, indexed, mode, experiment, pc, lexical, found, reranked, artifacts>>

Ended == {"returned", "raised", "crashed"}
NoDirectory == [present |-> FALSE, aggregate |-> Nobody, per_case |-> Nobody]

TypeOK ==
    /\ exists \in BOOLEAN
    /\ indexed \in 0..PassageCount
    /\ mode \in [Runs -> Modes]
    /\ experiment \in [Runs -> ExperimentIds]
    /\ pc \in [Runs -> {"idle", "bm25", "dense", "rerank", "evaluate", "exists",
                        "mkdir", "aggregate", "per_case"} \cup Ended]
    /\ lexical \in [Runs -> 0..CandidateK]
    /\ \A r \in Runs :
          /\ Len(found[r]) <= CaseCount
          /\ found[r] \in Seq(0..CandidateK)
          /\ reranked[r] \in 0..Len(found[r])
    /\ artifacts \in [ExperimentIds -> [present : BOOLEAN,
                                        aggregate : Runs \cup {Nobody},
                                        per_case : Runs \cup {Nobody}]]

Init ==
    /\ exists = TRUE
    /\ indexed = PassageCount
    /\ mode \in [Runs -> Modes]
    /\ experiment \in [Runs -> ExperimentIds]
    /\ pc = [r \in Runs |-> "idle"]
    /\ lexical = [r \in Runs |-> 0]
    /\ found = [r \in Runs |-> <<>>]
    /\ reranked = [r \in Runs |-> 0]
    /\ artifacts = [e \in ExperimentIds |-> NoDirectory]

Goto(r, to) == pc' = [pc EXCEPT ![r] = to]

(* delete_collection, ensure_collection and upsert of a rebuild that runs  *)
(* beside the experiment, and may end anywhere.                            *)
IndexChanges ==
    /\ \/ exists /\ exists' = FALSE /\ indexed' = 0
       \/ ~exists /\ exists' = TRUE /\ indexed' = 0
       \/ exists /\ indexed < PassageCount /\ indexed' = indexed + 1 /\ UNCHANGED exists
    /\ UNCHANGED <<runVars, artifacts>>

------------------------------------------------------------------------------
FirstQuery(r) == IF mode[r] = "dense" THEN "dense" ELSE "bm25"

(* Mutant: the directory is made before the queries run.                   *)
Begin_makes_directory(r) ==
    /\ pc[r] = "idle"
    /\ Goto(r, FirstQuery(r))
    /\ artifacts' = [artifacts EXCEPT ![experiment[r]].present = TRUE]
    /\ UNCHANGED <<indexVars, mode, experiment, lexical, found, reranked>>

(* The source and the cases of the split are loaded.                       *)
Begin(r) ==
    /\ pc[r] = "idle"
    /\ \/ Goto(r, FirstQuery(r))
       \/ Goto(r, "raised")
    /\ UNCHANGED <<indexVars, mode, experiment, lexical, found, reranked, artifacts>>

Smaller(a, b) == IF a < b THEN a ELSE b
Larger(a, b) == IF a < b THEN b ELSE a

(* The case is done: the next one, or what follows the last.               *)
Continue(r, candidates) ==
    /\ found' = [found EXCEPT ![r] = Append(@, candidates)]
    /\ Goto(r, IF Len(found[r]) + 1 < CaseCount THEN FirstQuery(r)
               ELSE IF mode[r] = "hybrid-rerank" THEN "rerank" ELSE "evaluate")

(* Objects without a lexical match are not found.                          *)
QueryBm25(r) ==
    /\ pc[r] = "bm25"
    /\ exists
    /\ \E n \in 0..Smaller(CandidateK, indexed) :
          IF mode[r] = "bm25"
          THEN Continue(r, n) /\ UNCHANGED lexical
          ELSE /\ lexical' = [lexical EXCEPT ![r] = n]
               /\ Goto(r, "dense")
               /\ UNCHANGED found
    /\ UNCHANGED <<indexVars, mode, experiment, reranked, artifacts>>

(* near_vector finds something wherever there is something; the fused list *)
(* has as many candidates as the two lists differ, up to candidate_k.      *)
QueryDense(r) ==
    /\ pc[r] = "dense"
    /\ exists
    /\ LET n == Smaller(CandidateK, indexed)
       IN  IF mode[r] = "dense"
           THEN Continue(r, n) /\ UNCHANGED lexical
           ELSE /\ \E candidates \in Larger(n, lexical[r])..Smaller(CandidateK, n + lexical[r]) :
                      Continue(r, candidates)
                /\ lexical' = [lexical EXCEPT ![r] = 0]
    /\ UNCHANGED <<indexVars, mode, experiment, reranked, artifacts>>

(* A query meets no collection, or fails; the exception ends the run.      *)
QueryRaises(r) ==
    /\ pc[r] \in {"bm25", "dense"}
    /\ ~exists \/ Fails(r, "query")
    /\ Goto(r, "raised")
    /\ UNCHANGED <<indexVars, mode, experiment, lexical, found, reranked, artifacts>>

(* Mutant: a case without enough candidates is left out.                   *)
Rerank_skips(r) ==
    /\ pc[r] = "rerank"
    /\ reranked' = [reranked EXCEPT ![r] = @ + 1]
    /\ Goto(r, IF reranked[r] + 1 = CaseCount THEN "evaluate" ELSE "rerank")
    /\ UNCHANGED <<indexVars, mode, experiment, lexical, found, artifacts>>

(* One case after the other; too few candidates end the run.               *)
Rerank(r) ==
    /\ pc[r] = "rerank"
    /\ \/ /\ found[r][reranked[r] + 1] >= FinalK
          /\ reranked' = [reranked EXCEPT ![r] = @ + 1]
          /\ Goto(r, IF reranked[r] + 1 = CaseCount THEN "evaluate" ELSE "rerank")
       \/ /\ found[r][reranked[r] + 1] < FinalK \/ Fails(r, "query")
          /\ Goto(r, "raised")
          /\ UNCHANGED reranked
    /\ UNCHANGED <<indexVars, mode, experiment, lexical, found, artifacts>>

(* The code revision is read only now.  Every case has exactly one ranking *)
(* without duplicates, so the evaluation itself does not raise.            *)
Evaluate(r) ==
    /\ pc[r] = "evaluate"
    /\ \/ Goto(r, "exists")
       \/ Fails(r, "git") /\ Goto(r, "raised")
    /\ UNCHANGED <<indexVars, mode, experiment, lexical, found, reranked, artifacts>>

------------------------------------------------------------------------------
(* write_evaluation_artifacts                                              *)

Directory(r) == artifacts[experiment[r]]

CheckDirectory(r) ==
    /\ pc[r] = "exists"
    /\ Goto(r, IF Directory(r).present THEN "raised" ELSE "mkdir")
    /\ UNCHANGED <<indexVars, mode, experiment, lexical, found, reranked, artifacts>>

(* Mutant: mkdir(parents=True, exist_ok=True).                             *)
MakeDirectory_exist_ok(r) ==
    /\ pc[r] = "mkdir"
    /\ Goto(r, "aggregate")
    /\ artifacts' = [artifacts EXCEPT ![experiment[r]].present = TRUE]
    /\ UNCHANGED <<indexVars, mode, experiment, lexical, found, reranked>>

(* mkdir raises if the directory has appeared since the check.             *)
MakeDirectory(r) ==
    /\ pc[r] = "mkdir"
    /\ \/ /\ ~Directory(r).present
          /\ artifacts' = [artifacts EXCEPT ![experiment[r]].present = TRUE]
          /\ Goto(r, "aggregate")
       \/ /\ Directory(r).present \/ Fails(r, "disk")
          /\ Goto(r, "raised")
          /\ UNCHANGED artifacts
    /\ UNCHANGED <<indexVars, mode, experiment, lexical, found, reranked>>

(* Mutant: a failing write is logged and the script goes on.               *)
WriteAggregate_suppressed(r) ==
    /\ pc[r] = "aggregate"
    /\ \/ artifacts' = [artifacts EXCEPT ![experiment[r]].aggregate = r]
       \/ Fails(r, "disk") /\ UNCHANGED artifacts
    /\ Goto(r, "per_case")
    /\ UNCHANGED <<indexVars, mode, experiment, lexical, found, reranked>>

WriteAggregate(r) ==
    /\ pc[r] = "aggregate"
    /\ \/ /\ artifacts' = [artifacts EXCEPT ![experiment[r]].aggregate = r]
          /\ Goto(r, "per_case")
       \/ Fails(r, "disk") /\ Goto(r, "raised") /\ UNCHANGED artifacts
    /\ UNCHANGED <<indexVars, mode, experiment, lexical, found, reranked>>

WritePerCase(r) ==
    /\ pc[r] = "per_case"
    /\ \/ /\ artifacts' = [artifacts EXCEPT ![experiment[r]].per_case = r]
          /\ Goto(r, "returned")
       \/ Fails(r, "disk") /\ Goto(r, "raised") /\ UNCHANGED artifacts
    /\ UNCHANGED <<indexVars, mode, experiment, lexical, found, reranked>>

Crash(r) ==
    /\ Fails(r, "crash")
    /\ pc[r] \notin {"idle"} \cup Ended
    /\ Goto(r, "crashed")
    /\ UNCHANGED <<indexVars, mode, experiment, lexical, found, reranked, artifacts>>

Step(r) ==
    \/ QueryBm25(r) \/ QueryDense(r) \/ QueryRaises(r) \/ Rerank(r) \/ Evaluate(r)
    \/ CheckDirectory(r) \/ MakeDirectory(r) \/ WriteAggregate(r) \/ WritePerCase(r)

Next == IndexChanges \/ \E r \in Runs : Begin(r) \/ Step(r) \/ Crash(r)

Spec == Init /\ [][Next]_vars

(* A script that began runs to its end unless it is killed.                *)
FairSpec == Spec /\ \A r \in Runs : WF_vars(Step(r))

------------------------------------------------------------------------------
(* docs/data-and-evaluation.md, docs/experiment-versioning.md              *)

(* "a pre-existing directory is rejected so a formal result cannot be      *)
(* overwritten": whatever is published under an ID stays, although runs of *)
(* one ID overlap between their checks and their writes.                   *)
ResultsAreKept ==
    [][\A e \in ExperimentIds :
          /\ artifacts[e].aggregate # Nobody => artifacts'[e].aggregate = artifacts[e].aggregate
          /\ artifacts[e].per_case # Nobody => artifacts'[e].per_case = artifacts[e].per_case]_vars

(* The two files of an experiment come from one run, and cases are only    *)
(* published below their aggregate.                                        *)
ArtifactsAreOfOneRun ==
    \A e \in ExperimentIds :
        artifacts[e].per_case # Nobody => artifacts[e].aggregate = artifacts[e].per_case

(* A published reranked result rests on enough candidates in every case:   *)
(* when a rebuild empties the index below the queries, the run ends before *)
(* it publishes.  (The other modes publish whatever they found.)           *)
RerankedResultsAreFull ==
    \A r \in Runs :
        artifacts[experiment[r]].aggregate = r /\ mode[r] = "hybrid-rerank" =>
            /\ Len(found[r]) = CaseCount
            /\ \A i \in 1..CaseCount : found[r][i] >= FinalK

(* One of several overlapping runs of an ID gets its result published if   *)
(* none of them meets a failure: they do not reject each other.            *)
SomeRunPublishes ==
    \A e \in ExperimentIds :
        (\E r \in Runs : experiment[r] = e /\ pc[r] = "exists")
            ~> \/ artifacts[e].per_case # Nobody
               \/ \E r \in Unreliable : experiment[r] = e /\ pc[r] \in {"raised", "crashed"}
==============================================================================
