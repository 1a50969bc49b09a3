----------------------------- MODULE SourceStore -----------------------------
(***************************************************************************)
(* The PostgreSQL side of ingestion: the authoritative source rows and the *)
(* audit job of every ingestion attempt, with the transactions of          *)
(* PostgresSourceIngestionRepository as operators.                         *)
(*                                                                         *)
(* Passages and questions of one snapshot are written by one transaction,  *)
(* so one cell per snapshot holds both.                                    *)
(***************************************************************************)
EXTENDS Corpus

CONSTANT
    Attempts     \* invocations of `make ingest`; each starts at most one job

JobStatuses == {"none", "running", "succeeded", "failed"}
FailureCategories == {"persistence", "embedding", "index"}

JobRow == [snapshot : Snapshots \cup {Missing},
           status   : JobStatuses,
           category : FailureCategories \cup {"none"}]
NoJob == [snapshot |-> Missing, status |-> "none", category |-> "none"]

VARIABLES
    snapshotRows,   \* source_snapshots: the set of snapshot identifiers present
    factRows,       \* source_passages + benchmark_questions of each snapshot
    jobs            \* ingestion_jobs: the row of each attempt

storeVars == <<snapshotRows, factRows, jobs>>

StoreTypeOK ==
    /\ snapshotRows \subseteq Snapshots
    /\ factRows \in [Snapshots -> Versions \cup {Missing}]
    /\ jobs \in [Attempts -> JobRow]

StoreInit ==
    /\ snapshotRows = {}
    /\ factRows = [s \in Snapshots |-> Missing]
    /\ jobs = [a \in Attempts |-> NoJob]

Persisted(s) == factRows[s] # Missing

(***************************************************************************)
(* start_job: one transaction inserts the snapshot row, if it is not there *)
(* yet, and a RUNNING job under a fresh uuid4.                             *)
(***************************************************************************)
StartJob(a, s) ==
    /\ snapshotRows' = snapshotRows \cup {s}
    /\ jobs' = [jobs EXCEPT ![a] = [snapshot |-> s,
                                    status   |-> "running",
                                    category |-> "none"]]
    /\ UNCHANGED factRows

(* Mutant: a later attempt overwrites the rows (ON CONFLICT DO UPDATE).    *)
PersistSourceFacts_overwrites(s, version) ==
    /\ snapshotRows' = snapshotRows \cup {s}
    /\ factRows' = [factRows EXCEPT ![s] = version]
    /\ UNCHANGED jobs

(***************************************************************************)
(* persist_source_facts: one transaction, every insert ON CONFLICT DO      *)
(* NOTHING, so the first writer of a snapshot wins.                        *)
(***************************************************************************)
PersistSourceFacts(s, version) ==
    /\ snapshotRows' = snapshotRows \cup {s}
    /\ factRows' = [factRows EXCEPT ![s] = IF @ = Missing THEN version ELSE @]
    /\ UNCHANGED jobs

(***************************************************************************)
(* _finish_job: UPDATE by job id, whatever status the row has now.         *)
(***************************************************************************)
FinishJob(a, status, category) ==
    /\ jobs' = [jobs EXCEPT ![a].status = status, ![a].category = category]
    /\ UNCHANGED <<snapshotRows, factRows>>

SucceedJob(a) == FinishJob(a, "succeeded", "none")
FailJob(a, category) == FinishJob(a, "failed", category)
==============================================================================
