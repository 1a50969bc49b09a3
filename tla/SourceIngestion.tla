--------------------------- MODULE SourceIngestion ---------------------------
(***************************************************************************)
(* SourceIngestionService.ingest: every attempt is one process that loads  *)
(* the corpus, starts a job, persists the source rows, embeds, fills the   *)
(* index and records the outcome.  Attempts interleave at every await.     *)
(*                                                                         *)
(* pc:  idle - start - persist - embed - ensure/check/create -             *)
(*      upsert/update - succeed - returned;  an exception after start_job  *)
(*      leads to fail (the except block) and from there to raised.         *)
(***************************************************************************)
EXTENDS SourceStore, SourceIndex

ASSUME AttemptsAssumption == Attempts \subseteq Clients

VARIABLE
    phase       \* the category the except block of each attempt would record

vars == <<snapshotRows, factRows, jobs, contract, objects,
          pc, loaded, vectors, cursor, phase>>

Ended == {"returned", "raised", "crashed"}
IngestPoints ==
    {"idle", "start", "persist", "embed", "ensure", "check", "create",
     "upsert", "update", "succeed", "fail"} \cup Ended

PhaseTypeOK == phase \in [Attempts -> FailureCategories \cup {"none"}]

TypeOK ==
    /\ StoreTypeOK
    /\ IndexTypeOK
    /\ PhaseTypeOK
    /\ pc \in [Clients -> IngestPoints]

Init == StoreInit /\ IndexInit /\ phase = [a \in Attempts |-> "none"]

------------------------------------------------------------------------------
(* A transaction that commits continues, or the acknowledgement of its     *)
(* COMMIT is lost and the client sees an exception.                        *)
Committed(a, returned, raised) ==
    \/ Goto(a, returned)
    \/ Fails(a, "store_ack") /\ Goto(a, raised)

EnterPhase(a, category) ==
    phase' = [phase EXCEPT ![a] = IF pc'[a] = "fail" THEN @ ELSE category]

IngestLoad(a) ==
    /\ Load(a, "start", "raised")
    /\ UNCHANGED <<storeVars, phase>>

(* Mutant: the embedding phase begins before the rows are persisted.       *)
IngestStart_early(a) ==
    /\ Move(a, "start", "persist")
    /\ StartJob(a, loaded[a].snapshot)
    /\ phase' = [phase EXCEPT ![a] = "embedding"]
    /\ UNCHANGED <<collectionVars, loaded, vectors, cursor>>

(* start_job is awaited before the try block: no handler sees its failure. *)
IngestStart(a) ==
    /\ pc[a] = "start"
    /\ StartJob(a, loaded[a].snapshot)
    /\ \/ /\ Goto(a, "persist")
          /\ phase' = [phase EXCEPT ![a] = "persistence"]
       \/ /\ Fails(a, "store_ack")
          /\ Goto(a, "raised")
          /\ UNCHANGED phase
    /\ UNCHANGED <<collectionVars, loaded, vectors, cursor>>

IngestPersist(a) ==
    /\ pc[a] = "persist"
    /\ PersistSourceFacts(loaded[a].snapshot, loaded[a].version)
    /\ Committed(a, "embed", "fail")
    /\ EnterPhase(a, "embedding")
    /\ UNCHANGED <<collectionVars, loaded, vectors, cursor>>

IngestEmbed(a) ==
    /\ EmbedBatch(a, "ensure", "fail")
    /\ phase' = [phase EXCEPT ![a] = IF pc'[a] = "ensure" THEN "index" ELSE @]
    /\ UNCHANGED storeVars

IngestEnsure(a) ==
    /\ \/ EnsureExists(a)
       \/ EnsureContract(a, "upsert", "fail")
       \/ EnsureCreate(a, "upsert", "fail")
    /\ UNCHANGED <<storeVars, phase>>

IngestUpsert(a) ==
    /\ \/ UpsertInsert(a, "succeed", "fail")
       \/ UpsertAlreadyExists(a)
       \/ UpsertNoCollection(a, "fail")
       \/ UpsertUpdate(a, "succeed", "fail")
    /\ UNCHANGED <<storeVars, phase>>

(* Mutant: index requests are awaited outside the try block.               *)
IngestIndexRefused_unhandled(a) ==
    /\ IndexRefuses(a, "raised")
    /\ UNCHANGED <<storeVars, phase>>

IngestIndexRefused(a) ==
    /\ IndexRefuses(a, "fail")
    /\ UNCHANGED <<storeVars, phase>>

(* succeed_job is inside the try block, still in the index phase.          *)
IngestSucceed(a) ==
    /\ pc[a] = "succeed"
    /\ SucceedJob(a)
    /\ Committed(a, "returned", "fail")
    /\ UNCHANGED <<collectionVars, loaded, vectors, cursor, phase>>

(* The except block: record the phase, then re-raise.                      *)
IngestFail(a) ==
    /\ pc[a] = "fail"
    /\ FailJob(a, phase[a])
    /\ Goto(a, "raised")
    /\ UNCHANGED <<collectionVars, loaded, vectors, cursor, phase>>

(* Mutant: a failing persist is swallowed and the attempt goes on.         *)
IngestStoreRefused_swallowed(a) ==
    /\ Fails(a, "store")
    /\ \/ pc[a] \in {"start", "fail"} /\ Goto(a, "raised")
       \/ pc[a] = "succeed" /\ Goto(a, "fail")
       \/ pc[a] = "persist" /\ Goto(a, "embed")
    /\ UNCHANGED <<storeVars, collectionVars, loaded, vectors, cursor, phase>>

(* A transaction fails and is rolled back; in the except block nothing     *)
(* catches that, and the job keeps the row it has.                         *)
IngestStoreRefused(a) ==
    /\ Fails(a, "store")
    /\ \/ pc[a] \in {"start", "fail"} /\ Goto(a, "raised")
       \/ pc[a] \in {"persist", "succeed"} /\ Goto(a, "fail")
    /\ UNCHANGED <<storeVars, collectionVars, loaded, vectors, cursor, phase>>

(* `except Exception` runs neither for a killed process nor for            *)
(* CancelledError or KeyboardInterrupt.                                    *)
Crash(c) ==
    /\ Fails(c, "crash")
    /\ pc[c] \notin {"idle"} \cup Ended
    /\ Goto(c, "crashed")
    /\ UNCHANGED <<storeVars, collectionVars, loaded, vectors, cursor, phase>>

IngestStep(a) ==
    \/ IngestStart(a) \/ IngestPersist(a) \/ IngestEmbed(a)
    \/ IngestEnsure(a) \/ IngestUpsert(a) \/ IngestIndexRefused(a)
    \/ IngestSucceed(a) \/ IngestFail(a) \/ IngestStoreRefused(a)

Next == \E a \in Attempts : IngestLoad(a) \/ IngestStep(a) \/ Crash(a)

Spec == Init /\ [][Next]_vars

(* Nobody has to start a script, but an event loop runs a started one to   *)
(* its end, and every request is answered or raises.                       *)
FairSpec == Spec /\ \A a \in Attempts : WF_vars(IngestStep(a))

------------------------------------------------------------------------------
(* docs/ingestion.md, README: what a job row promises about the stores.    *)

(* A job reads SUCCEEDED only while every passage of its snapshot is in    *)
(* PostgreSQL and in a collection of the expected contract: no order of    *)
(* concurrent, failed or killed attempts records success early.            *)
SucceededJobIsComplete ==
    \A a \in Attempts :
        jobs[a].status = "succeeded" =>
            /\ Persisted(jobs[a].snapshot)
            /\ contract = "legal_passage_v1"
            /\ Indexed(jobs[a].snapshot)

(* PostgreSQL is the system of record: ingestion never leaves an object in *)
(* the derived index whose snapshot has no authoritative rows.             *)
IndexedPassagesArePersisted ==
    \A s \in Snapshots, p \in Passages :
        objects[StableId(s, p)] # Missing => s \in snapshotRows /\ Persisted(s)

(* Upserts never make the server invent the collection: ensure_collection  *)
(* has always run first, however the attempts overlap.                     *)
CollectionKeepsContract == contract # "auto_schema"

(* The category of a FAILED job tells how far the attempt really got.      *)
CategoryTellsProgress ==
    \A a \in Attempts :
        jobs[a].status = "failed" =>
            /\ jobs[a].category = "persistence" => vectors[a] = 0
            /\ jobs[a].category = "embedding" =>
                  Persisted(jobs[a].snapshot) /\ vectors[a] < CorpusCount
            /\ jobs[a].category = "index" =>
                  Persisted(jobs[a].snapshot) /\ vectors[a] = CorpusCount

(* "later retries never alter immutable source rows"                       *)
SourceRowsAreImmutable ==
    [][/\ snapshotRows \subseteq snapshotRows'
       /\ \A s \in Snapshots :
             Persisted(s) => factRows'[s] = factRows[s]]_vars

(* docs/ingestion.md: "If a source persistence, embedding, or index        *)
(* operation fails, the job records only the safe category": an attempt    *)
(* that raised after its job began has left a FAILED row with its phase.   *)
FailureIsRecorded ==
    \A a \in Attempts :
        pc[a] = "raised" /\ phase[a] # "none" =>
            jobs[a].status = "failed" /\ jobs[a].category = phase[a]

(* "Retrying an interrupted ingestion therefore restores the same derived  *)
(* objects": an attempt that meets no failure of its own and begins after  *)
(* all other scripts have ended, killed or failed anywhere, succeeds.      *)
(* Except where auto-schema recreated the collection under a concurrent    *)
(* rebuild: ensure_collection refuses that drift and only a rebuild helps. *)
SoleRetrySucceeds ==
    \A a \in Attempts \ Unreliable :
        (/\ pc[a] = "start"
         /\ contract # "auto_schema"
         /\ \A c \in Clients \ {a} : pc[c] \in Ended)
            ~> jobs[a].status = "succeeded"

(* The refinement mapping: job rows, and which snapshots are complete.     *)
Ledger == INSTANCE IngestionLedger WITH
    MayOverturn <- "store_ack" \in Faults,
    status    <- [a \in Attempts |-> jobs[a].status],
    subject   <- [a \in Attempts |-> jobs[a].snapshot],
    persisted <- {s \in Snapshots : Persisted(s)},
    indexed   <- {s \in Snapshots : Indexed(s)}

(* Ingestion implements the ledger: every interleaving of attempts and of  *)
(* failures is a sequence of its steps.  A FAILED row never changes again, *)
(* and a SUCCEEDED one only where the acknowledgement of the COMMIT that   *)
(* wrote it can be lost: the UPDATE of fail_job does not look at the row.  *)
ImplementsLedger == Ledger!LedgerSpec
==============================================================================
