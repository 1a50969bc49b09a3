------------------------ MODULE IngestionSystem_proofs ------------------------
(***************************************************************************)
(* What ingestion guarantees for any number of attempts, snapshots,        *)
(* passages and contents, under every failure of FaultKinds: first of      *)
(* attempts alone (SourceIngestion), then of attempts and index rebuilds   *)
(* together (IngestionSystem).                                             *)
(***************************************************************************)
EXTENDS IngestionSystem, TLAPS, FiniteSetTheorems

------------------------------------------------------------------------------
(* SourceIngestion                                                         *)
(*                                                                         *)
(* SucceededJobIsComplete is not inductive: it needs to know what each     *)
(* attempt has achieved at each control point.  IInv says so attempt by    *)
(* attempt; one step of an attempt re-establishes its own part, and the    *)
(* other attempts keep theirs because the stores only grow (Grows).        *)

Filling == {"upsert", "update", "succeed"}
Indexing == {"ensure", "check", "create"} \cup Filling
Working == {"persist", "embed"} \cup Indexing

(* Where the attempt is and what its job row, its phase and its local      *)
(* variables say then.                                                     *)
ControlInv(a) ==
    /\ pc[a] \in {"start", "fail"} \cup Working => loaded[a] \in Sources
    /\ pc[a] \in {"idle", "start"} =>
          /\ jobs[a].status = "none" /\ phase[a] = "none"
          /\ vectors[a] = 0 /\ cursor[a] = 1
    /\ pc[a] = "persist" => phase[a] = "persistence"
    /\ pc[a] = "embed" => phase[a] = "embedding"
    /\ pc[a] \in Indexing => phase[a] = "index"
    /\ pc[a] \in Working => jobs[a].status = "running"
    /\ pc[a] = "fail" =>
          /\ phase[a] # "none" /\ jobs[a].status \in {"running", "succeeded"}
          /\ "store_ack" \notin Faults => jobs[a].status = "running"
    /\ pc[a] \in {"ensure", "check", "create"} => cursor[a] = 1
    /\ pc[a] \in {"upsert", "update"} => cursor[a] <= CorpusCount
    /\ pc[a] = "succeed" => cursor[a] = CorpusCount + 1

(* The job row names the snapshot the attempt loaded, and a FAILED row the *)
(* phase it was in.                                                        *)
RowInv(a) ==
    /\ jobs[a].status # "none" =>
          /\ loaded[a] \in Sources
          /\ jobs[a].snapshot = loaded[a].snapshot
          /\ jobs[a].snapshot \in snapshotRows
    /\ jobs[a].status = "failed" => jobs[a].category = phase[a]

(* What each phase has achieved.                                           *)
PhaseInv(a) ==
    /\ phase[a] # "none" => loaded[a] \in Sources /\ jobs[a].status # "none"
    /\ phase[a] = "persistence" => vectors[a] = 0
    /\ phase[a] = "embedding" =>
          Persisted(loaded[a].snapshot) /\ vectors[a] < CorpusCount
    /\ phase[a] = "index" =>
          Persisted(loaded[a].snapshot) /\ vectors[a] = CorpusCount
    /\ phase[a] # "index" => cursor[a] = 1

(* How much of the snapshot is in the collection.                          *)
FillInv(a) ==
    /\ pc[a] \in Filling =>
          /\ contract = "legal_passage_v1"
          /\ \A p \in Passages : p < cursor[a] =>
                objects[StableId(loaded[a].snapshot, p)] # Missing
    /\ jobs[a].status = "succeeded" =>
          /\ Persisted(jobs[a].snapshot)
          /\ contract = "legal_passage_v1"
          /\ Indexed(jobs[a].snapshot)

AttemptInv(a) == ControlInv(a) /\ RowInv(a) /\ PhaseInv(a) /\ FillInv(a)

IInv ==
    /\ TypeOK
    /\ \A a \in Attempts : AttemptInv(a)
    /\ IndexedPassagesArePersisted
    /\ CollectionKeepsContract

(* In ingestion, rows and objects are never taken away.                    *)
Grows ==
    /\ snapshotRows \subseteq snapshotRows'
    /\ \A s \in Snapshots : factRows[s] # Missing => factRows'[s] # Missing
    /\ \A id \in StableIds : objects[id] # Missing => objects'[id] # Missing
    /\ contract = "legal_passage_v1" => contract' = "legal_passage_v1"

(* A step of one attempt leaves the local state of another alone.          *)
Untouched(b) ==
    /\ pc'[b] = pc[b] /\ loaded'[b] = loaded[b] /\ vectors'[b] = vectors[b]
    /\ cursor'[b] = cursor[b] /\ phase'[b] = phase[b] /\ jobs'[b] = jobs[b]

------------------------------------------------------------------------------
(* The initial state.                                                      *)
LEMMA InitIInv == Init => IInv
<1> SUFFICES ASSUME Init PROVE IInv
  OBVIOUS
<1> USE DEF Init, StoreInit, IndexInit
<1>1. TypeOK
  <2>1. StoreTypeOK
    BY DEF StoreTypeOK, JobRow, NoJob, JobStatuses
  <2>2. IndexTypeOK
    BY CorpusAssumption DEF IndexTypeOK, Contracts, NoSource
  <2>3. PhaseTypeOK /\ pc \in [Clients -> IngestPoints]
    BY DEF PhaseTypeOK, IngestPoints
  <2> QED
    BY <2>1, <2>2, <2>3 DEF TypeOK
<1>2. ASSUME NEW a \in Attempts PROVE AttemptInv(a)
  <2>1. /\ pc[a] = "idle" /\ phase[a] = "none" /\ vectors[a] = 0
        /\ cursor[a] = 1 /\ jobs[a].status = "none"
    BY AttemptsAssumption DEF NoJob
  <2> QED
    BY <2>1 DEF AttemptInv, ControlInv, RowInv, PhaseInv, FillInv,
                Working, Indexing, Filling
<1>3. IndexedPassagesArePersisted /\ CollectionKeepsContract
  BY DEF IndexedPassagesArePersisted, CollectionKeepsContract, StableIds, StableId
<1> QED
  BY <1>1, <1>2, <1>3 DEF IInv

(* An attempt keeps its part of the invariant while others make the stores *)
(* grow.                                                                   *)
LEMMA OtherAttemptKeepsInv ==
  ASSUME TypeOK, TypeOK', Grows, NEW b \in Attempts, Untouched(b), AttemptInv(b)
  PROVE  AttemptInv(b)'
<1>1. ControlInv(b)' /\ RowInv(b)'
  BY DEF AttemptInv, ControlInv, RowInv, Untouched, Grows
<1>2. loaded[b] \in Sources => loaded[b].snapshot \in Snapshots
  BY DEF Sources
<1>3. PhaseInv(b)'
  BY <1>2 DEF AttemptInv, PhaseInv, Untouched, Grows, Persisted
<1>4. FillInv(b)'
  <2>1. ASSUME pc[b] \in Filling
        PROVE  /\ contract' = "legal_passage_v1"
               /\ \A p \in Passages : p < cursor[b] =>
                    objects'[StableId(loaded[b].snapshot, p)] # Missing
    <3>1. loaded[b].snapshot \in Snapshots
      BY <2>1, <1>2 DEF AttemptInv, ControlInv, Working, Indexing
    <3> QED
      BY <2>1, <3>1 DEF AttemptInv, FillInv, Grows, StableId, StableIds
  <2>2. ASSUME jobs[b].status = "succeeded"
        PROVE  /\ factRows'[jobs[b].snapshot] # Missing
               /\ contract' = "legal_passage_v1"
               /\ \A p \in Passages : objects'[StableId(jobs[b].snapshot, p)] # Missing
    <3>1. jobs[b].snapshot \in Snapshots
      BY <2>2, <1>2 DEF AttemptInv, RowInv
    <3> QED
      BY <2>2, <3>1 DEF AttemptInv, FillInv, Grows, Persisted, Indexed,
                         StableId, StableIds
  <2> QED
    BY <2>1, <2>2 DEF FillInv, Untouched, Persisted, Indexed
<1> QED
  BY <1>1, <1>3, <1>4 DEF AttemptInv

(* What remains to be shown of a step of attempt a.                        *)
LEMMA StepPreservesInv ==
  ASSUME IInv, NEW a \in Attempts, TypeOK', Grows,
         \A b \in Attempts \ {a} : Untouched(b),
         AttemptInv(a)',
         IndexedPassagesArePersisted', CollectionKeepsContract'
  PROVE  IInv'
<1>1. ASSUME NEW b \in Attempts, b # a PROVE AttemptInv(b)'
  BY <1>1, OtherAttemptKeepsInv DEF IInv
<1> QED
  BY <1>1 DEF IInv

------------------------------------------------------------------------------
(* One lemma per action of an attempt.                                     *)

LEMMA LoadKeepsInv ==
  ASSUME IInv, NEW a \in Attempts, IngestLoad(a)
  PROVE  IInv'
<1> a \in Clients
  BY AttemptsAssumption
<1>1. /\ pc[a] = "idle" /\ vectors' = vectors /\ cursor' = cursor
      /\ phase' = phase /\ UNCHANGED storeVars /\ UNCHANGED collectionVars
      /\ \/ \E source \in Sources : /\ loaded' = [loaded EXCEPT ![a] = source]
                                    /\ pc' = [pc EXCEPT ![a] = "start"]
         \/ /\ loaded' = loaded
            /\ pc' = [pc EXCEPT ![a] = "raised"]
  BY DEF IngestLoad, Load, Goto, storeVars, collectionVars
<1> USE DEF IInv, TypeOK, storeVars, collectionVars
<1>2. TypeOK'
  BY <1>1 DEF StoreTypeOK, IndexTypeOK, PhaseTypeOK, IngestPoints, Ended
<1>3. Grows /\ IndexedPassagesArePersisted' /\ CollectionKeepsContract'
  BY <1>1 DEF Grows, IndexedPassagesArePersisted, CollectionKeepsContract, Persisted
<1>4. \A b \in Attempts \ {a} : Untouched(b)
  BY <1>1, AttemptsAssumption DEF IndexTypeOK, Untouched
<1>5. AttemptInv(a)'
  <2>1. /\ pc'[a] \in {"start", "raised"}
        /\ pc'[a] = "start" => loaded'[a] \in Sources
        /\ jobs'[a].status = "none" /\ phase'[a] = "none"
        /\ vectors'[a] = 0 /\ cursor'[a] = 1
    BY <1>1 DEF IndexTypeOK, AttemptInv, ControlInv
  <2> QED
    BY <2>1 DEF AttemptInv, ControlInv, RowInv, PhaseInv, FillInv,
                Working, Indexing, Filling
<1> QED
  BY <1>2, <1>3, <1>4, <1>5, StepPreservesInv

LEMMA StartKeepsInv ==
  ASSUME IInv, NEW a \in Attempts, IngestStart(a)
  PROVE  IInv'
<1> a \in Clients
  BY AttemptsAssumption
<1> DEFINE s == loaded[a].snapshot
<1>1. /\ pc[a] = "start" /\ UNCHANGED collectionVars /\ UNCHANGED factRows
      /\ loaded' = loaded /\ vectors' = vectors /\ cursor' = cursor
      /\ snapshotRows' = snapshotRows \cup {s}
      /\ jobs' = [jobs EXCEPT ![a] = [snapshot |-> s, status |-> "running",
                                      category |-> "none"]]
      /\ \/ /\ pc' = [pc EXCEPT ![a] = "persist"]
            /\ phase' = [phase EXCEPT ![a] = "persistence"]
         \/ /\ pc' = [pc EXCEPT ![a] = "raised"]
            /\ phase' = phase
  BY DEF IngestStart, StartJob, Goto
<1>2. loaded[a] \in Sources /\ s \in Snapshots
  BY <1>1 DEF IInv, AttemptInv, ControlInv, Sources
<1> USE DEF IInv, TypeOK, collectionVars
<1>3. TypeOK'
  BY <1>1, <1>2 DEF StoreTypeOK, IndexTypeOK, PhaseTypeOK, IngestPoints, Ended,
                    JobRow, JobStatuses, FailureCategories
<1>4. Grows /\ IndexedPassagesArePersisted' /\ CollectionKeepsContract'
  BY <1>1 DEF Grows, IndexedPassagesArePersisted, CollectionKeepsContract, Persisted
<1>5. \A b \in Attempts \ {a} : Untouched(b)
  BY <1>1, AttemptsAssumption DEF StoreTypeOK, PhaseTypeOK, Untouched
<1>6. AttemptInv(a)'
  <2>1. /\ jobs'[a].status = "running" /\ jobs'[a].snapshot = s
        /\ vectors'[a] = 0 /\ cursor'[a] = 1 /\ s \in snapshotRows'
        /\ \/ pc'[a] = "persist" /\ phase'[a] = "persistence"
           \/ pc'[a] = "raised" /\ phase'[a] = "none"
    BY <1>1 DEF StoreTypeOK, PhaseTypeOK, AttemptInv, ControlInv
  <2> QED
    BY <2>1, <1>1, <1>2 DEF AttemptInv, ControlInv, RowInv, PhaseInv, FillInv,
                Working, Indexing, Filling
<1> QED
  BY <1>3, <1>4, <1>5, <1>6, StepPreservesInv

LEMMA PersistKeepsInv ==
  ASSUME IInv, NEW a \in Attempts, IngestPersist(a)
  PROVE  IInv'
<1> a \in Clients
  BY AttemptsAssumption
<1> DEFINE s == loaded[a].snapshot
<1>1. /\ pc[a] = "persist" /\ UNCHANGED collectionVars /\ jobs' = jobs
      /\ loaded' = loaded /\ vectors' = vectors /\ cursor' = cursor
      /\ snapshotRows' = snapshotRows \cup {s}
      /\ factRows' = [factRows EXCEPT ![s] =
                        IF @ = Missing THEN loaded[a].version ELSE @]
      /\ \/ /\ pc' = [pc EXCEPT ![a] = "embed"]
            /\ phase' = [phase EXCEPT ![a] = "embedding"]
         \/ /\ pc' = [pc EXCEPT ![a] = "fail"]
            /\ phase' = phase
  BY DEF IngestPersist, PersistSourceFacts, Committed, EnterPhase, Goto,
         IInv, TypeOK, PhaseTypeOK
<1>2. /\ loaded[a] \in Sources /\ s \in Snapshots
      /\ loaded[a].version \in Versions /\ loaded[a].version # Missing
  BY <1>1, CorpusAssumption
     DEF IInv, AttemptInv, ControlInv, Sources, Working
<1> USE DEF IInv, TypeOK, collectionVars
<1>3. TypeOK'
  BY <1>1, <1>2 DEF StoreTypeOK, IndexTypeOK, PhaseTypeOK, IngestPoints, Ended,
                    FailureCategories
<1>4. Grows /\ IndexedPassagesArePersisted' /\ CollectionKeepsContract'
  BY <1>1, <1>2 DEF Grows, IndexedPassagesArePersisted, CollectionKeepsContract,
                    Persisted, StoreTypeOK
<1>5. \A b \in Attempts \ {a} : Untouched(b)
  BY <1>1, AttemptsAssumption DEF PhaseTypeOK, Untouched
<1>6. AttemptInv(a)'
  <2>1. /\ factRows'[s] # Missing /\ vectors[a] = 0 /\ cursor[a] = 1
        /\ phase[a] = "persistence" /\ jobs[a].status = "running"
        /\ \/ pc'[a] = "embed" /\ phase'[a] = "embedding"
           \/ pc'[a] = "fail" /\ phase'[a] = "persistence"
    BY <1>1, <1>2 DEF StoreTypeOK, PhaseTypeOK, AttemptInv, ControlInv, PhaseInv,
                      Working
  <2>2. ControlInv(a)' /\ FillInv(a)'
    BY <2>1, <1>1, <1>2 DEF ControlInv, FillInv, Working, Indexing, Filling
  <2>3. RowInv(a)' /\ PhaseInv(a)'
    BY <2>1, <1>1, <1>2, CorpusAssumption DEF AttemptInv, RowInv, PhaseInv, Persisted
  <2> QED
    BY <2>2, <2>3 DEF AttemptInv
<1> QED
  BY <1>3, <1>4, <1>5, <1>6, StepPreservesInv

LEMMA EmbedKeepsInv ==
  ASSUME IInv, NEW a \in Attempts, IngestEmbed(a)
  PROVE  IInv'
<1> a \in Clients
  BY AttemptsAssumption
<1>1. /\ pc[a] = "embed" /\ UNCHANGED collectionVars /\ UNCHANGED storeVars
      /\ loaded' = loaded /\ cursor' = cursor
      /\ \/ /\ vectors' = [vectors EXCEPT ![a] = @ + BatchLength(a)]
            /\ \/ /\ vectors'[a] = CorpusCount
                  /\ pc' = [pc EXCEPT ![a] = "ensure"]
                  /\ phase' = [phase EXCEPT ![a] = "index"]
               \/ /\ vectors'[a] # CorpusCount
                  /\ pc' = pc
                  /\ phase' = [phase EXCEPT ![a] = @]
         \/ /\ pc' = [pc EXCEPT ![a] = "fail"]
            /\ vectors' = vectors
            /\ phase' = [phase EXCEPT ![a] = @]
  <2> pc \in [Clients -> IngestPoints]
    BY DEF IInv, TypeOK
  <2> QED
    BY DEF IngestEmbed, EmbedBatch, Goto, collectionVars
<1> USE DEF IInv, TypeOK, collectionVars, storeVars
<1>2. /\ loaded[a] \in Sources /\ phase[a] = "embedding" /\ vectors[a] \in 0..CorpusCount
      /\ Persisted(loaded[a].snapshot) /\ cursor[a] = 1 /\ jobs[a].status = "running"
      /\ vectors[a] < CorpusCount
  BY <1>1 DEF AttemptInv, ControlInv, PhaseInv, Working, IndexTypeOK
<1>3. BatchLength(a) \in 1..(CorpusCount - vectors[a])
  BY <1>2, IndexAssumption, CorpusAssumption DEF BatchLength
<1>4. TypeOK'
  <2>1. vectors' \in [Clients -> 0..CorpusCount]
    BY <1>1, <1>2, <1>3, CorpusAssumption DEF IndexTypeOK
  <2> QED
    BY <1>1, <2>1 DEF StoreTypeOK, IndexTypeOK, PhaseTypeOK, IngestPoints, Ended,
                    FailureCategories
<1>5. Grows /\ IndexedPassagesArePersisted' /\ CollectionKeepsContract'
  BY <1>1 DEF Grows, IndexedPassagesArePersisted, CollectionKeepsContract, Persisted
<1>6. \A b \in Attempts \ {a} : Untouched(b)
  BY <1>1, AttemptsAssumption DEF PhaseTypeOK, IndexTypeOK, Untouched
<1>7. AttemptInv(a)'
  <2>1. \/ /\ pc'[a] = "ensure" /\ phase'[a] = "index"
           /\ vectors'[a] = CorpusCount
        \/ /\ pc'[a] = "embed" /\ phase'[a] = "embedding"
           /\ vectors'[a] < CorpusCount
        \/ /\ pc'[a] = "fail" /\ phase'[a] = "embedding"
           /\ vectors'[a] < CorpusCount
    BY <1>1, <1>2, <1>3, CorpusAssumption DEF PhaseTypeOK, IndexTypeOK
  <2> QED
    BY <2>1, <1>1, <1>2 DEF AttemptInv, ControlInv, RowInv, PhaseInv, FillInv,
                Working, Indexing, Filling, Persisted
<1> QED
  BY <1>4, <1>5, <1>6, <1>7, StepPreservesInv

LEMMA EnsureKeepsInv ==
  ASSUME IInv, NEW a \in Attempts, IngestEnsure(a)
  PROVE  IInv'
<1> a \in Clients
  BY AttemptsAssumption
<1>1. /\ pc[a] \in {"ensure", "check", "create"} /\ UNCHANGED storeVars
      /\ UNCHANGED <<objects, loaded, vectors, cursor, phase>>
      /\ \/ contract' = contract
         \/ contract = "absent" /\ contract' = "legal_passage_v1"
      /\ \/ /\ pc' = [pc EXCEPT ![a] = "upsert"]
            /\ contract' = "legal_passage_v1"
         \/ pc' = [pc EXCEPT ![a] = "check"]
         \/ pc' = [pc EXCEPT ![a] = "create"]
         \/ pc' = [pc EXCEPT ![a] = "fail"]
  <2>1. CASE EnsureExists(a)
    BY <2>1 DEF IngestEnsure, EnsureExists, Move, Goto
  <2>2. CASE EnsureContract(a, "upsert", "fail")
    BY <2>2 DEF IngestEnsure, EnsureContract, Move, Goto
  <2>3. CASE EnsureCreate(a, "upsert", "fail")
    BY <2>3 DEF IngestEnsure, EnsureCreate, Answer, Goto
  <2> QED
    BY <2>1, <2>2, <2>3 DEF IngestEnsure
<1> USE DEF IInv, TypeOK, storeVars
<1>2. /\ loaded[a] \in Sources /\ phase[a] = "index" /\ vectors[a] = CorpusCount
      /\ Persisted(loaded[a].snapshot) /\ jobs[a].status = "running"
  BY <1>1 DEF AttemptInv, ControlInv, PhaseInv, Working, Indexing
<1>3. TypeOK'
  BY <1>1 DEF StoreTypeOK, IndexTypeOK, PhaseTypeOK, IngestPoints, Ended, Contracts
<1>4. Grows /\ IndexedPassagesArePersisted' /\ CollectionKeepsContract'
  BY <1>1 DEF Grows, IndexedPassagesArePersisted, CollectionKeepsContract, Persisted
<1>5. \A b \in Attempts \ {a} : Untouched(b)
  BY <1>1, AttemptsAssumption DEF Untouched
<1>6. AttemptInv(a)'
  <2>1. /\ pc'[a] \in {"upsert", "check", "create", "fail"} /\ phase'[a] = "index"
        /\ pc'[a] = "upsert" => contract' = "legal_passage_v1"
        /\ cursor'[a] = 1 /\ 1 <= CorpusCount
    BY <1>1, <1>2, CorpusAssumption DEF AttemptInv, ControlInv
  <2> QED
    BY <2>1, <1>1, <1>2 DEF AttemptInv, ControlInv, RowInv, PhaseInv, FillInv,
                Working, Indexing, Filling, Persisted, IndexTypeOK, Passages
<1> QED
  BY <1>3, <1>4, <1>5, <1>6, StepPreservesInv

LEMMA UpsertKeepsInv ==
  ASSUME IInv, NEW a \in Attempts, IngestUpsert(a)
  PROVE  IInv'
<1> a \in Clients
  BY AttemptsAssumption
<1> DEFINE s == loaded[a].snapshot
<1>1. pc[a] \in {"upsert", "update"}
  BY DEF IngestUpsert, UpsertInsert, UpsertAlreadyExists, UpsertNoCollection,
         UpsertUpdate, Move
<1>2. /\ loaded[a] \in Sources /\ s \in Snapshots /\ s \in snapshotRows
      /\ loaded[a].version \in Versions /\ loaded[a].version # Missing
      /\ phase[a] = "index" /\ vectors[a] = CorpusCount /\ Persisted(s)
      /\ jobs[a].status = "running" /\ contract = "legal_passage_v1"
      /\ cursor[a] \in Passages
      /\ \A p \in Passages : p < cursor[a] => objects[StableId(s, p)] # Missing
  BY <1>1, CorpusAssumption
     DEF IInv, AttemptInv, ControlInv, RowInv, PhaseInv, FillInv, Working, Indexing,
         Filling, Sources, TypeOK, IndexTypeOK, Passages
(* Either the object at the cursor is written or no object changes; the    *)
(* cursor only moves past an object that is there.                         *)
<1>3. /\ UNCHANGED storeVars /\ UNCHANGED <<contract, loaded, vectors, phase>>
      /\ \/ objects' = objects
         \/ objects' = [objects EXCEPT ![StableId(s, cursor[a])] = loaded[a].version]
      /\ \/ /\ cursor' = [cursor EXCEPT ![a] = @ + 1]
            /\ pc' = [pc EXCEPT ![a] = IF cursor[a] = vectors[a] THEN "succeed"
                                                                 ELSE "upsert"]
            /\ objects' = [objects EXCEPT ![StableId(s, cursor[a])] = loaded[a].version]
         \/ /\ cursor' = cursor
            /\ \/ pc' = [pc EXCEPT ![a] = "update"]
               \/ pc' = [pc EXCEPT ![a] = "fail"]
  <2>1. CASE UpsertInsert(a, "succeed", "fail")
    BY <2>1, <1>2 DEF IngestUpsert, UpsertInsert, StoreObject, Written, CursorId, Goto
  <2>2. CASE UpsertAlreadyExists(a)
    BY <2>2 DEF IngestUpsert, UpsertAlreadyExists, Move, Goto
  <2>3. CASE UpsertNoCollection(a, "fail")
    BY <2>3, <1>2 DEF UpsertNoCollection
  <2>4. CASE UpsertUpdate(a, "succeed", "fail")
    BY <2>4 DEF IngestUpsert, UpsertUpdate, StoreObject, Written, CursorId, Goto
  <2> QED
    BY <2>1, <2>2, <2>3, <2>4 DEF IngestUpsert
<1>4. StableId(s, cursor[a]) \in StableIds
  BY <1>2 DEF StableId, StableIds
<1>5. TypeOK'
  <2>1. /\ cursor' \in [Clients -> 1..(CorpusCount + 1)]
        /\ objects' \in [StableIds -> Versions \cup {Missing}]
        /\ pc' \in [Clients -> IngestPoints]
    BY <1>2, <1>3, <1>4, CorpusAssumption
       DEF IInv, TypeOK, IndexTypeOK, Passages, IngestPoints
  <2> QED
    BY <2>1, <1>3 DEF IInv, TypeOK, StoreTypeOK, IndexTypeOK, PhaseTypeOK, storeVars
<1>6. \A id \in StableIds :
         /\ objects[id] # Missing => objects'[id] # Missing
         /\ objects'[id] # objects[id] => id = StableId(s, cursor[a])
  BY <1>2, <1>3, <1>4 DEF IInv, TypeOK, IndexTypeOK
<1>7. Grows /\ CollectionKeepsContract'
  BY <1>3, <1>6 DEF Grows, IInv, CollectionKeepsContract, Persisted, storeVars
<1>8. IndexedPassagesArePersisted'
  <2> SUFFICES ASSUME NEW t \in Snapshots, NEW p \in Passages,
                      objects'[StableId(t, p)] # Missing
               PROVE  t \in snapshotRows' /\ factRows'[t] # Missing
    BY DEF IndexedPassagesArePersisted, Persisted
  <2>1. CASE objects'[StableId(t, p)] = objects[StableId(t, p)]
    BY <2>1, <1>3 DEF IInv, IndexedPassagesArePersisted, storeVars, Persisted
  <2>2. CASE objects'[StableId(t, p)] # objects[StableId(t, p)]
    <3>1. t = s
      BY <2>2, <1>6 DEF StableId, StableIds
    <3> QED
      BY <3>1, <1>2, <1>3 DEF storeVars, Persisted
  <2> QED
    BY <2>1, <2>2
<1>9. \A b \in Attempts \ {a} : Untouched(b)
  BY <1>3, AttemptsAssumption DEF IInv, TypeOK, IndexTypeOK, Untouched, storeVars
<1>10. AttemptInv(a)'
  <2>1. \A p \in Passages : p < cursor[a] => objects'[StableId(s, p)] # Missing
    BY <1>2, <1>6 DEF StableId, StableIds
  <2>2. \/ /\ cursor'[a] = cursor[a] + 1
           /\ \/ cursor[a] = CorpusCount /\ pc'[a] = "succeed"
              \/ cursor[a] < CorpusCount /\ pc'[a] = "upsert"
           /\ objects'[StableId(s, cursor[a])] # Missing
        \/ cursor'[a] = cursor[a] /\ pc'[a] \in {"update", "fail"}
    BY <1>2, <1>3, <1>4, CorpusAssumption DEF IInv, TypeOK, IndexTypeOK, Passages
  <2>3. \A p \in Passages : p < cursor'[a] => objects'[StableId(s, p)] # Missing
    BY <2>1, <2>2, <1>2 DEF Passages
  <2>4. ControlInv(a)'
    BY <2>2, <1>1, <1>2, <1>3, CorpusAssumption
       DEF ControlInv, Working, Indexing, Filling, storeVars, Passages
  <2>5. RowInv(a)' /\ PhaseInv(a)'
    BY <1>2, <1>3 DEF RowInv, PhaseInv, IInv, AttemptInv, storeVars, Persisted
  <2>6. FillInv(a)'
    BY <2>3, <1>2, <1>3 DEF FillInv, storeVars
  <2> QED
    BY <2>4, <2>5, <2>6 DEF AttemptInv
<1> QED
  BY <1>5, <1>7, <1>8, <1>9, <1>10, StepPreservesInv

(* succeed_job: with or without its acknowledgement, the row turns         *)
(* SUCCEEDED only after the last passage was upserted.                     *)
LEMMA SucceedKeepsInv ==
  ASSUME IInv, NEW a \in Attempts, IngestSucceed(a)
  PROVE  IInv'
<1> a \in Clients
  BY AttemptsAssumption
<1>1. /\ pc[a] = "succeed" /\ UNCHANGED <<snapshotRows, factRows>>
      /\ UNCHANGED <<contract, objects, loaded, vectors, cursor, phase>>
      /\ jobs' = [jobs EXCEPT ![a].status = "succeeded", ![a].category = "none"]
      /\ \/ pc' = [pc EXCEPT ![a] = "returned"]
         \/ pc' = [pc EXCEPT ![a] = "fail"] /\ "store_ack" \in Faults
  BY DEF IngestSucceed, SucceedJob, FinishJob, Committed, Goto, Fails, collectionVars
<1> USE DEF IInv, TypeOK
<1>2. /\ loaded[a] \in Sources /\ phase[a] = "index"
      /\ Persisted(loaded[a].snapshot) /\ contract = "legal_passage_v1"
      /\ jobs[a].snapshot = loaded[a].snapshot /\ jobs[a].snapshot \in snapshotRows
      /\ cursor[a] = CorpusCount + 1
  BY <1>1 DEF AttemptInv, ControlInv, RowInv, PhaseInv, FillInv, Working, Indexing,
              Filling
<1>3. Indexed(loaded[a].snapshot)
  BY <1>1, <1>2, CorpusAssumption
     DEF AttemptInv, FillInv, Filling, Indexed, Passages
<1>4. TypeOK'
  <2>1. jobs[a] \in JobRow
    BY DEF StoreTypeOK
  <2>2. jobs' \in [Attempts -> JobRow]
    BY <1>1, <2>1 DEF StoreTypeOK, JobRow, JobStatuses
  <2> QED
    BY <1>1, <2>2 DEF StoreTypeOK, IndexTypeOK, PhaseTypeOK, IngestPoints, Ended
<1>5. Grows /\ IndexedPassagesArePersisted' /\ CollectionKeepsContract'
  BY <1>1 DEF Grows, IndexedPassagesArePersisted, CollectionKeepsContract, Persisted
<1>6. \A b \in Attempts \ {a} : Untouched(b)
  BY <1>1, AttemptsAssumption DEF StoreTypeOK, Untouched
<1>7. AttemptInv(a)'
  <2>1. /\ jobs'[a].status = "succeeded" /\ jobs'[a].snapshot = loaded[a].snapshot
        /\ pc'[a] \in {"returned", "fail"}
        /\ pc'[a] = "fail" => "store_ack" \in Faults
    BY <1>1, <1>2 DEF StoreTypeOK, JobRow
  <2>2. ControlInv(a)' /\ RowInv(a)'
    BY <2>1, <1>1, <1>2 DEF ControlInv, RowInv, Working, Indexing, Filling
  <2>3. PhaseInv(a)'
    BY <2>1, <1>1, <1>2 DEF AttemptInv, PhaseInv, Persisted
  <2>4. FillInv(a)'
    BY <2>1, <1>1, <1>2, <1>3 DEF FillInv, Filling, Persisted, Indexed
  <2> QED
    BY <2>2, <2>3, <2>4 DEF AttemptInv
<1> QED
  BY <1>4, <1>5, <1>6, <1>7, StepPreservesInv

(* The except block overwrites whatever status the row has.                *)
LEMMA FailKeepsInv ==
  ASSUME IInv, NEW a \in Attempts, IngestFail(a)
  PROVE  IInv'
<1> a \in Clients
  BY AttemptsAssumption
<1>1. /\ pc[a] = "fail" /\ UNCHANGED <<snapshotRows, factRows>>
      /\ UNCHANGED <<contract, objects, loaded, vectors, cursor, phase>>
      /\ jobs' = [jobs EXCEPT ![a].status = "failed", ![a].category = phase[a]]
      /\ pc' = [pc EXCEPT ![a] = "raised"]
  BY DEF IngestFail, FailJob, FinishJob, Goto, collectionVars
<1> USE DEF IInv, TypeOK
<1>2. /\ loaded[a] \in Sources /\ phase[a] \in FailureCategories
      /\ jobs[a].snapshot = loaded[a].snapshot /\ jobs[a].snapshot \in snapshotRows
  BY <1>1 DEF AttemptInv, ControlInv, RowInv, PhaseTypeOK
<1>3. TypeOK'
  <2>1. jobs[a] \in JobRow
    BY DEF StoreTypeOK
  <2>2. jobs' \in [Attempts -> JobRow]
    BY <1>1, <1>2, <2>1 DEF StoreTypeOK, JobRow, JobStatuses
  <2> QED
    BY <1>1, <2>2 DEF StoreTypeOK, IndexTypeOK, PhaseTypeOK, IngestPoints, Ended
<1>4. Grows /\ IndexedPassagesArePersisted' /\ CollectionKeepsContract'
  BY <1>1 DEF Grows, IndexedPassagesArePersisted, CollectionKeepsContract, Persisted
<1>5. \A b \in Attempts \ {a} : Untouched(b)
  BY <1>1, AttemptsAssumption DEF StoreTypeOK, Untouched
<1>6. AttemptInv(a)'
  <2>1. /\ jobs'[a].status = "failed" /\ jobs'[a].snapshot = loaded[a].snapshot
        /\ jobs'[a].category = phase[a] /\ pc'[a] = "raised"
    BY <1>1, <1>2 DEF StoreTypeOK, JobRow
  <2>2. ControlInv(a)' /\ RowInv(a)' /\ FillInv(a)'
    BY <2>1, <1>1, <1>2 DEF ControlInv, RowInv, FillInv, Working, Indexing, Filling
  <2>3. PhaseInv(a)'
    BY <2>1, <1>1, <1>2 DEF AttemptInv, PhaseInv, Persisted
  <2> QED
    BY <2>2, <2>3 DEF AttemptInv
<1> QED
  BY <1>3, <1>4, <1>5, <1>6, StepPreservesInv

(* Refused requests, refused transactions and crashes only move the        *)
(* attempt to its handler or to its end.                                   *)
LEMMA FailureKeepsInv ==
  ASSUME IInv, NEW a \in Attempts,
         IngestIndexRefused(a) \/ IngestStoreRefused(a) \/ Crash(a)
  PROVE  IInv'
<1> a \in Clients
  BY AttemptsAssumption
<1>1. /\ UNCHANGED <<snapshotRows, factRows, jobs, contract, objects, loaded,
                     vectors, cursor, phase>>
      /\ \/ pc' = [pc EXCEPT ![a] = "fail"] /\ pc[a] \in Working
         \/ pc' = [pc EXCEPT ![a] = "raised"]
         \/ pc' = [pc EXCEPT ![a] = "crashed"]
  <2> USE DEF Goto, storeVars, collectionVars
  <2>1. CASE IngestIndexRefused(a)
    <3>1. pc[a] \in IngestPoints /\ pc[a] \in IndexRequests
      BY <2>1 DEF IngestIndexRefused, IndexRefuses, IInv, TypeOK
    <3>2. pc[a] \in Working
      BY <3>1 DEF IngestPoints, Ended, IndexRequests, Working, Indexing, Filling
    <3> QED
      BY <2>1, <3>2 DEF IngestIndexRefused, IndexRefuses
  <2>2. CASE IngestStoreRefused(a)
    BY <2>2 DEF IngestStoreRefused, Working, Indexing, Filling
  <2>3. CASE Crash(a)
    BY <2>3 DEF Crash
  <2> QED
    BY <2>1, <2>2, <2>3
<1> USE DEF IInv, TypeOK
<1>2. TypeOK'
  BY <1>1 DEF StoreTypeOK, IndexTypeOK, PhaseTypeOK, IngestPoints, Ended
<1>3. Grows /\ IndexedPassagesArePersisted' /\ CollectionKeepsContract'
  BY <1>1 DEF Grows, IndexedPassagesArePersisted, CollectionKeepsContract, Persisted
<1>4. \A b \in Attempts \ {a} : Untouched(b)
  BY <1>1, AttemptsAssumption DEF Untouched
<1>5. AttemptInv(a)'
  <2>1. \/ pc'[a] = "fail" /\ pc[a] \in Working
        \/ pc'[a] \in {"raised", "crashed"}
    BY <1>1
  <2>2. ControlInv(a)'
    BY <2>1, <1>1 DEF AttemptInv, ControlInv, Working, Indexing, Filling
  <2>3. RowInv(a)' /\ PhaseInv(a)'
    BY <1>1 DEF AttemptInv, RowInv, PhaseInv, Persisted
  <2>4. FillInv(a)'
    BY <2>1, <1>1 DEF AttemptInv, FillInv, Filling, Persisted, Indexed
  <2> QED
    BY <2>2, <2>3, <2>4 DEF AttemptInv
<1> QED
  BY <1>2, <1>3, <1>4, <1>5, StepPreservesInv

LEMMA StutterKeepsInv == IInv /\ UNCHANGED vars => IInv'
<1> SUFFICES ASSUME IInv, UNCHANGED vars PROVE IInv'
  OBVIOUS
<1> USE DEF IInv, vars
<1>1. TypeOK'
  BY DEF TypeOK, StoreTypeOK, IndexTypeOK, PhaseTypeOK
<1>2. Grows /\ \A b \in Attempts : Untouched(b)
  BY DEF Grows, Untouched
<1>3. \A b \in Attempts : AttemptInv(b)'
  BY <1>1, <1>2, OtherAttemptKeepsInv
<1> QED
  BY <1>1, <1>3 DEF IndexedPassagesArePersisted, CollectionKeepsContract, Persisted

------------------------------------------------------------------------------
LEMMA NextKeepsInv == IInv /\ [Next]_vars => IInv'
<1> SUFFICES ASSUME IInv, [Next]_vars PROVE IInv'
  OBVIOUS
<1>1. ASSUME NEW a \in Attempts, IngestLoad(a) \/ IngestStep(a) \/ Crash(a)
      PROVE  IInv'
  BY <1>1, LoadKeepsInv, StartKeepsInv, PersistKeepsInv, EmbedKeepsInv,
     EnsureKeepsInv, UpsertKeepsInv, SucceedKeepsInv, FailKeepsInv, FailureKeepsInv
     DEF IngestStep
<1> QED
  BY <1>1, StutterKeepsInv DEF Next

(* The inductive invariant holds in every reachable state.                 *)
THEOREM InductiveInvariant == Spec => []IInv
  BY InitIInv, NextKeepsInv, PTL DEF Spec

(* Type correctness of the whole ingestion model.                          *)
THEOREM TypeCorrect == Spec => []TypeOK
<1>1. IInv => TypeOK
  BY DEF IInv
<1> QED
  BY <1>1, InductiveInvariant, PTL

(* A SUCCEEDED job row always describes a completely persisted and         *)
(* completely indexed snapshot: SourceIngestionService.ingest calls        *)
(* succeed_job last, and no overlapping attempt undoes what it relies on.  *)
THEOREM SucceededIsComplete == Spec => []SucceededJobIsComplete
<1>1. IInv => SucceededJobIsComplete
  BY DEF IInv, AttemptInv, FillInv, SucceededJobIsComplete
<1> QED
  BY <1>1, InductiveInvariant, PTL

(* The derived index never holds a passage without authoritative rows.     *)
THEOREM IndexIsDerived == Spec => []IndexedPassagesArePersisted
<1>1. IInv => IndexedPassagesArePersisted
  BY DEF IInv
<1> QED
  BY <1>1, InductiveInvariant, PTL

(* No upsert of any interleaving reaches a missing collection, so the      *)
(* server never creates one under its own contract.                        *)
THEOREM ContractIsKept == Spec => []CollectionKeepsContract
<1>1. IInv => CollectionKeepsContract
  BY DEF IInv
<1> QED
  BY <1>1, InductiveInvariant, PTL

(* The category recorded with a failure is the phase the attempt reached.  *)
THEOREM CategoryIsAccurate == Spec => []CategoryTellsProgress
<1>1. IInv => CategoryTellsProgress
  BY DEF IInv, AttemptInv, RowInv, PhaseInv, CategoryTellsProgress
<1> QED
  BY <1>1, InductiveInvariant, PTL

(* "later retries never alter immutable source rows": no step of any       *)
(* attempt removes or changes a row that is there.                         *)
THEOREM RowsAreImmutable == Spec => SourceRowsAreImmutable
<1> DEFINE Immutable == /\ snapshotRows \subseteq snapshotRows'
                        /\ \A s \in Snapshots :
                              Persisted(s) => factRows'[s] = factRows[s]
<1>1. IInv /\ [Next]_vars => [Immutable]_vars
  <2> SUFFICES ASSUME IInv, NEW a \in Attempts,
                      IngestLoad(a) \/ IngestStep(a) \/ Crash(a)
               PROVE  Immutable
    BY DEF Next
  <2>1. CASE IngestStart(a)
    BY <2>1 DEF IngestStart, StartJob
  <2>2. CASE IngestPersist(a)
    BY <2>2 DEF IngestPersist, PersistSourceFacts, Persisted, IInv, TypeOK, StoreTypeOK
  <2>3. CASE IngestSucceed(a) \/ IngestFail(a)
    BY <2>3 DEF IngestSucceed, IngestFail, SucceedJob, FailJob, FinishJob
  <2>4. CASE \/ IngestLoad(a) \/ IngestEmbed(a) \/ IngestEnsure(a) \/ IngestUpsert(a)
             \/ IngestIndexRefused(a) \/ IngestStoreRefused(a) \/ Crash(a)
    BY <2>4 DEF IngestLoad, IngestEmbed, IngestEnsure, IngestUpsert,
                IngestIndexRefused, IngestStoreRefused, Crash, storeVars
  <2> QED
    BY <2>1, <2>2, <2>3, <2>4 DEF IngestStep
<1> QED
  BY <1>1, InductiveInvariant, PTL DEF Spec, SourceRowsAreImmutable

------------------------------------------------------------------------------
(* Refinement of the ledger.  Every action changes at most one of the four *)
(* mapped variables' meanings, so it is one ledger step or a stutter.      *)

LEMMA LedgerInitMaps == Init => Ledger!LedgerInit
<1> SUFFICES ASSUME Init PROVE Ledger!LedgerInit
  OBVIOUS
<1>1. ASSUME NEW s \in Snapshots PROVE ~Persisted(s) /\ ~Indexed(s)
  <2>1. 1 \in Passages
    BY CorpusAssumption DEF Passages
  <2>2. StableId(s, 1) \in StableIds
    BY <2>1 DEF StableId, StableIds
  <2> QED
    BY <2>1, <2>2 DEF Init, StoreInit, IndexInit, Persisted, Indexed
<1> QED
  BY <1>1 DEF Init, StoreInit, NoJob, Ledger!LedgerInit

LEMMA LedgerStepMaps ==
  ASSUME IInv, NEW a \in Attempts,
         IngestLoad(a) \/ IngestStep(a) \/ Crash(a)
  PROVE  [Ledger!LedgerNext]_(Ledger!ledgerVars)
<1> USE DEF IInv, TypeOK
<1> DEFINE Status == [b \in Attempts |-> jobs[b].status]
           Subject == [b \in Attempts |-> jobs[b].snapshot]
           Stored == {s \in Snapshots : factRows[s] # Missing}
           Complete == {s \in Snapshots : Indexed(s)}
<1>1. CASE IngestStart(a)
  <2>1. /\ pc[a] = "start" /\ UNCHANGED <<factRows, objects>>
        /\ jobs' = [jobs EXCEPT ![a] = [snapshot |-> loaded[a].snapshot,
                                        status |-> "running", category |-> "none"]]
        /\ loaded[a].snapshot \in Snapshots /\ jobs[a].status = "none"
    BY <1>1 DEF IngestStart, StartJob, collectionVars, AttemptInv, ControlInv, Sources
  <2>2. PICK s \in Snapshots : s = loaded[a].snapshot
    BY <2>1
  <2>3. Ledger!Begin(a, s)
    BY <2>1, <2>2 DEF Ledger!Begin, Persisted, Indexed, StoreTypeOK
  <2> QED
    BY <2>3 DEF Ledger!LedgerNext
<1>2. CASE IngestPersist(a)
  <2>1. /\ pc[a] = "persist" /\ UNCHANGED <<jobs, objects>>
        /\ factRows' = [factRows EXCEPT ![loaded[a].snapshot] =
                          IF @ = Missing THEN loaded[a].version ELSE @]
        /\ loaded[a].snapshot \in Snapshots /\ loaded[a].version # Missing
    BY <1>2, CorpusAssumption DEF IngestPersist, PersistSourceFacts, collectionVars,
       AttemptInv, ControlInv, Working, Sources
  <2>2. PICK s \in Snapshots : s = loaded[a].snapshot
    BY <2>1
  <2>3. Stored' = Stored \cup {s}
    BY <2>1, <2>2 DEF StoreTypeOK
  <2>4. Ledger!Persist(s)
    BY <2>1, <2>3 DEF Ledger!Persist, Persisted, Indexed
  <2> QED
    BY <2>4 DEF Ledger!LedgerNext
<1>3. CASE IngestUpsert(a)
  <2>0. PICK s \in Snapshots : s = loaded[a].snapshot
    <3>1. pc[a] \in {"upsert", "update"}
      BY <1>3 DEF IngestUpsert, UpsertInsert, UpsertAlreadyExists,
                  UpsertNoCollection, UpsertUpdate, Move
    <3> QED
      BY <3>1 DEF AttemptInv, ControlInv, Working, Indexing, Filling, Sources
  <2>1. /\ UNCHANGED <<jobs, factRows>>
        /\ s \in Snapshots /\ Persisted(s) /\ cursor[a] \in Passages
        /\ loaded[a].version # Missing
        /\ \/ objects' = objects
           \/ objects' = [objects EXCEPT ![StableId(s, cursor[a])] = loaded[a].version]
    <3>1. pc[a] \in {"upsert", "update"}
      BY <1>3 DEF IngestUpsert, UpsertInsert, UpsertAlreadyExists,
                  UpsertNoCollection, UpsertUpdate, Move
    <3>2. /\ s \in Snapshots /\ Persisted(s) /\ cursor[a] \in Passages
          /\ loaded[a].version # Missing
      BY <2>0, <3>1, AttemptsAssumption, CorpusAssumption
         DEF AttemptInv, ControlInv, PhaseInv, Working, Indexing, Filling, Sources,
             IndexTypeOK, Passages
    <3> QED
      BY <1>3, <2>0, <3>2 DEF IngestUpsert, UpsertInsert, UpsertAlreadyExists,
                  UpsertNoCollection, UpsertUpdate, StoreObject, CursorId, storeVars
  <2>2. ASSUME NEW t \in Snapshots, t # s PROVE Indexed(t)' <=> Indexed(t)
    BY <2>1, <2>2 DEF Indexed, IndexTypeOK, StableId, StableIds
  <2>3. ASSUME NEW p \in Passages
        PROVE  objects[StableId(s, p)] # Missing => objects'[StableId(s, p)] # Missing
    <3>1. StableId(s, p) \in StableIds /\ objects \in [StableIds -> Versions \cup {Missing}]
      BY <2>1 DEF StableId, StableIds, IndexTypeOK
    <3> QED
      BY <2>1, <3>1
  <2>4. Indexed(s) => Indexed(s)'
    BY <2>3, <2>1 DEF Indexed
  <2>5. \A t \in Snapshots : Indexed(t)' <=> (Indexed(t) \/ (t = s /\ Indexed(s)'))
    BY <2>2, <2>4
  <2>6. Complete' = Complete \/ Complete' = Complete \cup {s}
    <3>1. Complete' = {t \in Snapshots : Indexed(t) \/ (t = s /\ Indexed(s)')}
      BY <2>5
    <3>2. CASE Indexed(s)'
      BY <3>1, <3>2, <2>1
    <3>3. CASE ~Indexed(s)'
      BY <3>1, <3>3
    <3> QED
      BY <3>2, <3>3
  <2>7. Ledger!Index(s) \/ UNCHANGED Ledger!ledgerVars
    BY <2>1, <2>6 DEF Ledger!Index, Ledger!ledgerVars, Persisted
  <2> QED
    BY <2>1, <2>7 DEF Ledger!LedgerNext
<1>4. CASE IngestSucceed(a)
  <2>1. /\ pc[a] = "succeed" /\ UNCHANGED <<factRows, objects>>
        /\ jobs' = [jobs EXCEPT ![a].status = "succeeded", ![a].category = "none"]
    BY <1>4 DEF IngestSucceed, SucceedJob, FinishJob, collectionVars
  <2>2. /\ jobs[a].status = "running" /\ jobs[a].snapshot \in Snapshots
        /\ Persisted(jobs[a].snapshot) /\ Indexed(jobs[a].snapshot)
    BY <2>1, CorpusAssumption
       DEF AttemptInv, ControlInv, RowInv, PhaseInv, FillInv, Working, Indexing,
           Filling, Sources, Indexed, Passages
  <2>3. Ledger!Succeed(a)
    BY <2>1, <2>2 DEF Ledger!Succeed, Persisted, Indexed, StoreTypeOK, JobRow
  <2> QED
    BY <2>3 DEF Ledger!LedgerNext
<1>5. CASE IngestFail(a)
  <2>1. /\ pc[a] = "fail" /\ UNCHANGED <<factRows, objects>>
        /\ jobs' = [jobs EXCEPT ![a].status = "failed", ![a].category = phase[a]]
        /\ \/ jobs[a].status = "running"
           \/ "store_ack" \in Faults /\ jobs[a].status = "succeeded"
    BY <1>5 DEF IngestFail, FailJob, FinishJob, collectionVars, AttemptInv, ControlInv
  <2>2. Ledger!Fail(a)
    BY <2>1 DEF Ledger!Fail, Persisted, Indexed, StoreTypeOK, JobRow
  <2> QED
    BY <2>2 DEF Ledger!LedgerNext
<1>6. CASE \/ IngestLoad(a) \/ IngestEmbed(a) \/ IngestEnsure(a)
           \/ IngestIndexRefused(a) \/ IngestStoreRefused(a) \/ Crash(a)
  <2>1. UNCHANGED <<jobs, factRows, objects>>
    BY <1>6 DEF IngestLoad, Load, IngestEmbed, EmbedBatch, IngestEnsure, EnsureExists,
                EnsureContract, EnsureCreate, IngestIndexRefused, IndexRefuses,
                IngestStoreRefused, Crash, storeVars, collectionVars
  <2> QED
    BY <2>1 DEF Ledger!ledgerVars, Persisted, Indexed
<1> QED
  BY <1>1, <1>2, <1>3, <1>4, <1>5, <1>6 DEF IngestStep

(* Ingestion implements the ledger for any number of attempts, snapshots   *)
(* and passages and under every set of faults.                             *)
THEOREM LedgerRefinement == Spec => ImplementsLedger
<1>1. IInv /\ [Next]_vars => [Ledger!LedgerNext]_(Ledger!ledgerVars)
  <2>1. ASSUME UNCHANGED vars PROVE UNCHANGED Ledger!ledgerVars
    BY <2>1 DEF vars, Ledger!ledgerVars, Persisted, Indexed
  <2> QED
    BY <2>1, LedgerStepMaps DEF Next
<1> QED
  BY <1>1, LedgerInitMaps, InductiveInvariant, PTL
     DEF Spec, ImplementsLedger, Ledger!LedgerSpec

------------------------------------------------------------------------------
(* IngestionSystem                                                         *)
(*                                                                         *)
(* Beside a rebuild the collection no longer only grows, so nothing an     *)
(* attempt knows of the index survives: what is left of IInv is what an    *)
(* attempt knows of PostgreSQL and of itself.  The rebuild's part says     *)
(* what it holds at each control point.                                    *)

RebuildPoints ==
    {"idle", "embed", "delete", "drop", "ensure", "check", "create",
     "upsert", "update", "count", "aggregate"} \cup Ended

SystemTypeOK ==
    /\ StoreTypeOK
    /\ IndexTypeOK
    /\ PhaseTypeOK
    /\ pc \in [Clients -> IngestPoints \cup RebuildPoints]
    /\ \A a \in Attempts : pc[a] \in IngestPoints
    /\ \A r \in Rebuilds : pc[r] \in RebuildPoints

(* A job that began ends in the except block, which records the phase; the *)
(* only other way out is a transaction that PostgreSQL did not answer.     *)
RecordInv(a) ==
    {"store", "store_ack"} \cap Faults = {} =>
        (pc[a] = "raised" /\ phase[a] # "none" => jobs[a].status = "failed")

JobInv(a) == ControlInv(a) /\ RowInv(a) /\ PhaseInv(a) /\ RecordInv(a)

(* A rebuild touches the collection only with all vectors in hand.         *)
RebuildInv(r) ==
    /\ pc[r] \notin {"idle", "raised", "crashed"} => loaded[r] \in Sources
    /\ pc[r] \in {"drop", "ensure", "check", "create", "upsert", "update"}
          => vectors[r] = CorpusCount
    /\ pc[r] \in {"idle", "embed", "delete", "drop", "ensure", "check", "create"}
          => cursor[r] = 1
    /\ pc[r] \in {"upsert", "update"} => cursor[r] <= CorpusCount

SystemInv ==
    /\ SystemTypeOK
    /\ \A a \in Attempts : JobInv(a)
    /\ \A r \in Rebuilds : RebuildInv(r)

(* What a step leaves of PostgreSQL: no row is removed or changed.         *)
RowsKept ==
    /\ snapshotRows \subseteq snapshotRows'
    /\ \A s \in Snapshots : Persisted(s) => factRows'[s] = factRows[s]

(* A step of one script leaves the local state of the others alone.        *)
OthersUntouched(c) ==
    \A d \in Clients \ {c} :
        /\ pc'[d] = pc[d] /\ loaded'[d] = loaded[d]
        /\ vectors'[d] = vectors[d] /\ cursor'[d] = cursor[d]
        /\ d \in Attempts => phase'[d] = phase[d] /\ jobs'[d] = jobs[d]

(* The collection disappears only in the hands of a rebuild that holds a   *)
(* vector for every passage.                                               *)
DropHoldsVectors ==
    contract # "absent" /\ contract' = "absent" =>
        \E r \in Rebuilds : pc[r] = "drop" /\ vectors[r] = CorpusCount

------------------------------------------------------------------------------
(* What the operations of the index adapter do to the client that calls    *)
(* them, whichever service that is.                                        *)

LEMMA EmbedEffect ==
  ASSUME SystemTypeOK, NEW c \in Clients, NEW returned, NEW raised,
         EmbedBatch(c, returned, raised)
  PROVE  /\ pc[c] = "embed" /\ UNCHANGED <<contract, objects, loaded, cursor>>
         /\ \/ /\ vectors' = [vectors EXCEPT ![c] = @ + BatchLength(c)]
               /\ vectors'[c] \in 0..CorpusCount
               /\ vectors[c] < CorpusCount => vectors'[c] > vectors[c]
               /\ \/ /\ vectors'[c] = CorpusCount
                     /\ pc' = [pc EXCEPT ![c] = returned]
                  \/ vectors'[c] # CorpusCount /\ pc' = pc
            \/ vectors' = vectors /\ pc' = [pc EXCEPT ![c] = raised]
<1>1. vectors \in [Clients -> 0..CorpusCount] /\ vectors[c] \in 0..CorpusCount
  BY DEF SystemTypeOK, IndexTypeOK
<1>2. BatchLength(c) \in 0..(CorpusCount - vectors[c])
      /\ (vectors[c] < CorpusCount => BatchLength(c) > 0)
  BY <1>1, IndexAssumption, CorpusAssumption DEF BatchLength
<1> HIDE DEF BatchLength
<1>3. /\ pc[c] = "embed" /\ UNCHANGED <<contract, objects, loaded, cursor>>
      /\ \/ /\ vectors' = [vectors EXCEPT ![c] = @ + BatchLength(c)]
            /\ IF vectors'[c] = CorpusCount THEN pc' = [pc EXCEPT ![c] = returned]
                                            ELSE pc' = pc
         \/ vectors' = vectors /\ pc' = [pc EXCEPT ![c] = raised]
  BY DEF EmbedBatch, Goto
<1>4. ASSUME vectors' = [vectors EXCEPT ![c] = @ + BatchLength(c)]
      PROVE  /\ vectors'[c] \in 0..CorpusCount
             /\ vectors[c] < CorpusCount => vectors'[c] > vectors[c]
  BY <1>1, <1>2, <1>4, CorpusAssumption
<1> QED
  BY <1>3, <1>4

LEMMA EnsureEffect ==
  ASSUME NEW c \in Clients, NEW returned, NEW raised,
         \/ EnsureExists(c)
         \/ EnsureContract(c, returned, raised)
         \/ EnsureCreate(c, returned, raised)
  PROVE  /\ pc[c] \in {"ensure", "check", "create"}
         /\ UNCHANGED <<objects, loaded, vectors, cursor>>
         /\ contract' = contract \/ contract' = "legal_passage_v1"
         /\ contract' = "absent" => contract = "absent"
         /\ \E to \in {"check", "create", returned, raised} :
               pc' = [pc EXCEPT ![c] = to]
<1>1. CASE EnsureExists(c)
  BY <1>1 DEF EnsureExists, Move, Goto
<1>2. CASE EnsureContract(c, returned, raised)
  BY <1>2 DEF EnsureContract, Move, Goto
<1>3. CASE EnsureCreate(c, returned, raised)
  BY <1>3 DEF EnsureCreate, Answer, Goto
<1> QED
  BY <1>1, <1>2, <1>3

LEMMA UpsertEffect ==
  ASSUME NEW c \in Clients, NEW returned, NEW raised,
         \/ UpsertInsert(c, returned, raised)
         \/ UpsertAlreadyExists(c)
         \/ UpsertNoCollection(c, raised)
         \/ UpsertUpdate(c, returned, raised)
  PROVE  /\ pc[c] \in {"upsert", "update"} /\ UNCHANGED <<loaded, vectors>>
         /\ contract' = contract \/ contract' = "auto_schema"
         /\ objects' = objects \/ StoreObject(c)
         /\ \/ cursor' = cursor
               /\ \E to \in {"update", raised} : pc' = [pc EXCEPT ![c] = to]
            \/ /\ StoreObject(c) /\ cursor' = [cursor EXCEPT ![c] = @ + 1]
               /\ pc' = [pc EXCEPT ![c] = IF cursor[c] = vectors[c] THEN returned
                                                                    ELSE "upsert"]
<1>1. CASE UpsertInsert(c, returned, raised)
  BY <1>1 DEF UpsertInsert, Written, Goto
<1>2. CASE UpsertAlreadyExists(c)
  BY <1>2 DEF UpsertAlreadyExists, Move, Goto
<1>3. CASE UpsertNoCollection(c, raised)
  BY <1>3 DEF UpsertNoCollection, Move, Goto
<1>4. CASE UpsertUpdate(c, returned, raised)
  BY <1>4 DEF UpsertUpdate, Written, Goto
<1> QED
  BY <1>1, <1>2, <1>3, <1>4

------------------------------------------------------------------------------
(* What remains to be shown of a step of script c.                         *)
StepIsSound(c) ==
    SystemInv' /\ RowsKept /\ OthersUntouched(c) /\ DropHoldsVectors

LEMMA AttemptStepIsSound ==
  ASSUME SystemInv, NEW a \in Attempts, SystemTypeOK', RowsKept,
         OthersUntouched(a), DropHoldsVectors, JobInv(a)'
  PROVE  StepIsSound(a)
<1>1. ASSUME NEW b \in Attempts, b # a PROVE JobInv(b)'
  <2>1. /\ JobInv(b) /\ pc'[b] = pc[b] /\ loaded'[b] = loaded[b]
        /\ vectors'[b] = vectors[b] /\ cursor'[b] = cursor[b]
        /\ phase'[b] = phase[b] /\ jobs'[b] = jobs[b]
    BY <1>1, AttemptsAssumption DEF OthersUntouched, SystemInv
  <2>2. ControlInv(b)' /\ RowInv(b)' /\ RecordInv(b)'
    BY <2>1 DEF JobInv, ControlInv, RowInv, RecordInv, RowsKept
  <2>3. PhaseInv(b)'
    BY <2>1 DEF JobInv, PhaseInv, RowsKept, Persisted, Sources
  <2> QED
    BY <2>2, <2>3 DEF JobInv
<1>2. ASSUME NEW r \in Rebuilds PROVE RebuildInv(r)'
  BY <1>2, ClientsAssumption DEF SystemInv, OthersUntouched, RebuildInv
<1> QED
  BY <1>1, <1>2 DEF SystemInv, StepIsSound

LEMMA RebuildStepIsSound ==
  ASSUME SystemInv, NEW r \in Rebuilds, SystemTypeOK', UNCHANGED <<storeVars, phase>>,
         OthersUntouched(r), DropHoldsVectors, RebuildInv(r)'
  PROVE  StepIsSound(r)
<1>1. RowsKept
  BY DEF RowsKept, storeVars
<1>2. ASSUME NEW b \in Attempts PROVE JobInv(b)'
  <2>1. /\ JobInv(b) /\ pc'[b] = pc[b] /\ loaded'[b] = loaded[b]
        /\ vectors'[b] = vectors[b] /\ cursor'[b] = cursor[b]
        /\ UNCHANGED <<phase, jobs, snapshotRows, factRows>>
    BY <1>2, ClientsAssumption DEF OthersUntouched, SystemInv, storeVars
  <2> QED
    BY <2>1 DEF JobInv, ControlInv, RowInv, RecordInv, PhaseInv, Persisted
<1>3. ASSUME NEW q \in Rebuilds, q # r PROVE RebuildInv(q)'
  BY <1>3, ClientsAssumption DEF SystemInv, OthersUntouched, RebuildInv
<1> QED
  BY <1>1, <1>2, <1>3 DEF SystemInv, StepIsSound

(* A step of which the store and the collection see nothing.               *)
LEMMA ClientOnlyStep ==
  ASSUME UNCHANGED <<snapshotRows, factRows, contract>>
  PROVE  RowsKept /\ DropHoldsVectors
BY DEF RowsKept, DropHoldsVectors

------------------------------------------------------------------------------
(* One lemma per action of an attempt.                                     *)

LEMMA SystemLoad ==
  ASSUME SystemInv, NEW a \in Attempts, IngestLoad(a)
  PROVE  StepIsSound(a)
<1> a \in Clients
  BY AttemptsAssumption
<1>1. /\ pc[a] = "idle" /\ UNCHANGED <<vectors, cursor, phase>>
      /\ UNCHANGED <<snapshotRows, factRows, jobs, contract, objects>>
      /\ \/ \E source \in Sources : /\ loaded' = [loaded EXCEPT ![a] = source]
                                    /\ pc' = [pc EXCEPT ![a] = "start"]
         \/ /\ loaded' = loaded
            /\ pc' = [pc EXCEPT ![a] = "raised"]
  BY DEF IngestLoad, Load, Goto, storeVars
<1> USE DEF SystemInv, SystemTypeOK
<1>2. SystemTypeOK'
  BY <1>1, ClientsAssumption
     DEF StoreTypeOK, IndexTypeOK, PhaseTypeOK, IngestPoints, Ended
<1>3. OthersUntouched(a)
  BY <1>1 DEF IndexTypeOK, OthersUntouched
<1>4. JobInv(a)'
  <2>1. /\ pc'[a] \in {"start", "raised"}
        /\ pc'[a] = "start" => loaded'[a] \in Sources
        /\ jobs'[a].status = "none" /\ phase'[a] = "none"
        /\ vectors'[a] = 0 /\ cursor'[a] = 1
    BY <1>1 DEF IndexTypeOK, JobInv, ControlInv
  <2> QED
    BY <2>1 DEF JobInv, ControlInv, RowInv, PhaseInv, RecordInv,
                Working, Indexing, Filling
<1> QED
  BY <1>1, <1>2, <1>3, <1>4, ClientOnlyStep, AttemptStepIsSound

LEMMA SystemStartJob ==
  ASSUME SystemInv, NEW a \in Attempts, IngestStart(a)
  PROVE  StepIsSound(a)
<1> a \in Clients
  BY AttemptsAssumption
<1> DEFINE s == loaded[a].snapshot
<1>1. /\ pc[a] = "start" /\ UNCHANGED <<factRows, contract, objects>>
      /\ UNCHANGED <<loaded, vectors, cursor>>
      /\ snapshotRows' = snapshotRows \cup {s}
      /\ jobs' = [jobs EXCEPT ![a] = [snapshot |-> s, status |-> "running",
                                      category |-> "none"]]
      /\ \/ /\ pc' = [pc EXCEPT ![a] = "persist"]
            /\ phase' = [phase EXCEPT ![a] = "persistence"]
         \/ /\ "store_ack" \in Faults
            /\ pc' = [pc EXCEPT ![a] = "raised"]
            /\ phase' = phase
  BY DEF IngestStart, StartJob, Goto, Fails, collectionVars
<1> USE DEF SystemInv, SystemTypeOK
<1>2. loaded[a] \in Sources /\ s \in Snapshots
  BY <1>1 DEF JobInv, ControlInv, Sources
<1>3. SystemTypeOK'
  BY <1>1, <1>2, ClientsAssumption
     DEF StoreTypeOK, IndexTypeOK, PhaseTypeOK, IngestPoints, Ended,
         JobRow, JobStatuses, FailureCategories
<1>4. RowsKept /\ DropHoldsVectors
  BY <1>1 DEF RowsKept, DropHoldsVectors
<1>5. OthersUntouched(a)
  BY <1>1 DEF StoreTypeOK, PhaseTypeOK, OthersUntouched
<1>6. JobInv(a)'
  <2>1. /\ jobs'[a].status = "running" /\ jobs'[a].snapshot = s
        /\ vectors'[a] = 0 /\ cursor'[a] = 1 /\ s \in snapshotRows'
        /\ \/ pc'[a] = "persist" /\ phase'[a] = "persistence"
           \/ pc'[a] = "raised" /\ phase'[a] = "none"
    BY <1>1 DEF StoreTypeOK, PhaseTypeOK, JobInv, ControlInv
  <2> QED
    BY <2>1, <1>1, <1>2 DEF JobInv, ControlInv, RowInv, PhaseInv, RecordInv,
                Working, Indexing, Filling
<1> QED
  BY <1>3, <1>4, <1>5, <1>6, AttemptStepIsSound

LEMMA SystemPersist ==
  ASSUME SystemInv, NEW a \in Attempts, IngestPersist(a)
  PROVE  StepIsSound(a)
<1> a \in Clients
  BY AttemptsAssumption
<1> DEFINE s == loaded[a].snapshot
<1>1. /\ pc[a] = "persist" /\ UNCHANGED <<contract, objects, jobs>>
      /\ UNCHANGED <<loaded, vectors, cursor>>
      /\ snapshotRows' = snapshotRows \cup {s}
      /\ factRows' = [factRows EXCEPT ![s] =
                        IF @ = Missing THEN loaded[a].version ELSE @]
      /\ \/ /\ pc' = [pc EXCEPT ![a] = "embed"]
            /\ phase' = [phase EXCEPT ![a] = "embedding"]
         \/ /\ pc' = [pc EXCEPT ![a] = "fail"]
            /\ phase' = phase
  BY DEF IngestPersist, PersistSourceFacts, Committed, EnterPhase, Goto,
         SystemInv, SystemTypeOK, PhaseTypeOK, collectionVars
<1>2. /\ loaded[a] \in Sources /\ s \in Snapshots
      /\ loaded[a].version \in Versions /\ loaded[a].version # Missing
  BY <1>1, CorpusAssumption DEF SystemInv, JobInv, ControlInv, Sources, Working
<1> USE DEF SystemInv, SystemTypeOK
<1>3. SystemTypeOK'
  BY <1>1, <1>2, ClientsAssumption
     DEF StoreTypeOK, IndexTypeOK, PhaseTypeOK, IngestPoints, Ended,
                    FailureCategories
<1>4. RowsKept /\ DropHoldsVectors
  BY <1>1, <1>2 DEF RowsKept, DropHoldsVectors, Persisted, StoreTypeOK
<1>5. OthersUntouched(a)
  BY <1>1 DEF PhaseTypeOK, OthersUntouched
<1>6. JobInv(a)'
  <2>1. /\ factRows'[s] # Missing /\ vectors[a] = 0 /\ cursor[a] = 1
        /\ phase[a] = "persistence" /\ jobs[a].status = "running"
        /\ \/ pc'[a] = "embed" /\ phase'[a] = "embedding"
           \/ pc'[a] = "fail" /\ phase'[a] = "persistence"
    BY <1>1, <1>2 DEF StoreTypeOK, PhaseTypeOK, JobInv, ControlInv, PhaseInv,
                      Working
  <2>2. ControlInv(a)' /\ RecordInv(a)'
    BY <2>1, <1>1, <1>2 DEF ControlInv, RecordInv, Working, Indexing, Filling
  <2>3. RowInv(a)' /\ PhaseInv(a)'
    BY <2>1, <1>1, <1>2, CorpusAssumption DEF JobInv, RowInv, PhaseInv, Persisted
  <2> QED
    BY <2>2, <2>3 DEF JobInv
<1> QED
  BY <1>3, <1>4, <1>5, <1>6, AttemptStepIsSound

LEMMA SystemEmbed ==
  ASSUME SystemInv, NEW a \in Attempts, IngestEmbed(a)
  PROVE  StepIsSound(a)
<1> a \in Clients
  BY AttemptsAssumption
<1>1. /\ pc[a] = "embed" /\ UNCHANGED <<contract, objects, loaded, cursor>>
      /\ UNCHANGED storeVars
      /\ \/ /\ vectors' = [vectors EXCEPT ![a] = @ + BatchLength(a)]
            /\ vectors'[a] \in 0..CorpusCount
            /\ \/ /\ vectors'[a] = CorpusCount
                  /\ pc' = [pc EXCEPT ![a] = "ensure"]
               \/ vectors'[a] # CorpusCount /\ pc' = pc
         \/ vectors' = vectors /\ pc' = [pc EXCEPT ![a] = "fail"]
      /\ phase' = [phase EXCEPT ![a] = IF pc'[a] = "ensure" THEN "index" ELSE @]
  BY EmbedEffect DEF IngestEmbed, SystemInv
<1> USE DEF SystemInv, SystemTypeOK
<1>2. /\ loaded[a] \in Sources /\ phase[a] = "embedding"
      /\ Persisted(loaded[a].snapshot) /\ cursor[a] = 1 /\ jobs[a].status = "running"
      /\ vectors[a] < CorpusCount
  BY <1>1 DEF JobInv, ControlInv, PhaseInv, Working
<1>3. SystemTypeOK'
  <2>1. vectors' \in [Clients -> 0..CorpusCount]
    BY <1>1 DEF IndexTypeOK
  <2>2. /\ pc' \in [Clients -> IngestPoints \cup RebuildPoints]
        /\ \A b \in Attempts : pc'[b] \in IngestPoints
        /\ \A r \in Rebuilds : pc'[r] \in RebuildPoints
        /\ PhaseTypeOK'
    BY <1>1, ClientsAssumption DEF PhaseTypeOK, IngestPoints, FailureCategories
  <2> QED
    BY <1>1, <2>1, <2>2 DEF StoreTypeOK, IndexTypeOK, storeVars
<1>4. RowsKept /\ DropHoldsVectors
  BY <1>1, ClientOnlyStep DEF storeVars
<1>5. OthersUntouched(a)
  BY <1>1 DEF PhaseTypeOK, IndexTypeOK, OthersUntouched, storeVars
<1>6. JobInv(a)'
  <2>1. \/ /\ pc'[a] = "ensure" /\ phase'[a] = "index"
           /\ vectors'[a] = CorpusCount
        \/ /\ pc'[a] = "embed" /\ phase'[a] = "embedding"
           /\ vectors'[a] < CorpusCount
        \/ /\ pc'[a] = "fail" /\ phase'[a] = "embedding"
           /\ vectors'[a] < CorpusCount
    BY <1>1, <1>2, CorpusAssumption DEF PhaseTypeOK, IndexTypeOK
  <2> QED
    BY <2>1, <1>1, <1>2 DEF JobInv, ControlInv, RowInv, PhaseInv, RecordInv,
                Working, Indexing, Filling, Persisted, storeVars
<1> QED
  BY <1>3, <1>4, <1>5, <1>6, AttemptStepIsSound

LEMMA SystemEnsure ==
  ASSUME SystemInv, NEW a \in Attempts, IngestEnsure(a)
  PROVE  StepIsSound(a)
<1> a \in Clients
  BY AttemptsAssumption
<1>1. /\ pc[a] \in {"ensure", "check", "create"}
      /\ UNCHANGED <<snapshotRows, factRows, jobs, phase>>
      /\ UNCHANGED <<objects, loaded, vectors, cursor>>
      /\ contract' = contract \/ contract' = "legal_passage_v1"
      /\ contract' = "absent" => contract = "absent"
      /\ \E to \in {"check", "create", "upsert", "fail"} :
            pc' = [pc EXCEPT ![a] = to]
  BY EnsureEffect DEF IngestEnsure, storeVars
<1> USE DEF SystemInv, SystemTypeOK
<1>2. /\ loaded[a] \in Sources /\ phase[a] = "index" /\ vectors[a] = CorpusCount
      /\ Persisted(loaded[a].snapshot) /\ jobs[a].status = "running"
      /\ cursor[a] = 1 /\ 1 <= CorpusCount
  BY <1>1, CorpusAssumption DEF JobInv, ControlInv, PhaseInv, Working, Indexing
<1>3. SystemTypeOK'
  BY <1>1, ClientsAssumption
     DEF StoreTypeOK, IndexTypeOK, PhaseTypeOK, IngestPoints, Contracts
<1>4. RowsKept /\ DropHoldsVectors /\ OthersUntouched(a)
  BY <1>1 DEF RowsKept, DropHoldsVectors, OthersUntouched
<1>5. JobInv(a)'
  <2>1. pc'[a] \in {"check", "create", "upsert", "fail"}
    BY <1>1
  <2> QED
    BY <2>1, <1>1, <1>2 DEF JobInv, ControlInv, RowInv, PhaseInv, RecordInv,
                Working, Indexing, Filling, Persisted
<1> QED
  BY <1>3, <1>4, <1>5, AttemptStepIsSound

LEMMA SystemUpsert ==
  ASSUME SystemInv, NEW a \in Attempts, IngestUpsert(a)
  PROVE  StepIsSound(a)
<1> a \in Clients
  BY AttemptsAssumption
<1>1. /\ pc[a] \in {"upsert", "update"}
      /\ UNCHANGED <<snapshotRows, factRows, jobs, phase>>
      /\ UNCHANGED <<loaded, vectors>>
      /\ contract' = contract \/ contract' = "auto_schema"
      /\ objects' = objects \/ StoreObject(a)
      /\ \/ cursor' = cursor
            /\ \E to \in {"update", "fail"} : pc' = [pc EXCEPT ![a] = to]
         \/ /\ cursor' = [cursor EXCEPT ![a] = @ + 1]
            /\ pc' = [pc EXCEPT ![a] = IF cursor[a] = vectors[a] THEN "succeed"
                                                                 ELSE "upsert"]
  BY UpsertEffect DEF IngestUpsert, storeVars
<1> USE DEF SystemInv, SystemTypeOK
<1>2. /\ loaded[a] \in Sources /\ phase[a] = "index" /\ vectors[a] = CorpusCount
      /\ Persisted(loaded[a].snapshot) /\ jobs[a].status = "running"
      /\ cursor[a] \in 1..CorpusCount /\ cursor \in [Clients -> 1..(CorpusCount + 1)]
  BY <1>1, CorpusAssumption
     DEF JobInv, ControlInv, PhaseInv, Working, Indexing, Filling, IndexTypeOK
<1>3. /\ cursor' \in [Clients -> 1..(CorpusCount + 1)]
      /\ \/ cursor'[a] = cursor[a] /\ pc'[a] \in {"update", "fail"}
         \/ /\ cursor'[a] = cursor[a] + 1
            /\ \/ pc'[a] = "succeed" /\ cursor'[a] = CorpusCount + 1
               \/ pc'[a] = "upsert" /\ cursor'[a] <= CorpusCount
  BY <1>1, <1>2, CorpusAssumption
<1>4. SystemTypeOK'
  <2>1. objects' \in [StableIds -> Versions \cup {Missing}]
    BY <1>1, <1>2 DEF StoreObject, IndexTypeOK, Sources
  <2>2. /\ pc' \in [Clients -> IngestPoints \cup RebuildPoints]
        /\ \A b \in Attempts : pc'[b] \in IngestPoints
        /\ \A r \in Rebuilds : pc'[r] \in RebuildPoints
    BY <1>1, ClientsAssumption DEF IngestPoints
  <2> QED
    BY <1>1, <1>3, <2>1, <2>2 DEF StoreTypeOK, IndexTypeOK, PhaseTypeOK, Contracts
<1>5. RowsKept /\ DropHoldsVectors
  BY <1>1 DEF RowsKept, DropHoldsVectors
<1>6. OthersUntouched(a)
  BY <1>1, <1>2 DEF OthersUntouched
<1>7. JobInv(a)'
  <2>1. ControlInv(a)' /\ RecordInv(a)'
    BY <1>1, <1>2, <1>3, CorpusAssumption
       DEF ControlInv, RecordInv, Working, Indexing, Filling
  <2>2. RowInv(a)' /\ PhaseInv(a)'
    BY <1>1, <1>2 DEF JobInv, RowInv, PhaseInv, Persisted
  <2> QED
    BY <2>1, <2>2 DEF JobInv
<1> QED
  BY <1>4, <1>5, <1>6, <1>7, AttemptStepIsSound

(* succeed_job and fail_job: the row of this attempt is finished.          *)
LEMMA SystemFinishJob ==
  ASSUME SystemInv, NEW a \in Attempts, IngestSucceed(a) \/ IngestFail(a)
  PROVE  StepIsSound(a)
<1> a \in Clients
  BY AttemptsAssumption
<1>1. /\ UNCHANGED <<snapshotRows, factRows, phase>>
      /\ UNCHANGED <<contract, objects, loaded, vectors, cursor>>
      /\ \/ /\ pc[a] = "succeed"
            /\ jobs' = [jobs EXCEPT ![a].status = "succeeded", ![a].category = "none"]
            /\ \/ pc' = [pc EXCEPT ![a] = "returned"]
               \/ pc' = [pc EXCEPT ![a] = "fail"] /\ "store_ack" \in Faults
         \/ /\ pc[a] = "fail"
            /\ jobs' = [jobs EXCEPT ![a].status = "failed", ![a].category = phase[a]]
            /\ pc' = [pc EXCEPT ![a] = "raised"]
  BY DEF IngestSucceed, IngestFail, SucceedJob, FailJob, FinishJob, Committed, Goto,
         Fails, collectionVars
<1> USE DEF SystemInv, SystemTypeOK
<1>2. /\ loaded[a] \in Sources /\ phase[a] \in FailureCategories
      /\ jobs[a].snapshot = loaded[a].snapshot /\ jobs[a].snapshot \in snapshotRows
      /\ jobs[a] \in JobRow
  BY <1>1 DEF JobInv, ControlInv, RowInv, PhaseTypeOK, StoreTypeOK, Working, Indexing,
              Filling
<1>3. SystemTypeOK'
  <2>1. jobs' \in [Attempts -> JobRow]
    BY <1>1, <1>2 DEF StoreTypeOK, JobRow, JobStatuses
  <2> QED
    BY <1>1, <2>1, ClientsAssumption
       DEF StoreTypeOK, IndexTypeOK, PhaseTypeOK, IngestPoints, Ended
<1>4. RowsKept /\ DropHoldsVectors
  BY <1>1, ClientOnlyStep
<1>5. OthersUntouched(a)
  BY <1>1 DEF StoreTypeOK, OthersUntouched
<1>6. JobInv(a)'
  <2>1. /\ jobs'[a].snapshot = loaded[a].snapshot
        /\ \/ /\ pc'[a] = "returned" \/ (pc'[a] = "fail" /\ "store_ack" \in Faults)
              /\ jobs'[a].status = "succeeded"
           \/ /\ pc'[a] = "raised" /\ jobs'[a].status = "failed"
              /\ jobs'[a].category = phase[a]
    <3>1. CASE pc[a] = "succeed"
      <4>1. jobs' = [jobs EXCEPT ![a].status = "succeeded", ![a].category = "none"]
        BY <3>1, <1>1
      <4>2. pc'[a] = "returned" \/ (pc'[a] = "fail" /\ "store_ack" \in Faults)
        BY <3>1, <1>1
      <4> QED
        BY <4>1, <4>2, <1>2 DEF StoreTypeOK, JobRow
    <3>2. CASE pc[a] = "fail"
      <4>1. jobs' = [jobs EXCEPT ![a].status = "failed", ![a].category = phase[a]]
        BY <3>2, <1>1
      <4>2. pc'[a] = "raised"
        BY <3>2, <1>1
      <4> QED
        BY <4>1, <4>2, <1>2 DEF StoreTypeOK, JobRow
    <3> QED
      BY <3>1, <3>2, <1>1
  <2>2. ControlInv(a)' /\ RowInv(a)' /\ RecordInv(a)'
    BY <2>1, <1>1, <1>2
       DEF ControlInv, RowInv, RecordInv, Working, Indexing, Filling, PhaseTypeOK,
           FailureCategories
  <2>3. PhaseInv(a)'
    BY <2>1, <1>1, <1>2 DEF JobInv, PhaseInv, Persisted
  <2> QED
    BY <2>2, <2>3 DEF JobInv
<1> QED
  BY <1>3, <1>4, <1>5, <1>6, AttemptStepIsSound

(* Refused requests, refused transactions and crashes.                     *)
LEMMA SystemFailure ==
  ASSUME SystemInv, NEW a \in Attempts,
         IngestIndexRefused(a) \/ IngestStoreRefused(a) \/ Crash(a)
  PROVE  StepIsSound(a)
<1> a \in Clients
  BY AttemptsAssumption
<1>1. /\ UNCHANGED <<snapshotRows, factRows, jobs, contract, objects, loaded,
                     vectors, cursor, phase>>
      /\ \/ pc' = [pc EXCEPT ![a] = "fail"] /\ pc[a] \in Working
         \/ pc' = [pc EXCEPT ![a] = "raised"] /\ "store" \in Faults
         \/ pc' = [pc EXCEPT ![a] = "crashed"]
  <2> USE DEF Goto, storeVars, collectionVars
  <2>1. CASE IngestIndexRefused(a)
    <3>1. pc[a] \in IngestPoints /\ pc[a] \in IndexRequests
      BY <2>1 DEF IngestIndexRefused, IndexRefuses, SystemInv, SystemTypeOK
    <3>2. pc[a] \in Working
      BY <3>1 DEF IngestPoints, Ended, IndexRequests, Working, Indexing, Filling
    <3> QED
      BY <2>1, <3>2 DEF IngestIndexRefused, IndexRefuses
  <2>2. CASE IngestStoreRefused(a)
    BY <2>2 DEF IngestStoreRefused, Fails, Working, Indexing, Filling
  <2>3. CASE Crash(a)
    BY <2>3 DEF Crash
  <2> QED
    BY <2>1, <2>2, <2>3
<1> USE DEF SystemInv, SystemTypeOK
<1>2. SystemTypeOK'
  BY <1>1, ClientsAssumption
     DEF StoreTypeOK, IndexTypeOK, PhaseTypeOK, IngestPoints, Ended
<1>3. RowsKept /\ DropHoldsVectors /\ OthersUntouched(a)
  BY <1>1, ClientOnlyStep DEF OthersUntouched
<1>4. JobInv(a)'
  <2>1. \/ pc'[a] = "fail" /\ pc[a] \in Working
        \/ pc'[a] = "raised" /\ "store" \in Faults
        \/ pc'[a] = "crashed"
    BY <1>1
  <2>2. ControlInv(a)' /\ RecordInv(a)'
    BY <2>1, <1>1 DEF JobInv, ControlInv, RecordInv, Working, Indexing, Filling
  <2>3. RowInv(a)' /\ PhaseInv(a)'
    BY <1>1 DEF JobInv, RowInv, PhaseInv, Persisted
  <2> QED
    BY <2>2, <2>3 DEF JobInv
<1> QED
  BY <1>2, <1>3, <1>4, AttemptStepIsSound

LEMMA EveryAttemptStepIsSound ==
  ASSUME SystemInv, NEW a \in Attempts, IngestLoad(a) \/ IngestStep(a) \/ Crash(a)
  PROVE  StepIsSound(a)
BY SystemLoad, SystemStartJob, SystemPersist, SystemEmbed, SystemEnsure,
   SystemUpsert, SystemFinishJob, SystemFailure DEF IngestStep

------------------------------------------------------------------------------
(* The actions of a rebuild.  None of them touches PostgreSQL.             *)

LEMMA SystemRebuildLoad ==
  ASSUME SystemInv, NEW r \in Rebuilds, UNCHANGED <<storeVars, phase>>,
         RebuildUnconfirmed(r) \/ RebuildLoad(r)
  PROVE  StepIsSound(r)
<1> r \in Clients /\ r \notin Attempts
  BY ClientsAssumption
<1>1. /\ pc[r] = "idle" /\ UNCHANGED <<contract, objects, vectors, cursor>>
      /\ \/ \E source \in Sources : /\ loaded' = [loaded EXCEPT ![r] = source]
                                    /\ pc' = [pc EXCEPT ![r] = "embed"]
         \/ loaded' = loaded /\ pc' = [pc EXCEPT ![r] = "raised"]
  BY DEF RebuildUnconfirmed, RebuildLoad, Load, Move, Goto, collectionVars
<1> USE DEF SystemInv, SystemTypeOK
<1>2. SystemTypeOK'
  BY <1>1, ClientsAssumption
     DEF StoreTypeOK, IndexTypeOK, PhaseTypeOK, RebuildPoints, Ended, storeVars
<1>3. OthersUntouched(r) /\ DropHoldsVectors
  BY <1>1 DEF IndexTypeOK, OthersUntouched, DropHoldsVectors, storeVars
<1>4. RebuildInv(r)'
  <2>1. /\ cursor'[r] = 1
        /\ \/ pc'[r] = "embed" /\ loaded'[r] \in Sources
           \/ pc'[r] = "raised"
    BY <1>1 DEF IndexTypeOK, RebuildInv
  <2> QED
    BY <2>1 DEF RebuildInv
<1> QED
  BY <1>2, <1>3, <1>4, RebuildStepIsSound

LEMMA SystemRebuildEmbed ==
  ASSUME SystemInv, NEW r \in Rebuilds, UNCHANGED <<storeVars, phase>>,
         RebuildEmbed(r)
  PROVE  StepIsSound(r)
<1> r \in Clients /\ r \notin Attempts
  BY ClientsAssumption
<1>1. /\ pc[r] = "embed" /\ UNCHANGED <<contract, objects, loaded, cursor>>
      /\ \/ vectors' = vectors
         \/ /\ vectors' = [vectors EXCEPT ![r] = @ + BatchLength(r)]
            /\ vectors'[r] \in 0..CorpusCount
      /\ pc' = pc \/ \E to \in {"delete", "raised"} : pc' = [pc EXCEPT ![r] = to]
  BY EmbedEffect DEF RebuildEmbed, SystemInv
<1> USE DEF SystemInv, SystemTypeOK
<1>2. SystemTypeOK'
  <2>1. vectors' \in [Clients -> 0..CorpusCount]
    BY <1>1 DEF IndexTypeOK
  <2> DEFINE PcTyped == /\ pc \in [Clients -> IngestPoints \cup RebuildPoints]
                        /\ \A b \in Attempts : pc[b] \in IngestPoints
                        /\ \A q \in Rebuilds : pc[q] \in RebuildPoints
  <2>2. PcTyped'
    <3>1. CASE pc' = pc
      BY <3>1
    <3>2. ASSUME NEW to \in {"delete", "raised"}, pc' = [pc EXCEPT ![r] = to]
          PROVE  PcTyped'
      BY <3>2 DEF RebuildPoints, Ended
    <3> QED
      BY <3>1, <3>2, <1>1
  <2>3. IndexTypeOK'
    BY <1>1, <2>1 DEF IndexTypeOK
  <2> QED
    BY <2>2, <2>3 DEF StoreTypeOK, PhaseTypeOK, storeVars
<1>3. OthersUntouched(r) /\ DropHoldsVectors
  BY <1>1 DEF IndexTypeOK, OthersUntouched, DropHoldsVectors, storeVars
<1>4. RebuildInv(r)'
  <2>1. pc'[r] \in {"embed", "delete", "raised"}
    BY <1>1
  <2> QED
    BY <2>1, <1>1 DEF RebuildInv
<1> QED
  BY <1>2, <1>3, <1>4, RebuildStepIsSound

(* The delete comes after the length check of the vectors.                 *)
LEMMA SystemRebuildDelete ==
  ASSUME SystemInv, NEW r \in Rebuilds, UNCHANGED <<storeVars, phase>>,
         RebuildDelete(r)
  PROVE  StepIsSound(r)
<1> r \in Clients /\ r \notin Attempts
  BY ClientsAssumption
<1>1. /\ vectors[r] = CorpusCount \/ pc' = [pc EXCEPT ![r] = "raised"]
      /\ pc[r] \in {"delete", "drop"}
      /\ \E to \in {"drop", "ensure", "raised"} : pc' = [pc EXCEPT ![r] = to]
      /\ UNCHANGED <<loaded, vectors, cursor>>
      /\ \/ contract' = contract /\ objects' = objects
         \/ /\ pc[r] = "drop" /\ vectors[r] = CorpusCount
            /\ contract' = "absent"
            /\ objects' = [id \in StableIds |-> Missing]
  <2>1. CASE vectors[r] # CorpusCount
    BY <2>1 DEF RebuildDelete, Move, Goto, collectionVars
  <2>2. CASE vectors[r] = CorpusCount /\ DeleteExists(r, "ensure")
    BY <2>2 DEF DeleteExists, Move, Goto
  <2>3. CASE vectors[r] = CorpusCount /\ DeleteDrop(r, "ensure", "raised")
    BY <2>3 DEF DeleteDrop, Answer, Goto
  <2> QED
    BY <2>1, <2>2, <2>3 DEF RebuildDelete
<1> USE DEF SystemInv, SystemTypeOK
<1>2. SystemTypeOK'
  BY <1>1, ClientsAssumption
     DEF StoreTypeOK, IndexTypeOK, PhaseTypeOK, RebuildPoints, Ended, Contracts,
         storeVars
<1>3. OthersUntouched(r) /\ DropHoldsVectors
  BY <1>1 DEF OthersUntouched, DropHoldsVectors, storeVars
<1>4. RebuildInv(r)'
  <2>1. \/ pc'[r] \in {"drop", "ensure"} /\ vectors[r] = CorpusCount
        \/ pc'[r] = "raised"
    BY <1>1
  <2> QED
    BY <2>1, <1>1 DEF RebuildInv
<1> QED
  BY <1>2, <1>3, <1>4, RebuildStepIsSound

LEMMA SystemRebuildEnsure ==
  ASSUME SystemInv, NEW r \in Rebuilds, UNCHANGED <<storeVars, phase>>,
         RebuildEnsure(r)
  PROVE  StepIsSound(r)
<1> r \in Clients /\ r \notin Attempts
  BY ClientsAssumption
<1>1. /\ pc[r] \in {"ensure", "check", "create"}
      /\ UNCHANGED <<objects, loaded, vectors, cursor>>
      /\ contract' = contract \/ contract' = "legal_passage_v1"
      /\ contract' = "absent" => contract = "absent"
      /\ \E to \in {"check", "create", "upsert", "raised"} :
            pc' = [pc EXCEPT ![r] = to]
  BY EnsureEffect DEF RebuildEnsure
<1> USE DEF SystemInv, SystemTypeOK
<1>2. SystemTypeOK'
  BY <1>1, ClientsAssumption
     DEF StoreTypeOK, IndexTypeOK, PhaseTypeOK, RebuildPoints, Ended, Contracts,
         storeVars
<1>3. OthersUntouched(r) /\ DropHoldsVectors
  BY <1>1 DEF OthersUntouched, DropHoldsVectors, storeVars
<1>4. RebuildInv(r)'
  <2>1. pc'[r] \in {"check", "create", "upsert", "raised"} /\ 1 <= CorpusCount
    BY <1>1, CorpusAssumption
  <2> QED
    BY <2>1, <1>1 DEF RebuildInv
<1> QED
  BY <1>2, <1>3, <1>4, RebuildStepIsSound

LEMMA SystemRebuildUpsert ==
  ASSUME SystemInv, NEW r \in Rebuilds, UNCHANGED <<storeVars, phase>>,
         RebuildUpsert(r)
  PROVE  StepIsSound(r)
<1> r \in Clients /\ r \notin Attempts
  BY ClientsAssumption
<1>1. /\ pc[r] \in {"upsert", "update"} /\ UNCHANGED <<loaded, vectors>>
      /\ contract' = contract \/ contract' = "auto_schema"
      /\ objects' = objects \/ StoreObject(r)
      /\ \/ cursor' = cursor
            /\ \E to \in {"update", "raised"} : pc' = [pc EXCEPT ![r] = to]
         \/ /\ cursor' = [cursor EXCEPT ![r] = @ + 1]
            /\ pc' = [pc EXCEPT ![r] = IF cursor[r] = vectors[r] THEN "count"
                                                                 ELSE "upsert"]
  BY UpsertEffect DEF RebuildUpsert
<1> USE DEF SystemInv, SystemTypeOK
<1>2. /\ loaded[r] \in Sources /\ vectors[r] = CorpusCount
      /\ cursor[r] \in 1..CorpusCount /\ cursor \in [Clients -> 1..(CorpusCount + 1)]
  BY <1>1, CorpusAssumption DEF RebuildInv, IndexTypeOK
<1>3. /\ cursor' \in [Clients -> 1..(CorpusCount + 1)]
      /\ \/ cursor'[r] = cursor[r] /\ pc'[r] \in {"update", "raised"}
         \/ pc'[r] = "count"
         \/ pc'[r] = "upsert" /\ cursor'[r] <= CorpusCount
  BY <1>1, <1>2, CorpusAssumption
<1>4. SystemTypeOK'
  <2>1. objects' \in [StableIds -> Versions \cup {Missing}]
    BY <1>1, <1>2 DEF StoreObject, IndexTypeOK, Sources
  <2>2. /\ pc' \in [Clients -> IngestPoints \cup RebuildPoints]
        /\ \A b \in Attempts : pc'[b] \in IngestPoints
        /\ \A q \in Rebuilds : pc'[q] \in RebuildPoints
    <3>1. PICK to \in {"update", "raised", "count", "upsert"} :
                pc' = [pc EXCEPT ![r] = to]
      BY <1>1
    <3> QED
      BY <3>1 DEF RebuildPoints, Ended
  <2> QED
    BY <1>1, <1>3, <2>1, <2>2
       DEF StoreTypeOK, IndexTypeOK, PhaseTypeOK, Contracts, storeVars
<1>5. OthersUntouched(r) /\ DropHoldsVectors
  BY <1>1, <1>2 DEF OthersUntouched, DropHoldsVectors, storeVars
<1>6. RebuildInv(r)'
  BY <1>1, <1>2, <1>3 DEF RebuildInv
<1> QED
  BY <1>4, <1>5, <1>6, RebuildStepIsSound

(* Counting, refused requests and crashes only move the rebuild.           *)
LEMMA SystemRebuildMoves ==
  ASSUME SystemInv, NEW r \in Rebuilds, UNCHANGED <<storeVars, phase>>,
         RebuildCount(r) \/ IndexRefuses(r, "raised") \/ Crash(r)
  PROVE  /\ StepIsSound(r)
         /\ pc'[r] = "returned" => pc[r] = "aggregate" /\ ObjectCount = CorpusCount
<1> r \in Clients /\ r \notin Attempts
  BY ClientsAssumption
<1>1. /\ UNCHANGED <<contract, objects, loaded, vectors, cursor>>
      /\ \/ pc[r] = "count" /\ pc' = [pc EXCEPT ![r] = "aggregate"]
         \/ /\ pc[r] = "aggregate" /\ ObjectCount = CorpusCount
            /\ pc' = [pc EXCEPT ![r] = "returned"]
         \/ pc' = [pc EXCEPT ![r] = "raised"]
         \/ pc' = [pc EXCEPT ![r] = "crashed"]
  <2> USE DEF Goto, Move
  <2>1. CASE CountExists(r, "raised")
    BY <2>1 DEF CountExists
  <2>2. CASE CountAggregate(r, "returned", "raised")
    BY <2>2 DEF CountAggregate
  <2>3. CASE IndexRefuses(r, "raised")
    BY <2>3 DEF IndexRefuses
  <2>4. CASE Crash(r)
    BY <2>4 DEF Crash, collectionVars
  <2> QED
    BY <2>1, <2>2, <2>3, <2>4 DEF RebuildCount
<1> USE DEF SystemInv, SystemTypeOK
<1>2. \E to \in {"aggregate", "returned", "raised", "crashed"} :
         pc' = [pc EXCEPT ![r] = to]
  BY <1>1
<1>3. SystemTypeOK'
  BY <1>1, <1>2, ClientsAssumption
     DEF StoreTypeOK, IndexTypeOK, PhaseTypeOK, RebuildPoints, Ended, storeVars
<1>4. OthersUntouched(r) /\ DropHoldsVectors
  BY <1>1, <1>2 DEF OthersUntouched, DropHoldsVectors, storeVars
<1>5. \/ pc[r] = "count" /\ pc'[r] = "aggregate"
      \/ pc[r] = "aggregate" /\ ObjectCount = CorpusCount /\ pc'[r] = "returned"
      \/ pc'[r] \in {"raised", "crashed"}
  BY <1>1
<1>6. RebuildInv(r)'
  BY <1>5, <1>1 DEF RebuildInv
<1> QED
  BY <1>3, <1>4, <1>5, <1>6, RebuildStepIsSound

LEMMA EveryRebuildStepIsSound ==
  ASSUME SystemInv, NEW r \in Rebuilds, UNCHANGED <<storeVars, phase>>,
         RebuildUnconfirmed(r) \/ RebuildLoad(r) \/ RebuildStep(r) \/ Crash(r)
  PROVE  StepIsSound(r)
BY SystemRebuildLoad, SystemRebuildEmbed, SystemRebuildDelete, SystemRebuildEnsure,
   SystemRebuildUpsert, SystemRebuildMoves DEF RebuildStep

------------------------------------------------------------------------------
(* The whole system.                                                       *)

LEMMA SystemInitInv == Init => SystemInv
<1> SUFFICES ASSUME Init PROVE SystemInv
  OBVIOUS
<1>1. SystemTypeOK
  <2>1. StoreTypeOK
    BY DEF Init, StoreInit, StoreTypeOK, JobRow, NoJob, JobStatuses
  <2>2. IndexTypeOK
    BY CorpusAssumption DEF Init, IndexInit, IndexTypeOK, Contracts, NoSource
  <2>3. PhaseTypeOK
    BY DEF Init, PhaseTypeOK
  <2>4. \A c \in Clients : pc[c] = "idle"
    BY DEF Init, IndexInit
  <2> QED
    BY <2>1, <2>2, <2>3, <2>4, ClientsAssumption
       DEF SystemTypeOK, IngestPoints, RebuildPoints, Init, IndexInit
<1>2. ASSUME NEW a \in Attempts PROVE JobInv(a)
  <2>1. /\ pc[a] = "idle" /\ phase[a] = "none" /\ vectors[a] = 0
        /\ cursor[a] = 1 /\ jobs[a].status = "none"
    BY AttemptsAssumption DEF Init, IndexInit, StoreInit, NoJob
  <2> QED
    BY <2>1 DEF JobInv, ControlInv, RowInv, PhaseInv, RecordInv,
                Working, Indexing, Filling
<1>3. ASSUME NEW r \in Rebuilds PROVE RebuildInv(r)
  BY RebuildsAssumption DEF Init, IndexInit, RebuildInv
<1> QED
  BY <1>1, <1>2, <1>3 DEF SystemInv

LEMMA ScriptStepIsSound ==
  ASSUME SystemInv, NEW c \in Clients, SystemStart(c) \/ SystemStep(c) \/ Crash(c)
  PROVE  StepIsSound(c)
<1>1. CASE c \in Attempts
  BY <1>1, ClientsAssumption, EveryAttemptStepIsSound DEF SystemStart, SystemStep
<1>2. CASE c \in Rebuilds
  <2>1. UNCHANGED <<storeVars, phase>>
    BY <1>2, ClientsAssumption DEF SystemStart, SystemStep, Crash
  <2> QED
    BY <1>2, <2>1, ClientsAssumption, EveryRebuildStepIsSound
       DEF SystemStart, SystemStep
<1> QED
  BY <1>1, <1>2, ClientsAssumption

LEMMA SystemStepIsSound ==
  ASSUME SystemInv, SystemNext
  PROVE  \E c \in Clients : StepIsSound(c)
BY ScriptStepIsSound DEF SystemNext

LEMMA SystemStutter == SystemInv /\ UNCHANGED vars => SystemInv'
<1> SUFFICES ASSUME SystemInv, UNCHANGED vars PROVE SystemInv'
  OBVIOUS
<1> USE DEF SystemInv, vars
<1>1. SystemTypeOK'
  BY DEF SystemTypeOK, StoreTypeOK, IndexTypeOK, PhaseTypeOK
<1>2. ASSUME NEW a \in Attempts PROVE JobInv(a)'
  BY DEF JobInv, ControlInv, RowInv, PhaseInv, RecordInv, Persisted
<1>3. ASSUME NEW r \in Rebuilds PROVE RebuildInv(r)'
  BY DEF RebuildInv
<1> QED
  BY <1>1, <1>2, <1>3

(* The invariant that attempts and rebuilds together preserve.             *)
THEOREM SystemInvariant == SystemSpec => []SystemInv
<1>1. SystemInv /\ [SystemNext]_vars => SystemInv'
  BY SystemStepIsSound, SystemStutter DEF StepIsSound
<1> QED
  BY <1>1, SystemInitInv, PTL DEF SystemSpec

(* docs/ingestion.md, "the job records only the safe category": as long as *)
(* PostgreSQL answers, every attempt that raised after start_job has left  *)
(* a FAILED row with the phase it was in, beside any number of rebuilds.   *)
THEOREM FailuresAreRecorded ==
  ASSUME "store" \notin Faults, "store_ack" \notin Faults
  PROVE  SystemSpec => []FailureIsRecorded
<1>1. SystemInv => FailureIsRecorded
  <2> SUFFICES ASSUME SystemInv, NEW a \in Attempts, pc[a] = "raised",
                      phase[a] # "none"
               PROVE  jobs[a].status = "failed" /\ jobs[a].category = phase[a]
    BY DEF FailureIsRecorded
  <2>1. RecordInv(a) /\ RowInv(a)
    BY DEF SystemInv, JobInv
  <2>2. {"store", "store_ack"} \cap Faults = {}
    OBVIOUS
  <2> QED
    BY <2>1, <2>2 DEF RecordInv, RowInv
<1> QED
  BY <1>1, SystemInvariant, PTL

(* A rebuild changes nothing that the category of a FAILED job is about:   *)
(* it tells how far the attempt got, whoever runs beside it.               *)
THEOREM CategoryIsAccurateBesideRebuilds == SystemSpec => []CategoryTellsProgress
<1>1. SystemInv => CategoryTellsProgress
  BY DEF SystemInv, JobInv, RowInv, PhaseInv, CategoryTellsProgress
<1> QED
  BY <1>1, SystemInvariant, PTL

(* "later retries never alter immutable source rows": neither does a       *)
(* rebuild.                                                                *)
THEOREM RowsAreImmutableBesideRebuilds == SystemSpec => SourceRowsAreImmutable
<1>1. SystemInv /\ [SystemNext]_vars => [RowsKept]_vars
  BY SystemStepIsSound DEF StepIsSound
<1> QED
  BY <1>1, SystemInvariant, PTL DEF SystemSpec, SourceRowsAreImmutable, RowsKept

(* docs/ingestion.md, "builds vectors before deleting the old derived      *)
(* collection": no interleaving of scripts and failures makes the          *)
(* collection disappear but a rebuild that embedded every passage.         *)
THEOREM DropsHoldVectors == SystemSpec => DropOnlyWithVectors
<1>1. SystemInv /\ [SystemNext]_vars => [DropHoldsVectors]_vars
  BY SystemStepIsSound DEF StepIsSound
<1> QED
  BY <1>1, SystemInvariant, PTL DEF SystemSpec, DropOnlyWithVectors, DropHoldsVectors

------------------------------------------------------------------------------
(* The count at the end of a rebuild.  RefillIsExact needs to know, while  *)
(* other scripts insert and update objects of any snapshot, what a rebuild *)
(* has written and still finds: the passages below its cursor.             *)

Refilling == {"ensure", "check", "create", "upsert", "update", "count", "aggregate"}

RefillInv(r) ==
    /\ r \in Rebuilds /\ pc[r] \in Refilling /\ loaded[r] \in Sources
    /\ \A p \in Passages :
          p < cursor[r] => objects[StableId(loaded[r].snapshot, p)] # Missing
    /\ pc[r] \in {"count", "aggregate"} => cursor[r] = CorpusCount + 1

WatchedInv == SystemInv /\ \A r \in intact : RefillInv(r)

(* The history restricts nothing.                                          *)
LEMMA WatchedImpliesSystem == WatchedSpec => SystemSpec
<1>1. [WatchedNext]_<<vars, intact>> => [SystemNext]_vars
  BY DEF WatchedNext
<1> QED
  BY <1>1, PTL DEF WatchedSpec, SystemSpec

(* A step of another script leaves the rebuild where it is, and it stays   *)
(* intact only if that step removed no object.                             *)
LEMMA OtherScriptKeepsRefill ==
  ASSUME WatchedInv, Watch, NEW r \in intact', NEW c \in Clients, c # r,
         OthersUntouched(c)
  PROVE  RefillInv(r)'
<1>1. r \in Rebuilds /\ r \in Clients
  BY RebuildsAssumption DEF Watch
<1>2. pc'[r] = pc[r] /\ loaded'[r] = loaded[r] /\ cursor'[r] = cursor[r]
  BY <1>1 DEF OthersUntouched
<1>3. r \in intact /\ ~ObjectsRemoved
  BY <1>2 DEF Watch, HasDeleted
<1>4. RefillInv(r)
  BY <1>3 DEF WatchedInv
<1>5. \A p \in Passages : StableId(loaded[r].snapshot, p) \in StableIds
  BY <1>4 DEF RefillInv, Sources, StableId, StableIds
<1>6. \A id \in StableIds : objects[id] # Missing => objects'[id] # Missing
  BY <1>3 DEF ObjectsRemoved
<1>7. \A p \in Passages :
         p < cursor'[r] => objects'[StableId(loaded'[r].snapshot, p)] # Missing
  BY <1>2, <1>4, <1>5, <1>6 DEF RefillInv
<1> QED
  BY <1>1, <1>2, <1>4, <1>7 DEF RefillInv

(* What a rebuild has written stays below its cursor, and the cursor only  *)
(* passes an object that has just been stored.                             *)
LEMMA UpsertKeepsRefill ==
  ASSUME WatchedInv, NEW r \in intact, RebuildUpsert(r), pc'[r] \notin Ended
  PROVE  RefillInv(r)'
<1> r \in Clients /\ RefillInv(r) /\ RebuildInv(r)
  BY RebuildsAssumption DEF WatchedInv, SystemInv, RefillInv
<1>1. /\ pc[r] \in {"upsert", "update"} /\ UNCHANGED <<loaded, vectors>>
      /\ objects' = objects \/ StoreObject(r)
      /\ \/ cursor' = cursor
            /\ \E to \in {"update", "raised"} : pc' = [pc EXCEPT ![r] = to]
         \/ /\ StoreObject(r) /\ cursor' = [cursor EXCEPT ![r] = @ + 1]
            /\ pc' = [pc EXCEPT ![r] = IF cursor[r] = vectors[r] THEN "count"
                                                                 ELSE "upsert"]
  BY UpsertEffect DEF RebuildUpsert
<1>2. /\ loaded[r] \in Sources /\ vectors[r] = CorpusCount
      /\ cursor[r] \in 1..CorpusCount /\ pc \in [Clients -> IngestPoints \cup RebuildPoints]
      /\ cursor \in [Clients -> 1..(CorpusCount + 1)]
      /\ objects \in [StableIds -> Versions \cup {Missing}]
  BY <1>1, CorpusAssumption
     DEF RebuildInv, WatchedInv, SystemInv, SystemTypeOK, IndexTypeOK
<1> DEFINE s == loaded[r].snapshot
<1>3. \A p \in Passages : StableId(s, p) \in StableIds
  BY <1>2 DEF Sources, StableId, StableIds
<1>4. CursorId(r) = StableId(s, cursor[r]) /\ CursorId(r) \in StableIds
  BY <1>2, <1>3 DEF CursorId, Passages
<1>5. loaded[r].version \in Versions /\ loaded[r].version # Missing
  BY <1>2, CorpusAssumption DEF Sources
<1>6. \A id \in StableIds : objects[id] # Missing => objects'[id] # Missing
  BY <1>1, <1>2, <1>4, <1>5 DEF StoreObject
<1>7. \A p \in Passages : p < cursor'[r] => objects'[StableId(s, p)] # Missing
  <2>1. CASE cursor' = cursor
    BY <2>1, <1>3, <1>6 DEF RefillInv
  <2>2. CASE StoreObject(r) /\ cursor' = [cursor EXCEPT ![r] = @ + 1]
    <3>1. objects'[CursorId(r)] # Missing
      BY <2>2, <1>2, <1>4, <1>5 DEF StoreObject
    <3>2. \A p \in Passages : p < cursor'[r] => p < cursor[r] \/ p = cursor[r]
      BY <2>2, <1>2, CorpusAssumption DEF Passages
    <3> QED
      BY <3>1, <3>2, <1>3, <1>4, <1>6 DEF RefillInv
  <2> QED
    BY <1>1, <2>1, <2>2
<1>8. /\ pc'[r] \in Refilling
      /\ pc'[r] \in {"count", "aggregate"} => cursor'[r] = CorpusCount + 1
  BY <1>1, <1>2, CorpusAssumption DEF Refilling, Ended
<1> QED
  BY <1>1, <1>2, <1>7, <1>8 DEF RefillInv

(* The other steps of the rebuild itself store nothing.                    *)
LEMMA OwnStepKeepsRefill ==
  ASSUME WatchedInv, Watch, NEW r \in intact', UNCHANGED <<storeVars, phase>>,
         RebuildUnconfirmed(r) \/ RebuildLoad(r) \/ RebuildStep(r) \/ Crash(r)
  PROVE  RefillInv(r)'
<1>1. /\ r \in Rebuilds /\ r \in Clients /\ pc'[r] \notin Ended
      /\ HasDeleted(r) \/ r \in intact
  BY RebuildsAssumption DEF Watch
<1>2. /\ pc \in [Clients -> IngestPoints \cup RebuildPoints] /\ RebuildInv(r)
      /\ cursor[r] \in 1..(CorpusCount + 1)
  BY <1>1 DEF WatchedInv, SystemInv, SystemTypeOK, IndexTypeOK
<1>3. r \in intact => RefillInv(r)
  BY DEF WatchedInv
<1>4. pc[r] \in {"delete", "drop"} \cup Refilling
  BY <1>1, <1>3 DEF HasDeleted, RefillInv
<1>5. CASE RebuildUnconfirmed(r) \/ RebuildLoad(r) \/ RebuildEmbed(r)
  BY <1>4, <1>5 DEF RebuildUnconfirmed, RebuildLoad, Load, RebuildEmbed, EmbedBatch,
                    Move, Refilling
<1>6. CASE RebuildDelete(r)
  <2>1. /\ pc[r] \in {"delete", "drop"} /\ UNCHANGED <<loaded, cursor>>
        /\ \E to \in {"drop", "ensure", "raised"} : pc' = [pc EXCEPT ![r] = to]
    BY <1>6 DEF RebuildDelete, DeleteExists, DeleteDrop, Answer, Move, Goto
  <2>2. r \notin intact
    BY <2>1, <1>3 DEF RefillInv, Refilling
  <2>3. pc'[r] = "ensure"
    BY <2>2, <1>1 DEF HasDeleted
  <2>4. loaded'[r] \in Sources /\ cursor'[r] = 1
    BY <2>1, <1>2 DEF RebuildInv
  <2> QED
    BY <2>3, <2>4, <1>1 DEF RefillInv, Refilling, Passages
<1>7. CASE RebuildEnsure(r)
  <2>1. /\ pc[r] \in {"ensure", "check", "create"} /\ UNCHANGED <<objects, loaded, cursor>>
        /\ \E to \in {"check", "create", "upsert", "raised"} : pc' = [pc EXCEPT ![r] = to]
    BY <1>1, <1>7, EnsureEffect DEF RebuildEnsure
  <2>2. RefillInv(r)
    BY <2>1, <1>1, <1>3 DEF HasDeleted
  <2>3. pc'[r] \in {"check", "create", "upsert"}
    BY <2>1, <1>1, <1>2 DEF Ended
  <2> QED
    BY <2>1, <2>2, <2>3 DEF RefillInv, Refilling
<1>8. CASE RebuildUpsert(r)
  <2>1. pc[r] \in {"upsert", "update"}
    BY <1>1, <1>8, UpsertEffect DEF RebuildUpsert
  <2> QED
    BY <2>1, <1>1, <1>8, UpsertKeepsRefill DEF HasDeleted
<1>9. CASE RebuildCount(r) \/ IndexRefuses(r, "raised") \/ Crash(r)
  <2>1. /\ UNCHANGED <<objects, loaded, cursor>>
        /\ \/ pc[r] = "count" /\ pc'[r] = "aggregate"
           \/ pc'[r] \in Ended
    BY <1>1, <1>2, <1>9
       DEF RebuildCount, CountExists, CountAggregate, IndexRefuses, Crash,
           collectionVars, Move, Goto, Ended
  <2>2. pc[r] = "count" /\ pc'[r] = "aggregate" /\ RefillInv(r)
    BY <2>1, <1>1, <1>3 DEF HasDeleted
  <2> QED
    BY <2>1, <2>2 DEF RefillInv, Refilling
<1> QED
  BY <1>5, <1>6, <1>7, <1>8, <1>9 DEF RebuildStep

THEOREM WatchedInvariant == WatchedSpec => []WatchedInv
<1>1. Init /\ intact = {} => WatchedInv
  BY SystemInitInv DEF WatchedInv
<1>2. WatchedInv /\ [WatchedNext]_<<vars, intact>> => WatchedInv'
  <2>1. CASE UNCHANGED <<vars, intact>>
    <3> SUFFICES ASSUME WatchedInv, UNCHANGED <<vars, intact>> PROVE WatchedInv'
      BY <2>1
    <3> QED
      BY SystemStutter DEF WatchedInv, RefillInv, vars
  <2>2. CASE WatchedInv /\ WatchedNext
    <3> USE <2>2
    <3>1. PICK c \in Clients : SystemStart(c) \/ SystemStep(c) \/ Crash(c)
      BY DEF WatchedNext, SystemNext
    <3>2. StepIsSound(c)
      BY <3>1, ScriptStepIsSound DEF WatchedInv
    <3>3. ASSUME NEW r \in intact' PROVE RefillInv(r)'
      <4>1. CASE c # r
        BY <3>2, <3>3, <4>1, OtherScriptKeepsRefill DEF StepIsSound, WatchedNext
      <4>2. CASE c = r
        <5>1. r \in Rebuilds /\ r \notin Attempts
          BY ClientsAssumption DEF WatchedNext, Watch
        <5>2. UNCHANGED <<storeVars, phase>>
          BY <3>1, <4>2, <5>1 DEF SystemStart, SystemStep, Crash
        <5> QED
          BY <3>1, <4>2, <5>1, <5>2, OwnStepKeepsRefill
             DEF SystemStart, SystemStep, WatchedNext
      <4> QED
        BY <4>1, <4>2
    <3> QED
      BY <3>2, <3>3 DEF StepIsSound, WatchedInv
  <2> QED
    BY <2>1, <2>2
<1> QED
  BY <1>1, <1>2, PTL DEF WatchedSpec

(* A rebuild returns only from the comparison of the count.                *)
LEMMA ReturnsFromCount ==
  ASSUME SystemInv, SystemNext, NEW r \in Rebuilds,
         pc[r] # "returned", pc'[r] = "returned"
  PROVE  pc[r] = "aggregate" /\ ObjectCount = CorpusCount
<1>1. PICK c \in Clients : SystemStart(c) \/ SystemStep(c) \/ Crash(c)
  BY DEF SystemNext
<1>2. c = r
  BY <1>1, ScriptStepIsSound, RebuildsAssumption DEF StepIsSound, OthersUntouched
<1>3. \/ RebuildUnconfirmed(r) \/ RebuildLoad(r) \/ RebuildStep(r) \/ Crash(r)
  BY <1>1, <1>2, ClientsAssumption DEF SystemStart, SystemStep
<1>4. UNCHANGED <<storeVars, phase>>
  BY <1>1, <1>2, ClientsAssumption DEF SystemStart, SystemStep, Crash
<1> pc \in [Clients -> IngestPoints \cup RebuildPoints] /\ r \in Clients
  BY RebuildsAssumption DEF SystemInv, SystemTypeOK
<1>5. CASE RebuildCount(r) \/ IndexRefuses(r, "raised") \/ Crash(r)
  BY <1>5, <1>4, SystemRebuildMoves
<1>6. CASE RebuildUnconfirmed(r) \/ RebuildLoad(r)
  BY <1>6 DEF RebuildUnconfirmed, RebuildLoad, Load, Move, Goto
<1>7. CASE RebuildEmbed(r)
  BY <1>7, EmbedEffect DEF RebuildEmbed, SystemInv
<1>8. CASE RebuildDelete(r)
  BY <1>8 DEF RebuildDelete, DeleteExists, DeleteDrop, Answer, Move, Goto
<1>9. CASE RebuildEnsure(r)
  BY <1>9, EnsureEffect DEF RebuildEnsure
<1>10. CASE RebuildUpsert(r)
  <2>1. \E to \in {"update", "raised", "count", "upsert"} : pc' = [pc EXCEPT ![r] = to]
    BY <1>10, UpsertEffect DEF RebuildUpsert
  <2> QED
    BY <2>1
<1> QED
  BY <1>3, <1>5, <1>6, <1>7, <1>8, <1>9, <1>10 DEF RebuildStep

(* A complete snapshot has as many passages as the count, so a matching    *)
(* count leaves no room for an object of another one.                      *)
LEMMA FullCountIsExact ==
  ASSUME IsFiniteSet(Snapshots), NEW s \in Snapshots, Indexed(s),
         ObjectCount = CorpusCount
  PROVE  \A id \in StableIds : objects[id] # Missing <=> id[1] = s
<1> DEFINE present == {id \in StableIds : objects[id] # Missing}
           own == {s} \X Passages
<1>1. IsFiniteSet(Passages) /\ Cardinality(Passages) = CorpusCount
  BY CorpusAssumption, FS_Interval DEF Passages
<1>2. IsFiniteSet(own) /\ Cardinality(own) = CorpusCount
  <2>1. IsFiniteSet({s}) /\ Cardinality({s}) = 1
    BY FS_Singleton
  <2> QED
    BY <1>1, <2>1, FS_Product, CorpusAssumption
<1>3. IsFiniteSet(present)
  <2>1. IsFiniteSet(StableIds)
    BY <1>1, FS_Product DEF StableIds
  <2> QED
    BY <2>1, FS_Subset
<1>4. own \subseteq present
  BY DEF Indexed, StableId, StableIds
<1>5. own = present
  BY <1>2, <1>3, <1>4, FS_Subset DEF ObjectCount
<1> QED
  BY <1>5 DEF StableIds

(* The count cannot mistake another snapshot's objects for passages that   *)
(* the rebuild did not write: any attempts and rebuilds of any snapshots   *)
(* may run beside it, as long as no delete empties the collection under it.*)
THEOREM RefillsAreExact ==
  ASSUME IsFiniteSet(Snapshots)
  PROVE  WatchedSpec => RefillIsExact
<1> DEFINE Exact == \A r \in intact :
             pc'[r] = "returned" =>
                 \A id \in StableIds :
                    objects[id] # Missing <=> id[1] = loaded[r].snapshot
<1>1. WatchedInv /\ [WatchedNext]_<<vars, intact>> => [Exact]_<<vars, intact>>
  <2> SUFFICES ASSUME WatchedInv, WatchedNext, NEW r \in intact, pc'[r] = "returned"
               PROVE  \A id \in StableIds :
                         objects[id] # Missing <=> id[1] = loaded[r].snapshot
    OBVIOUS
  <2>1. RefillInv(r)
    BY DEF WatchedInv
  <2>2. pc[r] = "aggregate" /\ ObjectCount = CorpusCount
    BY <2>1, ReturnsFromCount DEF WatchedInv, WatchedNext, RefillInv, Refilling
  <2>3. loaded[r].snapshot \in Snapshots
    BY <2>1 DEF RefillInv, Sources
  <2>4. Indexed(loaded[r].snapshot)
    BY <2>1, <2>2, CorpusAssumption DEF RefillInv, Indexed, Passages
  <2> QED
    BY <2>2, <2>3, <2>4, FullCountIsExact
<1> QED
  BY <1>1, WatchedInvariant, PTL DEF WatchedSpec, RefillIsExact
==============================================================================
