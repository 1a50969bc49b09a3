----------------------------- MODULE SourceIndex -----------------------------
(***************************************************************************)
(* The derived LegalPassageV1 collection and the client protocol of        *)
(* WeaviateSourcePassageIndex, one action per awaited request.  A client   *)
(* is one run of `make ingest` or `make rebuild-index`; several may be     *)
(* between two requests at the same time, and the server keeps no lock     *)
(* between them.                                                           *)
(*                                                                         *)
(* Every action takes the control point to continue at (returned) and the  *)
(* one an exception leads to (raised), because each service puts its own   *)
(* handler around the adapter.                                             *)
(***************************************************************************)
EXTENDS Corpus

CONSTANTS
    Clients,       \* script runs that use the index
    Checkouts,     \* the snapshots whose files each script may find on its disk
    BatchSize,     \* passages per embedding request
    AutoSchema,    \* the auto-schema settings the server may have at an insert
    Faults,        \* the kinds of failure the environment may produce
    Unreliable     \* the clients that meet them

(***************************************************************************)
(* store, index    a request is refused and has no effect                  *)
(* store_ack,                                                              *)
(* index_ack       a request takes effect but its answer is lost           *)
(* provider        the embedding provider fails or answers off contract    *)
(* loader          the local files fail verification                       *)
(* crash           the process is killed or cancelled between two requests *)
(***************************************************************************)
FaultKinds ==
    {"store", "store_ack", "index", "index_ack", "provider", "loader", "crash"}

ASSUME IndexAssumption ==
    /\ Checkouts \in [Clients -> SUBSET Snapshots]
    /\ BatchSize \in Nat \ {0}
    /\ AutoSchema \subseteq BOOLEAN
    /\ Faults \subseteq FaultKinds
    /\ Unreliable \subseteq Clients

Fails(c, kind) == c \in Unreliable /\ kind \in Faults

Contracts == {"absent", "legal_passage_v1", "auto_schema"}

VARIABLES
    contract,   \* the collection's configuration, or "absent"
    objects,    \* the version stored under each stable id, or Missing
    pc,         \* where each client is in its script
    loaded,     \* the snapshot and content each client read from disk
    vectors,    \* how many passages each client has embedded
    cursor      \* the next passage each client upserts

collectionVars == <<contract, objects>>
clientVars == <<pc, loaded, vectors, cursor>>
indexVars == <<contract, objects, pc, loaded, vectors, cursor>>

IndexTypeOK ==
    /\ contract \in Contracts
    /\ objects \in [StableIds -> Versions \cup {Missing}]
    /\ loaded \in [Clients -> Sources \cup {NoSource}]
    /\ vectors \in [Clients -> 0..CorpusCount]
    /\ cursor \in [Clients -> 1..(CorpusCount + 1)]

IndexInit ==
    /\ contract = "absent"
    /\ objects = [id \in StableIds |-> Missing]
    /\ pc = [c \in Clients |-> "idle"]
    /\ loaded = [c \in Clients |-> NoSource]
    /\ vectors = [c \in Clients |-> 0]
    /\ cursor = [c \in Clients |-> 1]

Goto(c, to) == pc' = [pc EXCEPT ![c] = to]
Move(c, from, to) == pc[c] = from /\ Goto(c, to)

(* An index request that took effect continues, or its answer is lost.     *)
Answer(c, returned, raised) ==
    \/ Goto(c, returned)
    \/ Fails(c, "index_ack") /\ Goto(c, raised)

Indexed(s) == \A p \in Passages : objects[StableId(s, p)] # Missing
ObjectCount == Cardinality({id \in StableIds : objects[id] # Missing})

------------------------------------------------------------------------------
(* Before the index: load the files, embed the passages batch by batch.    *)

(* LegalRagBenchSourceLoader.load: verified bytes, or an exception.        *)
Load(c, returned, raised) ==
    /\ pc[c] = "idle"
    /\ \/ /\ \E source \in Sources :
             /\ source.snapshot \in Checkouts[c]
             /\ loaded' = [loaded EXCEPT ![c] = source]
          /\ Goto(c, returned)
       \/ /\ Fails(c, "loader")
          /\ Goto(c, raised)
          /\ UNCHANGED loaded
    /\ UNCHANGED <<contract, objects, vectors, cursor>>

BatchLength(c) ==
    IF CorpusCount - vectors[c] < BatchSize THEN CorpusCount - vectors[c]
                                            ELSE BatchSize

(* One iteration of SourcePassageEmbedder.embed: an answer without exactly *)
(* one vector per passage of the batch is refused.                         *)
EmbedBatch(c, returned, raised) ==
    /\ pc[c] = "embed"
    /\ \E answered \in IF Fails(c, "provider") THEN 0..(BatchSize + 1)
                                                ELSE {BatchLength(c)} :
          IF answered = BatchLength(c)
          THEN /\ vectors' = [vectors EXCEPT ![c] = @ + answered]
               /\ IF vectors'[c] = CorpusCount THEN Goto(c, returned)
                                               ELSE UNCHANGED pc
          ELSE Goto(c, raised) /\ UNCHANGED vectors
    /\ UNCHANGED <<contract, objects, loaded, cursor>>

------------------------------------------------------------------------------
(* ensure_collection: exists?, then check the configuration or create.     *)

EnsureExists(c) ==
    /\ Move(c, "ensure", IF contract = "absent" THEN "create" ELSE "check")
    /\ UNCHANGED <<contract, objects, loaded, vectors, cursor>>

(* Mutant: a collection with another contract is dropped and recreated.    *)
EnsureContract_migrates(c, returned, raised) ==
    /\ Move(c, "check", IF contract = "legal_passage_v1" THEN returned ELSE "create")
    /\ contract' = IF contract = "legal_passage_v1" THEN contract ELSE "absent"
    /\ objects' = IF contract = "legal_passage_v1" THEN objects
                  ELSE [id \in StableIds |-> Missing]
    /\ UNCHANGED <<loaded, vectors, cursor>>

(* config.get fails if the collection has gone; another contract raises.   *)
EnsureContract(c, returned, raised) ==
    /\ Move(c, "check", IF contract = "legal_passage_v1" THEN returned ELSE raised)
    /\ UNCHANGED <<contract, objects, loaded, vectors, cursor>>

(* create fails if another client created the collection after exists.     *)
EnsureCreate(c, returned, raised) ==
    /\ pc[c] = "create"
    /\ IF contract = "absent"
       THEN contract' = "legal_passage_v1" /\ Answer(c, returned, raised)
       ELSE UNCHANGED contract /\ Goto(c, raised)
    /\ UNCHANGED <<objects, loaded, vectors, cursor>>

------------------------------------------------------------------------------
(* upsert: insert each embedded passage under its stable id; "already      *)
(* exists" becomes an update, every other exception is re-raised.          *)

CursorId(c) == StableId(loaded[c].snapshot, cursor[c])

(* Mutant: the loop ends one passage early.                                *)
Written_stops_early(c, returned, raised) ==
    /\ cursor' = [cursor EXCEPT ![c] = @ + 1]
    /\ Goto(c, IF cursor[c] + 1 >= vectors[c] THEN returned ELSE "upsert")

(* The passage at the cursor is written: go on to the next embedded one.   *)
Written(c, returned, raised) ==
    \/ /\ cursor' = [cursor EXCEPT ![c] = @ + 1]
       /\ Goto(c, IF cursor[c] = vectors[c] THEN returned ELSE "upsert")
    \/ /\ Fails(c, "index_ack")
       /\ Goto(c, raised)
       /\ UNCHANGED cursor

StoreObject(c) == objects' = [objects EXCEPT ![CursorId(c)] = loaded[c].version]

UpsertInsert(c, returned, raised) ==
    /\ pc[c] = "upsert"
    /\ objects[CursorId(c)] = Missing
    /\ \/ contract # "absent" /\ UNCHANGED contract
       \/ contract = "absent" /\ TRUE \in AutoSchema /\ contract' = "auto_schema"
    /\ StoreObject(c)
    /\ Written(c, returned, raised)
    /\ UNCHANGED <<loaded, vectors>>

(* Mutant: "already exists" is answered by inserting again.                *)
UpsertAlreadyExists_retries(c) ==
    /\ Move(c, "upsert", "upsert")
    /\ objects[CursorId(c)] # Missing
    /\ UNCHANGED <<contract, objects, loaded, vectors, cursor>>

(* Mutant: "already exists" is re-raised like every other exception.       *)
UpsertAlreadyExists_raises(c) ==
    /\ Move(c, "upsert", "fail")
    /\ objects[CursorId(c)] # Missing
    /\ UNCHANGED <<contract, objects, loaded, vectors, cursor>>

UpsertAlreadyExists(c) ==
    /\ Move(c, "upsert", "update")
    /\ objects[CursorId(c)] # Missing
    /\ UNCHANGED <<contract, objects, loaded, vectors, cursor>>

UpsertNoCollection(c, raised) ==
    /\ Move(c, "upsert", raised)
    /\ contract = "absent" /\ FALSE \in AutoSchema
    /\ UNCHANGED <<contract, objects, loaded, vectors, cursor>>

(* update is refused if the object went away after the insert attempt.     *)
UpsertUpdate(c, returned, raised) ==
    /\ pc[c] = "update"
    /\ IF objects[CursorId(c)] # Missing
       THEN StoreObject(c) /\ Written(c, returned, raised)
       ELSE Goto(c, raised) /\ UNCHANGED <<objects, cursor>>
    /\ UNCHANGED <<contract, loaded, vectors>>

------------------------------------------------------------------------------
(* delete_collection and count: only the rebuild uses them.                *)

(* Mutant: a collection that is not there cannot be deleted.               *)
DeleteExists_required(c, returned) ==
    /\ Move(c, "delete", IF contract = "absent" THEN "raised" ELSE "drop")
    /\ UNCHANGED <<contract, objects, loaded, vectors, cursor>>

DeleteExists(c, returned) ==
    /\ Move(c, "delete", IF contract = "absent" THEN returned ELSE "drop")
    /\ UNCHANGED <<contract, objects, loaded, vectors, cursor>>

DeleteDrop(c, returned, raised) ==
    /\ pc[c] = "drop"
    /\ contract' = "absent"
    /\ objects' = [id \in StableIds |-> Missing]
    /\ Answer(c, returned, raised)
    /\ UNCHANGED <<loaded, vectors, cursor>>

CountExists(c, absent) ==
    /\ Move(c, "count", IF contract = "absent" THEN absent ELSE "aggregate")
    /\ UNCHANGED <<contract, objects, loaded, vectors, cursor>>

(* over_all counts the objects of every snapshot, not only of this one.    *)
CountAggregate(c, matches, differs) ==
    /\ Move(c, "aggregate", IF contract # "absent" /\ ObjectCount = CorpusCount
                            THEN matches ELSE differs)
    /\ UNCHANGED <<contract, objects, loaded, vectors, cursor>>

------------------------------------------------------------------------------
(* A request of any of these operations may be refused without effect.     *)
IndexRequests ==
    {"ensure", "check", "create", "upsert", "update",
     "delete", "drop", "count", "aggregate"}

IndexRefuses(c, raised) ==
    /\ Fails(c, "index")
    /\ pc[c] \in IndexRequests
    /\ Goto(c, raised)
    /\ UNCHANGED <<contract, objects, loaded, vectors, cursor>>
==============================================================================
