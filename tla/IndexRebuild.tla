---------------------------- MODULE IndexRebuild -----------------------------
(***************************************************************************)
(* DerivedIndexRebuildService.rebuild: a run of `make rebuild-index`.  It  *)
(* reads the corpus, embeds all of it, and only then deletes, recreates    *)
(* and refills the collection; PostgreSQL is never touched.                *)
(*                                                                         *)
(* pc:  idle - embed - delete/drop - ensure/check/create - upsert/update - *)
(*      count/aggregate - returned;  every exception ends the run.         *)
(***************************************************************************)
EXTENDS SourceIndex

CONSTANT
    Rebuilds     \* runs of `make rebuild-index`

ASSUME RebuildsAssumption == Rebuilds \subseteq Clients

(* Without the exact confirmation value nothing at all is read or written. *)
RebuildUnconfirmed(r) ==
    /\ Move(r, "idle", "raised")
    /\ UNCHANGED <<collectionVars, loaded, vectors, cursor>>

RebuildLoad(r) == Load(r, "embed", "raised")

RebuildEmbed(r) == EmbedBatch(r, "delete", "raised")

(* The length check before the delete: a partial embedding ends the run.   *)
RebuildDelete(r) ==
    IF vectors[r] # CorpusCount
    THEN /\ Move(r, "delete", "raised")
         /\ UNCHANGED <<collectionVars, loaded, vectors, cursor>>
    ELSE \/ DeleteExists(r, "ensure")
         \/ DeleteDrop(r, "ensure", "raised")

RebuildEnsure(r) ==
    \/ EnsureExists(r)
    \/ EnsureContract(r, "upsert", "raised")
    \/ EnsureCreate(r, "upsert", "raised")

RebuildUpsert(r) ==
    \/ UpsertInsert(r, "count", "raised")
    \/ UpsertAlreadyExists(r)
    \/ UpsertNoCollection(r, "raised")
    \/ UpsertUpdate(r, "count", "raised")

RebuildCount(r) ==
    \/ CountExists(r, "raised")
    \/ CountAggregate(r, "returned", "raised")

RebuildStep(r) ==
    \/ RebuildEmbed(r) \/ RebuildDelete(r) \/ RebuildEnsure(r)
    \/ RebuildUpsert(r) \/ RebuildCount(r) \/ IndexRefuses(r, "raised")
==============================================================================
