--------------------------- MODULE IngestionSystem ---------------------------
(***************************************************************************)
(* The two writers of the derived index together: ingestion attempts and   *)
(* index rebuilds that share one Weaviate collection without any lock.     *)
(***************************************************************************)
EXTENDS SourceIngestion, IndexRebuild

ASSUME ClientsAssumption ==
    /\ Clients = Attempts \cup Rebuilds
    /\ Attempts \cap Rebuilds = {}

SystemStep(c) ==
    \/ c \in Attempts /\ IngestStep(c)
    \/ c \in Rebuilds /\ RebuildStep(c) /\ UNCHANGED <<storeVars, phase>>

(* An operator starts a script.                                            *)
SystemStart(c) ==
    \/ c \in Attempts /\ IngestLoad(c)
    \/ /\ c \in Rebuilds
       /\ RebuildUnconfirmed(c) \/ RebuildLoad(c)
       /\ UNCHANGED <<storeVars, phase>>

SystemNext == \E c \in Clients : SystemStart(c) \/ SystemStep(c) \/ Crash(c)

SystemSpec == Init /\ [][SystemNext]_vars

(***************************************************************************)
(* The same system with a history: the rebuilds under way since whose own  *)
(* delete no object was removed from the collection.                       *)
(***************************************************************************)
VARIABLE intact

ObjectsRemoved == \E id \in StableIds : objects[id] # Missing /\ objects'[id] = Missing
HasDeleted(r) == pc[r] \in {"delete", "drop"} /\ pc'[r] = "ensure"

Watch ==
    intact' = {r \in Rebuilds :
                 /\ pc'[r] \notin Ended
                 /\ HasDeleted(r) \/ (r \in intact /\ ~ObjectsRemoved)}

WatchedNext == SystemNext /\ Watch
WatchedSpec == Init /\ intact = {} /\ [][WatchedNext]_<<vars, intact>>
WatchedFairSpec == WatchedSpec /\ \A c \in Clients : WF_vars(SystemStep(c))

------------------------------------------------------------------------------
(* docs/ingestion.md, "builds vectors before deleting the old derived      *)
(* collection": whoever runs, the collection only ever disappears in the   *)
(* hands of a rebuild that holds a vector for every passage.               *)
DropOnlyWithVectors ==
    [][contract # "absent" /\ contract' = "absent" =>
          \E r \in Rebuilds : pc[r] = "drop" /\ vectors[r] = CorpusCount]_vars

(* The count does not tell snapshots apart: objects that an attempt of     *)
(* another snapshot adds beside a rebuild could make up for passages the   *)
(* rebuild did not write.  They never do: unless another rebuild's delete  *)
(* emptied the collection under it, a rebuild that reports success leaves  *)
(* every passage of its snapshot and no object of any other.               *)
RefillIsExact ==
    [][\A r \in intact :
          pc'[r] = "returned" =>
              \A id \in StableIds :
                 objects[id] # Missing <=> id[1] = loaded[r].snapshot]_<<vars, intact>>

(* "explicit command to delete and recreate": a rebuild without failures   *)
(* of its own that runs after all other scripts have ended returns and     *)
(* leaves exactly its snapshot in a collection of the expected contract.   *)
SoleRebuildRestoresIndex ==
    \A r \in Rebuilds \ Unreliable :
        (pc[r] = "embed" /\ \A c \in Clients \ {r} : pc[c] \in Ended)
            ~> /\ pc[r] = "returned"
               /\ contract = "legal_passage_v1"
               /\ objects = [id \in StableIds |->
                               IF id[1] = loaded[r].snapshot
                               THEN loaded[r].version ELSE Missing]

(* Every script that began comes to an end, whatever fails around it.      *)
EveryScriptEnds == <>[](\A c \in Clients : pc[c] \in {"idle"} \cup Ended)
==============================================================================
