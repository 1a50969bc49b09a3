------------------------------- MODULE Corpus --------------------------------
(***************************************************************************)
(* What the two stores and the services agree on: source snapshots and the *)
(* passages of their corpus.  A passage's text, title and hash are         *)
(* abstracted to the version of the corpus file they were read from.       *)
(***************************************************************************)
EXTENDS Integers, FiniteSets

CONSTANTS
    Snapshots,     \* source snapshot identifiers (one per manifest revision)
    Versions,      \* the contents a corpus file may have when it is read
    Missing,       \* the absence of a row or of an object
    CorpusCount    \* passages of a snapshot, numbered in corpus order

ASSUME CorpusAssumption ==
    /\ Missing \notin Versions
    /\ Missing \notin Snapshots
    /\ CorpusCount \in Nat \ {0}

Passages == 1..CorpusCount

(* LoadedLegalRagBench: one snapshot with the content that was read.       *)
Sources == [snapshot : Snapshots, version : Versions]
NoSource == [snapshot |-> Missing, version |-> Missing]

(* SourcePassageIdentity.key: a uuid5 of the snapshot and the passage id.  *)
StableIds == Snapshots \X Passages
StableId(s, p) == <<s, p>>
==============================================================================
