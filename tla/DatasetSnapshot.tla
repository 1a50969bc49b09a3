--------------------------- MODULE DatasetSnapshot ---------------------------
(***************************************************************************)
(* The two raw files of the frozen snapshot and the processes that replace *)
(* and read them: `make dataset-fetch`, `make dataset-verify` and the      *)
(* source loader of ingestion and rebuild.  The files are named by the     *)
(* manifest's path, not by its revision, so every manifest shares them.    *)
(*                                                                         *)
(* A file's bytes are abstracted to the revision whose pinned SHA-256 they *)
(* match, or Corrupt; record shapes and gold references are a function of  *)
(* the bytes and follow from the hash.                                     *)
(***************************************************************************)
EXTENDS Integers

CONSTANTS
    Revisions,     \* dataset revisions for which a manifest is committed
    Absent,        \* no such file
    Corrupt,       \* bytes that match no pinned hash
    Fetchers,      \* runs of dataset-fetch
    Verifiers,     \* runs of dataset-verify
    Loaders,       \* calls of LegalRagBenchSourceLoader.load
    Faults,        \* the kinds of failure the environment may produce
    Unreliable     \* the processes (of this module or one above it) that meet them

(* download: a request fails, or its body or the card is not the expected  *)
(* disk: a file cannot be read, written or replaced                        *)
(* crash: the process is killed between two of its steps                   *)
FaultKinds == {"download", "disk", "crash"}

Processes == Fetchers \cup Verifiers \cup Loaders

ASSUME SnapshotAssumption ==
    /\ Absent \notin Revisions /\ Corrupt \notin Revisions /\ Absent # Corrupt
    /\ Faults \subseteq FaultKinds
    /\ Fetchers \cap (Verifiers \cup Loaders) = {}
    /\ Verifiers \cap Loaders = {}

Fails(p, kind) == p \in Unreliable /\ kind \in Faults

Files == {"corpus", "qa"}
Contents == Revisions \cup {Absent, Corrupt}
Snapshot(r) == [f \in Files |-> r]     \* the pinned bytes of both files

VARIABLES
    raw,        \* the content of data/raw
    manifest,   \* the revision of the manifest each process was given
    bytes,      \* the bodies each process holds in memory
    pc

vars == <<raw, manifest, bytes, pc>>

Ended == {"returned", "raised", "crashed"}
FetchPoints == {"idle", "download", "licence", "validate",
                "write_corpus", "write_qa"} \cup Ended
ReadPoints == {"idle", "read_corpus", "read_qa", "validate",
               "reread_corpus", "reread_qa"} \cup Ended

(* Only a fetch is ever at a point that writes.                            *)
TypeOK ==
    /\ raw \in [Files -> Contents]
    /\ manifest \in [Processes -> Revisions]
    /\ bytes \in [Processes -> [Files -> Contents]]
    /\ pc \in [Processes -> FetchPoints \cup ReadPoints]
    /\ \A p \in Processes :
          pc[p] \in IF p \in Fetchers THEN FetchPoints ELSE ReadPoints

(* The files may be missing or damaged when the first process starts.      *)
Init ==
    /\ raw \in [Files -> Contents]
    /\ manifest \in [Processes -> Revisions]
    /\ bytes = [p \in Processes |-> Snapshot(Absent)]
    /\ pc = [p \in Processes |-> "idle"]

Goto(p, to) == pc' = [pc EXCEPT ![p] = to]
Move(p, from, to) == pc[p] = from /\ Goto(p, to)

Begin(p) ==
    /\ Move(p, "idle", IF p \in Fetchers THEN "download" ELSE "read_corpus")
    /\ UNCHANGED <<raw, manifest, bytes>>

------------------------------------------------------------------------------
(* fetch: three downloads, all validation, then two atomic replacements.   *)

Download(p) ==
    /\ pc[p] = "download"
    /\ \/ /\ \E answer \in IF Fails(p, "download")
                           THEN [Files -> {manifest[p], Corrupt}]
                           ELSE {Snapshot(manifest[p])} :
                bytes' = [bytes EXCEPT ![p] = answer]
          /\ Goto(p, "licence")
       \/ /\ Fails(p, "download")
          /\ Goto(p, "raised")
          /\ UNCHANGED bytes
    /\ UNCHANGED <<raw, manifest>>

(* _validate_licence: the card must advertise the restrictive policy.      *)
Licence(p) ==
    /\ pc[p] = "licence"
    /\ \/ Goto(p, "validate")
       \/ Fails(p, "download") /\ Goto(p, "raised")
    /\ UNCHANGED <<raw, manifest, bytes>>

AfterValidation(p) ==
    IF p \in Fetchers THEN "write_corpus"
    ELSE IF p \in Loaders THEN "reread_corpus" ELSE "returned"

(* Mutant: only the corpus is checked.                                     *)
Validate_corpus_only(p) ==
    /\ Move(p, "validate", IF bytes[p]["corpus"] = manifest[p]
                           THEN AfterValidation(p) ELSE "raised")
    /\ UNCHANGED <<raw, manifest, bytes>>

(* Mutant: the files are compared with each other and not with the hash.   *)
Validate_consistent(p) ==
    /\ Move(p, "validate", IF bytes[p]["corpus"] = bytes[p]["qa"]
                           THEN AfterValidation(p) ELSE "raised")
    /\ UNCHANGED <<raw, manifest, bytes>>

(* _validate_corpus and _validate_qa on the bodies in memory.              *)
Validate(p) ==
    /\ Move(p, "validate", IF bytes[p] = Snapshot(manifest[p])
                           THEN AfterValidation(p) ELSE "raised")
    /\ UNCHANGED <<raw, manifest, bytes>>

(* Mutant: a file that is there already is left alone.                     *)
WriteCorpus_if_absent(p) ==
    /\ Move(p, "write_corpus", "write_qa")
    /\ raw' = [raw EXCEPT !["corpus"] = IF @ = Absent THEN bytes[p]["corpus"] ELSE @]
    /\ UNCHANGED <<manifest, bytes>>

(* _atomic_write: a temporary file, then a rename or DatasetIntegrityError. *)
WriteCorpus(p) ==
    /\ pc[p] = "write_corpus"
    /\ \/ /\ raw' = [raw EXCEPT !["corpus"] = bytes[p]["corpus"]]
          /\ Goto(p, "write_qa")
       \/ Fails(p, "disk") /\ Goto(p, "raised") /\ UNCHANGED raw
    /\ UNCHANGED <<manifest, bytes>>

(* Mutant: a failing replacement is suppressed.                            *)
WriteQa_suppressed(p) ==
    /\ Move(p, "write_qa", "returned")
    /\ raw' \in {raw, [raw EXCEPT !["qa"] = bytes[p]["qa"]]}
    /\ UNCHANGED <<manifest, bytes>>

WriteQa(p) ==
    /\ pc[p] = "write_qa"
    /\ \/ /\ raw' = [raw EXCEPT !["qa"] = bytes[p]["qa"]]
          /\ Goto(p, "returned")
       \/ Fails(p, "disk") /\ Goto(p, "raised") /\ UNCHANGED raw
    /\ UNCHANGED <<manifest, bytes>>

------------------------------------------------------------------------------
(* verify_existing and load: the files are read one after the other, and   *)
(* load reads them a second time after it has verified them.               *)

Read(p, f, from, to) ==
    /\ pc[p] = from
    /\ \/ /\ raw[f] # Absent
          /\ bytes' = [bytes EXCEPT ![p][f] = raw[f]]
          /\ Goto(p, to)
       \/ /\ raw[f] = Absent \/ Fails(p, "disk")
          /\ Goto(p, "raised")
          /\ UNCHANGED bytes
    /\ UNCHANGED <<raw, manifest>>

VerifyExisting(p) ==
    \/ Read(p, "corpus", "read_corpus", "read_qa")
    \/ Read(p, "qa", "read_qa", "validate")

(* _read_jsonl after verification, without a second look at the hash.      *)
LoadVerified(p) ==
    \/ Read(p, "corpus", "reread_corpus", "reread_qa")
    \/ Read(p, "qa", "reread_qa", "returned")

Crash(p) ==
    /\ Fails(p, "crash")
    /\ pc[p] \notin {"idle"} \cup Ended
    /\ Goto(p, "crashed")
    /\ UNCHANGED <<raw, manifest, bytes>>

Step(p) ==
    \/ Download(p) \/ Licence(p) \/ Validate(p) \/ WriteCorpus(p) \/ WriteQa(p)
    \/ VerifyExisting(p) \/ LoadVerified(p)

Next == \E p \in Processes : Begin(p) \/ Step(p) \/ Crash(p)

Spec == Init /\ [][Next]_vars

(* A synchronous script that began runs to its end unless it is killed.    *)
FairSpec == Spec /\ \A p \in Processes : WF_vars(Step(p))

------------------------------------------------------------------------------
(* docs/data-and-evaluation.md: what the frozen files promise.             *)

(* "Load verified bytes": what the loader hands to ingestion is what the   *)
(* manifest pins, although the files are read again after verification and *)
(* fetches may replace them in between.                                    *)
LoadedIsPinned ==
    \A p \in Loaders :
        pc[p] = "returned" => bytes[p] = Snapshot(manifest[p])

(* A fetch, a verification or a load that returned leaves whole files, for *)
(* as long as every manifest names one revision: later fetches that fail   *)
(* or are killed anywhere do not take that back.                           *)
ReturnedMeansWhole ==
    \A p \in Processes : pc[p] = "returned" => raw = Snapshot(manifest[p])

(* No step replaces a file of the pinned bytes by other bytes.             *)
ValidFilesAreKept ==
    [][\A f \in Files : raw[f] \in Revisions => raw'[f] = raw[f]]_vars

(* Whatever failed or was killed before it, a fetch without failures of    *)
(* its own that runs alone leaves the whole snapshot of its manifest.      *)
SoleFetchRepairs ==
    \A p \in Fetchers \ Unreliable :
        (pc[p] = "download" /\ \A q \in Fetchers \ {p} : pc[q] \in Ended)
            ~> pc[p] = "returned" /\ raw = Snapshot(manifest[p])

(* "A failure leaves an existing valid local snapshot in place": a fetch   *)
(* that raises leaves both files of the snapshot that was there before.    *)
FailureKeepsSnapshot ==
    (\E r \in Revisions : raw = Snapshot(r))
        => [](\A p \in Fetchers :
                 pc[p] = "raised" => \E r \in Revisions : raw = Snapshot(r))
==============================================================================
