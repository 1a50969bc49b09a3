----------------------- MODULE RetrievalBenchmark_proofs -----------------------
(***************************************************************************)
(* Proofs about the frozen benchmark split, for every number of loaders,   *)
(* generators and fetches, every size of the splits and every seed: the    *)
(* scripts and loaders around the raw files are a system of the raw files, *)
(* and what a benchmark is served are the frozen questions of its split.   *)
(***************************************************************************)
EXTENDS RetrievalBenchmark, TLAPS, FiniteSetTheorems, SequenceTheorems

------------------------------------------------------------------------------
(* The raw files: with one committed manifest, any number of fetches,      *)
(* verifications and loads may overlap, fail and be killed.                *)

(* The pinned bytes of the only revision, file by file.                    *)
Pinned(r, content) == content["corpus"] = r /\ content["qa"] = r

(* A reader that saw the pinned bytes of a file saw what is still there,   *)
(* and beyond validation it holds nothing else.                            *)
ReaderInv(r, p) ==
    /\ \A f \in Files : bytes[p][f] = r => raw[f] = r
    /\ pc[p] \in {"reread_corpus", "reread_qa", "returned"} => Pinned(r, bytes[p])

(* A fetch that writes holds the pinned bytes, and what it wrote stays.    *)
FetchInv(r, p) ==
    /\ pc[p] \in {"write_corpus", "write_qa"} => Pinned(r, bytes[p])
    /\ pc[p] \in {"write_qa", "returned"} => raw["corpus"] = r
    /\ pc[p] = "returned" => raw["qa"] = r

SnapshotInv(r) ==
    /\ TypeOK
    /\ \A p \in Fetchers : FetchInv(r, p)
    /\ \A p \in Processes \ Fetchers : ReaderInv(r, p)

(* What a step may do to the files while one revision exists.              *)
KeepsRevision(r) == \A f \in Files : raw[f] = r => raw'[f] = r

------------------------------------------------------------------------------
LEMMA SnapshotIsPinned ==
    ASSUME NEW r \in Revisions, NEW content \in [Files -> Contents]
    PROVE  content = Snapshot(r) <=> Pinned(r, content)
BY DEF Snapshot, Pinned, Files

(* The constants' kinds of process do not overlap.                         *)
LEMMA KindsOfProcess ==
    /\ Fetchers \subseteq Processes
    /\ Processes \ Fetchers = Verifiers \cup Loaders
BY SnapshotAssumption DEF Processes

LEMMA SnapshotInitInv ==
    ASSUME NEW r, Revisions = {r}, Init
    PROVE  SnapshotInv(r)
<1>1. TypeOK
  BY DEF Init, TypeOK, Snapshot, Contents, FetchPoints, ReadPoints
<1>2. ASSUME NEW p \in Processes
      PROVE  FetchInv(r, p) /\ ReaderInv(r, p)
  BY SnapshotAssumption DEF Init, FetchInv, ReaderInv, Snapshot
<1> QED
  BY <1>1, <1>2, KindsOfProcess DEF SnapshotInv

(* A step of q that keeps the pinned bytes of both files disturbs nobody   *)
(* else's part of the invariant.                                           *)
LEMMA OthersKeepSnapshotInv ==
    ASSUME NEW r, SnapshotInv(r), NEW q \in Processes, NEW p \in Processes, p # q,
           KeepsRevision(r),
           pc'[p] = pc[p], bytes'[p] = bytes[p]
    PROVE  /\ p \in Fetchers => FetchInv(r, p)'
           /\ p \notin Fetchers => ReaderInv(r, p)'
BY DEF SnapshotInv, KeepsRevision, FetchInv, ReaderInv, Pinned, Files

LEMMA StepKeepsSnapshotInv ==
    ASSUME NEW r, Revisions = {r}, SnapshotInv(r), NEW q \in Processes,
           TypeOK', KeepsRevision(r),
           \A p \in Processes \ {q} : pc'[p] = pc[p] /\ bytes'[p] = bytes[p],
           q \in Fetchers => FetchInv(r, q)',
           q \notin Fetchers => ReaderInv(r, q)'
    PROVE  SnapshotInv(r)'
BY OthersKeepSnapshotInv, KindsOfProcess DEF SnapshotInv

------------------------------------------------------------------------------
(* One lemma per kind of step.                                             *)

LEMMA ControlKeepsSnapshotInv ==
    ASSUME NEW r, Revisions = {r}, SnapshotInv(r), NEW q \in Processes,
           Begin(q) \/ Licence(q) \/ Validate(q) \/ Crash(q)
    PROVE  SnapshotInv(r)' /\ KeepsRevision(r)
<1> USE DEF SnapshotInv, Goto, Move, FetchPoints, ReadPoints, Ended
<1>1. /\ UNCHANGED <<raw, manifest, bytes>>
      /\ KeepsRevision(r)
  BY DEF Begin, Licence, Validate, Crash, KeepsRevision
<1>2. PICK to : pc' = [pc EXCEPT ![q] = to]
  BY DEF Begin, Licence, Validate, Crash
<1>3. TypeOK'
  BY <1>1, KindsOfProcess DEF TypeOK, Begin, Licence, Validate, Crash, AfterValidation
<1>4. pc'[q] \in {"write_corpus", "reread_corpus"} \/ (q \notin Fetchers /\ pc'[q] = "returned")
          => Pinned(r, bytes[q])
  BY <1>1, SnapshotIsPinned, KindsOfProcess
     DEF TypeOK, Begin, Licence, Validate, Crash, AfterValidation
<1>5. q \in Fetchers => FetchInv(r, q)'
  BY <1>1, <1>4, KindsOfProcess
     DEF FetchInv, Pinned, TypeOK, Begin, Licence, Validate, Crash, AfterValidation
<1>6. q \notin Fetchers => ReaderInv(r, q)'
  BY <1>1, <1>4, KindsOfProcess
     DEF ReaderInv, Pinned, Files, TypeOK, Begin, Licence, Validate, Crash, AfterValidation
<1> QED
  BY <1>1, <1>2, <1>3, <1>5, <1>6, StepKeepsSnapshotInv DEF TypeOK

LEMMA DownloadKeepsSnapshotInv ==
    ASSUME NEW r, Revisions = {r}, SnapshotInv(r), NEW q \in Processes, Download(q)
    PROVE  SnapshotInv(r)' /\ KeepsRevision(r)
<1> USE DEF SnapshotInv, Goto
<1>1. /\ UNCHANGED <<raw, manifest>>
      /\ KeepsRevision(r)
      /\ pc[q] = "download"
      /\ pc' \in {[pc EXCEPT ![q] = "licence"], [pc EXCEPT ![q] = "raised"]}
  BY DEF Download, KeepsRevision
<1>2. q \in Fetchers
  BY <1>1, KindsOfProcess DEF TypeOK, ReadPoints, Ended
<1>3. PICK answer \in [Files -> Contents] : bytes' = [bytes EXCEPT ![q] = answer]
  <2>1. CASE UNCHANGED bytes
    <3>1. bytes[q] \in [Files -> Contents] /\ bytes' = [bytes EXCEPT ![q] = bytes[q]]
      BY <2>1 DEF TypeOK
    <3> QED BY <3>1
  <2>2. CASE \E answer \in IF Fails(q, "download")
                            THEN [Files -> {manifest[q], Corrupt}]
                            ELSE {Snapshot(manifest[q])} :
                bytes' = [bytes EXCEPT ![q] = answer]
    BY <2>2 DEF TypeOK, Contents, Snapshot
  <2> QED BY <2>1, <2>2 DEF Download
<1>4. TypeOK'
  BY <1>1, <1>2, <1>3 DEF TypeOK, FetchPoints, Ended
<1>5. FetchInv(r, q)'
  BY <1>1, <1>2 DEF TypeOK, FetchInv
<1> QED
  BY <1>1, <1>2, <1>3, <1>4, <1>5, StepKeepsSnapshotInv DEF TypeOK

LEMMA WriteKeepsSnapshotInv ==
    ASSUME NEW r, Revisions = {r}, SnapshotInv(r), NEW q \in Processes,
           WriteCorpus(q) \/ WriteQa(q)
    PROVE  SnapshotInv(r)' /\ KeepsRevision(r)
<1> USE DEF SnapshotInv, Goto
<1>1. /\ UNCHANGED <<manifest, bytes>>
      /\ pc[q] \in {"write_corpus", "write_qa"}
      /\ \E to \in {"write_qa", "returned", "raised"} : pc' = [pc EXCEPT ![q] = to]
  BY DEF WriteCorpus, WriteQa
<1>2. q \in Fetchers
  BY <1>1, KindsOfProcess DEF TypeOK, ReadPoints, Ended
<1>3. Pinned(r, bytes[q])
  BY <1>1, <1>2 DEF FetchInv
<1>4. raw' = raw \/ \E f \in Files : raw' = [raw EXCEPT ![f] = r]
  BY <1>3 DEF WriteCorpus, WriteQa, Pinned, Files
<1>5. KeepsRevision(r)
  BY <1>4 DEF KeepsRevision, TypeOK
<1>6. TypeOK'
  BY <1>1, <1>2, <1>4 DEF TypeOK, FetchPoints, Ended, Contents
<1>7. FetchInv(r, q)'
  BY <1>2, <1>3 DEF FetchInv, Pinned, WriteCorpus, WriteQa, TypeOK, Files
<1> QED
  BY <1>1, <1>2, <1>5, <1>6, <1>7, StepKeepsSnapshotInv DEF TypeOK

LEMMA ReadKeepsSnapshotInv ==
    ASSUME NEW r, Revisions = {r}, SnapshotInv(r), NEW q \in Processes,
           VerifyExisting(q) \/ LoadVerified(q)
    PROVE  SnapshotInv(r)' /\ KeepsRevision(r)
<1> USE DEF SnapshotInv, Goto
<1>1. PICK f \in Files, from \in ReadPoints, to \in ReadPoints :
         /\ Read(q, f, from, to)
         /\ <<f, from, to>> \in
              {<<"corpus", "read_corpus", "read_qa">>, <<"qa", "read_qa", "validate">>,
               <<"corpus", "reread_corpus", "reread_qa">>, <<"qa", "reread_qa", "returned">>}
  BY DEF VerifyExisting, LoadVerified, Files, ReadPoints, Ended
<1>2. /\ UNCHANGED <<raw, manifest>>
      /\ KeepsRevision(r)
      /\ pc[q] = from
      /\ pc' \in {[pc EXCEPT ![q] = to], [pc EXCEPT ![q] = "raised"]}
      /\ bytes' \in {bytes, [bytes EXCEPT ![q][f] = raw[f]]}
  BY <1>1 DEF Read, KeepsRevision
<1>3. q \notin Fetchers /\ ReaderInv(r, q)
  BY <1>1, <1>2, KindsOfProcess DEF TypeOK, FetchPoints, Ended
<1>4. TypeOK'
  <2>1. bytes' \in [Processes -> [Files -> Contents]]
    <3>1. /\ bytes \in [Processes -> [Files -> Contents]]
          /\ [bytes[q] EXCEPT ![f] = raw[f]] \in [Files -> Contents]
      BY DEF TypeOK
    <3>2. bytes' \in {bytes, [bytes EXCEPT ![q] = [bytes[q] EXCEPT ![f] = raw[f]]]}
      BY <1>2, <3>1
    <3> HIDE DEF SnapshotInv
    <3> QED BY <3>1, <3>2
  <2>2. pc' \in [Processes -> FetchPoints \cup ReadPoints] /\ pc'[q] \in ReadPoints
    BY <1>1, <1>2 DEF TypeOK, ReadPoints, Ended
  <2> QED BY <1>2, <1>3, <2>1, <2>2 DEF TypeOK
<1>5. ReaderInv(r, q)'
  <2>1. \A g \in Files : bytes'[q][g] = r => raw[g] = r
    BY <1>2, <1>3 DEF ReaderInv, TypeOK
  <2>2. CASE from \in {"reread_corpus", "reread_qa"}
    BY <1>2, <1>3, <2>1, <2>2 DEF ReaderInv, Pinned, Files, TypeOK
  <2>3. CASE from \in {"read_corpus", "read_qa"}
    BY <1>1, <1>2, <2>1, <2>3 DEF ReaderInv, TypeOK
  <2> QED BY <1>1, <2>2, <2>3
<1> QED
  BY <1>2, <1>3, <1>4, <1>5, StepKeepsSnapshotInv DEF TypeOK

LEMMA NextKeepsSnapshotInv ==
    ASSUME NEW r, Revisions = {r}, SnapshotInv(r), [Next]_vars
    PROVE  SnapshotInv(r)' /\ KeepsRevision(r)
<1>1. CASE UNCHANGED vars
  BY <1>1 DEF vars, SnapshotInv, TypeOK, FetchInv, ReaderInv, Pinned, KeepsRevision
<1>2. ASSUME NEW q \in Processes, Begin(q) \/ Step(q) \/ Crash(q)
      PROVE  SnapshotInv(r)' /\ KeepsRevision(r)
  BY <1>2, ControlKeepsSnapshotInv, DownloadKeepsSnapshotInv, WriteKeepsSnapshotInv, ReadKeepsSnapshotInv DEF Step
<1> QED
  BY <1>1, <1>2 DEF Next

------------------------------------------------------------------------------
(* What follows for the properties the runs check.                         *)

LEMMA SnapshotInvGivesProperties ==
    ASSUME NEW r, Revisions = {r}, SnapshotInv(r)
    PROVE  TypeOK /\ LoadedIsPinned /\ ReturnedMeansWhole
<1>1. TypeOK /\ \A p \in Processes : manifest[p] = r
  BY DEF SnapshotInv, TypeOK
<1>2. LoadedIsPinned
  BY <1>1, SnapshotIsPinned, KindsOfProcess, SnapshotAssumption
     DEF LoadedIsPinned, SnapshotInv, ReaderInv, TypeOK, Processes
<1>3. ASSUME NEW p \in Processes, pc[p] = "returned"
      PROVE  Pinned(r, raw)
  BY <1>3 DEF SnapshotInv, FetchInv, ReaderInv, Pinned, Files
<1>4. ReturnedMeansWhole
  BY <1>1, <1>3, SnapshotIsPinned DEF ReturnedMeansWhole, TypeOK
<1> QED
  BY <1>1, <1>2, <1>4

THEOREM SnapshotInvariant ==
    ASSUME NEW r, Revisions = {r}
    PROVE  Spec => []SnapshotInv(r)
<1>1. Init => SnapshotInv(r)
  BY SnapshotInitInv
<1>2. SnapshotInv(r) /\ [Next]_vars => SnapshotInv(r)'
  BY NextKeepsSnapshotInv
<1> QED
  BY <1>1, <1>2, PTL DEF Spec

(* With one committed manifest, a load that returned holds the pinned      *)
(* bytes although it read the files twice (load, verify_existing).         *)
THEOREM LoadsArePinned ==
    ASSUME NEW r, Revisions = {r}
    PROVE  Spec => []LoadedIsPinned
<1>1. SnapshotInv(r) => LoadedIsPinned
  BY SnapshotInvGivesProperties
<1> QED
  BY <1>1, SnapshotInvariant, PTL

(* With one committed manifest, whatever returned once leaves the whole    *)
(* snapshot in place for good (fetch, verify_existing, load).              *)
THEOREM ReturnedIsWhole ==
    ASSUME NEW r, Revisions = {r}
    PROVE  Spec => []ReturnedMeansWhole
<1>1. SnapshotInv(r) => ReturnedMeansWhole
  BY SnapshotInvGivesProperties
<1> QED
  BY <1>1, SnapshotInvariant, PTL

(* With one committed manifest, no failing or killed fetch ever replaces   *)
(* a file of the pinned bytes (_atomic_write after validation).            *)
THEOREM FilesAreKept ==
    ASSUME NEW r, Revisions = {r}
    PROVE  Spec => ValidFilesAreKept
<1>1. SnapshotInv(r) /\ [Next]_vars =>
         [\A f \in Files : raw[f] \in Revisions => raw'[f] = raw[f]]_vars
  <2> SUFFICES ASSUME SnapshotInv(r), [Next]_vars, NEW f \in Files, raw[f] \in Revisions
               PROVE  raw'[f] = raw[f]
    OBVIOUS
  <2> QED BY NextKeepsSnapshotInv DEF KeepsRevision
<1> QED
  BY <1>1, SnapshotInvariant, PTL DEF Spec, ValidFilesAreKept

------------------------------------------------------------------------------
(* The benchmark around them.                                              *)

Held == {"development", "validation", "holdout"}

LEMMA SplitsAreHeld == Splits = Held
<1>1. DOMAIN Split = 1..3
  BY DEF Split
<1>2. 1..3 = {1, 2, 3}
  OBVIOUS
<1>3. Split[1] = "development" /\ Split[2] = "validation" /\ Split[3] = "holdout"
  BY DEF Split
<1> QED
  BY <1>1, <1>2, <1>3 DEF Splits, ToSet, Held

LEMMA KindsOfBenchmarkProcess ==
    /\ Benchmarks \subseteq Loaders /\ Benchmarks \subseteq Processes
    /\ \A g \in Generators : g \notin Benchmarks
BY BenchmarkAssumption DEF Processes

------------------------------------------------------------------------------
(* The benchmark implements the raw files: the generators leave them       *)
(* alone, and LoadSource is a load like any other.                         *)

LEMMA BenchmarkStepIsSnapshotStep ==
    ASSUME [BenchmarkNext]_benchmarkVars
    PROVE  [Next]_vars
<1>1. CASE UNCHANGED benchmarkVars
  BY <1>1 DEF benchmarkVars
<1>2. ASSUME NEW p \in Processes, OtherProcess(p)
      PROVE  Next
  BY <1>2 DEF OtherProcess, Next
<1>3. ASSUME NEW g \in Generators, LoadIds(g) \/ GeneratorStep(g) \/ Killed(g)
      PROVE  UNCHANGED vars
  BY <1>3 DEF LoadIds, GeneratorStep, OpenManifest, WriteManifest, Killed
<1>4. ASSUME NEW b \in Benchmarks, Request(b) \/ LoadManifest(b) \/ Match(b) \/ Killed(b)
      PROVE  UNCHANGED vars
  BY <1>4 DEF Request, LoadManifest, Match, Killed
<1>5. ASSUME NEW b \in Benchmarks, LoadSource(b)
      PROVE  Next
  BY <1>5, KindsOfBenchmarkProcess DEF LoadSource, Next
<1> QED
  BY <1>1, <1>2, <1>3, <1>4, <1>5 DEF BenchmarkNext, BenchmarkStep

(* Whatever the benchmark scripts do to the raw files, DatasetSnapshot     *)
(* allows: generators and benchmark loaders only read them (load_ids,      *)
(* SplitAwareBenchmarkLoader.load).                                        *)
THEOREM BenchmarkImplementsSnapshot == BenchmarkSpec => Spec
<1>1. BenchmarkInit => Init
  BY DEF BenchmarkInit
<1>2. [BenchmarkNext]_benchmarkVars => [Next]_vars
  BY BenchmarkStepIsSnapshotStep
<1> QED
  BY <1>1, <1>2, PTL DEF BenchmarkSpec, Spec

(* So with one committed manifest, the source a benchmark loader matches   *)
(* its questions with are the pinned bytes, whatever returned leaves the   *)
(* whole snapshot, and no script replaces a pinned file.                   *)
THEOREM BenchmarkKeepsSnapshot ==
    ASSUME NEW r, Revisions = {r}
    PROVE  BenchmarkSpec => /\ []LoadedIsPinned
                            /\ []ReturnedMeansWhole
                            /\ ValidFilesAreKept
BY BenchmarkImplementsSnapshot, LoadsArePinned, ReturnedIsWhole, FilesAreKept, PTL

------------------------------------------------------------------------------
(* The frozen order is a permutation of the questions, and its slices are  *)
(* disjoint and hold every question once.                                  *)

LEMMA SizesAddUp ==
    /\ Size["development"] \in Nat \ {0}
    /\ Size["validation"] \in Nat \ {0}
    /\ Size["holdout"] \in Nat \ {0}
    /\ QuestionCount = Size["development"] + Size["validation"] + Size["holdout"]
    /\ QuestionCount \in Nat \ {0}
BY BenchmarkAssumption, SplitsAreHeld DEF Held

(* A shuffle of the frozen file is the permutation itself.                 *)
LEMMA FrozenOrderIsPermutation ==
    /\ FrozenOrder \in [1..QuestionCount -> 1..QuestionCount]
    /\ \A q \in 1..QuestionCount : \E i \in 1..QuestionCount : FrozenOrder[i] = q
    /\ IsInjective(FrozenOrder)
<1> DEFINE N == QuestionCount
<1>1. QuestionIds(FrozenRevision) = [i \in 1..N |-> i]
  BY BenchmarkAssumption, SnapshotAssumption DEF QuestionIds
<1>2. /\ DOMAIN FrozenShuffle = 1..N
      /\ ToSet(FrozenShuffle) = 1..N
  BY BenchmarkAssumption
<1>3. FrozenOrder = [i \in 1..N |-> FrozenShuffle[i]]
  BY <1>1, <1>2 DEF FrozenOrder, Shuffled, ToSet
<1>4. /\ FrozenOrder \in [1..N -> 1..N]
      /\ \A q \in 1..N : \E i \in 1..N : FrozenOrder[i] = q
  BY <1>2, <1>3 DEF ToSet
<1>5. FrozenOrder \in Surjection(1..N, 1..N)
  BY <1>4 DEF Surjection
<1>6. IsFiniteSet(1..N)
  BY SizesAddUp, FS_Interval
<1>7. FrozenOrder \in Injection(1..N, 1..N)
  BY <1>5, <1>6, FS_SurjSameCardinalityImpliesInj
<1> QED
  BY <1>4, <1>7 DEF Injection

(* What SubSeq keeps of an injective sequence.                             *)
LEMMA SubSeqOfInjection ==
    ASSUME NEW n \in Nat, NEW s \in [1..n -> 1..n], IsInjective(s),
           NEW a \in 1..n, NEW z \in a..n
    PROVE  /\ IsInjective(SubSeq(s, a, z))
           /\ ToSet(SubSeq(s, a, z)) = {s[i] : i \in a..z}
<1> DEFINE t == SubSeq(s, a, z)
<1>1. /\ a \in Int /\ z \in Int /\ a >= 1 /\ a <= z /\ z <= n
      /\ DOMAIN s = 1..n
  OBVIOUS
<1>2. /\ t \in Seq(1..n)
      /\ Len(t) = z - a + 1
      /\ \A i \in 1..(z - a + 1) : t[i] = s[a + i - 1]
  BY <1>1, SubSeqProperties
<1> HIDE DEF t
<1>3. DOMAIN t = 1..(z - a + 1)
  BY <1>1, <1>2
<1>4. ASSUME NEW i \in 1..(z - a + 1)
      PROVE  a + i - 1 \in a..z /\ a + i - 1 \in 1..n /\ t[i] = s[a + i - 1]
  <2>1. t[i] = s[a + i - 1]
    BY <1>2
  <2>2. i \in Int /\ 1 <= i /\ i <= z - a + 1
    BY <1>1
  <2>3. a + i - 1 \in Int /\ a <= a + i - 1 /\ a + i - 1 <= z
    BY <1>1, <2>2
  <2> QED BY <1>1, <2>1, <2>3
<1>5. ASSUME NEW i \in 1..(z - a + 1), NEW j \in 1..(z - a + 1), t[i] = t[j]
      PROVE  i = j
  <2>1. s[a + i - 1] = s[a + j - 1]
    BY <1>4, <1>5
  <2>2. a + i - 1 = a + j - 1
    BY <1>1, <1>4, <2>1 DEF IsInjective
  <2> QED BY <1>1, <2>2
<1>6. ASSUME NEW k \in a..z
      PROVE  k - a + 1 \in 1..(z - a + 1) /\ t[k - a + 1] = s[k]
  <2>1. k - a + 1 \in 1..(z - a + 1) /\ a + (k - a + 1) - 1 = k
    BY <1>1
  <2> QED BY <1>2, <2>1
<1>7. ToSet(t) = {s[k] : k \in a..z}
  <2>1. ASSUME NEW i \in DOMAIN t
        PROVE  \E k \in a..z : t[i] = s[k]
    BY <1>3, <1>4
  <2>2. ASSUME NEW k \in a..z
        PROVE  \E i \in DOMAIN t : t[i] = s[k]
    BY <1>3, <1>6
  <2> QED BY <2>1, <2>2 DEF ToSet
<1> QED
  BY <1>3, <1>5, <1>7 DEF t, IsInjective

(* A frozen slice holds the questions of its split, each of them once.     *)
LEMMA FrozenSliceIsItsSplit ==
    ASSUME NEW split \in Splits
    PROVE  /\ IsInjective(Slice(FrozenOrder, split))
           /\ ToSet(Slice(FrozenOrder, split))
                = {q \in 1..QuestionCount : HomeOf(q) = split}
           /\ Slice(FrozenOrder, split) # NoQuestions
<1> DEFINE N == QuestionCount
           D == Size["development"]
           V == Size["validation"]
           first == IF split = "development" THEN 1
                    ELSE IF split = "validation" THEN D + 1 ELSE D + V + 1
           last == IF split = "development" THEN D
                   ELSE IF split = "validation" THEN D + V ELSE N
<1>1. split \in Held
  BY SplitsAreHeld
<1>2. first \in 1..N /\ last \in first..N
  BY <1>1, SizesAddUp DEF Held
<1>3. Slice(FrozenOrder, split) = SubSeq(FrozenOrder, first, last)
  BY <1>1 DEF Slice, Held
<1>4. ASSUME NEW i \in 1..N
      PROVE  HomeOf(FrozenOrder[i]) = split <=> i \in first..last
  <2>1. (CHOOSE j \in 1..N : FrozenOrder[j] = FrozenOrder[i]) = i
    BY FrozenOrderIsPermutation DEF IsInjective
  <2>2. HomeOf(FrozenOrder[i]) =
          IF i <= D THEN "development" ELSE IF i > N - Size["holdout"] THEN "holdout"
          ELSE "validation"
    BY <2>1 DEF HomeOf
  <2> QED BY <1>1, <2>2, SizesAddUp DEF Held
<1>5. /\ IsInjective(SubSeq(FrozenOrder, first, last))
      /\ ToSet(SubSeq(FrozenOrder, first, last)) = {FrozenOrder[i] : i \in first..last}
  <2> HIDE DEF first, last
  <2>1. N \in Nat /\ FrozenOrder \in [1..N -> 1..N] /\ IsInjective(FrozenOrder)
    BY SizesAddUp, FrozenOrderIsPermutation
  <2> QED BY <1>2, <2>1, SubSeqOfInjection
<1>6. {FrozenOrder[i] : i \in first..last} = {q \in 1..N : HomeOf(q) = split}
  <2> HIDE DEF first, last
  <2>1. \A i \in first..last : i \in 1..N
    BY <1>2, SizesAddUp
  <2>2. ASSUME NEW q \in 1..N, HomeOf(q) = split
        PROVE  \E i \in first..last : FrozenOrder[i] = q
    BY <1>4, <2>2, FrozenOrderIsPermutation
  <2>3. ASSUME NEW i \in first..last
        PROVE  FrozenOrder[i] \in 1..N /\ HomeOf(FrozenOrder[i]) = split
    BY <1>4, <2>1, FrozenOrderIsPermutation
  <2> QED BY <2>2, <2>3
<1>7. SubSeq(FrozenOrder, first, last) # NoQuestions
  <2> HIDE DEF first, last
  <2>1. FrozenOrder[first] \in ToSet(SubSeq(FrozenOrder, first, last))
    BY <1>2, <1>5, SizesAddUp
  <2>2. ToSet(NoQuestions) = {}
    BY DEF ToSet, NoQuestions
  <2> QED BY <2>1, <2>2
<1> QED
  BY <1>3, <1>5, <1>6, <1>7

------------------------------------------------------------------------------
(* The manifests and those who write and read them.                        *)

GeneratorStages == {"idle", "open", "write"} \cup Ended
BenchmarkStages == {"idle", "manifest", "source"} \cup Ended

BenchmarkTypeOK ==
    /\ DOMAIN splits = Splits
    /\ seed \in [Generators -> Shuffles]
    /\ DOMAIN order = Generators
    /\ written \in [Generators -> 0..3]
    /\ wanted \in [Benchmarks -> Splits]
    /\ DOMAIN selected = Benchmarks
    /\ DOMAIN stage = Generators \cup Benchmarks
    /\ \A g \in Generators : stage[g] \in GeneratorStages
    /\ \A b \in Benchmarks : stage[b] \in BenchmarkStages

(* A generator has read its questions once it opens a manifest, and has    *)
(* one of the three left to write.                                         *)
GeneratorInv(g) ==
    /\ stage[g] = "idle" => order[g] = NoQuestions /\ written[g] = 0
    /\ stage[g] \in {"open", "write"} => order[g] # NoQuestions /\ written[g] < 3

(* The refused split is refused before a file is opened.                   *)
RequestInv(b) ==
    stage[b] \in {"manifest", "source", "returned"} => wanted[b] # "holdout"

(* While nobody wrote from another seed or other bytes, a manifest is      *)
(* broken or the frozen one, and so is what a benchmark selected from it.  *)
FrozenSplitsInv ==
    /\ \A s \in Splits : splits[s] \in {NoQuestions, Slice(FrozenOrder, s)}
    /\ \A b \in Benchmarks :
          stage[b] \in {"source", "returned"} => selected[b] = Slice(FrozenOrder, wanted[b])

AllInputsFrozen == \A g \in Generators : FrozenInputs(g)

BenchmarkInv ==
    /\ BenchmarkTypeOK
    /\ \A g \in Generators : GeneratorInv(g)
    /\ \A b \in Benchmarks : RequestInv(b)
    /\ AllInputsFrozen => FrozenSplitsInv

LEMMA BenchmarkInitInv == BenchmarkInit => BenchmarkInv
<1> SUFFICES ASSUME BenchmarkInit PROVE BenchmarkInv
  OBVIOUS
<1>1. BenchmarkTypeOK
  BY KindsOfBenchmarkProcess
     DEF BenchmarkInit, BenchmarkTypeOK, GeneratorStages, BenchmarkStages
<1>2. \A g \in Generators : GeneratorInv(g)
  BY DEF BenchmarkInit, GeneratorInv
<1>3. \A b \in Benchmarks : RequestInv(b)
  BY DEF BenchmarkInit, RequestInv
<1>4. FrozenSplitsInv
  BY DEF BenchmarkInit, FrozenSplitsInv
<1> QED
  BY <1>1, <1>2, <1>3, <1>4 DEF BenchmarkInv

(* A generator leaves the requests alone, and a step of one that leaves    *)
(* its inputs frozen only was taken with frozen inputs.                    *)
LEMMA GeneratorKeepsInv ==
    ASSUME BenchmarkInv, NEW g \in Generators, NEW to \in GeneratorStages,
           stage' = [stage EXCEPT ![g] = to],
           UNCHANGED <<seed, wanted, selected>>,
           DOMAIN splits' = Splits, DOMAIN order' = Generators,
           written' \in [Generators -> 0..3],
           \A h \in Generators \ {g} : order'[h] = order[h] /\ written'[h] = written[h],
           GeneratorInv(g)',
           FrozenInputs(g)' => FrozenInputs(g),
           AllInputsFrozen /\ FrozenInputs(g)' =>
               \A s \in Splits : splits'[s] \in {splits[s], NoQuestions, Slice(FrozenOrder, s)}
    PROVE  BenchmarkInv'
<1>1. /\ DOMAIN stage' = Generators \cup Benchmarks
      /\ stage'[g] = to
      /\ \A h \in Generators \ {g} : stage'[h] = stage[h]
      /\ \A b \in Benchmarks : stage'[b] = stage[b]
  BY KindsOfBenchmarkProcess DEF BenchmarkInv, BenchmarkTypeOK
<1>2. BenchmarkTypeOK'
  BY <1>1 DEF BenchmarkInv, BenchmarkTypeOK
<1>3. \A h \in Generators : GeneratorInv(h)'
  BY <1>1 DEF BenchmarkInv, GeneratorInv
<1>4. \A b \in Benchmarks : RequestInv(b)'
  BY <1>1 DEF BenchmarkInv, RequestInv
<1>5. ASSUME AllInputsFrozen'
      PROVE  FrozenSplitsInv'
  <2>1. FrozenInputs(g)' /\ AllInputsFrozen
    BY <1>5 DEF AllInputsFrozen, FrozenInputs
  <2>2. \A s \in Splits : splits'[s] \in {splits[s], NoQuestions, Slice(FrozenOrder, s)}
    BY <2>1
  <2>3. FrozenSplitsInv
    BY <2>1 DEF BenchmarkInv
  <2>4. \A s \in Splits : splits'[s] \in {NoQuestions, Slice(FrozenOrder, s)}
    BY <2>2, <2>3 DEF FrozenSplitsInv
  <2>5. \A b \in Benchmarks :
           stage'[b] \in {"source", "returned"}
             => selected'[b] = Slice(FrozenOrder, wanted'[b])
    BY <1>1, <2>3 DEF FrozenSplitsInv
  <2> QED BY <2>4, <2>5 DEF FrozenSplitsInv
<1> QED
  BY <1>2, <1>3, <1>4, <1>5 DEF BenchmarkInv

(* A shuffled file is never empty.                                         *)
LEMMA ShuffledIsNotEmpty ==
    ASSUME NEW permutation, NEW content
    PROVE  Shuffled(permutation, QuestionIds(content)) # NoQuestions
<1>1. DOMAIN QuestionIds(content) = 1..QuestionCount
  BY BenchmarkAssumption DEF QuestionIds
<1>2. DOMAIN Shuffled(permutation, QuestionIds(content)) = 1..QuestionCount
  BY <1>1 DEF Shuffled
<1>3. 1 \in 1..QuestionCount
  BY SizesAddUp
<1>4. DOMAIN NoQuestions = {}
  BY DEF NoQuestions
<1> QED
  BY <1>2, <1>3, <1>4

LEMMA LoadIdsKeepsInv ==
    ASSUME BenchmarkInv, NEW g \in Generators, LoadIds(g)
    PROVE  BenchmarkInv'
<1>1. /\ stage[g] = "idle" /\ order[g] = NoQuestions
      /\ UNCHANGED <<splits, seed, written, wanted, selected>>
  BY DEF BenchmarkInv, GeneratorInv, LoadIds, requestVars
<1>2. CASE Enter(g, "raised") /\ UNCHANGED order
  <2>1. GeneratorInv(g)'
    BY <1>1, <1>2 DEF GeneratorInv, Enter, BenchmarkInv, BenchmarkTypeOK
  <2> QED
    BY <1>1, <1>2, <2>1, GeneratorKeepsInv
       DEF BenchmarkInv, BenchmarkTypeOK, Enter, GeneratorStages, Ended, FrozenInputs
<1>3. CASE /\ order' = [order EXCEPT ![g] = Shuffled(seed[g], QuestionIds(raw["qa"]))]
           /\ Enter(g, "open")
  <2>1. /\ DOMAIN order' = Generators
        /\ order'[g] # NoQuestions
        /\ \A h \in Generators \ {g} : order'[h] = order[h]
    BY <1>3, ShuffledIsNotEmpty DEF BenchmarkInv, BenchmarkTypeOK
  <2>2. stage' = [stage EXCEPT ![g] = "open"] /\ stage'[g] = "open"
    BY <1>3 DEF Enter, BenchmarkInv, BenchmarkTypeOK
  <2>3. written[g] < 3
    BY <1>1 DEF BenchmarkInv, GeneratorInv
  <2>4. GeneratorInv(g)'
    BY <1>1, <2>1, <2>2, <2>3 DEF GeneratorInv
  <2>5. FrozenInputs(g)' => FrozenInputs(g)
    BY <1>1 DEF FrozenInputs
  <2> QED
    BY <1>1, <2>1, <2>2, <2>4, <2>5, GeneratorKeepsInv
       DEF BenchmarkInv, BenchmarkTypeOK, GeneratorStages
<1> QED
  BY <1>2, <1>3 DEF LoadIds

LEMMA ManifestOfGenerator ==
    ASSUME NEW n \in 0..2
    PROVE  Split[n + 1] \in Splits
<1>1. DOMAIN Split = 1..3
  BY DEF Split
<1>2. n + 1 \in DOMAIN Split
  BY <1>1
<1> QED
  BY <1>2 DEF Splits, ToSet

LEMMA OpenManifestKeepsInv ==
    ASSUME BenchmarkInv, NEW g \in Generators, OpenManifest(g)
    PROVE  BenchmarkInv'
<1>1. /\ stage[g] = "open" /\ order[g] # NoQuestions /\ written[g] \in 0..2
      /\ UNCHANGED <<seed, order, written, wanted, selected>>
  BY DEF BenchmarkInv, BenchmarkTypeOK, GeneratorInv, OpenManifest, generatorVars, requestVars
<1>2. PICK to \in {"write", "raised"} : stage' = [stage EXCEPT ![g] = to]
  BY DEF OpenManifest, Enter
<1>3. GeneratorInv(g)'
  BY <1>1, <1>2 DEF GeneratorInv, BenchmarkInv, BenchmarkTypeOK
<1>4. /\ DOMAIN splits' = Splits
      /\ \A s \in Splits : splits'[s] \in {splits[s], NoQuestions}
  BY <1>1, ManifestOfGenerator DEF OpenManifest, BenchmarkInv, BenchmarkTypeOK
<1>5. FrozenInputs(g)' => FrozenInputs(g)
  BY <1>1 DEF FrozenInputs
<1>6. to \in GeneratorStages
  BY DEF GeneratorStages, Ended
<1> QED
  BY <1>1, <1>2, <1>3, <1>4, <1>5, <1>6, GeneratorKeepsInv DEF BenchmarkInv, BenchmarkTypeOK

(* With the frozen inputs, the manifest that is written is the frozen one. *)
LEMMA WriteManifestKeepsInv ==
    ASSUME BenchmarkInv, NEW g \in Generators, WriteManifest(g)
    PROVE  BenchmarkInv'
<1> DEFINE split == Split[written[g] + 1]
<1>1. /\ stage[g] = "write" /\ order[g] # NoQuestions /\ written[g] \in 0..2
      /\ UNCHANGED <<seed, order, wanted, selected>>
  BY DEF BenchmarkInv, BenchmarkTypeOK, GeneratorInv, WriteManifest, requestVars
<1>2. split \in Splits
  BY <1>1, ManifestOfGenerator
<1>3. Len(Split) = 3
  BY DEF Split
<1>4. FrozenInputs(g)' => FrozenInputs(g)
  BY <1>1 DEF FrozenInputs
<1>5. CASE Enter(g, "raised") /\ UNCHANGED <<splits, written>>
  <2>1. GeneratorInv(g)'
    BY <1>1, <1>5 DEF GeneratorInv, Enter, BenchmarkInv, BenchmarkTypeOK
  <2> QED
    BY <1>1, <1>4, <1>5, <2>1, GeneratorKeepsInv
       DEF BenchmarkInv, BenchmarkTypeOK, Enter, GeneratorStages, Ended
<1>6. CASE /\ \E left \in {Slice(order[g], split), NoQuestions} :
                 splits' = [splits EXCEPT ![split] = left]
           /\ written' = [written EXCEPT ![g] = @ + 1]
           /\ Enter(g, AfterManifest(g))
  <2>1. /\ written' \in [Generators -> 0..3]
        /\ written'[g] = written[g] + 1
        /\ \A h \in Generators \ {g} : written'[h] = written[h]
    BY <1>1, <1>6 DEF BenchmarkInv, BenchmarkTypeOK
  <2>2. PICK to \in GeneratorStages :
           /\ stage' = [stage EXCEPT ![g] = to]
           /\ to = "returned" \/ (to = "open" /\ written[g] + 1 # 3)
    BY <1>3, <1>6 DEF Enter, AfterManifest, GeneratorStages, Ended
  <2>3. GeneratorInv(g)'
    BY <1>1, <2>1, <2>2 DEF GeneratorInv, BenchmarkInv, BenchmarkTypeOK
  <2>4. /\ DOMAIN splits' = Splits
        /\ \A s \in Splits : splits'[s] \in {splits[s], NoQuestions, Slice(order[g], s)}
    BY <1>2, <1>6 DEF BenchmarkInv, BenchmarkTypeOK
  <2>5. FrozenInputs(g)' => order[g] = FrozenOrder
    BY <1>1 DEF FrozenInputs
  <2>6. FrozenInputs(g)' =>
          \A s \in Splits : splits'[s] \in {splits[s], NoQuestions, Slice(FrozenOrder, s)}
    BY <2>4, <2>5
  <2>7. DOMAIN order' = Generators /\ \A h \in Generators : order'[h] = order[h]
    BY <1>1 DEF BenchmarkInv, BenchmarkTypeOK
  <2>8. UNCHANGED <<seed, wanted, selected>>
    BY <1>1
  <2> QED
    BY <1>4, <2>1, <2>2, <2>3, <2>4, <2>6, <2>7, <2>8, GeneratorKeepsInv
<1> QED
  BY <1>5, <1>6 DEF WriteManifest

LEMMA KilledGeneratorKeepsInv ==
    ASSUME BenchmarkInv, NEW g \in Generators, Killed(g)
    PROVE  BenchmarkInv'
<1>1. /\ UNCHANGED <<splits, seed, order, written, wanted, selected>>
      /\ stage' = [stage EXCEPT ![g] = "crashed"]
  BY DEF Killed, Enter, generatorVars, requestVars
<1>2. GeneratorInv(g)'
  BY <1>1 DEF GeneratorInv, BenchmarkInv, BenchmarkTypeOK
<1>3. FrozenInputs(g)' => FrozenInputs(g)
  BY <1>1 DEF FrozenInputs
<1> QED
  BY <1>1, <1>2, <1>3, GeneratorKeepsInv
     DEF BenchmarkInv, BenchmarkTypeOK, GeneratorStages, Ended

------------------------------------------------------------------------------
(* The loaders.                                                            *)

LEMMA LoaderKeepsInv ==
    ASSUME BenchmarkInv, NEW b \in Benchmarks, NEW to \in BenchmarkStages,
           stage' = [stage EXCEPT ![b] = to],
           UNCHANGED <<splits, seed, order, written, wanted>>,
           DOMAIN selected' = Benchmarks,
           \A c \in Benchmarks \ {b} : selected'[c] = selected[c],
           to \in {"manifest", "source", "returned"} => wanted[b] # "holdout",
           AllInputsFrozen /\ to \in {"source", "returned"}
               => selected'[b] = Slice(FrozenOrder, wanted[b])
    PROVE  BenchmarkInv'
<1>1. /\ DOMAIN stage' = Generators \cup Benchmarks
      /\ stage'[b] = to
      /\ \A g \in Generators : stage'[g] = stage[g]
      /\ \A c \in Benchmarks \ {b} : stage'[c] = stage[c]
  BY KindsOfBenchmarkProcess DEF BenchmarkInv, BenchmarkTypeOK
<1>2. BenchmarkTypeOK'
  BY <1>1 DEF BenchmarkInv, BenchmarkTypeOK
<1>3. \A g \in Generators : GeneratorInv(g)'
  BY <1>1 DEF BenchmarkInv, GeneratorInv
<1>4. \A c \in Benchmarks : RequestInv(c)'
  BY <1>1 DEF BenchmarkInv, RequestInv
<1>5. AllInputsFrozen' => AllInputsFrozen
  BY DEF AllInputsFrozen, FrozenInputs
<1>6. AllInputsFrozen' => FrozenSplitsInv'
  BY <1>1, <1>5 DEF BenchmarkInv, FrozenSplitsInv
<1> QED
  BY <1>2, <1>3, <1>4, <1>6 DEF BenchmarkInv

LEMMA LoaderStepKeepsInv ==
    ASSUME BenchmarkInv, NEW b \in Benchmarks,
           Request(b) \/ LoadManifest(b) \/ Match(b) \/ Killed(b)
    PROVE  BenchmarkInv'
<1>1. DOMAIN selected = Benchmarks /\ wanted[b] \in Splits
  BY DEF BenchmarkInv, BenchmarkTypeOK
<1>2. CASE Request(b)
  <2>1. PICK to \in BenchmarkStages :
           /\ stage' = [stage EXCEPT ![b] = to]
           /\ to = "raised" \/ (to = "manifest" /\ wanted[b] # "holdout")
    BY <1>2 DEF Request, Enter, BenchmarkStages, Ended
  <2>2. UNCHANGED <<splits, seed, order, written, wanted, selected>>
    BY <1>2 DEF Request, generatorVars, requestVars
  <2> QED
    BY <1>1, <2>1, <2>2, LoaderKeepsInv
<1>3. CASE LoadManifest(b)
  <2>1. /\ stage[b] = "manifest" /\ wanted[b] # "holdout"
        /\ UNCHANGED <<splits, seed, order, written, wanted>>
    BY <1>3 DEF LoadManifest, generatorVars, BenchmarkInv, RequestInv
  <2>2. CASE /\ splits[wanted[b]] # NoQuestions
             /\ selected' = [selected EXCEPT ![b] = splits[wanted[b]]]
             /\ Enter(b, "source")
    <3>1. AllInputsFrozen => splits[wanted[b]] = Slice(FrozenOrder, wanted[b])
      BY <1>1, <2>2 DEF BenchmarkInv, FrozenSplitsInv
    <3>2. /\ DOMAIN selected' = Benchmarks
          /\ selected'[b] = splits[wanted[b]]
          /\ \A c \in Benchmarks \ {b} : selected'[c] = selected[c]
      BY <1>1, <2>2
    <3> QED
      BY <2>1, <2>2, <3>1, <3>2, LoaderKeepsInv DEF Enter, BenchmarkStages
  <2>3. CASE Enter(b, "raised") /\ UNCHANGED selected
    BY <1>1, <2>1, <2>3, LoaderKeepsInv DEF Enter, BenchmarkStages, Ended
  <2> QED
    BY <1>3, <2>2, <2>3 DEF LoadManifest
<1>4. CASE Match(b)
  <2>1. /\ stage[b] = "source" /\ wanted[b] # "holdout"
        /\ UNCHANGED <<splits, seed, order, written, wanted, selected>>
    BY <1>4 DEF Match, generatorVars, requestVars, BenchmarkInv, RequestInv
  <2>2. AllInputsFrozen => selected[b] = Slice(FrozenOrder, wanted[b])
    BY <2>1 DEF BenchmarkInv, FrozenSplitsInv
  <2>3. PICK to \in Ended : stage' = [stage EXCEPT ![b] = to]
    BY <1>4 DEF Match, Enter, Ended
  <2> QED
    BY <1>1, <2>1, <2>2, <2>3, LoaderKeepsInv DEF BenchmarkStages
<1>5. CASE Killed(b)
  <2>1. UNCHANGED <<splits, seed, order, written, wanted, selected>>
    BY <1>5 DEF Killed, generatorVars, requestVars
  <2> QED
    BY <1>1, <1>5, <2>1, LoaderKeepsInv DEF Killed, Enter, BenchmarkStages, Ended
<1> QED
  BY <1>2, <1>3, <1>4, <1>5

LEMMA BenchmarkNextKeepsInv ==
    ASSUME BenchmarkInv, [BenchmarkNext]_benchmarkVars
    PROVE  BenchmarkInv'
<1>1. ASSUME UNCHANGED <<splits, generatorVars, requestVars, stage>>
      PROVE  BenchmarkInv'
  BY <1>1 DEF generatorVars, requestVars, BenchmarkInv, BenchmarkTypeOK, GeneratorInv,
              RequestInv, FrozenSplitsInv, AllInputsFrozen, FrozenInputs
<1>2. CASE UNCHANGED benchmarkVars
  BY <1>1, <1>2 DEF benchmarkVars
<1>3. ASSUME NEW p \in Processes, OtherProcess(p)
      PROVE  BenchmarkInv'
  BY <1>1, <1>3 DEF OtherProcess
<1>4. ASSUME NEW g \in Generators, LoadIds(g) \/ GeneratorStep(g) \/ Killed(g)
      PROVE  BenchmarkInv'
  BY <1>4, LoadIdsKeepsInv, OpenManifestKeepsInv, WriteManifestKeepsInv,
     KilledGeneratorKeepsInv DEF GeneratorStep
<1>5. ASSUME NEW b \in Benchmarks, Request(b) \/ BenchmarkStep(b) \/ Killed(b)
      PROVE  BenchmarkInv'
  BY <1>1, <1>5, LoaderStepKeepsInv DEF BenchmarkStep, LoadSource
<1> QED
  BY <1>2, <1>3, <1>4, <1>5 DEF BenchmarkNext

THEOREM BenchmarkInvariant == BenchmarkSpec => []BenchmarkInv
BY BenchmarkInitInv, BenchmarkNextKeepsInv, PTL DEF BenchmarkSpec

(* As long as every generator uses the documented seed and the frozen      *)
(* file, a loader that returns served each question of its split exactly   *)
(* once and never the holdout, however generators, their deaths and the    *)
(* fetches fall between its reads (SplitAwareBenchmarkLoader.load, main of *)
(* generate_legal_rag_bench_splits.py).                                    *)
THEOREM SplitsAreServedFrozen == BenchmarkSpec => []ServedSplitIsFrozen
<1>1. BenchmarkInv => ServedSplitIsFrozen
  <2> SUFFICES ASSUME BenchmarkInv, AllInputsFrozen, NEW b \in Benchmarks, stage[b] = "returned"
               PROVE  /\ wanted[b] # "holdout"
                      /\ IsInjective(selected[b])
                      /\ ToSet(selected[b])
                            = {q \in 1..QuestionCount : HomeOf(q) = wanted[b]}
    BY DEF ServedSplitIsFrozen, AllInputsFrozen
  <2>1. wanted[b] \in Splits /\ wanted[b] # "holdout"
    BY DEF BenchmarkInv, BenchmarkTypeOK, RequestInv
  <2>2. selected[b] = Slice(FrozenOrder, wanted[b])
    BY DEF BenchmarkInv, FrozenSplitsInv
  <2> QED BY <2>1, <2>2, FrozenSliceIsItsSplit
<1> QED
  BY <1>1, BenchmarkInvariant, PTL
==============================================================================
