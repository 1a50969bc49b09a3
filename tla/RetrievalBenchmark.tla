-------------------------- MODULE RetrievalBenchmark --------------------------
(***************************************************************************)
(* The frozen split of the benchmark: scripts that regenerate its three    *)
(* manifests from the raw QA file, and SplitAwareBenchmarkLoader, which    *)
(* reads one manifest and then the source.  The manifests and the raw      *)
(* files are shared: fetches replace the raw files meanwhile, a generator  *)
(* reads them without verification and overwrites the manifests in place.  *)
(*                                                                         *)
(* A manifest is abstracted to its question IDs; one that is missing or    *)
(* half-written does not parse and has none.                               *)
(***************************************************************************)
EXTENDS DatasetSnapshot, Sequences, SequencesExt

CONSTANTS
    Benchmarks,       \* the loaders that SplitAwareBenchmarkLoader calls
    Generators,       \* runs of generate_legal_rag_bench_splits.py
    QuestionCount,    \* records of the QA file
    Size,             \* questions of each split
    Shuffles,         \* the permutations that --seed may select
    FrozenShuffle,    \* the one of the documented seed
    FrozenRevision,   \* the dataset revision the generator writes down
    OtherOrder        \* the question IDs of a QA file of other bytes

Split == <<"development", "validation", "holdout">>
Splits == ToSet(Split)

ASSUME BenchmarkAssumption ==
    /\ Benchmarks \subseteq Loaders
    /\ Generators \cap Processes = {}
    /\ Size \in [Splits -> Nat \ {0}]
    /\ QuestionCount = Size["development"] + Size["validation"] + Size["holdout"]
    /\ FrozenShuffle \in Shuffles
    /\ \A order \in Shuffles \cup {OtherOrder} :
          /\ DOMAIN order = 1..QuestionCount
          /\ ToSet(order) = 1..QuestionCount
    /\ FrozenRevision \in Revisions

(* The question IDs in the order of the QA file.                           *)
QuestionIds(content) ==
    IF content = Corrupt THEN OtherOrder ELSE [i \in 1..QuestionCount |-> i]

Shuffled(permutation, ids) == [i \in DOMAIN ids |-> ids[permutation[i]]]

(* Mutant: the validation slice begins at the last development question.   *)
Slice_overlaps(order, split) ==
    CASE split = "development" -> SubSeq(order, 1, Size["development"])
      [] split = "validation"  ->
            SubSeq(order, Size["development"], Size["development"] + Size["validation"] - 1)
      [] OTHER -> SubSeq(order, Size["development"] + Size["validation"] + 1, QuestionCount)

(* ids[:60], ids[60:80] and ids[80:]                                       *)
Slice(order, split) ==
    CASE split = "development" -> SubSeq(order, 1, Size["development"])
      [] split = "validation"  ->
            SubSeq(order, Size["development"] + 1, Size["development"] + Size["validation"])
      [] OTHER -> SubSeq(order, Size["development"] + Size["validation"] + 1, QuestionCount)

FrozenOrder == Shuffled(FrozenShuffle, QuestionIds(FrozenRevision))

VARIABLES
    splits,      \* evals/splits: the question IDs of each manifest
    seed,        \* the permutation of each generator
    order,       \* the question IDs a generator read, shuffled
    written,     \* how many manifests a generator has completed
    wanted,      \* the split each benchmark was asked for
    selected,    \* the question IDs of the manifest it read
    stage

generatorVars == <<seed, order, written>>
requestVars == <<wanted, selected>>
benchmarkVars == <<vars, splits, generatorVars, requestVars, stage>>

NoQuestions == <<>>

BenchmarkInit ==
    /\ Init
    /\ splits = [s \in Splits |-> Slice(FrozenOrder, s)]
    /\ seed \in [Generators -> Shuffles]
    /\ order = [g \in Generators |-> NoQuestions]
    /\ written = [g \in Generators |-> 0]
    /\ wanted \in [Benchmarks -> Splits]
    /\ selected = [b \in Benchmarks |-> NoQuestions]
    /\ stage = [p \in Generators \cup Benchmarks |-> "idle"]

Enter(p, to) == stage' = [stage EXCEPT ![p] = to]
Fault(p, kind) == p \in Unreliable /\ kind \in Faults

------------------------------------------------------------------------------
(* The generator.                                                          *)

(* load_ids checks the number and the type of the IDs and not the hash of  *)
(* the file; bytes of another file may pass.                               *)
LoadIds(g) ==
    /\ stage[g] = "idle"
    /\ \/ /\ raw["qa"] # Absent
          /\ order' = [order EXCEPT ![g] = Shuffled(seed[g], QuestionIds(raw["qa"]))]
          /\ Enter(g, "open")
       \/ /\ raw["qa"] \in {Absent, Corrupt}
          /\ Enter(g, "raised")
          /\ UNCHANGED order
    /\ UNCHANGED <<vars, splits, seed, written, requestVars>>

(* write_text truncates the manifest,                                      *)
OpenManifest(g) ==
    /\ stage[g] = "open"
    /\ \/ /\ splits' = [splits EXCEPT ![Split[written[g] + 1]] = NoQuestions]
          /\ Enter(g, "write")
       \/ Fault(g, "disk") /\ Enter(g, "raised") /\ UNCHANGED splits
    /\ UNCHANGED <<vars, generatorVars, requestVars>>

AfterManifest(g) == IF written[g] + 1 = Len(Split) THEN "returned" ELSE "open"

(* and writes the body.  Of a longer one that another generator has        *)
(* written meanwhile the end sticks out, and nothing parses.               *)
WriteManifest(g) ==
    LET split == Split[written[g] + 1]
        body == Slice(order[g], split)
    IN  /\ stage[g] = "write"
        /\ \/ /\ \E left \in IF splits[split] \in {NoQuestions, body} THEN {body}
                            ELSE {body, NoQuestions} :
                   splits' = [splits EXCEPT ![split] = left]
              /\ written' = [written EXCEPT ![g] = @ + 1]
              /\ Enter(g, AfterManifest(g))
           \/ Fault(g, "disk") /\ Enter(g, "raised") /\ UNCHANGED <<splits, written>>
        /\ UNCHANGED <<vars, seed, order, requestVars>>

Killed(p) ==
    /\ Fault(p, "crash")
    /\ stage[p] \in {"open", "write", "manifest"}
    /\ Enter(p, "crashed")
    /\ UNCHANGED <<vars, splits, generatorVars, requestVars>>

------------------------------------------------------------------------------
(* SplitAwareBenchmarkLoader.load                                          *)

(* HoldoutAccessError comes before any file is opened.                     *)
Request(b) ==
    /\ stage[b] = "idle"
    /\ Enter(b, IF wanted[b] = "holdout" THEN "raised" ELSE "manifest")
    /\ UNCHANGED <<vars, splits, generatorVars, requestVars>>

(* _load_split_manifest                                                    *)
LoadManifest(b) ==
    /\ stage[b] = "manifest"
    /\ \/ /\ splits[wanted[b]] # NoQuestions
          /\ selected' = [selected EXCEPT ![b] = splits[wanted[b]]]
          /\ Enter(b, "source")
       \/ /\ splits[wanted[b]] = NoQuestions \/ Fault(b, "disk")
          /\ Enter(b, "raised")
          /\ UNCHANGED selected
    /\ UNCHANGED <<vars, splits, generatorVars, wanted>>

(* LegalRagBenchSourceLoader.load                                          *)
LoadSource(b) ==
    /\ stage[b] = "source"
    /\ Begin(b) \/ Step(b) \/ Crash(b)
    /\ UNCHANGED <<splits, generatorVars, requestVars, stage>>

(* _validate_manifest_against_source, then one case per selected question. *)
Match(b) ==
    /\ stage[b] = "source" /\ pc[b] \in Ended
    /\ Enter(b, IF pc[b] # "returned" THEN pc[b]
                ELSE IF /\ manifest[b] = FrozenRevision
                        /\ ToSet(selected[b]) \subseteq ToSet(QuestionIds(bytes[b]["qa"]))
                     THEN "returned" ELSE "raised")
    /\ UNCHANGED <<vars, splits, generatorVars, requestVars>>

------------------------------------------------------------------------------
(* The other processes on the raw files.                                   *)
OtherProcess(p) ==
    /\ p \notin Benchmarks
    /\ Begin(p) \/ Step(p) \/ Crash(p)
    /\ UNCHANGED <<splits, generatorVars, requestVars, stage>>

GeneratorStep(g) == OpenManifest(g) \/ WriteManifest(g)
BenchmarkStep(b) == LoadManifest(b) \/ LoadSource(b) \/ Match(b)

BenchmarkNext ==
    \/ \E p \in Processes : OtherProcess(p)
    \/ \E g \in Generators : LoadIds(g) \/ GeneratorStep(g) \/ Killed(g)
    \/ \E b \in Benchmarks : Request(b) \/ BenchmarkStep(b) \/ Killed(b)

BenchmarkSpec == BenchmarkInit /\ [][BenchmarkNext]_benchmarkVars

(* A script that began runs to its end unless it is killed.                *)
BenchmarkFairSpec ==
    /\ BenchmarkSpec
    /\ \A p \in Processes \ Benchmarks :
          WF_benchmarkVars(Step(p) /\ UNCHANGED <<splits, generatorVars, requestVars, stage>>)
    /\ \A g \in Generators : WF_benchmarkVars(GeneratorStep(g))
    /\ \A b \in Benchmarks : WF_benchmarkVars(BenchmarkStep(b))

------------------------------------------------------------------------------
(* docs/data-and-evaluation.md, "Frozen benchmark split"                   *)

FrozenInputs(g) ==
    /\ seed[g] = FrozenShuffle
    /\ order[g] \in {NoQuestions, FrozenOrder}

(* The split in which the frozen order places a question.                  *)
HomeOf(question) ==
    LET place == CHOOSE i \in 1..QuestionCount : FrozenOrder[i] = question
    IN  IF place <= Size["development"] THEN "development"
        ELSE IF place > QuestionCount - Size["holdout"] THEN "holdout" ELSE "validation"

(* "deterministically partitioned once": a benchmark is served exactly the *)
(* frozen questions of the split it asked for, and never the holdout,      *)
(* while generators given the frozen seed and file overwrite the manifests *)
(* and are killed over it, and fetches replace the source.                 *)
ServedSplitIsFrozen ==
    (\A g \in Generators : FrozenInputs(g)) =>
        \A b \in Benchmarks :
            stage[b] = "returned" =>
                /\ wanted[b] # "holdout"
                /\ IsInjective(selected[b])
                /\ ToSet(selected[b]) = {q \in 1..QuestionCount : HomeOf(q) = wanted[b]}
==============================================================================
