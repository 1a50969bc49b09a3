# Verification of the legal research agent

TLA+ models of the program in `src/`, the TLC runs that check them on small
instances, and proofs that TLAPS checks for every instance.

## 1. Inventory

The repository is a local, evidence-grounded retrieval system: a pinned corpus
is downloaded, verified, embedded and written to two stores; questions are
answered from the derived index. At this commit the generation workflow is not
built yet; what runs is the data path, the retrieval path with its evaluation,
and the FastAPI process with its readiness checks.

| component | code | state | operations | hard behaviour |
| --- | --- | --- | --- | --- |
| dataset snapshot | `application/dataset_snapshot.py`, `scripts/fetch_*` | two raw files | fetch, verify | two files replaced one after the other; crash in between; a manifest that moves on |
| source loader | `application/legal_rag_bench_loader.py` | none | load | verifies the files, then reads them again |
| ingestion service | `application/source_ingestion.py` | phase, job id | ingest | two stores without a common transaction; failures in the failure handler; kill |
| PostgreSQL repository | `adapters/postgres/source_ingestion.py` | snapshot, passage, question and job rows | start, persist, succeed, fail | first writer wins; unguarded UPDATE of the job; lost COMMIT acknowledgement |
| embedder | `application/source_passage_embedding.py` | vectors so far | embed | provider answers off contract |
| Weaviate index | `adapters/weaviate/source_index.py` | the collection | ensure, upsert, delete, count | check-then-act between clients, one request per object |
| index rebuild | `application/index_rebuild.py` | none | rebuild | deletes what others are writing |
| readiness | `application/readiness.py`, `runtime.py`, `apps/api/main.py`, the probes | none | check, startup, shutdown | timeouts of probes that do not stop; results of different instants |
| model providers | `adapters/embedding/bge_m3.py`, `adapters/reranking/bge_m3.py` | the loaded model, a lock | embed, rerank, readiness | threads that outlive their timeout; single load |
| retrieval | `application/hybrid_retrieval.py`, `reranked_retrieval.py`, the two Weaviate retrievers | none | retrieve | two index reads at two instants; fusion order |
| section chunker | `application/section_chunker.py` | start | chunk | progress, coverage, boundaries |
| benchmark splits | `scripts/generate_legal_rag_bench_splits.py`, `application/retrieval_benchmark.py` | three manifests | generate, load split | unverified input, manifests overwritten in place, the hold-out |
| retrieval experiment | `scripts/run_retrieval_baseline.py` | an artifact directory | query, rerank, evaluate, write | an index that changes below the run; two runs of one ID; two files written in order |
| retrieval evaluation | `application/retrieval_evaluation.py` | none | evaluate | rankings and cases in different orders; indices and ranks |
| generation providers | `adapters/generation/http.py`, `ports/generation.py` | none | generate, readiness | which exceptions escape; empty content and the reasoning fallback |
| capability checks | `scripts/run_*_smoke.py` | a report file each | ask, report | reports replaced by overlapping, failing and killed runs |
| query routing and focus | `application/query_routing.py`, `query_focus.py` | none | route, focus | separators that share their whitespace; full stops that end no sentence |
| exact references | `application/exact_reference.py`, `exact_reference_evaluation.py` | none | resolve, evaluate | prefixes of passage IDs |
| demonstration | `scripts/demo_retrieval.py` | none | show | passages the files do not contain |

How they interact: the scripts build a service from its adapters and run it in
one event loop per process; processes share the two raw files, PostgreSQL and
the Weaviate collection, and no lock spans any two requests. Inside a process
the embedding and reranking providers run the model in worker threads behind a
lock; the API process serves readiness requests concurrently.

What makes each component correct, and is hard to reach with a test:

- *ingestion*: a SUCCEEDED job means authoritative rows and a complete index,
  in every interleaving of attempts, failures and kills; the failure category
  tells the truth; rows never change; a retry alone afterwards succeeds.
- *rebuild*: the old collection only goes away once all vectors exist; a
  returned rebuild has filled the collection with its snapshot alone, also
  beside writers of another one, which its count does not tell apart.
- *dataset snapshot*: nothing unpinned is ever written or handed to ingestion;
  a fetch that runs alone repairs whatever an earlier one left.
- *readiness*: every request is answered within its deadlines, about every
  capability, from answers of its own.
- *model providers*: one model per provider, never used while it is being set
  up; a loader that hangs starves the other provider only when it holds every
  thread.
- *retrieval*: fusion and selection respect the ranks they were given; the
  evidence set is whole and its provenance true.
- *experiment*: one artifact directory belongs to one run and is never
  overwritten.
- *chunker*: the passages partition the text within the limit.
- *benchmark splits*: a benchmark is served exactly the frozen questions of its
  split, whatever generators and fetches do meanwhile, and never the hold-out.
- *evaluation*: every score belongs to the case it is filed under.
- *generation and capability checks*: a report that reads passed has been
  earned, and a check that ends leaves its own report.
- *API process*: what a reply says of a model is what its own call found, and
  calls that nobody waits for do not keep the process alive for ever.
- *query preparation*: focusing and routing never lose what was asked.
- *exact references*: a suite is only accepted when every reference resolves to
  its own section and nothing else.

`PROJECT.json` lists the hazards one by one, each at its line of code with the
properties that would catch it.

## 2. Plan

Order of the modules, most important behaviour first. All of it exists.

1. `Corpus`, `SourceStore`, `SourceIndex` (what two services share), then
   `SourceIngestion`, its abstract specification `IngestionLedger`, and the
   proofs.
2. `IndexRebuild`, and `IngestionSystem`, which composes it with ingestion on
   one collection.
3. `DatasetSnapshot` with proofs.
4. `Readiness` with proofs.
5. `ModelProvider` with proofs.
6. `SectionChunker` with proofs.
7. `HybridRetrieval`, with the demonstration that shows its results.
8. `RetrievalExperiment`.
9. `ApiProcess`: `Readiness` over `ModelProvider`, to the end of the process.
10. `RetrievalBenchmark` over `DatasetSnapshot`: generators and loaders of the
    split manifests on the shared raw files.
11. `GenerationProvider` and the `CapabilitySmoke` scripts that use it.
12. `QueryPreparation`, `ExactReferences` and `RetrievalScoring`: functions of
    one input, checked on all small ones.
13. Proofs for `IngestionSystem`, `ApiProcess`, `RetrievalBenchmark`,
    `RetrievalExperiment`, `CapabilitySmoke` and `HybridRetrieval`: done, see
    section 5.
14. Proofs for the functions of item 12, in `InputFunctions_proofs` with those
    for the chunker, over `Sorting`, which says what `sorted()` does.

## 3. Modules and code

| module | models | correspondence |
| --- | --- | --- |
| `Corpus` | what the stores agree on | A snapshot's passages are `1..CorpusCount`; text, title and hash are abstracted to the *version* of the file they were read from. `StableId` is the injective uuid5 key. |
| `SourceStore` | `adapters/postgres/source_ingestion.py` | One operator per transaction. `factRows` joins passages and questions, which one transaction writes; `ON CONFLICT DO NOTHING` keeps the first version; `FinishJob` is the UPDATE without a status guard. |
| `SourceIndex` | `adapters/weaviate/source_index.py`, embedder, loader | One action per awaited request, because the server keeps no lock between requests. `contract` is the collection's configuration; `auto_schema` is what the server invents when an object is inserted into a collection that has gone. |
| `SourceIngestion` | `application/source_ingestion.py` | `pc` is the await the attempt stands at, `phase` the local variable the `except` block records. `IngestFail` is `fail_job`; `IngestStoreRefused` at `fail` is the exception nobody catches. |
| `IngestionLedger` | what ingestion promises | Persist before index, succeed only after both, outcome final. |
| `IndexRebuild`, `IngestionSystem` | `application/index_rebuild.py`, both scripts together | The rebuild uses the actions of `SourceIndex` with its own control points. `Checkouts` says which snapshots each script finds in its files: two checkouts with different manifests share one server. The composition adds a history, `intact`: the rebuilds since whose own delete no other one has removed objects. |
| `DatasetSnapshot` | `application/dataset_snapshot.py`, `legal_rag_bench_loader.py` | Two files in `raw`; bytes are the revision whose hash they match, or `Corrupt`. A loader verifies and then reads again, as the code does. |
| `Readiness` | `readiness.py`, `runtime.py`, `main.py`, the probes | `pc` per request; `late` is the `finally` of a probe that `wait_for` has cancelled; `process` is the lifespan, which begins to close when uvicorn has drained its requests (`RequestsDrained`, external). `seen` is history. |
| `ModelProvider` | the two BGE-M3 providers | `job` is the function in the executor and `caller` the coroutine that may have given up on it. The providers in `LimitedLater` (the embedding one) cache the model before they set its sequence length, and setting it may raise (`LimitRaises`): the model then stays cached and `unlimited`. `loads` is history. |
| `ApiProcess` | `runtime.py`, `embedding_readiness.py`, `reranker_readiness.py`, `main.py` | Composes the two: a probe of a model capability submits one call and settles on its outcome; a deadline cancels the wait only. `exited` is the process after its threads were joined. |
| `SectionChunker` | `application/section_chunker.py` | One `Emit` per turn of the loop; characters are the space, other whitespace, and the rest: what `_chunk_end` tells apart. |
| `HybridRetrieval` | `hybrid_retrieval.py`, the two retrievers, `reranked_retrieval.py`, `demo_retrieval.py` | The two lists are arbitrary answers, since the index may change between them. Scores are compared as exact fractions. The fusion is cut to `final_k` of its configuration: `top_k` in a baseline without reranking, `candidate_k` in the demonstration and in every run that reranks. |
| `Sorting` | `sorted()` and `list.sort()` | `Ordered` puts each member of a set in the place that the number of those before it gives it; the order is total because every sort key of the code is made unique (by passage ID or, for a stable sort, by position). `Ascending` is the same for numbers. |
| `RetrievalExperiment` | `scripts/run_retrieval_baseline.py`, `retrieval_evaluation.py` | One action per query, rerank and file operation; a result is abstracted to how many passages it found. |
| `RetrievalBenchmark` | `generate_legal_rag_bench_splits.py`, `retrieval_benchmark.py` | A manifest is its question IDs, none while it does not parse: while it is being written, or when a longer one of another generator sticks out behind it; `stage` is where a generator or a loader stands, and the loader's source is a process of `DatasetSnapshot`. |
| `GenerationProvider` | `adapters/generation/http.py` | Operators from a reply of the runtime (failed request, or a body by what the parser tells apart) to a response, a failure kind or an exception. |
| `CapabilitySmoke` | `scripts/run_*_smoke.py` | One action per question, then `Truncate` and `Write` for `Path.write_text`, and `Close` for the `aclose` of the generation check, which may raise after the report is there. `served` and `written` are history: what the provider really did, and who wrote a report since a run began. |
| `QueryPreparation` | `query_focus.py`, `query_routing.py` | A question is a sequence of words by what the rules see of them (`mark` ends in a question mark, `stop` and `citation` in a full stop). Both rules split with a regular expression: `PartsAt` cuts a text at a set of places, each part from behind one end to the next. |
| `ExactReferences` | `exact_reference.py`, `exact_reference_evaluation.py`, `scripts/evaluate_exact_references.py` | Passage IDs are character sequences, because the resolver decides by a prefix of them; `exit` is the exit code. `PassageAssumption`: the section of a passage is what precedes the first dash of its ID, and a supported reference is dotted digits (`_SECTION`), so neither has a dash. |
| `RetrievalScoring` | `retrieval_evaluation.py` | One action for the whole evaluation, or its refusal (duplicates, other questions, the holdout, cases of two splits or benchmarks; `origin` stands for benchmark and snapshot); means are kept as sums. `ScoringAssumption` is `RankedRetrievalResult.__post_init__`: no passage twice, no negative latency. |

`MC*.tla` hold the definitions TLC needs (fault sets, symmetry, inputs).
`MCFunctions` joins the four modules that compute without shared state: each of
its behaviours works on one input of one of them. Definitions
named `X_something` are deliberate mistakes in `X`: `PROJECT.json` says which
property each of them breaks.

## 4. Runs

| run | what it shows | bounds, and why they are enough |
| --- | --- | --- |
| `MCIngestion_safety` | the job, the rows and the index agree in every interleaving of two attempts under every fault, and ingestion implements the ledger | 3 passages in batches of 2 (a short last batch), 2 snapshots, 2 contents: attempts collide on one snapshot or not, and a rewritten row would be seen |
| `MCIngestion_unrecorded` | **violation**: when PostgreSQL refuses, the job stays RUNNING | one attempt is enough |
| `MCSystem_recovery` | failures are recorded, only a rebuild that has its vectors drops the collection, a returned rebuild has left exactly its snapshot, one ingestion or rebuild that runs alone restores the stores, every script ends | 2 attempts and 2 rebuilds, one of each failing or killed anywhere, and everything but PostgreSQL fails; `r2` rebuilds another snapshot than the other three write, so that objects of both are in the collection at once |
| `MCSnapshot_replaced` | **violation**: a failing fetch of a newer manifest destroys a valid snapshot | 2 revisions, 1 fetch |
| `MCBenchmark_splits` | the frozen files and the frozen split under overlapping, failing and killed processes | 2 fetches (one unreliable), 1 benchmark load, 1 generator with the frozen or another seed (two together are beyond TLC here; the theorem is for any number), any initial content of both files; splits of 2, 1 and 1 questions |
| `MCApi_process` | replies are honest and of their own calls, every request is answered; single load, no use of a model that is being set up, no starvation by a hanging loader; the process ends | 2 overlapping requests, one probe that closes a client and two model providers, of which one may hang and the other may fail to set up what it cached, on 2 threads: the pool can be exhausted by one provider |
| `MCExperiment_artifacts` | artifacts of one experiment ID stay those of one run | 2 runs of one ID in all four modes, 2 cases, an index that is dropped and refilled at any time; runs of different IDs share nothing but the index |
| `MCRetrieval_fusion` | fusion, balanced selection, reranking, and what the demonstration shows | 4 passages, every pair of lists of up to 3, both cuts (2 and 3), every alpha on a scale of 4, 2 scores, four modes; too few and unknown candidates occur |
| `MCSmoke_reports` | a pass is earned, a report that is left is not stale | 3 runs of the three scripts, every reply of the runtime |
| `MCSmoke_untranslated` | **violation**: a reply that cannot be decoded leaves the adapter as an exception | one run is enough |
| `MCFunctions_inputs` | chunking, focus, routing, exact references and scoring on every small input; never stuck (deadlock is checked) | chunk limit 3 and two sections of up to 5 characters, so that every boundary case of `rfind` occurs; questions of up to 6 words with the thresholds 4, 2 and 2 in place of 40, 4 and 3; any corpus over the sections 1, 1.1 and 1.10, suites of two cases; three cases of one split, of two, or of two benchmarks, and up to three rankings in any order |
| `MCQuestion_cited` | **violation**: a citation cuts the question | the same questions |

`CHECK_DEADLOCK FALSE` stands where all scripts may have ended, or where a
silent capability may leave a process waiting. Every bound is a constant of the
configuration.

### Fairness

- *Scripts and ingestion*: nobody has to start a script (`Load` and `Begin` are
  not fair), but an event loop runs what it has started, and every request is
  answered or raises; so weak fairness of a started script's step, and none of
  faults or kills.
- *Readiness*: deadlines expire and the event loop runs what is ready; a
  capability may stay silent for ever (`Answer` is not fair). `client.close()`
  in the `finally` of a cancelled probe is assumed to return, for no deadline
  covers it.
- *Model providers*: threads are scheduled and model code returns, except the
  loader of the providers in `Silent`. A process that was told to stop goes on
  through its lifespan and exits when its threads have ended.
- *Splits*: the same as for scripts; a benchmark that began reads on.

`SoleRetrySucceeds`, `SoleRebuildRestoresIndex` and `SoleFetchRepairs` speak of
one process that meets no failure of its own and runs after the others ended:
they say what earlier failures have left behind can be repaired, not that
failures stop.

## 5. Proofs

Checked by TLAPS for all values of the constants that satisfy the named
assumptions of the modules.

- **`IngestionSystem_proofs`**, first for ingestion alone: types,
  `SucceededJobIsComplete`, `IndexedPassagesArePersisted`, `CollectionKeepsContract`,
  `CategoryTellsProgress`, `SourceRowsAreImmutable`, and the refinement of
  `IngestionLedger`. None of these is inductive: whether success may be
  recorded depends on what the attempt achieved at every await before. `IInv`
  says that attempt by attempt: where it stands (`ControlInv`), what its row
  says (`RowInv`), what its phase has achieved (`PhaseInv`), how far it has
  filled the collection (`FillInv`). One attempt's step re-establishes its own
  part; the others keep theirs because ingestion never takes a row or an object
  away (`Grows`). The refinement lets an outcome change once, from SUCCEEDED to
  FAILED, where acknowledgements of a COMMIT can be lost (`MayOverturn`):
  `succeed_job` may have committed before `fail_job` runs, and nothing else in
  the ledger is weakened by it.
  Then beside any number of rebuilds: `FailureIsRecorded` (where PostgreSQL does
  not fail: `"store"` and `"store_ack"` are not in `Faults`; `MCIngestion_unrecorded` shows that the
  assumption is needed), `CategoryTellsProgress`, `SourceRowsAreImmutable`,
  `DropOnlyWithVectors`, and for any number of snapshots `RefillIsExact`.
  `IInv` does not survive a rebuild, which drops what an attempt has filled;
  `SystemInv` keeps of it what speaks of rows and jobs only, and adds where a
  rebuild stands and how many vectors it then holds. That is not enough for
  `RefillIsExact`, since `count` speaks of objects of all snapshots:
  `WatchedInvariant` adds, for each rebuild in `intact`, that the passages
  before its cursor are objects of its snapshot, and that they stay so through
  the steps of everybody else. When it counts it has written all of them, so
  a count equal to the corpus leaves no room for an object of another snapshot
  (`FullCountIsExact`).
- **`RetrievalBenchmark_proofs`**: for `DatasetSnapshot` with one committed
  manifest (`Revisions = {r}`), `LoadedIsPinned`, `ReturnedMeansWhole` and
  `ValidFilesAreKept`: readers hold only bytes that are still in the files once
  those are valid; writers hold only pinned bytes. The benchmark implements
  `DatasetSnapshot` step by step, so the three hold of it too. For every number
  of questions and every split, `ServedSplitIsFrozen`: as long as only frozen
  inputs reach a generator, a manifest is absent or the frozen slice of its
  split, for the frozen order is a permutation (a sequence as long as the set
  it covers repeats nothing), and a loader that checked its manifest serves
  that slice. Like the property, the theorem is about generators given the
  frozen seed and file.
- **`ApiProcess_proofs`**: for `Readiness` alone types, `ReportIsHonest`,
  `ReplyCoversEveryProbe`, from an invariant that relates the probe a request stands at to the results it has recorded and to
  what its history has seen; for `ModelProvider` alone `ModelIsLoadedOnce` and
  `UsedModelIsSetUp` (a call that loads or sets up holds the lock of its
  provider, and a free lock means that no setup is under way). The process
  implements `ModelProvider`, which carries both over. It does not implement
  `Readiness`: what a model's probe observes changes with the steps of its call
  and not with `Flip`. So `ReportIsHonest` is proved of the process directly,
  with `ModelReportIsOwn`, from `ApiInv`, which ties each call to the request
  that waits for it.
- **`HybridRetrieval_proofs`**: for every number of passages, every alpha, rank
  constant, `candidate_k` and both cuts and all pairs of lists, `FusionRespectsRanks`,
  `BalancedProtectsTopHits` and `EvidenceIsWhole`. The lemmas are about the
  operators: `Ordered` puts a finite set in strict order (the numbers of
  predecessors are a permutation of the places), so the best of it are a prefix
  (`TheBestArePrefix`); fused scores are fractions whose cross products order
  them (`FractionsAreOrdered`, `SumsAreOrdered`); turns of the two lists are
  different numbers, so fewer passages than its turn come before one
  (`FewTurnsBefore`). The invariant adds that the fused list is the fusion of
  the two lists that were read.
- **`RetrievalExperiment_proofs`**: types, `ArtifactsAreOfOneRun`,
  `RerankedResultsAreFull` and `ResultsAreKept`. `ExperimentInv` says that
  `mkdir` lets one run of an experiment through (`SoleWriter`), and that a run
  counts the cases it found candidates for before those it reranked.
- **`CapabilitySmoke_proofs`**: `PassIsEarned` and `ReportIsNotStale`, from
  lemmas about what `GenerationProvider` makes of a reply and from an invariant
  that says how many questions of a check have been answered where it stands.
- **`InputFunctions_proofs`**: the four modules that compute without shared
  state, for inputs of any size.
  *Sections*: types, `EveryCharacterOnce`, `PassagesFit` and
  `CutsOnlyUnbrokenText`, from `BoundaryRule` about `_chunk_end` and the fact
  that nothing has been emitted past the place where the loop stands.
  *Questions*: `FocusKeepsTheQuestion` and `PartsKeepTheContent`. A text is cut
  at its ends, which are its cuts in ascending order; so the parts lie one
  behind the other and every word is in one of them. The one question mark ends
  the text, so the only sentence that asks is the last one, and the cut before
  it is a full stop. A conjunction is the last word of its part, so that
  dropping it drops an "and".
  *References*: `AcceptedSuiteIsExact`. Neither a section nor a reference has a
  dash, so a reference followed by a dash is a prefix of an ID only when the
  section of that ID is the reference: no section is taken for its child or for
  one that begins alike.
  *Scores*: `ScoresAreOfTheirCases`. Two lists without duplicates over the same
  questions correspond one to one, so the latencies of the cases are those of
  the rankings; the first case is no holdout case and the others share its split,
  so that none is; the member at a place of the sorted list has as many before it
  as the place says, which makes nearest rank a percentile.
- **`Sorting_proofs`**: lemmas only. The numbers of predecessors in a strict
  total order are a permutation of the places, so `Ordered` is a sequence
  without repetition that covers its set and follows the order, and
  `Ascending` ascends. Fusion, reranking, percentiles and cuts rest on it.

TLC checked every inductive invariant on the instance of its run before it was
proved. Some results need no run: `ContractIsKept`
(`CollectionKeepsContract`), `RepliesAreComplete` (`ReplyCoversEveryProbe`),
and the type invariants of `SourceIngestion`, `Readiness`,
`ModelProvider`, `RetrievalExperiment`, `HybridRetrieval`, `CapabilitySmoke` and
`SectionChunker` are proved outright, and the runs check what is said beyond them.

Every safety property of a passing run is proved. Only model-checked are the
eight liveness properties, for the prover reaches neither fairness nor ENABLED:
`SoleRetrySucceeds`, `SoleRebuildRestoresIndex`, `EveryScriptEnds`,
`EveryRequestIsAnswered`, `OtherProvidersFinish`, `ProcessExits`,
`SomeRunPublishes` and `SoleFetchRepairs`. What a recursive definition computes
cannot be proved with these tools, as the induction theorems take an operator
parameter. One is left, the function in `Conjunctions` (a separator needs
whitespace that the one before it has not consumed): the proof uses only that
conjunctions are occurrences of "and" with a word on either side, which is all
the property depends on, and TLC evaluates the rest on every small question.
`FailureKeepsSnapshot` and the other three violations need no proof:
TLC has the counterexample.

## 6. What the checks found

- **A failing PostgreSQL leaves the job RUNNING** (`MCIngestion_unrecorded`).
  `fail_job` is awaited unguarded in the `except` block: when the transaction
  that failed was PostgreSQL's own, recording the failure fails too. The
  documentation says that a failing source persistence is recorded.
- **A failing fetch can destroy a valid snapshot** (`MCSnapshot_replaced`). The
  two files are replaced one after the other under names that do not depend on
  the revision.
- **A reply that cannot be decoded escapes as an exception**
  (`MCSmoke_untranslated`). `_response_content` catches `JSONDecodeError`, so
  that invalid UTF-8 raises `UnicodeDecodeError`; `_request` does not catch
  httpx's `DecodingError`. The documentation says that malformed responses
  become failures. Readiness is safe from both: its probe catches everything.
- **A citation cuts the question** (`MCQuestion_cited`). "... under s. 3A of the
  Act?" ends a sentence after "s." for the focuser, which then searches for
  "3A of the Act?" if that is four words or more.

Differences between code and words that need no run of their own:

- The category of a failure of `succeed_job` is `index`, its phase when it runs.
- `/ready` proves each capability at some moment of its request, not all at one
  instant; the README of the repository says "at that instant".
- The loader reads the files again after verifying them. With one manifest this
  is safe (proved); with fetches for two manifests it may load the other one.
- An upsert that meets a collection a rebuild has just deleted makes the server
  invent one (`auto_schema`); ingestion then refuses it until a rebuild runs,
  which is why `SoleRetrySucceeds` leaves that state out.
- `ReadinessRuntime.close` skips the pool when closing the client raises.
- `BgeM3EmbeddingProvider` caches its model before it sets the sequence length:
  when setting it raises, later calls use the model without the limit.
- A rebuild that another rebuild has overtaken may report success over the
  other's objects, since only their number is compared; `RefillIsExact` leaves
  out a rebuild whose collection was dropped under it.
- The loader of the splits never checks the seed: with other manifests that
  fit the source it would serve questions of the frozen hold-out. Only the
  review of the committed files stands against that, and
  `ServedSplitIsFrozen` is stated for generators given the frozen seed and file.
- Plain text that is empty counts as an answer of a native Ollama reply (the
  report says so), and not of an OpenAI-compatible one.
- A reference suite without boundary cases is never accepted.
- The chunker's docstring speaks of whitespace; the code looks for spaces only,
  and never takes one at the start of a passage as a boundary.
- An experiment publishes the hash of the corpus although nothing compares the
  index with it, and the code revision it reads after its last query.

## 7. Not modelled

Settings (validated before the process starts, and constant afterwards),
migrations (run before the program), the request payloads of the generation
adapters and the fake provider of the tests, the result file of the
exact-reference script, measurements in reports, the numerical content of
vectors and scores (floating point; NaN checks are part of "off contract"),
the aggregate `ready` or `not_ready` of a report (a function of its results), and
the leftover temporary file of a failed atomic write. The servers (PostgreSQL,
Weaviate, the generation runtime) are external: a request is atomic, and takes
effect with or without its answer arriving.

Known hazards outside the models: `rebuild` never reads PostgreSQL
(`application/index_rebuild.py:64`), so that after a reset of the database it
indexes passages without authoritative rows, which no document excludes; all
passages go into one INSERT (`adapters/postgres/source_ingestion.py:66`), which
the 16-bit limit on bind parameters refuses above 5461 passages (4876 today);
and the code revision of an experiment is read after its last query
(`scripts/run_retrieval_baseline.py:212`), so that a commit in the meantime
labels the artifact.
