\* A benchmark is loaded beside two fetches and a generator of its split.
SPECIFICATION BenchmarkFairSpec
CONSTANTS
    Revisions = {r1}
    Absent = Absent
    Corrupt = Corrupt
    Fetchers = {f1, f2}
    Verifiers = {}
    Loaders = {b1}
    Benchmarks = {b1}
    Generators = {g1}
    Unreliable = {f1, g1}
    Faults <- AllFaults
    QuestionCount = 4
    Size <- FourQuestions
    Shuffles <- TwoSeeds
    FrozenShuffle <- FrozenSeed
    FrozenRevision = r1
    OtherOrder <- Reordered
INVARIANTS
    LoadedIsPinned
    ReturnedMeansWhole
    ServedSplitIsFrozen
PROPERTIES
    ValidFilesAreKept
    SoleFetchRepairs
CHECK_DEADLOCK FALSE
