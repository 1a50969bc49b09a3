\* Two overlapping attempts that meet every kind of failure.
SPECIFICATION Spec
CONSTANTS
    Snapshots = {s1, s2}
    Versions = {v1, v2}
    Missing = Missing
    CorpusCount = 3
    BatchSize = 2
    Attempts = {a1, a2}
    Clients = {a1, a2}
    Checkouts <- AnyManifest
    Unreliable = {a1, a2}
    AutoSchema = {TRUE, FALSE}
    Faults <- AllFaults
SYMMETRY Symmetry
INVARIANTS
    SucceededJobIsComplete
    IndexedPassagesArePersisted
    CategoryTellsProgress
PROPERTIES
    SourceRowsAreImmutable
    ImplementsLedger
CHECK_DEADLOCK FALSE
