\* PostgreSQL answers; a1 and r1 meet every other failure, a2 and r2 none.
SPECIFICATION WatchedFairSpec
CONSTANTS
    s1 = s1
    s2 = s2
    r2 = r2
    Snapshots = {s1, s2}
    Versions = {v1}
    Missing = Missing
    CorpusCount = 2
    BatchSize = 2
    Attempts = {a1, a2}
    Clients = {a1, a2, r1, r2}
    Checkouts <- TwoManifests
    Unreliable = {a1, r1}
    AutoSchema = {TRUE, FALSE}
    Faults <- IndexSideFaults
    Rebuilds = {r1, r2}
INVARIANTS
    FailureIsRecorded
PROPERTIES
    DropOnlyWithVectors
    RefillIsExact
    SoleRetrySucceeds
    SoleRebuildRestoresIndex
    EveryScriptEnds
CHECK_DEADLOCK FALSE
