\* PostgreSQL may refuse a transaction.
SPECIFICATION Spec
CONSTANTS
    Snapshots = {s1}
    Versions = {v1}
    Missing = Missing
    CorpusCount = 1
    BatchSize = 1
    Attempts = {a1}
    Clients = {a1}
    Checkouts <- AnyManifest
    Unreliable = {a1}
    AutoSchema = {TRUE, FALSE}
    Faults = {"store"}
INVARIANT FailureIsRecorded
CHECK_DEADLOCK FALSE
