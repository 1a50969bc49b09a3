\* The manifest moves to another revision and the second replacement fails.
SPECIFICATION FairSpec
CONSTANTS
    Revisions = {r1, r2}
    Absent = Absent
    Corrupt = Corrupt
    Fetchers = {f1}
    Verifiers = {}
    Loaders = {}
    Unreliable = {f1}
    Faults = {"disk"}
PROPERTIES
    FailureKeepsSnapshot
CHECK_DEADLOCK FALSE
