\* Two runs, of one experiment, beside a rebuild of the index.
SPECIFICATION FairSpec
CONSTANTS
    Runs = {x1, x2}
    ExperimentIds = {e1}
    Nobody = Nobody
    CaseCount = 2
    PassageCount = 2
    CandidateK = 2
    FinalK = 1
    Faults <- AllFaults
    Unreliable = {x1}
INVARIANTS
    ArtifactsAreOfOneRun
    RerankedResultsAreFull
PROPERTIES
    ResultsAreKept
    SomeRunPublishes
CHECK_DEADLOCK FALSE
