\* Three runs of the three scripts, repeated, overlapping and killed.
SPECIFICATION Spec
CONSTANTS
    Runs = {r1, r2, r3}
    Scripts = {"generation", "embedding", "reranker"}
    Nobody = Nobody
SYMMETRY Symmetry
INVARIANTS
    PassIsEarned
    ReportIsNotStale
CHECK_DEADLOCK FALSE
