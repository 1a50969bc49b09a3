\* Every pair of candidate lists of up to three of four passages.
SPECIFICATION Spec
CONSTANTS
    PassageCount = 4
    Known = {1, 2, 3}
    AlphaScale = 4
    RankConstant = 60
    CandidateK = 3
    FinalK = 2
    Scores = {0, 1}
INVARIANTS
    FusionRespectsRanks
    BalancedProtectsTopHits
    EvidenceIsWhole
CHECK_DEADLOCK FALSE
