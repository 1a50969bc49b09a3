\* Every pair of sections of up to five characters, every question of up to
\* six words, every suite of two cases and every three rankings.
SPECIFICATION FunctionsSpec
CONSTANTS
    MaxChars = 3
    SectionCount = 2
    MaxLength = 5
    Questions <- ShortQuestions
    FocusWords = 4
    SentenceWords = 2
    PartWords = 2
    Symbols = {"0", "1", ".", "-", "c", "s"}
    Corpora <- AnyCorpora
    Suites <- AnySuites
    Unsupported <- NotASection
    CaseLists <- ThreeCases
    RankingLists <- AnyRankings
    Cutoffs = {1, 2}
INVARIANTS
    EveryCharacterOnce
    PassagesFit
    CutsOnlyUnbrokenText
    FocusKeepsTheQuestion
    PartsKeepTheContent
    AcceptedSuiteIsExact
    ScoresAreOfTheirCases
