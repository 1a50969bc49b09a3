\* A citation in the final question of a fact pattern.
SPECIFICATION QuestionSpec
CONSTANTS
    Questions <- ShortQuestions
    FocusWords = 4
    SentenceWords = 2
    PartWords = 2
INVARIANTS
    FocusIsASentence
CHECK_DEADLOCK FALSE
