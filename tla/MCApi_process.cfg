\* Two overlapping requests probe a service whose client is closed, the
\* embedding model, whose loader may hang, and the reranker, on two threads.
SPECIFICATION ApiFairSpec
CONSTANTS
    Requests = {q1, q2}
    ProbeCount = 3
    Closing = {1}
    Failures = {"failed"}
    CloseRaises = TRUE
    Providers <- ModelNumbers
    Calls <- ModelCalls
    Nobody = Nobody
    Workers = 2
    Silent = {2}
    LimitedLater = {2}
INVARIANTS
    ModelReportIsOwn
    ModelIsLoadedOnce
    UsedModelIsSetUp
PROPERTIES
    ReportIsHonest
    EveryRequestIsAnswered
    OtherProvidersFinish
    ProcessExits
CHECK_DEADLOCK FALSE
