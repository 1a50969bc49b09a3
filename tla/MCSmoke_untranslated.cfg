\* One generation check and every reply a runtime may give.
SPECIFICATION Spec
CONSTANTS
    Runs = {r1}
    Scripts = {"generation"}
    Nobody = Nobody
INVARIANT FailuresAreTranslated
CHECK_DEADLOCK FALSE
