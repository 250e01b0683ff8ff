SPECIFICATION FairSpec
CONSTANTS
    Procs = {p1, p2, p3}
    Keys = {k1}
    Payloads = {b1, b2}
    Refusals = {"FORBIDDEN", "INSUFFICIENT_FUNDS"}
    None = None
    MaxRequests = 3
    ExpiryUnderway = FALSE
INVARIANTS SingleOwner PostedOnce CompletedMeansPosted
PROPERTIES ImplementsContract VerdictStable KeyFreed
CHECK_DEADLOCK FALSE
