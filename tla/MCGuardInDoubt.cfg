SPECIFICATION Spec
CONSTANTS
    Procs = {p1, p2}
    Keys = {k1}
    Payloads = {b1, b2}
    Refusals = {"FORBIDDEN", "INSUFFICIENT_FUNDS"}
    None = None
    MaxRequests = 2
    ExpiryUnderway = FALSE
INVARIANT FailedMovedNothing
CHECK_DEADLOCK FALSE
