SPECIFICATION FairSpec
CONSTANTS
    Procs = {p1, p2}
    Keys = {1, 2}
    Payloads = {b1, b2}
    DefaultForm = b1
    Refusals = {"INSUFFICIENT_FUNDS"}
    AccountIds = {a1}
    MaxForms = 2
    None = None
INVARIANTS PaidOncePerForm ResultTrue AuditTruthful
PROPERTIES AcknowledgedAudited SubmissionEnds
