SPECIFICATION FairSpec
CONSTANTS
    Events = {1, 2, 3}
    Relays = {r1, r2}
    BatchSize = 2
    MaxFaults = 2
    None = None
INVARIANTS PublishedWasDelivered DuplicatesBounded ClaimsExclusive
PROPERTY EventsProcessed
CHECK_DEADLOCK FALSE
