SPECIFICATION Spec
CONSTANTS
    MaxTransfers = 2
    Window = 2
    MaxTime = 6
    MaxPerTick = 2
    None = None
INVARIANTS LimitHolds QuietResets
CHECK_DEADLOCK FALSE
