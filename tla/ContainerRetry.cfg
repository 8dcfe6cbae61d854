SPECIFICATION Spec
CONSTANTS
    None = None
    MaxAttempts = 2
    Gated = TRUE
    DayLength = 2
    MaxTime = 1
    MaxRestarts = 0
    MaxLost = 1
    MaxFaults = 0
INVARIANTS
    AttemptsIdempotent
CHECK_DEADLOCK FALSE
