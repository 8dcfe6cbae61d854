SPECIFICATION Spec
CONSTANTS
    None = None
    MaxAttempts = 3
    Gated = TRUE
    DayLength = 1
    MaxTime = 1
    MaxRestarts = 1
    MaxLost = 2
    MaxFaults = 1
INVARIANTS
    
    AnswersAgree
    
CHECK_DEADLOCK FALSE
