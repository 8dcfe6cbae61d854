SPECIFICATION Spec
CONSTANTS
    Command = FALSE
    DayLength = 1
    Heartbeat = 2
    MaxTime = 2
    MaxPlays = 1
    MaxStarts = 2
    MaxFaults = 1
INVARIANTS
    OneSender
    OffIsSilent
    SentIsStored
    
PROPERTIES
    NeverBackwards
    ProgressArrives
CHECK_DEADLOCK FALSE
