SPECIFICATION Spec
CONSTANTS
    Charts = {"c"}
    Kinds = {"EASY"}
    SlotCount = 1
    ReplayLimit = 1
    MaxRetries = 2
    Tolerance = 0
    MaxCount = 3
    MaxTime = 1
    MaxWrites = 4
    MaxRestores = 1
    MaxFailures = 1
    Faults = {"crash", "busy", "correct", "restore", "partial"}
INVARIANTS
    CursorTellsLatestPlay
    RowAndBestTogether
    NoNeedlessGeneration
    GaugeOfLatestReplay
PROPERTIES
    HistorySpec
    LastPlaysRecorded
    LastReplaysRead
CHECK_DEADLOCK FALSE
