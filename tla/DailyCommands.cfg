SPECIFICATION Spec
CONSTANTS
    Charts = {"a"}
    p1 = p1
    p2 = p2
    Commands = {p1, p2}
    Files <- MCFiles
    MinResults = 1
    MaxPlays = 2
    MaxStarts = 3
    MaxCrashes = 1
SYMMETRY MCSymmetry
INVARIANTS
    
    StateOfLastImport
    
    SavedWasExported
PROPERTIES
    RevisionsImmutable
CHECK_DEADLOCK FALSE
