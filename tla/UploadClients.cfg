SPECIFICATION Spec
CONSTANTS
    m1 = m1
    m2 = m2
    n1 = n1
    n2 = n2
    k1 = k1
    k2 = k2
    w1 = w1
    w2 = w2
    None = None
    Manifests = {m1, m2}
    Names = {n1, n2}
    NameOf <- MCNameOf
    FileCount = 1
    Contents = {k1}
    ContentOf <- OneFileOf
    Actors = {w1, w2}
    MaxSessions = 2
    MaxExpired = 1
    Operations = {"start", "part", "complete", "abort", "cleanup"}
    Overlapping <- ExclusiveComplete
    Faults = {"crash", "corrupt", "checksum", "r2"}
SYMMETRY Symmetry
INVARIANTS
    CanonicalObjectsIntact
    CompletedFilesCanonical
PROPERTIES
    AbortLeavesNothing
CHECK_DEADLOCK FALSE
