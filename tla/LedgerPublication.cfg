SPECIFICATION Spec
CONSTANTS
    e1 = e1
    e2 = e2
    d1 = d1
    d2 = d2
    h1 = h1
    h2 = h2
    c1 = c1
    c2 = c2
    None = None
    Events = {e1, e2}
    Digests = {d1, d2}
    DigestOf <- MCDigestOf
    Handlers = {h1}
    Consumers = {c1}
    MaxRevision = 2
    MaxRun = 1
    MaxSends = 3
    Operations = {"accept", "retry"}
    Faults = {"start", "lostreply", "timeout", "replay"}
SYMMETRY Symmetry
INVARIANTS
    LatestIsNewestSuccess
    AckedMessageTookEffect
PROPERTIES
    PublishedByLiveRun
    PublicationSpec
CHECK_DEADLOCK FALSE
