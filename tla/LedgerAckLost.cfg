SPECIFICATION FairSpec
CONSTANTS
    e1 = e1
    e2 = e2
    d1 = d1
    d2 = d2
    h1 = h1
    h2 = h2
    c1 = c1
    c2 = c2
    None = None
    Events = {e1}
    Digests = {d1, d2}
    DigestOf <- OneEventDigestOf
    Handlers = {h1}
    Consumers = {c1}
    MaxRevision = 1
    MaxRun = 0
    MaxSends = 2
    Operations = {"accept"}
    Faults = {"send"}
PROPERTIES
    AckedEventsAreSent
CHECK_DEADLOCK FALSE
