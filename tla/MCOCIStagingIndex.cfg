SPECIFICATION FairSpec
CONSTANTS
    p1 = p1
    p2 = p2
    c1 = c1
    c2 = c2
    main = main
    b1 = b1
    b2 = b2
    Unkeyed = Unkeyed
    None = None
    Format = "tar-layers"
    Callers = {p1, p2}
    Commits = {c1, c2}
    Refs = {main}
    Blobs = {b1, b2}
    Versions <- MCVersions
    Puts = 2
    BlobPuts = 2
    Deletes = 1
    Failures = 1
    Crashes = 0
    Limit <- MCLimit
CHECK_DEADLOCK FALSE
INVARIANTS
    PublishedServable
    RefResolves
    AckedPromoted
PROPERTIES
    CallsReturn
