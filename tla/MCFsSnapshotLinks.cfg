SPECIFICATION Spec
CONSTANTS
    k1 = k1
    k2 = k2
    c1 = c1
    c2 = c2
    x = x
    y = y
    a = a
    b = b
    None = None
    Callers = {k1, k2}
    Commits = {c1, c2}
    Paths = {x, y}
    Blobs = {a, b}
    BlobAt <- MCBlobAt
    Versions <- MCVersions
    Puts = 2
    BlobPuts = 2
    Failures = 1
    Crashes = 1
    Limit <- MCLimit
CHECK_DEADLOCK FALSE
SYMMETRY MCSymmetry
INVARIANTS
    SnapshotLinked
    RefStored
