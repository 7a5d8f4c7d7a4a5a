SPECIFICATION Spec
CONSTANTS
    k1 = k1
    k2 = k2
    r1 = r1
    a = a
    c1 = c1
    None = None
    Marker = Marker
    Ref = Ref
    Callers = {k1, k2}
    Readers = {r1}
    Commits = {c1}
    Blobs = {a}
    Order <- MCOrder
    PageSize = 2
    BlobSize = 2
    Creates = 1
    Deletes = 1
    Puts = 2
    BlobPuts = 2
    Seeks = 1
    Failures = 1
    Limit <- MCLimit
CHECK_DEADLOCK FALSE
SYMMETRY MCSymmetry
INVARIANTS
    ReadersFindManifest
    BlobsGood
    DeletedGone
    ReadExact
