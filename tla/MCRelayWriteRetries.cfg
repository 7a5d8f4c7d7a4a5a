SPECIFICATION Spec
CONSTANTS
    k1 = k1
    k2 = k2
    x = x
    y = y
    a = a
    b = b
    None = None
    Clients = {k1, k2}
    Paths = {x, y}
    Blobs = {a, b}
    Edits <- MCEdits
    Creates = 1
    CommitCalls = 2
    Deletes = 1
    Uploads = 1
    Losses = 1
    Failures = 1
    Crashes = 1
    Limit <- MCLimit
    MaxUpsets = 2
CHECK_DEADLOCK FALSE
SYMMETRY MCSymmetry
INVARIANTS
    HeadServableUndeleted
    BranchKeepsAcked
    RetryContains
    CommitsInOrder
    LockByCommit
