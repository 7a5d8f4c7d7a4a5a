SPECIFICATION Spec
CONSTANTS
    r1 = r1
    r2 = r2
    t1 = t1
    t2 = t2
    init = init
    c1 = c1
    c2 = c2
    b1 = b1
    b2 = b2
    None = None
    Repos = {r1}
    Replicas <- OneReplica
    Commits <- OneCommit
    InitCommit = init
    Blobs = {b1, b2}
    FilesOf <- MCFilesOf
    Workers = 2
    MaxJobs = 3
    Writes = 2
    Deletes = 1
    Failures = 1
    IOErrors = 1
    Crashes = 1
    Limit <- MCLimit
INVARIANTS
    TypeOK
    NoStrandedJob
    ReplicaComplete
    Converged
PROPERTIES
    AtLeastOnce
    CreationOrder
