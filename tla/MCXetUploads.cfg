SPECIFICATION Spec
CONSTANTS
    c1 = c1
    c2 = c2
    ca = ca
    cb = cb
    cc = cc
    x1 = x1
    x2 = x2
    fa = fa
    fb = fb
    fe = fe
    s1 = s1
    s2 = s2
    None = None
    Absent = Absent
    Chunks = {ca, cb, cc}
    Xorbs = {x1, x2}
    Content <- MCContent
    Size <- MCSize
    Packed <- MCPacked
    Clients = {c1, c2}
    Files = {fa, fb, fe}
    FileChunks <- MCFileChunks
    Shards = {s1, s2}
    ShardFiles <- MCShardFiles
    ShardXorbs <- MCShardXorbs
    Eligible = {ca, cc}
    XorbPuts = 2
    ShardPuts = 2
    Failures = 1
    Crashes = 1
    Limit <- MCLimit
CHECK_DEADLOCK FALSE
INVARIANTS
    Advertised
    RangeExact
    PointerUsable
    AckedMaterialised
PROPERTIES
    UploadsEnd
