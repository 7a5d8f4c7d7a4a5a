SPECIFICATION FairSpec
CONSTANTS
    t1 = t1
    NoToken = NoToken
    N = 2
    Tokens = {t1}
    Uploads = 1
    Downloads = 0
    Slots <- MCSlots
    TTL = 1
    TokenTTL = 1
    DataURLTTL = 1
    MaxEntries = 0
    MaxTime = 4
    Failures = 1
    Leaves = 1
    Revocations = 1
    Limit <- MCLimit
    MaxUpsets = 2
CHECK_DEADLOCK FALSE
INVARIANTS
    AccessEnds
    CacheBounded
    SlotsHeld
PROPERTIES
    RequestsEnd
