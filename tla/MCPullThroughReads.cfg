SPECIFICATION FairSpec
CONSTANTS
    q1 = q1
    q2 = q2
    q3 = q3
    c1 = c1
    c2 = c2
    x = x
    y = y
    a = a
    b = b
    d = d
    None = None
    Main = Main
    Requests = {q1, q2}
    Commits = {c1, c2}
    Paths = {x, y}
    Contents = {a, b, d}
    ContentAt <- MCContentAt
    Identity <- MCIdentity
    Listed <- MCListed
    Failures = 1
    Pushes = 1
    Crashes = 1
    Limit <- MCLimit
    MaxUpsets = 2
CHECK_DEADLOCK FALSE
INVARIANTS
    KeyedBySha256
    RekeyedPresent
    SoloServed
    FlightsLed
PROPERTIES
    RequestsEnd
