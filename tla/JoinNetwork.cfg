SPECIFICATION NetSpec
CONSTANTS
    g1 = g1
    g2 = g2
    a1 = a1
    a2 = a2
    LLAddr = {g1, g2}
    IPAddr = {a1, a2}
    Frames <- MCFrames
    address <- MCaddress
    instance <- MCinstance
    UpBound = 2
    DownBound = 1
    DioTimeout = 1
    DaoAckTimeout = 1
INVARIANTS
    NetTypeOK
    RoutesAgree
PROPERTIES
    EventuallyConnected
