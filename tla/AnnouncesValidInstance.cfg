SPECIFICATION Spec
CONSTANTS
    g1 = g1
    g2 = g2
    a1 = a1
    a2 = a2
    LLAddr = {g1, g2}
    IPAddr = {a1, a2}
    Frames <- MCFrames
    DioTimeout = 2
    DaoAckTimeout = 2
INVARIANT
    AnnouncesValidInstance
