\* Two nodes; built with different compression contexts.
CONSTANTS
    a = "macA"
    b = "macB"
    ShortIid <- MCShortIid
    Group8 <- MCGroup8
    Group32 <- MCGroup32
    Group48 <- MCGroup48
    AtPointer = "05:3c:macA"
    Contexts <- MCContexts
    Traffic <- MCTraffic
SPECIFICATION Spec
INVARIANTS TypeOK BufferHolds
PROPERTIES RoundTrip DeliveredWasSent
