SPECIFICATION FairSpec
CONSTANTS
    RequestAttempts = 2
    ResponseAttempts = 2
    Prompt = FALSE
    MaxInbox = 2
    MaxFailures = 1
    MaxSends = 2
INVARIANTS
    TypeOK
    AddressUnlessRepeated
    StatusIsOwn
    OwnFailuresCounted
PROPERTIES
    CallsReturn
CHECK_DEADLOCK FALSE
