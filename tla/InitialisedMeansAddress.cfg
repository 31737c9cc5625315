SPECIFICATION Spec
CONSTANTS
    RequestAttempts = 2
    ResponseAttempts = 2
    Prompt = TRUE
    MaxInbox = 2
    MaxFailures = 1
    MaxSends = 2
INVARIANTS
    InitialisedMeansAddress
CHECK_DEADLOCK FALSE
