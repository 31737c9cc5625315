SPECIFICATION Spec
CONSTANTS
    RequestAttempts = 2
    ResponseAttempts = 2
    Prompt = TRUE
    MaxInbox = 2
    MaxFailures = 1
    MaxSends = 1
INVARIANTS
    CountsTransmissions
CHECK_DEADLOCK FALSE
