SPECIFICATION Spec
CONSTANTS
    ClockModulus = 16
    ByteBase = 2
    DATA_SEND_PERIOD = 5
    MaxStep = 3
    Requests <- MCRequests
INVARIANTS
    TypeOK
    RequestSoon
    RequestDecodes
PROPERTIES
    SendsApart
