CONSTANTS
    HEADER_LEN = 2
    TAG_LEN = 1
    RESPONSE_LEN = 3
    MAX_CIPHERTEXT_SIZE = 4
    BUF <- MCBUF
    Scripts <- MCScripts
SPECIFICATION ControlSpec
INVARIANTS
    ControlTypeOK
    PlaintextExact
    FailsForCause
PROPERTIES
    AllDelivered
CHECK_DEADLOCK FALSE
