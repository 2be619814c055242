CONSTANTS
    RX = 5
    TX = 3
    CHUNK = 2
    HELD = 2
    GREETING_LEN = 2
    REQUEST_LEN = 2
    MAX_CONNECTIONS = 2
    MAX_CLIENT = 3
    MAX_LAN = 4
SPECIFICATION Spec
INVARIANTS
    RequestComplete
    ResponseComplete
PROPERTIES
    ImplementsPipe
    Flows
CHECK_DEADLOCK FALSE
