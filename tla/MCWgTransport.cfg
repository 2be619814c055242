CONSTANTS
    WINDOW_BITS = 3
    REJECT_AFTER_MESSAGES = 8
    Counters <- MCCounters
SPECIFICATION SessionSpec
INVARIANTS
    SessionTypeOK
    WindowExact
    NoReplay
PROPERTIES
    ImplementsFilter
