CONSTANTS
    REKEY_AFTER_TIME = 2
    REJECT_AFTER_TIME = 4
    REKEY_TIMEOUT = 2
    REKEY_ATTEMPT_TIME = 5
    KEEPALIVE_TIMEOUT = 1
    REKEY_AFTER_MESSAGES = 1
    REJECT_AFTER_MESSAGES = 2
    Indices = {i1, i2, i3}
    None = None
    MAX_TIME = 6
SYMMETRY Symmetry
SPECIFICATION Spec
INVARIANTS
    KeyLifetime
    AttemptsBounded
    QuietOnlyAfterWindow
PROPERTIES
    RekeyOverlap
