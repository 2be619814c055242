CONSTANTS
    Peers = {p1, p2}
    None = None
    INDEX_SPACE = 6
    CLAMP = 4
    NONCE_SPACE = 2
    OUT_SLOTS = 1
    QUEUE = 1
    MAX_INITIATIONS = 1
    MAX_RESPONSES = 3
    MAX_PACKETS = 1
    MAX_ENCRYPTIONS = 2
SYMMETRY Symmetry
SPECIFICATION Spec
INVARIANTS
    NonceUnique
    DeliveredOnce
