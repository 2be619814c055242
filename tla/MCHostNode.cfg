CONSTANTS
    Peers = {p1, p2}
    None = None
    Netmaps <- MCNetmaps
    INDEX_SPACE = 3
    LINK = 1
    MAX_TIMESTAMP = 2
    MAX_RESPONSES = 2
    MAX_PACKETS = 1
    MAX_ENCRYPTIONS = 2
SYMMETRY Symmetry
SPECIFICATION Spec
INVARIANTS
    NonceUnique
    StackHasSession
    NewestInitiation
 
