CONSTANTS
    FRAME_HEADER_LEN = 2
    CONTROL_FRAME_MAX = 2
    ACKS = 2
    INITIAL_WINDOW = 9
    CONNECTION_WINDOW = 4
    MAP_LEN = 2
    NETMAP_MAX = 1
    MapStarts <- MCMapStarts
    Frames <- MCFrames
    MAX_FRAMES = 3
SPECIFICATION Spec
INVARIANTS
    BodyExact
    ControlsExact
    NetmapsExact
    CreditConserved
    EndsComplete
    PingsAnswered
CHECK_DEADLOCK FALSE
