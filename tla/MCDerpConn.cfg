CONSTANTS
    HEADER_LEN = 2
    CONTROL_FRAME_MAX = 1
    MAX_FRAME_LEN = 3
    ASSEMBLED = 2
    KEY_LEN = 1
    OUT_SLOTS = 2
    Frames <- MCFrames
    MAX_FRAMES = 5
    MAX_QUEUED = 2
SPECIFICATION Spec
INVARIANTS
    CancelSafe
    RepliesNotStarved
CHECK_DEADLOCK FALSE
