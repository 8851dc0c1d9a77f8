SPECIFICATION Spec
CONSTANTS
    SIZEOF_ENTRY = 1
    SIZEOF_CHUNK = 3
    LOG_ID_MAX = 1
    LOG_ID_SECURITY = 0
    LOGGER_ENTRY_MAX_PAYLOAD = 2
    kLogBufferMinSize = 16
    kLogBufferMaxSize = 20
    kChunkSizeDivisor = 4
    Sizes = {16}
    CompressedSizes = {3}
    ChunkIds = {1, 2, 3, 4, 5, 6, 7}
    Readers = {r1}
    Writers = {w1, w2}
    Messages <- OneMessage
    Requests <- Follow
    MaxSequence = 3
    MaxUidClears = 0
    MaxClears = 0
    MaxSetSizes = 0
    MaxReinits = 0
INVARIANTS
    NoGap
CHECK_DEADLOCK FALSE
