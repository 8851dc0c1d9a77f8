SPECIFICATION Spec
CONSTANTS
    SIZEOF_ENTRY = 1
    SIZEOF_CHUNK = 3
    LOG_ID_MAX = 1
    LOG_ID_SECURITY = 0
    LOGGER_ENTRY_MAX_PAYLOAD = 2
    kLogBufferMinSize = 16
    kLogBufferMaxSize = 20
    kChunkSizeDivisor = 4
    Sizes = {16, 20, 21}
    CompressedSizes = {4}
    ChunkIds = {1, 2, 3, 4, 5, 6, 7}
    Readers = {r1}
    Writers = {w1}
    Messages <- TwoUids
    Requests <- Follow
    MaxSequence = 4
    MaxUidClears = 1
    MaxClears = 0
    MaxSetSizes = 1
    MaxReinits = 0
INVARIANTS
    PositionsAreValid
    RefCountsAreExact
    ContentsAreAvailable
    ListsAreSound
    SearchIsExact
    DeliveredInOrder
    StatsMatchBuffer
    SizeIsBounded
PROPERTIES
    NewEntrySurvives
CHECK_DEADLOCK FALSE
