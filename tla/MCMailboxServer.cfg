CONSTANTS
    t1 = t1
    t2 = t2
    b1 = b1
    c1 = c1
    c2 = c2
    Tags = {t1, t2}
    Bodies = {b1}
    Conns = {c1, c2}
    Limits <- OneTier
    MAX_PER_TAG = 1
    MaxArrivals = 2
    MaxNow = 0
    MAX_TAGS_PER_SUBSCRIPTION = 2
    MAX_TAGS_PER_CONNECTION = 2
    WAKE_CAPACITY = 1
SPECIFICATION Spec
INVARIANTS
    TypeOK
    ListeningBounded
    OutboxUnderListenedTag
PROPERTIES
    RemovalHasACause
SYMMETRY Interchangeable
CHECK_DEADLOCK FALSE
