CONSTANTS
    t1 = t1
    t2 = t2
    b1 = b1
    c1 = c1
    c2 = c2
    Tags = {t1}
    Bodies = {b1}
    Conns = {c1, c2}
    Limits <- OneTier
    MAX_PER_TAG = 1
    MaxArrivals = 1
    MaxNow = 1
    MAX_TAGS_PER_SUBSCRIPTION = 1
    MAX_TAGS_PER_CONNECTION = 1
    WAKE_CAPACITY = 1
SPECIFICATION Spec
PROPERTIES
    RemovedOnReceiptOnly
CHECK_DEADLOCK FALSE
