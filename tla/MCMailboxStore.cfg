CONSTANTS
    t1 = t1
    t2 = t2
    b1 = b1
    b2 = b2
    Tags = {t1, t2}
    Bodies = {b1}
    Limits <- MCLimits
    MAX_PER_TAG = 2
    MaxArrivals = 3
    MaxNow = 2
SPECIFICATION StoreSpec
INVARIANTS
    StoreTypeOK
    ServedUnexpired
PROPERTIES
    DisplacesOldest
CHECK_DEADLOCK FALSE
