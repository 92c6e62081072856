CONSTANTS
    a1 = a1
    a2 = a2
    a3 = a3
    Callers = {a1, a2, a3}
    Exempt = {a3}
    CONNECTIONS = 2
    BURST = 3
    COST = 2
    TOTAL = 3
    FORGET_AFTER = 4
    SKEW = 1
    SWEEP_OVER = 1
    MaxNow = 5
    MaxAdmitted = 3
    MaxReplayed = 1
SPECIFICATION Spec
INVARIANTS
    AdmissionTypeOK
    OpenIsCounted
    WithinLimits
    RateBounded
SYMMETRY Interchangeable
CHECK_DEADLOCK FALSE
