SPECIFICATION Spec
CONSTANTS
    t1 = t1
    f1 = f1
    f2 = f2
    c1 = c1
    c2 = c2
    None = None
    Conns = {c1, c2}
    Tokens = {t1}
    FreeIds = {f1, f2}
    Expires <- MCExpires
    Limit <- MCLimit
    Sizes = {2}
    PERIOD_HOURS = 2
    MaxHour = 2
    MaxUnkind = 2
CHECK_DEADLOCK FALSE
INVARIANTS
    MeterTypeOK
    AllowanceBound
    KillLosesOneInterval
