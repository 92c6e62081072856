SPECIFICATION FairSpec
CONSTANTS
    t1 = t1
    t2 = t2
    s1 = s1
    s2 = s2
    h1 = h1
    h2 = h2
    None = None
    NoSecret = NoSecret
    Tokens = {t1, t2}
    Home <- MCHome
    Pushers = {"fcm"}
    Secrets = {s1, s2}
    Handlers = {h1, h2}
    MAX_ROWS_PER_TOKEN = 2
    MAX_DEVICES = 3
    MaxRequests = 3
    MaxUnkind = 1
CHECK_DEADLOCK FALSE
INVARIANTS
    WakeTypeOK
    RevokedStaysRevoked
PROPERTIES
    OwnerKeepsTheRow
    ScheduledIsWoken
