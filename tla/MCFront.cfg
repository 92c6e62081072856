CONSTANTS
    p1 = p1
    p2 = p2
    s1 = s1
    u1 = u1
    Phones = {p1, p2}
    Sids = {s1}
    Upstreams = {u1}
    CHANNEL = 1
    MAX_SESSIONS = 1
    MaxIds = 2
    MaxTraffic = 3
    MaxLosses = 1
SPECIFICATION FairSpec
INVARIANTS
    FrontTypeOK
    NoCrossing
    EndedPhoneHasNoRoute
PROPERTIES
    SlotReconnects
CHECK_DEADLOCK FALSE
