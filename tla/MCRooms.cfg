CONSTANTS
    c1 = c1
    c2 = c2
    c3 = c3
    r1 = r1
    r2 = r2
    None = None
    Conns = {c1, c2, c3}
    RoomIds = {r1, r2}
    Seats = {0, 1, 2}
    MAX_SENDERS = 2
    MAX_ROOMS = 1
    MaxFrames = 1
SPECIFICATION FairSpec
INVARIANTS
    RoomsTypeOK
    SeatedIsHeld
    HeardFromItsSeat
    HeldIsInhabited
PROPERTIES
    SeatIsGivenUp
CHECK_DEADLOCK FALSE
