SPECIFICATION Spec
CONSTANTS
    a = a
    b = b
    c = c
    None = None
    Devices = {a, b, c}
    Founders = {a, b, c}
    AdminLists <- MCNoAdmins
    FirstAdmins = {}
    Careless = {}
    Pictured = {}
    Hashes = {1, 2}
    TAG_EPOCH_MEMORY = 3
    MaxRestarts = 2
    Person <- MCStrangers
    KnocksAt <- MCNoKnock
CHECK_DEADLOCK FALSE
INVARIANT Converges
