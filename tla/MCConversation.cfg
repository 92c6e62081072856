SPECIFICATION Spec
CONSTANTS
    a = a
    b = b
    c = c
    None = None
    Devices = {a, b, c}
    Founders = {a, b}
    AdminLists <- MCAdminLists
    FirstAdmins = {}
    Careless = {b}
    Pictured = {c}
    Hashes = {1, 2}
    TAG_EPOCH_MEMORY = 2
    MaxRestarts = 2
    Person <- MCPerson
    KnocksAt <- MCKnocksAt
CHECK_DEADLOCK FALSE
INVARIANTS
    ConversationTypeOK
    UnlawfulAdmissionIsUnfollowed
    PairConverges
