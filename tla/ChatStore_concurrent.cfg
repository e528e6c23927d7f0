SPECIFICATION Spec
CONSTANTS
    Workers = {w1, w2}
    Users = {1, 2, 3}
    Ghosts = {9}
    Requests <- ConcurrentRequests
    MaxChats = 1
    MaxMessages = 8
    MaxRequests = 3
    MaxFaults = 1
    MAX_CHATS = 1
    MAX_MESSAGES = 8
    Cascade = TRUE
    w1 = w1
    w2 = w2
SYMMETRY Symmetry
INVARIANTS TypeOK LastRefersToOwnMessage NoOrphans AckedMessageStored
PROPERTIES DeletedForever ImplementsTables
