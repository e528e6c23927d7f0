SPECIFICATION Spec
CONSTANTS
    Workers = {w1}
    Users = {1, 2, 3, 4}
    Ghosts = {9}
    Requests <- SequentialRequests
    MaxChats = 2
    MaxMessages = 12
    MaxRequests = 4
    MaxFaults = 0
    MAX_CHATS = 1
    MAX_MESSAGES = 4
    Cascade = TRUE
    w1 = w1
INVARIANTS OneAdminBetweenRequests LastIsNewestBetweenRequests
PROPERTIES RemovalByAdmin DeletedWhenOneLeft
