SPECIFICATION FairSpec
CONSTANTS
    Workers = {w1, w2}
    Users = {1, 2, 3}
    Ghosts = {}
    Requests <- LivenessRequests
    MaxChats = 1
    MaxMessages = 8
    MaxRequests = 2
    MaxFaults = 1
    MAX_CHATS = 1
    MAX_MESSAGES = 8
    Cascade = FALSE
    w1 = w1
    w2 = w2
PROPERTY EveryChildExits
