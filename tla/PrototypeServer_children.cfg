SPECIFICATION FairSpec
CONSTANTS
    Clients = {c1, c2, c3}
    MaxFd = 6
    Garbage <- MCGarbage
    MaxFaults = 1
    None = None
    c1 = c1
    c2 = c2
    c3 = c3
INVARIANT AnswerIsOwn
PROPERTY EndsUnlessStalled
CHECK_DEADLOCK FALSE
