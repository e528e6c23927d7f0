SPECIFICATION FairSpec
CONSTANTS
    ana = ana
    bea = bea
    sys = sys
    nobody = nobody
    p1 = p1
    p2 = p2
    None = None
    Users = {ana, bea, sys}
    Strangers = {nobody}
    SystemUser = sys
    Passwords = {p1, p2}
    Password <- UserPasswords
    Requests <- Documented
    AheadRequests <- Mixed
    MaxRequests = 3
    FaultKinds = {"unreachable", "unavailable", "torn", "died"}
    MaxFaults = 2
INVARIANTS TokenForChecked AnswersBelong OneReplyEach RefusedForAReason
PROPERTY AnsweredUnlessCutOff
