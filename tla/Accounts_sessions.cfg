SPECIFICATION Spec
CONSTANTS
    Sessions = {t1, t2}
    Strings <- MCStrings
    Passwords <- MCPasswords
    Cut <- MCCut
    Rubbish = junk
    Requests <- MCRequests
    SystemRow <- MCSystemRow
    MaxUsers = 3
    MaxRequests = 4
    MaxFaults = 1
    None = None
    t1 = t1
    t2 = t2
    ana = ana
    bea = bea
    sys = sys
    junk = junk
    p1 = p1
    p2 = p2
    long = long
SYMMETRY Symmetry
INVARIANTS TypeOK TokenForChecked DeniedForAReason
CHECK_DEADLOCK FALSE
