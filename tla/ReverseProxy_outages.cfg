SPECIFICATION ProxyFairSpec
CONSTANTS
    Servers = {s1}
    Order <- MCOrderOne
    Mode = "ld"
    Daemon = "logic"
    MaxInbox = 2
    MaxFaults = 4
    Conns = {c1}
    MaxReverse = 1
    None = None
    s1 = s1
    s2 = s2
    c1 = c1
PROPERTIES LiveComesUp DeadGoesDown LiveStaysUp EveryConnectionServed
INVARIANTS ProxyTypeOK DeadNotChosen
