SPECIFICATION ProxySpec
CONSTANTS
    Servers = {s1, s2}
    Order <- MCOrderTwo
    Mode = "ld"
    Daemon = "data"
    MaxInbox = 1
    MaxFaults = 0
    Conns = {c1, c2}
    MaxReverse = 0
    None = None
    s1 = s1
    s2 = s2
    c1 = c1
    c2 = c2
SYMMETRY Symmetry
INVARIANTS UpIsIdentified UpIsFresh RoundRobin
