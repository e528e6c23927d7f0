SPECIFICATION FairSpec
CONSTANTS
    Servers = {s1}
    Mode = "fl"
    Daemon = "logic"
    MaxInbox = 2
    MaxFaults = 1
    s1 = s1
PROPERTY DeadGoesDown
