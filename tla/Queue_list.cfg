SPECIFICATION FairSpec
CONSTANTS
    Handles = {q1, q2}
    Addresses = {a1, a2, a3, a4}
    Values = {x, y}
    NULL = NULL
    Lost = Lost
    MaxSize = 3
    FailOps = {"create", "enqueue", "reverse", "copy"}
    MaxFaults = 1
    q1 = q1
    q2 = q2
    a1 = a1
    a2 = a2
    a3 = a3
    a4 = a4
    x = x
    y = y
INVARIANTS TypeOK HeapIsList NoLeak
PROPERTIES ImplementsFifo CallsReturn
