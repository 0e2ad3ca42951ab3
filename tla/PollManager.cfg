SPECIFICATION FairSpec
CONSTANTS
    Node = {n1, n2}
    Group = {g1}
    MaxTasks = 2
    MaxBackground = 2
    MaxPerNode = 1
    MaxOnAir = 1
    MaxGroupOnAir = 3
    IdPool = 10
    Attr = {1}
    GoesAway = {n1}
    ApiBound = 1
INVARIANTS TypeOK StoreAfterAdd
PROPERTIES UnicastsLeave PollingGoesOn
CHECK_DEADLOCK FALSE
