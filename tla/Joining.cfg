SPECIFICATION FairSpec
CONSTANTS
    SendInterval = 2
    Slack = 1
    Durations = {0, 4}
    AutoOff = TRUE
    Searches = {lights}
    EventBound = 1
    d1 = d1
    d2 = d2
    Devices <- MCDevices
    Sleepers = {d1}
    JoinLinger = 1
    NoDevice = NoDevice
    RequestBound = 3
INVARIANTS RoutersStayOpen
PROPERTIES JoiningEnds EveryDevicePolled
