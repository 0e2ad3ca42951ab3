SPECIFICATION FairSpec
CONSTANTS
    TableSize = 1
    Address = {Self, Other}
    CoreQueue = 2
    Free = Free
    Suffix = {on, bri}
    Readable = {on}
    Local = {on}
    Value = {0, 1}
    Initial = 0
    on = on
    bri = bri
    Puts <- MCPuts
    Defaults <- MCDefaults
    Self = Self
    Other = Other
    MaxUnconfirmed = 0
    PutBound = 1
    FaultBound = 1
    EventBound = 2
INVARIANTS UnconfirmedCounted FinishedIsTrue
PROPERTIES ChangesEnd
CHECK_DEADLOCK FALSE
