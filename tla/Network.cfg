SPECIFICATION FairSpec
CONSTANTS
    Channel = {11, 12}
    NETWORK_ATTEMPS = 2
    MaxRetries = 2
    FirstScans = 1
    ConfirmBound = 1
INVARIANTS NeverStuck
CONSTANT RequestBound = 2
PROPERTIES ChangeEnds TouchlinkEnds
CHECK_DEADLOCK FALSE
