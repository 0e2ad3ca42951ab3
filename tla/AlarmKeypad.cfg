SPECIFICATION FairSpec
CONSTANTS
    Device = {k1}
    Keypad = {k1}
    Code = {c1}
    NoCode = NoCode
    RequestMode = {"disarmed", "armed_night"}
    Mask <- MCNight
    DefaultDelay <- MCDelay
    ConfigChange = {}
    Command = {4}
    Fault = {}
    MaxLost = 1
    MaxStep = 2
    QueueBound = 2
INVARIANTS KeypadShowsPanel
PROPERTIES ModeEventuallyApplied ReportRaisesAlarm DisarmCompletes DelaysEnd
