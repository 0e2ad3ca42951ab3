SPECIFICATION Spec
CONSTANTS
    Device = {}
    Keypad = {}
    Code = {c1}
    NoCode = NoCode
    RequestMode = {"disarmed", "armed_away"}
    Mask = {}
    DefaultDelay <- MCDelay
    ConfigChange = {}
    Command = {}
    Fault = {}
    MaxLost = 1
    MaxStep = 1
    QueueBound = 2
INVARIANTS AcceptedModeIsSet
