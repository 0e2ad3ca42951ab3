SPECIFICATION Spec
CONSTANTS
    Device = {d1}
    Keypad = {}
    Code = {c1}
    NoCode = NoCode
    RequestMode = {"disarmed", "armed_away"}
    Mask <- MCAway
    DefaultDelay <- MCDelay
    ConfigChange <- MCChange
    Command = {}
    Fault = {"statement", "commit", "close"}
    MaxLost = 1
    MaxStep = 2
    QueueBound = 2
INVARIANTS TypeOK MachineConsistent ModePickedUp OnlyLostIsForgotten WebsocketUpToDate
