SPECIFICATION FairSpec
CONSTANTS
    Section = {groups, lights}
    Devices = {lights}
    Item = {bri}
    Value = {v1, v2}
    Initial = v1
    Imported = Imported
INVARIANTS LossesExplained
PROPERTIES ImportTakesEffect QueuedIsSaved
