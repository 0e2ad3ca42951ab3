SPECIFICATION FairSpec
CONSTANTS
    Binding = {"u", "v", "g"}
    reporting <- MCReporting
    GroupBinding = {"g"}
    Ddfs <- MCDdfs
    Group = {"1"}
    MaxRecords = 2
    PageSize = 1
    ChangeBound = 1
    FaultBound = 2
INVARIANTS BindingGoesOn IteratorsInRange
PROPERTIES BindingsGetSet
