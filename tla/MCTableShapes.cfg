\* One document of every shape, read with every projection in schema order.
SPECIFICATION TableSpec
CONSTANTS
    Groups <- DocGroups
    Arity <- DocArity
    Label <- DocLabel
    Values <- NameValues
    Messages <- NameMessages
    Projections <- DocProjections
    MaxRecords = 1
    Default = Default
    UIntMod = 16
    EmptyRangeAtEnd = FALSE
INVARIANTS
    TableTypeOK
    AssertionsHold
    RoundTripIffSeparable
CHECK_DEADLOCK FALSE
