\* Two documents after one another, read by every range; the table implements
\* RecordStore.
SPECIFICATION TableSpec
CONSTANTS
    Groups <- DocGroups
    Arity <- DocArity
    Label <- DocLabel
    Values <- MixedValues
    Messages <- GapMessages
    Projections <- RecordProjections
    MaxRecords = 2
    Default = Default
    UIntMod = 16
    EmptyRangeAtEnd = FALSE
INVARIANTS
    RecordBoundaries
    TableInvariant
    ReadersInStep
PROPERTIES
    StoreSpec
CHECK_DEADLOCK FALSE
