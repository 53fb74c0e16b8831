\* Every field read back, of documents with gaps.
SPECIFICATION TableSpec
CONSTANTS
    Groups <- DocGroups
    Arity <- DocArity
    Label <- DocLabel
    Values <- MixedValues
    Messages <- MixedMessages
    Projections <- FullProjections
    MaxRecords = 1
    Default = Default
    UIntMod = 16
    EmptyRangeAtEnd = FALSE
INVARIANT
    RoundTrip
CHECK_DEADLOCK FALSE
