\* Two documents, read with the two fields of Language only.
SPECIFICATION TableSpec
CONSTANTS
    Groups <- DocGroups
    Arity <- DocArity
    Label <- DocLabel
    Values <- MixedValues
    Messages <- MixedMessages
    Projections <- LanguageProjections
    MaxRecords = 2
    Default = Default
    UIntMod = 16
    EmptyRangeAtEnd = FALSE
INVARIANT
    NoForeignValues
CHECK_DEADLOCK FALSE
