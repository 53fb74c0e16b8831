\* A deeper schema, one message, every projection in schema order.
SPECIFICATION TableSpec
CONSTANTS
    Groups <- DeepGroups
    Arity <- DeepArity
    Label <- DeepLabel
    Values <- DeepValues
    Messages <- DeepMessages
    Projections <- DeepProjections
    MaxRecords = 1
    Default = Default
    UIntMod = 16
    EmptyRangeAtEnd = FALSE
INVARIANTS
    StripingInvariant
    RoundTripIffSeparable
CHECK_DEADLOCK FALSE
