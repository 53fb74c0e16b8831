\* Every document with at most two of each repeated field, and pairs of documents
\* that may lack required fields, loaded from JSON.
SPECIFICATION LoadSpec
CONSTANTS
    Groups <- DocGroups
    Arity <- DocArity
    Label <- DocLabel
    Values <- DocValues
    Messages <- DocMessages
    Inputs <- DocInputs
    MaxRecords = 2
    Default = Default
    UIntMod = 16
INVARIANTS
    NullsAreTold
    ColumnsFollowDefinition
    LoadedInOrder
    RequiredFieldsSet
CHECK_DEADLOCK FALSE
