\* SQL statements over the tables and columns of the schema.
SPECIFICATION QuerySpec
CONSTANTS
    Workers = {w1, w2}
    Size = 3
    Columns <- ThreeColumns
    Lists <- SomeLists
    Pairs <- FieldPairs
    Lookups <- SomeLookups
    Tables = {"Document", "Item"}
    KnownTables = {"Document"}
    Requested <- SomeColumns
    Predicates <- SomePredicates
    JoinPredicates <- SomeJoinPredicates
    MaxScans = 1
    MaxSelections = 1
INVARIANT
    StatementsAccepted
CHECK_DEADLOCK FALSE
