\* Plans of up to three scans; those without a join are run, by two threads.
SPECIFICATION QuerySpec
CONSTANTS
    Workers = {w1, w2}
    Size = 3
    Columns <- ThreeColumns
    Lists <- SomeLists
    Pairs <- FieldPairs
    Lookups <- SomeLookups
    Tables = {"Document", "Item"}
    KnownTables = {"Document"}
    Requested <- SomeColumns
    Predicates <- SomePredicates
    JoinPredicates <- SomeJoinPredicates
    MaxScans = 3
    MaxSelections = 1
INVARIANTS
    ScanTypeOK
    LinesWhole
    EachRecordOnce
    EachFieldFromOneScan
    FieldsDelivered
    HashTablesInOrder
PROPERTIES
    RacesOnlyWhenCold
    ScanEnds
CHECK_DEADLOCK FALSE
