\* Schema files of up to two tables, and clients of one of them.
SPECIFICATION RowSpec
CONSTANTS
    Item = Item
    Stock = Stock
    a = a
    b = b
    TableIds = {Item, Stock}
    ColumnIds = {a, b}
    ColumnLists <- SomeColumns
    KeyLists <- SomeKeys
    MaxTables = 2
    MaxIndexes = 2
    Data = {0, 1}
    MaxTuples = 3
    MaxMisuse = 1
    SizeMod = 4
INVARIANTS
    RowTypeOK
    FreeSlotsFound
    SizeExact
    EntriesResolve
    EveryTupleFound
    IndexesResolve
PROPERTIES
    NoSlotWasted
    RelationSpec
CHECK_DEADLOCK FALSE
