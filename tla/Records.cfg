CONSTANTS
    Threads = {"t1", "t2"}
    NameOrder <- MCNameOrder
    Unsplit = {"u.u"}
    MaxDepth = 8
    Digits = {"3", "7"}
    Floats = {"2.5"}
    RecordKeys = {"k", "values"}
    MetadataKeys = {"facets"}
    Sent <- MCSent
    Setups <- MCSetups
    Calls = {c1, c2}
SPECIFICATION BothSpec
SYMMETRY Symmetric
INVARIANTS OwnRecords NothingLost ColumnsDistinct ErrorsJustified
PROPERTIES  KeyedAgree
