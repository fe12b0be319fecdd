SPECIFICATION Spec
CONSTANTS
    Keys <- MCKeys
    RowKey = "id"
    BadNames = {"a b"}
    Reserved = {"seq", "_uuid"}
    Header = {"seq", "_uuid"}
    Versions = {v1_0_0, v1_1_0}
    Exports <- MCExports
    Changes <- MCChanges
    MaxDay = 1
    None = None
INVARIANTS
    RowsFit
    ColumnsCreate
    RerunIsNoOp
    PinnedStays
