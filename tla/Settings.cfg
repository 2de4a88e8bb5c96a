CONSTANTS
    Ops = {o1, o2, o3}
    None = None
    Values = {1, 2, 3}
    Changes <- OneChange
    Garbled = {{}}
    PanelEdits = 1
    MaxWrites = 2
    Numbers = {1, 2, 3}
    FormReads = 1
    FormWrites = 1
    FormEdits = 2
    FormOthers = 1
    Names = {1, 2, 3}
    Addresses = {0, 1, 2, 3, 4}
    WordSize = 4
    Scales = {1, 2}
    WriteValues <- EdgeValues
    MaxEncodes = 2
    MAX_BLOCK = 3
    MAX_BRIDGED_GAP = 1
    Maps <- LayoutsAndTypes
    Sockets = {c1}
    BankSize = 2
    WireValues = {0, 1}
    Writable = {0}
    Unset = {1}
    MaxCount = 2
    MaxAsked = 3
    MaxAltered = 1
    MaxCut = 1
    Nobody = Nobody
SPECIFICATION SettingsSpec
SYMMETRY OpSymmetry
INVARIANT TypeOK
INVARIANT ReadBackFollowsWrite
INVARIANT HistoryEndsWithLastRead
INVARIANT EnteredIsWritten
PROPERTY ReadsInTurn
CHECK_DEADLOCK FALSE
