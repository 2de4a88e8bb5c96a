CONSTANTS
    Ops = {o1, o2}
    None = None
    Values = {1, 2, 3}
    Changes <- AnyChange
    Garbled = {{}, {1}}
    PanelEdits = 0
    MaxWrites = 2
SPECIFICATION Spec
INVARIANT ConcurrentWritesKeepRules
CHECK_DEADLOCK FALSE
