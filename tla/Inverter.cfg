CONSTANTS
    Profiles = {p1, p2}
    Addresses = {a1, a2}
    NoAddress = NoAddress
    Callers = {t1, t2}
    Boot = Boot
    MaxFailures = 1
    JobIds = {j1, j2, j3}
    Tasks = {t1, t2}
    NoTask = NoTask
    Panel = Panel
    Calls = {"read", "write", "command", "probe"}
    PanelEdits = 1
    NBlocks = 2
    NWrites = 2
    BackoffInitial = 1
    BackoffMax = 2
    MaxTime = 4
SPECIFICATION InverterSpec
SYMMETRY InverterSymmetry
INVARIANT TypeOK
INVARIANT RepliesMatch
INVARIANT ConfirmedHeld
INVARIANT StatusHonest
INVARIANT PollingTypeOK
INVARIANT OneProfilePerLogger
INVARIANT FlagHasPoll
INVARIANT SyncRepairs
CHECK_DEADLOCK FALSE
