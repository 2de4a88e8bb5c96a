CONSTANTS
    Blocks = {b1, b2}
    None = None
    MaxPlug = 1
    HeldMax = 2
    QueueDepth = 1
    Clients = {c1, c2}
    MaxAsks = 2
    MaxOutages = 1
    MaxExpiries = 1
    MaxSessions = 2
    FirstInfo = 2
    MaxBackoff = 4
    Devices = {d1}
    Nothing = Nothing
    MaxTime = 6
    Skews <- InTimeOrAhead
    MaxQueue = 2
    StoreInterval = 2
    MaxFuture = 1
    MaxAge = 2
    HourLength = 2
    MaxFaults = 1
    Bytes = 3
    BmsLength = 4
    MaxStream = 7
    MaxChunk = 2
    Callers = {here, elsewhere}
    MaxCalls = 2
    MaxFrames = 2
    MaxTrouble = 1
    From = 1
    To = 3
    Batch = 2
    MaxRows = 4
    MaxSetBacks = 1
    MaxRecords = 3
    MaxStarts = 2
    MaxRecent = 2
    MaxSlots = 2
    MaxUpsets = 1
SPECIFICATION DevicesSpec
INVARIANT DevicesTypeOK
INVARIANT EachGetsItsOwn
INVARIANT BankFollowsWrites
INVARIANT ReadingsKept
PROPERTY DevicesSettle
CHECK_DEADLOCK FALSE
