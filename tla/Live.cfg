CONSTANTS
    Tasks = {t1, t2, t3}
    NoTask = NoTask
    Panel = Panel
    Calls = {"command"}
    PanelEdits = 0
    NBlocks = 1
    NWrites = 1
    BackoffInitial = 1
    BackoffMax = 2
    MaxTime = 4
    Profiles = {p1}
    Addresses = {a1, a2}
    NoAddress = NoAddress
    Callers = {c1, c2}
    Boot = Boot
    MaxFailures = 1
    JobIds = {j1, j2}
    Loggers = {l1}
    Bms = {d1}
    Checks = {c1, c2}
    MaxSpells = 2
    AlertFaults = 1
    Gauges = {"heat"}
    Streak <- Streaks
    Handlers = {h1, h2}
    Checkers = {c1, c2}
    MaxSamples = 2
    NoticeFaults = 1
    Temps = {0, 1, 2, 3, 4, 5}
    Offers <- FanChoices
    DefaultFanSettings <- FanDefault
    Steps = 5
    Hysteresis = 2
    FanMaxChanges = 2
    FanMaxFaults = 2
    Chats = {c1, c2}
    Accounts = {u1}
    MaxUpdates = 2
    Codes = {k1}
    MaxUnlinks = 1
    MaxEvenings = 1
    BotFaults = 2
SPECIFICATION LiveSpec
INVARIANT Paced
INVARIANT AlertsPaired
INVARIANT NoticesPaired
INVARIANT BotPromises
PROPERTY ServesInOrder
PROPERTY EveryCallSettles
PROPERTY FlagsClear
PROPERTY FanKept
PROPERTY CaughtUp
CHECK_DEADLOCK FALSE
