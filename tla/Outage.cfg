SPECIFICATION OutageSpec
CONSTANTS
    None = None
    Addresses <- MCAddresses
    Groups <- MCGroups
    GroupsOf <- MCGroupsOf
    Statuses <- MCStatuses
    Pages <- MCPages
    DayLength = 2
    MaxTime = 2
    Copies = 2
    MaxResends = 1
    MaxMoves = 1
    LastTick = 5
    ReaderFaults = 1
    Skews <- BehindOrAhead
    DayUnits = 4
    Evening <- EveningHours
    Interval = 3
    EveningInterval = 1
    BlockedPause = 3
    BrowserEvery = 3
    RefreshEvery = 1
    StaleAfter = 3
    Retries = 3
    MaxChecks = 3
    StreetLists = {a, b}
    NoList = NoList
    DayHours = 6
    JumpHour = 2
    StandardTime = 4
    ClockSlots <- AboutTheJump
    Hours = 2
    NDays = 2
    DayPatterns <- DaysOfTwo
    Users <- EarlyAndLate
    Lead <- LeadOf
    Possible <- PossibleFor
    MaxChanges = 2
    MaxFaults = 2
INVARIANTS TypeOK OnceEach EventsFollowLastApplied NoDoubleBooking PatternsChange
           RefreshServed ReaderHonest Reminded
CHECK_DEADLOCK FALSE
