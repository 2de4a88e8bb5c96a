SPECIFICATION Spec
CONSTANTS
    None = None
    Addresses <- MCAddresses
    Groups <- MCGroups
    GroupsOf <- MCGroupsOf
    Statuses <- MCStatuses
    Pages <- MCPages
    DayLength = 2
    MaxTime = 2
    Copies = 2
    MaxResends = 1
    MaxMoves = 1
PROPERTY OtherDaysKept
CHECK_DEADLOCK FALSE
