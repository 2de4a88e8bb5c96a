CONSTANTS
    Hours = 2
    NDays = 2
    DayPatterns <- DaysOfTwo
    Users <- EarlyAndLate
    Lead <- LeadOf
    Possible <- PossibleFor
    MaxChanges = 1
    MaxFaults = 1
SPECIFICATION RemindersSpec
INVARIANT RemindersNameTheEnd
CHECK_DEADLOCK FALSE
