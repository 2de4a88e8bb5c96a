CONSTANTS
    Profiles = {p1, p2}
    Addresses = {a1, a2}
    NoAddress = NoAddress
    Callers = {c1, c2}
    Boot = Boot
    MaxFailures = 0
    JobIds = {j1, j2}
SPECIFICATION PollingSpec
INVARIANT QuietMeansSynced
CHECK_DEADLOCK FALSE
