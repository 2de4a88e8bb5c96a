CONSTANTS
    Users = {u1, u2, u3}
    Houses = {h1, h2}
    Invites = {i1}
    Inverters = {p1}
    None = None
    Requests = {q1, q2}
    MaxCalls = 2
    RegistrationOpen = FALSE
    Tabs = {t1, t2}
    Browsers = {b1}
    BrowserOf <- OneBrowser
    MaxTokens = 3
    MaxSends = 2
    Keys = {k1, k2}
    Standings <- TwoStandings
    MaxVersions = 2
    MaxMoves = 1
    MaxRights = 1
    MaxRequests = 2
    Alerts = {a1}
    Leads = {1, 15, 500}
    ValidLeads = {1, 15}
    MaxChoices = 2
SPECIFICATION PeopleSpec
SYMMETRY HouseholdSymmetry
INVARIANT TypeOK
INVARIANT SingleUse
INVARIANT KeptInTurn
INVARIANT SessionsKept
INVARIANT PagesHonest
CHECK_DEADLOCK FALSE
