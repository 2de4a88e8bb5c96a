CONSTANTS
    Users = {u1, u2}
    Houses = {h1}
    Invites = {i1}
    Inverters = {p1}
    None = None
    Requests = {q1, q2}
    MaxCalls = 2
    RegistrationOpen = FALSE
SPECIFICATION Spec
CHECK_DEADLOCK FALSE
INVARIANT AlwaysAnAdmin
