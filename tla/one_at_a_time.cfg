SPECIFICATION Spec
CONSTANTS
    Users = {u1}
    Requests = {r1}
    Tokens = {t1, t2, t3}
    Links = {l1, l2, l3}
    Passwords = {p1, p2}
    None = None
    Absent = Absent
    Ops = {"login", "refresh", "logout_all", "request", "reset"}
    Crashes = TRUE
    MaxClock = 2
    TicksPerSecond = 1
    AccessTTL = 2
    RefreshTTL = 2
    ResetTTL = 2
    Cooldown = 1
    Window = 2
    MaxPerWindow = 2
SYMMETRY Interchangeable
INVARIANTS
    RotatesOnce
    LinkWorksOnce
    OneUsableLink
    ThrottleHolds
    SessionsKnowPassword
CHECK_DEADLOCK FALSE
