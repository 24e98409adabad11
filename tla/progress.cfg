SPECIFICATION FairSpec
CONSTANTS
    Users = {u1}
    Requests = {r1, r2}
    Tokens = {t1, t2}
    Links = {l1}
    Passwords = {p1, p2}
    None = None
    Absent = Absent
    Ops = {"login", "request", "reset", "change"}
    Crashes = FALSE
    MaxClock = 0
    TicksPerSecond = 1
    AccessTTL = 2
    RefreshTTL = 2
    ResetTTL = 2
    Cooldown = 1
    Window = 2
    MaxPerWindow = 2
PROPERTIES
    RequestsFinish
CHECK_DEADLOCK FALSE
