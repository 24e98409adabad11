SPECIFICATION Spec
CONSTANTS
    Users = {u1}
    Requests = {r1}
    Tokens = {t1}
    Links = {l1}
    Passwords = {p1, p2}
    None = None
    Absent = Absent
    Ops = {"login", "set_password"}
    Crashes = TRUE
    MaxClock = 1
    TicksPerSecond = 1
    AccessTTL = 2
    RefreshTTL = 2
    ResetTTL = 2
    Cooldown = 1
    Window = 2
    MaxPerWindow = 2
SYMMETRY Interchangeable
PROPERTIES
    PasswordChangeCutsOffAccess
CHECK_DEADLOCK FALSE
