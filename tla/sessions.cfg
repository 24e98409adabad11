SPECIFICATION Spec
CONSTANTS
    Users = {u1}
    Requests = {r1, r2}
    Tokens = {t1, t2, t3}
    Links = {l1}
    Passwords = {p1, p2}
    None = None
    Absent = Absent
    Ops = {"login", "refresh", "logout", "logout_all"}
    Crashes = TRUE
    MaxClock = 1
    TicksPerSecond = 1
    AccessTTL = 2
    RefreshTTL = 1
    ResetTTL = 2
    Cooldown = 1
    Window = 2
    MaxPerWindow = 2
SYMMETRY Interchangeable
INVARIANTS
    RenewedParentIsRetired
PROPERTIES
    RevocationIsFinal
    
    KeepsLedger
CHECK_DEADLOCK FALSE
