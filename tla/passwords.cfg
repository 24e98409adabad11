SPECIFICATION Spec
CONSTANTS
    Users = {u1}
    Requests = {r1, r2}
    Tokens = {t1, t2}
    Links = {l1}
    Passwords = {p1, p2}
    None = None
    Absent = Absent
    Ops = {"login", "refresh", "request", "reset", "change", "set_password", "set_status"}
    Crashes = TRUE
    MaxClock = 1
    TicksPerSecond = 1
    AccessTTL = 2
    RefreshTTL = 1
    ResetTTL = 2
    Cooldown = 1
    Window = 2
    MaxPerWindow = 2
SYMMETRY Interchangeable
INVARIANTS
    HandlerInv
    MailedLinkIsStored
PROPERTIES
    ResetLeavesNoLoginSession
    ResetCutsOffAccess
    OnlyAdminsUnblock
    ChangeCutsOff
CHECK_DEADLOCK FALSE
