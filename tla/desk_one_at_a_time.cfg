SPECIFICATION Spec
CONSTANTS
    Tickets = {k1, k2}
    Agents = {a1}
    Files = {f1}
    Ratings = {1}
    Requests = {r1}
    None = None
    Absent = Absent
    Ops = {"create", "raise", "reply", "note", "assign", "status", "escalate", "close", "reopen", "merge", "feedback", "upload", "unfile", "delete", "restore"}
    Crashes = TRUE
    MaxClock = 1
    MaxCalls = 6
    MaxAttachments = 1
    ReopenDays = 0
SYMMETRY Interchangeable
INVARIANTS
    DatesMatchStatus
    MergesEnd
    FilesCounted
PROPERTIES
    KeepsLifecycle
    ClosedLeftOnlyByReopen
CHECK_DEADLOCK FALSE
