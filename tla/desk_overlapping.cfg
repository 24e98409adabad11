SPECIFICATION Spec
CONSTANTS
    Tickets = {k1, k2}
    Agents = {a1}
    Files = {f1}
    Ratings = {1, 2}
    Requests = {r1, r2}
    None = None
    Absent = Absent
    Ops = {"create", "raise", "reply", "note", "assign", "status", "escalate", "close", "reopen", "merge", "feedback", "upload", "unfile", "delete", "restore"}
    Crashes = TRUE
    MaxClock = 0
    MaxCalls = 5
    MaxAttachments = 1
    ReopenDays = 0
SYMMETRY Interchangeable
INVARIANTS
    DeskInv
    NumberIsFree
    NoReplyUncounted
    EscalatedIsFlagged
    
CHECK_DEADLOCK FALSE
