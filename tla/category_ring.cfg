CONSTANTS
    None = None
    r1 = r1
    Requests = {r1}
    MaxCalls = 5
    Loads <- InTurn
    Types = {t1}
    Cats = {c1, c2, c3, c4}
    MaxDepth = 3
SPECIFICATION TreeSpec
SYMMETRY Interchangeable
INVARIANTS
    NeverItsOwnAncestor
CHECK_DEADLOCK FALSE
