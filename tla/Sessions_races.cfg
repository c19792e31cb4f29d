\* One account, three overlapping requests of any kind, two platforms, two passwords,
\* three token pairs: a token, its successor and another platform's.
CONSTANTS
    Procs = {p1, p2, p3}
    Platforms = {web, app}
    Passwords = {w1, w2}
    Roles = {"user"}
    Updates <- MCUpdates
    MaxTokens = 3
    MaxRequests = 3
    None = None
SPECIFICATION Spec
SYMMETRY Symmetry
INVARIANTS OneSuccessor LostSessionsRaced SessionsAreSound BansAreExact
CHECK_DEADLOCK FALSE
