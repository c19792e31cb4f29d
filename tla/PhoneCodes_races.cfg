\* Two overlapping requests of any kind at small limits, two codes, one midnight and
\* one failing call or dying handler.
CONSTANTS
    Procs = {p1, p2}
    Users = {u1, u2}
    DailyLimit = 1
    MaxAttempts = 2
    RateLimit = 2
    MaxCodes = 2
    MaxEvents = 3
    MaxFaults = 1
    LastDay = 1
    None = None
SPECIFICATION Spec
SYMMETRY Symmetry
INVARIANTS CountersAreExact CooldownSeparates DeliveredCodeLives CodesAreGuarded
CHECK_DEADLOCK FALSE
