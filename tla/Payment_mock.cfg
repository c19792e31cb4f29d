\* Two orders and two mock callbacks, each of which may name either order and either
\* trade, handled concurrently.
CONSTANTS
    u1 = u1  o1 = o1  o2 = o2
    Users = {u1}
    Orders = {o1, o2}
    Procs = {p1, p2}
    NotifyIds = {}
    MockIds = {m1, m2}
    NoOrder = NoOrder
    None = None
    Requests = {"MockCallback"}
    MaxAttempts = 0
    MaxFaults = 0
    Owner <- OneOwner
    NotifyOrder <- MCNotifyOrder
SYMMETRY OrderSymmetry
VIEW View
SPECIFICATION Spec
INVARIANTS TradeCreditedOnce
CHECK_DEADLOCK FALSE
