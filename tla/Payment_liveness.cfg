\* One order, one notification, two concurrent requests, one failing call or crash.
CONSTANTS
    u1 = u1  o1 = o1  o2 = o2
    Users = {u1}
    Orders = {o1}
    Procs = {p1, p2}
    NotifyIds = {n1}
    MockIds = {}
    NoOrder = NoOrder
    None = None
    Requests = {"PayAlipay", "AlipayCallback", "Detect"}
    MaxAttempts = 1
    MaxFaults = 1
    Owner <- OneOwner
    NotifyOrder <- MCNotifyOrder
SPECIFICATION FairSpec
PROPERTIES PaidTradeSettles
CHECK_DEADLOCK FALSE
