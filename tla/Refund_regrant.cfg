\* A paid order whose grant failed is refunded, then regranted; no failures.
CONSTANTS
    u1 = u1  o1 = o1
    Users = {u1}
    Orders = {o1}
    Procs = {p1}
    NotifyIds = {}
    MockIds = {}
    NoOrder = NoOrder
    None = None
    Requests = {"PayAlipay", "Detect", "Regrant"}
    MaxAttempts = 1
    MaxFaults = 0
    Refunds = {r1}
    RProcs = {q1}
    RefundRequests = {"RefundOrder", "ApproveRefund", "RejectRefund"}
    Owner <- OneOwner
    NotifyOrder <- MCNotifyOrder
    Amount <- MCAmount
SYMMETRY Symmetry
SPECIFICATION RefundSpec
PROPERTIES NoGrantAfterRefund
CHECK_DEADLOCK FALSE
