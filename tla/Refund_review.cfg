\* One Alipay order of two units, three refunds of one or two units, two concurrent
\* refund requests beside one payment request, one failing call or crash.
CONSTANTS
    u1 = u1  o1 = o1
    Users = {u1}
    Orders = {o1}
    Procs = {p1}
    NotifyIds = {}
    MockIds = {}
    NoOrder = NoOrder
    None = None
    Requests = {"PayAlipay", "Detect", "Regrant"}
    MaxAttempts = 1
    MaxFaults = 1
    Refunds = {r1, r2, r3}
    RProcs = {q1, q2}
    RefundRequests = {"RefundOrder", "ApproveRefund", "RejectRefund"}
    Owner <- OneOwner
    NotifyOrder <- MCNotifyOrder
    Amount <- MCAmount
SYMMETRY Symmetry
SPECIFICATION RefundSpec
INVARIANTS RefundsAreBounded MoneyNeedsApproval RefundsMatchMoney
PROPERTIES OrderLifecycle
CHECK_DEADLOCK FALSE
