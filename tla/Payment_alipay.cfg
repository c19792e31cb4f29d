\* One order paid through Alipay, the mock page or both, two notifications, two
\* concurrent requests, one failing call or crash.
CONSTANTS
    u1 = u1  o1 = o1  o2 = o2
    Users = {u1}
    Orders = {o1}
    Procs = {p1, p2}
    NotifyIds = {n1, n2}
    MockIds = {}
    NoOrder = NoOrder
    None = None
    Requests = {"PayMock", "PayAlipay", "AlipayCallback", "Detect", "Redetect", "Regrant"}
    MaxAttempts = 1
    MaxFaults = 1
    Owner <- OneOwner
    NotifyOrder <- MCNotifyOrder
SYMMETRY Symmetry
VIEW View
SPECIFICATION Spec
INVARIANTS GrantsMatchPayments BooksAgree
PROPERTIES OrderLifecycle
CHECK_DEADLOCK FALSE
