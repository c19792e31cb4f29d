\* One user, two orders, their two refunds, two concurrent requests: a grant that
\* holds the key and wants the row meets one that holds the row and wants the key.
CONSTANTS
    u1 = u1  o1 = o1  o2 = o2  k1 = k1  k2 = k2
    Users = {u1}
    Orders = {o1, o2}
    Keys = {k1, k2}
    Procs = {p1, p2}
    NoOrder = NoOrder
    None = None
    MaxNow = 3
    Owner <- OneOwner
    Days <- MCDays
    KeyOrder <- MCKeyOrder
SPECIFICATION FairSpec
INVARIANTS OneGrantPerOrder RowsAgree
PROPERTIES RenewalsExtend AccessLostOnlyByRefund ImplementsLedger TransactionsFinish
CHECK_DEADLOCK FALSE
