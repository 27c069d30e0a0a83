SPECIFICATION AfterSpec
CONSTANTS
    o1 = o1
    v1 = v1
    v2 = v2
    a1 = a1
    a2 = a2
    k1 = k1
    k2 = k2
    Variants <- OneVariant
    Orders <- OneOrder
    Workers <- NoWorker
    Editors <- NoEditor
    Offered <- CashOnly
    Targets <- OrderStatus
    Clients <- NoClient
    Admins <- TwoAdmins
    Keys <- TwoKeys
    InitialStock = 2
    MaxQty = 1
    BatchSize = 1
    ManualBound = 0
    Total = 2
    MaxRefund = 2
INVARIANTS RefundsWithinPayment
CHECK_DEADLOCK FALSE
