SPECIFICATION AfterSpec
CONSTANTS
    o1 = o1
    v1 = v1
    v2 = v2
    a1 = a1
    a2 = a2
    k1 = k1
    k2 = k2
    Variants <- OneVariant
    Orders <- OneOrder
    Workers <- NoWorker
    Editors <- NoEditor
    Offered <- CashAndCard
    Targets <- ButRefunded
    Clients <- NoClient
    Admins <- OneAdmin
    Keys <- TwoKeys
    InitialStock = 2
    MaxQty = 2
    BatchSize = 1
    ManualBound = 0
    Total = 2
    MaxRefund = 3
SYMMETRY Symmetry
INVARIANTS RestockedOnce RefundsAddUp PaidHasCharge RefundsMatchProvider
PROPERTIES StockSpec ReturnsFollowDelivery
CHECK_DEADLOCK FALSE
