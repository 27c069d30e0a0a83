SPECIFICATION CartSpec
CONSTANTS
    o1 = o1
    o2 = o2
    v1 = v1
    u1 = u1
    u2 = u2
    g1 = g1
    t1 = t1
    t2 = t2
    Variants <- OneVariant
    Orders <- TwoOrders
    Workers <- NoWorker
    Editors <- NoEditor
    Offered <- CashAndPayPal
    Targets <- ToCancelled
    Clients <- NoClient
    Users <- OneUser
    Guests <- OneGuest
    Tabs <- TwoTabs
    Policies <- OnePolicy
    InitialStock = 2
    MaxQty = 2
    BatchSize = 1
    ManualBound = 0
    PutBound = 2
INVARIANTS CartRefusesUnavailable
CHECK_DEADLOCK FALSE
