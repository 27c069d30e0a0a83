SPECIFICATION CartSpec
CONSTANTS
    o1 = o1
    o2 = o2
    v1 = v1
    u1 = u1
    u2 = u2
    g1 = g1
    t1 = t1
    t2 = t2
    Variants <- OneVariant
    Orders <- TwoOrders
    Workers <- NoWorker
    Editors <- NoEditor
    Offered <- CashOnly
    Targets <- ToCancelled
    Clients <- NoClient
    Users <- TwoUsers
    Guests <- OneGuest
    Tabs <- TwoTabs
    Policies <- SomePolicies
    InitialStock = 2
    MaxQty = 2
    BatchSize = 1
    ManualBound = 0
    PutBound = 2
SYMMETRY Symmetry
INVARIANTS NoUnitTwice
PROPERTIES CouponIsKept FlowSpec
CHECK_DEADLOCK FALSE
