SPECIFICATION FairFlowSpec
CONSTANTS
    o1 = o1
    o2 = o2
    v1 = v1
    v2 = v2
    w1 = w1
    c1 = c1
    c2 = c2
    Variants <- OneVariant
    Orders <- OneOrder
    Workers <- OneWorker
    Editors <- NoEditor
    Offered <- AllProviders
    Targets <- OrderStatus
    Clients <- TwoClients
    InitialStock = 1
    MaxQty = 1
    BatchSize = 1
    ManualBound = 0
INVARIANTS PaidMeansCharged ReservationsFollowStatus
PROPERTIES OnlyStragglersUndoPaid ChargedLeavesPending
CHECK_DEADLOCK FALSE
