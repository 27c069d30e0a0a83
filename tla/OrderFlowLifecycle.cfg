SPECIFICATION FlowSpec
CONSTANTS
    o1 = o1
    o2 = o2
    v1 = v1
    v2 = v2
    w1 = w1
    c1 = c1
    c2 = c2
    Variants <- TwoVariants
    Orders <- OneOrder
    Workers <- OneWorker
    Editors = {e1}
    Offered <- AllProviders
    Targets <- OrderStatus
    Clients <- NoClient
    InitialStock = 1
    MaxQty = 1
    BatchSize = 1
    ManualBound = 1
INVARIANTS CodPaidOnDelivery ConfirmedOwnsStock
PROPERTIES OrdersFollowStateMachine
CHECK_DEADLOCK FALSE
