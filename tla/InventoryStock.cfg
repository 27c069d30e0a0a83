SPECIFICATION FairStockSpec
CONSTANTS
    o1 = o1
    o2 = o2
    v1 = v1
    v2 = v2
    w1 = w1
    w2 = w2
    e1 = e1
    e2 = e2
    Variants <- OneVariant
    Orders <- TwoOrders
    Workers <- TwoWorkers
    Editors <- NoEditor
    InitialStock = 3
    MaxQty = 2
    BatchSize = 1
    ManualBound = 1
INVARIANTS NeverOversold BooksAgree
PROPERTIES LapsedIsClosed
CHECK_DEADLOCK FALSE
