SPECIFICATION StockSpec
CONSTANTS
    o1 = o1
    o2 = o2
    v1 = v1
    v2 = v2
    w1 = w1
    w2 = w2
    e1 = e1
    e2 = e2
    Variants <- OneVariant
    Orders <- TwoOrders
    Workers <- OneWorker
    Editors <- OneEditor
    InitialStock = 2
    MaxQty = 1
    BatchSize = 2
    ManualBound = 1
PROPERTY EveryStockChangeIsLedgered
CHECK_DEADLOCK FALSE
