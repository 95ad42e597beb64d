CONSTANTS
    MAX_ORDERS = 2
    max_position = 2
    max_order_qty = 2
    max_price_deviation = 5
    max_live_orders = 2
    Price = {1, 7}
    Qty = {1, 2}
    Types = {"IOC"}
    MaxId = 3
    MaxFills = 3
SPECIFICATION ConformingSpec
INVARIANTS CountersExact PendingDeltaIsOpenLeaves OutcomesPartition WorstCaseExposure LedgerConsistent
