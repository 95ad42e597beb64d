CONSTANTS
    MAX_ORDERS = 3
    max_position = 2
    max_order_qty = 2
    max_price_deviation = 0
    max_live_orders = 2
    Price = {1}
    Qty = {1, 2}
    Types = {"IOC"}
    MaxId = 3
    MaxFills = 3
SPECIFICATION Spec
INVARIANTS TypeOK SlotDiscipline OpenOrdersWithinLimit CountersCoverOpenOrders RiskCheckImpliesSlot
PROPERTIES DriftNeedsProtocolBreach ImplementsLifecycle
