CONSTANTS
    ORDER_SIZE = 2
    REPORT_SIZE = 3
    BUF_SIZE = 5
    MaxOrders = 2
    MaxReports = 4
SPECIFICATION Spec
INVARIANTS ReportsIntact OrdersIntact
PROPERTY ReportsDelivered
CHECK_DEADLOCK FALSE
