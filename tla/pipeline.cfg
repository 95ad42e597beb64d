CONSTANTS
    MAX_ORDERS = 3
    max_position = 4
    max_order_qty = 2
    max_price_deviation = 5
    max_live_orders = 3
    Price = {0, 6, 7, 8, 9, 10, 11, 12, 13, 14}
    Qty = {0, 1, 2}
    Types = {"IOC"}
    MaxId = 3
    MaxFills = 6
    Quotes <- MCQuotes
    References = {10}
    EXIT_HALF_SPREAD = 1
    edge_threshold = 2
    order_size = 2
    strategy_max_position = 2
SPECIFICATION PSpec
INVARIANTS NoOrderForgotten OneOrderAtATime UnquotedTradesAreFree
PROPERTIES PipelineConforms OrdersSettle LostGatewayHaltsTrading
CHECK_DEADLOCK FALSE
