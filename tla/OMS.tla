-------------------------------- MODULE OMS --------------------------------
(***************************************************************************)
(* The order management system of the trading pipeline: class nts::OMS     *)
(* (include/nts/oms.h, src/oms.cpp).                                       *)
(*                                                                         *)
(* Its two mutating entry points are send_new, called by the pipeline when *)
(* the strategy wants a trade, and on_execution, called for every report   *)
(* that the order gateway parses.  Everything else is a getter.            *)
(*                                                                         *)
(* Abstractions.  Prices are integers (the code's doubles only take the    *)
(* values of the feed).  The hash map order_map_ is the partial function   *)
(* from ids to slots that it represents; module OrderMap checks that the   *)
(* open-addressing table implements it.  The free-slot array and its top   *)
(* are a sequence.  Left out: avg_fill_price, which nothing reads, and the *)
(* two tick fields of an order, which only label the wire message.         *)
(***************************************************************************)
EXTENDS Integers, Sequences, FiniteSets, FiniteSetsExt

CONSTANTS
    MAX_ORDERS,           \* number of order slots
    max_position,         \* RiskLimits
    max_order_qty,
    max_price_deviation,  \* 0 switches the deviation check off, as in the code
    max_live_orders,
    Price,                \* the prices callers and reports may carry
    Qty,                  \* the quantities callers and reports may carry
    Types,                \* the order types callers use
    MaxId,                \* bound: ids are handed out up to MaxId
    MaxFills              \* bound: number of fill reports processed

ASSUME SlotsAssumption == MAX_ORDERS \in Nat \ {0}

ASSUME LimitsAssumption ==
    /\ max_position \in Nat
    /\ max_order_qty \in Nat
    /\ max_price_deviation \in Nat
    /\ max_live_orders \in Nat
    /\ max_live_orders <= MAX_ORDERS

ASSUME InputsAssumption ==
    /\ Price \subseteq Nat
    /\ Qty \subseteq Nat
    /\ Types \subseteq {"Limit", "Market", "IOC"}

ASSUME BoundsAssumption == MaxId \in Nat /\ MaxFills \in Nat

VARIABLES
    orders,                  \* slot -> Order; a freed slot keeps its last contents
    next_id,
    free_stack,              \* freed slots, the top last
    next_fresh_slot,
    order_map,               \* id of an open order -> slot
    position,
    pending_position_delta,
    trading_cash,
    ref_price,
    live_orders,
    pending_new,
    stats                    \* the counters of the trading report

bookkeeping == <<orders, next_id, free_stack, next_fresh_slot, order_map>>
exposure    == <<position, pending_position_delta, trading_cash>>
counters    == <<live_orders, pending_new>>
vars == <<bookkeeping, exposure, counters, ref_price, stats>>

-----------------------------------------------------------------------------
(* Types *)

Slot      == 0 .. MAX_ORDERS - 1
OrderId   == 1 .. MaxId
Side      == {"Buy", "Sell"}
OpenStatus  == {"Sent", "Live", "PartiallyFilled"}
OrderStatus == OpenStatus \cup {"Empty", "Filled", "Cancelled", "Rejected"}
ExecType  == {"NewAck", "Fill", "PartialFill", "CancelAck", "Reject", "CancelReject"}

Order == [id : Nat, price : Nat, qty : Nat, filled_qty : Nat, leaves_qty : Nat,
          side : Side, type : {"Limit", "Market", "IOC"}, status : OrderStatus]

\* The fields of an ExecutionReport that on_execution reads.
Report == [order_id : OrderId, exec_type : ExecType, fill_price : Price, fill_qty : Qty]

Stats == [order_count : Nat, accepted_orders : Nat, filled_orders : Nat, missed_ioc : Nat,
          fills : Nat, buy_fills : Nat, sell_fills : Nat, cancels : Nat, rejects : Nat,
          total_filled_qty : Nat, buy_qty : Nat, sell_qty : Nat]

EmptyOrder == [id |-> 0, price |-> 0, qty |-> 0, filled_qty |-> 0, leaves_qty |-> 0,
               side |-> "Buy", type |-> "Limit", status |-> "Empty"]

Init ==
    /\ orders = [s \in Slot |-> EmptyOrder]
    /\ next_id = 1
    /\ free_stack = << >>
    /\ next_fresh_slot = 0
    /\ order_map = [id \in {} |-> 0]
    /\ position = 0
    /\ pending_position_delta = 0
    /\ trading_cash = 0
    /\ ref_price = 0
    /\ live_orders = 0
    /\ pending_new = 0
    /\ stats = [order_count |-> 0, accepted_orders |-> 0, filled_orders |-> 0,
                missed_ioc |-> 0, fills |-> 0, buy_fills |-> 0, sell_fills |-> 0,
                cancels |-> 0, rejects |-> 0, total_filled_qty |-> 0,
                buy_qty |-> 0, sell_qty |-> 0]

-----------------------------------------------------------------------------
(* Helpers *)

Abs(x) == IF x >= 0 THEN x ELSE -x

MutUnsigned(side, q) == q                      \* mutant: a sell counts as a buy

\* The signed effect of trading q on the given side.
Signed(side, q) == IF side = "Buy" THEN q ELSE -q

MutDecUnguarded(n) == n - 1                    \* mutant: no test for zero

\* "if (n > 0) n--" on an unsigned counter.
Dec(n) == IF n > 0 THEN n - 1 ELSE n

OpenIds == DOMAIN order_map
OrderOf(id) == orders[order_map[id]]
OpenWith(S) == {id \in OpenIds : OrderOf(id).status \in S}

HasSlot == free_stack # << >> \/ next_fresh_slot < MAX_ORDERS

\* alloc_slot: the slot freed last, else the next one never used.
AllocSlot == IF free_stack # << >> THEN free_stack[Len(free_stack)] ELSE next_fresh_slot

\* Mutants of FreeSlot: the entry stays in the map, the slot is pushed twice, the
\* slot is not pushed.
MutFreeKeepsEntry(id) ==
    /\ free_stack' = Append(free_stack, order_map[id])
    /\ UNCHANGED order_map
MutFreeTwice(id) ==
    /\ order_map' = [i \in OpenIds \ {id} |-> order_map[i]]
    /\ free_stack' = free_stack \o <<order_map[id], order_map[id]>>
MutFreeLeaks(id) ==
    /\ order_map' = [i \in OpenIds \ {id} |-> order_map[i]]
    /\ UNCHANGED free_stack

\* The part of on_execution that ends an order: free_slot, with map_remove.
FreeSlot(id) ==
    /\ order_map' = [i \in OpenIds \ {id} |-> order_map[i]]
    /\ free_stack' = Append(free_stack, order_map[id])

-----------------------------------------------------------------------------
(* Sending *)

\* Mutants of CheckRisk: unacknowledged orders are not counted, or the position
\* limit is not applied.
MutRiskLiveOnly(side, price, qty) ==
    /\ qty <= max_order_qty
    /\ live_orders < max_live_orders
    /\ Abs(position + pending_position_delta + Signed(side, qty)) <= max_position
MutRiskNoPosition(side, price, qty) ==
    /\ qty <= max_order_qty
    /\ live_orders + pending_new < max_live_orders

CheckRisk(side, price, qty) ==
    /\ qty <= max_order_qty
    /\ live_orders + pending_new < max_live_orders
    /\ Abs(position + pending_position_delta + Signed(side, qty)) <= max_position
    /\ (ref_price > 0 /\ max_price_deviation > 0)
            => Abs(price - ref_price) <= max_price_deviation

SetReferencePrice(p) ==
    /\ ref_price' = p
    /\ UNCHANGED <<bookkeeping, exposure, counters, stats>>

\* send_new that returns an order.
SendNew(side, price, qty, type) ==
    /\ next_id \in OrderId
    /\ CheckRisk(side, price, qty)
    /\ HasSlot
    /\ orders' = [orders EXCEPT ![AllocSlot] =
                    [id |-> next_id, price |-> price, qty |-> qty, filled_qty |-> 0,
                     leaves_qty |-> qty, side |-> side, type |-> type, status |-> "Sent"]]
    /\ order_map' = [i \in OpenIds \cup {next_id} |->
                        IF i = next_id THEN AllocSlot ELSE order_map[i]]
    /\ next_id' = next_id + 1
    /\ IF free_stack # << >>
       THEN /\ free_stack' = SubSeq(free_stack, 1, Len(free_stack) - 1)
            /\ UNCHANGED next_fresh_slot
       ELSE /\ next_fresh_slot' = next_fresh_slot + 1
            /\ UNCHANGED free_stack
    /\ pending_new' = pending_new + 1
    /\ pending_position_delta' = pending_position_delta + Signed(side, qty)
    /\ stats' = [stats EXCEPT !.order_count = @ + 1]
    /\ UNCHANGED <<position, trading_cash, ref_price, live_orders>>

\* send_new that returns nullptr: a risk limit is hit, or no slot is left.
SendRefused(side, price, qty) ==
    /\ ~ (CheckRisk(side, price, qty) /\ HasSlot)
    /\ UNCHANGED vars

-----------------------------------------------------------------------------
(* Execution reports *)

\* Mutant: a NewAck is taken in every status.
MutIgnoredNoStatus(r) == r.order_id \in OpenIds => r.exec_type = "CancelReject"

\* A report about an order that is not in the map, a NewAck of an order that is
\* no longer Sent, and every CancelReject change nothing.
Ignored(r) ==
    r.order_id \in OpenIds =>
        \/ r.exec_type = "CancelReject"
        \/ r.exec_type = "NewAck" /\ OrderOf(r.order_id).status # "Sent"

OnIgnored(r) ==
    /\ Ignored(r)
    /\ UNCHANGED vars

OnNewAck(r) ==
    /\ ~ Ignored(r) /\ r.exec_type = "NewAck"
    /\ orders' = [orders EXCEPT ![order_map[r.order_id]].status = "Live"]
    /\ pending_new' = Dec(pending_new)
    /\ live_orders' = live_orders + 1
    /\ stats' = [stats EXCEPT !.accepted_orders = @ + 1]
    /\ UNCHANGED <<next_id, free_stack, next_fresh_slot, order_map, exposure, ref_price>>

\* Mutant: the leaves are computed before filled_qty is raised.
MutLeavesStale(o, fq) == o.qty - o.filled_qty

\* The leaves of order o after fq more were filled.
LeavesAfter(o, fq) ==
    IF o.qty > o.filled_qty + fq THEN o.qty - (o.filled_qty + fq) ELSE 0

\* A Fill ends the order whatever its quantity; a PartialFill when nothing is left.
FullyFilled(o, r) == r.exec_type = "Fill" \/ LeavesAfter(o, r.fill_qty) = 0

MutEveryFill(o) == TRUE                        \* mutant: every fill counts an order

\* "filled_qty == fq" after the addition: the first fill counts the order as filled.
FirstFill(o) == o.filled_qty = 0

\* The counters a fill moves; "was" is the number of Sent orders it accepts (0 or 1).
StatsAfterFill(o, fq, was) ==
    [stats EXCEPT !.accepted_orders = @ + was,
                  !.filled_orders = IF FirstFill(o) THEN @ + 1 ELSE @,
                  !.fills = @ + 1,
                  !.total_filled_qty = @ + fq,
                  !.buy_fills = IF o.side = "Buy" THEN @ + 1 ELSE @,
                  !.buy_qty = IF o.side = "Buy" THEN @ + fq ELSE @,
                  !.sell_fills = IF o.side = "Sell" THEN @ + 1 ELSE @,
                  !.sell_qty = IF o.side = "Sell" THEN @ + fq ELSE @]

apply_trading_fill(side, qty, fill_price) ==
    /\ position' = position + Signed(side, qty)
    /\ trading_cash' = trading_cash - fill_price * Signed(side, qty)

OnFill(r) ==
    /\ ~ Ignored(r) /\ r.exec_type \in {"Fill", "PartialFill"}
    /\ stats.fills < MaxFills
    /\ LET o   == OrderOf(r.order_id)
           fq  == r.fill_qty
           was == IF o.status = "Sent" THEN 1 ELSE 0
           end == FullyFilled(o, r)
           live == live_orders + was
       IN  /\ o.status \in OpenStatus
           /\ orders' = [orders EXCEPT ![order_map[r.order_id]] =
                           [o EXCEPT !.filled_qty = @ + fq,
                                     !.leaves_qty = LeavesAfter(o, fq),
                                     !.status = IF end THEN "Filled" ELSE "PartiallyFilled"]]
           /\ pending_new' = IF o.status = "Sent" THEN Dec(pending_new) ELSE pending_new
           /\ live_orders' = IF end THEN Dec(live) ELSE live
           /\ pending_position_delta' = pending_position_delta - Signed(o.side, fq)
           /\ apply_trading_fill(o.side, fq, r.fill_price)
           /\ stats' = StatsAfterFill(o, fq, was)
           /\ IF end THEN FreeSlot(r.order_id) ELSE UNCHANGED <<order_map, free_stack>>
    /\ UNCHANGED <<next_id, next_fresh_slot, ref_price>>

\* The order's status is not examined: a CancelAck ends it from Sent too, and
\* then lowers live_orders, not pending_new.
OnCancelAck(r) ==
    /\ ~ Ignored(r) /\ r.exec_type = "CancelAck"
    /\ LET o == OrderOf(r.order_id)
       IN  /\ orders' = [orders EXCEPT ![order_map[r.order_id]].status = "Cancelled"]
           /\ pending_position_delta' = pending_position_delta - Signed(o.side, o.leaves_qty)
           /\ stats' = [stats EXCEPT !.cancels = @ + 1,
                                     !.missed_ioc = IF o.type = "IOC" /\ o.filled_qty = 0
                                                    THEN @ + 1 ELSE @]
    /\ live_orders' = Dec(live_orders)
    /\ FreeSlot(r.order_id)
    /\ UNCHANGED <<next_id, next_fresh_slot, position, trading_cash, ref_price, pending_new>>

\* A Reject of an order past Sent leaves live_orders as it is.
OnReject(r) ==
    /\ ~ Ignored(r) /\ r.exec_type = "Reject"
    /\ LET o == OrderOf(r.order_id)
       IN  /\ orders' = [orders EXCEPT ![order_map[r.order_id]].status = "Rejected"]
           /\ pending_new' = IF o.status = "Sent" THEN Dec(pending_new) ELSE pending_new
           /\ pending_position_delta' = pending_position_delta - Signed(o.side, o.leaves_qty)
    /\ stats' = [stats EXCEPT !.rejects = @ + 1]
    /\ FreeSlot(r.order_id)
    /\ UNCHANGED <<next_id, next_fresh_slot, position, trading_cash, ref_price, live_orders>>

OnExecution(r) ==
    OnIgnored(r) \/ OnNewAck(r) \/ OnFill(r) \/ OnCancelAck(r) \/ OnReject(r)

-----------------------------------------------------------------------------
(* The specifications *)

Request ==
    \/ \E side \in Side, price \in Price, qty \in Qty :
            \/ \E type \in Types : SendNew(side, price, qty, type)
            \/ SendRefused(side, price, qty)
    \/ \E p \in Price \cup {0} : SetReferencePrice(p)

\* Any report may arrive: nothing on the wire is checked before on_execution.
Next == Request \/ \E r \in Report : OnExecution(r)

Spec == Init /\ [][Next]_vars

\* What an exchange that keeps the order protocol sends about an open order: a
\* Reject only as the first answer, a CancelAck only after an acceptance, fills
\* that never exceed the leaves, and Fill exactly for the one that completes the
\* order.  A fill may precede the NewAck, and a NewAck or a CancelReject may
\* come at any time.
Conforms(r) ==
    r.order_id \in OpenIds =>
        LET o == OrderOf(r.order_id)
        IN  /\ r.exec_type = "Reject"      => o.status = "Sent"
            /\ r.exec_type = "CancelAck"   => o.status # "Sent"
            /\ r.exec_type = "Fill"        => r.fill_qty = o.leaves_qty
            /\ r.exec_type = "PartialFill" => r.fill_qty \in 1 .. o.leaves_qty - 1

ConformingNext ==
    Request \/ \E r \in Report : Conforms(r) /\ OnExecution(r)

ConformingSpec == Init /\ [][ConformingNext]_vars

-----------------------------------------------------------------------------
(* Properties that hold whatever the exchange sends *)

\* Every variable has its type.
TypeOK ==
    /\ orders \in [Slot -> Order]
    /\ next_id \in 1 .. MaxId + 1
    /\ free_stack \in Seq(Slot)
    /\ next_fresh_slot \in 0 .. MAX_ORDERS
    /\ OpenIds \subseteq 1 .. next_id - 1
    /\ order_map \in [OpenIds -> Slot]
    /\ position \in Int
    /\ pending_position_delta \in Int
    /\ trading_cash \in Int
    /\ ref_price \in Nat
    /\ live_orders \in Nat
    /\ pending_new \in Nat
    /\ stats \in Stats

OpenSlots == {order_map[id] : id \in OpenIds}
FreeSlots == {free_stack[i] : i \in 1 .. Len(free_stack)}

MapInjective == \A i, j \in OpenIds : order_map[i] = order_map[j] => i = j
MapFindsOrder == \A id \in OpenIds : OrderOf(id).id = id /\ OrderOf(id).status \in OpenStatus
StackDistinct == \A i, j \in 1 .. Len(free_stack) : free_stack[i] = free_stack[j] => i = j
StackDisjoint == \A id \in OpenIds, i \in 1 .. Len(free_stack) : order_map[id] # free_stack[i]
SlotsAccounted == OpenSlots \cup FreeSlots = 0 .. next_fresh_slot - 1

\* The slot array, the free stack and the map never disagree (alloc_slot,
\* free_slot, map_insert, map_remove): every open id owns one slot of its own
\* that holds that order in an open status, a freed slot is on the stack once and
\* belongs to nobody, and the two together are exactly the slots ever handed out.
SlotDiscipline ==
    MapInjective /\ MapFindsOrder /\ StackDistinct /\ StackDisjoint /\ SlotsAccounted

\* check_risk compares max_live_orders with live_orders_ + pending_new_, two
\* counters that out-of-protocol reports make drift (a CancelAck of a Sent order,
\* a Reject of a Live one).  They only ever drift upwards: the number of orders
\* still open at the exchange never exceeds the limit.
OpenOrdersWithinLimit == Cardinality(OpenIds) <= max_live_orders

\* The strengthening behind OpenOrdersWithinLimit: pending_new_ counts at least
\* the Sent orders, and the sum that check_risk uses at least the open ones.
CountersCoverOpenOrders ==
    /\ pending_new >= Cardinality(OpenWith({"Sent"}))
    /\ live_orders + pending_new >= Cardinality(OpenIds)

\* An order that passes check_risk always finds a slot: alloc_slot's MAX_ORDERS
\* answer, and with it send_new's second nullptr, is never reached.
RiskCheckImpliesSlot == live_orders + pending_new < max_live_orders => HasSlot

\* The position is what the fill counters of the report say was bought and sold, and
\* apply_trading_fill pays for what it buys and is paid for what it sells: the cash
\* lies between the cheapest and the dearest way to trade these quantities.
LedgerConsistent ==
    LET lo == Min(Price)
        hi == Max(Price)
    IN  /\ position = stats.buy_qty - stats.sell_qty
        /\ stats.total_filled_qty = stats.buy_qty + stats.sell_qty
        /\ stats.fills = stats.buy_fills + stats.sell_fills
        /\ trading_cash >= lo * stats.sell_qty - hi * stats.buy_qty
        /\ trading_cash <= hi * stats.sell_qty - lo * stats.buy_qty

\* Drift of a counter from the number of orders it stands for.
PendingDrift == pending_new - Cardinality(OpenWith({"Sent"}))
LiveDrift == live_orders - Cardinality(OpenWith({"Live", "PartiallyFilled"}))

\* pending_new_ is the number of unacknowledged orders and live_orders_ that of
\* acknowledged ones, whatever the order in which acks and fills arrive: true as
\* long as the exchange keeps the protocol.
CountersExact == PendingDrift = 0 /\ LiveDrift = 0

\* on_execution makes exact counters drift only when it cancels an order that was
\* never acknowledged or rejects one that was: no other report, late, duplicated,
\* unknown or with a wrong quantity, changes what the counters stand for.
DriftNeedsProtocolBreach ==
    [][CountersExact =>
            \/ CountersExact'
            \/ \E id \in OpenIds \ OpenIds' :
                    LET end == orders'[order_map[id]].status
                    IN  \/ OrderOf(id).status = "Sent" /\ end = "Cancelled"
                        \/ OrderOf(id).status # "Sent" /\ end = "Rejected"]_vars

\* Where order id is in its life, read off the slots, the map and next_id.
LifecycleState ==
    [id \in OrderId |->
        IF id \in OpenIds THEN OrderOf(id).status
        ELSE IF id < next_id THEN "Closed" ELSE "None"]

Lifecycle == INSTANCE OrderLifecycle WITH st <- LifecycleState

\* send_new and on_execution, over recycled slots and whatever is reported, give
\* every order the life that OrderLifecycle describes: an id that ended never
\* comes back, and a report about one order never moves another.
ImplementsLifecycle == Lifecycle!Spec

-----------------------------------------------------------------------------
(* Properties that need an exchange that keeps the protocol *)

\* What the open orders may still trade: the leaves of each, with the sign of its side.
NetLeaves == [id \in OpenIds |-> Signed(OrderOf(id).side, OrderOf(id).leaves_qty)]

\* The comment at the declaration of pending_position_delta_: "net qty of
\* in-flight (unfilled) orders".
PendingDeltaIsOpenLeaves == pending_position_delta = SumFunction(NetLeaves)

\* The trading report splits the orders into filled, missed and rejected ones: an
\* IOC order is in exactly one of these counts, or still open without a fill.
OutcomesPartition ==
    stats.order_count =
        stats.filled_orders + stats.missed_ioc + stats.rejects
        + Cardinality({id \in OpenIds : OrderOf(id).filled_qty = 0})

\* Leaves of the open orders of one side.
SideLeaves(side) ==
    [id \in OpenIds |-> IF OrderOf(id).side = side THEN OrderOf(id).leaves_qty ELSE 0]
OpenLeaves(side) == SumFunction(SideLeaves(side))

\* check_risk nets the open orders of both sides against each other, so filling
\* one side only can carry the position past max_position.  The excess is bounded
\* by what the other open orders can be worth: no mix of fills and cancels moves
\* the position further out than this.
WorstCaseExposure ==
    LET bound == max_position + (max_live_orders - 1) * max_order_qty
    IN  /\ position + OpenLeaves("Buy") <= bound
        /\ position - OpenLeaves("Sell") >= -bound

=============================================================================
