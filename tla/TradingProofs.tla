--------------------------- MODULE TradingProofs ---------------------------
(***************************************************************************)
(* Machine-checked proofs about the trading client.                        *)
(*                                                                         *)
(* Module OMS, for every number of slots, every risk limit and every set   *)
(* of prices and quantities: its slots and limits; the accounts it keeps   *)
(* (the ledger of fills, the counters that stand for sets of orders, the   *)
(* outcomes); the life of an order; sums over the open orders: what        *)
(* pending_position_delta_ stands for, and how far the position can get    *)
(* from what check_risk admitted.                                          *)
(*                                                                         *)
(* Module Pipeline, which extends it: what travels between the trading     *)
(* loop, the gateway and the exchange keeps the order protocol, so that    *)
(* everything proved of ConformingSpec holds in the pipeline, and no order *)
(* is forgotten, doubled or sent into a dead connection twice.             *)
(***************************************************************************)
EXTENDS Pipeline, DataTheorems, SequenceTheorems

-----------------------------------------------------------------------------
(* Operators *)

\* The signed effect of a quantity is an integer.
LEMMA SignedInt == \A side \in Side, q \in Nat : Signed(side, q) \in Int
BY DEF Signed

\* Decrementing an unsigned counter as the code does never leaves Nat, lowers it
\* by at most one, and by exactly one when it is positive.
LEMMA DecNat == \A n \in Nat : Dec(n) \in Nat /\ Dec(n) >= n - 1 /\ (n > 0 => Dec(n) = n - 1)
BY DEF Dec

\* What is left of an order after a fill is a natural number.
LEMMA LeavesNat == \A o \in Order, fq \in Nat : LeavesAfter(o, fq) \in Nat
BY DEF LeavesAfter, Order

\* The slot that alloc_slot returns is one of the array, when there is one.
LEMMA AllocSlotType ==
    ASSUME TypeOK, HasSlot
    PROVE  AllocSlot \in Slot
<1>1. free_stack \in Seq(Slot) /\ next_fresh_slot \in 0 .. MAX_ORDERS
  BY DEF TypeOK
<1>2. free_stack # << >> => free_stack[Len(free_stack)] \in Slot
  BY <1>1
<1>3. next_fresh_slot < MAX_ORDERS => next_fresh_slot \in Slot
  BY <1>1, SlotsAssumption DEF Slot, SlotsAssumption
<1> QED
  BY <1>2, <1>3 DEF HasSlot, AllocSlot

-----------------------------------------------------------------------------
(* Type correctness *)

\* The initial state is well typed.
LEMMA TypeInit == Init => TypeOK
<1> SUFFICES ASSUME Init PROVE TypeOK
  OBVIOUS
<1>1. orders \in [Slot -> Order]
  BY DEF Init, EmptyOrder, Order, OrderStatus, OpenStatus, Side
<1>2. OpenIds = {} /\ order_map \in [OpenIds -> Slot]
  BY DEF Init, OpenIds
<1>3. stats \in Stats
  BY DEF Init, Stats
<1> QED
  BY <1>1, <1>2, <1>3, SlotsAssumption, BoundsAssumption
  DEF Init, TypeOK, SlotsAssumption, BoundsAssumption

\* send_new keeps the types.
LEMMA TypeSendNew ==
    ASSUME TypeOK, NEW side \in Side, NEW price \in Price, NEW qty \in Qty, NEW type \in Types,
           SendNew(side, price, qty, type)
    PROVE  TypeOK'
<1> DEFINE s == AllocSlot
           o == [id |-> next_id, price |-> price, qty |-> qty, filled_qty |-> 0,
                 leaves_qty |-> qty, side |-> side, type |-> type, status |-> "Sent"]
<1>1. /\ next_id \in OrderId /\ HasSlot
      /\ orders' = [orders EXCEPT ![s] = o]
      /\ order_map' = [i \in OpenIds \cup {next_id} |-> IF i = next_id THEN s ELSE order_map[i]]
      /\ next_id' = next_id + 1
      /\ UNCHANGED <<position, trading_cash, ref_price, live_orders>>
  BY DEF SendNew
<1>a. /\ pending_new' = pending_new + 1
      /\ pending_position_delta' = pending_position_delta + Signed(side, qty)
  BY DEF SendNew
<1>b. stats' = [stats EXCEPT !.order_count = @ + 1]
  BY DEF SendNew
<1>2. s \in Slot
  BY <1>1, AllocSlotType
<1>3. qty \in Nat /\ price \in Nat /\ type \in {"Limit", "Market", "IOC"}
  BY InputsAssumption DEF InputsAssumption
<1>4. next_id \in Nat /\ next_id' \in 1 .. MaxId + 1
  BY <1>1, BoundsAssumption DEF OrderId, BoundsAssumption
<1>5. o \in Order
  BY <1>3, <1>4 DEF Order, OrderStatus, OpenStatus
<1> HIDE DEF o, s
<1>6. orders' \in [Slot -> Order]
  BY <1>1, <1>2, <1>5 DEF TypeOK
<1>7. OpenIds' = OpenIds \cup {next_id}
  BY <1>1 DEF OpenIds
<1>8. order_map' \in [OpenIds' -> Slot]
  BY <1>1, <1>2, <1>7 DEF TypeOK
<1>9. OpenIds' \subseteq 1 .. next_id' - 1
  BY <1>1, <1>4, <1>7 DEF TypeOK, OrderId
<1>10. free_stack' \in Seq(Slot) /\ next_fresh_slot' \in 0 .. MAX_ORDERS
  <2>1. CASE free_stack # << >>
    <3>1. free_stack' = SubSeq(free_stack, 1, Len(free_stack) - 1)
          /\ next_fresh_slot' = next_fresh_slot
      BY <2>1 DEF SendNew
    <3>2. free_stack' \in Seq(Slot)
      BY <3>1, SubSeqProperties DEF TypeOK
    <3> QED
      BY <3>1, <3>2 DEF TypeOK
  <2>2. CASE free_stack = << >>
    <3>1. free_stack' = free_stack /\ next_fresh_slot' = next_fresh_slot + 1
      BY <2>2 DEF SendNew
    <3>2. next_fresh_slot < MAX_ORDERS
      BY <1>1, <2>2 DEF HasSlot
    <3> QED
      BY <3>1, <3>2, SlotsAssumption DEF TypeOK, SlotsAssumption
  <2> QED
    BY <2>1, <2>2
<1>11. stats' \in Stats
  <2>1. stats \in Stats
    BY DEF TypeOK
  <2> QED
    BY <1>b, <2>1 DEF Stats
<1>12. pending_position_delta' \in Int /\ pending_new' \in Nat
  BY <1>a, <1>3, SignedInt DEF TypeOK
<1> QED
  BY <1>1, <1>4, <1>6, <1>8, <1>9, <1>10, <1>11, <1>12 DEF TypeOK

\* A report that is not ignored is about an open order.
LEMMA ReportType ==
    ASSUME TypeOK, NEW r \in Report, ~ Ignored(r)
    PROVE  /\ r.order_id \in OpenIds
           /\ order_map[r.order_id] \in Slot
           /\ OrderOf(r.order_id) \in Order
           /\ r.fill_qty \in Nat
           /\ r.fill_price \in Nat
<1>1. r.order_id \in OpenIds
  BY DEF Ignored
<1>2. order_map[r.order_id] \in Slot
  BY <1>1 DEF TypeOK
<1>3. OrderOf(r.order_id) \in Order
  BY <1>2 DEF TypeOK, OrderOf
<1>4. r.fill_qty \in Qty /\ r.fill_price \in Price
  BY DEF Report
<1> QED
  BY <1>1, <1>2, <1>3, <1>4, InputsAssumption DEF InputsAssumption

\* Ending an order keeps the types of the map and the free stack.
LEMMA FreeSlotType ==
    ASSUME TypeOK, NEW id \in OpenIds, FreeSlot(id), next_id' = next_id
    PROVE  /\ OpenIds' = OpenIds \ {id}
           /\ OpenIds' \subseteq 1 .. next_id' - 1
           /\ order_map' \in [OpenIds' -> Slot]
           /\ free_stack' \in Seq(Slot)
<1>1. order_map' = [i \in OpenIds \ {id} |-> order_map[i]]
      /\ free_stack' = Append(free_stack, order_map[id])
  BY DEF FreeSlot
<1>2. OpenIds' = OpenIds \ {id}
  BY <1>1 DEF OpenIds
<1>3. order_map \in [OpenIds -> Slot] /\ OpenIds \subseteq 1 .. next_id - 1
  BY DEF TypeOK
<1>4. free_stack \in Seq(Slot)
  BY DEF TypeOK
<1>5. free_stack' \in Seq(Slot)
  BY <1>1, <1>3, <1>4
<1>6. order_map' \in [OpenIds' -> Slot]
  BY <1>1, <1>2, <1>3
<1> QED
  BY <1>2, <1>3, <1>5, <1>6

\* A change of status keeps the type of the order array.
LEMMA StatusType ==
    ASSUME TypeOK, NEW s \in Slot, NEW st \in OrderStatus,
           orders' = [orders EXCEPT ![s].status = st]
    PROVE  orders' \in [Slot -> Order]
<1>1. orders \in [Slot -> Order]
  BY DEF TypeOK
<1>2. [orders[s] EXCEPT !.status = st] \in Order
  BY <1>1 DEF Order
<1>3. orders' = [orders EXCEPT ![s] = [orders[s] EXCEPT !.status = st]]
  OBVIOUS
<1> QED
  BY <1>1, <1>2, <1>3

\* A NewAck keeps the types.
LEMMA TypeNewAck ==
    ASSUME TypeOK, NEW r \in Report, OnNewAck(r)
    PROVE  TypeOK'
<1>1. /\ ~ Ignored(r)
      /\ orders' = [orders EXCEPT ![order_map[r.order_id]].status = "Live"]
  BY DEF OnNewAck
<1>2. pending_new' = Dec(pending_new) /\ live_orders' = live_orders + 1
  BY DEF OnNewAck
<1>3. stats' = [stats EXCEPT !.accepted_orders = @ + 1]
  BY DEF OnNewAck
<1>4. UNCHANGED <<next_id, free_stack, next_fresh_slot, order_map,
                  position, pending_position_delta, trading_cash, ref_price>>
  BY DEF OnNewAck, exposure
<1>5. order_map[r.order_id] \in Slot
  BY <1>1, ReportType
<1>6. orders' \in [Slot -> Order]
  BY <1>1, <1>5, StatusType DEF OrderStatus, OpenStatus
<1>7. stats' \in Stats
  <2>1. stats \in Stats
    BY DEF TypeOK
  <2> QED
    BY <1>3, <2>1 DEF Stats
<1>8. pending_new' \in Nat /\ live_orders' \in Nat
  BY <1>2, DecNat DEF TypeOK
<1>9. OpenIds' = OpenIds
  BY <1>4 DEF OpenIds
<1> QED
  BY <1>4, <1>6, <1>7, <1>8, <1>9 DEF TypeOK

\* A CancelAck keeps the types.
LEMMA TypeCancelAck ==
    ASSUME TypeOK, NEW r \in Report, OnCancelAck(r)
    PROVE  TypeOK'
<1> DEFINE o == OrderOf(r.order_id)
<1>1. /\ ~ Ignored(r) /\ FreeSlot(r.order_id)
      /\ orders' = [orders EXCEPT ![order_map[r.order_id]].status = "Cancelled"]
  BY DEF OnCancelAck
<1>2. /\ live_orders' = Dec(live_orders)
      /\ pending_position_delta' = pending_position_delta - Signed(o.side, o.leaves_qty)
  BY DEF OnCancelAck
<1>3. PICK m \in {stats.missed_ioc, stats.missed_ioc + 1} :
          stats' = [stats EXCEPT !.cancels = @ + 1, !.missed_ioc = m]
  <2>1. stats' = [stats EXCEPT !.cancels = @ + 1,
                               !.missed_ioc = IF o.type = "IOC" /\ o.filled_qty = 0
                                              THEN @ + 1 ELSE @]
    BY DEF OnCancelAck
  <2> QED
    BY <2>1
<1>4. UNCHANGED <<next_id, next_fresh_slot, position, trading_cash, ref_price, pending_new>>
  BY DEF OnCancelAck
<1>5. r.order_id \in OpenIds /\ order_map[r.order_id] \in Slot /\ o \in Order
  BY <1>1, ReportType
<1> HIDE DEF o
<1>6. orders' \in [Slot -> Order]
  BY <1>1, <1>5, StatusType DEF OrderStatus
<1>7. stats' \in Stats
  <2> DEFINE k == stats.cancels + 1
  <2>1. stats \in Stats
    BY DEF TypeOK
  <2>2. stats' = [stats EXCEPT !.cancels = k, !.missed_ioc = m]
    BY <1>3
  <2>3. k \in Nat /\ m \in Nat
    BY <1>3, <2>1 DEF Stats
  <2> HIDE DEF k
  <2> QED
    BY <2>1, <2>2, <2>3, Zenon DEF Stats
<1>8. pending_position_delta' \in Int /\ live_orders' \in Nat
  <2>1. o.side \in Side /\ o.leaves_qty \in Nat
    BY <1>5 DEF Order
  <2>2. pending_position_delta \in Int /\ live_orders \in Nat
    BY DEF TypeOK
  <2> QED
    BY <1>2, <2>1, <2>2, SignedInt, DecNat
<1>9. /\ OpenIds' \subseteq 1 .. next_id' - 1
      /\ order_map' \in [OpenIds' -> Slot]
      /\ free_stack' \in Seq(Slot)
  BY <1>1, <1>4, <1>5, FreeSlotType
<1> QED
  BY <1>4, <1>6, <1>7, <1>8, <1>9 DEF TypeOK

\* A Reject keeps the types.
LEMMA TypeReject ==
    ASSUME TypeOK, NEW r \in Report, OnReject(r)
    PROVE  TypeOK'
<1> DEFINE o == OrderOf(r.order_id)
<1>1. /\ ~ Ignored(r) /\ FreeSlot(r.order_id)
      /\ orders' = [orders EXCEPT ![order_map[r.order_id]].status = "Rejected"]
  BY DEF OnReject
<1>2. /\ pending_new' = IF o.status = "Sent" THEN Dec(pending_new) ELSE pending_new
      /\ pending_position_delta' = pending_position_delta - Signed(o.side, o.leaves_qty)
  BY DEF OnReject
<1>3. stats' = [stats EXCEPT !.rejects = @ + 1]
  BY DEF OnReject
<1>4. UNCHANGED <<next_id, next_fresh_slot, position, trading_cash, ref_price, live_orders>>
  BY DEF OnReject
<1>5. r.order_id \in OpenIds /\ order_map[r.order_id] \in Slot /\ o \in Order
  BY <1>1, ReportType
<1> HIDE DEF o
<1>6. orders' \in [Slot -> Order]
  BY <1>1, <1>5, StatusType DEF OrderStatus
<1>7. stats' \in Stats
  <2>1. stats \in Stats
    BY DEF TypeOK
  <2> QED
    BY <1>3, <2>1 DEF Stats
<1>8. pending_position_delta' \in Int /\ pending_new' \in Nat
  <2>1. o.side \in Side /\ o.leaves_qty \in Nat
    BY <1>5 DEF Order
  <2>2. pending_position_delta \in Int /\ pending_new \in Nat
    BY DEF TypeOK
  <2> QED
    BY <1>2, <2>1, <2>2, SignedInt, DecNat
<1>9. /\ OpenIds' \subseteq 1 .. next_id' - 1
      /\ order_map' \in [OpenIds' -> Slot]
      /\ free_stack' \in Seq(Slot)
  BY <1>1, <1>4, <1>5, FreeSlotType
<1> QED
  BY <1>4, <1>6, <1>7, <1>8, <1>9 DEF TypeOK

\* The counters stay natural numbers when a fill moves them.
LEMMA StatsAfterFillType ==
    ASSUME NEW o, NEW fq \in Nat, NEW was \in {0, 1}, stats \in Stats
    PROVE  StatsAfterFill(o, fq, was) \in Stats
<1> DEFINE a == stats.accepted_orders + was
           b == IF FirstFill(o) THEN stats.filled_orders + 1 ELSE stats.filled_orders
           c == IF o.side = "Buy" THEN stats.buy_fills + 1 ELSE stats.buy_fills
           d == IF o.side = "Buy" THEN stats.buy_qty + fq ELSE stats.buy_qty
           e == IF o.side = "Sell" THEN stats.sell_fills + 1 ELSE stats.sell_fills
           f == IF o.side = "Sell" THEN stats.sell_qty + fq ELSE stats.sell_qty
           g == stats.fills + 1
           h == stats.total_filled_qty + fq
<1>1. StatsAfterFill(o, fq, was) =
        [stats EXCEPT !.accepted_orders = a, !.filled_orders = b, !.fills = g,
                      !.total_filled_qty = h, !.buy_fills = c, !.buy_qty = d,
                      !.sell_fills = e, !.sell_qty = f]
  BY DEF StatsAfterFill
<1>2. a \in Nat /\ b \in Nat /\ c \in Nat /\ d \in Nat /\ e \in Nat /\ f \in Nat
      /\ g \in Nat /\ h \in Nat
  BY DEF Stats
<1> HIDE DEF a, b, c, d, e, f, g, h
<1> QED
  BY <1>1, <1>2, ZenonT(60) DEF Stats

\* A fill keeps the types.
LEMMA TypeFill ==
    ASSUME TypeOK, NEW r \in Report, OnFill(r)
    PROVE  TypeOK'
<1> DEFINE o    == OrderOf(r.order_id)
           fq   == r.fill_qty
           was  == IF o.status = "Sent" THEN 1 ELSE 0
           end  == FullyFilled(o, r)
           live == live_orders + was
           no   == [o EXCEPT !.filled_qty = @ + fq,
                             !.leaves_qty = LeavesAfter(o, fq),
                             !.status = IF end THEN "Filled" ELSE "PartiallyFilled"]
<1>1. ~ Ignored(r)
  BY DEF OnFill
<1>2. orders' = [orders EXCEPT ![order_map[r.order_id]] = no]
  BY DEF OnFill
<1>3. /\ pending_new' = IF o.status = "Sent" THEN Dec(pending_new) ELSE pending_new
      /\ live_orders' = IF end THEN Dec(live) ELSE live
  BY DEF OnFill
<1>4. /\ pending_position_delta' = pending_position_delta - Signed(o.side, fq)
      /\ position' = position + Signed(o.side, fq)
      /\ trading_cash' = trading_cash - r.fill_price * Signed(o.side, fq)
  BY DEF OnFill, apply_trading_fill
<1>5. stats' = StatsAfterFill(o, fq, was)
  BY DEF OnFill
<1>6. IF end THEN FreeSlot(r.order_id) ELSE UNCHANGED <<order_map, free_stack>>
  BY DEF OnFill
<1>7. UNCHANGED <<next_id, next_fresh_slot, ref_price>>
  BY DEF OnFill
<1>8. /\ r.order_id \in OpenIds /\ order_map[r.order_id] \in Slot /\ o \in Order
      /\ fq \in Nat /\ r.fill_price \in Nat
  BY <1>1, ReportType
<1>9. was \in {0, 1} /\ live = live_orders + was
  OBVIOUS
<1>10. no \in Order
  <2> DEFINE f == o.filled_qty + fq
             l == LeavesAfter(o, fq)
             st == IF end THEN "Filled" ELSE "PartiallyFilled"
  <2>1. no = [o EXCEPT !.filled_qty = f, !.leaves_qty = l, !.status = st]
    OBVIOUS
  <2>2. o \in Order
    BY <1>8
  <2>3. f \in Nat
    BY <1>8 DEF Order
  <2>4. l \in Nat
    BY <1>8, LeavesNat
  <2>5. st \in OrderStatus
    BY DEF OrderStatus, OpenStatus
  <2> HIDE DEF o, no, f, l, st
  <2> QED
    BY <2>1, <2>2, <2>3, <2>4, <2>5, Zenon DEF Order
<1> HIDE DEF o, fq, was, end, live, no
<1>11. orders' \in [Slot -> Order]
  BY <1>2, <1>8, <1>10 DEF TypeOK
<1>12. stats' \in Stats
  BY <1>5, <1>8, <1>9, StatsAfterFillType DEF TypeOK
<1>13. pending_new' \in Nat /\ live_orders' \in Nat
  <2>1. pending_new \in Nat /\ live_orders \in Nat
    BY DEF TypeOK
  <2>2. live \in Nat
    BY <1>9, <2>1
  <2>3. Dec(pending_new) \in Nat /\ Dec(live) \in Nat
    BY <2>1, <2>2, DecNat
  <2> QED
    BY <1>3, <2>1, <2>2, <2>3
<1>14. pending_position_delta' \in Int /\ position' \in Int /\ trading_cash' \in Int
  <2>1. o.side \in Side
    BY <1>8 DEF Order
  <2>2. Signed(o.side, fq) \in Int
    BY <2>1, <1>8, SignedInt
  <2>3. pending_position_delta \in Int /\ position \in Int /\ trading_cash \in Int
    BY DEF TypeOK
  <2> QED
    BY <1>4, <1>8, <2>2, <2>3
<1>15. /\ OpenIds' \subseteq 1 .. next_id' - 1
       /\ order_map' \in [OpenIds' -> Slot]
       /\ free_stack' \in Seq(Slot)
  <2>1. CASE end
    BY <2>1, <1>6, <1>7, <1>8, FreeSlotType
  <2>2. CASE ~ end
    BY <2>2, <1>6, <1>7 DEF TypeOK, OpenIds
  <2> QED
    BY <2>1, <2>2
<1> QED
  BY <1>7, <1>11, <1>12, <1>13, <1>14, <1>15 DEF TypeOK

\* A step that changes nothing keeps the types.
LEMMA TypeStutter == TypeOK /\ UNCHANGED vars => TypeOK'
BY DEF TypeOK, vars, bookkeeping, exposure, counters, OpenIds

\* Every step keeps the types.
LEMMA TypeNext == TypeOK /\ [Next]_vars => TypeOK'
<1> SUFFICES ASSUME TypeOK, [Next]_vars
             PROVE  TypeOK'
  OBVIOUS
<1>1. ASSUME NEW side \in Side, NEW price \in Price, NEW qty \in Qty, NEW type \in Types,
             SendNew(side, price, qty, type)
      PROVE  TypeOK'
  BY <1>1, TypeSendNew
<1>2. ASSUME NEW side \in Side, NEW price \in Price, NEW qty \in Qty,
             SendRefused(side, price, qty)
      PROVE  TypeOK'
  BY <1>2, TypeStutter DEF SendRefused
<1>3. ASSUME NEW p \in Price \cup {0}, SetReferencePrice(p)
      PROVE  TypeOK'
  <2>1. ref_price' \in Nat
    BY <1>3, InputsAssumption DEF SetReferencePrice, InputsAssumption
  <2>2. UNCHANGED <<bookkeeping, exposure, counters, stats>>
    BY <1>3 DEF SetReferencePrice
  <2> QED
    BY <2>1, <2>2 DEF TypeOK, bookkeeping, exposure, counters, OpenIds
<1>4. ASSUME NEW r \in Report, OnExecution(r)
      PROVE  TypeOK'
  BY <1>4, TypeStutter, TypeNewAck, TypeFill, TypeCancelAck, TypeReject
  DEF OnExecution, OnIgnored
<1>5. CASE UNCHANGED vars
  BY <1>5, TypeStutter
<1> QED
  BY <1>1, <1>2, <1>3, <1>4, <1>5 DEF Next, Request

\* Every variable of the OMS keeps its type: no counter that the code holds in an
\* unsigned integer is ever decremented below zero, whatever is reported.
THEOREM TypeCorrect == Spec => []TypeOK
BY TypeInit, TypeNext, PTL DEF Spec

-----------------------------------------------------------------------------
(* Slots: the array, the map and the free stack *)

\* The set of ids in a given status after order id was rewritten in place: the
\* other orders live in other slots.
LEMMA RewriteOne ==
    ASSUME TypeOK, SlotDiscipline, NEW id \in OpenIds, NEW o \in Order,
           orders' = [orders EXCEPT ![order_map[id]] = o]
    PROVE  /\ orders'[order_map[id]] = o
           /\ \A i \in OpenIds \ {id} : orders'[order_map[i]] = orders[order_map[i]]
<1>1. /\ orders \in [Slot -> Order]
      /\ \A i \in OpenIds : order_map[i] \in Slot
  BY DEF TypeOK
<1>2. \A i \in OpenIds \ {id} : order_map[i] # order_map[id]
  BY DEF SlotDiscipline, MapInjective
<1> QED
  BY <1>1, <1>2

\* Rewriting an open order in place, without ending it, keeps the discipline.
LEMMA SlotsUpdate ==
    ASSUME TypeOK, SlotDiscipline, NEW id \in OpenIds, NEW o \in Order,
           orders' = [orders EXCEPT ![order_map[id]] = o],
           o.id = id, o.status \in {"Live", "PartiallyFilled"},
           UNCHANGED <<order_map, free_stack, next_fresh_slot>>
    PROVE  /\ SlotDiscipline'
           /\ OpenIds' = OpenIds
           /\ OpenWith({"Sent"})' = OpenWith({"Sent"}) \ {id}
           /\ OrderOf(id)' = o /\ \A i \in OpenIds \ {id} : OrderOf(i)' = OrderOf(i)
<1>1. OpenIds' = OpenIds
  BY DEF OpenIds
<1>2. OrderOf(id)' = o /\ \A i \in OpenIds \ {id} : OrderOf(i)' = OrderOf(i)
  <2>1. /\ orders'[order_map[id]] = o
        /\ \A i \in OpenIds \ {id} : orders'[order_map[i]] = orders[order_map[i]]
    BY RewriteOne
  <2>2. order_map' = order_map
    OBVIOUS
  <2> QED
    BY <2>1, <2>2, Zenon DEF OrderOf
<1>3. MapFindsOrder'
  BY <1>1, <1>2 DEF SlotDiscipline, MapFindsOrder, OpenStatus
<1>4. OpenWith({"Sent"})' = OpenWith({"Sent"}) \ {id}
  BY <1>1, <1>2 DEF OpenWith
<1>5. MapInjective' /\ StackDistinct' /\ StackDisjoint' /\ SlotsAccounted'
  BY <1>1 DEF SlotDiscipline, MapInjective, StackDistinct, StackDisjoint, SlotsAccounted,
              OpenSlots, FreeSlots
<1> QED
  BY <1>1, <1>2, <1>3, <1>4, <1>5 DEF SlotDiscipline

\* Ending an order keeps the discipline: its slot moves from the map to the stack.
LEMMA SlotsEnd ==
    ASSUME TypeOK, SlotDiscipline, NEW id \in OpenIds, NEW o \in Order,
           orders' = [orders EXCEPT ![order_map[id]] = o],
           FreeSlot(id),
           UNCHANGED <<next_id, next_fresh_slot>>
    PROVE  /\ SlotDiscipline'
           /\ OpenIds' = OpenIds \ {id}
           /\ OpenWith({"Sent"})' = OpenWith({"Sent"}) \ {id}
           /\ \A i \in OpenIds' : OrderOf(i)' = OrderOf(i)
<1> DEFINE n == Len(free_stack)
<1>1. OpenIds' = OpenIds \ {id}
  BY FreeSlotType
<1>2. \A i \in OpenIds' : order_map'[i] = order_map[i]
  BY <1>1 DEF FreeSlot
<1>3. \A i \in OpenIds' : OrderOf(i)' = OrderOf(i)
  BY <1>1, <1>2, RewriteOne DEF OrderOf
<1>4. /\ n \in Nat
      /\ Len(free_stack') = n + 1
      /\ \A i \in 1 .. n : free_stack'[i] = free_stack[i]
      /\ free_stack'[n + 1] = order_map[id]
  <2>1. free_stack \in Seq(Slot) /\ order_map[id] \in Slot
    BY DEF TypeOK
  <2>2. free_stack' = Append(free_stack, order_map[id])
    BY DEF FreeSlot
  <2> QED
    BY <2>1, <2>2, AppendProperties
<1> HIDE DEF n
<1>5. MapInjective'
  BY <1>1, <1>2 DEF SlotDiscipline, MapInjective
<1>6. MapFindsOrder'
  BY <1>1, <1>3 DEF SlotDiscipline, MapFindsOrder
<1>7. \A i, j \in 1 .. n : free_stack[i] = free_stack[j] => i = j
  BY DEF SlotDiscipline, StackDistinct, n
<1>8. \A k \in OpenIds, i \in 1 .. n : order_map[k] # free_stack[i]
  BY DEF SlotDiscipline, StackDisjoint, n
<1>9. StackDistinct'
  BY <1>4, <1>7, <1>8 DEF StackDistinct
<1>10. StackDisjoint'
  <2> SUFFICES ASSUME NEW k \in OpenIds', NEW i \in 1 .. n + 1
               PROVE  order_map'[k] # free_stack'[i]
    BY <1>4 DEF StackDisjoint
  <2>1. order_map'[k] = order_map[k] /\ k \in OpenIds /\ k # id
    BY <1>1, <1>2
  <2>2. CASE i \in 1 .. n
    BY <2>1, <2>2, <1>4, <1>8
  <2>3. CASE i = n + 1
    BY <2>1, <2>3, <1>4 DEF SlotDiscipline, MapInjective
  <2> QED
    BY <2>2, <2>3, <1>4
<1>11. SlotsAccounted'
  <2>1. OpenSlots' = OpenSlots \ {order_map[id]}
    BY <1>1, <1>2 DEF OpenSlots, SlotDiscipline, MapInjective
  <2>2. FreeSlots' = FreeSlots \cup {order_map[id]}
    BY <1>4 DEF FreeSlots, n
  <2>3. order_map[id] \in OpenSlots
    BY DEF OpenSlots
  <2> QED
    BY <2>1, <2>2, <2>3 DEF SlotDiscipline, SlotsAccounted
<1>12. OpenWith({"Sent"})' = OpenWith({"Sent"}) \ {id}
  BY <1>1, <1>3 DEF OpenWith
<1> QED
  BY <1>1, <1>3, <1>5, <1>6, <1>9, <1>10, <1>11, <1>12 DEF SlotDiscipline

\* A new order keeps the discipline: alloc_slot returns a slot nobody owns.
LEMMA SlotsSend ==
    ASSUME TypeOK, SlotDiscipline,
           NEW side \in Side, NEW price \in Price, NEW qty \in Qty, NEW type \in Types,
           SendNew(side, price, qty, type)
    PROVE  /\ SlotDiscipline'
           /\ next_id \notin OpenIds
           /\ OpenIds' = OpenIds \cup {next_id}
           /\ OpenWith({"Sent"})' = OpenWith({"Sent"}) \cup {next_id}
           /\ orders'[order_map'[next_id]] =
                [id |-> next_id, price |-> price, qty |-> qty, filled_qty |-> 0,
                 leaves_qty |-> qty, side |-> side, type |-> type, status |-> "Sent"]
           /\ \A i \in OpenIds : OrderOf(i)' = OrderOf(i)
<1> DEFINE s == AllocSlot
           o == [id |-> next_id, price |-> price, qty |-> qty, filled_qty |-> 0,
                 leaves_qty |-> qty, side |-> side, type |-> type, status |-> "Sent"]
           n == Len(free_stack)
<1>1. /\ HasSlot
      /\ orders' = [orders EXCEPT ![s] = o]
      /\ order_map' = [i \in OpenIds \cup {next_id} |-> IF i = next_id THEN s ELSE order_map[i]]
  BY DEF SendNew
<1>2. next_id \notin OpenIds
  BY DEF TypeOK
<1>3. s \in Slot
  BY <1>1, AllocSlotType
<1>4. OpenIds' = OpenIds \cup {next_id}
  BY <1>1 DEF OpenIds
<1>5. order_map'[next_id] = s /\ \A i \in OpenIds : order_map'[i] = order_map[i]
  BY <1>1, <1>2
<1>6. n \in Nat /\ next_fresh_slot \in Nat /\ free_stack \in Seq(Slot)
  BY SlotsAssumption DEF TypeOK, SlotsAssumption
<1>7. o.id = next_id /\ o.status = "Sent"
  OBVIOUS
<1>8. /\ \A k \in OpenIds : order_map[k] # s
      /\ StackDistinct'
      /\ \A k \in OpenIds, i \in 1 .. Len(free_stack') : order_map[k] # free_stack'[i]
      /\ \A i \in 1 .. Len(free_stack') : s # free_stack'[i]
      /\ OpenSlots \cup {s} \cup FreeSlots' = 0 .. next_fresh_slot' - 1
  <2>1. CASE free_stack # << >>
    <3>1. /\ free_stack' = SubSeq(free_stack, 1, n - 1)
          /\ next_fresh_slot' = next_fresh_slot
          /\ s = free_stack[n]
      BY <2>1 DEF SendNew, AllocSlot
    <3>2. n >= 1
      BY <2>1, <1>6
    <3>3. Len(free_stack') = n - 1 /\ \A i \in 1 .. n - 1 : free_stack'[i] = free_stack[i]
      <4>1. \A i \in 1 .. n - 1 : free_stack[i] \in Slot
        BY <1>6
      <4>2. 1 \in Int /\ n - 1 \in Int
        BY <1>6
      <4>3. /\ Len(SubSeq(free_stack, 1, n - 1)) = IF 1 <= n - 1 THEN (n - 1) - 1 + 1 ELSE 0
            /\ \A i \in 1 .. (n - 1) - 1 + 1 :
                    SubSeq(free_stack, 1, n - 1)[i] = free_stack[1 + i - 1]
        BY <4>1, <4>2, SubSeqProperties
      <4> HIDE DEF n
      <4> QED
        BY <3>1, <3>2, <4>3, <1>6
    <3> HIDE DEF s, n
    <3>4. \A i, j \in 1 .. n : free_stack[i] = free_stack[j] => i = j
      BY DEF SlotDiscipline, StackDistinct, n
    <3>5. \A k \in OpenIds, i \in 1 .. n : order_map[k] # free_stack[i]
      BY DEF SlotDiscipline, StackDisjoint, n
    <3>6. \A k \in OpenIds : order_map[k] # s
      BY <3>1, <3>2, <3>5, <1>6
    <3>7. StackDistinct'
      BY <3>3, <3>4, <1>6 DEF StackDistinct
    <3>8. \A k \in OpenIds, i \in 1 .. Len(free_stack') : order_map[k] # free_stack'[i]
      BY <3>3, <3>5, <1>6
    <3>9. \A i \in 1 .. Len(free_stack') : s # free_stack'[i]
      BY <3>1, <3>2, <3>3, <3>4, <1>6
    <3>10. FreeSlots = FreeSlots' \cup {s}
      BY <3>1, <3>2, <3>3, <1>6 DEF FreeSlots, n
    <3> QED
      BY <3>1, <3>6, <3>7, <3>8, <3>9, <3>10 DEF SlotDiscipline, SlotsAccounted
  <2>2. CASE free_stack = << >>
    <3>1. free_stack' = free_stack /\ next_fresh_slot' = next_fresh_slot + 1
          /\ s = next_fresh_slot
      BY <2>2 DEF SendNew, AllocSlot
    <3> HIDE DEF s, n
    <3>2. OpenSlots \cup FreeSlots = 0 .. next_fresh_slot - 1
      BY DEF SlotDiscipline, SlotsAccounted
    <3>3. s \notin OpenSlots /\ s \notin FreeSlots
      BY <3>1, <3>2, <1>6
    <3>4. FreeSlots' = FreeSlots
      BY <3>1 DEF FreeSlots
    <3>5. OpenSlots \cup {s} \cup FreeSlots' = 0 .. next_fresh_slot' - 1
      BY <3>1, <3>2, <3>4, <1>6
    <3> QED
      BY <3>1, <3>3, <3>5
      DEF SlotDiscipline, StackDistinct, StackDisjoint, OpenSlots, FreeSlots
  <2> QED
    BY <2>1, <2>2
<1>9. orders \in [Slot -> Order] /\ \A i \in OpenIds : order_map[i] \in Slot
  BY DEF TypeOK
<1> HIDE DEF s, o, n
<1>10. /\ orders'[order_map'[next_id]] = o
       /\ \A i \in OpenIds : orders'[order_map'[i]] = orders[order_map[i]]
  <2>1. orders'[s] = o /\ \A i \in OpenIds : orders'[order_map[i]] = orders[order_map[i]]
    BY <1>1, <1>3, <1>8, <1>9
  <2> QED
    BY <2>1, <1>5
<1>11. MapInjective'
  BY <1>4, <1>5, <1>8 DEF SlotDiscipline, MapInjective
<1>12. MapFindsOrder'
  BY <1>4, <1>7, <1>10 DEF SlotDiscipline, MapFindsOrder, OrderOf, OpenStatus
<1>13. StackDisjoint'
  BY <1>4, <1>5, <1>8 DEF StackDisjoint
<1>14. SlotsAccounted'
  <2>1. OpenSlots' = OpenSlots \cup {s}
    BY <1>4, <1>5 DEF OpenSlots
  <2> QED
    BY <2>1, <1>8 DEF SlotsAccounted
<1>15. OpenWith({"Sent"})' = OpenWith({"Sent"}) \cup {next_id}
  BY <1>4, <1>7, <1>10 DEF OpenWith, OrderOf
<1>16. \A i \in OpenIds : OrderOf(i)' = OrderOf(i)
  BY <1>10 DEF OrderOf
<1> QED
  BY <1>2, <1>4, <1>8, <1>10, <1>11, <1>12, <1>13, <1>14, <1>15, <1>16 DEF SlotDiscipline, o

-----------------------------------------------------------------------------
(* The inductive invariant *)

IInv == TypeOK /\ SlotDiscipline /\ CountersCoverOpenOrders /\ OpenOrdersWithinLimit

\* Only finitely many orders are open.
LEMMA OpenFinite ==
    ASSUME TypeOK
    PROVE  /\ IsFiniteSet(OpenIds) /\ IsFiniteSet(OpenWith({"Sent"}))
           /\ Cardinality(OpenIds) \in Nat /\ Cardinality(OpenWith({"Sent"})) \in Nat
<1>1. next_id - 1 \in Int /\ OpenIds \in SUBSET (1 .. next_id - 1)
  BY BoundsAssumption DEF TypeOK, BoundsAssumption
<1>2. IsFiniteSet(1 .. next_id - 1)
  BY <1>1, FS_Interval
<1>3. IsFiniteSet(OpenIds)
  BY <1>1, <1>2, FS_Subset
<1>4. OpenWith({"Sent"}) \in SUBSET OpenIds
  BY DEF OpenWith
<1>5. IsFiniteSet(OpenWith({"Sent"}))
  BY <1>3, <1>4, FS_Subset
<1> QED
  BY <1>3, <1>5, FS_CardinalityType

\* Arithmetic of the two counters against a number of orders, while none ends.
LEMMA CoverArith ==
    ASSUME NEW p \in Nat, NEW l \in Nat, NEW p1 \in Nat, NEW l1 \in Nat, NEW c \in Nat,
           NEW m \in Nat, l + p >= c, c <= m, p1 + l1 >= p + l
    PROVE  l1 + p1 >= c
OBVIOUS

\* The same when one order ends.
LEMMA CoverArithEnd ==
    ASSUME NEW p \in Nat, NEW l \in Nat, NEW p1 \in Nat, NEW l1 \in Nat, NEW c \in Nat,
           NEW m \in Nat, l + p >= c, c <= m, p1 + l1 >= p + l - 1
    PROVE  l1 + p1 >= c - 1 /\ c - 1 <= m
OBVIOUS

\* Lowering one of two counters by at most one lowers their sum by at most one.
LEMMA SumArith ==
    \A p, l, l1 \in Nat : l1 >= l - 1 => /\ p + l1 >= p + l - 1
                                        /\ l1 + p >= l + p - 1
OBVIOUS

\* The same after an order moved from the first counter to the second.
LEMMA MoveArith ==
    ASSUME NEW p \in Nat, NEW l \in Nat, NEW p1 \in Nat, NEW k \in Nat, NEW l1 \in Nat,
           p1 + k = p + l, l1 >= k - 1
    PROVE  p1 + l1 >= p + l - 1
OBVIOUS

\* The counters still cover the open orders after one of them ended, when neither
\* counter fell by more than the orders it stands for.
LEMMA CountersEnd ==
    ASSUME IInv, NEW id \in OpenIds,
           OpenIds' = OpenIds \ {id},
           OpenWith({"Sent"})' = OpenWith({"Sent"}) \ {id},
           pending_new' \in Nat, live_orders' \in Nat,
           pending_new' >= pending_new - 1,
           OrderOf(id).status # "Sent" => pending_new' >= pending_new,
           pending_new' + live_orders' >= pending_new + live_orders - 1
    PROVE  CountersCoverOpenOrders' /\ OpenOrdersWithinLimit'
<1> DEFINE c == Cardinality(OpenIds)
           d == Cardinality(OpenWith({"Sent"}))
           w == IF OrderOf(id).status = "Sent" THEN 1 ELSE 0
<1>1. TypeOK /\ pending_new >= d /\ live_orders + pending_new >= c /\ c <= max_live_orders
  BY DEF IInv, CountersCoverOpenOrders, OpenOrdersWithinLimit
<1>2. IsFiniteSet(OpenIds) /\ IsFiniteSet(OpenWith({"Sent"})) /\ c \in Nat /\ d \in Nat
  BY <1>1, OpenFinite
<1>3. Cardinality(OpenIds') = c - 1
  BY <1>2, OneLess
<1>4. Cardinality(OpenWith({"Sent"})') = d - w
  <2>1. id \in OpenWith({"Sent"}) <=> OrderOf(id).status = "Sent"
    BY DEF OpenWith
  <2> QED
    BY <1>2, <2>1, OneLess
<1>5. pending_new \in Nat /\ live_orders \in Nat /\ max_live_orders \in Nat
  BY <1>1, LimitsAssumption DEF TypeOK, LimitsAssumption
<1>6. w \in {0, 1} /\ pending_new' >= pending_new - w
  BY <1>5
<1> HIDE DEF c, d, w
<1>7. pending_new' >= Cardinality(OpenWith({"Sent"})')
  BY <1>1, <1>2, <1>3, <1>4, <1>5, <1>6
<1>8. live_orders' + pending_new' >= c - 1 /\ c - 1 <= max_live_orders
  <2>1. pending_new' \in Nat /\ live_orders' \in Nat
        /\ pending_new' + live_orders' >= pending_new + live_orders - 1
    OBVIOUS
  <2>2. live_orders + pending_new >= c /\ c <= max_live_orders
    BY <1>1
  <2> QED
    BY <2>1, <2>2, <1>2, <1>5, CoverArithEnd, Zenon
<1> QED
  BY <1>3, <1>5, <1>7, <1>8 DEF CountersCoverOpenOrders, OpenOrdersWithinLimit

\* The same after an open order was rewritten in place: it is no longer Sent.
LEMMA CountersUpdate ==
    ASSUME IInv, NEW id \in OpenIds,
           OpenIds' = OpenIds,
           OpenWith({"Sent"})' = OpenWith({"Sent"}) \ {id},
           pending_new' \in Nat, live_orders' \in Nat,
           pending_new' >= pending_new - 1,
           OrderOf(id).status # "Sent" => pending_new' >= pending_new,
           pending_new' + live_orders' >= pending_new + live_orders
    PROVE  CountersCoverOpenOrders' /\ OpenOrdersWithinLimit'
<1> DEFINE c == Cardinality(OpenIds)
           d == Cardinality(OpenWith({"Sent"}))
           w == IF OrderOf(id).status = "Sent" THEN 1 ELSE 0
<1>1. TypeOK /\ pending_new >= d /\ live_orders + pending_new >= c /\ c <= max_live_orders
  BY DEF IInv, CountersCoverOpenOrders, OpenOrdersWithinLimit
<1>2. IsFiniteSet(OpenWith({"Sent"})) /\ c \in Nat /\ d \in Nat
  BY <1>1, OpenFinite
<1>3. Cardinality(OpenWith({"Sent"})') = d - w
  <2>1. id \in OpenWith({"Sent"}) <=> OrderOf(id).status = "Sent"
    BY DEF OpenWith
  <2> QED
    BY <1>2, <2>1, OneLess
<1>4. pending_new \in Nat /\ live_orders \in Nat /\ max_live_orders \in Nat
  BY <1>1, LimitsAssumption DEF TypeOK, LimitsAssumption
<1>5. Cardinality(OpenIds') = c
  OBVIOUS
<1>6. w \in {0, 1} /\ pending_new' >= pending_new - w
  BY <1>4
<1> HIDE DEF c, d, w
<1>7. pending_new' >= Cardinality(OpenWith({"Sent"})')
  BY <1>1, <1>2, <1>3, <1>4, <1>5, <1>6
<1>8. live_orders' + pending_new' >= c /\ c <= max_live_orders
  BY <1>1, <1>2, <1>4, CoverArith, Zenon
<1> QED
  BY <1>2, <1>5, <1>7, <1>8 DEF CountersCoverOpenOrders, OpenOrdersWithinLimit

\* A Sent order is counted by pending_new, so that the decrement is a real one.
LEMMA SentIsPending ==
    ASSUME IInv, NEW id \in OpenIds, OrderOf(id).status = "Sent"
    PROVE  pending_new > 0 /\ Dec(pending_new) = pending_new - 1
<1>1. TypeOK /\ pending_new >= Cardinality(OpenWith({"Sent"})) /\ pending_new \in Nat
  BY DEF IInv, CountersCoverOpenOrders, TypeOK
<1>2. id \in OpenWith({"Sent"}) /\ IsFiniteSet(OpenWith({"Sent"}))
  BY <1>1, OpenFinite DEF OpenWith
<1>3. Cardinality(OpenWith({"Sent"})) >= 1 /\ Cardinality(OpenWith({"Sent"})) \in Nat
  BY <1>2, OneLess
<1> QED
  BY <1>1, <1>3, DecNat

\* A change of status, seen as a rewrite of the whole order.
LEMMA StatusRewrite ==
    ASSUME TypeOK, NEW id \in OpenIds, NEW st \in OrderStatus,
           orders' = [orders EXCEPT ![order_map[id]].status = st]
    PROVE  \E o \in Order : /\ orders' = [orders EXCEPT ![order_map[id]] = o]
                            /\ o.id = OrderOf(id).id
                            /\ o.status = st
<1>1. orders \in [Slot -> Order] /\ order_map[id] \in Slot
  BY DEF TypeOK
<1> DEFINE o == [orders[order_map[id]] EXCEPT !.status = st]
<1>2. o \in Order /\ o.id = OrderOf(id).id /\ o.status = st
  BY <1>1 DEF Order, OrderOf
<1>3. orders' = [orders EXCEPT ![order_map[id]] = o]
  OBVIOUS
<1> HIDE DEF o
<1> QED
  BY <1>2, <1>3

\* send_new keeps the invariant: the counters grow with the set of open orders,
\* and check_risk left room for one more.
LEMMA IInvSendNew ==
    ASSUME IInv, NEW side \in Side, NEW price \in Price, NEW qty \in Qty, NEW type \in Types,
           SendNew(side, price, qty, type)
    PROVE  IInv'
<1> DEFINE c == Cardinality(OpenIds)
           d == Cardinality(OpenWith({"Sent"}))
<1>1. TypeOK /\ SlotDiscipline
  BY DEF IInv
<1>2. TypeOK'
  BY <1>1, TypeSendNew
<1>3. /\ SlotDiscipline' /\ next_id \notin OpenIds
      /\ OpenIds' = OpenIds \cup {next_id}
      /\ OpenWith({"Sent"})' = OpenWith({"Sent"}) \cup {next_id}
  BY <1>1, SlotsSend
<1>4. IsFiniteSet(OpenIds) /\ IsFiniteSet(OpenWith({"Sent"})) /\ c \in Nat /\ d \in Nat
  BY <1>1, OpenFinite
<1>5. Cardinality(OpenIds') = c + 1
  BY <1>3, <1>4, FS_AddElement
<1>6. Cardinality(OpenWith({"Sent"})') = d + 1
  <2>1. next_id \notin OpenWith({"Sent"})
    BY <1>3 DEF OpenWith
  <2> QED
    BY <2>1, <1>3, <1>4, FS_AddElement
<1>7. /\ pending_new' = pending_new + 1 /\ live_orders' = live_orders
      /\ live_orders + pending_new < max_live_orders
  BY DEF SendNew, CheckRisk
<1>8. pending_new \in Nat /\ live_orders \in Nat /\ max_live_orders \in Nat
  BY <1>1, LimitsAssumption DEF TypeOK, LimitsAssumption
<1>9. pending_new >= d /\ live_orders + pending_new >= c
  BY DEF IInv, CountersCoverOpenOrders
<1> HIDE DEF c, d
<1>10. /\ pending_new' >= d + 1 /\ live_orders' + pending_new' >= c + 1
       /\ c + 1 <= max_live_orders
  BY <1>4, <1>7, <1>8, <1>9
<1> QED
  BY <1>2, <1>3, <1>5, <1>6, <1>10 DEF IInv, CountersCoverOpenOrders, OpenOrdersWithinLimit

\* A NewAck keeps the invariant: one order moves from one counter to the other.
LEMMA IInvNewAck ==
    ASSUME IInv, NEW r \in Report, OnNewAck(r)
    PROVE  IInv'
<1>1. TypeOK /\ SlotDiscipline
  BY DEF IInv
<1>2. TypeOK'
  BY <1>1, TypeNewAck
<1>3. /\ ~ Ignored(r) /\ r.exec_type = "NewAck"
      /\ orders' = [orders EXCEPT ![order_map[r.order_id]].status = "Live"]
      /\ pending_new' = Dec(pending_new) /\ live_orders' = live_orders + 1
      /\ UNCHANGED <<order_map, free_stack, next_fresh_slot>>
  BY DEF OnNewAck
<1>4. PICK id \in OpenIds : id = r.order_id
  BY <1>1, <1>3, ReportType
<1>5. OrderOf(id).status = "Sent"
  BY <1>3, <1>4 DEF Ignored
<1>6. PICK o \in Order : /\ orders' = [orders EXCEPT ![order_map[id]] = o]
                         /\ o.id = OrderOf(id).id /\ o.status = "Live"
  BY <1>1, <1>3, <1>4, StatusRewrite DEF OrderStatus, OpenStatus
<1>7. o.id = id
  BY <1>1, <1>6 DEF SlotDiscipline, MapFindsOrder
<1>8. /\ SlotDiscipline' /\ OpenIds' = OpenIds
      /\ OpenWith({"Sent"})' = OpenWith({"Sent"}) \ {id}
  BY <1>1, <1>3, <1>6, <1>7, SlotsUpdate
<1>9. /\ pending_new \in Nat /\ live_orders \in Nat
      /\ pending_new' = pending_new - 1 /\ pending_new > 0
  BY <1>1, <1>3, <1>5, SentIsPending DEF TypeOK
<1>10. /\ pending_new' \in Nat /\ live_orders' \in Nat
       /\ pending_new' >= pending_new - 1
       /\ pending_new' + live_orders' >= pending_new + live_orders
  BY <1>3, <1>9
<1>11. CountersCoverOpenOrders' /\ OpenOrdersWithinLimit'
  BY <1>5, <1>8, <1>10, CountersUpdate
<1> QED
  BY <1>2, <1>8, <1>11 DEF IInv

\* A CancelAck keeps the invariant: it takes one order away and lowers the sum of
\* the counters by at most one, even when it lowers the wrong one.
LEMMA IInvCancelAck ==
    ASSUME IInv, NEW r \in Report, OnCancelAck(r)
    PROVE  IInv'
<1>1. TypeOK /\ SlotDiscipline
  BY DEF IInv
<1>2. TypeOK'
  BY <1>1, TypeCancelAck
<1>3. /\ ~ Ignored(r) /\ FreeSlot(r.order_id)
      /\ orders' = [orders EXCEPT ![order_map[r.order_id]].status = "Cancelled"]
      /\ live_orders' = Dec(live_orders)
      /\ UNCHANGED <<next_id, next_fresh_slot, pending_new>>
  BY DEF OnCancelAck
<1>4. PICK id \in OpenIds : id = r.order_id
  BY <1>1, <1>3, ReportType
<1>5. PICK o \in Order : orders' = [orders EXCEPT ![order_map[id]] = o]
  BY <1>1, <1>3, <1>4, StatusRewrite DEF OrderStatus
<1>6. FreeSlot(id)
  BY <1>3, <1>4
<1>7. /\ SlotDiscipline' /\ OpenIds' = OpenIds \ {id}
      /\ OpenWith({"Sent"})' = OpenWith({"Sent"}) \ {id}
  BY <1>1, <1>3, <1>5, <1>6, SlotsEnd
<1>8. /\ pending_new \in Nat /\ live_orders \in Nat /\ pending_new' = pending_new
      /\ live_orders' \in Nat /\ live_orders' >= live_orders - 1
  BY <1>1, <1>3, DecNat DEF TypeOK
<1>9. /\ pending_new' \in Nat /\ live_orders' \in Nat
      /\ pending_new' >= pending_new - 1 /\ pending_new' >= pending_new
      /\ pending_new' + live_orders' >= pending_new + live_orders - 1
  <2>1. pending_new' \in Nat
    BY <1>8
  <2>2. pending_new' >= pending_new - 1
    BY <1>8
  <2>3. pending_new' >= pending_new
    BY <1>8
  <2>4. pending_new' + live_orders' >= pending_new + live_orders - 1
    BY <1>8, SumArith, Zenon
  <2> QED
    BY <1>8, <2>1, <2>2, <2>3, <2>4
<1>10. CountersCoverOpenOrders' /\ OpenOrdersWithinLimit'
  BY <1>7, <1>9, CountersEnd
<1> QED
  BY <1>2, <1>7, <1>10 DEF IInv

\* A Reject keeps the invariant, whether or not the order was still Sent.
LEMMA IInvReject ==
    ASSUME IInv, NEW r \in Report, OnReject(r)
    PROVE  IInv'
<1>1. TypeOK /\ SlotDiscipline
  BY DEF IInv
<1>2. TypeOK'
  BY <1>1, TypeReject
<1>3. /\ ~ Ignored(r) /\ FreeSlot(r.order_id)
      /\ orders' = [orders EXCEPT ![order_map[r.order_id]].status = "Rejected"]
      /\ UNCHANGED <<next_id, next_fresh_slot, live_orders>>
  BY DEF OnReject
<1>4. PICK id \in OpenIds : id = r.order_id
  BY <1>1, <1>3, ReportType
<1>5. PICK o \in Order : orders' = [orders EXCEPT ![order_map[id]] = o]
  BY <1>1, <1>3, <1>4, StatusRewrite DEF OrderStatus
<1>6. FreeSlot(id)
  BY <1>3, <1>4
<1>7. /\ SlotDiscipline' /\ OpenIds' = OpenIds \ {id}
      /\ OpenWith({"Sent"})' = OpenWith({"Sent"}) \ {id}
  BY <1>1, <1>3, <1>5, <1>6, SlotsEnd
<1>8. pending_new' = IF OrderOf(id).status = "Sent" THEN Dec(pending_new) ELSE pending_new
  BY <1>4 DEF OnReject
<1>9. pending_new \in Nat /\ live_orders \in Nat /\ live_orders' = live_orders
  BY <1>1, <1>3 DEF TypeOK
<1>10. /\ pending_new' \in Nat /\ pending_new' >= pending_new - 1
       /\ OrderOf(id).status # "Sent" => pending_new' >= pending_new
  BY <1>8, <1>9, DecNat
<1>11. pending_new' + live_orders' >= pending_new + live_orders - 1
  BY <1>9, <1>10, SumArith, Zenon
<1>12. CountersCoverOpenOrders' /\ OpenOrdersWithinLimit'
  BY <1>7, <1>9, <1>10, <1>11, CountersEnd
<1> QED
  BY <1>2, <1>7, <1>12 DEF IInv

\* A fill keeps the invariant: a fill of a Sent order is an acceptance as well.
LEMMA IInvFill ==
    ASSUME IInv, NEW r \in Report, OnFill(r)
    PROVE  IInv'
<1> DEFINE id   == r.order_id
           o    == OrderOf(id)
           fq   == r.fill_qty
           was  == IF o.status = "Sent" THEN 1 ELSE 0
           end  == FullyFilled(o, r)
           live == live_orders + was
           no   == [o EXCEPT !.filled_qty = @ + fq,
                             !.leaves_qty = LeavesAfter(o, fq),
                             !.status = IF end THEN "Filled" ELSE "PartiallyFilled"]
<1>1. TypeOK /\ SlotDiscipline
  BY DEF IInv
<1>2. TypeOK'
  BY <1>1, TypeFill
<1>3. ~ Ignored(r) /\ UNCHANGED <<next_id, next_fresh_slot>>
  BY DEF OnFill
<1>4. orders' = [orders EXCEPT ![order_map[id]] = no]
  BY DEF OnFill
<1>5. /\ pending_new' = IF o.status = "Sent" THEN Dec(pending_new) ELSE pending_new
      /\ live_orders' = IF end THEN Dec(live) ELSE live
  BY DEF OnFill
<1>6. IF end THEN FreeSlot(id) ELSE UNCHANGED <<order_map, free_stack>>
  BY DEF OnFill
<1>7. id \in OpenIds /\ o \in Order /\ order_map[id] \in Slot
  BY <1>1, <1>3, ReportType
<1>8. orders' \in [Slot -> Order] /\ orders \in [Slot -> Order]
  BY <1>1, <1>2 DEF TypeOK
<1>9. no.id = o.id /\ no.status = IF end THEN "Filled" ELSE "PartiallyFilled"
  BY <1>7 DEF Order
<1>10. o.id = id
  BY <1>1, <1>7 DEF SlotDiscipline, MapFindsOrder
<1>11. pending_new \in Nat /\ live_orders \in Nat /\ pending_new' \in Nat /\ live_orders' \in Nat
  BY <1>1, <1>2 DEF TypeOK
<1>12. o.status = "Sent" => pending_new' = pending_new - 1 /\ live = live_orders + 1
  BY <1>5, <1>7, SentIsPending
<1>13. o.status # "Sent" => pending_new' = pending_new /\ live = live_orders
  BY <1>5, <1>11
<1> HIDE DEF id, o, fq, was, end, live, no
<1>14. no \in Order
  BY <1>4, <1>7, <1>8
<1>15. /\ pending_new' >= pending_new - 1
       /\ o.status # "Sent" => pending_new' >= pending_new
       /\ live \in Nat /\ pending_new' + live = pending_new + live_orders
  BY <1>11, <1>12, <1>13
<1>a. OrderOf(id).status # "Sent" => pending_new' >= pending_new
  BY <1>15 DEF o
<1>b. pending_new + live_orders \in Nat
  BY <1>11
<1>16. CASE end
  <2>1. FreeSlot(id) /\ live_orders' = Dec(live)
    BY <1>16, <1>5, <1>6
  <2>2. /\ SlotDiscipline' /\ OpenIds' = OpenIds \ {id}
        /\ OpenWith({"Sent"})' = OpenWith({"Sent"}) \ {id}
    BY <1>1, <1>3, <1>4, <1>7, <1>14, <2>1, SlotsEnd
  <2>3. pending_new' + live_orders' >= pending_new + live_orders - 1
    <3>1. Dec(live) >= live - 1 /\ Dec(live) \in Nat
      BY <1>15, DecNat
    <3>2. live_orders' >= live - 1
      BY <3>1, <2>1, Zenon
    <3> QED
      BY <3>2, <1>11, <1>15, MoveArith, Zenon
  <2>4. CountersCoverOpenOrders' /\ OpenOrdersWithinLimit'
    BY <1>7, <1>11, <1>15, <1>a, <2>2, <2>3, CountersEnd, Zenon
  <2> QED
    BY <1>2, <2>2, <2>4 DEF IInv
<1>17. CASE ~ end
  <2>1. UNCHANGED <<order_map, free_stack>> /\ live_orders' = live
    BY <1>17, <1>5, <1>6
  <2>2. no.id = id /\ no.status \in {"Live", "PartiallyFilled"}
    BY <1>17, <1>9, <1>10
  <2>3. /\ SlotDiscipline' /\ OpenIds' = OpenIds
        /\ OpenWith({"Sent"})' = OpenWith({"Sent"}) \ {id}
    BY <1>1, <1>3, <1>4, <1>7, <1>14, <2>1, <2>2, SlotsUpdate
  <2>4. pending_new' + live_orders' >= pending_new + live_orders
    <3>1. pending_new' + live_orders' = pending_new + live_orders
      BY <2>1, <1>15, Zenon
    <3>2. pending_new + live_orders >= pending_new + live_orders
      BY <1>b
    <3> QED
      BY <3>1, <3>2, Zenon
  <2>5. CountersCoverOpenOrders' /\ OpenOrdersWithinLimit'
    BY <1>7, <1>11, <1>15, <1>a, <2>3, <2>4, CountersUpdate, Zenon
  <2> QED
    BY <1>2, <2>3, <2>5 DEF IInv
<1> QED
  BY <1>16, <1>17

\* A step that leaves the order book-keeping and the two counters alone.
LEMMA IInvFrame ==
    IInv /\ TypeOK' /\ UNCHANGED <<bookkeeping, counters>> => IInv'
BY DEF IInv, SlotDiscipline, MapInjective, MapFindsOrder, StackDistinct, StackDisjoint,
       SlotsAccounted, OpenSlots, FreeSlots, CountersCoverOpenOrders, OpenOrdersWithinLimit,
       OpenWith, OpenIds, OrderOf, bookkeeping, counters

\* The invariant holds at the start.
LEMMA IInvInit == Init => IInv
<1> SUFFICES ASSUME Init PROVE IInv
  OBVIOUS
<1>1. TypeOK
  BY TypeInit
<1>2. /\ OpenIds = {} /\ free_stack = << >> /\ next_fresh_slot = 0
      /\ live_orders = 0 /\ pending_new = 0
  BY DEF Init, OpenIds
<1>3. OpenWith({"Sent"}) = {}
  BY <1>2 DEF OpenWith
<1>4. Len(free_stack) = 0
  BY <1>2
<1>5. SlotDiscipline
  BY <1>2, <1>4 DEF SlotDiscipline, MapInjective, MapFindsOrder, StackDistinct, StackDisjoint,
                    SlotsAccounted, OpenSlots, FreeSlots
<1>6. CountersCoverOpenOrders /\ OpenOrdersWithinLimit
  BY <1>2, <1>3, FS_EmptySet, LimitsAssumption
  DEF CountersCoverOpenOrders, OpenOrdersWithinLimit, LimitsAssumption
<1> QED
  BY <1>1, <1>5, <1>6 DEF IInv

\* The invariant is inductive.
LEMMA IInvNext == IInv /\ [Next]_vars => IInv'
<1> SUFFICES ASSUME IInv, [Next]_vars
             PROVE  IInv'
  OBVIOUS
<1>0. TypeOK'
  BY TypeNext DEF IInv
<1>1. ASSUME NEW side \in Side, NEW price \in Price, NEW qty \in Qty, NEW type \in Types,
             SendNew(side, price, qty, type)
      PROVE  IInv'
  BY <1>1, IInvSendNew
<1>2. ASSUME UNCHANGED vars
      PROVE  IInv'
  BY <1>0, <1>2, IInvFrame DEF vars
<1>3. ASSUME NEW p \in Price \cup {0}, SetReferencePrice(p)
      PROVE  IInv'
  BY <1>0, <1>3, IInvFrame DEF SetReferencePrice
<1>4. ASSUME NEW r \in Report, OnExecution(r)
      PROVE  IInv'
  BY <1>2, <1>4, IInvNewAck, IInvFill, IInvCancelAck, IInvReject DEF OnExecution, OnIgnored
<1> QED
  BY <1>1, <1>2, <1>3, <1>4 DEF Next, Request, SendRefused

\* The slot array, the hash map and the free stack stay consistent under every
\* sequence of sends and reports.
THEOREM SlotsSafe == Spec => []SlotDiscipline
<1>1. IInv => SlotDiscipline
  BY DEF IInv
<1> QED
  BY <1>1, IInvInit, IInvNext, PTL DEF Spec

\* Never more than max_live_orders orders are open, whatever the exchange reports.
THEOREM OpenOrdersBounded == Spec => []OpenOrdersWithinLimit
<1>1. IInv => OpenOrdersWithinLimit
  BY DEF IInv
<1> QED
  BY <1>1, IInvInit, IInvNext, PTL DEF Spec

\* The sum that check_risk uses never falls below the number of open orders.
THEOREM CountersCover == Spec => []CountersCoverOpenOrders
<1>1. IInv => CountersCoverOpenOrders
  BY DEF IInv
<1> QED
  BY <1>1, IInvInit, IInvNext, PTL DEF Spec

\* When no slot is left, as many orders are open as there are slots.
LEMMA NoSlotLeft ==
    ASSUME IInv, ~ HasSlot
    PROVE  Cardinality(OpenIds) = MAX_ORDERS
<1>1. TypeOK /\ SlotDiscipline
  BY DEF IInv
<1>2. free_stack = << >> /\ next_fresh_slot = MAX_ORDERS
  BY <1>1, SlotsAssumption DEF HasSlot, TypeOK, SlotsAssumption
<1>3. FreeSlots = {}
  BY <1>2 DEF FreeSlots
<1>4. OpenSlots = Slot
  BY <1>1, <1>2, <1>3 DEF SlotDiscipline, SlotsAccounted, Slot
<1>5. order_map \in [OpenIds -> Slot]
  BY <1>1 DEF TypeOK
<1>6. order_map \in Injection(OpenIds, Slot)
  BY <1>1, <1>5 DEF SlotDiscipline, MapInjective, Injection, IsInjective
<1>7. order_map \in Surjection(OpenIds, Slot)
  BY <1>4, <1>5 DEF OpenSlots, Surjection
<1>8. IsFiniteSet(Slot) /\ Cardinality(Slot) = MAX_ORDERS
  BY FS_Interval, SlotsAssumption DEF Slot, SlotsAssumption
<1> QED
  BY <1>6, <1>7, <1>8, FS_Injection

\* An order that passes check_risk finds a slot: send_new never fails for want of one.
THEOREM SlotAvailable == Spec => []RiskCheckImpliesSlot
<1>1. IInv => RiskCheckImpliesSlot
  <2> SUFFICES ASSUME IInv, ~ HasSlot
               PROVE  ~ (live_orders + pending_new < max_live_orders)
    BY DEF RiskCheckImpliesSlot
  <2>1. Cardinality(OpenIds) = MAX_ORDERS
    BY NoSlotLeft
  <2>2. live_orders + pending_new >= MAX_ORDERS
    BY <2>1 DEF IInv, CountersCoverOpenOrders
  <2>3. live_orders \in Nat /\ pending_new \in Nat
    BY DEF IInv, TypeOK
  <2> QED
    BY <2>2, <2>3, SlotsAssumption, LimitsAssumption DEF SlotsAssumption, LimitsAssumption
<1> QED
  BY <1>1, IInvInit, IInvNext, PTL DEF Spec

-----------------------------------------------------------------------------
(* The ledger of fills *)

\* Buying at a price between the bounds moves the cash between its bounds.
LEMMA BuyArith ==
    ASSUME NEW lo \in Nat, NEW hi \in Nat, NEW p \in Nat, lo <= p, p <= hi,
           NEW b \in Nat, NEW s \in Nat, NEW q \in Nat, NEW c \in Int,
           c >= lo * s - hi * b, c <= hi * s - lo * b
    PROVE  /\ c - p * q >= lo * s - hi * (b + q)
           /\ c - p * q <= hi * s - lo * (b + q)
<1>1. lo * q <= p * q /\ p * q <= hi * q
  OBVIOUS
<1>2. hi * (b + q) = hi * b + hi * q /\ lo * (b + q) = lo * b + lo * q
  OBVIOUS
<1>3. /\ lo * q \in Nat /\ p * q \in Nat /\ hi * q \in Nat
      /\ lo * s \in Nat /\ hi * s \in Nat /\ lo * b \in Nat /\ hi * b \in Nat
  OBVIOUS
<1> QED
  BY <1>1, <1>2, <1>3

\* The same for selling, which adds to the cash.
LEMMA SellArith ==
    ASSUME NEW lo \in Nat, NEW hi \in Nat, NEW p \in Nat, lo <= p, p <= hi,
           NEW b \in Nat, NEW s \in Nat, NEW q \in Nat, NEW c \in Int,
           c >= lo * s - hi * b, c <= hi * s - lo * b
    PROVE  /\ c - p * (-q) >= lo * (s + q) - hi * b
           /\ c - p * (-q) <= hi * (s + q) - lo * b
<1>1. lo * q <= p * q /\ p * q <= hi * q
  OBVIOUS
<1>2. hi * (s + q) = hi * s + hi * q /\ lo * (s + q) = lo * s + lo * q /\ p * (-q) = -(p * q)
  OBVIOUS
<1>3. /\ lo * q \in Nat /\ p * q \in Nat /\ hi * q \in Nat
      /\ lo * s \in Nat /\ hi * s \in Nat /\ lo * b \in Nat /\ hi * b \in Nat
  OBVIOUS
<1> QED
  BY <1>1, <1>2, <1>3

\* The prices are finitely many, as the doubles of a feed are, and there is one.
FinitePrices == IsFiniteSet(Price) /\ Price # {}

\* The fields of the report that the ledger is about.
LedgerFields ==
    <<stats.buy_qty, stats.sell_qty, stats.total_filled_qty,
      stats.fills, stats.buy_fills, stats.sell_fills>>

\* A step that leaves position, cash and these fields alone keeps the ledger.
LEMMA LedgerFrame ==
    LedgerConsistent /\ UNCHANGED <<position, trading_cash, LedgerFields>> => LedgerConsistent'
BY DEF LedgerConsistent, LedgerFields

\* What a fill adds to the fields of the ledger.
LEMMA LedgerAfterFill ==
    ASSUME NEW o, o.side \in Side, NEW fq \in Nat, NEW was, stats \in Stats,
           stats' = StatsAfterFill(o, fq, was)
    PROVE  /\ stats'.total_filled_qty = stats.total_filled_qty + fq
           /\ stats'.fills = stats.fills + 1
           /\ o.side = "Buy" => /\ stats'.buy_qty = stats.buy_qty + fq
                                /\ stats'.sell_qty = stats.sell_qty
                                /\ stats'.buy_fills = stats.buy_fills + 1
                                /\ stats'.sell_fills = stats.sell_fills
           /\ o.side = "Sell" => /\ stats'.buy_qty = stats.buy_qty
                                 /\ stats'.sell_qty = stats.sell_qty + fq
                                 /\ stats'.buy_fills = stats.buy_fills
                                 /\ stats'.sell_fills = stats.sell_fills + 1
BY DEF StatsAfterFill, Stats, Side

\* A fill keeps the ledger.
LEMMA LedgerFill ==
    ASSUME FinitePrices, TypeOK, LedgerConsistent, NEW r \in Report, OnFill(r)
    PROVE  LedgerConsistent'
<1> DEFINE o   == OrderOf(r.order_id)
           fq  == r.fill_qty
           p   == r.fill_price
           was == IF o.status = "Sent" THEN 1 ELSE 0
           lo  == Min(Price)
           hi  == Max(Price)
           b   == stats.buy_qty
           s   == stats.sell_qty
<1>1. ~ Ignored(r)
  BY DEF OnFill
<1>2. /\ position' = position + Signed(o.side, fq)
      /\ trading_cash' = trading_cash - p * Signed(o.side, fq)
  BY DEF OnFill, apply_trading_fill
<1>3. stats' = StatsAfterFill(o, fq, was)
  BY DEF OnFill
<1>4. o \in Order /\ fq \in Nat /\ p \in Price
  BY <1>1, ReportType DEF Report
<1>5. o.side \in Side
  BY <1>4 DEF Order
<1>6. lo \in Nat /\ hi \in Nat /\ p \in Nat /\ lo <= p /\ p <= hi
  BY <1>4, MinMaxNat, InputsAssumption DEF FinitePrices, InputsAssumption
<1>7. /\ stats \in Stats /\ position \in Int /\ trading_cash \in Int
      /\ b \in Nat /\ s \in Nat
      /\ stats.fills \in Nat /\ stats.buy_fills \in Nat /\ stats.sell_fills \in Nat
  BY DEF TypeOK, Stats
<1>8. /\ position = b - s
      /\ stats.total_filled_qty = b + s
      /\ stats.fills = stats.buy_fills + stats.sell_fills
      /\ trading_cash >= lo * s - hi * b
      /\ trading_cash <= hi * s - lo * b
  BY DEF LedgerConsistent
<1> HIDE DEF o, fq, p, was, lo, hi, b, s
<1>9. CASE o.side = "Buy"
  <2>1. /\ stats'.total_filled_qty = stats.total_filled_qty + fq
        /\ stats'.fills = stats.fills + 1
        /\ stats'.buy_qty = b + fq /\ stats'.sell_qty = s
        /\ stats'.buy_fills = stats.buy_fills + 1 /\ stats'.sell_fills = stats.sell_fills
    BY <1>3, <1>4, <1>5, <1>7, <1>9, LedgerAfterFill DEF b, s
  <2>2. position' = position + fq /\ trading_cash' = trading_cash - p * fq
    BY <1>2, <1>9 DEF Signed
  <2>3. /\ trading_cash - p * fq >= lo * s - hi * (b + fq)
        /\ trading_cash - p * fq <= hi * s - lo * (b + fq)
    BY <1>4, <1>6, <1>7, <1>8, BuyArith
  <2>4. /\ position' = (b + fq) - s
        /\ stats'.total_filled_qty = (b + fq) + s
        /\ stats'.fills = stats'.buy_fills + stats'.sell_fills
    BY <2>1, <2>2, <1>4, <1>7, <1>8
  <2> QED
    BY <2>1, <2>2, <2>3, <2>4, Zenon DEF LedgerConsistent, lo, hi
<1>10. CASE o.side = "Sell"
  <2>1. /\ stats'.total_filled_qty = stats.total_filled_qty + fq
        /\ stats'.fills = stats.fills + 1
        /\ stats'.buy_qty = b /\ stats'.sell_qty = s + fq
        /\ stats'.buy_fills = stats.buy_fills /\ stats'.sell_fills = stats.sell_fills + 1
    BY <1>3, <1>4, <1>5, <1>7, <1>10, LedgerAfterFill DEF b, s
  <2>2. position' = position + (-fq) /\ trading_cash' = trading_cash - p * (-fq)
    BY <1>2, <1>10 DEF Signed
  <2>3. /\ trading_cash - p * (-fq) >= lo * (s + fq) - hi * b
        /\ trading_cash - p * (-fq) <= hi * (s + fq) - lo * b
    BY <1>4, <1>6, <1>7, <1>8, SellArith
  <2>4. /\ position' = b - (s + fq)
        /\ stats'.total_filled_qty = b + (s + fq)
        /\ stats'.fills = stats'.buy_fills + stats'.sell_fills
    BY <2>1, <2>2, <1>4, <1>7, <1>8
  <2> QED
    BY <2>1, <2>2, <2>3, <2>4, Zenon DEF LedgerConsistent, lo, hi
<1> QED
  BY <1>5, <1>9, <1>10 DEF Side

\* Every step keeps the ledger: only a fill moves it.
LEMMA LedgerNext ==
    ASSUME FinitePrices, TypeOK, LedgerConsistent, [Next]_vars
    PROVE  LedgerConsistent'
<1>0. stats \in Stats
  BY DEF TypeOK
<1>1. ASSUME NEW side \in Side, NEW price \in Price, NEW qty \in Qty, NEW type \in Types,
             SendNew(side, price, qty, type)
      PROVE  LedgerConsistent'
  <2>1. /\ stats' = [stats EXCEPT !.order_count = @ + 1]
        /\ UNCHANGED <<position, trading_cash>>
    BY <1>1 DEF SendNew
  <2>2. UNCHANGED LedgerFields
    BY <1>0, <2>1 DEF LedgerFields, Stats
  <2> QED
    BY <2>1, <2>2, LedgerFrame
<1>2. ASSUME UNCHANGED <<position, trading_cash, stats>>
      PROVE  LedgerConsistent'
  BY <1>2, LedgerFrame DEF LedgerFields
<1>3. ASSUME NEW r \in Report, OnNewAck(r)
      PROVE  LedgerConsistent'
  <2>1. /\ stats' = [stats EXCEPT !.accepted_orders = @ + 1]
        /\ UNCHANGED <<position, trading_cash>>
    BY <1>3 DEF OnNewAck, exposure
  <2>2. UNCHANGED LedgerFields
    BY <1>0, <2>1 DEF LedgerFields, Stats
  <2> QED
    BY <2>1, <2>2, LedgerFrame
<1>4. ASSUME NEW r \in Report, OnCancelAck(r)
      PROVE  LedgerConsistent'
  <2>1. \E m : stats' = [stats EXCEPT !.cancels = @ + 1, !.missed_ioc = m]
    BY <1>4 DEF OnCancelAck
  <2>2. UNCHANGED <<position, trading_cash>>
    BY <1>4 DEF OnCancelAck
  <2>3. UNCHANGED LedgerFields
    BY <1>0, <2>1 DEF LedgerFields, Stats
  <2> QED
    BY <2>2, <2>3, LedgerFrame
<1>5. ASSUME NEW r \in Report, OnReject(r)
      PROVE  LedgerConsistent'
  <2>1. /\ stats' = [stats EXCEPT !.rejects = @ + 1]
        /\ UNCHANGED <<position, trading_cash>>
    BY <1>5 DEF OnReject
  <2>2. UNCHANGED LedgerFields
    BY <1>0, <2>1 DEF LedgerFields, Stats
  <2> QED
    BY <2>1, <2>2, LedgerFrame
<1>6. ASSUME NEW r \in Report, OnExecution(r)
      PROVE  LedgerConsistent'
  BY <1>2, <1>3, <1>4, <1>5, <1>6, LedgerFill DEF OnExecution, OnIgnored, vars, exposure
<1> QED
  BY <1>1, <1>2, <1>6
  DEF Next, Request, SendRefused, SetReferencePrice, vars, exposure

\* The ledger holds at the start.
LEMMA LedgerInit == ASSUME FinitePrices, Init PROVE LedgerConsistent
<1> DEFINE lo == Min(Price)
           hi == Max(Price)
<1>1. lo \in Nat /\ hi \in Nat
  BY MinMaxNat, InputsAssumption DEF FinitePrices, InputsAssumption
<1>2. /\ position = 0 /\ trading_cash = 0
      /\ stats.buy_qty = 0 /\ stats.sell_qty = 0 /\ stats.total_filled_qty = 0
      /\ stats.fills = 0 /\ stats.buy_fills = 0 /\ stats.sell_fills = 0
  BY DEF Init
<1> HIDE DEF lo, hi
<1>3. lo * 0 - hi * 0 = 0 /\ hi * 0 - lo * 0 = 0
  BY <1>1
<1> QED
  BY <1>2, <1>3 DEF LedgerConsistent, lo, hi

\* Whatever the exchange reports, in whatever order and however often, the position
\* is the difference of what the fill counters say was bought and sold, and the cash
\* of apply_trading_fill is what these quantities can have cost.
THEOREM LedgerSound ==
    ASSUME FinitePrices
    PROVE  Spec => []LedgerConsistent
<1>1. Init => TypeOK /\ LedgerConsistent
  BY TypeInit, LedgerInit
<1>2. TypeOK /\ LedgerConsistent /\ [Next]_vars => TypeOK' /\ LedgerConsistent'
  BY TypeNext, LedgerNext
<1> QED
  BY <1>1, <1>2, PTL DEF Spec

-----------------------------------------------------------------------------
(* What each report does to the set of open orders *)

\* A change of status, seen as a rewrite of the whole order.
LEMMA StatusOnly ==
    ASSUME TypeOK, NEW id \in OpenIds, NEW st \in OrderStatus,
           orders' = [orders EXCEPT ![order_map[id]].status = st]
    PROVE  /\ [OrderOf(id) EXCEPT !.status = st] \in Order
           /\ orders' = [orders EXCEPT ![order_map[id]] = [OrderOf(id) EXCEPT !.status = st]]
           /\ orders'[order_map[id]].status = st
<1>1. orders \in [Slot -> Order] /\ order_map[id] \in Slot
  BY DEF TypeOK
<1>2. [OrderOf(id) EXCEPT !.status = st] \in Order
  BY <1>1 DEF Order, OrderOf
<1>3. orders' = [orders EXCEPT ![order_map[id]] = [OrderOf(id) EXCEPT !.status = st]]
  BY DEF OrderOf
<1>4. orders'[order_map[id]].status = st
  BY <1>1 DEF Order
<1> QED
  BY <1>2, <1>3, <1>4

\* The other orders, while order id is rewritten or ends.
OthersKept(id) == \A i \in OpenIds \ {id} : OrderOf(i)' = OrderOf(i)

\* Order id is rewritten as o and stays open.
Updated(id, o) ==
    /\ id \in OpenIds
    /\ OpenIds' = OpenIds
    /\ OpenWith({"Sent"})' = OpenWith({"Sent"}) \ {id}
    /\ OrderOf(id)' = o
    /\ OthersKept(id)

\* Order id ends.
Ended(id) ==
    /\ id \in OpenIds
    /\ OpenIds' = OpenIds \ {id}
    /\ OpenWith({"Sent"})' = OpenWith({"Sent"}) \ {id}
    /\ OthersKept(id)

\* The order that send_new puts into its slot.
NewOrder(side, price, qty, type) ==
    [id |-> next_id, price |-> price, qty |-> qty, filled_qty |-> 0,
     leaves_qty |-> qty, side |-> side, type |-> type, status |-> "Sent"]

\* Order n, which is o, is new.
Added(n, o) ==
    /\ n \notin OpenIds
    /\ OpenIds' = OpenIds \cup {n}
    /\ OpenWith({"Sent"})' = OpenWith({"Sent"}) \cup {n}
    /\ orders'[order_map'[n]] = o
    /\ \A i \in OpenIds : OrderOf(i)' = OrderOf(i)

\* send_new adds one order.
LEMMA ShapeSendNew ==
    ASSUME IInv, NEW side \in Side, NEW price \in Price, NEW qty \in Qty, NEW type \in Types,
           SendNew(side, price, qty, type)
    PROVE  Added(next_id, NewOrder(side, price, qty, type))
<1>1. TypeOK /\ SlotDiscipline
  BY DEF IInv
<1>2. /\ next_id \notin OpenIds
      /\ OpenIds' = OpenIds \cup {next_id}
      /\ OpenWith({"Sent"})' = OpenWith({"Sent"}) \cup {next_id}
      /\ \A i \in OpenIds : OrderOf(i)' = OrderOf(i)
  BY <1>1, SlotsSend
<1>3. orders'[order_map'[next_id]] = NewOrder(side, price, qty, type)
  BY <1>1, SlotsSend DEF NewOrder
<1> QED
  BY <1>2, <1>3 DEF Added

\* A NewAck moves one Sent order to Live.
LEMMA ShapeNewAck ==
    ASSUME IInv, NEW r \in Report, OnNewAck(r)
    PROVE  /\ OrderOf(r.order_id).status = "Sent"
           /\ Updated(r.order_id, [OrderOf(r.order_id) EXCEPT !.status = "Live"])
           /\ pending_new' = pending_new - 1
           /\ live_orders' = live_orders + 1
<1>1. TypeOK /\ SlotDiscipline
  BY DEF IInv
<1>2. /\ ~ Ignored(r) /\ r.exec_type = "NewAck"
      /\ orders' = [orders EXCEPT ![order_map[r.order_id]].status = "Live"]
      /\ pending_new' = Dec(pending_new) /\ live_orders' = live_orders + 1
      /\ UNCHANGED <<order_map, free_stack, next_fresh_slot>>
  BY DEF OnNewAck
<1>3. PICK id \in OpenIds : id = r.order_id
  BY <1>1, <1>2, ReportType
<1>4. OrderOf(id).status = "Sent"
  BY <1>2, <1>3 DEF Ignored
<1> DEFINE o == [OrderOf(id) EXCEPT !.status = "Live"]
<1>5. o \in Order /\ orders' = [orders EXCEPT ![order_map[id]] = o]
  BY <1>1, <1>2, <1>3, StatusOnly DEF OrderStatus, OpenStatus
<1>6. OrderOf(id) \in Order
  BY <1>1 DEF TypeOK, OrderOf
<1>7. o.id = id /\ o.status \in {"Live", "PartiallyFilled"}
  BY <1>1, <1>6 DEF SlotDiscipline, MapFindsOrder, Order
<1> HIDE DEF o
<1>8. Updated(id, o)
  BY <1>1, <1>2, <1>5, <1>7, SlotsUpdate DEF Updated, OthersKept
<1>9. pending_new' = pending_new - 1
  BY <1>2, <1>4, SentIsPending
<1> QED
  BY <1>2, <1>3, <1>4, <1>8, <1>9 DEF o

\* A CancelAck ends one order, in whatever status it is.
LEMMA ShapeCancelAck ==
    ASSUME IInv, NEW r \in Report, OnCancelAck(r)
    PROVE  /\ Ended(r.order_id)
           /\ orders'[order_map[r.order_id]].status = "Cancelled"
<1>1. TypeOK /\ SlotDiscipline
  BY DEF IInv
<1>2. /\ ~ Ignored(r) /\ FreeSlot(r.order_id)
      /\ orders' = [orders EXCEPT ![order_map[r.order_id]].status = "Cancelled"]
      /\ UNCHANGED <<next_id, next_fresh_slot>>
  BY DEF OnCancelAck
<1>3. PICK id \in OpenIds : id = r.order_id
  BY <1>1, <1>2, ReportType
<1>4. PICK o \in Order : orders' = [orders EXCEPT ![order_map[id]] = o]
  BY <1>1, <1>2, <1>3, StatusRewrite DEF OrderStatus
<1>5. orders'[order_map[id]].status = "Cancelled"
  BY <1>1, <1>2, <1>3, StatusOnly DEF OrderStatus
<1>6. FreeSlot(id)
  BY <1>2, <1>3
<1>7. Ended(id)
  <2>1. /\ OpenIds' = OpenIds \ {id}
        /\ OpenWith({"Sent"})' = OpenWith({"Sent"}) \ {id}
        /\ \A i \in OpenIds' : OrderOf(i)' = OrderOf(i)
    BY <1>1, <1>2, <1>4, <1>6, SlotsEnd
  <2> QED
    BY <2>1, Zenon DEF Ended, OthersKept
<1> QED
  BY <1>3, <1>5, <1>7

\* A Reject ends one order, in whatever status it is.
LEMMA ShapeReject ==
    ASSUME IInv, NEW r \in Report, OnReject(r)
    PROVE  /\ Ended(r.order_id)
           /\ orders'[order_map[r.order_id]].status = "Rejected"
<1>1. TypeOK /\ SlotDiscipline
  BY DEF IInv
<1>2. /\ ~ Ignored(r) /\ FreeSlot(r.order_id)
      /\ orders' = [orders EXCEPT ![order_map[r.order_id]].status = "Rejected"]
      /\ UNCHANGED <<next_id, next_fresh_slot>>
  BY DEF OnReject
<1>3. PICK id \in OpenIds : id = r.order_id
  BY <1>1, <1>2, ReportType
<1>4. PICK o \in Order : orders' = [orders EXCEPT ![order_map[id]] = o]
  BY <1>1, <1>2, <1>3, StatusRewrite DEF OrderStatus
<1>5. orders'[order_map[id]].status = "Rejected"
  BY <1>1, <1>2, <1>3, StatusOnly DEF OrderStatus
<1>6. FreeSlot(id)
  BY <1>2, <1>3
<1>7. Ended(id)
  <2>1. /\ OpenIds' = OpenIds \ {id}
        /\ OpenWith({"Sent"})' = OpenWith({"Sent"}) \ {id}
        /\ \A i \in OpenIds' : OrderOf(i)' = OrderOf(i)
    BY <1>1, <1>2, <1>4, <1>6, SlotsEnd
  <2> QED
    BY <2>1, Zenon DEF Ended, OthersKept
<1> QED
  BY <1>3, <1>5, <1>7

\* Order o after a fill of fq that leaves it open.
PartlyFilled(o, fq) ==
    [o EXCEPT !.filled_qty = @ + fq, !.leaves_qty = LeavesAfter(o, fq),
              !.status = "PartiallyFilled"]

\* A fill ends one order or rewrites it.
LEMMA ShapeFill ==
    ASSUME IInv, NEW r \in Report, OnFill(r)
    PROVE  LET o == OrderOf(r.order_id)
           IN  /\ r.order_id \in OpenIds
               /\ o \in Order
               /\ FullyFilled(o, r) => Ended(r.order_id)
               /\ ~ FullyFilled(o, r) => Updated(r.order_id, PartlyFilled(o, r.fill_qty))
<1> DEFINE id   == r.order_id
           o    == OrderOf(id)
           fq   == r.fill_qty
           end  == FullyFilled(o, r)
           no   == [o EXCEPT !.filled_qty = @ + fq,
                             !.leaves_qty = LeavesAfter(o, fq),
                             !.status = IF end THEN "Filled" ELSE "PartiallyFilled"]
<1>1. TypeOK /\ SlotDiscipline
  BY DEF IInv
<1>2. TypeOK'
  BY <1>1, TypeFill
<1>3. ~ Ignored(r) /\ UNCHANGED <<next_id, next_fresh_slot>>
  BY DEF OnFill
<1>4. orders' = [orders EXCEPT ![order_map[id]] = no]
  BY DEF OnFill
<1>5. IF end THEN FreeSlot(id) ELSE UNCHANGED <<order_map, free_stack>>
  BY DEF OnFill
<1>6. id \in OpenIds /\ o \in Order /\ order_map[id] \in Slot
  BY <1>1, <1>3, ReportType
<1>7. orders' \in [Slot -> Order] /\ orders \in [Slot -> Order]
  BY <1>1, <1>2 DEF TypeOK
<1>8. no.id = o.id /\ no.status = IF end THEN "Filled" ELSE "PartiallyFilled"
  BY <1>6 DEF Order
<1>9. o.id = id
  BY <1>1, <1>6 DEF SlotDiscipline, MapFindsOrder
<1>10. ~ end => no = PartlyFilled(o, fq)
  BY DEF PartlyFilled
<1> HIDE DEF id, o, fq, end, no
<1>11. no \in Order
  BY <1>4, <1>6, <1>7
<1>12. ASSUME end PROVE Ended(id)
  <2>1. FreeSlot(id)
    BY <1>5, <1>12
  <2> QED
    BY <1>1, <1>3, <1>4, <1>6, <1>11, <2>1, SlotsEnd DEF Ended, OthersKept
<1>13. ASSUME ~ end PROVE Updated(id, no)
  <2>1. UNCHANGED <<order_map, free_stack>>
    BY <1>5, <1>13
  <2>2. no.id = id /\ no.status \in {"Live", "PartiallyFilled"}
    BY <1>8, <1>9, <1>13
  <2> QED
    BY <1>1, <1>3, <1>4, <1>6, <1>11, <2>1, <2>2, SlotsUpdate DEF Updated, OthersKept
<1> QED
  BY <1>6, <1>10, <1>12, <1>13 DEF id, o, fq, end

-----------------------------------------------------------------------------
(* The counters, when the exchange keeps the protocol *)

\* CountersExact in the terms of the invariant: the Sent orders, and all of them.
ExactSums ==
    /\ pending_new = Cardinality(OpenWith({"Sent"}))
    /\ live_orders + pending_new = Cardinality(OpenIds)

\* The open orders are the Sent ones and the acknowledged ones.
LEMMA OpenSplit ==
    ASSUME IInv
    PROVE  /\ IsFiniteSet(OpenWith({"Live", "PartiallyFilled"}))
           /\ Cardinality(OpenWith({"Live", "PartiallyFilled"})) \in Nat
           /\ Cardinality(OpenIds) =
                Cardinality(OpenWith({"Sent"})) + Cardinality(OpenWith({"Live", "PartiallyFilled"}))
<1> DEFINE S == OpenWith({"Sent"})
           L == OpenWith({"Live", "PartiallyFilled"})
<1>1. TypeOK /\ SlotDiscipline
  BY DEF IInv
<1>2. IsFiniteSet(OpenIds) /\ IsFiniteSet(S)
  BY <1>1, OpenFinite
<1>3. L \in SUBSET OpenIds /\ OpenIds = S \cup L /\ S \cap L = {}
  BY <1>1 DEF OpenWith, SlotDiscipline, MapFindsOrder, OpenStatus
<1> HIDE DEF S, L
<1>4. IsFiniteSet(L)
  BY <1>2, <1>3, FS_Subset
<1>5. Cardinality(S \cup L) = Cardinality(S) + Cardinality(L) - Cardinality(S \cap L)
  BY <1>2, <1>4, FS_Union
<1>6. Cardinality(S) \in Nat /\ Cardinality(L) \in Nat /\ Cardinality(S \cap L) = 0
  BY <1>2, <1>3, <1>4, FS_CardinalityType, FS_EmptySet
<1>7. Cardinality(OpenIds) = Cardinality(S) + Cardinality(L)
  BY <1>3, <1>5, <1>6
<1> QED
  BY <1>4, <1>6, <1>7 DEF S, L

\* The two forms of exactness say the same.
LEMMA ExactIsSums == IInv => (CountersExact <=> ExactSums)
<1> SUFFICES ASSUME IInv PROVE CountersExact <=> ExactSums
  OBVIOUS
<1> DEFINE c == Cardinality(OpenIds)
           d == Cardinality(OpenWith({"Sent"}))
           e == Cardinality(OpenWith({"Live", "PartiallyFilled"}))
<1>1. TypeOK /\ pending_new \in Nat /\ live_orders \in Nat
  BY DEF IInv, TypeOK
<1>2. d \in Nat /\ e \in Nat /\ c = d + e
  BY <1>1, OpenSplit, OpenFinite
<1>3. CountersExact <=> pending_new - d = 0 /\ live_orders - e = 0
  BY DEF CountersExact, PendingDrift, LiveDrift
<1>4. ExactSums <=> pending_new = d /\ live_orders + pending_new = c
  BY DEF ExactSums
<1> HIDE DEF c, d, e
<1> QED
  BY <1>1, <1>2, <1>3, <1>4

\* The same in the next state.
LEMMA ExactIsSumsPrimed == IInv' => (CountersExact' <=> ExactSums')
BY ExactIsSums, PTL

\* Exact counters give an acknowledged order a live_orders to take away.
LEMMA LiveIsCounted ==
    ASSUME IInv, CountersExact, NEW id \in OpenIds, OrderOf(id).status # "Sent"
    PROVE  live_orders > 0
<1> DEFINE L == OpenWith({"Live", "PartiallyFilled"})
<1>1. SlotDiscipline /\ live_orders \in Nat
  BY DEF IInv, TypeOK
<1>2. id \in L
  BY <1>1 DEF OpenWith, SlotDiscipline, MapFindsOrder, OpenStatus
<1>3. IsFiniteSet(L) /\ Cardinality(L) \in Nat
  BY OpenSplit
<1>4. live_orders - Cardinality(L) = 0
  BY DEF CountersExact, LiveDrift
<1> HIDE DEF L
<1>5. Cardinality(L) >= 1
  BY <1>2, <1>3, OneLess
<1> QED
  BY <1>1, <1>3, <1>4, <1>5

\* Exactness after order id was rewritten in place.
LEMMA ExactUpdated ==
    ASSUME IInv, IInv', CountersExact, NEW id, NEW o, Updated(id, o),
           OrderOf(id).status = "Sent" => pending_new' = pending_new - 1,
           OrderOf(id).status # "Sent" => pending_new' = pending_new,
           live_orders' + pending_new' = live_orders + pending_new
    PROVE  CountersExact'
<1> DEFINE d == Cardinality(OpenWith({"Sent"}))
<1>1. /\ id \in OpenIds /\ OpenIds' = OpenIds
      /\ OpenWith({"Sent"})' = OpenWith({"Sent"}) \ {id}
  BY DEF Updated
<1>2. ExactSums
  BY ExactIsSums
<1>3. TypeOK /\ pending_new \in Nat
  BY DEF IInv, TypeOK
<1>4. IsFiniteSet(OpenWith({"Sent"})) /\ d \in Nat
  BY <1>3, OpenFinite
<1>5. id \in OpenWith({"Sent"}) <=> OrderOf(id).status = "Sent"
  BY <1>1 DEF OpenWith
<1>6. Cardinality(OpenWith({"Sent"})') = IF OrderOf(id).status = "Sent" THEN d - 1 ELSE d
  BY <1>1, <1>4, <1>5, OneLess
<1>7. pending_new' = Cardinality(OpenWith({"Sent"})')
  BY <1>2, <1>6 DEF ExactSums
<1>8. live_orders' + pending_new' = Cardinality(OpenIds')
  BY <1>1, <1>2 DEF ExactSums
<1> QED
  BY <1>7, <1>8, ExactIsSumsPrimed DEF ExactSums

\* Exactness after order id ended.
LEMMA ExactEnded ==
    ASSUME IInv, IInv', CountersExact, NEW id, Ended(id),
           OrderOf(id).status = "Sent" => pending_new' = pending_new - 1,
           OrderOf(id).status # "Sent" => pending_new' = pending_new,
           live_orders' + pending_new' = (live_orders + pending_new) - 1
    PROVE  CountersExact'
<1> DEFINE d == Cardinality(OpenWith({"Sent"}))
<1>1. /\ id \in OpenIds /\ OpenIds' = OpenIds \ {id}
      /\ OpenWith({"Sent"})' = OpenWith({"Sent"}) \ {id}
  BY DEF Ended
<1>2. ExactSums
  BY ExactIsSums
<1>3. TypeOK /\ pending_new \in Nat
  BY DEF IInv, TypeOK
<1>4. /\ IsFiniteSet(OpenWith({"Sent"})) /\ d \in Nat
      /\ IsFiniteSet(OpenIds) /\ Cardinality(OpenIds) \in Nat
  BY <1>3, OpenFinite
<1>5. id \in OpenWith({"Sent"}) <=> OrderOf(id).status = "Sent"
  BY <1>1 DEF OpenWith
<1>6. Cardinality(OpenWith({"Sent"})') = IF OrderOf(id).status = "Sent" THEN d - 1 ELSE d
  BY <1>1, <1>4, <1>5, OneLess
<1>7. pending_new' = Cardinality(OpenWith({"Sent"})')
  BY <1>2, <1>6 DEF ExactSums
<1>8. Cardinality(OpenIds') = Cardinality(OpenIds) - 1
  BY <1>1, <1>4, OneLess
<1>9. live_orders' + pending_new' = Cardinality(OpenIds')
  <2>1. live_orders + pending_new = Cardinality(OpenIds)
    BY <1>2 DEF ExactSums
  <2> QED
    BY <1>8, <2>1, Zenon
<1> QED
  BY <1>7, <1>9, ExactIsSumsPrimed DEF ExactSums

\* send_new keeps the counters exact.
LEMMA ExactSendNew ==
    ASSUME IInv, IInv', CountersExact,
           NEW side \in Side, NEW price \in Price, NEW qty \in Qty, NEW type \in Types,
           SendNew(side, price, qty, type)
    PROVE  CountersExact'
<1> DEFINE c == Cardinality(OpenIds)
           d == Cardinality(OpenWith({"Sent"}))
<1>1. TypeOK /\ SlotDiscipline /\ pending_new \in Nat /\ live_orders \in Nat
  BY DEF IInv, TypeOK
<1>2. /\ next_id \notin OpenIds
      /\ OpenIds' = OpenIds \cup {next_id}
      /\ OpenWith({"Sent"})' = OpenWith({"Sent"}) \cup {next_id}
  BY <1>1, SlotsSend
<1>3. IsFiniteSet(OpenIds) /\ IsFiniteSet(OpenWith({"Sent"})) /\ c \in Nat /\ d \in Nat
  BY <1>1, OpenFinite
<1>4. Cardinality(OpenIds') = c + 1
  BY <1>2, <1>3, FS_AddElement
<1>5. Cardinality(OpenWith({"Sent"})') = d + 1
  <2>1. next_id \notin OpenWith({"Sent"})
    BY <1>2 DEF OpenWith
  <2> QED
    BY <2>1, <1>2, <1>3, FS_AddElement
<1>6. pending_new' = pending_new + 1 /\ live_orders' = live_orders
  BY DEF SendNew
<1>7. pending_new = d /\ live_orders + pending_new = c
  BY ExactIsSums DEF ExactSums
<1> HIDE DEF c, d
<1>8. pending_new' = d + 1 /\ live_orders' + pending_new' = c + 1
  BY <1>1, <1>3, <1>6, <1>7
<1> QED
  BY <1>4, <1>5, <1>8, ExactIsSumsPrimed DEF ExactSums

\* A NewAck keeps the counters exact.
LEMMA ExactNewAck ==
    ASSUME IInv, IInv', CountersExact, NEW r \in Report, OnNewAck(r)
    PROVE  CountersExact'
<1> DEFINE id == r.order_id
           o  == [OrderOf(id) EXCEPT !.status = "Live"]
<1>1. /\ OrderOf(id).status = "Sent" /\ Updated(id, o)
      /\ pending_new' = pending_new - 1 /\ live_orders' = live_orders + 1
  BY ShapeNewAck
<1>2. pending_new \in Nat /\ live_orders \in Nat
  BY DEF IInv, TypeOK
<1> HIDE DEF id, o
<1>3. live_orders' + pending_new' = live_orders + pending_new
  BY <1>1, <1>2
<1> QED
  BY <1>1, <1>3, ExactUpdated

\* A fill keeps the counters exact, whatever its quantity and whether or not a
\* NewAck came before it.
LEMMA ExactFill ==
    ASSUME IInv, IInv', CountersExact, NEW r \in Report, OnFill(r)
    PROVE  CountersExact'
<1> DEFINE id   == r.order_id
           o    == OrderOf(id)
           end  == FullyFilled(o, r)
           live == live_orders + (IF o.status = "Sent" THEN 1 ELSE 0)
<1>1. /\ pending_new' = IF o.status = "Sent" THEN Dec(pending_new) ELSE pending_new
      /\ live_orders' = IF end THEN Dec(live) ELSE live
  BY DEF OnFill
<1>2. /\ id \in OpenIds
      /\ end => Ended(id)
      /\ ~ end => Updated(id, PartlyFilled(o, r.fill_qty))
  BY ShapeFill
<1>3. pending_new \in Nat /\ live_orders \in Nat
  BY DEF IInv, TypeOK
<1>4. o.status = "Sent" => pending_new' = pending_new - 1
  BY <1>1, <1>2, SentIsPending
<1>5. o.status # "Sent" => pending_new' = pending_new
  BY <1>1
<1>6. live \in Nat /\ live > 0
  BY <1>2, <1>3, LiveIsCounted
<1>7. live + pending_new' = live_orders + pending_new
  BY <1>3, <1>4, <1>5
<1>8. pending_new' \in Int
  BY <1>3, <1>4, <1>5
<1>9. Dec(live) = live - 1
  BY <1>6, DecNat
<1>10. CASE end
  <2>1. live_orders' = live - 1
    BY <1>1, <1>9, <1>10
  <2> HIDE DEF id, o, end, live
  <2>2. live_orders' + pending_new' = (live_orders + pending_new) - 1
    <3>1. PICK l \in Int, p \in Int : l = live /\ p = pending_new'
      BY <1>6, <1>8
    <3>2. l + p = live_orders + pending_new /\ live_orders' = l - 1
      BY <3>1, <2>1, <1>7
    <3>3. (l - 1) + p = (l + p) - 1
      OBVIOUS
    <3> QED
      BY <3>1, <3>2, <3>3
  <2> QED
    BY <1>2, <1>4, <1>5, <1>10, <2>2, ExactEnded DEF o
<1>11. CASE ~ end
  <2>1. live_orders' = live
    BY <1>1, <1>11
  <2> HIDE DEF id, o, end, live
  <2>2. live_orders' + pending_new' = live_orders + pending_new
    BY <2>1, <1>7
  <2> QED
    BY <1>2, <1>4, <1>5, <1>11, <2>2, ExactUpdated DEF o
<1> QED
  BY <1>10, <1>11

\* A CancelAck of an acknowledged order keeps the counters exact.
LEMMA ExactCancelAck ==
    ASSUME IInv, IInv', CountersExact, NEW r \in Report, OnCancelAck(r),
           OrderOf(r.order_id).status # "Sent"
    PROVE  CountersExact'
<1>1. Ended(r.order_id) /\ r.order_id \in OpenIds
  BY ShapeCancelAck DEF Ended
<1>2. live_orders' = Dec(live_orders) /\ pending_new' = pending_new
  BY DEF OnCancelAck
<1>3. pending_new \in Nat /\ live_orders \in Nat
  BY DEF IInv, TypeOK
<1>4. live_orders > 0
  BY <1>1, LiveIsCounted
<1>5. live_orders' = live_orders - 1
  BY <1>2, <1>3, <1>4, DecNat
<1>6. live_orders' + pending_new' = (live_orders + pending_new) - 1
  BY <1>2, <1>3, <1>5
<1> QED
  BY <1>1, <1>2, <1>6, ExactEnded

\* A Reject of an order that is still Sent keeps the counters exact.
LEMMA ExactReject ==
    ASSUME IInv, IInv', CountersExact, NEW r \in Report, OnReject(r),
           OrderOf(r.order_id).status = "Sent"
    PROVE  CountersExact'
<1>1. Ended(r.order_id) /\ r.order_id \in OpenIds
  BY ShapeReject DEF Ended
<1>2. live_orders' = live_orders /\ pending_new' = Dec(pending_new)
  BY DEF OnReject
<1>3. pending_new \in Nat /\ live_orders \in Nat
  BY DEF IInv, TypeOK
<1>4. pending_new' = pending_new - 1
  BY <1>1, <1>2, SentIsPending
<1>5. live_orders' + pending_new' = (live_orders + pending_new) - 1
  BY <1>2, <1>3, <1>4
<1> QED
  BY <1>1, <1>4, <1>5, ExactEnded

\* Exactness does not depend on the variables a request for prices changes.
LEMMA ExactFrame ==
    CountersExact /\ UNCHANGED <<bookkeeping, counters>> => CountersExact'
BY DEF CountersExact, PendingDrift, LiveDrift, OpenWith, OpenIds, OrderOf, bookkeeping, counters

\* A request keeps the counters exact.
LEMMA ExactRequest ==
    ASSUME IInv, IInv', CountersExact, Request \/ UNCHANGED vars
    PROVE  CountersExact'
<1>1. ASSUME NEW side \in Side, NEW price \in Price, NEW qty \in Qty, NEW type \in Types,
             SendNew(side, price, qty, type)
      PROVE  CountersExact'
  BY <1>1, ExactSendNew
<1> QED
  BY <1>1, ExactFrame DEF Request, SendRefused, SetReferencePrice, vars

\* A CancelAck makes exact counters drift only when the order was still Sent.
LEMMA DriftCancelAck ==
    ASSUME IInv, IInv', CountersExact, NEW r \in Report, OnCancelAck(r)
    PROVE  \/ CountersExact'
           \/ /\ r.order_id \in OpenIds \ OpenIds'
              /\ OrderOf(r.order_id).status = "Sent"
              /\ orders'[order_map[r.order_id]].status = "Cancelled"
BY ExactCancelAck, ShapeCancelAck DEF Ended

\* A Reject makes exact counters drift only when the order was acknowledged.
LEMMA DriftReject ==
    ASSUME IInv, IInv', CountersExact, NEW r \in Report, OnReject(r)
    PROVE  \/ CountersExact'
           \/ /\ r.order_id \in OpenIds \ OpenIds'
              /\ OrderOf(r.order_id).status # "Sent"
              /\ orders'[order_map[r.order_id]].status = "Rejected"
BY ExactReject, ShapeReject DEF Ended

\* Only these two breaches of the protocol make the counters drift: every other
\* report, late, duplicated, unknown or with a wrong quantity, keeps them exact.
THEOREM DriftOnlyByBreach == Spec => DriftNeedsProtocolBreach
<1>1. ASSUME IInv, IInv', [Next]_vars, CountersExact
      PROVE  \/ CountersExact'
             \/ \E id \in OpenIds \ OpenIds' :
                    LET end == orders'[order_map[id]].status
                    IN  \/ OrderOf(id).status = "Sent" /\ end = "Cancelled"
                        \/ OrderOf(id).status # "Sent" /\ end = "Rejected"
  <2>1. CASE Request \/ UNCHANGED vars
    BY <1>1, <2>1, ExactRequest
  <2>2. ASSUME NEW r \in Report, OnIgnored(r) \/ OnNewAck(r) \/ OnFill(r)
        PROVE  CountersExact'
    BY <1>1, <2>1, <2>2, ExactRequest, ExactNewAck, ExactFill DEF OnIgnored
  <2>3. ASSUME NEW r \in Report, OnCancelAck(r) \/ OnReject(r), ~ CountersExact'
        PROVE  \E id \in OpenIds \ OpenIds' :
                    LET end == orders'[order_map[id]].status
                    IN  \/ OrderOf(id).status = "Sent" /\ end = "Cancelled"
                        \/ OrderOf(id).status # "Sent" /\ end = "Rejected"
    BY <1>1, <2>3, DriftCancelAck, DriftReject
  <2> QED
    BY <1>1, <2>1, <2>2, <2>3 DEF Next, OnExecution
<1>2. IInv /\ IInv' /\ [Next]_vars
        => [CountersExact =>
                \/ CountersExact'
                \/ \E id \in OpenIds \ OpenIds' :
                        LET end == orders'[order_map[id]].status
                        IN  \/ OrderOf(id).status = "Sent" /\ end = "Cancelled"
                            \/ OrderOf(id).status # "Sent" /\ end = "Rejected"]_vars
  BY <1>1
<1> QED
  BY <1>2, IInvInit, IInvNext, PTL DEF Spec, DriftNeedsProtocolBreach

\* An exchange that keeps the protocol is one that may send anything.
LEMMA ConformingIsNext == [ConformingNext]_vars => [Next]_vars
BY DEF ConformingNext, Next

\* With such an exchange every step keeps the counters exact.
LEMMA ExactConforming ==
    ASSUME IInv, IInv', CountersExact, [ConformingNext]_vars
    PROVE  CountersExact'
<1>1. CASE Request \/ UNCHANGED vars
  BY <1>1, ExactRequest
<1>2. ASSUME NEW r \in Report, Conforms(r), OnExecution(r)
      PROVE  CountersExact'
  <2>1. CASE OnIgnored(r) \/ OnNewAck(r) \/ OnFill(r)
    BY <2>1, ExactRequest, ExactNewAck, ExactFill DEF OnIgnored
  <2>2. CASE OnCancelAck(r)
    <3>1. r.order_id \in OpenIds /\ r.exec_type = "CancelAck"
      BY <2>2 DEF OnCancelAck, Ignored
    <3>2. OrderOf(r.order_id).status # "Sent"
      BY <1>2, <3>1 DEF Conforms
    <3> QED
      BY <2>2, <3>2, ExactCancelAck
  <2>3. CASE OnReject(r)
    <3>1. r.order_id \in OpenIds /\ r.exec_type = "Reject"
      BY <2>3 DEF OnReject, Ignored
    <3>2. OrderOf(r.order_id).status = "Sent"
      BY <1>2, <3>1 DEF Conforms
    <3> QED
      BY <2>3, <3>2, ExactReject
  <2> QED
    BY <1>2, <2>1, <2>2, <2>3 DEF OnExecution
<1> QED
  BY <1>1, <1>2 DEF ConformingNext

\* The counters are exact at the start.
LEMMA ExactInit == Init => CountersExact
<1> SUFFICES ASSUME Init PROVE CountersExact
  OBVIOUS
<1>1. OpenIds = {} /\ pending_new = 0 /\ live_orders = 0
  BY DEF Init, OpenIds
<1>2. OpenWith({"Sent"}) = {} /\ OpenWith({"Live", "PartiallyFilled"}) = {}
  BY <1>1 DEF OpenWith
<1> QED
  BY <1>1, <1>2, FS_EmptySet DEF CountersExact, PendingDrift, LiveDrift

\* As long as the exchange keeps the protocol, pending_new_ and live_orders_ are the
\* numbers of unacknowledged and acknowledged orders, in whatever order acks and
\* fills arrive.
THEOREM CountersAreExact == ConformingSpec => []CountersExact
<1>1. Init => IInv /\ CountersExact
  BY IInvInit, ExactInit
<1>2. IInv /\ CountersExact /\ [ConformingNext]_vars => IInv' /\ CountersExact'
  BY IInvNext, ConformingIsNext, ExactConforming
<1> QED
  BY <1>1, <1>2, PTL DEF ConformingSpec

-----------------------------------------------------------------------------
(* The life of an order *)

\* Where order id is in its life.
LEMMA LifeOf ==
    ASSUME IInv, NEW id \in OrderId
    PROVE  /\ id \in OpenIds => /\ LifecycleState[id] = OrderOf(id).status
                                /\ LifecycleState[id] \in OpenStatus
           /\ id \notin OpenIds /\ id < next_id => LifecycleState[id] = "Closed"
           /\ id \notin OpenIds /\ ~ (id < next_id) => LifecycleState[id] = "None"
<1>1. id \in OpenIds => OrderOf(id).status \in OpenStatus
  BY DEF IInv, SlotDiscipline, MapFindsOrder
<1> QED
  BY <1>1 DEF LifecycleState

\* The ids of open orders have been handed out.
LEMMA OpenAreUsed ==
    ASSUME IInv, NEW id \in OpenIds
    PROVE  id \in OrderId /\ id < next_id
BY BoundsAssumption DEF IInv, TypeOK, OrderId, BoundsAssumption

\* Rewriting an order moves it to its new status, and no other one.
LEMMA LifeUpdated ==
    ASSUME IInv, NEW id, NEW o, Updated(id, o), next_id' = next_id
    PROVE  LifecycleState' = [LifecycleState EXCEPT ![id] = o.status]
<1>1. /\ id \in OpenIds /\ OpenIds' = OpenIds /\ OrderOf(id)' = o
      /\ \A i \in OpenIds \ {id} : OrderOf(i)' = OrderOf(i)
  BY DEF Updated, OthersKept
<1> DEFINE f == [LifecycleState EXCEPT ![id] = o.status]
<1>2. \A i \in OrderId : LifecycleState'[i] = f[i]
  <2> SUFFICES ASSUME NEW i \in OrderId PROVE LifecycleState'[i] = f[i]
    OBVIOUS
  <2>1. LifecycleState'[i] = IF i \in OpenIds' THEN OrderOf(i)'.status
                             ELSE IF i < next_id' THEN "Closed" ELSE "None"
    BY DEF LifecycleState
  <2>2. LifecycleState[i] = IF i \in OpenIds THEN OrderOf(i).status
                            ELSE IF i < next_id THEN "Closed" ELSE "None"
    BY DEF LifecycleState
  <2>3. f[i] = IF i = id THEN o.status ELSE LifecycleState[i]
    BY DEF LifecycleState
  <2> HIDE DEF f
  <2>4. CASE i = id
    BY <2>1, <2>3, <2>4, <1>1
  <2>5. CASE i # id
    BY <2>1, <2>2, <2>3, <2>5, <1>1
  <2> QED
    BY <2>4, <2>5
<1>3. LifecycleState' = [i \in OrderId |-> LifecycleState'[i]] /\ f = [i \in OrderId |-> f[i]]
  BY DEF LifecycleState
<1> HIDE DEF f
<1>4. LifecycleState' = f
  BY <1>2, <1>3
<1> QED
  BY <1>4 DEF f

\* Ending an order closes it, and no other one.
LEMMA LifeEnded ==
    ASSUME IInv, NEW id, Ended(id), next_id' = next_id
    PROVE  LifecycleState' = [LifecycleState EXCEPT ![id] = "Closed"]
<1>1. /\ id \in OpenIds /\ OpenIds' = OpenIds \ {id}
      /\ \A i \in OpenIds \ {id} : OrderOf(i)' = OrderOf(i)
  BY DEF Ended, OthersKept
<1>a. id < next_id
  BY <1>1, OpenAreUsed
<1> DEFINE f == [LifecycleState EXCEPT ![id] = "Closed"]
<1>2. \A i \in OrderId : LifecycleState'[i] = f[i]
  <2> SUFFICES ASSUME NEW i \in OrderId PROVE LifecycleState'[i] = f[i]
    OBVIOUS
  <2>1. LifecycleState'[i] = IF i \in OpenIds' THEN OrderOf(i)'.status
                             ELSE IF i < next_id' THEN "Closed" ELSE "None"
    BY DEF LifecycleState
  <2>2. LifecycleState[i] = IF i \in OpenIds THEN OrderOf(i).status
                            ELSE IF i < next_id THEN "Closed" ELSE "None"
    BY DEF LifecycleState
  <2>3. f[i] = IF i = id THEN "Closed" ELSE LifecycleState[i]
    BY DEF LifecycleState
  <2> HIDE DEF f
  <2>4. CASE i = id
    BY <2>1, <2>3, <2>4, <1>1, <1>a
  <2>5. CASE i # id
    BY <2>1, <2>2, <2>3, <2>5, <1>1
  <2> QED
    BY <2>4, <2>5
<1>3. LifecycleState' = [i \in OrderId |-> LifecycleState'[i]] /\ f = [i \in OrderId |-> f[i]]
  BY DEF LifecycleState
<1> HIDE DEF f
<1>4. LifecycleState' = f
  BY <1>2, <1>3
<1> QED
  BY <1>4 DEF f

\* A rewrite is a step of the abstract machine.
LEMMA LifeStepUpdated ==
    ASSUME IInv, NEW id, NEW o, Updated(id, o), next_id' = next_id,
           \/ o.status = "PartiallyFilled"
           \/ o.status = "Live" /\ OrderOf(id).status = "Sent"
    PROVE  Lifecycle!Next
<1>1. id \in OpenIds
  BY DEF Updated
<1>2. id \in OrderId /\ LifecycleState[id] = OrderOf(id).status /\ LifecycleState[id] \in OpenStatus
  BY <1>1, OpenAreUsed, LifeOf
<1>3. LifecycleState' = [LifecycleState EXCEPT ![id] = o.status]
  BY LifeUpdated
<1>4. id \in Lifecycle!Ids /\ LifecycleState[id] \in Lifecycle!Open
  BY <1>2 DEF Lifecycle!Ids, Lifecycle!Open, OrderId, OpenStatus
<1>5. Lifecycle!Accept(id) \/ Lifecycle!FillSome(id)
  BY <1>2, <1>3, <1>4 DEF Lifecycle!Accept, Lifecycle!FillSome
<1> QED
  BY <1>4, <1>5 DEF Lifecycle!Next

\* The end of an order is a step of the abstract machine.
LEMMA LifeStepEnded ==
    ASSUME IInv, NEW id, Ended(id), next_id' = next_id
    PROVE  Lifecycle!Next
<1>1. id \in OpenIds
  BY DEF Ended
<1>2. id \in OrderId /\ LifecycleState[id] \in OpenStatus
  BY <1>1, OpenAreUsed, LifeOf
<1>3. LifecycleState' = [LifecycleState EXCEPT ![id] = "Closed"]
  BY LifeEnded
<1>4. id \in Lifecycle!Ids /\ LifecycleState[id] \in Lifecycle!Open
  BY <1>2 DEF Lifecycle!Ids, Lifecycle!Open, OrderId, OpenStatus
<1>5. Lifecycle!End(id)
  BY <1>3, <1>4 DEF Lifecycle!End
<1> QED
  BY <1>4, <1>5 DEF Lifecycle!Next

\* send_new hands out the next id: all smaller ones were used before.
LEMMA LifeSendNew ==
    ASSUME IInv, NEW side \in Side, NEW price \in Price, NEW qty \in Qty, NEW type \in Types,
           SendNew(side, price, qty, type)
    PROVE  Lifecycle!Next
<1> DEFINE n == next_id
           f == [LifecycleState EXCEPT ![n] = "Sent"]
<1>1. TypeOK /\ SlotDiscipline /\ n \in OrderId /\ next_id' = n + 1
  BY DEF IInv, SendNew
<1>2. /\ n \notin OpenIds
      /\ OpenIds' = OpenIds \cup {n}
      /\ orders'[order_map'[n]].status = "Sent"
      /\ \A i \in OpenIds : OrderOf(i)' = OrderOf(i)
  <2> DEFINE o == NewOrder(side, price, qty, type)
  <2>1. Added(n, o)
    BY ShapeSendNew
  <2>2. o.status = "Sent"
    BY DEF NewOrder
  <2> HIDE DEF o
  <2> QED
    BY <2>1, <2>2 DEF Added
<1>3. n \in Nat
  BY <1>1, BoundsAssumption DEF OrderId, BoundsAssumption
<1>4. \A i \in OrderId : LifecycleState'[i] = f[i]
  <2> SUFFICES ASSUME NEW i \in OrderId PROVE LifecycleState'[i] = f[i]
    OBVIOUS
  <2>0. i \in Nat
    BY BoundsAssumption DEF OrderId, BoundsAssumption
  <2>1. LifecycleState'[i] = IF i \in OpenIds' THEN orders'[order_map'[i]].status
                             ELSE IF i < next_id' THEN "Closed" ELSE "None"
    BY DEF LifecycleState, OrderOf
  <2>2. LifecycleState[i] = IF i \in OpenIds THEN OrderOf(i).status
                            ELSE IF i < n THEN "Closed" ELSE "None"
    BY DEF LifecycleState
  <2>3. f[i] = IF i = n THEN "Sent" ELSE LifecycleState[i]
    BY DEF LifecycleState
  <2>4. i \in OpenIds => orders'[order_map'[i]] = OrderOf(i)
    BY <1>2 DEF OrderOf
  <2> HIDE DEF f, n
  <2>5. CASE i = n
    BY <2>1, <2>3, <2>5, <1>2
  <2>6. CASE i # n
    <3>1. i < next_id' <=> i < n
      BY <2>0, <2>6, <1>1, <1>3
    <3> QED
      BY <2>1, <2>2, <2>3, <2>4, <2>6, <3>1, <1>2
  <2> QED
    BY <2>5, <2>6
<1>5. LifecycleState' = [i \in OrderId |-> LifecycleState'[i]] /\ f = [i \in OrderId |-> f[i]]
  BY DEF LifecycleState
<1>6. LifecycleState[n] = "None"
  BY <1>1, <1>2, <1>3, LifeOf
<1>7. \A i \in 1 .. n - 1 : LifecycleState[i] # "None"
  <2> SUFFICES ASSUME NEW i \in 1 .. n - 1 PROVE LifecycleState[i] # "None"
    OBVIOUS
  <2>1. i \in OrderId /\ i < n
    BY <1>1, <1>3, BoundsAssumption DEF OrderId, BoundsAssumption
  <2> QED
    BY <2>1, LifeOf DEF OpenStatus
<1> HIDE DEF f
<1>8. LifecycleState' = f
  BY <1>4, <1>5
<1>9. Lifecycle!Send(n)
  BY <1>6, <1>7, <1>8 DEF Lifecycle!Send, f
<1>10. n \in Lifecycle!Ids
  BY <1>1 DEF Lifecycle!Ids, OrderId
<1> QED
  BY <1>9, <1>10 DEF Lifecycle!Next

\* A step that leaves the orders alone leaves their lives alone.
LEMMA LifeFrame ==
    UNCHANGED <<orders, order_map, next_id>> => UNCHANGED LifecycleState
BY DEF LifecycleState, OpenIds, OrderOf

\* Every step of the OMS is a step of the abstract machine, or changes no order's life.
LEMMA LifeNext ==
    ASSUME IInv, [Next]_vars
    PROVE  [Lifecycle!Next]_LifecycleState
<1>1. ASSUME NEW side \in Side, NEW price \in Price, NEW qty \in Qty, NEW type \in Types,
             SendNew(side, price, qty, type)
      PROVE  Lifecycle!Next
  BY <1>1, LifeSendNew
<1>2. ASSUME NEW r \in Report, OnNewAck(r)
      PROVE  Lifecycle!Next
  <2> DEFINE o == [OrderOf(r.order_id) EXCEPT !.status = "Live"]
  <2>1. OrderOf(r.order_id).status = "Sent" /\ Updated(r.order_id, o)
    BY <1>2, ShapeNewAck
  <2>2. r.order_id \in OpenIds /\ OrderOf(r.order_id) \in Order
    BY <1>2, ReportType DEF OnNewAck, IInv
  <2>3. o.status = "Live"
    BY <2>2 DEF Order
  <2>4. next_id' = next_id
    BY <1>2 DEF OnNewAck
  <2> HIDE DEF o
  <2> QED
    BY <2>1, <2>3, <2>4, LifeStepUpdated
<1>3. ASSUME NEW r \in Report, OnFill(r)
      PROVE  Lifecycle!Next
  <2> DEFINE o == OrderOf(r.order_id)
             no == PartlyFilled(o, r.fill_qty)
  <2>1. /\ o \in Order
        /\ FullyFilled(o, r) => Ended(r.order_id)
        /\ ~ FullyFilled(o, r) => Updated(r.order_id, no)
    BY <1>3, ShapeFill
  <2>2. no.status = "PartiallyFilled"
    BY <2>1 DEF PartlyFilled, Order
  <2>3. next_id' = next_id
    BY <1>3 DEF OnFill
  <2> HIDE DEF no, o
  <2> QED
    BY <2>1, <2>2, <2>3, LifeStepUpdated, LifeStepEnded
<1>4. ASSUME NEW r \in Report, OnCancelAck(r)
      PROVE  Lifecycle!Next
  <2>1. next_id' = next_id
    BY <1>4 DEF OnCancelAck
  <2> QED
    BY <1>4, <2>1, ShapeCancelAck, LifeStepEnded
<1>5. ASSUME NEW r \in Report, OnReject(r)
      PROVE  Lifecycle!Next
  <2>1. next_id' = next_id
    BY <1>5 DEF OnReject
  <2> QED
    BY <1>5, <2>1, ShapeReject, LifeStepEnded
<1>6. ASSUME UNCHANGED <<orders, order_map, next_id>>
      PROVE  UNCHANGED LifecycleState
  BY <1>6, LifeFrame
<1>7. ASSUME NEW r \in Report, OnExecution(r)
      PROVE  [Lifecycle!Next]_LifecycleState
  BY <1>2, <1>3, <1>4, <1>5, <1>6, <1>7 DEF OnExecution, OnIgnored, vars, bookkeeping
<1> QED
  BY <1>1, <1>6, <1>7 DEF Next, Request, SendRefused, SetReferencePrice, vars, bookkeeping

\* The initial states map to the initial state of the abstract machine.
LEMMA LifeInit == Init => Lifecycle!Init
<1> SUFFICES ASSUME Init PROVE Lifecycle!Init
  OBVIOUS
<1>1. OpenIds = {} /\ next_id = 1
  BY DEF Init, OpenIds
<1>2. LifecycleState = [id \in OrderId |-> "None"]
  BY <1>1, BoundsAssumption DEF LifecycleState, OrderId, BoundsAssumption
<1> QED
  BY <1>2 DEF Lifecycle!Init, Lifecycle!Ids, OrderId

\* send_new and on_execution, over recycled slots and whatever is reported, implement
\* the life of an order: ids are used once and in sequence, an order only moves
\* forward and ends once, and a report about one order never moves another.
THEOREM OMSImplementsLifecycle == Spec => ImplementsLifecycle
<1>1. IInv /\ [Next]_vars => [Lifecycle!Next]_LifecycleState
  BY LifeNext
<1> QED
  BY <1>1, LifeInit, IInvInit, IInvNext, PTL DEF Spec, ImplementsLifecycle, Lifecycle!Spec

-----------------------------------------------------------------------------
(* The outcomes of the trading report *)

\* The open orders without a fill, and the orders the report gives an outcome.
Unfilled == {id \in OpenIds : OrderOf(id).filled_qty = 0}
Settled == stats.filled_orders + stats.missed_ioc + stats.rejects

\* Open orders are IOC orders, and one that no answer came for has no fill.
OpenIocOrders ==
    \A id \in OpenIds : /\ OrderOf(id).type = "IOC"
                        /\ OrderOf(id).status = "Sent" => OrderOf(id).filled_qty = 0

\* The inductive invariant of the outcomes.
OutcomeInv == IInv /\ OpenIocOrders /\ OutcomesPartition

\* The unfilled orders are finitely many.
LEMMA UnfilledFinite ==
    ASSUME IInv
    PROVE  IsFiniteSet(Unfilled) /\ Cardinality(Unfilled) \in Nat
<1>1. IsFiniteSet(OpenIds)
  BY OpenFinite DEF IInv
<1>2. Unfilled \in SUBSET OpenIds
  BY DEF Unfilled
<1>3. IsFiniteSet(Unfilled)
  BY <1>1, <1>2, FS_Subset
<1> QED
  BY <1>3, FS_CardinalityType

\* The counters of the outcomes are numbers.
LEMMA OutcomeTypes ==
    ASSUME IInv
    PROVE  /\ stats.order_count \in Nat /\ stats.filled_orders \in Nat
           /\ stats.missed_ioc \in Nat /\ stats.rejects \in Nat /\ Settled \in Nat
<1>1. stats \in Stats
  BY DEF IInv, TypeOK
<1> QED
  BY <1>1 DEF Stats, Settled

\* OutcomesPartition in these terms.
LEMMA OutcomesAre == OutcomesPartition <=> stats.order_count = Settled + Cardinality(Unfilled)
BY DEF OutcomesPartition, Settled, Unfilled

\* The same in the next state.
LEMMA OutcomesArePrimed ==
    OutcomesPartition' <=> stats'.order_count = Settled' + Cardinality(Unfilled')
BY Zenon DEF OutcomesPartition, Settled, Unfilled

\* An order leaves the unfilled ones with an outcome: the partition still holds.
LEMMA OutcomesSettled ==
    ASSUME IInv, OutcomesPartition, NEW id,
           Unfilled' = Unfilled \ {id},
           Settled' = Settled + (IF id \in Unfilled THEN 1 ELSE 0),
           stats'.order_count = stats.order_count
    PROVE  OutcomesPartition'
<1> DEFINE u == Cardinality(Unfilled)
           n == stats.order_count
           k == Settled
<1>1. n = k + u
  BY OutcomesAre
<1>2. IsFiniteSet(Unfilled) /\ u \in Nat /\ k \in Nat
  BY UnfilledFinite, OutcomeTypes
<1>3. Cardinality(Unfilled') = IF id \in Unfilled THEN u - 1 ELSE u
  BY <1>2, OneLess
<1>4. Settled' = IF id \in Unfilled THEN k + 1 ELSE k
  BY <1>2
<1> HIDE DEF u, n, k
<1>5. n = Settled' + Cardinality(Unfilled')
  BY <1>1, <1>2, <1>3, <1>4
<1> QED
  BY <1>5, OutcomesArePrimed DEF n

\* The new order is one more without a fill.
LEMMA OutcomeSendNew ==
    ASSUME Types \subseteq {"IOC"}, OutcomeInv,
           NEW side \in Side, NEW price \in Price, NEW qty \in Qty, NEW type \in Types,
           SendNew(side, price, qty, type)
    PROVE  OpenIocOrders' /\ OutcomesPartition'
<1> DEFINE o == NewOrder(side, price, qty, type)
           n == next_id
<1>1. IInv /\ OpenIocOrders /\ OutcomesPartition /\ stats \in Stats
  BY DEF OutcomeInv, IInv, TypeOK
<1>2. Added(n, o)
  BY <1>1, ShapeSendNew
<1>3. o.type = "IOC" /\ o.filled_qty = 0
  BY DEF NewOrder
<1> HIDE DEF o, n
<1>4. /\ n \notin OpenIds /\ OpenIds' = OpenIds \cup {n}
      /\ orders'[order_map'[n]] = o
      /\ \A i \in OpenIds : OrderOf(i)' = OrderOf(i)
  BY <1>2 DEF Added
<1>5. \A i \in OpenIds : orders'[order_map'[i]] = OrderOf(i)
  BY <1>4 DEF OrderOf
<1>6. OpenIocOrders'
  <2>1. \A i \in OpenIds' : /\ orders'[order_map'[i]].type = "IOC"
                            /\ orders'[order_map'[i]].status = "Sent" =>
                                    orders'[order_map'[i]].filled_qty = 0
    BY <1>1, <1>3, <1>4, <1>5 DEF OpenIocOrders
  <2> QED
    BY <2>1 DEF OpenIocOrders, OrderOf
<1>7. Unfilled' = Unfilled \cup {n}
  <2>1. Unfilled' = {i \in OpenIds' : orders'[order_map'[i]].filled_qty = 0}
    BY DEF Unfilled, OrderOf
  <2> QED
    BY <2>1, <1>3, <1>4, <1>5 DEF Unfilled
<1>8. n \notin Unfilled
  BY <1>4 DEF Unfilled
<1>9. IsFiniteSet(Unfilled) /\ Cardinality(Unfilled) \in Nat /\ Settled \in Nat
  BY <1>1, UnfilledFinite, OutcomeTypes
<1>10. Cardinality(Unfilled') = Cardinality(Unfilled) + 1
  BY <1>7, <1>8, <1>9, FS_AddElement
<1>11. stats'.order_count = stats.order_count + 1 /\ Settled' = Settled
  <2>1. stats' = [stats EXCEPT !.order_count = @ + 1]
    BY DEF SendNew
  <2> QED
    BY <2>1, <1>1 DEF Stats, Settled
<1>12. stats.order_count = Settled + Cardinality(Unfilled)
  BY <1>1, OutcomesAre
<1>13. stats'.order_count = Settled' + Cardinality(Unfilled')
  <2>1. \A a, b \in Nat : (a + b) + 1 = a + (b + 1)
    OBVIOUS
  <2> QED
    BY <2>1, <1>9, <1>10, <1>11, <1>12
<1> QED
  BY <1>6, <1>13, OutcomesArePrimed

\* The shape of the open orders after one was rewritten without losing its type.
LEMMA IocUpdated ==
    ASSUME OpenIocOrders, NEW id, NEW o, Updated(id, o), o.type = "IOC", o.status # "Sent"
    PROVE  OpenIocOrders'
<1>1. /\ OpenIds' = OpenIds /\ OrderOf(id)' = o
      /\ \A i \in OpenIds \ {id} : OrderOf(i)' = OrderOf(i)
  BY DEF Updated, OthersKept
<1>2. \A i \in OpenIds : /\ OrderOf(i)'.type = "IOC"
                         /\ OrderOf(i)'.status = "Sent" => OrderOf(i)'.filled_qty = 0
  BY <1>1 DEF OpenIocOrders
<1> QED
  BY <1>1, <1>2 DEF OpenIocOrders

\* The same after one ended, which leaves the unfilled orders.
LEMMA IocEnded ==
    ASSUME OpenIocOrders, NEW id, Ended(id)
    PROVE  OpenIocOrders' /\ Unfilled' = Unfilled \ {id}
<1>1. /\ OpenIds' = OpenIds \ {id}
      /\ \A i \in OpenIds \ {id} : OrderOf(i)' = OrderOf(i)
  BY DEF Ended, OthersKept
<1>2. OpenIocOrders'
  BY <1>1 DEF OpenIocOrders
<1>3. Unfilled' = Unfilled \ {id}
  BY <1>1 DEF Unfilled
<1> QED
  BY <1>2, <1>3

\* A NewAck settles nothing.
LEMMA OutcomeNewAck ==
    ASSUME OutcomeInv, NEW r \in Report, OnNewAck(r)
    PROVE  OpenIocOrders' /\ OutcomesPartition'
<1> DEFINE id == r.order_id
           o  == [OrderOf(id) EXCEPT !.status = "Live"]
<1>1. IInv /\ OpenIocOrders /\ OutcomesPartition /\ stats \in Stats
  BY DEF OutcomeInv, IInv, TypeOK
<1>2. Updated(id, o)
  BY <1>1, ShapeNewAck
<1>3. OrderOf(id) \in Order /\ id \in OpenIds
  BY <1>1, ReportType DEF OnNewAck, IInv
<1>4. o.type = "IOC" /\ o.status = "Live" /\ o.filled_qty = OrderOf(id).filled_qty
  BY <1>1, <1>3 DEF Order, OpenIocOrders
<1> HIDE DEF id, o
<1>5. OpenIocOrders'
  BY <1>1, <1>2, <1>4, IocUpdated
<1>6. Unfilled' = Unfilled
  <2>1. /\ OpenIds' = OpenIds /\ OrderOf(id)' = o
        /\ \A i \in OpenIds \ {id} : OrderOf(i)' = OrderOf(i)
    BY <1>2 DEF Updated, OthersKept
  <2>2. \A i \in OpenIds : OrderOf(i)'.filled_qty = OrderOf(i).filled_qty
    BY <2>1, <1>4
  <2> QED
    BY <2>1, <2>2 DEF Unfilled
<1>7. stats'.order_count = stats.order_count /\ Settled' = Settled
  <2>1. stats' = [stats EXCEPT !.accepted_orders = @ + 1]
    BY DEF OnNewAck
  <2> QED
    BY <2>1, <1>1 DEF Stats, Settled
<1> QED
  BY <1>1, <1>5, <1>6, <1>7, OutcomesAre, OutcomesArePrimed

\* The first fill settles an order, and the later ones do not count again.
LEMMA OutcomeFill ==
    ASSUME OutcomeInv, NEW r \in Report, Conforms(r), OnFill(r)
    PROVE  OpenIocOrders' /\ OutcomesPartition'
<1> DEFINE id == r.order_id
           o  == OrderOf(id)
           fq == r.fill_qty
           no == PartlyFilled(o, fq)
           was == IF o.status = "Sent" THEN 1 ELSE 0
<1>1. IInv /\ OpenIocOrders /\ OutcomesPartition /\ stats \in Stats
  BY DEF OutcomeInv, IInv, TypeOK
<1>2. /\ id \in OpenIds /\ o \in Order
      /\ FullyFilled(o, r) => Ended(id)
      /\ ~ FullyFilled(o, r) => Updated(id, no)
  BY <1>1, ShapeFill
<1>3. fq \in Nat
  BY <1>1, ReportType DEF OnFill, IInv
<1>4. ~ FullyFilled(o, r) => fq >= 1
  <2>1. r.exec_type \in {"Fill", "PartialFill"}
    BY DEF OnFill
  <2>2. r.exec_type = "PartialFill" => fq \in 1 .. o.leaves_qty - 1
    BY <1>2 DEF Conforms
  <2> QED
    BY <2>1, <2>2, <1>2 DEF FullyFilled, Order
<1>5. id \in Unfilled <=> FirstFill(o)
  BY <1>2 DEF Unfilled, FirstFill
<1>6. /\ stats'.order_count = stats.order_count
      /\ Settled' = Settled + (IF id \in Unfilled THEN 1 ELSE 0)
  <2>1. stats' = StatsAfterFill(o, fq, was)
    BY DEF OnFill
  <2> HIDE DEF id, o, fq, was
  <2>2. /\ stats'.order_count = stats.order_count
        /\ stats'.filled_orders = IF FirstFill(o) THEN stats.filled_orders + 1
                                                  ELSE stats.filled_orders
        /\ stats'.missed_ioc = stats.missed_ioc
        /\ stats'.rejects = stats.rejects
    BY <2>1, <1>1 DEF StatsAfterFill, Stats
  <2>3. stats.filled_orders \in Nat /\ stats.missed_ioc \in Nat /\ stats.rejects \in Nat
    BY <1>1, OutcomeTypes
  <2>4. Settled' = stats'.filled_orders + stats'.missed_ioc + stats'.rejects
    BY DEF Settled
  <2> QED
    BY <2>2, <2>3, <2>4, <1>5 DEF Settled
<1>7. OpenIocOrders' /\ Unfilled' = Unfilled \ {id}
  <2>1. CASE FullyFilled(o, r)
    BY <1>1, <1>2, <2>1, IocEnded
  <2>2. CASE ~ FullyFilled(o, r)
    <3>1. /\ no.type = "IOC" /\ no.status = "PartiallyFilled"
          /\ no.filled_qty = o.filled_qty + fq /\ o.filled_qty \in Nat
      BY <1>1, <1>2 DEF PartlyFilled, Order, OpenIocOrders
    <3>2. no.filled_qty # 0
      BY <1>3, <1>4, <2>2, <3>1
    <3>3. Updated(id, no)
      BY <1>2, <2>2
    <3> HIDE DEF id, no
    <3>4. /\ OpenIds' = OpenIds /\ OrderOf(id)' = no
          /\ \A i \in OpenIds \ {id} : OrderOf(i)' = OrderOf(i)
      BY <3>3 DEF Updated, OthersKept
    <3>5. Unfilled' = Unfilled \ {id}
      BY <3>2, <3>4 DEF Unfilled
    <3> QED
      BY <1>1, <3>1, <3>3, <3>5, IocUpdated
  <2> QED
    BY <2>1, <2>2
<1> QED
  BY <1>1, <1>6, <1>7, OutcomesSettled

\* A CancelAck of an order without a fill is a missed IOC.
LEMMA OutcomeCancelAck ==
    ASSUME OutcomeInv, NEW r \in Report, OnCancelAck(r)
    PROVE  OpenIocOrders' /\ OutcomesPartition'
<1> DEFINE id == r.order_id
           o  == OrderOf(id)
<1>1. IInv /\ OpenIocOrders /\ OutcomesPartition /\ stats \in Stats
  BY DEF OutcomeInv, IInv, TypeOK
<1>2. Ended(id) /\ id \in OpenIds
  BY <1>1, ShapeCancelAck DEF Ended
<1>3. OpenIocOrders' /\ Unfilled' = Unfilled \ {id}
  BY <1>1, <1>2, IocEnded
<1>4. o.type = "IOC" /\ (id \in Unfilled <=> o.filled_qty = 0)
  BY <1>1, <1>2 DEF OpenIocOrders, Unfilled
<1>5. /\ stats'.order_count = stats.order_count
      /\ Settled' = Settled + (IF id \in Unfilled THEN 1 ELSE 0)
  <2>1. stats' = [stats EXCEPT !.cancels = @ + 1,
                               !.missed_ioc = IF o.type = "IOC" /\ o.filled_qty = 0
                                              THEN @ + 1 ELSE @]
    BY DEF OnCancelAck
  <2> HIDE DEF id, o
  <2>2. /\ stats'.order_count = stats.order_count
        /\ stats'.missed_ioc = IF o.filled_qty = 0 THEN stats.missed_ioc + 1
                                                   ELSE stats.missed_ioc
        /\ stats'.filled_orders = stats.filled_orders
        /\ stats'.rejects = stats.rejects
    BY <2>1, <1>1, <1>4 DEF Stats
  <2>3. stats.filled_orders \in Nat /\ stats.missed_ioc \in Nat /\ stats.rejects \in Nat
    BY <1>1, OutcomeTypes
  <2>4. Settled' = stats'.filled_orders + stats'.missed_ioc + stats'.rejects
    BY DEF Settled
  <2> QED
    BY <2>2, <2>3, <2>4, <1>4 DEF Settled
<1> QED
  BY <1>1, <1>3, <1>5, OutcomesSettled

\* A Reject settles the order: by the protocol it was Sent, and so without a fill.
LEMMA OutcomeReject ==
    ASSUME OutcomeInv, NEW r \in Report, Conforms(r), OnReject(r)
    PROVE  OpenIocOrders' /\ OutcomesPartition'
<1> DEFINE id == r.order_id
<1>1. IInv /\ OpenIocOrders /\ OutcomesPartition /\ stats \in Stats
  BY DEF OutcomeInv, IInv, TypeOK
<1>2. Ended(id) /\ id \in OpenIds
  BY <1>1, ShapeReject DEF Ended
<1>3. OpenIocOrders' /\ Unfilled' = Unfilled \ {id}
  BY <1>1, <1>2, IocEnded
<1>4. id \in Unfilled
  <2>1. OrderOf(id).status = "Sent"
    BY <1>2 DEF Conforms, OnReject
  <2> QED
    BY <1>1, <1>2, <2>1 DEF OpenIocOrders, Unfilled
<1>5. stats'.order_count = stats.order_count /\ Settled' = Settled + 1
  <2>1. stats' = [stats EXCEPT !.rejects = @ + 1]
    BY DEF OnReject
  <2>2. /\ stats'.order_count = stats.order_count
        /\ stats'.missed_ioc = stats.missed_ioc
        /\ stats'.filled_orders = stats.filled_orders
        /\ stats'.rejects = stats.rejects + 1
    BY <2>1, <1>1 DEF Stats
  <2>3. stats.filled_orders \in Nat /\ stats.missed_ioc \in Nat /\ stats.rejects \in Nat
    BY <1>1, OutcomeTypes
  <2>4. Settled' = stats'.filled_orders + stats'.missed_ioc + stats'.rejects
    BY DEF Settled
  <2> QED
    BY <2>2, <2>3, <2>4 DEF Settled
<1> QED
  BY <1>1, <1>3, <1>4, <1>5, OutcomesSettled

\* A step that leaves the orders and the report alone.
LEMMA OutcomeFrame ==
    /\ OpenIocOrders /\ OutcomesPartition
    /\ UNCHANGED <<bookkeeping, stats>>
    => OpenIocOrders' /\ OutcomesPartition'
BY DEF OpenIocOrders, OutcomesPartition, OpenIds, OrderOf, bookkeeping

\* The invariant of the outcomes is inductive.
LEMMA OutcomeNext ==
    ASSUME Types \subseteq {"IOC"}, OutcomeInv, [ConformingNext]_vars
    PROVE  OutcomeInv'
<1>0. IInv'
  BY IInvNext, ConformingIsNext DEF OutcomeInv
<1>1. ASSUME NEW side \in Side, NEW price \in Price, NEW qty \in Qty, NEW type \in Types,
             SendNew(side, price, qty, type)
      PROVE  OpenIocOrders' /\ OutcomesPartition'
  BY <1>1, OutcomeSendNew
<1>2. ASSUME UNCHANGED <<bookkeeping, stats>>
      PROVE  OpenIocOrders' /\ OutcomesPartition'
  BY <1>2, OutcomeFrame DEF OutcomeInv
<1>3. ASSUME NEW r \in Report, Conforms(r), OnExecution(r)
      PROVE  OpenIocOrders' /\ OutcomesPartition'
  BY <1>2, <1>3, OutcomeNewAck, OutcomeFill, OutcomeCancelAck, OutcomeReject
  DEF OnExecution, OnIgnored, vars
<1>4. OpenIocOrders' /\ OutcomesPartition'
  BY <1>1, <1>2, <1>3 DEF ConformingNext, Request, SendRefused, SetReferencePrice, vars
<1> QED
  BY <1>0, <1>4 DEF OutcomeInv

\* At the start no order was sent.
LEMMA OutcomeInit == Init => OutcomeInv
<1> SUFFICES ASSUME Init PROVE OutcomeInv
  OBVIOUS
<1>1. OpenIds = {}
  BY DEF Init, OpenIds
<1>2. Unfilled = {} /\ Cardinality(Unfilled) = 0
  BY <1>1, FS_EmptySet DEF Unfilled
<1>3. stats.order_count = 0 /\ Settled = 0
  BY DEF Init, Settled
<1>4. OutcomesPartition
  BY <1>2, <1>3, OutcomesAre
<1> QED
  BY <1>1, <1>4, IInvInit DEF OutcomeInv, OpenIocOrders

\* With IOC orders, the only ones the pipeline sends, and an exchange that keeps the
\* protocol, the trading report gives every order exactly one outcome: filled, missed,
\* rejected, or still open without a fill.
THEOREM OutcomesComplete ==
    ASSUME Types \subseteq {"IOC"}
    PROVE  ConformingSpec => []OutcomesPartition
<1>1. OutcomeInv /\ [ConformingNext]_vars => OutcomeInv'
  BY OutcomeNext
<1>2. OutcomeInv => OutcomesPartition
  BY DEF OutcomeInv
<1> QED
  BY <1>1, <1>2, OutcomeInit, PTL DEF ConformingSpec

-----------------------------------------------------------------------------
(* Sums over the open orders *)

\* What a quantity q of one side counts in the net sum or in the sum of one side.
Kinds == {"Net", "Buy", "Sell"}
Part(k, side, q) == IF k = "Net" THEN Signed(side, q) ELSE IF side = k THEN q ELSE 0

LeavesOf(k) == [id \in OpenIds |-> Part(k, OrderOf(id).side, OrderOf(id).leaves_qty)]
OpenSum(k) == SumFunctionOnSet(LeavesOf(k), OpenIds)

\* The leaves of an open order are what was ordered and not filled.
LeavesRight ==
    \A id \in OpenIds : /\ OrderOf(id).filled_qty <= OrderOf(id).qty
                        /\ OrderOf(id).leaves_qty = OrderOf(id).qty - OrderOf(id).filled_qty
                        /\ OrderOf(id).qty <= max_order_qty

\* The net sum is what the buyers' and the sellers' sums differ by.
DeltaSplits == pending_position_delta = OpenSum("Buy") - OpenSum("Sell")

\* The inductive invariant of the exposure.
ExposureInv == IInv /\ LeavesRight /\ PendingDeltaIsOpenLeaves /\ DeltaSplits

SumsNamed ==
    /\ SumFunction(NetLeaves) = OpenSum("Net")
    /\ OpenLeaves("Buy") = OpenSum("Buy")
    /\ OpenLeaves("Sell") = OpenSum("Sell")

\* The sums that the properties name.
LEMMA SumsAre == SumsNamed
<1>1. NetLeaves = LeavesOf("Net") /\ DOMAIN NetLeaves = OpenIds
  BY DEF NetLeaves, LeavesOf, Part
<1>2. /\ SideLeaves("Buy") = LeavesOf("Buy") /\ DOMAIN SideLeaves("Buy") = OpenIds
      /\ SideLeaves("Sell") = LeavesOf("Sell") /\ DOMAIN SideLeaves("Sell") = OpenIds
  BY DEF SideLeaves, LeavesOf, Part
<1> QED
  BY <1>1, <1>2, Zenon DEF SumsNamed, OpenSum, OpenLeaves, SumFunction

\* The same in the next state.
LEMMA SumsArePrimed == SumsNamed'
BY SumsAre, PTL

\* A part is an integer, and at most the quantity.
LEMMA PartInt ==
    \A k \in Kinds, side \in Side, q \in Nat : Part(k, side, q) \in Int /\ Part(k, side, q) <= q
BY DEF Part, Signed, Kinds, Side

\* Splitting a quantity splits its part.
LEMMA PartMinus ==
    \A k \in Kinds, side \in Side, q, f \in Nat :
        f <= q => Part(k, side, q - f) - Part(k, side, q) = -Part(k, side, f)
BY DEF Part, Signed, Kinds, Side

\* The summands are integers.
LEMMA LeavesInt ==
    ASSUME IInv, NEW k \in Kinds
    PROVE  /\ IsFiniteSet(OpenIds)
           /\ \A id \in OpenIds : /\ OrderOf(id) \in Order
                                  /\ OrderOf(id).side \in Side /\ OrderOf(id).leaves_qty \in Nat
                                  /\ LeavesOf(k)[id] = Part(k, OrderOf(id).side,
                                                            OrderOf(id).leaves_qty)
                                  /\ LeavesOf(k)[id] \in Int
           /\ OpenSum(k) \in Int
<1>1. TypeOK /\ IsFiniteSet(OpenIds)
  BY OpenFinite DEF IInv
<1>2. \A id \in OpenIds : OrderOf(id) \in Order
  BY <1>1 DEF TypeOK, OrderOf
<1>3. \A id \in OpenIds : OrderOf(id).side \in Side /\ OrderOf(id).leaves_qty \in Nat
  BY <1>2 DEF Order
<1>4. \A id \in OpenIds : LeavesOf(k)[id] = Part(k, OrderOf(id).side, OrderOf(id).leaves_qty)
  BY DEF LeavesOf
<1>5. \A id \in OpenIds : LeavesOf(k)[id] \in Int
  BY <1>3, <1>4, PartInt
<1>6. OpenSum(k) \in Int
  BY <1>1, <1>5, SumInt DEF OpenSum
<1> QED
  BY <1>1, <1>2, <1>3, <1>4, <1>5, <1>6

\* A new order adds its quantity.
LEMMA SumsAdded ==
    ASSUME IInv, NEW n, NEW o, Added(n, o), o.side \in Side, o.leaves_qty \in Nat,
           NEW k \in Kinds
    PROVE  OpenSum(k)' = OpenSum(k) + Part(k, o.side, o.leaves_qty)
<1> DEFINE f == LeavesOf(k)
           g == LeavesOf(k)'
<1>1. /\ n \notin OpenIds /\ OpenIds' = OpenIds \cup {n}
      /\ orders'[order_map'[n]] = o
      /\ \A i \in OpenIds : OrderOf(i)' = OrderOf(i)
  BY DEF Added
<1>2. IsFiniteSet(OpenIds) /\ \A i \in OpenIds : f[i] \in Int
  BY LeavesInt
<1>3. g = [i \in OpenIds' |-> Part(k, orders'[order_map'[i]].side,
                                      orders'[order_map'[i]].leaves_qty)]
  BY DEF LeavesOf, OrderOf
<1>4. \A i \in OpenIds : orders'[order_map'[i]] = OrderOf(i)
  BY <1>1 DEF OrderOf
<1>5. \A i \in OpenIds : f[i] = Part(k, OrderOf(i).side, OrderOf(i).leaves_qty)
  BY LeavesInt
<1>6. g[n] = Part(k, o.side, o.leaves_qty) /\ \A i \in OpenIds : g[i] = f[i]
  BY <1>1, <1>3, <1>4, <1>5
<1>7. g[n] \in Int
  BY <1>6, PartInt
<1> HIDE DEF f, g
<1>8. SumFunctionOnSet(g, OpenIds \cup {n}) = SumFunctionOnSet(f, OpenIds) + g[n]
  <2>1. IsFiniteSet(OpenIds) /\ n \notin OpenIds
    BY <1>1, <1>2
  <2>2. \A y \in OpenIds : f[y] \in Int
    BY <1>2
  <2>3. \A y \in OpenIds : g[y] = f[y]
    BY <1>6
  <2> QED
    BY <2>1, <2>2, <2>3, <1>7, SumExtend
<1> QED
  BY <1>1, <1>6, <1>8, Zenon DEF OpenSum, f, g

\* An order that ends takes its leaves with it.
LEMMA SumsEnded ==
    ASSUME IInv, NEW id, Ended(id), NEW k \in Kinds
    PROVE  OpenSum(k)' = OpenSum(k) - Part(k, OrderOf(id).side, OrderOf(id).leaves_qty)
<1> DEFINE f == LeavesOf(k)
           g == LeavesOf(k)'
<1>1. /\ id \in OpenIds /\ OpenIds' = OpenIds \ {id}
      /\ \A i \in OpenIds \ {id} : OrderOf(i)' = OrderOf(i)
  BY DEF Ended, OthersKept
<1>2. IsFiniteSet(OpenIds) /\ \A i \in OpenIds : f[i] \in Int
  BY LeavesInt
<1>3. g = [i \in OpenIds' |-> Part(k, OrderOf(i)'.side, OrderOf(i)'.leaves_qty)]
  BY DEF LeavesOf
<1>4. \A i \in OpenIds : f[i] = Part(k, OrderOf(i).side, OrderOf(i).leaves_qty)
  BY LeavesInt
<1>5. \A i \in OpenIds \ {id} : g[i] = f[i]
  BY <1>1, <1>3, <1>4
<1> HIDE DEF f, g
<1> DEFINE T == OpenIds'
<1>6. SumFunctionOnSet(g, T) = SumFunctionOnSet(f, OpenIds) - f[id]
  <2>1. SumFunctionOnSet(g, OpenIds \ {id}) = SumFunctionOnSet(f, OpenIds) - f[id]
    BY <1>1, <1>2, <1>5, SumShrink
  <2> QED
    BY <1>1, <2>1
<1> QED
  BY <1>1, <1>4, <1>6, Zenon DEF OpenSum, f, g, T

\* An order whose leaves fall takes the difference out of the sums.
LEMMA SumsUpdated ==
    ASSUME IInv, NEW id, NEW o, Updated(id, o), NEW k \in Kinds, NEW q \in Nat,
           o.side = OrderOf(id).side, o.leaves_qty = OrderOf(id).leaves_qty - q,
           q <= OrderOf(id).leaves_qty
    PROVE  OpenSum(k)' = OpenSum(k) - Part(k, o.side, q)
<1> DEFINE f == LeavesOf(k)
           g == LeavesOf(k)'
           s == o.side
           l == OrderOf(id).leaves_qty
<1>1. /\ id \in OpenIds /\ OpenIds' = OpenIds /\ OrderOf(id)' = o
      /\ \A i \in OpenIds \ {id} : OrderOf(i)' = OrderOf(i)
  BY DEF Updated, OthersKept
<1>2. IsFiniteSet(OpenIds) /\ \A i \in OpenIds : f[i] \in Int
  BY LeavesInt
<1>3. g = [i \in OpenIds' |-> Part(k, OrderOf(i)'.side, OrderOf(i)'.leaves_qty)]
  BY DEF LeavesOf
<1>4. \A i \in OpenIds : f[i] = Part(k, OrderOf(i).side, OrderOf(i).leaves_qty)
  BY LeavesInt
<1>5. s \in Side /\ l \in Nat /\ q <= l /\ l - q \in Nat
  BY <1>1, LeavesInt
<1>6. \A i \in OpenIds \ {id} : g[i] = f[i]
  BY <1>1, <1>3, <1>4
<1>7. g[id] = Part(k, s, l - q) /\ f[id] = Part(k, s, l)
  BY <1>1, <1>3, <1>4
<1>8. \A i \in OpenIds : f[i] \in Int /\ g[i] \in Int
  <2>1. g[id] \in Int
    BY <1>5, <1>7, PartInt
  <2> HIDE DEF g, f
  <2> QED
    BY <2>1, <1>2, <1>6
<1>9. Part(k, s, l - q) - Part(k, s, l) = -Part(k, s, q)
  BY <1>5, PartMinus
<1>10. Part(k, s, q) \in Int
  BY <1>5, PartInt
<1> HIDE DEF f, g, s, l
<1>11. /\ SumFunctionOnSet(f, OpenIds) \in Int
       /\ SumFunctionOnSet(g, OpenIds) = SumFunctionOnSet(f, OpenIds) + (g[id] - f[id])
  BY <1>1, <1>2, <1>6, <1>8, SumChange
<1>12. SumFunctionOnSet(g, OpenIds) = SumFunctionOnSet(f, OpenIds) - Part(k, s, q)
  BY <1>7, <1>9, <1>10, <1>11
<1> QED
  BY <1>1, <1>12, Zenon DEF OpenSum, f, g, s

\* The leaves after an order was rewritten or ended.
LEMMA LeavesUpdated ==
    ASSUME LeavesRight, NEW id, NEW o, Updated(id, o),
           o.filled_qty <= o.qty, o.leaves_qty = o.qty - o.filled_qty, o.qty <= max_order_qty
    PROVE  LeavesRight'
<1>1. /\ OpenIds' = OpenIds /\ OrderOf(id)' = o
      /\ \A i \in OpenIds \ {id} : OrderOf(i)' = OrderOf(i)
  BY DEF Updated, OthersKept
<1>2. ASSUME NEW i \in OpenIds
      PROVE  /\ OrderOf(i)'.filled_qty <= OrderOf(i)'.qty
             /\ OrderOf(i)'.leaves_qty = OrderOf(i)'.qty - OrderOf(i)'.filled_qty
             /\ OrderOf(i)'.qty <= max_order_qty
  <2>1. CASE i = id
    BY <2>1, <1>1
  <2>2. CASE i # id
    <3>1. OrderOf(i)' = OrderOf(i)
      BY <2>2, <1>1
    <3> QED
      BY <3>1 DEF LeavesRight
  <2> QED
    BY <2>1, <2>2
<1> QED
  BY <1>1, <1>2 DEF LeavesRight

\* The same for an order that ended.
LEMMA LeavesEnded ==
    ASSUME LeavesRight, NEW id, Ended(id)
    PROVE  LeavesRight'
<1>1. /\ OpenIds' = OpenIds \ {id}
      /\ \A i \in OpenIds \ {id} : OrderOf(i)' = OrderOf(i)
  BY DEF Ended, OthersKept
<1>2. ASSUME NEW i \in OpenIds \ {id}
      PROVE  /\ OrderOf(i)'.filled_qty <= OrderOf(i)'.qty
             /\ OrderOf(i)'.leaves_qty = OrderOf(i)'.qty - OrderOf(i)'.filled_qty
             /\ OrderOf(i)'.qty <= max_order_qty
  <2>1. OrderOf(i)' = OrderOf(i)
    BY <1>1
  <2> QED
    BY <2>1 DEF LeavesRight
<1> QED
  BY <1>1, <1>2 DEF LeavesRight

\* q of one side is no longer open, and pending_position_delta follows.
Fallen(side, q) ==
    /\ \A k \in Kinds : OpenSum(k)' = OpenSum(k) - Part(k, side, q)
    /\ pending_position_delta' = pending_position_delta - Signed(side, q)
    /\ LeavesRight'
    /\ position' = position \/ position' = position + Signed(side, q)

\* A NewAck changes no quantity.
LEMMA FallNewAck ==
    ASSUME IInv, LeavesRight, NEW r \in Report, OnNewAck(r)
    PROVE  \E side \in Side, q \in Nat : Fallen(side, q)
<1> DEFINE id == r.order_id
           o == OrderOf(id)
           n == [o EXCEPT !.status = "Live"]
<1>1. Updated(id, n)
  BY ShapeNewAck
<1>2. id \in OpenIds
  BY <1>1 DEF Updated
<1>3. o \in Order
  BY <1>2, LeavesInt DEF Kinds
<1>4. /\ n.side = o.side /\ n.qty = o.qty /\ n.filled_qty = o.filled_qty
      /\ n.leaves_qty = o.leaves_qty
      /\ o.side \in Side /\ o.leaves_qty \in Nat
  BY <1>3 DEF Order
<1>5. o.filled_qty <= o.qty /\ o.leaves_qty = o.qty - o.filled_qty /\ o.qty <= max_order_qty
  BY <1>2 DEF LeavesRight
<1>6. pending_position_delta' = pending_position_delta /\ position' = position
  BY DEF OnNewAck, exposure
<1>7. pending_position_delta \in Int
  BY DEF IInv, TypeOK
<1> HIDE DEF id, n
<1>8. LeavesRight'
  BY <1>1, <1>4, <1>5, LeavesUpdated
<1>9. ASSUME NEW k \in Kinds PROVE OpenSum(k)' = OpenSum(k) - Part(k, o.side, 0)
  <2>1. n.leaves_qty = OrderOf(id).leaves_qty - 0 /\ 0 <= OrderOf(id).leaves_qty
    BY <1>4
  <2>2. n.side = OrderOf(id).side
    BY <1>4
  <2>3. OpenSum(k)' = OpenSum(k) - Part(k, n.side, 0)
    BY <1>1, <2>1, <2>2, SumsUpdated
  <2> QED
    BY <2>2, <2>3
<1>10. pending_position_delta' = pending_position_delta - Signed(o.side, 0)
  BY <1>6, <1>7 DEF Signed
<1>11. Fallen(o.side, 0)
  BY <1>6, <1>8, <1>9, <1>10 DEF Fallen
<1> QED
  BY <1>4, <1>11

\* What an order still has open ends with it.
LEMMA FallEnded ==
    ASSUME IInv, LeavesRight, NEW id, Ended(id), NEW q, q = OrderOf(id).leaves_qty,
           pending_position_delta' = pending_position_delta - Signed(OrderOf(id).side, q),
           position' = position \/ position' = position + Signed(OrderOf(id).side, q)
    PROVE  \E side \in Side, n \in Nat : Fallen(side, n)
<1>1. id \in OpenIds
  BY DEF Ended
<1>2. OrderOf(id).side \in Side /\ q \in Nat
  BY <1>1, LeavesInt DEF Kinds
<1>3. LeavesRight'
  BY LeavesEnded
<1>4. \A k \in Kinds : OpenSum(k)' = OpenSum(k) - Part(k, OrderOf(id).side, q)
  BY SumsEnded
<1>5. Fallen(OrderOf(id).side, q)
  BY <1>3, <1>4 DEF Fallen
<1> QED
  BY <1>2, <1>5

\* A cancel or a reject takes out the leaves; a fill that keeps the protocol what it fills.
LEMMA FallCancelAck ==
    ASSUME IInv, LeavesRight, NEW r \in Report, OnCancelAck(r)
    PROVE  \E side \in Side, q \in Nat : Fallen(side, q)
<1> DEFINE id == r.order_id
<1>1. Ended(id)
  BY ShapeCancelAck
<1>2. /\ pending_position_delta' = pending_position_delta -
                Signed(OrderOf(id).side, OrderOf(id).leaves_qty)
      /\ position' = position
  BY DEF OnCancelAck
<1> HIDE DEF id
<1> QED
  BY <1>1, <1>2, FallEnded

\* The same for a Reject.
LEMMA FallReject ==
    ASSUME IInv, LeavesRight, NEW r \in Report, OnReject(r)
    PROVE  \E side \in Side, q \in Nat : Fallen(side, q)
<1> DEFINE id == r.order_id
<1>1. Ended(id)
  BY ShapeReject
<1>2. /\ pending_position_delta' = pending_position_delta -
                Signed(OrderOf(id).side, OrderOf(id).leaves_qty)
      /\ position' = position
  BY DEF OnReject
<1> HIDE DEF id
<1> QED
  BY <1>1, <1>2, FallEnded

\* A fill that keeps the protocol takes out what it fills: all the leaves when it
\* ends the order, less than that when it does not.
LEMMA FallFill ==
    ASSUME IInv, LeavesRight, NEW r \in Report, Conforms(r), OnFill(r)
    PROVE  \E side \in Side, q \in Nat : Fallen(side, q)
<1> DEFINE id == r.order_id
           o == OrderOf(id)
           fq == r.fill_qty
           n == PartlyFilled(o, fq)
<1>1. /\ id \in OpenIds /\ o \in Order
      /\ FullyFilled(o, r) => Ended(id)
      /\ ~ FullyFilled(o, r) => Updated(id, n)
  BY ShapeFill
<1>2. /\ pending_position_delta' = pending_position_delta - Signed(o.side, fq)
      /\ position' = position + Signed(o.side, fq)
      /\ r.exec_type \in {"Fill", "PartialFill"}
  BY DEF OnFill, apply_trading_fill
<1>3. /\ o.filled_qty <= o.qty /\ o.leaves_qty = o.qty - o.filled_qty /\ o.qty <= max_order_qty
  BY <1>1 DEF LeavesRight
<1>4. /\ o.side \in Side /\ o.leaves_qty \in Nat /\ o.qty \in Nat /\ o.filled_qty \in Nat
      /\ n.side = o.side /\ n.qty = o.qty /\ n.filled_qty = o.filled_qty + fq
      /\ n.leaves_qty = LeavesAfter(o, fq)
  BY <1>1 DEF Order, PartlyFilled
<1>5. /\ r.exec_type = "Fill" => fq = o.leaves_qty
      /\ r.exec_type = "PartialFill" => fq \in 1 .. o.leaves_qty - 1
  BY <1>1 DEF Conforms
<1>6. max_order_qty \in Nat
  BY LimitsAssumption DEF LimitsAssumption
<1>7. CASE r.exec_type = "Fill"
  <2>1. Ended(id) /\ fq = OrderOf(id).leaves_qty
    BY <1>1, <1>5, <1>7 DEF FullyFilled
  <2> HIDE DEF id, fq
  <2> QED
    BY <1>2, <2>1, FallEnded
<1>8. CASE r.exec_type = "PartialFill"
  <2>1. fq \in Nat /\ fq <= o.leaves_qty /\ fq < o.leaves_qty
    BY <1>4, <1>5, <1>8
  <2>2. LeavesAfter(o, fq) = o.leaves_qty - fq /\ LeavesAfter(o, fq) # 0
    BY <1>3, <1>4, <2>1 DEF LeavesAfter
  <2>3. ~ FullyFilled(o, r)
    BY <1>8, <2>2 DEF FullyFilled
  <2>4. Updated(id, n)
    BY <1>1, <2>3
  <2> HIDE DEF n, id, fq
  <2>5. n.filled_qty <= n.qty /\ n.leaves_qty = n.qty - n.filled_qty /\ n.qty <= max_order_qty
    BY <1>3, <1>4, <2>1, <2>2
  <2>6. LeavesRight'
    BY <2>4, <2>5, LeavesUpdated
  <2>7. n.side = OrderOf(id).side /\ n.leaves_qty = OrderOf(id).leaves_qty - fq
        /\ fq <= OrderOf(id).leaves_qty
    BY <1>4, <2>1, <2>2
  <2>8. \A k \in Kinds : OpenSum(k)' = OpenSum(k) - Part(k, n.side, fq)
    BY <2>1, <2>4, <2>7, SumsUpdated
  <2>9. Fallen(o.side, fq)
    BY <1>2, <1>4, <2>6, <2>8 DEF Fallen
  <2> QED
    BY <1>4, <2>1, <2>9
<1> QED
  BY <1>2, <1>7, <1>8

\* What the properties say, in terms of OpenSum.
ExposureSums ==
    /\ PendingDeltaIsOpenLeaves <=> pending_position_delta = OpenSum("Net")
    /\ WorstCaseExposure <=>
            LET bound == max_position + (max_live_orders - 1) * max_order_qty
            IN  /\ position + OpenSum("Buy") <= bound
                /\ position - OpenSum("Sell") >= -bound

\* The properties of module OMS are these.
LEMMA ExposureSumsAre == ExposureSums
<1>1. /\ SumFunction(NetLeaves) = OpenSum("Net")
      /\ OpenLeaves("Buy") = OpenSum("Buy") /\ OpenLeaves("Sell") = OpenSum("Sell")
  BY SumsAre DEF SumsNamed
<1> QED
  BY <1>1, Zenon DEF ExposureSums, PendingDeltaIsOpenLeaves, WorstCaseExposure

\* The same in the next state.
LEMMA ExposureSumsPrimed == ExposureSums'
BY ExposureSumsAre, PTL

\* The net part is the difference of the two sides' parts.
LEMMA PartNet ==
    ASSUME NEW side \in Side, NEW q \in Nat
    PROVE  /\ Part("Net", side, q) = Signed(side, q)
           /\ Signed(side, q) = Part("Buy", side, q) - Part("Sell", side, q)
           /\ Part("Buy", side, q) = IF side = "Buy" THEN q ELSE 0
           /\ Part("Sell", side, q) = IF side = "Sell" THEN q ELSE 0
BY DEF Part, Signed, Side

\* A report keeps the sums and pending_position_delta together.
LEMMA FallenKeeps ==
    ASSUME IInv, IInv', PendingDeltaIsOpenLeaves, DeltaSplits,
           NEW side \in Side, NEW q \in Nat, Fallen(side, q)
    PROVE  PendingDeltaIsOpenLeaves' /\ DeltaSplits'
<1> DEFINE b == OpenSum("Buy")
           s == OpenSum("Sell")
           n == OpenSum("Net")
           pb == Part("Buy", side, q)
           ps == Part("Sell", side, q)
           pn == Part("Net", side, q)
           x == Signed(side, q)
           d == pending_position_delta
           e == pending_position_delta'
<1>1. b \in Int /\ s \in Int /\ n \in Int
  BY LeavesInt DEF Kinds
<1>2. pb \in Int /\ ps \in Int /\ pn \in Int
  BY PartInt DEF Kinds
<1>3. pn = x /\ x = pb - ps
  BY PartNet
<1>4. d = n /\ d = b - s
  BY ExposureSumsAre DEF ExposureSums, DeltaSplits
<1>5. OpenSum("Buy")' = b - pb /\ OpenSum("Sell")' = s - ps /\ OpenSum("Net")' = n - pn /\ e = d - x
  BY DEF Fallen, Kinds
<1> HIDE DEF b, s, n, pb, ps, pn, x, d
<1>6. e = OpenSum("Net")' /\ e = OpenSum("Buy")' - OpenSum("Sell")'
  <2>1. n - pn = d - x /\ d - x = (b - pb) - (s - ps)
    BY <1>1, <1>2, <1>3, <1>4
  <2> QED
    BY <2>1, <1>5
<1>7. PendingDeltaIsOpenLeaves'
  BY <1>6, ExposureSumsPrimed DEF ExposureSums
<1>8. DeltaSplits'
  BY <1>6 DEF DeltaSplits
<1> QED
  BY <1>7, <1>8

\* send_new adds the quantity to the sums and to pending_position_delta.
LEMMA SendKeeps ==
    ASSUME ExposureInv, IInv', NEW side \in Side, NEW price \in Price, NEW qty \in Qty,
           NEW type \in Types, SendNew(side, price, qty, type)
    PROVE  /\ LeavesRight' /\ PendingDeltaIsOpenLeaves' /\ DeltaSplits'
           /\ \A k \in Kinds : OpenSum(k)' = OpenSum(k) + Part(k, side, qty)
<1> DEFINE o == NewOrder(side, price, qty, type)
           n == next_id
<1>1. IInv /\ LeavesRight /\ PendingDeltaIsOpenLeaves /\ DeltaSplits
  BY DEF ExposureInv
<1>2. Added(n, o)
  BY <1>1, ShapeSendNew
<1>3. /\ o.side = side /\ o.leaves_qty = qty /\ o.qty = qty /\ o.filled_qty = 0
      /\ qty \in Nat
  BY InputsAssumption DEF NewOrder, InputsAssumption
<1>4. qty <= max_order_qty /\ pending_position_delta' = pending_position_delta + Signed(side, qty)
  BY DEF SendNew, CheckRisk
<1> HIDE DEF o, n
<1>5. \A k \in Kinds : OpenSum(k)' = OpenSum(k) + Part(k, side, qty)
  <2>1. o.side \in Side /\ o.leaves_qty \in Nat
    BY <1>3
  <2>2. \A k \in Kinds : OpenSum(k)' = OpenSum(k) + Part(k, o.side, o.leaves_qty)
    BY <1>1, <1>2, <2>1, SumsAdded
  <2> QED
    BY <1>3, <2>2
<1>6. LeavesRight'
  <2>1. PICK m : m = n
    OBVIOUS
  <2>2. /\ OpenIds' = OpenIds \cup {m} /\ OrderOf(m)' = o
        /\ \A i \in OpenIds : OrderOf(i)' = OrderOf(i)
    BY <1>2, <2>1 DEF Added, OrderOf
  <2>3. ASSUME NEW i \in OpenIds \cup {m}
        PROVE  /\ OrderOf(i)'.filled_qty <= OrderOf(i)'.qty
               /\ OrderOf(i)'.leaves_qty = OrderOf(i)'.qty - OrderOf(i)'.filled_qty
               /\ OrderOf(i)'.qty <= max_order_qty
    <3>1. CASE i = m
      BY <3>1, <2>2, <1>3, <1>4
    <3>2. CASE i \in OpenIds
      <4>1. OrderOf(i)' = OrderOf(i)
        BY <3>2, <2>2
      <4> QED
        BY <3>2, <4>1, <1>1 DEF LeavesRight
    <3> QED
      BY <3>1, <3>2
  <2> QED
    BY <2>2, <2>3 DEF LeavesRight
<1> DEFINE bu == OpenSum("Buy")
           se == OpenSum("Sell")
           ne == OpenSum("Net")
           pb == Part("Buy", side, qty)
           ps == Part("Sell", side, qty)
           pn == Part("Net", side, qty)
           x == Signed(side, qty)
           d == pending_position_delta
<1>7. bu \in Int /\ se \in Int /\ ne \in Int
  BY <1>1, LeavesInt DEF Kinds
<1>8. pb \in Int /\ ps \in Int /\ pn \in Int
  BY <1>3, PartInt DEF Kinds
<1>9. pn = x /\ x = pb - ps
  BY <1>3, PartNet
<1>10. d = ne /\ d = bu - se
  BY <1>1, ExposureSumsAre DEF ExposureSums, DeltaSplits
<1>11. OpenSum("Buy")' = bu + pb /\ OpenSum("Sell")' = se + ps /\ OpenSum("Net")' = ne + pn
  BY <1>5 DEF Kinds
<1>12. pending_position_delta' = d + x
  BY <1>4
<1> HIDE DEF bu, se, ne, pb, ps, pn, x, d
<1>13. /\ pending_position_delta' = OpenSum("Net")'
       /\ pending_position_delta' = OpenSum("Buy")' - OpenSum("Sell")'
  <2>1. ne + pn = d + x /\ d + x = (bu + pb) - (se + ps)
    BY <1>7, <1>8, <1>9, <1>10
  <2> QED
    BY <2>1, <1>11, <1>12
<1>14. PendingDeltaIsOpenLeaves'
  BY <1>13, ExposureSumsPrimed DEF ExposureSums
<1>15. DeltaSplits'
  BY <1>13 DEF DeltaSplits
<1> QED
  BY <1>5, <1>6, <1>14, <1>15

\* Nothing that the sums are made of changes.
LEMMA ExposureFrame ==
    ASSUME UNCHANGED <<orders, order_map, position, pending_position_delta>>
    PROVE  /\ \A k \in Kinds : OpenSum(k)' = OpenSum(k)
           /\ LeavesRight => LeavesRight'
           /\ PendingDeltaIsOpenLeaves => PendingDeltaIsOpenLeaves'
           /\ DeltaSplits => DeltaSplits'
           /\ WorstCaseExposure => WorstCaseExposure'
<1>1. \A k : OpenSum(k)' = OpenSum(k)
  BY Zenon DEF OpenSum, LeavesOf, OpenIds, OrderOf
<1>2. LeavesRight => LeavesRight'
  BY DEF LeavesRight, OpenIds, OrderOf
<1>3. DeltaSplits => DeltaSplits'
  BY <1>1 DEF DeltaSplits
<1>4. PendingDeltaIsOpenLeaves => PendingDeltaIsOpenLeaves'
  BY <1>1, ExposureSumsAre, ExposureSumsPrimed DEF ExposureSums
<1>5. WorstCaseExposure => WorstCaseExposure'
  BY <1>1, ExposureSumsAre, ExposureSumsPrimed, Zenon DEF ExposureSums
<1> QED
  BY <1>1, <1>2, <1>3, <1>4, <1>5

\* A larger number of orders of at most q each.
LEMMA TimesMonotone ==
    ASSUME NEW a \in Nat, NEW b \in Nat, NEW q \in Nat, a <= b
    PROVE  a * q <= b * q /\ b * q \in Nat
<1>1. PICK c \in Nat : b = a + c
  <2>1. b - a \in Nat /\ b = a + (b - a)
    OBVIOUS
  <2> QED
    BY <2>1
<1>2. \A x, y, z \in Nat : (x + y) * z = x * z + y * z /\ x * z \in Nat /\ y * z \in Nat
  OBVIOUS
<1>3. b * q = a * q + c * q /\ a * q \in Nat /\ c * q \in Nat
  BY <1>1, <1>2
<1> QED
  BY <1>3

\* The open orders of one side are worth at most max_order_qty each.
LEMMA SideBound ==
    ASSUME IInv, LeavesRight, NEW k \in Kinds
    PROVE  /\ Cardinality(OpenIds) \in Nat
           /\ OpenSum(k) <= Cardinality(OpenIds) * max_order_qty
<1>1. IsFiniteSet(OpenIds) /\ Cardinality(OpenIds) \in Nat
  BY LeavesInt, FS_CardinalityType
<1>2. max_order_qty \in Nat
  BY LimitsAssumption DEF LimitsAssumption
<1>3. ASSUME NEW id \in OpenIds
      PROVE  LeavesOf(k)[id] \in Int /\ LeavesOf(k)[id] <= max_order_qty
  <2> DEFINE o == OrderOf(id)
  <2>1. /\ o \in Order /\ o.side \in Side /\ o.leaves_qty \in Nat
        /\ LeavesOf(k)[id] = Part(k, o.side, o.leaves_qty) /\ LeavesOf(k)[id] \in Int
    BY LeavesInt
  <2>2. o.qty \in Nat /\ o.filled_qty \in Nat
    BY <2>1 DEF Order
  <2>3. o.leaves_qty = o.qty - o.filled_qty /\ o.qty <= max_order_qty
    BY DEF LeavesRight
  <2> HIDE DEF o
  <2>4. Part(k, o.side, o.leaves_qty) <= o.leaves_qty
    BY <2>1, PartInt
  <2>5. o.leaves_qty <= max_order_qty
    BY <1>2, <2>2, <2>3
  <2> QED
    BY <1>2, <2>1, <2>4, <2>5
<1>4. SumFunctionOnSet(LeavesOf(k), OpenIds) <= Cardinality(OpenIds) * max_order_qty
  BY <1>1, <1>2, <1>3, SumBound
<1> QED
  BY <1>1, <1>4 DEF OpenSum

\* The arithmetic of check_risk: what the netted limit leaves to one side.
LEMMA RiskArith ==
    ASSUME NEW p \in Int, NEW b \in Int, NEW s \in Int, NEW d \in Int, NEW q \in Nat,
           NEW m \in Nat, NEW w \in Nat, d = b - s, b <= w, s <= w
    PROVE  /\ Abs(p + d + q) <= m => p + (b + q) <= m + w
           /\ Abs(p + d + (-q)) <= m => p - (s + q) >= -(m + w)
BY DEF Abs

\* send_new keeps the position within reach of the limit.
LEMMA WorstSend ==
    ASSUME ExposureInv, IInv', WorstCaseExposure, NEW side \in Side, NEW price \in Price,
           NEW qty \in Qty, NEW type \in Types, SendNew(side, price, qty, type)
    PROVE  WorstCaseExposure'
<1> DEFINE b == OpenSum("Buy")
           s == OpenSum("Sell")
           d == pending_position_delta
           w == (max_live_orders - 1) * max_order_qty
           c == Cardinality(OpenIds)
<1>1. IInv /\ LeavesRight /\ DeltaSplits /\ qty \in Nat
  BY InputsAssumption DEF ExposureInv, InputsAssumption
<1>2. /\ max_order_qty \in Nat /\ max_live_orders \in Nat /\ max_position \in Nat
      /\ position \in Int /\ d \in Int /\ live_orders \in Nat /\ pending_new \in Nat
  BY <1>1, LimitsAssumption DEF LimitsAssumption, IInv, TypeOK
<1>3. /\ live_orders + pending_new < max_live_orders
      /\ Abs(position + d + Signed(side, qty)) <= max_position
      /\ position' = position
  BY DEF SendNew, CheckRisk
<1>4. b \in Int /\ s \in Int /\ d = b - s
  BY <1>1, LeavesInt DEF Kinds, DeltaSplits
<1>5. c \in Nat /\ b <= c * max_order_qty /\ s <= c * max_order_qty
  BY <1>1, SideBound DEF Kinds
<1>6. live_orders + pending_new >= c
  BY <1>1 DEF IInv, CountersCoverOpenOrders
<1> HIDE DEF c, b, s, d
<1>7. c <= max_live_orders - 1 /\ max_live_orders - 1 \in Nat
  BY <1>2, <1>3, <1>5, <1>6
<1>8. c * max_order_qty <= w /\ w \in Nat /\ c * max_order_qty \in Nat
  <2>1. c * max_order_qty <= w /\ w \in Nat
    <3> DEFINE h == max_live_orders - 1
    <3>1. h \in Nat /\ c <= h
      BY <1>7
    <3> HIDE DEF h
    <3>2. c * max_order_qty <= h * max_order_qty /\ h * max_order_qty \in Nat
      BY <1>2, <1>5, <3>1, TimesMonotone
    <3> QED
      BY <3>2 DEF h
  <2>2. \A x, y \in Nat : x * y \in Nat
    OBVIOUS
  <2> QED
    BY <1>2, <1>5, <2>1, <2>2
<1> HIDE DEF w
<1>9. b <= w /\ s <= w
  BY <1>4, <1>5, <1>8
<1>10. \A k \in Kinds : OpenSum(k)' = OpenSum(k) + Part(k, side, qty)
  BY SendKeeps
<1>11. /\ OpenSum("Buy")' = b + (IF side = "Buy" THEN qty ELSE 0)
       /\ OpenSum("Sell")' = s + (IF side = "Sell" THEN qty ELSE 0)
  BY <1>1, <1>10, PartNet DEF Kinds, b, s
<1>12. position + b <= max_position + w /\ position - s >= -(max_position + w)
  BY ExposureSumsAre DEF ExposureSums, b, s, w
<1>13. CASE side = "Buy"
  <2>1. Abs(position + d + qty) <= max_position
    BY <1>3, <1>13 DEF Signed
  <2>2. position + (b + qty) <= max_position + w
    BY <1>1, <1>2, <1>4, <1>8, <1>9, <2>1, RiskArith
  <2>3. OpenSum("Buy")' = b + qty /\ OpenSum("Sell")' = s
    BY <1>4, <1>11, <1>13
  <2>4. /\ position' + OpenSum("Buy")' <= max_position + w
        /\ position' - OpenSum("Sell")' >= -(max_position + w)
    BY <1>3, <1>12, <2>2, <2>3
  <2> QED
    BY <2>4, ExposureSumsPrimed DEF ExposureSums, w
<1>14. CASE side = "Sell"
  <2>1. Abs(position + d + (-qty)) <= max_position
    BY <1>3, <1>14 DEF Signed
  <2>2. position - (s + qty) >= -(max_position + w)
    BY <1>1, <1>2, <1>4, <1>8, <1>9, <2>1, RiskArith
  <2>3. OpenSum("Sell")' = s + qty /\ OpenSum("Buy")' = b
    BY <1>4, <1>11, <1>14
  <2>4. /\ position' + OpenSum("Buy")' <= max_position + w
        /\ position' - OpenSum("Sell")' >= -(max_position + w)
    BY <1>3, <1>12, <2>2, <2>3
  <2> QED
    BY <2>4, ExposureSumsPrimed DEF ExposureSums, w
<1> QED
  BY <1>13, <1>14 DEF Side

\* A report that keeps the protocol moves the position only as far as the open
\* orders had already been counted.
LEMMA WorstFallen ==
    ASSUME IInv, WorstCaseExposure, NEW side \in Side, NEW q \in Nat, Fallen(side, q)
    PROVE  WorstCaseExposure'
<1> DEFINE b == OpenSum("Buy")
           s == OpenSum("Sell")
           m == max_position + (max_live_orders - 1) * max_order_qty
<1>1. b \in Int /\ s \in Int /\ position \in Int
  BY LeavesInt DEF Kinds, IInv, TypeOK
<1>2. m \in Int
  <2>1. max_order_qty \in Nat /\ max_position \in Nat /\ max_live_orders - 1 \in Int
    BY LimitsAssumption DEF LimitsAssumption
  <2>2. \A x, y \in Int : x * y \in Int
    OBVIOUS
  <2> QED
    BY <2>1, <2>2
<1>3. position + b <= m /\ position - s >= -m
  BY ExposureSumsAre DEF ExposureSums
<1>4. /\ OpenSum("Buy")' = b - (IF side = "Buy" THEN q ELSE 0)
      /\ OpenSum("Sell")' = s - (IF side = "Sell" THEN q ELSE 0)
  BY PartNet DEF Fallen, Kinds
<1>5. position' = position \/ position' = position + Signed(side, q)
  BY DEF Fallen
<1>6. Signed(side, q) = IF side = "Buy" THEN q ELSE -q
  BY DEF Signed
<1>7. side = "Buy" \/ side = "Sell"
  BY DEF Side
<1> HIDE DEF b, s, m
<1>8. position' + OpenSum("Buy")' <= m /\ position' - OpenSum("Sell")' >= -m
  <2>1. CASE side = "Buy"
    BY <1>1, <1>2, <1>3, <1>4, <1>5, <1>6, <2>1
  <2>2. CASE side = "Sell"
    BY <1>1, <1>2, <1>3, <1>4, <1>5, <1>6, <2>2
  <2> QED
    BY <1>7, <2>1, <2>2
<1> QED
  BY <1>8, ExposureSumsPrimed DEF ExposureSums, m

\* Every step of an exchange that keeps the protocol.
LEMMA ExposureNext ==
    ASSUME ExposureInv, [ConformingNext]_vars
    PROVE  ExposureInv' /\ (WorstCaseExposure => WorstCaseExposure')
<1>1. IInv /\ LeavesRight /\ PendingDeltaIsOpenLeaves /\ DeltaSplits
  BY DEF ExposureInv
<1>2. IInv'
  BY <1>1, IInvNext, ConformingIsNext
<1>3. ASSUME UNCHANGED <<bookkeeping, exposure>>
      PROVE  ExposureInv' /\ (WorstCaseExposure => WorstCaseExposure')
  <2>1. UNCHANGED <<orders, order_map, position, pending_position_delta>>
    BY <1>3 DEF bookkeeping, exposure
  <2> QED
    BY <1>1, <1>2, <2>1, ExposureFrame DEF ExposureInv
<1>4. ASSUME NEW side \in Side, NEW q \in Nat, Fallen(side, q)
      PROVE  ExposureInv' /\ (WorstCaseExposure => WorstCaseExposure')
  <2>1. PendingDeltaIsOpenLeaves' /\ DeltaSplits'
    BY <1>1, <1>2, <1>4, FallenKeeps
  <2>2. LeavesRight'
    BY <1>4 DEF Fallen
  <2> QED
    BY <1>1, <1>2, <1>4, <2>1, <2>2, WorstFallen DEF ExposureInv
<1>5. ASSUME NEW side \in Side, NEW price \in Price, NEW qty \in Qty, NEW type \in Types,
             SendNew(side, price, qty, type)
      PROVE  ExposureInv' /\ (WorstCaseExposure => WorstCaseExposure')
  BY <1>2, <1>5, SendKeeps, WorstSend DEF ExposureInv
<1>6. CASE Request
  <2>1. CASE UNCHANGED vars
    BY <2>1, <1>3 DEF vars
  <2>2. CASE \E p \in Price \cup {0} : SetReferencePrice(p)
    BY <2>2, <1>3 DEF SetReferencePrice
  <2> QED
    BY <1>5, <1>6, <2>1, <2>2 DEF Request, SendRefused
<1>7. ASSUME NEW r \in Report, Conforms(r), OnExecution(r)
      PROVE  ExposureInv' /\ (WorstCaseExposure => WorstCaseExposure')
  <2>1. CASE OnIgnored(r)
    BY <2>1, <1>3 DEF OnIgnored, vars
  <2>2. CASE OnNewAck(r) \/ OnFill(r) \/ OnCancelAck(r) \/ OnReject(r)
    <3>1. \E side \in Side, q \in Nat : Fallen(side, q)
      BY <1>1, <1>7, <2>2, FallNewAck, FallFill, FallCancelAck, FallReject
    <3> QED
      BY <3>1, <1>4
  <2> QED
    BY <1>7, <2>1, <2>2 DEF OnExecution
<1>8. CASE UNCHANGED vars
  BY <1>8, <1>3 DEF vars
<1> QED
  BY <1>6, <1>7, <1>8 DEF ConformingNext

\* Nothing is open at the start.
LEMMA ExposureInit == ASSUME Init PROVE ExposureInv
<1>1. IInv
  BY IInvInit
<1>2. OpenIds = {} /\ pending_position_delta = 0
  BY DEF Init, OpenIds
<1>3. \A k : OpenSum(k) = 0
  BY <1>2, SumStep, FS_EmptySet DEF OpenSum
<1>4. PendingDeltaIsOpenLeaves /\ DeltaSplits
  BY <1>2, <1>3, ExposureSumsAre DEF ExposureSums, DeltaSplits
<1>5. LeavesRight
  BY <1>2 DEF LeavesRight
<1> QED
  BY <1>1, <1>4, <1>5 DEF ExposureInv

\* What pending_position_delta_ is declared to be: as long as the exchange keeps the
\* protocol it is the net quantity of the orders that are still in flight, whatever
\* the order of the sends, fills, cancels and rejects, and for every limit.
THEOREM DeltaIsOpenLeaves == ConformingSpec => []PendingDeltaIsOpenLeaves
<1>1. Init => ExposureInv
  BY ExposureInit
<1>2. ExposureInv /\ [ConformingNext]_vars => ExposureInv'
  BY ExposureNext
<1>3. ExposureInv => PendingDeltaIsOpenLeaves
  BY DEF ExposureInv
<1> QED
  BY <1>1, <1>2, <1>3, PTL DEF ConformingSpec

\* check_risk nets buys against sells, and the position can still not leave
\* max_position by more than what the other open orders are worth.  A limit of no
\* live order at all is left out: with it nothing is ever sent and the bound, which
\* counts all orders but one, is meaningless.
THEOREM ExposureBounded ==
    ASSUME max_live_orders >= 1
    PROVE  ConformingSpec => []WorstCaseExposure
<1>1. ASSUME Init PROVE ExposureInv /\ WorstCaseExposure
  <2>1. ExposureInv
    BY <1>1, ExposureInit
  <2>2. OpenIds = {} /\ position = 0
    BY <1>1 DEF Init, OpenIds
  <2>3. \A k : OpenSum(k) = 0
    BY <2>2, SumStep, FS_EmptySet DEF OpenSum
  <2> DEFINE w == (max_live_orders - 1) * max_order_qty
  <2>4. w \in Nat /\ max_position \in Nat
    <3>1. max_order_qty \in Nat /\ max_position \in Nat /\ max_live_orders - 1 \in Nat
      BY LimitsAssumption DEF LimitsAssumption
    <3>2. \A x, y \in Nat : x * y \in Nat
      OBVIOUS
    <3> QED
      BY <3>1, <3>2
  <2> HIDE DEF w
  <2>5. position + OpenSum("Buy") <= max_position + w
        /\ position - OpenSum("Sell") >= -(max_position + w)
    BY <2>2, <2>3, <2>4
  <2>6. WorstCaseExposure
    BY <2>5, ExposureSumsAre DEF ExposureSums, w
  <2> QED
    BY <2>1, <2>6
<1>2. ExposureInv /\ WorstCaseExposure /\ [ConformingNext]_vars
        => ExposureInv' /\ WorstCaseExposure'
  BY ExposureNext
<1> QED
  BY <1>1, <1>2, PTL DEF ConformingSpec

-----------------------------------------------------------------------------
(* What is between the gateway and the exchange *)

\* The reports on their way back, the next one to be parsed first.
InFlight == from_exchange \o answers

\* The open orders: id -> order.
Opened == [id \in OpenIds |-> OrderOf(id)]

\* Which report about an order may come behind which.
Follows ==
    {<<"NewAck", "Fill">>, <<"NewAck", "CancelAck">>, <<"NewAck", "PartialFill">>,
     <<"PartialFill", "CancelAck">>, <<"Fill", "NewAck">>}

Ordered(q) ==
    \A i, j \in 1 .. Len(q) :
        i < j /\ q[i].order_id = q[j].order_id => <<q[i].exec_type, q[j].exec_type>> \in Follows

\* Report r is one that the protocol allows for order o, a CancelAck apart.
Fits(r, o) ==
    /\ r.exec_type # "CancelReject"
    /\ r.exec_type = "Reject" => o.status = "Sent"
    /\ r.exec_type = "Fill" => r.fill_qty = o.leaves_qty
    /\ r.exec_type = "PartialFill" => r.fill_qty \in 1 .. o.leaves_qty - 1

\* The i-th report has its order's NewAck before it.
AckBefore(q, i) ==
    \E j \in 1 .. i - 1 : q[j].order_id = q[i].order_id /\ q[j].exec_type = "NewAck"

\* Every report in q will be one that the protocol allows when its turn comes, with
\* the orders of M open now.
Expected(q, M) ==
    \A i \in 1 .. Len(q) : q[i].order_id \in DOMAIN M =>
        /\ Fits(q[i], M[q[i].order_id])
        /\ q[i].exec_type = "CancelAck" =>
                M[q[i].order_id].status # "Sent" \/ AckBefore(q, i)

\* An order that the exchange has not taken is as send_new left it, and nothing is
\* reported of it.
Untaken(t, q, M) ==
    /\ \A i, j \in 1 .. Len(t) : t[i] = t[j] => i = j
    /\ \A i \in 1 .. Len(t) :
            /\ t[i] \in DOMAIN M
            /\ M[t[i]].status = "Sent"
            /\ M[t[i]].leaves_qty = M[t[i]].qty
            /\ \A j \in 1 .. Len(q) : q[j].order_id # t[i]

\* Only orders that were sent are reported on.
Issued(q, n) == \A i \in 1 .. Len(q) : q[i].order_id < n

Sound(q, t, M, n) == Issued(q, n) /\ Ordered(q) /\ Expected(q, M) /\ Untaken(t, q, M)

\* Every open order is still to be taken, or its end is on the way back.
Remembered(q, t, M) ==
    \A id \in DOMAIN M :
        \/ \E i \in 1 .. Len(t) : t[i] = id
        \/ \E i \in 1 .. Len(q) : q[i].order_id = id /\ q[i].exec_type \in Terminal

-----------------------------------------------------------------------------
(* Queues *)

\* The first element of a queue in two parts is parsed.
LEMMA TailConcat ==
    ASSUME NEW S, NEW s \in Seq(S), NEW t \in Seq(S), s # << >>
    PROVE  /\ Tail(s) \o t \in Seq(S)
           /\ Tail(s) \o t = Tail(s \o t)
           /\ s \o t \in Seq(S) /\ s \o t # << >> /\ (s \o t)[1] = Head(s) /\ Head(s) \in S
<1>1. /\ Tail(s) \in Seq(S) /\ Len(Tail(s)) = Len(s) - 1
      /\ \A i \in 1 .. Len(Tail(s)) : Tail(s)[i] = s[i + 1]
  BY HeadTailProperties
<1>2. Len(s) \in Nat /\ Len(s) >= 1 /\ Len(t) \in Nat
  BY EmptySeq, LenProperties
<1>3. /\ s \o t \in Seq(S) /\ Len(s \o t) = Len(s) + Len(t)
      /\ \A i \in 1 .. Len(s) + Len(t) :
            (s \o t)[i] = IF i <= Len(s) THEN s[i] ELSE t[i - Len(s)]
  BY ConcatProperties
<1>4. s \o t # << >>
  BY <1>2, <1>3, EmptySeq
<1>5. /\ Tail(s \o t) \in Seq(S) /\ Len(Tail(s \o t)) = (Len(s) + Len(t)) - 1
      /\ \A i \in 1 .. Len(Tail(s \o t)) : Tail(s \o t)[i] = (s \o t)[i + 1]
  BY <1>3, <1>4, HeadTailProperties
<1>6. /\ Tail(s) \o t \in Seq(S) /\ Len(Tail(s) \o t) = Len(Tail(s)) + Len(t)
      /\ \A i \in 1 .. Len(Tail(s)) + Len(t) :
            (Tail(s) \o t)[i] = IF i <= Len(Tail(s)) THEN Tail(s)[i] ELSE t[i - Len(Tail(s))]
  BY <1>1, ConcatProperties
<1> DEFINE a == Tail(s) \o t
           b == Tail(s \o t)
           c == s \o t
           d == Tail(s)
<1>7. Len(a) = Len(b)
  BY <1>1, <1>2, <1>5, <1>6
<1>8. ASSUME NEW i \in 1 .. Len(a) PROVE a[i] = b[i]
  <2> HIDE DEF a, b, c, d
  <2>1. i \in 1 .. Len(d) + Len(t) /\ i + 1 \in 1 .. Len(s) + Len(t) /\ i \in 1 .. Len(b)
    BY <1>1, <1>2, <1>6, <1>7 DEF a, d
  <2>2. b[i] = c[i + 1]
    BY <1>5, <2>1 DEF b, c
  <2>3. a[i] = IF i <= Len(d) THEN d[i] ELSE t[i - Len(d)]
    BY <1>6, <2>1 DEF a, d
  <2>4. c[i + 1] = IF i + 1 <= Len(s) THEN s[i + 1] ELSE t[(i + 1) - Len(s)]
    BY <1>3, <2>1 DEF c
  <2>5. Len(d) = Len(s) - 1 /\ \A j \in 1 .. Len(d) : d[j] = s[j + 1]
    BY <1>1 DEF d
  <2>6. CASE i <= Len(d)
    BY <1>2, <2>1, <2>2, <2>3, <2>4, <2>5, <2>6
  <2>7. CASE ~ (i <= Len(d))
    <3>1. i - Len(d) = (i + 1) - Len(s) /\ ~ (i + 1 <= Len(s))
      BY <1>2, <2>1, <2>5, <2>7
    <3> QED
      BY <2>2, <2>3, <2>4, <2>7, <3>1
  <2> QED
    BY <2>6, <2>7
<1>9. a = b
  <2>1. a \in Seq(S) /\ b \in Seq(S)
    BY <1>5, <1>6
  <2> HIDE DEF a, b
  <2> QED
    BY <1>7, <1>8, <2>1, SeqEqual
<1>10. (s \o t)[1] = Head(s) /\ Head(s) \in S
  <2>1. Head(s) = s[1]
    OBVIOUS
  <2> QED
    BY <1>2, <1>3, <2>1, HeadTailProperties
<1> QED
  BY <1>3, <1>4, <1>6, <1>9, <1>10

\* The exchange writes what it owed: the queue in two parts stays as it is.
LEMMA ShiftConcat ==
    ASSUME NEW S, NEW s \in Seq(S), NEW t \in Seq(S), t # << >>
    PROVE  /\ Append(s, Head(t)) \in Seq(S) /\ Tail(t) \in Seq(S)
           /\ Append(s, Head(t)) \o Tail(t) = s \o t
<1>1. Head(t) \in S /\ Tail(t) \in Seq(S)
  BY HeadTailProperties
<1>2. <<Head(t)>> \in Seq(S)
  BY <1>1
<1>3. Append(s, Head(t)) = s \o <<Head(t)>> /\ Append(s, Head(t)) \in Seq(S)
  BY <1>1, AppendIsConcat, AppendProperties
<1>4. (s \o <<Head(t)>>) \o Tail(t) = s \o (<<Head(t)>> \o Tail(t))
  BY <1>1, <1>2, ConcatAssociative
<1>5. <<Head(t)>> \o Tail(t) = t
  <2> DEFINE u == <<Head(t)>>
             v == Tail(t)
  <2>1. u \in Seq(S) /\ Len(u) = 1 /\ u[1] = Head(t) /\ Head(t) = t[1]
    BY <1>2
  <2>2. v \in Seq(S) /\ Len(v) = Len(t) - 1 /\ \A i \in 1 .. Len(v) : v[i] = t[i + 1]
    BY HeadTailProperties
  <2>3. Len(t) \in Nat /\ Len(t) >= 1
    BY EmptySeq
  <2> HIDE DEF u, v
  <2>0. u \in Seq(S) /\ v \in Seq(S)
    BY <2>1, <2>2
  <2>4. /\ u \o v \in Seq(S) /\ Len(u \o v) = Len(u) + Len(v)
        /\ \A i \in 1 .. Len(u) + Len(v) : (u \o v)[i] = IF i <= Len(u) THEN u[i] ELSE v[i - Len(u)]
    BY <2>0, ConcatProperties
  <2>5. Len(u \o v) = Len(t)
    BY <2>1, <2>2, <2>3, <2>4
  <2>6. ASSUME NEW i \in 1 .. Len(u \o v) PROVE (u \o v)[i] = t[i]
    <3>1. i \in 1 .. Len(u) + Len(v)
      BY <2>4
    <3>2. CASE i = 1
      BY <2>1, <2>4, <3>1, <3>2
    <3>3. CASE i # 1
      <4>1. i - 1 \in 1 .. Len(v) /\ (i - 1) + 1 = i /\ ~ (i <= Len(u))
        BY <2>1, <2>2, <2>3, <2>5, <3>3
      <4>2. v[i - 1] = t[(i - 1) + 1]
        BY <2>2, <4>1
      <4> QED
        BY <2>1, <2>4, <3>1, <4>1, <4>2
    <3> QED
      BY <3>2, <3>3
  <2>7. u \o v = t
    BY <2>4, <2>5, <2>6, SeqEqual
  <2> QED
    BY <2>7 DEF u, v
<1> QED
  BY <1>1, <1>3, <1>4, <1>5

\* Dropping the first report keeps the order of the others.
LEMMA OrderedTail ==
    ASSUME NEW q \in Seq(Report), q # << >>, Ordered(q)
    PROVE  Ordered(Tail(q))
<1> DEFINE t == Tail(q)
<1>1. t \in Seq(Report) /\ Len(t) = Len(q) - 1 /\ \A i \in 1 .. Len(t) : t[i] = q[i + 1]
  BY HeadTailProperties
<1>2. Len(q) \in Nat /\ Len(q) >= 1
  BY EmptySeq
<1> HIDE DEF t
<1>3. ASSUME NEW i \in 1 .. Len(t), NEW j \in 1 .. Len(t), i < j, t[i].order_id = t[j].order_id
      PROVE  <<t[i].exec_type, t[j].exec_type>> \in Follows
  <2>1. i + 1 \in 1 .. Len(q) /\ j + 1 \in 1 .. Len(q) /\ i + 1 < j + 1
    BY <1>1, <1>2, <1>3
  <2>2. t[i] = q[i + 1] /\ t[j] = q[j + 1]
    BY <1>1
  <2> QED
    BY <1>3, <2>1, <2>2 DEF Ordered
<1>4. Ordered(t)
  BY <1>3 DEF Ordered
<1> QED
  BY <1>4 DEF t

\* Element i of a queue with another one behind it.
LEMMA ConcatElement ==
    ASSUME NEW S, NEW q \in Seq(S), NEW a \in Seq(S)
    PROVE  /\ q \o a \in Seq(S) /\ Len(q) \in Nat /\ Len(a) \in Nat
           /\ Len(q \o a) = Len(q) + Len(a)
           /\ \A i \in 1 .. Len(q) : i \in 1 .. Len(q \o a) /\ (q \o a)[i] = q[i]
           /\ \A i \in 1 .. Len(a) : Len(q) + i \in 1 .. Len(q \o a) /\ (q \o a)[Len(q) + i] = a[i]
           /\ \A i \in 1 .. Len(q \o a) :
                i \in 1 .. Len(q) \/ \E k \in 1 .. Len(a) : i = Len(q) + k
<1>1. /\ q \o a \in Seq(S) /\ Len(q \o a) = Len(q) + Len(a)
      /\ \A i \in 1 .. Len(q) + Len(a) : (q \o a)[i] = IF i <= Len(q) THEN q[i] ELSE a[i - Len(q)]
  BY ConcatProperties
<1>2. Len(q) \in Nat /\ Len(a) \in Nat
  BY LenProperties
<1>3. \A i \in 1 .. Len(q) : i \in 1 .. Len(q \o a) /\ (q \o a)[i] = q[i]
  BY <1>1, <1>2
<1>4. ASSUME NEW i \in 1 .. Len(a)
      PROVE  Len(q) + i \in 1 .. Len(q \o a) /\ (q \o a)[Len(q) + i] = a[i]
  <2>1. /\ Len(q) + i \in 1 .. Len(q) + Len(a) /\ ~ (Len(q) + i <= Len(q))
        /\ (Len(q) + i) - Len(q) = i
    BY <1>2
  <2> QED
    BY <1>1, <2>1
<1>5. ASSUME NEW i \in 1 .. Len(q \o a), i \notin 1 .. Len(q)
      PROVE  \E k \in 1 .. Len(a) : i = Len(q) + k
  <2>1. i - Len(q) \in 1 .. Len(a) /\ i = Len(q) + (i - Len(q))
    BY <1>1, <1>2, <1>5
  <2> QED
    BY <2>1
<1> QED
  BY <1>1, <1>2, <1>3, <1>4, <1>5

\* Reports about a new order, behind those about others.
LEMMA OrderedConcat ==
    ASSUME NEW q \in Seq(Report), NEW a \in Seq(Report), Ordered(q), Ordered(a), NEW id,
           \A i \in 1 .. Len(q) : q[i].order_id # id,
           \A i \in 1 .. Len(a) : a[i].order_id = id
    PROVE  Ordered(q \o a)
<1> DEFINE c == q \o a
           n == Len(q)
<1>1. /\ n \in Nat /\ Len(a) \in Nat
      /\ \A i \in 1 .. n : c[i] = q[i]
      /\ \A i \in 1 .. Len(a) : c[n + i] = a[i]
      /\ \A i \in 1 .. Len(c) : i \in 1 .. n \/ \E k \in 1 .. Len(a) : i = n + k
  BY ConcatElement
<1> HIDE DEF c, n
<1>2. ASSUME NEW i \in 1 .. Len(c), NEW j \in 1 .. Len(c), i < j, c[i].order_id = c[j].order_id
      PROVE  <<c[i].exec_type, c[j].exec_type>> \in Follows
  <2>1. CASE i \in 1 .. n /\ j \in 1 .. n
    <3>1. c[i] = q[i] /\ c[j] = q[j]
      BY <1>1, <2>1
    <3> QED
      BY <1>2, <2>1, <3>1 DEF Ordered, n
  <2>2. ASSUME NEW k \in 1 .. Len(a), NEW l \in 1 .. Len(a), i = n + k, j = n + l
        PROVE  <<c[i].exec_type, c[j].exec_type>> \in Follows
    <3>1. c[i] = a[k] /\ c[j] = a[l] /\ k < l
      BY <1>1, <1>2, <2>2
    <3> QED
      BY <1>2, <3>1 DEF Ordered
  <2>3. ASSUME i \in 1 .. n, NEW l \in 1 .. Len(a), j = n + l PROVE FALSE
    <3>1. c[i] = q[i] /\ c[j] = a[l]
      BY <1>1, <2>3
    <3>2. q[i].order_id # id /\ a[l].order_id = id
      BY <2>3 DEF n
    <3> QED
      BY <1>2, <3>1, <3>2
  <2>4. ASSUME j \in 1 .. n, NEW k \in 1 .. Len(a), i = n + k PROVE FALSE
    BY <1>1, <1>2, <2>4
  <2> QED
    BY <1>1, <2>1, <2>2, <2>3, <2>4
<1>3. Ordered(c)
  BY <1>2 DEF Ordered
<1> QED
  BY <1>3 DEF c

\* Dropping the first of a sequence.
LEMMA TailElement ==
    ASSUME NEW S, NEW q \in Seq(S), q # << >>
    PROVE  /\ Tail(q) \in Seq(S) /\ Len(q) \in Nat /\ Len(Tail(q)) \in Nat
           /\ Len(q) = Len(Tail(q)) + 1 /\ 1 \in 1 .. Len(q) /\ Head(q) = q[1] /\ q[1] \in S
           /\ \A i \in 1 .. Len(Tail(q)) : i + 1 \in 1 .. Len(q) /\ Tail(q)[i] = q[i + 1]
           /\ \A j \in 1 .. Len(q) : j # 1 => \E i \in 1 .. Len(Tail(q)) : j = i + 1
<1> DEFINE t == Tail(q)
<1>1. t \in Seq(S) /\ Len(t) = Len(q) - 1 /\ \A i \in 1 .. Len(t) : t[i] = q[i + 1]
  BY HeadTailProperties
<1>2. Len(q) \in Nat /\ Len(q) >= 1 /\ Head(q) = q[1] /\ Head(q) \in S
  BY EmptySeq, HeadTailProperties
<1> HIDE DEF t
<1>3. Len(t) \in Nat /\ Len(q) = Len(t) + 1 /\ 1 \in 1 .. Len(q)
  BY <1>1, <1>2
<1>4. \A i \in 1 .. Len(t) : i + 1 \in 1 .. Len(q) /\ t[i] = q[i + 1]
  BY <1>1, <1>3
<1>5. ASSUME NEW j \in 1 .. Len(q), j # 1 PROVE \E i \in 1 .. Len(t) : j = i + 1
  <2>1. j - 1 \in 1 .. Len(t) /\ j = (j - 1) + 1
    BY <1>3, <1>5
  <2> QED
    BY <2>1
<1> QED
  BY <1>1, <1>2, <1>3, <1>4, <1>5 DEF t

\* One more at the end of a sequence.
LEMMA AppendElement ==
    ASSUME NEW S, NEW t \in Seq(S), NEW x \in S
    PROVE  /\ Append(t, x) \in Seq(S) /\ Len(t) \in Nat /\ Len(Append(t, x)) = Len(t) + 1
           /\ \A i \in 1 .. Len(t) : i \in 1 .. Len(Append(t, x)) /\ Append(t, x)[i] = t[i]
           /\ Append(t, x)[Len(t) + 1] = x /\ Len(t) + 1 \in 1 .. Len(Append(t, x))
           /\ \A i \in 1 .. Len(Append(t, x)) : i \in 1 .. Len(t) \/ i = Len(t) + 1
<1>1. /\ Append(t, x) \in Seq(S) /\ Len(Append(t, x)) = Len(t) + 1
      /\ \A i \in 1 .. Len(t) : Append(t, x)[i] = t[i]
      /\ Append(t, x)[Len(t) + 1] = x
  BY AppendProperties
<1>2. Len(t) \in Nat
  BY LenProperties
<1> QED
  BY <1>1, <1>2

-----------------------------------------------------------------------------
(* The queues, step by step *)

\* What processing report r makes of the open orders: M before, N after.
Processed(r, M, N) ==
    /\ DOMAIN N \subseteq DOMAIN M
    /\ \A id \in DOMAIN M : id # r.order_id => id \in DOMAIN N /\ N[id] = M[id]
    /\ r.order_id \in DOMAIN N =>
            /\ N[r.order_id].status # "Sent"
            /\ N[r.order_id].price = M[r.order_id].price
            /\ \/ r.exec_type = "NewAck"
                    /\ N[r.order_id].leaves_qty = M[r.order_id].leaves_qty
               \/ r.exec_type = "PartialFill"

\* A report is parsed and processed.
LEMMA SoundTail ==
    ASSUME NEW q \in Seq(Report), q # << >>, NEW t \in Seq(OrderId), NEW M, NEW N, NEW n,
           Sound(q, t, M, n), Processed(q[1], M, N)
    PROVE  Sound(Tail(q), t, N, n)
<1> DEFINE u == Tail(q)
<1>1. /\ u \in Seq(Report) /\ Len(q) \in Nat /\ Len(u) \in Nat /\ Len(q) = Len(u) + 1
      /\ 1 \in 1 .. Len(q)
      /\ \A i \in 1 .. Len(u) : i + 1 \in 1 .. Len(q) /\ u[i] = q[i + 1]
      /\ \A j \in 1 .. Len(q) : j # 1 => \E i \in 1 .. Len(u) : j = i + 1
  BY TailElement
<1>2. Ordered(u)
  BY OrderedTail DEF Sound
<1> HIDE DEF u
<1>3. Issued(u, n)
  BY <1>1 DEF Sound, Issued
<1>4. Untaken(t, u, N)
  <2>1. ASSUME NEW i \in 1 .. Len(t)
        PROVE  /\ t[i] \in DOMAIN N /\ N[t[i]].status = "Sent" /\ N[t[i]].leaves_qty = N[t[i]].qty
               /\ \A j \in 1 .. Len(u) : u[j].order_id # t[i]
    <3>1. /\ t[i] \in DOMAIN M /\ M[t[i]].status = "Sent" /\ M[t[i]].leaves_qty = M[t[i]].qty
          /\ \A j \in 1 .. Len(q) : q[j].order_id # t[i]
      BY DEF Sound, Untaken
    <3>2. t[i] \in DOMAIN N /\ N[t[i]] = M[t[i]]
      BY <1>1, <3>1 DEF Processed
    <3> QED
      BY <1>1, <3>1, <3>2
  <2> QED
    BY <2>1 DEF Sound, Untaken
<1>5. ASSUME NEW i \in 1 .. Len(u), u[i].order_id \in DOMAIN N
      PROVE  /\ Fits(u[i], N[u[i].order_id])
             /\ u[i].exec_type = "CancelAck" =>
                    N[u[i].order_id].status # "Sent" \/ AckBefore(u, i)
  <2> DEFINE id == u[i].order_id
  <2>1. i + 1 \in 1 .. Len(q) /\ u[i] = q[i + 1] /\ i \in Nat /\ 1 < i + 1
    BY <1>1
  <2>2. id \in DOMAIN M
    BY <1>5 DEF Processed
  <2>3. /\ Fits(u[i], M[id])
        /\ u[i].exec_type = "CancelAck" => M[id].status # "Sent" \/ AckBefore(q, i + 1)
    BY <2>1, <2>2 DEF Sound, Expected
  <2>4. CASE id # q[1].order_id
    <3>1. N[id] = M[id]
      BY <2>2, <2>4 DEF Processed
    <3>2. ASSUME AckBefore(q, i + 1) PROVE AckBefore(u, i)
      <4>1. PICK j \in 1 .. (i + 1) - 1 : q[j].order_id = id /\ q[j].exec_type = "NewAck"
        BY <2>1, <3>2 DEF AckBefore
      <4>2. j \in 1 .. Len(q) /\ j # 1 /\ j <= i
        BY <1>1, <2>1, <2>4, <4>1
      <4>3. PICK k \in 1 .. Len(u) : j = k + 1
        BY <1>1, <4>2
      <4>4. k \in 1 .. i - 1 /\ u[k] = q[j]
        BY <1>1, <2>1, <4>2, <4>3
      <4> QED
        BY <4>1, <4>4 DEF AckBefore
    <3> QED
      BY <2>3, <3>1, <3>2
  <2>5. CASE id = q[1].order_id
    <3>1. <<q[1].exec_type, u[i].exec_type>> \in Follows
      BY <1>1, <2>1, <2>5 DEF Sound, Ordered
    <3>2. /\ N[id].status # "Sent"
          /\ \/ q[1].exec_type = "NewAck" /\ N[id].leaves_qty = M[id].leaves_qty
             \/ q[1].exec_type = "PartialFill"
      BY <1>5, <2>5 DEF Processed
    <3>3. CASE q[1].exec_type = "NewAck" /\ N[id].leaves_qty = M[id].leaves_qty
      <4>1. u[i].exec_type \in {"Fill", "CancelAck", "PartialFill"}
        BY <3>1, <3>3 DEF Follows
      <4> QED
        BY <2>3, <3>2, <3>3, <4>1 DEF Fits
    <3>4. CASE q[1].exec_type = "PartialFill"
      <4>1. u[i].exec_type = "CancelAck"
        BY <3>1, <3>4 DEF Follows
      <4> QED
        BY <3>2, <4>1 DEF Fits
    <3> QED
      BY <3>2, <3>3, <3>4
  <2> QED
    BY <2>4, <2>5
<1>6. Expected(u, N)
  BY <1>5 DEF Expected
<1> QED
  BY <1>2, <1>3, <1>4, <1>6 DEF Sound, u

\* The report that is parsed was not the end of an order that stays open.
LEMMA RememberedTail ==
    ASSUME NEW q \in Seq(Report), q # << >>, NEW t, NEW M, NEW N,
           Remembered(q, t, M), Processed(q[1], M, N)
    PROVE  Remembered(Tail(q), t, N)
<1> DEFINE u == Tail(q)
<1>1. /\ \A i \in 1 .. Len(u) : u[i] = q[i + 1]
      /\ \A j \in 1 .. Len(q) : j # 1 => \E i \in 1 .. Len(u) : j = i + 1
  BY TailElement
<1> HIDE DEF u
<1>2. ASSUME NEW id \in DOMAIN N, ~ \E i \in 1 .. Len(t) : t[i] = id
      PROVE  \E i \in 1 .. Len(u) : u[i].order_id = id /\ u[i].exec_type \in Terminal
  <2>1. id \in DOMAIN M
    BY DEF Processed
  <2>2. PICK j \in 1 .. Len(q) : q[j].order_id = id /\ q[j].exec_type \in Terminal
    BY <1>2, <2>1 DEF Remembered
  <2>3. j # 1
    <3>1. SUFFICES ASSUME j = 1 PROVE FALSE
      OBVIOUS
    <3>2. q[1].exec_type \in {"NewAck", "PartialFill"}
      BY <2>2, <3>1 DEF Processed
    <3> QED
      BY <2>2, <3>1, <3>2 DEF Terminal
  <2>4. PICK i \in 1 .. Len(u) : j = i + 1
    BY <1>1, <2>3
  <2> QED
    BY <1>1, <2>2, <2>4
<1> QED
  BY <1>2 DEF Remembered, u

\* What the exchange answers to an order that it takes: reports about that order
\* that it may expect in this sequence, the last but one or the last its end.
Answered(a, id, o) ==
    /\ a \in Seq(Report) /\ Ordered(a)
    /\ \A i \in 1 .. Len(a) :
            /\ a[i].order_id = id /\ a[i].fill_price = o.price
            /\ Fits(a[i], o)
            /\ a[i].exec_type = "CancelAck" => AckBefore(a, i)
    /\ \E i \in 1 .. Len(a) : a[i].exec_type \in Terminal

\* The exchange takes an order.
LEMMA SoundTakes ==
    ASSUME NEW q \in Seq(Report), NEW t \in Seq(OrderId), t # << >>, NEW M, NEW n \in Int,
           Sound(q, t, M, n), DOMAIN M \subseteq 1 .. n - 1,
           NEW a, Answered(a, t[1], M[t[1]])
    PROVE  Sound(q \o a, Tail(t), M, n)
<1> DEFINE c == q \o a
           u == Tail(t)
           id == t[1]
           m == Len(q)
<1>0. a \in Seq(Report)
  BY DEF Answered
<1>1. /\ u \in Seq(OrderId) /\ 1 \in 1 .. Len(t)
      /\ \A i \in 1 .. Len(u) : i + 1 \in 1 .. Len(t) /\ u[i] = t[i + 1] /\ i \in Nat /\ i + 1 # 1
  BY TailElement
<1>2. /\ c \in Seq(Report) /\ m \in Nat /\ Len(a) \in Nat
      /\ \A i \in 1 .. m : c[i] = q[i] /\ i \in 1 .. Len(c)
      /\ \A i \in 1 .. Len(a) : c[m + i] = a[i] /\ m + i \in 1 .. Len(c)
      /\ \A i \in 1 .. Len(c) : i \in 1 .. m \/ \E k \in 1 .. Len(a) : i = m + k
  BY <1>0, ConcatElement
<1>3. /\ id \in DOMAIN M /\ M[id].status = "Sent"
      /\ \A j \in 1 .. m : q[j].order_id # id
  BY <1>1 DEF Sound, Untaken
<1>4. Ordered(c)
  BY <1>0, <1>3, OrderedConcat DEF Sound, Answered
<1> HIDE DEF c, u
<1>5. Issued(c, n)
  <2>1. id < n
    BY <1>3
  <2>2. ASSUME NEW i \in 1 .. Len(c) PROVE c[i].order_id < n
    <3>1. CASE i \in 1 .. m
      BY <1>2, <3>1 DEF Sound, Issued
    <3>2. ASSUME NEW k \in 1 .. Len(a), i = m + k PROVE c[i].order_id < n
      BY <1>2, <2>1, <3>2 DEF Answered
    <3> QED
      BY <1>2, <3>1, <3>2
  <2> QED
    BY <2>2 DEF Issued
<1>6. Untaken(u, c, M)
  <2>a. /\ \A i, j \in 1 .. Len(t) : t[i] = t[j] => i = j
        /\ \A i \in 1 .. Len(t) :
                /\ t[i] \in DOMAIN M /\ M[t[i]].status = "Sent"
                /\ M[t[i]].leaves_qty = M[t[i]].qty
                /\ \A j \in 1 .. Len(q) : q[j].order_id # t[i]
    BY DEF Sound, Untaken
  <2>1. ASSUME NEW i \in 1 .. Len(u), NEW j \in 1 .. Len(u), u[i] = u[j] PROVE i = j
    <3>1. /\ i + 1 \in 1 .. Len(t) /\ j + 1 \in 1 .. Len(t) /\ i \in Nat /\ j \in Nat
          /\ t[i + 1] = t[j + 1]
      BY <1>1, <2>1
    <3>2. i + 1 = j + 1
      BY <3>1, <2>a
    <3> QED
      BY <3>1, <3>2
  <2>2. ASSUME NEW i \in 1 .. Len(u)
        PROVE  /\ u[i] \in DOMAIN M /\ M[u[i]].status = "Sent" /\ M[u[i]].leaves_qty = M[u[i]].qty
               /\ \A j \in 1 .. Len(q) : q[j].order_id # u[i]
    <3>1. i + 1 \in 1 .. Len(t) /\ u[i] = t[i + 1]
      BY <1>1
    <3> QED
      BY <3>1, <2>a
  <2>3. ASSUME NEW i \in 1 .. Len(u), NEW j \in 1 .. Len(c) PROVE c[j].order_id # u[i]
    <3>1. u[i] # id
      <4>1. i + 1 \in 1 .. Len(t) /\ u[i] = t[i + 1] /\ i + 1 # 1 /\ 1 \in 1 .. Len(t)
        BY <1>1
      <4> QED
        BY <4>1, <2>a
    <3>2. CASE j \in 1 .. m
      BY <1>2, <2>2, <3>2
    <3>3. ASSUME NEW k \in 1 .. Len(a), j = m + k PROVE c[j].order_id # u[i]
      BY <1>2, <3>1, <3>3 DEF Answered
    <3> QED
      BY <1>2, <3>2, <3>3
  <2> QED
    BY <2>1, <2>2, <2>3 DEF Untaken
<1>7. ASSUME NEW i \in 1 .. Len(c), c[i].order_id \in DOMAIN M
      PROVE  /\ Fits(c[i], M[c[i].order_id])
             /\ c[i].exec_type = "CancelAck" =>
                    M[c[i].order_id].status # "Sent" \/ AckBefore(c, i)
  <2>1. CASE i \in 1 .. m
    <3>1. c[i] = q[i]
      BY <1>2, <2>1
    <3>2. /\ Fits(c[i], M[c[i].order_id])
          /\ c[i].exec_type = "CancelAck" =>
                    M[c[i].order_id].status # "Sent" \/ AckBefore(q, i)
      BY <1>7, <2>1, <3>1 DEF Sound, Expected
    <3>3. ASSUME AckBefore(q, i) PROVE AckBefore(c, i)
      <4>1. PICK j \in 1 .. i - 1 : q[j].order_id = q[i].order_id /\ q[j].exec_type = "NewAck"
        BY <3>3 DEF AckBefore
      <4>2. c[j] = q[j]
        BY <1>2, <2>1
      <4> QED
        BY <3>1, <4>1, <4>2 DEF AckBefore
    <3> QED
      BY <3>2, <3>3
  <2>2. ASSUME NEW k \in 1 .. Len(a), i = m + k
        PROVE  /\ Fits(c[i], M[c[i].order_id])
               /\ c[i].exec_type = "CancelAck" => AckBefore(c, i)
    <3>1. c[i] = a[k] /\ a[k].order_id = id /\ Fits(a[k], M[id])
      BY <1>2, <2>2 DEF Answered
    <3>2. ASSUME a[k].exec_type = "CancelAck" PROVE AckBefore(c, i)
      <4>1. PICK j \in 1 .. k - 1 : a[j].order_id = a[k].order_id /\ a[j].exec_type = "NewAck"
        BY <3>2 DEF Answered, AckBefore
      <4>2. c[m + j] = a[j]
        BY <1>2
      <4>3. m + j \in 1 .. i - 1
        BY <1>2, <2>2
      <4> QED
        BY <3>1, <4>1, <4>2, <4>3 DEF AckBefore
    <3> QED
      BY <3>1, <3>2
  <2> QED
    BY <1>2, <2>1, <2>2
<1>8. Expected(c, M)
  BY <1>7 DEF Expected
<1> QED
  BY <1>4, <1>5, <1>6, <1>8 DEF Sound, c, u

\* The order that is taken has its end among the answers.
LEMMA RememberedTakes ==
    ASSUME NEW q \in Seq(Report), NEW t \in Seq(OrderId), t # << >>, NEW M,
           Remembered(q, t, M), NEW a, Answered(a, t[1], M[t[1]])
    PROVE  Remembered(q \o a, Tail(t), M)
<1> DEFINE c == q \o a
           u == Tail(t)
           m == Len(q)
<1>0. a \in Seq(Report)
  BY DEF Answered
<1>1. /\ \A i \in 1 .. Len(u) : u[i] = t[i + 1]
      /\ \A j \in 1 .. Len(t) : j # 1 => \E i \in 1 .. Len(u) : j = i + 1
  BY TailElement
<1>2. /\ \A i \in 1 .. m : c[i] = q[i] /\ i \in 1 .. Len(c)
      /\ \A i \in 1 .. Len(a) : c[m + i] = a[i] /\ m + i \in 1 .. Len(c)
  BY <1>0, ConcatElement
<1> HIDE DEF c, u
<1>3. ASSUME NEW id \in DOMAIN M
      PROVE  \/ \E i \in 1 .. Len(u) : u[i] = id
             \/ \E i \in 1 .. Len(c) : c[i].order_id = id /\ c[i].exec_type \in Terminal
  <2>1. ASSUME NEW i \in 1 .. Len(t), t[i] = id, i # 1 PROVE \E j \in 1 .. Len(u) : u[j] = id
    BY <1>1, <2>1
  <2>2. ASSUME t[1] = id
        PROVE  \E i \in 1 .. Len(c) : c[i].order_id = id /\ c[i].exec_type \in Terminal
    <3>1. PICK i \in 1 .. Len(a) : a[i].exec_type \in Terminal
      BY DEF Answered
    <3>2. a[i].order_id = id
      BY <2>2 DEF Answered
    <3> QED
      BY <1>2, <3>1, <3>2
  <2>3. ASSUME NEW i \in 1 .. Len(q), q[i].order_id = id, q[i].exec_type \in Terminal
        PROVE  \E j \in 1 .. Len(c) : c[j].order_id = id /\ c[j].exec_type \in Terminal
    BY <1>2, <2>3
  <2> QED
    BY <2>1, <2>2, <2>3 DEF Remembered
<1> QED
  BY <1>3 DEF Remembered, c, u

\* An order is added to the open ones.
Grown(n, o, M, N) ==
    /\ DOMAIN N = DOMAIN M \cup {n}
    /\ N[n] = o
    /\ \A id \in DOMAIN M : N[id] = M[id]

\* An order is sent while what was sent before is still under way.
LEMMA SoundSend ==
    ASSUME NEW q \in Seq(Report), NEW t \in Seq(OrderId), NEW M, NEW N, NEW n \in OrderId, NEW o,
           Sound(q, t, M, n), DOMAIN M \subseteq 1 .. n - 1, Grown(n, o, M, N),
           o.status = "Sent", o.leaves_qty = o.qty
    PROVE  /\ Sound(q, t, N, n + 1) /\ Sound(q, Append(t, n), N, n + 1)
           /\ Remembered(q, t, M) => Remembered(q, Append(t, n), N)
<1> DEFINE u == Append(t, n)
<1>0. n \in Int /\ n \notin DOMAIN M
  BY BoundsAssumption DEF OrderId, BoundsAssumption
<1>1. /\ u \in Seq(OrderId) /\ Len(t) \in Nat /\ Len(u) = Len(t) + 1
      /\ \A i \in 1 .. Len(t) : i \in 1 .. Len(u) /\ u[i] = t[i]
      /\ u[Len(t) + 1] = n /\ Len(t) + 1 \in 1 .. Len(u)
      /\ \A i \in 1 .. Len(u) : i \in 1 .. Len(t) \/ i = Len(t) + 1
  BY AppendElement
<1> HIDE DEF u
<1>2. \A i \in 1 .. Len(q) : q[i].order_id < n /\ q[i].order_id \in Int /\ q[i].order_id # n
  <2>1. \A i \in 1 .. Len(q) : q[i] \in Report
    OBVIOUS
  <2>2. \A i \in 1 .. Len(q) : q[i].order_id \in Int
    BY <2>1, BoundsAssumption DEF Report, OrderId, BoundsAssumption
  <2>3. \A i \in 1 .. Len(q) : q[i].order_id < n
    BY DEF Sound, Issued
  <2> QED
    BY <1>0, <2>2, <2>3
<1>3. Issued(q, n + 1)
  BY <1>0, <1>2 DEF Issued
<1>4. Expected(q, N)
  <2>1. ASSUME NEW i \in 1 .. Len(q), q[i].order_id \in DOMAIN N
        PROVE  q[i].order_id \in DOMAIN M /\ N[q[i].order_id] = M[q[i].order_id]
    BY <1>2, <2>1 DEF Grown
  <2> QED
    BY <2>1 DEF Sound, Expected
<1>5. ASSUME NEW i \in 1 .. Len(t)
      PROVE  /\ t[i] \in DOMAIN N /\ N[t[i]].status = "Sent" /\ N[t[i]].leaves_qty = N[t[i]].qty
             /\ t[i] # n
             /\ \A j \in 1 .. Len(q) : q[j].order_id # t[i]
  <2>1. /\ t[i] \in DOMAIN M /\ M[t[i]].status = "Sent" /\ M[t[i]].leaves_qty = M[t[i]].qty
        /\ \A j \in 1 .. Len(q) : q[j].order_id # t[i]
    BY DEF Sound, Untaken
  <2> QED
    BY <1>0, <2>1 DEF Grown
<1>6. n \in DOMAIN N /\ N[n] = o
  BY DEF Grown
<1>7. Untaken(t, q, N)
  BY <1>5 DEF Sound, Untaken
<1>8. Untaken(u, q, N)
  <2>1. ASSUME NEW i \in 1 .. Len(u), NEW j \in 1 .. Len(u), u[i] = u[j] PROVE i = j
    <3>1. CASE i \in 1 .. Len(t) /\ j \in 1 .. Len(t)
      BY <1>1, <2>1, <3>1 DEF Sound, Untaken
    <3>2. CASE i \in 1 .. Len(t) /\ j = Len(t) + 1
      BY <1>1, <1>5, <2>1, <3>2
    <3>3. CASE i = Len(t) + 1 /\ j \in 1 .. Len(t)
      BY <1>1, <1>5, <2>1, <3>3
    <3> QED
      BY <1>1, <3>1, <3>2, <3>3
  <2>2. ASSUME NEW i \in 1 .. Len(u)
        PROVE  /\ u[i] \in DOMAIN N /\ N[u[i]].status = "Sent" /\ N[u[i]].leaves_qty = N[u[i]].qty
               /\ \A j \in 1 .. Len(q) : q[j].order_id # u[i]
    <3>1. CASE i \in 1 .. Len(t)
      BY <1>1, <1>5, <3>1
    <3>2. CASE i = Len(t) + 1
      BY <1>1, <1>2, <1>6, <3>2
    <3> QED
      BY <1>1, <3>1, <3>2
  <2> QED
    BY <2>1, <2>2 DEF Untaken
<1>9. ASSUME Remembered(q, t, M) PROVE Remembered(q, u, N)
  <2>1. ASSUME NEW id \in DOMAIN N
        PROVE  \/ \E i \in 1 .. Len(u) : u[i] = id
               \/ \E i \in 1 .. Len(q) : q[i].order_id = id /\ q[i].exec_type \in Terminal
    <3>1. CASE id = n
      BY <1>1, <3>1
    <3>2. CASE id \in DOMAIN M
      <4>1. ASSUME NEW i \in 1 .. Len(t), t[i] = id PROVE \E j \in 1 .. Len(u) : u[j] = id
        BY <1>1, <4>1
      <4> QED
        BY <1>9, <3>2, <4>1 DEF Remembered
    <3> QED
      BY <3>1, <3>2 DEF Grown
  <2> QED
    BY <2>1 DEF Remembered
<1>10. Ordered(q)
  BY DEF Sound
<1> QED
  BY <1>3, <1>4, <1>7, <1>8, <1>9, <1>10 DEF Sound, u

-----------------------------------------------------------------------------
(* The steps of the OMS and of the exchange, seen from the queues *)

\* An answer of one report.
LEMMA AnswersOne ==
    ASSUME NEW id, NEW o, NEW r \in Report, r.order_id = id, r.fill_price = o.price, Fits(r, o),
           r.exec_type \in Terminal \ {"CancelAck"}
    PROVE  Answered(<<r>>, id, o)
<1> DEFINE a == <<r>>
<1>1. a \in Seq(Report) /\ Len(a) = 1 /\ a[1] = r
  OBVIOUS
<1> HIDE DEF a
<1>2. \A i \in 1 .. Len(a) : i = 1
  BY <1>1
<1>3. Ordered(a)
  BY <1>2 DEF Ordered
<1>4. 1 \in 1 .. Len(a)
  BY <1>1
<1>5. Answered(a, id, o)
  BY <1>1, <1>2, <1>3, <1>4 DEF Answered
<1> QED
  BY <1>5 DEF a

\* An answer of two reports.
LEMMA AnswersTwo ==
    ASSUME NEW id, NEW o, NEW r \in Report, NEW s \in Report,
           r.order_id = id, r.fill_price = o.price, Fits(r, o),
           s.order_id = id, s.fill_price = o.price, Fits(s, o),
           <<r.exec_type, s.exec_type>> \in Follows,
           r.exec_type \in Terminal \/ s.exec_type \in Terminal,
           r.exec_type # "CancelAck", s.exec_type = "CancelAck" => r.exec_type = "NewAck"
    PROVE  Answered(<<r, s>>, id, o)
<1> DEFINE a == <<r, s>>
<1>1. a \in Seq(Report) /\ Len(a) = 2 /\ a[1] = r /\ a[2] = s
  OBVIOUS
<1> HIDE DEF a
<1>2. (\A i \in 1 .. Len(a) : i = 1 \/ i = 2) /\ 1 \in 1 .. Len(a) /\ 2 \in 1 .. Len(a)
  BY <1>1
<1>3. Ordered(a)
  <2>1. ASSUME NEW i \in 1 .. Len(a), NEW j \in 1 .. Len(a), i < j PROVE i = 1 /\ j = 2
    BY <1>2, <2>1
  <2> QED
    BY <1>1, <2>1 DEF Ordered
<1>4. a[2].exec_type = "CancelAck" => AckBefore(a, 2)
  <2>1. 1 \in 1 .. 2 - 1
    OBVIOUS
  <2> QED
    BY <1>1, <2>1 DEF AckBefore
<1>5. ASSUME NEW i \in 1 .. Len(a)
      PROVE  /\ a[i].order_id = id /\ a[i].fill_price = o.price /\ Fits(a[i], o)
             /\ a[i].exec_type = "CancelAck" => AckBefore(a, i)
  BY <1>1, <1>2, <1>4
<1>6. \E i \in 1 .. Len(a) : a[i].exec_type \in Terminal
  BY <1>1, <1>2
<1>7. Answered(a, id, o)
  BY <1>1, <1>3, <1>5, <1>6 DEF Answered
<1> QED
  BY <1>7 DEF a

\* An answer of three reports: accepted, filled in part, the rest cancelled.
LEMMA AnswersThree ==
    ASSUME NEW id, NEW o, NEW r \in Report, NEW s \in Report, NEW c \in Report,
           r.order_id = id, r.fill_price = o.price, Fits(r, o), r.exec_type = "NewAck",
           s.order_id = id, s.fill_price = o.price, Fits(s, o), s.exec_type = "PartialFill",
           c.order_id = id, c.fill_price = o.price, Fits(c, o), c.exec_type = "CancelAck"
    PROVE  Answered(<<r, s, c>>, id, o)
<1> DEFINE a == <<r, s, c>>
<1>1. a \in Seq(Report) /\ Len(a) = 3 /\ a[1] = r /\ a[2] = s /\ a[3] = c
  OBVIOUS
<1> HIDE DEF a
<1>2. /\ \A i \in 1 .. Len(a) : i = 1 \/ i = 2 \/ i = 3
      /\ 1 \in 1 .. Len(a) /\ 2 \in 1 .. Len(a) /\ 3 \in 1 .. Len(a)
  BY <1>1
<1>3. Ordered(a)
  <2>1. ASSUME NEW i \in 1 .. Len(a), NEW j \in 1 .. Len(a), i < j
        PROVE  (i = 1 /\ j = 2) \/ (i = 1 /\ j = 3) \/ (i = 2 /\ j = 3)
    BY <1>2, <2>1
  <2>2. /\ <<a[1].exec_type, a[2].exec_type>> \in Follows
        /\ <<a[1].exec_type, a[3].exec_type>> \in Follows
        /\ <<a[2].exec_type, a[3].exec_type>> \in Follows
    BY <1>1 DEF Follows
  <2> QED
    BY <2>1, <2>2 DEF Ordered
<1>4. AckBefore(a, 3)
  <2>1. 1 \in 1 .. 3 - 1
    OBVIOUS
  <2> QED
    BY <1>1, <2>1 DEF AckBefore
<1>5. ASSUME NEW i \in 1 .. Len(a)
      PROVE  /\ a[i].order_id = id /\ a[i].fill_price = o.price /\ Fits(a[i], o)
             /\ a[i].exec_type = "CancelAck" => AckBefore(a, i)
  <2>1. a[1].exec_type # "CancelAck" /\ a[2].exec_type # "CancelAck"
    BY <1>1
  <2> QED
    BY <1>1, <1>2, <1>4, <2>1
<1>6. \E i \in 1 .. Len(a) : a[i].exec_type \in Terminal
  BY <1>1, <1>2 DEF Terminal
<1>7. Answered(a, id, o)
  BY <1>1, <1>3, <1>5, <1>6 DEF Answered
<1> QED
  BY <1>7 DEF a

\* Whatever the exchange decides about an order that it takes, the answers are such.
LEMMA AnswersAre ==
    ASSUME NEW id \in OrderId, OrderOf(id).price \in Price, OrderOf(id).qty \in 0 .. max_order_qty,
           OrderOf(id).status = "Sent", OrderOf(id).leaves_qty = OrderOf(id).qty,
           NEW a \in Answers(id, OrderOf(id).qty)
    PROVE  Answered(a, id, OrderOf(id))
<1> DEFINE o == OrderOf(id)
           q == o.qty
<1>0. q \in Nat /\ 0 \in Qty /\ q \in Qty /\ \A k \in 1 .. q - 1 : k \in Qty
  <2>1. 0 .. max_order_qty \subseteq Qty
    BY PipelineAssumption DEF PipelineAssumption
  <2>2. max_order_qty \in Nat
    BY LimitsAssumption DEF LimitsAssumption
  <2> HIDE DEF q
  <2>3. q \in 0 .. max_order_qty
    BY DEF q
  <2>4. q \in Nat /\ 0 \in 0 .. max_order_qty /\ \A k \in 1 .. q - 1 : k \in 0 .. max_order_qty
    BY <2>2, <2>3
  <2> QED
    BY <2>1, <2>3, <2>4
<1>1. ASSUME NEW type \in ExecType, NEW k \in Qty
      PROVE  /\ Rpt(id, type, k) \in Report
             /\ Rpt(id, type, k).order_id = id /\ Rpt(id, type, k).fill_price = o.price
             /\ Rpt(id, type, k).exec_type = type /\ Rpt(id, type, k).fill_qty = k
  BY DEF Rpt, Report
<1>2. "NewAck" \in ExecType /\ "Fill" \in ExecType /\ "PartialFill" \in ExecType
      /\ "CancelAck" \in ExecType /\ "Reject" \in ExecType
  BY DEF ExecType
<1> DEFINE ack == Rpt(id, "NewAck", 0)
           cancel == Rpt(id, "CancelAck", 0)
           reject == Rpt(id, "Reject", 0)
           fill == Rpt(id, "Fill", q)
           part(k) == Rpt(id, "PartialFill", k)
<1>3. \/ a = <<reject>> \/ a = <<ack, fill>> \/ a = <<ack, cancel>> \/ a = <<fill, ack>>
      \/ \E k \in 1 .. q - 1 : a = <<ack, part(k), cancel>>
  BY DEF Answers
<1>4. o.status = "Sent" /\ o.leaves_qty = q
  OBVIOUS
<1>a. /\ ack \in Report /\ ack.order_id = id /\ ack.fill_price = o.price /\ ack.exec_type = "NewAck"
      /\ cancel \in Report /\ cancel.order_id = id /\ cancel.fill_price = o.price
      /\ cancel.exec_type = "CancelAck"
      /\ reject \in Report /\ reject.order_id = id /\ reject.fill_price = o.price
      /\ reject.exec_type = "Reject"
      /\ fill \in Report /\ fill.order_id = id /\ fill.fill_price = o.price
      /\ fill.exec_type = "Fill" /\ fill.fill_qty = q
  BY <1>0, <1>1, <1>2
<1>b. ASSUME NEW k \in 1 .. q - 1
      PROVE  /\ part(k) \in Report /\ part(k).order_id = id /\ part(k).fill_price = o.price
             /\ part(k).exec_type = "PartialFill" /\ part(k).fill_qty = k
  BY <1>0, <1>1, <1>2
<1> HIDE DEF o, q, ack, cancel, reject, fill, part
<1>c. Fits(ack, o) /\ Fits(cancel, o) /\ Fits(reject, o) /\ Fits(fill, o)
  BY <1>4, <1>a DEF Fits
<1>5. CASE a = <<reject>>
  <2>1. reject.exec_type \in Terminal \ {"CancelAck"}
    BY <1>a DEF Terminal
  <2> QED
    BY <1>5, <1>a, <1>c, <2>1, AnswersOne DEF o
<1>6. CASE a = <<ack, fill>>
  <2>1. <<ack.exec_type, fill.exec_type>> \in Follows /\ fill.exec_type \in Terminal
        /\ ack.exec_type # "CancelAck" /\ fill.exec_type # "CancelAck"
    BY <1>a DEF Terminal, Follows
  <2> QED
    BY <1>6, <1>a, <1>c, <2>1, AnswersTwo DEF o
<1>7. CASE a = <<ack, cancel>>
  <2>1. <<ack.exec_type, cancel.exec_type>> \in Follows /\ cancel.exec_type \in Terminal
        /\ ack.exec_type # "CancelAck" /\ ack.exec_type = "NewAck"
    BY <1>a DEF Terminal, Follows
  <2> QED
    BY <1>7, <1>a, <1>c, <2>1, AnswersTwo DEF o
<1>8. CASE a = <<fill, ack>>
  <2>1. <<fill.exec_type, ack.exec_type>> \in Follows /\ fill.exec_type \in Terminal
        /\ fill.exec_type # "CancelAck" /\ ack.exec_type # "CancelAck"
    BY <1>a DEF Terminal, Follows
  <2> QED
    BY <1>8, <1>a, <1>c, <2>1, AnswersTwo DEF o
<1>9. ASSUME NEW k \in 1 .. q - 1, a = <<ack, part(k), cancel>> PROVE Answered(a, id, o)
  <2>1. Fits(part(k), o)
    BY <1>4, <1>b DEF Fits
  <2> QED
    BY <1>9, <1>a, <1>b, <1>c, <2>1, AnswersThree
<1> QED
  BY <1>3, <1>5, <1>6, <1>7, <1>8, <1>9 DEF o

\* The open orders by id.
OpenedNamed == DOMAIN Opened = OpenIds /\ \A id \in OpenIds : Opened[id] = OrderOf(id)

\* The map of the open orders has the orders of the slots.
LEMMA OpenedAre == OpenedNamed
BY DEF OpenedNamed, Opened

\* The same after a step.
LEMMA OpenedArePrimed == OpenedNamed'
BY OpenedAre, PTL

\* An order that stays open after a report about it.
LEMMA ProcessedUpdated ==
    ASSUME NEW r, NEW o, Updated(r.order_id, o), o.status # "Sent",
           o.price = OrderOf(r.order_id).price,
           \/ r.exec_type = "NewAck" /\ o.leaves_qty = OrderOf(r.order_id).leaves_qty
           \/ r.exec_type = "PartialFill"
    PROVE  Processed(r, Opened, Opened')
<1> DEFINE id == r.order_id
<1>1. /\ id \in OpenIds /\ OpenIds' = OpenIds /\ OrderOf(id)' = o
      /\ \A i \in OpenIds \ {id} : OrderOf(i)' = OrderOf(i)
  BY DEF Updated, OthersKept
<1>2. DOMAIN Opened = OpenIds /\ \A i \in OpenIds : Opened[i] = OrderOf(i)
  BY OpenedAre DEF OpenedNamed
<1>3. DOMAIN Opened' = OpenIds' /\ \A i \in OpenIds' : Opened'[i] = OrderOf(i)'
  BY OpenedArePrimed DEF OpenedNamed
<1>4. Opened'[id] = o /\ Opened[id] = OrderOf(id)
  BY <1>1, <1>2, <1>3
<1>5. \A i \in OpenIds \ {id} : Opened'[i] = Opened[i]
  BY <1>1, <1>2, <1>3
<1> QED
  BY <1>1, <1>2, <1>3, <1>4, <1>5 DEF Processed

\* An order that a report ended.
LEMMA ProcessedEnded ==
    ASSUME NEW r, Ended(r.order_id)
    PROVE  Processed(r, Opened, Opened')
<1> DEFINE id == r.order_id
<1>1. /\ OpenIds' = OpenIds \ {id}
      /\ \A i \in OpenIds \ {id} : OrderOf(i)' = OrderOf(i)
  BY DEF Ended, OthersKept
<1>2. DOMAIN Opened = OpenIds /\ \A i \in OpenIds : Opened[i] = OrderOf(i)
  BY OpenedAre DEF OpenedNamed
<1>3. DOMAIN Opened' = OpenIds' /\ \A i \in OpenIds' : Opened'[i] = OrderOf(i)'
  BY OpenedArePrimed DEF OpenedNamed
<1>5. \A i \in OpenIds \ {id} : Opened'[i] = Opened[i]
  BY <1>1, <1>2, <1>3
<1> QED
  BY <1>1, <1>2, <1>3, <1>5 DEF Processed

\* What on_execution makes of the open orders.
LEMMA ProcessedBy ==
    ASSUME IInv, NEW r \in Report, r.order_id \in OpenIds => r.exec_type # "CancelReject",
           OnExecution(r)
    PROVE  Processed(r, Opened, Opened') /\ next_id' = next_id
<1> DEFINE id == r.order_id
           o == OrderOf(id)
<1>1. CASE OnIgnored(r)
  <2>1. UNCHANGED <<orders, order_map, next_id>>
    BY <1>1 DEF OnIgnored, vars, bookkeeping
  <2>2. Opened' = Opened
    BY <2>1 DEF Opened, OpenIds, OrderOf
  <2>3. id \in OpenIds => r.exec_type = "NewAck" /\ o.status # "Sent"
    BY <1>1 DEF OnIgnored, Ignored
  <2>4. DOMAIN Opened = OpenIds /\ \A i \in OpenIds : Opened[i] = OrderOf(i)
    BY OpenedAre DEF OpenedNamed
  <2> QED
    BY <2>1, <2>2, <2>3, <2>4 DEF Processed
<1>2. CASE OnNewAck(r)
  <2> DEFINE no == [o EXCEPT !.status = "Live"]
  <2>1. Updated(id, no) /\ o.status = "Sent"
    BY <1>2, ShapeNewAck
  <2>2. o \in Order /\ r.exec_type = "NewAck" /\ next_id' = next_id
    BY <1>2, ReportType DEF OnNewAck, IInv
  <2>3. no.status = "Live" /\ no.price = o.price /\ no.leaves_qty = o.leaves_qty
    BY <2>2 DEF Order
  <2> HIDE DEF no
  <2> QED
    BY <2>1, <2>2, <2>3, ProcessedUpdated
<1>3. CASE OnFill(r)
  <2>1. /\ o \in Order
        /\ FullyFilled(o, r) => Ended(id)
        /\ ~ FullyFilled(o, r) => Updated(id, PartlyFilled(o, r.fill_qty))
    BY <1>3, ShapeFill
  <2>2. next_id' = next_id /\ r.exec_type \in {"Fill", "PartialFill"}
    BY <1>3 DEF OnFill
  <2>3. CASE FullyFilled(o, r)
    BY <2>1, <2>2, <2>3, ProcessedEnded
  <2>4. CASE ~ FullyFilled(o, r)
    <3>1. r.exec_type = "PartialFill"
      BY <2>2, <2>4 DEF FullyFilled
    <3> DEFINE no == PartlyFilled(o, r.fill_qty)
    <3>2. no.status = "PartiallyFilled" /\ no.price = o.price
      BY <2>1 DEF PartlyFilled, Order
    <3>3. Updated(id, no)
      BY <2>1, <2>4
    <3> HIDE DEF no
    <3> QED
      BY <2>2, <3>1, <3>2, <3>3, ProcessedUpdated
  <2> QED
    BY <2>3, <2>4
<1>4. CASE OnCancelAck(r)
  <2>1. Ended(id) /\ next_id' = next_id
    BY <1>4, ShapeCancelAck DEF OnCancelAck
  <2> QED
    BY <2>1, ProcessedEnded
<1>5. CASE OnReject(r)
  <2>1. Ended(id) /\ next_id' = next_id
    BY <1>5, ShapeReject DEF OnReject
  <2> QED
    BY <2>1, ProcessedEnded
<1> QED
  BY <1>1, <1>2, <1>3, <1>4, <1>5 DEF OnExecution

\* What send_new makes of the open orders.
LEMMA GrownBy ==
    ASSUME IInv, NEW side \in Side, NEW price \in Price, NEW qty \in Qty, NEW type \in Types,
           SendNew(side, price, qty, type)
    PROVE  Grown(next_id, NewOrder(side, price, qty, type), Opened, Opened')
<1> DEFINE n == next_id
           o == NewOrder(side, price, qty, type)
<1>0. Added(n, o)
  BY ShapeSendNew
<1>1. /\ OpenIds' = OpenIds \cup {n}
      /\ orders'[order_map'[n]] = o
      /\ \A i \in OpenIds : OrderOf(i)' = OrderOf(i)
  BY <1>0 DEF Added
<1>2. DOMAIN Opened = OpenIds /\ \A i \in OpenIds : Opened[i] = OrderOf(i)
  BY OpenedAre DEF OpenedNamed
<1>3. DOMAIN Opened' = OpenIds' /\ \A i \in OpenIds' : Opened'[i] = OrderOf(i)'
  BY OpenedArePrimed DEF OpenedNamed
<1>4. \A i \in OpenIds' : OrderOf(i)' = orders'[order_map'[i]]
  BY DEF OrderOf
<1>5. Opened'[n] = o
  BY <1>1, <1>3, <1>4
<1>6. \A i \in OpenIds : Opened'[i] = Opened[i]
  BY <1>1, <1>2, <1>3
<1> QED
  BY <1>1, <1>2, <1>3, <1>5, <1>6 DEF Grown

-----------------------------------------------------------------------------
(* The invariant of the pipeline *)

\* The book holds a quote and a reference of the feeds, or nothing yet.
BookTypes ==
    /\ <<bid, ask>> \in Quotes \cup {<<0, 0>>}
    /\ reference \in References \cup {0}
    /\ coalesced \in BOOLEAN

PricesRight == \A id \in DOMAIN Opened : Opened[id].price \in Price

QueueTypes ==
    /\ from_exchange \in Seq(Report) /\ answers \in Seq(Report) /\ to_exchange \in Seq(OrderId)
    /\ coalesced => answers = << >>

\* While the gateway is connected, the queues are sound; while the exchange is up
\* too, they hold what ends every open order.
QueuesRight ==
    connected =>
        /\ QueueTypes
        /\ Sound(InFlight, to_exchange, Opened, next_id)
        /\ peer_up => Remembered(InFlight, to_exchange, Opened)

PInv == ExposureInv /\ BookTypes /\ PricesRight /\ QueuesRight

\* What the invariant says of the OMS and of the prices.
LEMMA PInvTypes ==
    ASSUME PInv
    PROVE  /\ IInv /\ next_id \in Int /\ OpenIds \subseteq 1 .. next_id - 1 /\ DOMAIN Opened = OpenIds
           /\ position \in Int
           /\ bid \in Price /\ ask \in Price /\ mid_price(<<bid, ask>>) \in Price
<1>1. IInv
  BY DEF PInv, ExposureInv
<1>2. next_id \in 1 .. MaxId + 1 /\ OpenIds \subseteq 1 .. next_id - 1 /\ position \in Int
  BY <1>1 DEF IInv, TypeOK
<1>3. next_id \in Int
  BY <1>2, BoundsAssumption DEF BoundsAssumption
<1>4. DOMAIN Opened = OpenIds
  BY OpenedAre DEF OpenedNamed
<1>5. CASE <<bid, ask>> \in Quotes
  <2>1. /\ Quotes \subseteq Price \X Price
        /\ \A q \in Quotes : (q[1] + q[2]) \div 2 \in Price
    BY PipelineAssumption DEF PipelineAssumption
  <2>2. bid \in Price /\ ask \in Price
    BY <1>5, <2>1
  <2>3. mid_price(<<bid, ask>>) \in Price
    BY <1>5, <2>1 DEF mid_price
  <2> QED
    BY <1>1, <1>2, <1>3, <1>4, <2>2, <2>3
<1>6. CASE <<bid, ask>> = <<0, 0>>
  <2>1. 0 \in Price
    BY PipelineAssumption DEF PipelineAssumption
  <2>2. bid = 0 /\ ask = 0
    BY <1>6
  <2>3. (0 + 0) \div 2 = 0
    OBVIOUS
  <2>4. mid_price(<<bid, ask>>) = 0
    BY <2>2, <2>3 DEF mid_price
  <2> QED
    BY <1>1, <1>2, <1>3, <1>4, <2>1, <2>2, <2>4
<1> QED
  BY <1>5, <1>6 DEF PInv, BookTypes

\* The orders and the queues keep what they have.
LEMMA QueuesFrame ==
    ASSUME QueuesRight, UNCHANGED <<orders, order_map, next_id>>, UNCHANGED net
    PROVE  QueuesRight'
<1>1. Opened' = Opened
  BY DEF Opened, OpenIds, OrderOf
<1>2. UNCHANGED <<connected, peer_up, to_exchange, answers, from_exchange, coalesced>>
  BY DEF net
<1>3. InFlight' = InFlight
  BY <1>2 DEF InFlight
<1>4. QueueTypes' <=> QueueTypes
  BY <1>2 DEF QueueTypes
<1> QED
  BY <1>1, <1>2, <1>3, <1>4 DEF QueuesRight

\* Every report in q is one of p, or carries the price of an open order of M.
PricedBy(q, p, M) ==
    \A i \in 1 .. Len(q) :
        \/ \E j \in 1 .. Len(p) : q[i] = p[j]
        \/ \E id \in DOMAIN M : q[i].fill_price = M[id].price

\* The exchange answers an order, at the price of the order.
LEMMA QueuesTakes ==
    ASSUME PInv, ExchangeTakes
    PROVE  QueuesRight' /\ (connected' => PricedBy(InFlight', InFlight, Opened))
<1>0. SUFFICES ASSUME connected' PROVE QueuesRight' /\ PricedBy(InFlight', InFlight, Opened)
  BY DEF QueuesRight
<1>1. /\ connected /\ peer_up /\ to_exchange # << >> /\ to_exchange' = Tail(to_exchange)
      /\ UNCHANGED <<orders, order_map, next_id, coalesced, peer_up, connected>>
  BY <1>0 DEF ExchangeTakes, vars, bookkeeping
<1>2. /\ QueueTypes
      /\ Sound(InFlight, to_exchange, Opened, next_id)
      /\ Remembered(InFlight, to_exchange, Opened)
  BY <1>1 DEF PInv, QueuesRight
<1>3. Opened' = Opened
  BY <1>1 DEF Opened, OpenIds, OrderOf
<1> DEFINE id == Head(to_exchange)
           o == OrderOf(id)
<1>4. PICK a \in Answers(id, o.qty) :
        IF coalesced
        THEN from_exchange' = from_exchange \o a /\ UNCHANGED answers
        ELSE answers' = answers \o a /\ UNCHANGED from_exchange
  BY DEF ExchangeTakes
<1>5. /\ id = to_exchange[1] /\ id \in OrderId /\ 1 \in 1 .. Len(to_exchange)
      /\ Tail(to_exchange) \in Seq(OrderId)
  BY <1>1, <1>2, TailElement DEF QueueTypes
<1>6. id \in DOMAIN Opened /\ Opened[id].status = "Sent" /\ Opened[id].leaves_qty = Opened[id].qty
  BY <1>2, <1>5 DEF Sound, Untaken
<1>7. id \in OpenIds /\ Opened[id] = o
  BY <1>6, OpenedAre DEF OpenedNamed
<1>8. o.price \in Price /\ o.qty \in 0 .. max_order_qty
  <2>1. o.qty <= max_order_qty
    BY <1>7 DEF PInv, ExposureInv, LeavesRight
  <2>2. o \in Order
    BY <1>7, LeavesInt DEF PInv, ExposureInv, Kinds
  <2>3. o.qty \in Nat
    BY <2>2 DEF Order
  <2>4. o.qty \in 0 .. max_order_qty
    BY <2>1, <2>3, LimitsAssumption DEF LimitsAssumption
  <2> QED
    BY <1>6, <1>7, <2>4 DEF PInv, PricesRight
<1> HIDE DEF id
<1>9. Answered(a, id, o)
  BY <1>4, <1>5, <1>6, <1>7, <1>8, AnswersAre
<1>10. a \in Seq(Report)
  BY <1>9 DEF Answered
<1>11. QueueTypes' /\ InFlight' = InFlight \o a /\ InFlight \in Seq(Report)
  <2>1. from_exchange \in Seq(Report) /\ answers \in Seq(Report) /\ InFlight \in Seq(Report)
    <3>1. from_exchange \in Seq(Report) /\ answers \in Seq(Report)
      BY <1>2 DEF QueueTypes
    <3> QED
      BY <3>1, ConcatProperties DEF InFlight
  <2>2. CASE coalesced
    <3>1. answers = << >> /\ answers' = << >> /\ from_exchange' = from_exchange \o a
      BY <1>2, <1>4, <2>2 DEF QueueTypes
    <3>2. from_exchange \o a \in Seq(Report)
      BY <1>10, <2>1, ConcatProperties
    <3>3. from_exchange \o << >> = from_exchange /\ (from_exchange \o a) \o << >> = from_exchange \o a
      BY <2>1, <3>2, ConcatEmptySeq
    <3> QED
      BY <1>1, <1>5, <2>1, <3>1, <3>2, <3>3 DEF QueueTypes, InFlight
  <2>3. CASE ~ coalesced
    <3>1. answers' = answers \o a /\ from_exchange' = from_exchange
      BY <1>4, <2>3
    <3>2. answers \o a \in Seq(Report)
      BY <1>10, <2>1, ConcatProperties
    <3>3. from_exchange \o (answers \o a) = (from_exchange \o answers) \o a
      <4>1. from_exchange \in Seq(Report) /\ answers \in Seq(Report) /\ a \in Seq(Report)
        BY <1>10, <2>1
      <4> HIDE DEF o
      <4> QED
        BY <4>1, ConcatAssociative
    <3> QED
      BY <1>1, <1>5, <2>1, <2>3, <3>1, <3>2, <3>3 DEF QueueTypes, InFlight
  <2> QED
    BY <2>2, <2>3
<1>12. Answered(a, to_exchange[1], Opened[to_exchange[1]]) /\ to_exchange \in Seq(OrderId)
  BY <1>2, <1>5, <1>7, <1>9 DEF QueueTypes
<1>13. next_id \in Int /\ DOMAIN Opened \subseteq 1 .. next_id - 1
  BY PInvTypes
<1>14. Sound(InFlight \o a, Tail(to_exchange), Opened, next_id)
  BY <1>1, <1>2, <1>11, <1>12, <1>13, SoundTakes
<1>15. Remembered(InFlight \o a, Tail(to_exchange), Opened)
  BY <1>1, <1>2, <1>11, <1>12, RememberedTakes
<1>16. PricedBy(InFlight \o a, InFlight, Opened)
  <2> DEFINE c == InFlight \o a
  <2>1. /\ \A i \in 1 .. Len(InFlight) : c[i] = InFlight[i]
        /\ \A i \in 1 .. Len(a) : c[Len(InFlight) + i] = a[i]
        /\ \A i \in 1 .. Len(c) :
                i \in 1 .. Len(InFlight) \/ \E k \in 1 .. Len(a) : i = Len(InFlight) + k
    BY <1>10, <1>11, ConcatElement
  <2> HIDE DEF c
  <2>2. \A i \in 1 .. Len(a) : a[i].fill_price = Opened[id].price
    BY <1>7, <1>9 DEF Answered
  <2>3. ASSUME NEW i \in 1 .. Len(c)
        PROVE  \/ \E j \in 1 .. Len(InFlight) : c[i] = InFlight[j]
               \/ \E n \in DOMAIN Opened : c[i].fill_price = Opened[n].price
    <3>1. CASE i \in 1 .. Len(InFlight)
      BY <3>1, <2>1
    <3>2. CASE \E k \in 1 .. Len(a) : i = Len(InFlight) + k
      <4>1. PICK k \in 1 .. Len(a) : i = Len(InFlight) + k
        BY <3>2
      <4>2. c[i] = a[k] /\ a[k].fill_price = Opened[id].price
        BY <4>1, <2>1, <2>2
      <4> QED
        BY <4>2, <1>6
    <3> QED
      BY <2>1, <3>1, <3>2
  <2> QED
    BY <2>3 DEF c, PricedBy
<1> QED
  BY <1>1, <1>3, <1>11, <1>14, <1>15, <1>16 DEF QueuesRight

\* The exchange writes a report that it owed.
LEMMA QueuesWrites ==
    ASSUME QueuesRight, ExchangeWrites
    PROVE  QueuesRight'
<1>0. SUFFICES ASSUME connected' PROVE QueuesRight'
  BY DEF QueuesRight
<1>1. /\ connected /\ answers # << >>
      /\ answers' = Tail(answers) /\ from_exchange' = Append(from_exchange, Head(answers))
      /\ UNCHANGED <<orders, order_map, next_id, coalesced, peer_up, to_exchange>>
  BY <1>0 DEF ExchangeWrites, vars, bookkeeping
<1>2. QueueTypes
  BY <1>1 DEF QueuesRight
<1>3. Opened' = Opened
  BY <1>1 DEF Opened, OpenIds, OrderOf
<1>4. from_exchange \in Seq(Report) /\ answers \in Seq(Report)
  BY <1>2 DEF QueueTypes
<1>5. /\ from_exchange' \in Seq(Report) /\ answers' \in Seq(Report)
      /\ from_exchange' \o answers' = from_exchange \o answers
  BY <1>1, <1>4, ShiftConcat
<1>6. ~ coalesced
  BY <1>1, <1>2 DEF QueueTypes
<1>7. QueueTypes'
  BY <1>1, <1>2, <1>5, <1>6 DEF QueueTypes
<1>8. InFlight' = InFlight
  BY <1>5 DEF InFlight
<1> QED
  BY <1>1, <1>3, <1>7, <1>8 DEF QueuesRight

\* The gateway parses a report, which is then one that the protocol allows.
LEMMA QueuesDrain ==
    ASSUME PInv, DrainOne
    PROVE  /\ Head(from_exchange) \in Report /\ Conforms(Head(from_exchange))
           /\ InFlight # << >> /\ InFlight[1] = Head(from_exchange)
           /\ Processed(Head(from_exchange), Opened, Opened')
           /\ QueuesRight' /\ PricesRight'
<1> DEFINE r == Head(from_exchange)
<1>1. /\ connected /\ peer_up /\ from_exchange # << >> /\ OnExecution(r)
      /\ from_exchange' = Tail(from_exchange)
      /\ UNCHANGED <<connected, peer_up, to_exchange, answers, coalesced>>
  BY DEF DrainOne
<1>2. /\ QueueTypes
      /\ Sound(InFlight, to_exchange, Opened, next_id)
      /\ Remembered(InFlight, to_exchange, Opened)
  BY <1>1 DEF PInv, QueuesRight
<1>3. from_exchange \in Seq(Report) /\ answers \in Seq(Report) /\ to_exchange \in Seq(OrderId)
  BY <1>2 DEF QueueTypes
<1>4. /\ Tail(from_exchange) \o answers = Tail(InFlight)
      /\ InFlight \in Seq(Report) /\ InFlight # << >> /\ InFlight[1] = r /\ r \in Report
  BY <1>1, <1>3, TailConcat DEF InFlight
<1>5. InFlight' = Tail(InFlight)
  BY <1>1, <1>4 DEF InFlight
<1>6. 1 \in 1 .. Len(InFlight)
  BY <1>4, TailElement
<1>7. ASSUME r.order_id \in OpenIds
      PROVE  /\ Fits(r, OrderOf(r.order_id))
             /\ r.exec_type = "CancelAck" => OrderOf(r.order_id).status # "Sent"
  <2>1. r.order_id \in DOMAIN Opened /\ Opened[r.order_id] = OrderOf(r.order_id)
    BY <1>7, OpenedAre DEF OpenedNamed
  <2>2. /\ Fits(r, OrderOf(r.order_id))
        /\ r.exec_type = "CancelAck" =>
                OrderOf(r.order_id).status # "Sent" \/ AckBefore(InFlight, 1)
    BY <1>2, <1>4, <1>6, <2>1 DEF Sound, Expected
  <2>3. ~ AckBefore(InFlight, 1)
    <3>1. 1 .. 1 - 1 = {}
      OBVIOUS
    <3> QED
      BY <3>1 DEF AckBefore
  <2> QED
    BY <2>2, <2>3
<1> HIDE DEF r
<1>8. Conforms(r)
  BY <1>7 DEF Conforms, Fits
<1>9. r.order_id \in OpenIds => r.exec_type # "CancelReject"
  BY <1>7 DEF Fits
<1>10. IInv
  BY DEF PInv, ExposureInv
<1>11. Processed(r, Opened, Opened') /\ next_id' = next_id
  BY <1>1, <1>4, <1>9, <1>10, ProcessedBy
<1>12. Processed(InFlight[1], Opened, Opened')
  BY <1>4, <1>11
<1>13. Sound(Tail(InFlight), to_exchange, Opened', next_id)
  BY <1>2, <1>3, <1>4, <1>12, SoundTail
<1>14. Remembered(Tail(InFlight), to_exchange, Opened')
  BY <1>2, <1>4, <1>12, RememberedTail
<1>15. QueueTypes'
  <2>1. Tail(from_exchange) \in Seq(Report)
    BY <1>1, <1>3, HeadTailProperties
  <2> QED
    BY <1>1, <1>2, <2>1 DEF QueueTypes
<1>16. QueuesRight'
  BY <1>1, <1>5, <1>11, <1>13, <1>14, <1>15 DEF QueuesRight
<1>17. PricesRight'
  <2>1. ASSUME NEW id \in DOMAIN Opened' PROVE Opened'[id].price \in Price
    <3>1. id \in DOMAIN Opened /\ Opened'[id].price = Opened[id].price
      BY <1>11 DEF Processed
    <3> QED
      BY <3>1 DEF PInv, PricesRight
  <2> QED
    BY <2>1 DEF PricesRight
<1> QED
  BY <1>4, <1>8, <1>11, <1>16, <1>17 DEF r

\* An order is sent: it is one that module OMS allows, and the queues stay sound.
LEMMA QueuesSend ==
    ASSUME PInv, NEW side \in Side, NEW price \in Price, NEW qty \in Nat,
           SendNew(side, price, qty, "IOC"), SubmitOrder(next_id)
    PROVE  ConformingNext /\ QueuesRight' /\ PricesRight'
<1> DEFINE n == next_id
           o == NewOrder(side, price, qty, "IOC")
<1>1. qty \in Qty /\ "IOC" \in Types
  <2>1. qty <= max_order_qty
    BY DEF SendNew, CheckRisk
  <2>2. 0 .. max_order_qty \subseteq Qty /\ "IOC" \in Types
    BY PipelineAssumption DEF PipelineAssumption
  <2>3. qty \in 0 .. max_order_qty
    BY <2>1, LimitsAssumption DEF LimitsAssumption
  <2> QED
    BY <2>2, <2>3
<1>2. ConformingNext
  BY <1>1 DEF ConformingNext, Request
<1>3. Grown(n, o, Opened, Opened')
  BY <1>1, PInvTypes, GrownBy
<1>4. n \in OrderId /\ next_id' = n + 1 /\ DOMAIN Opened \subseteq 1 .. n - 1
  BY PInvTypes DEF SendNew
<1>5. o.status = "Sent" /\ o.leaves_qty = o.qty /\ o.price \in Price
  BY DEF NewOrder
<1> HIDE DEF o
<1>6. PricesRight'
  <2>1. ASSUME NEW id \in DOMAIN Opened' PROVE Opened'[id].price \in Price
    BY <1>3, <1>5 DEF Grown, PInv, PricesRight
  <2> QED
    BY <2>1 DEF PricesRight
<1>7. ASSUME connected' PROVE QueuesRight'
  <2>1. /\ connected
        /\ to_exchange' = IF peer_up THEN Append(to_exchange, n) ELSE to_exchange
        /\ UNCHANGED <<connected, peer_up, answers, from_exchange, coalesced>>
    BY <1>7 DEF SubmitOrder, net
  <2>2. /\ QueueTypes
        /\ Sound(InFlight, to_exchange, Opened, n)
        /\ peer_up => Remembered(InFlight, to_exchange, Opened)
    BY <2>1 DEF PInv, QueuesRight
  <2>3. from_exchange \in Seq(Report) /\ answers \in Seq(Report) /\ to_exchange \in Seq(OrderId)
    BY <2>2 DEF QueueTypes
  <2>4. InFlight \in Seq(Report) /\ InFlight' = InFlight
    BY <2>1, <2>3, ConcatProperties DEF InFlight
  <2>5. /\ Sound(InFlight, to_exchange, Opened', n + 1)
        /\ Sound(InFlight, Append(to_exchange, n), Opened', n + 1)
        /\ Remembered(InFlight, to_exchange, Opened) =>
                Remembered(InFlight, Append(to_exchange, n), Opened')
    BY <1>3, <1>4, <1>5, <2>2, <2>3, <2>4, SoundSend
  <2>6. Append(to_exchange, n) \in Seq(OrderId)
    BY <1>4, <2>3, AppendProperties
  <2>7. QueueTypes'
    BY <2>1, <2>2, <2>6 DEF QueueTypes
  <2>8. CASE peer_up
    BY <1>4, <2>1, <2>2, <2>4, <2>5, <2>7, <2>8 DEF QueuesRight
  <2>9. CASE ~ peer_up
    BY <1>4, <2>1, <2>2, <2>4, <2>5, <2>7, <2>9 DEF QueuesRight
  <2> QED
    BY <2>8, <2>9
<1>8. QueuesRight'
  BY <1>7 DEF QueuesRight
<1> QED
  BY <1>2, <1>6, <1>8

-----------------------------------------------------------------------------
(* The pipeline is a conforming environment of the OMS *)

\* A reference and a quote arrive, or one of them, or neither.
LEMMA MarketKeeps ==
    ASSUME PInv, NEW R \in AtMostOne(References), NEW Q \in AtMostOne(Quotes), MarketData(R, Q)
    PROVE  /\ ConformingNext /\ BookTypes'
           /\ (Q = {} /\ bid' = bid /\ ask' = ask) \/ <<bid', ask'>> \in Quotes
<1> DEFINE nq == OnQuote(Q)
<1>0. /\ Quotes \subseteq Price \X Price
      /\ \A q \in Quotes : (q[1] + q[2]) \div 2 \in Price
      /\ References \subseteq Nat \ {0}
  BY PipelineAssumption DEF PipelineAssumption
<1>1. Q = {} \/ \E q \in Quotes : Q = {q}
  BY DEF AtMostOne
<1>2. /\ (Q = {} /\ nq = <<bid, ask>>) \/ nq \in Quotes
      /\ nq \in Quotes \cup {<<0, 0>>} /\ mid_price(nq) \in Price
      /\ nq = <<nq[1], nq[2]>>
  <2>1. CASE Q = {}
    <3>1. nq = <<bid, ask>>
      BY <2>1 DEF OnQuote
    <3>2. mid_price(<<bid, ask>>) \in Price /\ <<bid, ask>> \in Quotes \cup {<<0, 0>>}
      BY PInvTypes DEF PInv, BookTypes
    <3> QED
      BY <2>1, <3>1, <3>2
  <2>2. ASSUME NEW q \in Quotes, Q = {q} PROVE nq = q
    BY <2>2 DEF OnQuote
  <2>3. ASSUME NEW q \in Quotes PROVE mid_price(q) \in Price /\ q = <<q[1], q[2]>>
    BY <1>0 DEF mid_price
  <2> QED
    BY <1>1, <2>1, <2>2, <2>3
<1> HIDE DEF nq
<1>3. /\ reference' = IF R = {} THEN reference ELSE CHOOSE r \in R : TRUE
      /\ bid' = nq[1] /\ ask' = nq[2] /\ SetReferencePrice(mid_price(nq)) /\ UNCHANGED net
  BY DEF MarketData, nq
<1>4. <<bid', ask'>> = nq
  BY <1>2, <1>3
<1>5. reference' \in References \cup {0}
  <2>1. reference \in References \cup {0}
    BY DEF PInv, BookTypes
  <2>2. R = {} \/ \E r \in References : R = {r}
    BY DEF AtMostOne
  <2>3. ASSUME NEW r \in References, R = {r} PROVE reference' = r
    BY <1>3, <2>3
  <2> QED
    BY <1>0, <1>3, <2>1, <2>2, <2>3
<1>6. coalesced' = coalesced /\ coalesced \in BOOLEAN
  BY <1>3 DEF net, PInv, BookTypes
<1>7. ConformingNext
  BY <1>2, <1>3 DEF ConformingNext, Request
<1>8. BookTypes'
  BY <1>2, <1>4, <1>5, <1>6 DEF BookTypes
<1>9. (Q = {} /\ bid' = bid /\ ask' = ask) \/ <<bid', ask'>> \in Quotes
  BY <1>2, <1>3, <1>4
<1> QED
  BY <1>7, <1>8, <1>9

\* The orders and their prices stay.
LEMMA PricesFrame ==
    ASSUME PricesRight, UNCHANGED <<orders, order_map>>
    PROVE  PricesRight'
BY DEF PricesRight, Opened, OpenIds, OrderOf

\* The book stays.
LEMMA BookFrame ==
    ASSUME BookTypes, UNCHANGED book, UNCHANGED coalesced
    PROVE  BookTypes'
BY DEF BookTypes, book

\* Nothing of the OMS moves, and the gateway stays as it is or loses its connection.
LEMMA IdleKeeps ==
    ASSUME PInv, UNCHANGED vars, UNCHANGED book, UNCHANGED coalesced,
           QueuesRight'
    PROVE  PInv'
<1>1. UNCHANGED <<orders, order_map>>
  BY DEF vars, bookkeeping
<1>2. ExposureInv'
  BY ExposureNext DEF PInv
<1> QED
  BY <1>1, <1>2, PricesFrame, BookFrame DEF PInv

\* The order code: an order is sent and submitted, or refused.
LEMMA TradeKeeps ==
    ASSUME PInv, NEW side \in Side, NEW price \in Price, NEW qty \in Nat, Trade(side, price, qty),
           UNCHANGED book
    PROVE  [ConformingNext]_vars /\ PInv'
<1>1. CASE SendNew(side, price, qty, "IOC") /\ SubmitOrder(next_id)
  <2>1. ConformingNext /\ QueuesRight' /\ PricesRight'
    BY <1>1, QueuesSend
  <2>2. ExposureInv'
    BY <2>1, ExposureNext DEF PInv
  <2>3. UNCHANGED coalesced
    BY <1>1 DEF SubmitOrder, net
  <2> QED
    BY <2>1, <2>2, <2>3, BookFrame DEF PInv
<1>2. CASE SendRefused(side, price, qty) /\ UNCHANGED net
  <2>1. UNCHANGED vars /\ UNCHANGED coalesced /\ UNCHANGED net
    BY <1>2 DEF SendRefused, net
  <2>2. UNCHANGED <<orders, order_map, next_id>>
    BY <2>1 DEF vars, bookkeeping
  <2>3. QueuesRight'
    BY <2>1, <2>2, QueuesFrame DEF PInv
  <2> QED
    BY <2>1, <2>3, IdleKeeps
<1> QED
  BY <1>1, <1>2 DEF Trade

\* What the two senders ask the order code for.
LEMMA TradeInputs ==
    ASSUME PInv
    PROVE  /\ ExitSide \in Side /\ ExitPrice \in Price /\ Abs(position) \in Nat
           /\ EntrySignal # "None" => EntrySignal \in Side
           /\ order_size \in Nat
<1>1. ExitSide \in Side
  BY DEF ExitSide, Side
<1>2. ExitPrice \in Price
  BY PInvTypes DEF ExitPrice
<1>3. Abs(position) \in Nat
  BY PInvTypes DEF Abs
<1>4. EntrySignal # "None" => EntrySignal \in Side
  BY DEF EntrySignal, Signal, Side
<1>5. order_size \in Nat
  BY PipelineAssumption DEF PipelineAssumption
<1> QED
  BY <1>1, <1>2, <1>3, <1>4, <1>5

\* Every step of the pipeline is one of the conforming environment, or none of the
\* OMS's, and keeps the invariant.
LEMMA PInvNext ==
    ASSUME PInv, [PNext]_pvars
    PROVE  [ConformingNext]_vars /\ PInv'
<1>1. ASSUME NEW R \in AtMostOne(References), NEW Q \in AtMostOne(Quotes), MarketData(R, Q)
      PROVE  [ConformingNext]_vars /\ PInv'
  <2>1. ConformingNext /\ BookTypes'
    BY <1>1, MarketKeeps
  <2>2. UNCHANGED <<orders, order_map, next_id>> /\ UNCHANGED net
    BY <1>1 DEF MarketData, SetReferencePrice, bookkeeping
  <2>3. ExposureInv'
    BY <2>1, ExposureNext DEF PInv
  <2> QED
    BY <2>1, <2>2, <2>3, QueuesFrame, PricesFrame DEF PInv
<1>2. CASE NoData \/ NoTrade \/ DrainEmpty \/ UNCHANGED pvars
  <2>1. UNCHANGED vars /\ UNCHANGED book /\ UNCHANGED net
    BY <1>2 DEF NoData, NoTrade, ToDrain, DrainEmpty, pvars
  <2>2. UNCHANGED <<orders, order_map, next_id>> /\ UNCHANGED coalesced
    BY <2>1 DEF vars, bookkeeping, net
  <2>3. QueuesRight'
    BY <2>1, <2>2, QueuesFrame DEF PInv
  <2> QED
    BY <2>1, <2>2, <2>3, IdleKeeps
<1>3. CASE SendExit
  <2>1. Trade(ExitSide, ExitPrice, Abs(position)) /\ UNCHANGED book
    BY <1>3 DEF SendExit, ToDrain
  <2> QED
    BY <2>1, TradeInputs, TradeKeeps
<1>4. CASE SendEntry
  <2>1. EntrySignal # "None" /\ UNCHANGED book
        /\ Trade(EntrySignal, IF EntrySignal = "Buy" THEN ask ELSE bid, order_size)
    BY <1>4 DEF SendEntry, ToDrain
  <2>2. (IF EntrySignal = "Buy" THEN ask ELSE bid) \in Price
    BY PInvTypes
  <2> QED
    BY <2>1, <2>2, TradeInputs, TradeKeeps
<1>5. CASE DrainOne
  <2> DEFINE r == Head(from_exchange)
  <2>1. r \in Report /\ Conforms(r) /\ QueuesRight' /\ PricesRight'
    BY <1>5, QueuesDrain
  <2>2. OnExecution(r) /\ UNCHANGED book /\ UNCHANGED coalesced
    BY <1>5 DEF DrainOne
  <2> HIDE DEF r
  <2>3. ConformingNext
    BY <2>1, <2>2 DEF ConformingNext
  <2>4. ExposureInv'
    BY <2>3, ExposureNext DEF PInv
  <2> QED
    BY <2>1, <2>2, <2>3, <2>4, BookFrame DEF PInv
<1>6. CASE DrainClosed \/ Stop
  <2>1. UNCHANGED vars /\ UNCHANGED book /\ UNCHANGED coalesced /\ ~ connected'
    BY <1>6 DEF DrainClosed, Stop
  <2>2. QueuesRight'
    BY <2>1 DEF QueuesRight
  <2> QED
    BY <2>1, <2>2, IdleKeeps
<1>7. CASE Exchange
  <2>1. UNCHANGED vars /\ UNCHANGED book /\ UNCHANGED coalesced
    BY <1>7 DEF Exchange, ExchangeTakes, ExchangeWrites
  <2>2. QueuesRight'
    BY <1>7, QueuesTakes, QueuesWrites DEF Exchange, PInv
  <2> QED
    BY <2>1, <2>2, IdleKeeps
<1>8. CASE ExchangeCloses
  <2>1. /\ UNCHANGED vars /\ UNCHANGED book /\ UNCHANGED coalesced /\ ~ peer_up'
        /\ UNCHANGED <<connected, to_exchange, answers, from_exchange>>
    BY <1>8 DEF ExchangeCloses
  <2>2. UNCHANGED <<Opened, next_id, InFlight>>
    BY <2>1 DEF vars, bookkeeping, Opened, OpenIds, OrderOf, InFlight
  <2>3. QueueTypes' <=> QueueTypes
    BY <2>1 DEF QueueTypes
  <2>4. QueuesRight'
    BY <2>1, <2>2, <2>3 DEF QueuesRight, PInv
  <2> QED
    BY <2>1, <2>4, IdleKeeps
<1> QED
  BY <1>1, <1>2, <1>3, <1>4, <1>5, <1>6, <1>7, <1>8 DEF PNext, Loop

\* The invariant holds at the start.
LEMMA PInvInit == ASSUME PInit PROVE PInv
<1>1. Init /\ bid = 0 /\ ask = 0 /\ reference = 0 /\ coalesced \in BOOLEAN
      /\ to_exchange = << >> /\ answers = << >> /\ from_exchange = << >>
  BY DEF PInit
<1>2. ExposureInv
  BY <1>1, ExposureInit
<1>3. OpenIds = {}
  BY <1>1 DEF Init, OpenIds
<1>4. DOMAIN Opened = {}
  BY <1>3, OpenedAre DEF OpenedNamed
<1>5. InFlight = << >>
  BY <1>1 DEF InFlight
<1>6. Len(<< >>) = 0 /\ \A S : << >> \in Seq(S)
  OBVIOUS
<1>7. 1 .. 0 = {}
  OBVIOUS
<1>8. QueueTypes
  BY <1>1, <1>6 DEF QueueTypes
<1>9. Sound(InFlight, to_exchange, Opened, next_id) /\ Remembered(InFlight, to_exchange, Opened)
  BY <1>1, <1>4, <1>5, <1>6, <1>7
  DEF Sound, Issued, Ordered, Expected, Untaken, Remembered
<1> QED
  BY <1>1, <1>2, <1>4, <1>8, <1>9 DEF PInv, BookTypes, PricesRight, QueuesRight

\* The loop, the gateway and the exchange are together a conforming environment of
\* the OMS: whatever the interleaving of decisions, reports and a loss of the
\* connection, on_execution sees only reports that the order protocol allows.
THEOREM PipelineIsConforming == PSpec => PipelineConforms
<1>1. PInit => PInv /\ Init
  BY PInvInit DEF PInit
<1>2. PInv /\ [PNext]_pvars => PInv' /\ [ConformingNext]_vars
  BY PInvNext
<1> QED
  BY <1>1, <1>2, PTL DEF PSpec, PipelineConforms, ConformingSpec

\* So the pipeline has what module OMS proves of such an environment: pending_new_ and
\* live_orders_ count the open orders exactly, and pending_position_delta_ is what
\* they may still trade.
THEOREM PipelineAccounts == PSpec => [](CountersExact /\ PendingDeltaIsOpenLeaves)
BY PipelineIsConforming, CountersAreExact, DeltaIsOpenLeaves, PTL DEF PipelineConforms

-----------------------------------------------------------------------------
(* No order is forgotten *)

\* With sound queues, what ends an order is under way exactly once.
LEMMA EndsOnce ==
    ASSUME NEW q, NEW t, NEW M, NEW n, Sound(q, t, M, n), Remembered(q, t, M), NEW id \in DOMAIN M,
           Len(q) \in Nat, Len(t) \in Nat
    PROVE  Cardinality({i \in 1 .. Len(q) : q[i].order_id = id /\ q[i].exec_type \in Terminal})
           + Cardinality({i \in 1 .. Len(t) : t[i] = id}) = 1
<1> DEFINE ends == {i \in 1 .. Len(q) : q[i].order_id = id /\ q[i].exec_type \in Terminal}
           sent == {i \in 1 .. Len(t) : t[i] = id}
<1>1. Cardinality({}) = 0 /\ \A x : Cardinality({x}) = 1
  BY FS_EmptySet, FS_Singleton
<1>2. ASSUME NEW i \in sent PROVE sent = {i} /\ ends = {}
  BY DEF Sound, Untaken
<1>3. ASSUME NEW i \in ends, NEW j \in ends PROVE i = j
  <2>1. ASSUME NEW k \in ends, NEW l \in ends, k < l PROVE FALSE
    <3>1. <<q[k].exec_type, q[l].exec_type>> \in Follows
      BY <2>1 DEF Sound, Ordered
    <3>2. q[k].exec_type \in Terminal /\ q[l].exec_type \in Terminal
      OBVIOUS
    <3> QED
      BY <3>1, <3>2 DEF Follows, Terminal
  <2>2. i \in Int /\ j \in Int
    OBVIOUS
  <2>3. i < j \/ j < i \/ i = j
    BY <2>2
  <2> QED
    BY <2>1, <2>3
<1>4. sent # {} \/ ends # {}
  BY DEF Remembered
<1>5. CASE sent # {}
  <2>1. Cardinality(sent) = 1 /\ Cardinality(ends) = 0
    BY <1>1, <1>2, <1>5
  <2> QED
    BY <2>1
<1>6. CASE sent = {}
  <2>1. PICK i : i \in ends
    BY <1>4, <1>6
  <2>2. ends = {i}
    BY <1>3, <2>1
  <2>3. Cardinality(sent) = 0 /\ Cardinality(ends) = 1
    BY <1>1, <1>6, <2>2
  <2> QED
    BY <2>3
<1> QED
  BY <1>5, <1>6

\* As long as the connection stands, every open order is on its way to the exchange
\* or the report that ends it is on its way back, exactly once.
THEOREM NoneForgotten == PSpec => []NoOrderForgotten
<1>1. PInit => PInv
  BY PInvInit
<1>2. PInv /\ [PNext]_pvars => PInv'
  BY PInvNext
<1>3. ASSUME PInv PROVE NoOrderForgotten
  <2>1. SUFFICES ASSUME connected, peer_up, NEW id \in OpenIds
                 PROVE  LET back == from_exchange \o answers
                            ends == {i \in DOMAIN back : back[i].order_id = id
                                                         /\ back[i].exec_type \in Terminal}
                            sent == {i \in DOMAIN to_exchange : to_exchange[i] = id}
                        IN  Cardinality(ends) + Cardinality(sent) = 1
    BY DEF NoOrderForgotten
  <2>2. /\ QueueTypes /\ Sound(InFlight, to_exchange, Opened, next_id)
        /\ Remembered(InFlight, to_exchange, Opened)
    BY <1>3, <2>1 DEF PInv, QueuesRight
  <2>3. from_exchange \in Seq(Report) /\ answers \in Seq(Report) /\ to_exchange \in Seq(OrderId)
    BY <2>2 DEF QueueTypes
  <2>4. InFlight \in Seq(Report)
    BY <2>3, ConcatProperties DEF InFlight
  <2>5. /\ Len(InFlight) \in Nat /\ DOMAIN InFlight = 1 .. Len(InFlight)
        /\ Len(to_exchange) \in Nat /\ DOMAIN to_exchange = 1 .. Len(to_exchange)
    BY <2>3, <2>4, LenProperties
  <2>6. id \in DOMAIN Opened
    BY OpenedAre DEF OpenedNamed
  <2>7. Cardinality({i \in 1 .. Len(InFlight) : InFlight[i].order_id = id
                                                /\ InFlight[i].exec_type \in Terminal})
        + Cardinality({i \in 1 .. Len(to_exchange) : to_exchange[i] = id}) = 1
    BY <2>2, <2>5, <2>6, EndsOnce
  <2> QED
    BY <2>5, <2>7 DEF InFlight
<1> QED
  BY <1>1, <1>2, <1>3, PTL DEF PSpec

-----------------------------------------------------------------------------
(* One order at a time *)

\* Nothing is sent while an order is pending.
LEMMA SendsWhenClear ==
    /\ ShouldExit => ~ (pending_new > 0)
    /\ EntrySignal # "None" => ~ (pending_new > 0) /\ position = 0
BY DEF ShouldExit, EntrySignal, has_pending_order

\* An order that was submitted to a closed gateway stays pending for ever, and as long
\* as it does nothing more is sent.
THEOREM LostGatewayHalts == PSpec => LostGatewayHaltsTrading
<1> DEFINE A == ~ connected /\ pending_new > 0 => next_id' = next_id /\ pending_new' = pending_new
<1>1. ASSUME [PNext]_pvars PROVE [A]_pvars
  <2>1. SUFFICES ASSUME PNext, ~ connected, pending_new > 0
                 PROVE  next_id' = next_id /\ pending_new' = pending_new
    BY <1>1
  <2>2. ASSUME NEW R, NEW Q, MarketData(R, Q)
        PROVE  next_id' = next_id /\ pending_new' = pending_new
    BY <2>2 DEF MarketData, SetReferencePrice, bookkeeping, counters
  <2>3. ~ SendExit /\ ~ SendEntry
    BY <2>1, SendsWhenClear DEF SendExit, SendEntry
  <2>4. ~ DrainOne
    BY <2>1 DEF DrainOne
  <2>5. CASE UNCHANGED vars
    BY <2>5 DEF vars, bookkeeping, counters
  <2>6. NoData \/ NoTrade \/ DrainEmpty \/ DrainClosed \/ Stop \/ Exchange \/ ExchangeCloses
        => UNCHANGED vars
    BY DEF NoData, NoTrade, DrainEmpty, DrainClosed, Stop, Exchange, ExchangeTakes,
           ExchangeWrites, ExchangeCloses
  <2> QED
    BY <2>1, <2>2, <2>3, <2>4, <2>5, <2>6 DEF PNext, Loop
<1> HIDE DEF A
<1>2. PSpec => [][A]_pvars
  BY <1>1, PTL DEF PSpec
<1> QED
  BY <1>2 DEF A, LostGatewayHaltsTrading

\* What report r does besides: M are the open orders before, N those after it.
Executed(r, M, N) ==
    LET id == r.order_id
    IN  /\ pending_new' <= pending_new
        /\ \/ /\ position' = position /\ trading_cash' = trading_cash
              /\ id \in DOMAIN N => /\ N[id].side = M[id].side
                                    /\ N[id].leaves_qty = M[id].leaves_qty
           \/ /\ id \in DOMAIN M
              /\ r.fill_qty \in 0 .. M[id].leaves_qty
              /\ position' = position + Signed(M[id].side, r.fill_qty)
              /\ trading_cash' = trading_cash - r.fill_price * Signed(M[id].side, r.fill_qty)
              /\ id \in DOMAIN N => /\ N[id].side = M[id].side
                                    /\ N[id].leaves_qty = M[id].leaves_qty - r.fill_qty

\* A fill moves the position by at most the leaves of its order.
LEMMA ExecutedFill ==
    ASSUME IInv, LeavesRight, NEW r \in Report, Conforms(r), OnFill(r)
    PROVE  Executed(r, Opened, Opened')
<1> DEFINE id == r.order_id
           o == OrderOf(id)
           fq == r.fill_qty
           n == PartlyFilled(o, fq)
<1>1. /\ id \in OpenIds /\ o \in Order
      /\ FullyFilled(o, r) => Ended(id)
      /\ ~ FullyFilled(o, r) => Updated(id, n)
  BY ShapeFill
<1>2. /\ position' = position + Signed(o.side, fq)
      /\ trading_cash' = trading_cash - r.fill_price * Signed(o.side, fq)
      /\ pending_new' = IF o.status = "Sent" THEN Dec(pending_new) ELSE pending_new
      /\ r.exec_type \in {"Fill", "PartialFill"}
  BY DEF OnFill, apply_trading_fill
<1>3. o.filled_qty <= o.qty /\ o.leaves_qty = o.qty - o.filled_qty
  BY <1>1 DEF LeavesRight
<1>4. /\ o.side \in Side /\ o.leaves_qty \in Nat /\ o.qty \in Nat /\ o.filled_qty \in Nat
      /\ n.side = o.side /\ n.leaves_qty = LeavesAfter(o, fq)
  BY <1>1 DEF Order, PartlyFilled
<1>5. /\ r.exec_type = "Fill" => fq = o.leaves_qty
      /\ r.exec_type = "PartialFill" => fq \in 1 .. o.leaves_qty - 1
  BY <1>1 DEF Conforms
<1>6. fq \in 0 .. o.leaves_qty
  <2>1. CASE r.exec_type = "Fill"
    BY <1>4, <1>5, <2>1
  <2>2. CASE r.exec_type = "PartialFill"
    BY <1>4, <1>5, <2>2
  <2> QED
    BY <1>2, <2>1, <2>2
<1>7. pending_new' <= pending_new
  BY <1>2 DEF IInv, TypeOK, Dec
<1>8. DOMAIN Opened = OpenIds /\ \A i \in OpenIds : Opened[i] = OrderOf(i)
  BY OpenedAre DEF OpenedNamed
<1>9. DOMAIN Opened' = OpenIds' /\ \A i \in OpenIds' : Opened'[i] = OrderOf(i)'
  BY OpenedArePrimed DEF OpenedNamed
<1>10. id \in DOMAIN Opened /\ Opened[id] = o
  BY <1>1, <1>8
<1>11. ASSUME id \in DOMAIN Opened'
       PROVE  Opened'[id].side = o.side /\ Opened'[id].leaves_qty = o.leaves_qty - fq
  <2>1. ~ FullyFilled(o, r)
    BY <1>1, <1>9, <1>11 DEF Ended
  <2>2. Updated(id, n)
    BY <1>1, <2>1
  <2>3. Opened'[id] = n
    BY <1>9, <1>11, <2>2 DEF Updated
  <2>4. LeavesAfter(o, fq) # 0
    BY <2>1 DEF FullyFilled
  <2>5. fq \in Nat /\ LeavesAfter(o, fq) = o.leaves_qty - fq
    BY <1>3, <1>4, <1>6, <2>4 DEF LeavesAfter
  <2> QED
    BY <1>4, <2>3, <2>5
<1> HIDE DEF o, fq, n
<1> QED
  BY <1>2, <1>6, <1>7, <1>10, <1>11 DEF Executed, fq

\* An acknowledgement moves neither the position nor the leaves.
LEMMA ExecutedNewAck ==
    ASSUME IInv, NEW r \in Report, OnNewAck(r)
    PROVE  Executed(r, Opened, Opened')
<1> DEFINE id == r.order_id
           o == OrderOf(id)
           n == [o EXCEPT !.status = "Live"]
<1>1. Updated(id, n)
  BY ShapeNewAck
<1>2. /\ position' = position /\ trading_cash' = trading_cash
      /\ pending_new' = Dec(pending_new)
  BY DEF OnNewAck, exposure
<1>3. o \in Order /\ id \in OpenIds
  BY ReportType DEF OnNewAck, IInv
<1>4. n.side = o.side /\ n.leaves_qty = o.leaves_qty
  BY <1>3 DEF Order
<1>5. pending_new' <= pending_new
  BY <1>2 DEF IInv, TypeOK, Dec
<1>6. Opened[id] = o
  BY <1>3, OpenedAre DEF OpenedNamed
<1>7. Opened'[id] = n
  <2>1. id \in OpenIds' /\ OrderOf(id)' = n
    BY <1>1 DEF Updated
  <2> QED
    BY <2>1, OpenedArePrimed DEF OpenedNamed
<1> HIDE DEF o, n
<1> QED
  BY <1>2, <1>4, <1>5, <1>6, <1>7 DEF Executed

\* An order that ends without a fill leaves the position as it is.
LEMMA ExecutedEnded ==
    ASSUME IInv, NEW r \in Report, OnCancelAck(r) \/ OnReject(r)
    PROVE  Executed(r, Opened, Opened')
<1>1. Ended(r.order_id)
  BY ShapeCancelAck, ShapeReject
<1>2. /\ position' = position /\ trading_cash' = trading_cash
      /\ pending_new' = pending_new \/ pending_new' = Dec(pending_new)
  BY DEF OnCancelAck, OnReject
<1>3. pending_new' <= pending_new
  BY <1>2 DEF IInv, TypeOK, Dec
<1>4. r.order_id \notin DOMAIN Opened'
  BY <1>1, OpenedArePrimed DEF OpenedNamed, Ended
<1> QED
  BY <1>2, <1>3, <1>4 DEF Executed

\* What on_execution does with a report that the protocol allows.
LEMMA ExecutedBy ==
    ASSUME IInv, LeavesRight, NEW r \in Report, Conforms(r), OnExecution(r)
    PROVE  Executed(r, Opened, Opened')
<1>1. CASE OnIgnored(r)
  <2>1. UNCHANGED <<orders, order_map, position, trading_cash, pending_new>>
    BY <1>1 DEF OnIgnored, vars, bookkeeping, exposure, counters
  <2>2. Opened' = Opened
    BY <2>1 DEF Opened, OpenIds, OrderOf
  <2>3. pending_new \in Nat
    BY DEF IInv, TypeOK
  <2>4. pending_new' <= pending_new
    BY <2>1, <2>3
  <2> QED
    BY <2>1, <2>2, <2>4 DEF Executed
<1> QED
  BY <1>1, ExecutedFill, ExecutedNewAck, ExecutedEnded DEF OnExecution

\* The position after order o is filled to the end.
FilledPosition(o) == position + Signed(o.side, o.leaves_qty)

\* Never two pending orders; and with every order's reports in one segment, at most one
\* order open, which is settled before the loop decides again and which carries the
\* position no further than one order.
SingleInv ==
    /\ pending_new <= 1
    /\ coalesced =>
        /\ \A i, j \in DOMAIN Opened :
                Opened[i].status # "Sent" /\ Opened[j].status # "Sent" => i = j
        /\ Abs(position) <= order_size
        /\ connected =>
            /\ \A i, j \in DOMAIN Opened : i = j
            /\ pc # "drain" => \A i \in DOMAIN Opened : Opened[i].status = "Sent"
            /\ \A i \in DOMAIN Opened : Abs(FilledPosition(Opened[i])) <= order_size

\* A step that leaves the orders alone.
LEMMA SingleIdle ==
    ASSUME SingleInv, UNCHANGED <<orders, order_map, position, pending_new, coalesced>>,
           connected' => connected,
           connected' /\ coalesced /\ pc' # "drain" =>
                \A i \in DOMAIN Opened : Opened[i].status = "Sent"
    PROVE  SingleInv'
<1>1. Opened' = Opened
  BY DEF Opened, OpenIds, OrderOf
<1> QED
  BY <1>1 DEF SingleInv, FilledPosition

\* A drained gateway: no order is left half way.
LEMMA DrainedSettled ==
    ASSUME PInv, connected, peer_up, coalesced, from_exchange = << >>, NEW i \in DOMAIN Opened
    PROVE  Opened[i].status = "Sent"
<1>1. /\ QueueTypes /\ Remembered(InFlight, to_exchange, Opened)
      /\ Untaken(to_exchange, InFlight, Opened)
  BY DEF PInv, QueuesRight, Sound
<1>2. InFlight = << >>
  BY <1>1 DEF InFlight, QueueTypes
<1>3. Len(InFlight) = 0 /\ 1 .. 0 = {}
  BY <1>2
<1>4. PICK k \in 1 .. Len(to_exchange) : to_exchange[k] = i
  BY <1>1, <1>3 DEF Remembered
<1> QED
  BY <1>1, <1>4 DEF Untaken

\* An order is sent while none is pending.
LEMMA SingleSend ==
    ASSUME PInv, SingleInv, ~ (pending_new > 0), pc # "drain",
           NEW side \in Side, NEW price \in Price, NEW qty \in Qty,
           SendNew(side, price, qty, "IOC"), SubmitOrder(next_id), pc' = "drain",
           Abs(position + Signed(side, qty)) <= order_size
    PROVE  SingleInv'
<1> DEFINE n == next_id
           o == NewOrder(side, price, qty, "IOC")
<1>1. Grown(n, o, Opened, Opened')
  <2>1. "IOC" \in Types
    BY PipelineAssumption DEF PipelineAssumption
  <2> QED
    BY <2>1, PInvTypes, GrownBy
<1>2. o.status = "Sent" /\ o.side = side /\ o.leaves_qty = qty
  BY DEF NewOrder
<1>3. position' = position /\ pending_new' = pending_new + 1 /\ pending_new \in Nat
  BY PInvTypes DEF SendNew, IInv, TypeOK
<1>4. coalesced' = coalesced /\ (connected' => connected)
  BY DEF SubmitOrder, net
<1> HIDE DEF o
<1>5. pending_new' <= 1
  BY <1>3
<1>6. ASSUME NEW i \in DOMAIN Opened PROVE Opened[i].status # "Sent"
  <2>1. i \in OpenIds /\ Opened[i] = OrderOf(i)
    BY OpenedAre DEF OpenedNamed
  <2> QED
    BY <2>1, PInvTypes, SentIsPending
<1>7. ASSUME coalesced, connected PROVE DOMAIN Opened' = {n}
  <2>1. \A i \in DOMAIN Opened : Opened[i].status = "Sent"
    BY <1>7 DEF SingleInv
  <2>2. DOMAIN Opened = {}
    BY <1>6, <2>1
  <2> QED
    BY <1>1, <2>2 DEF Grown
<1>8. Opened'[n] = o /\ \A i \in DOMAIN Opened : Opened'[i] = Opened[i]
  BY <1>1 DEF Grown
<1>9. ASSUME coalesced, NEW i \in DOMAIN Opened', NEW j \in DOMAIN Opened',
             Opened'[i].status # "Sent", Opened'[j].status # "Sent"
      PROVE  i = j
  <2>1. i \in DOMAIN Opened /\ j \in DOMAIN Opened
    BY <1>1, <1>2, <1>8, <1>9 DEF Grown
  <2> QED
    BY <1>8, <1>9, <2>1 DEF SingleInv
<1>10. FilledPosition(o) = position + Signed(side, qty)
  BY <1>2 DEF FilledPosition
<1>11. ASSUME coalesced, connected, NEW i \in DOMAIN Opened'
       PROVE  Abs(FilledPosition(Opened[i])') <= order_size
  <2>1. Opened'[i] = o
    BY <1>7, <1>8, <1>11
  <2>2. FilledPosition(Opened[i])' = position + Signed(side, qty)
    BY <1>2, <1>3, <2>1 DEF FilledPosition
  <2> QED
    BY <2>2
<1> QED
  BY <1>3, <1>4, <1>5, <1>7, <1>9, <1>11 DEF SingleInv

\* A number between two others that are within a bound.
LEMMA BetweenArith ==
    ASSUME NEW p \in Int, NEW l \in Nat, NEW f \in 0 .. l, NEW side \in Side, NEW m \in Nat,
           Abs(p) <= m, Abs(p + Signed(side, l)) <= m
    PROVE  /\ Abs(p + Signed(side, f)) <= m
           /\ (p + Signed(side, f)) + Signed(side, l - f) = p + Signed(side, l)
<1>1. CASE side = "Buy"
  BY <1>1 DEF Abs, Signed
<1>2. CASE side = "Sell"
  BY <1>2 DEF Abs, Signed, Side
<1> QED
  BY <1>1, <1>2 DEF Side

\* A report is processed.
LEMMA SingleDrain ==
    ASSUME PInv, SingleInv, DrainOne
    PROVE  SingleInv'
<1> DEFINE r == Head(from_exchange)
           id == r.order_id
           M == Opened
           N == Opened'
<1>1. r \in Report /\ Conforms(r) /\ Processed(r, Opened, Opened')
  BY QueuesDrain
<1>2. /\ OnExecution(r) /\ connected /\ pc = "drain" /\ pc' = pc
      /\ connected' = connected /\ coalesced' = coalesced
  BY DEF DrainOne
<1>3. IInv /\ LeavesRight
  BY DEF PInv, ExposureInv
<1> HIDE DEF r
<1>4. Executed(r, Opened, Opened')
  BY <1>1, <1>2, <1>3, ExecutedBy
<1>5. pending_new' <= 1
  <2>1. pending_new' <= pending_new /\ pending_new <= 1
    BY <1>4 DEF Executed, SingleInv
  <2>2. pending_new \in Int /\ pending_new' \in Int
    <3>1. IInv'
      BY PInvNext DEF PNext, Loop, PInv, ExposureInv
    <3>2. TypeOK /\ TypeOK'
      BY <1>3, <3>1 DEF IInv
    <3> QED
      BY <3>2 DEF TypeOK
  <2> QED
    BY <2>1, <2>2
<1>6. SUFFICES ASSUME coalesced
               PROVE  /\ Abs(position') <= order_size
                      /\ \A i, j \in DOMAIN N : i = j
                      /\ \A i \in DOMAIN N : Abs(FilledPosition(Opened[i])') <= order_size
  BY <1>2, <1>5 DEF SingleInv
<1>7. /\ Abs(position) <= order_size
      /\ \A i, j \in DOMAIN M : i = j
      /\ \A i \in DOMAIN M : Abs(FilledPosition(M[i])) <= order_size
  BY <1>2, <1>6 DEF SingleInv
<1>8. DOMAIN N \subseteq DOMAIN M /\ \A i \in DOMAIN M : i # id => i \in DOMAIN N /\ N[i] = M[i]
  BY <1>1 DEF Processed
<1>9. \A i \in DOMAIN M : M[i].side \in Side /\ M[i].leaves_qty \in Nat
  BY <1>3, LeavesInt, OpenedAre DEF Kinds, OpenedNamed
<1>10. position \in Int /\ order_size \in Nat
  BY PInvTypes, PipelineAssumption DEF PipelineAssumption
<1>11. \A i \in DOMAIN N : FilledPosition(Opened[i])' = position' + Signed(N[i].side, N[i].leaves_qty)
  BY DEF FilledPosition
<1>12. \A i \in DOMAIN M : FilledPosition(M[i]) = position + Signed(M[i].side, M[i].leaves_qty)
  BY DEF FilledPosition
<1> HIDE DEF M, N
<1>13. CASE /\ position' = position
            /\ id \in DOMAIN N => N[id].side = M[id].side /\ N[id].leaves_qty = M[id].leaves_qty
  <2>1. ASSUME NEW i \in DOMAIN N
        PROVE  i \in DOMAIN M /\ N[i].side = M[i].side /\ N[i].leaves_qty = M[i].leaves_qty
    BY <1>8, <1>13
  <2> QED
    BY <1>7, <1>8, <1>11, <1>12, <1>13, <2>1
<1>14. CASE /\ id \in DOMAIN M
            /\ r.fill_qty \in 0 .. M[id].leaves_qty
            /\ position' = position + Signed(M[id].side, r.fill_qty)
            /\ id \in DOMAIN N => /\ N[id].side = M[id].side
                                  /\ N[id].leaves_qty = M[id].leaves_qty - r.fill_qty
  <2> DEFINE s == M[id].side
             l == M[id].leaves_qty
             f == r.fill_qty
  <2>1. s \in Side /\ l \in Nat /\ f \in 0 .. l /\ Abs(position + Signed(s, l)) <= order_size
    BY <1>7, <1>9, <1>12, <1>14
  <2> HIDE DEF s, l, f
  <2>2. /\ Abs(position + Signed(s, f)) <= order_size
        /\ (position + Signed(s, f)) + Signed(s, l - f) = position + Signed(s, l)
    BY <1>7, <1>10, <2>1, BetweenArith
  <2>3. position' = position + Signed(s, f)
    BY <1>14 DEF s, f
  <2>4. ASSUME NEW i \in DOMAIN N PROVE Abs(FilledPosition(Opened[i])') <= order_size
    <3>1. i = id
      BY <1>7, <1>8, <1>14
    <3>2. N[i].side = s /\ N[i].leaves_qty = l - f
      BY <1>14, <3>1 DEF s, l, f
    <3>3. FilledPosition(Opened[i])' = position + Signed(s, l)
      BY <1>11, <2>2, <2>3, <3>2
    <3> QED
      BY <2>1, <3>3
  <2> QED
    BY <1>7, <1>8, <2>2, <2>3, <2>4
<1> QED
  BY <1>4, <1>13, <1>14 DEF Executed, M, N

\* Every step of the pipeline keeps it.
LEMMA SingleNext ==
    ASSUME PInv, SingleInv, [PNext]_pvars
    PROVE  SingleInv'
<1> DEFINE AllSent == \A i \in DOMAIN Opened : Opened[i].status = "Sent"
           Kept == UNCHANGED <<orders, order_map, position, pending_new, coalesced>>
<1>0. connected /\ coalesced /\ pc # "drain" => AllSent
  BY DEF SingleInv
<1>v. UNCHANGED vars => UNCHANGED <<orders, order_map, position, pending_new>>
  BY DEF vars, bookkeeping, exposure, counters
<1>1. ASSUME NEW R, NEW Q, MarketData(R, Q) PROVE SingleInv'
  <2>1. Kept /\ pc # "drain" /\ connected' = connected
    BY <1>1 DEF MarketData, SetReferencePrice, bookkeeping, exposure, counters, net
  <2> QED
    BY <1>0, <2>1, SingleIdle
<1>2. CASE NoData \/ NoTrade \/ UNCHANGED pvars
  <2>1. /\ UNCHANGED vars /\ connected' = connected /\ coalesced' = coalesced
        /\ pc' = pc \/ pc' = "drain"
    BY <1>2 DEF NoData, NoTrade, ToDrain, pvars, net
  <2> QED
    BY <1>0, <1>v, <2>1, SingleIdle
<1>3. CASE DrainEmpty
  <2>1. /\ UNCHANGED vars /\ connected' = connected /\ coalesced' = coalesced
        /\ ~ connected \/ (peer_up /\ from_exchange = << >>)
    BY <1>3 DEF DrainEmpty, net
  <2>2. connected' /\ coalesced /\ pc' # "drain" => AllSent
    BY <2>1, DrainedSettled
  <2> QED
    BY <1>v, <2>1, <2>2, SingleIdle
<1>4. CASE DrainClosed \/ Stop
  <2>1. UNCHANGED vars /\ ~ connected' /\ coalesced' = coalesced
    BY <1>4 DEF DrainClosed, Stop
  <2> QED
    BY <1>v, <2>1, SingleIdle
<1>5. CASE Exchange \/ ExchangeCloses
  <2>1. UNCHANGED vars /\ pc' = pc /\ connected' = connected /\ coalesced' = coalesced
    BY <1>5 DEF Exchange, ExchangeTakes, ExchangeWrites, ExchangeCloses
  <2> QED
    BY <1>0, <1>v, <2>1, SingleIdle
<1>6. ASSUME NEW side \in Side, NEW price \in Price, NEW qty \in Nat, Trade(side, price, qty),
             ~ (pending_new > 0), pc = "decide", pc' = "drain",
             Abs(position + Signed(side, qty)) <= order_size
      PROVE  SingleInv'
  <2>1. CASE SendRefused(side, price, qty) /\ UNCHANGED net
    <3>1. UNCHANGED vars /\ connected' = connected /\ coalesced' = coalesced
      BY <2>1 DEF SendRefused, net
    <3> QED
      BY <1>6, <1>v, <3>1, SingleIdle
  <2>2. CASE SendNew(side, price, qty, "IOC") /\ SubmitOrder(next_id)
    <3>1. qty \in Qty
      <4>1. qty <= max_order_qty
        BY <2>2 DEF SendNew, CheckRisk
      <4>2. qty \in 0 .. max_order_qty
        BY <4>1, LimitsAssumption DEF LimitsAssumption
      <4> QED
        BY <4>2, PipelineAssumption DEF PipelineAssumption
    <3> QED
      <4>1. pc # "drain"
        BY <1>6
      <4> QED
        BY <1>6, <2>2, <3>1, <4>1, SingleSend
  <2> QED
    BY <1>6, <2>1, <2>2 DEF Trade
<1>7. CASE SendExit
  <2>1. Trade(ExitSide, ExitPrice, Abs(position)) /\ pc = "decide" /\ pc' = "drain" /\ ShouldExit
    BY <1>7 DEF SendExit, ToDrain
  <2>2. ~ (pending_new > 0) /\ position # 0
    BY <2>1, SendsWhenClear DEF ShouldExit, ExitOrderReady
  <2>3. position + Signed(ExitSide, Abs(position)) = 0
    BY <2>2, PInvTypes DEF ExitSide, Signed, Abs
  <2>4. Abs(0) <= order_size
    BY PipelineAssumption DEF PipelineAssumption, Abs
  <2> QED
    BY <1>6, <2>1, <2>2, <2>3, <2>4, TradeInputs
<1>8. CASE SendEntry
  <2>1. /\ Trade(EntrySignal, IF EntrySignal = "Buy" THEN ask ELSE bid, order_size)
        /\ pc = "decide" /\ pc' = "drain" /\ EntrySignal # "None"
    BY <1>8 DEF SendEntry, ToDrain
  <2>2. ~ (pending_new > 0) /\ position = 0
    BY <2>1, SendsWhenClear
  <2>3. order_size \in Nat
    BY PipelineAssumption DEF PipelineAssumption
  <2>4. Abs(position + Signed(EntrySignal, order_size)) <= order_size
    BY <2>2, <2>3 DEF Signed, Abs
  <2>5. (IF EntrySignal = "Buy" THEN ask ELSE bid) \in Price
    BY PInvTypes
  <2> QED
    BY <1>6, <2>1, <2>2, <2>4, <2>5, TradeInputs
<1>9. CASE DrainOne
  BY <1>9, SingleDrain
<1> QED
  BY <1>1, <1>2, <1>3, <1>4, <1>5, <1>7, <1>8, <1>9 DEF PNext, Loop

\* At most one member.
LEMMA AtMostOneCard ==
    ASSUME NEW S, \A i, j \in S : i = j
    PROVE  Cardinality(S) \in Nat /\ Cardinality(S) <= 1
<1>1. CASE S = {}
  BY <1>1, FS_EmptySet
<1>2. ASSUME NEW x \in S PROVE Cardinality(S) = 1
  <2>1. S = {x}
    OBVIOUS
  <2> QED
    BY <2>1, FS_Singleton
<1> QED
  BY <1>1, <1>2

\* The loop never has two unacknowledged orders out; when an order's reports arrive in
\* one segment, it has one order open (two after a lost connection) and holds at most
\* the quantity of one.
THEOREM OneAtATime == PSpec => []OneOrderAtATime
<1>1. PInit => PInv /\ SingleInv
  <2>1. SUFFICES ASSUME PInit PROVE PInv /\ SingleInv
    OBVIOUS
  <2>2. pending_new = 0 /\ position = 0 /\ OpenIds = {}
    <3>1. pending_new = 0 /\ position = 0
      BY <2>1 DEF PInit, Init
    <3>2. Init
      BY <2>1 DEF PInit
    <3>3. OpenIds = {}
      BY <3>2 DEF Init, OpenIds
    <3> QED
      BY <3>1, <3>3
  <2>3. DOMAIN Opened = {}
    BY <2>2, OpenedAre DEF OpenedNamed
  <2>4. Abs(0) <= order_size
    BY PipelineAssumption DEF PipelineAssumption, Abs
  <2> QED
    BY <2>1, <2>2, <2>3, <2>4, PInvInit DEF SingleInv
<1>2. (PInv /\ SingleInv) /\ [PNext]_pvars => (PInv /\ SingleInv)'
  BY PInvNext, SingleNext
<1>3. ASSUME PInv, SingleInv PROVE OneOrderAtATime
  <2>1. pending_new <= 1
    BY <1>3 DEF SingleInv
  <2>2. ASSUME coalesced
        PROVE  Cardinality(OpenIds) <= IF connected THEN 1 ELSE 2
    <3> DEFINE acked == OpenWith({"Live", "PartiallyFilled"})
               sent == OpenWith({"Sent"})
    <3>0. DOMAIN Opened = OpenIds /\ \A i \in OpenIds : Opened[i] = OrderOf(i)
      BY OpenedAre DEF OpenedNamed
    <3>1. CASE connected
      <4>1. \A i, j \in OpenIds : i = j
        BY <1>3, <2>2, <3>0, <3>1 DEF SingleInv
      <4> QED
        BY <3>1, <4>1, AtMostOneCard
    <3>2. CASE ~ connected
      <4>1. ASSUME NEW i \in acked, NEW j \in acked PROVE i = j
        <5>1. i \in OpenIds /\ j \in OpenIds /\ OrderOf(i).status # "Sent" /\ OrderOf(j).status # "Sent"
          BY DEF OpenWith
        <5> QED
          BY <1>3, <2>2, <3>0, <5>1 DEF SingleInv
      <4>2. IInv
        BY <1>3 DEF PInv, ExposureInv
      <4>3. Cardinality(OpenIds) = Cardinality(sent) + Cardinality(acked)
        BY <4>2, OpenSplit
      <4>4. Cardinality(sent) <= pending_new /\ pending_new \in Nat /\ Cardinality(sent) \in Nat
        BY <4>2, OpenFinite DEF IInv, CountersCoverOpenOrders, TypeOK
      <4> HIDE DEF acked, sent
      <4>5. Cardinality(acked) \in Nat /\ Cardinality(acked) <= 1
        BY <4>1, AtMostOneCard
      <4> QED
        BY <2>1, <3>2, <4>3, <4>4, <4>5
    <3> QED
      BY <3>1, <3>2
  <2> QED
    BY <1>3, <2>1, <2>2 DEF OneOrderAtATime, SingleInv
<1> QED
  BY <1>1, <1>2, <1>3, PTL DEF PSpec

-----------------------------------------------------------------------------
(* Trades before the first quote *)

\* Quotes have an ask, the thresholds are not negative, and a price is more than half
\* a spread.
PositivePrices ==
    /\ \A q \in Quotes : q[2] # 0
    /\ edge_threshold \in Nat /\ EXIT_HALF_SPREAD \in Nat
    /\ \A r \in References : r > EXIT_HALF_SPREAD

\* As long as there is no ask, nothing that is open or reported has a price.
FreeInv ==
    ask = 0 =>
        /\ bid = 0 /\ trading_cash = 0 /\ position >= 0
        /\ \A id \in DOMAIN Opened : Opened[id].side = "Buy" /\ Opened[id].price = 0
        /\ connected => \A i \in 1 .. Len(InFlight) : InFlight[i].fill_price = 0

\* Steps that move neither orders nor reports.
LEMMA FreeIdle ==
    ASSUME FreeInv, UNCHANGED <<orders, order_map, position, trading_cash>>,
           ask' = 0 => ask = 0 /\ bid' = bid, connected' => connected /\ InFlight' = InFlight
    PROVE  FreeInv'
<1>1. Opened' = Opened
  BY DEF Opened, OpenIds, OrderOf
<1> QED
  BY <1>1 DEF FreeInv

\* Without a quote the loop cannot exit, and enters only by a purchase at price 0.
LEMMA FreeSignals ==
    ASSUME PositivePrices, PInv, FreeInv, ask = 0
    PROVE  ~ ShouldExit /\ EntrySignal \in {"Buy", "None"}
<1>1. bid = 0 /\ position >= 0 /\ position \in Int
  BY PInvTypes DEF FreeInv
<1>2. edge_threshold \in Nat /\ EXIT_HALF_SPREAD \in Nat
  BY DEF PositivePrices
<1>3. reference \in Nat /\ (reference > 0 => reference > EXIT_HALF_SPREAD)
  <2>1. reference \in References \cup {0} /\ References \subseteq Nat \ {0}
    BY PipelineAssumption DEF PipelineAssumption, PInv, BookTypes
  <2>2. CASE reference \in References
    BY <2>1, <2>2 DEF PositivePrices
  <2>3. CASE reference = 0
    BY <2>3
  <2> QED
    BY <2>1, <2>2, <2>3
<1>4. ~ ShouldExit
  BY <1>1, <1>2, <1>3 DEF ShouldExit, ExitOrderReady, ExitPrice, has_reference
<1>5. EntrySignal \in {"Buy", "None"}
  <2>1. Signal # "Sell"
    BY <1>1, <1>2, <1>3 DEF Signal, has_reference
  <2>2. Signal \in {"Buy", "Sell", "None"}
    BY DEF Signal
  <2> QED
    BY <2>1, <2>2 DEF EntrySignal
<1> QED
  BY <1>4, <1>5

\* An entry is sent.
LEMMA FreeEntry ==
    ASSUME PositivePrices, PInv, FreeInv, SendEntry
    PROVE  FreeInv'
<1>1. SUFFICES ASSUME ask' = 0 PROVE FreeInv'
  BY DEF FreeInv
<1>2. /\ EntrySignal # "None" /\ ask = 0 /\ bid' = bid /\ ask' = ask
      /\ Trade(EntrySignal, IF EntrySignal = "Buy" THEN ask ELSE bid, order_size)
  BY <1>1 DEF SendEntry, ToDrain, book
<1>3. EntrySignal = "Buy" /\ Trade("Buy", 0, order_size)
  BY <1>2, FreeSignals
<1>4. CASE SendRefused("Buy", 0, order_size) /\ UNCHANGED net
  <2>1. UNCHANGED <<orders, order_map, position, trading_cash>>
    BY <1>4 DEF SendRefused, vars, bookkeeping, exposure
  <2>2. connected' = connected /\ InFlight' = InFlight
    BY <1>4 DEF net, InFlight
  <2> QED
    BY <1>2, <2>1, <2>2, FreeIdle
<1>5. CASE SendNew("Buy", 0, order_size, "IOC") /\ SubmitOrder(next_id)
  <2> DEFINE o == NewOrder("Buy", 0, order_size, "IOC")
  <2>1. order_size \in Qty /\ "IOC" \in Types /\ 0 \in Price /\ "Buy" \in Side
    <3>1. order_size <= max_order_qty
      BY <1>5 DEF SendNew, CheckRisk
    <3>2. /\ order_size \in Nat /\ 0 .. max_order_qty \subseteq Qty /\ "IOC" \in Types
          /\ 0 \in Price
      BY PipelineAssumption DEF PipelineAssumption
    <3>3. order_size \in 0 .. max_order_qty
      BY <3>1, <3>2, LimitsAssumption DEF LimitsAssumption
    <3> QED
      BY <3>2, <3>3 DEF Side
  <2>2. Grown(next_id, o, Opened, Opened')
    BY <1>5, <2>1, PInvTypes, GrownBy
  <2>3. o.side = "Buy" /\ o.price = 0
    BY DEF NewOrder
  <2>4. position' = position /\ trading_cash' = trading_cash
    BY <1>5 DEF SendNew
  <2>5. connected' => connected /\ InFlight' = InFlight
    BY <1>5 DEF SubmitOrder, net, InFlight
  <2> HIDE DEF o
  <2>6. ASSUME NEW id \in DOMAIN Opened' PROVE Opened'[id].side = "Buy" /\ Opened'[id].price = 0
    BY <1>2, <2>2, <2>3 DEF Grown, FreeInv
  <2> QED
    BY <1>2, <2>4, <2>5, <2>6 DEF FreeInv
<1> QED
  BY <1>3, <1>4, <1>5 DEF Trade

\* A report is processed.
LEMMA FreeDrain ==
    ASSUME PInv, FreeInv, DrainOne
    PROVE  FreeInv'
<1> DEFINE r == Head(from_exchange)
           id == r.order_id
<1>1. SUFFICES ASSUME ask' = 0 PROVE FreeInv'
  BY DEF FreeInv
<1>2. /\ r \in Report /\ Conforms(r) /\ Processed(r, Opened, Opened')
      /\ InFlight # << >> /\ InFlight[1] = r
  BY QueuesDrain
<1>3. /\ OnExecution(r) /\ connected /\ from_exchange # << >>
      /\ bid' = bid /\ ask' = ask /\ from_exchange' = Tail(from_exchange) /\ answers' = answers
  BY DEF DrainOne, book
<1>4. IInv /\ LeavesRight
  BY DEF PInv, ExposureInv
<1>5. from_exchange \in Seq(Report) /\ answers \in Seq(Report)
  BY <1>3 DEF PInv, QueuesRight, QueueTypes
<1>6. InFlight' = Tail(InFlight) /\ InFlight \in Seq(Report)
  BY <1>3, <1>5, TailConcat DEF InFlight
<1>7. /\ 1 \in 1 .. Len(InFlight)
      /\ \A i \in 1 .. Len(Tail(InFlight)) :
            i + 1 \in 1 .. Len(InFlight) /\ Tail(InFlight)[i] = InFlight[i + 1]
  BY <1>2, <1>6, TailElement
<1>8. /\ ask = 0 /\ bid = 0 /\ trading_cash = 0 /\ position >= 0
      /\ \A i \in DOMAIN Opened : Opened[i].side = "Buy" /\ Opened[i].price = 0
      /\ \A i \in 1 .. Len(InFlight) : InFlight[i].fill_price = 0
  BY <1>1, <1>3 DEF FreeInv
<1>9. r.fill_price = 0 /\ \A i \in 1 .. Len(InFlight') : InFlight'[i].fill_price = 0
  BY <1>2, <1>6, <1>7, <1>8
<1> HIDE DEF r
<1>10. Executed(r, Opened, Opened')
  BY <1>2, <1>3, <1>4, ExecutedBy
<1>11. position \in Int
  BY PInvTypes
<1>12. position' >= 0 /\ trading_cash' = 0
  <2>1. CASE position' = position /\ trading_cash' = trading_cash
    BY <1>8, <2>1
  <2>2. CASE /\ id \in DOMAIN Opened
             /\ r.fill_qty \in 0 .. Opened[id].leaves_qty
             /\ position' = position + Signed(Opened[id].side, r.fill_qty)
             /\ trading_cash' = trading_cash - r.fill_price * Signed(Opened[id].side, r.fill_qty)
    <3>1. Signed(Opened[id].side, r.fill_qty) = r.fill_qty
      BY <1>8, <2>2 DEF Signed
    <3>2. r.fill_qty \in Int /\ r.fill_qty >= 0
      BY <2>2
    <3>3. \A x \in Int : 0 - 0 * x = 0
      OBVIOUS
    <3>4. trading_cash' = 0 - 0 * r.fill_qty
      BY <1>8, <1>9, <2>2, <3>1
    <3>5. trading_cash' = 0
      BY <3>2, <3>3, <3>4
    <3> QED
      BY <1>8, <1>11, <2>2, <3>1, <3>2, <3>5
  <2> QED
    BY <1>10, <2>1, <2>2 DEF Executed
<1>13. ASSUME NEW i \in DOMAIN Opened' PROVE Opened'[i].side = "Buy" /\ Opened'[i].price = 0
  <2>1. i \in DOMAIN Opened
    BY <1>2 DEF Processed
  <2>2. CASE i # id
    BY <1>2, <1>8, <2>1, <2>2 DEF Processed
  <2>3. CASE i = id
    <3>1. Opened'[i].price = Opened[i].price
      BY <1>2, <1>13, <2>3 DEF Processed
    <3>2. Opened'[i].side = Opened[i].side
      BY <1>10, <1>13, <2>3 DEF Executed
    <3> QED
      BY <1>8, <2>1, <3>1, <3>2
  <2> QED
    BY <2>2, <2>3
<1> QED
  BY <1>3, <1>8, <1>9, <1>12, <1>13 DEF FreeInv

\* Every step of the pipeline keeps it.
LEMMA FreeNext ==
    ASSUME PositivePrices, PInv, FreeInv, [PNext]_pvars
    PROVE  FreeInv'
<1>v. UNCHANGED vars => UNCHANGED <<orders, order_map, position, trading_cash>>
  BY DEF vars, bookkeeping, exposure
<1>1. ASSUME NEW R \in AtMostOne(References), NEW Q \in AtMostOne(Quotes), MarketData(R, Q)
      PROVE  FreeInv'
  <2>1. /\ UNCHANGED <<orders, order_map, position, trading_cash>>
        /\ connected' = connected /\ InFlight' = InFlight
    BY <1>1 DEF MarketData, SetReferencePrice, bookkeeping, exposure, net, InFlight
  <2>2. (bid' = bid /\ ask' = ask) \/ <<bid', ask'>> \in Quotes
    BY <1>1, MarketKeeps
  <2>3. <<bid', ask'>> \in Quotes => ask' # 0
    <3>1. \A q \in Quotes : q[2] # 0
      BY DEF PositivePrices
    <3>2. <<bid', ask'>>[2] = ask'
      OBVIOUS
    <3> QED
      BY <3>1, <3>2
  <2>4. ask' = 0 => ask = 0 /\ bid' = bid
    BY <2>2, <2>3
  <2> QED
    BY <2>1, <2>4, FreeIdle
<1>2. CASE NoData \/ NoTrade \/ DrainEmpty \/ UNCHANGED pvars
  <2>1. UNCHANGED vars /\ UNCHANGED book /\ UNCHANGED net
    BY <1>2 DEF NoData, NoTrade, ToDrain, DrainEmpty, pvars
  <2>2. bid' = bid /\ ask' = ask /\ connected' = connected /\ InFlight' = InFlight
    BY <2>1 DEF book, net, InFlight
  <2> QED
    BY <1>v, <2>1, <2>2, FreeIdle
<1>3. CASE DrainClosed \/ Stop
  <2>1. UNCHANGED vars /\ UNCHANGED book /\ ~ connected'
    BY <1>3 DEF DrainClosed, Stop
  <2>2. bid' = bid /\ ask' = ask
    BY <2>1 DEF book
  <2> QED
    BY <1>v, <2>1, <2>2, FreeIdle
<1>4. CASE ExchangeWrites \/ ExchangeCloses
  <2>1. UNCHANGED vars /\ UNCHANGED book /\ connected' = connected
    BY <1>4 DEF ExchangeWrites, ExchangeCloses
  <2>2. ASSUME connected PROVE InFlight' = InFlight
    <3>1. from_exchange \in Seq(Report) /\ answers \in Seq(Report)
      BY <2>2 DEF PInv, QueuesRight, QueueTypes
    <3>2. CASE ExchangeWrites
      <4>1. /\ answers # << >> /\ answers' = Tail(answers)
            /\ from_exchange' = Append(from_exchange, Head(answers))
        BY <3>2 DEF ExchangeWrites
      <4>2. Append(from_exchange, Head(answers)) \o Tail(answers) = from_exchange \o answers
        BY <3>1, <4>1, ShiftConcat
      <4> QED
        BY <4>1, <4>2 DEF InFlight
    <3>3. CASE ExchangeCloses
      BY <3>3 DEF ExchangeCloses, InFlight
    <3> QED
      BY <1>4, <3>2, <3>3
  <2>3. bid' = bid /\ ask' = ask
    BY <2>1 DEF book
  <2> QED
    BY <1>v, <2>1, <2>2, <2>3, FreeIdle
<1>5. CASE ExchangeTakes
  <2>1. UNCHANGED vars /\ UNCHANGED book /\ connected' = connected
    BY <1>5 DEF ExchangeTakes
  <2>2. connected' => PricedBy(InFlight', InFlight, Opened)
    BY <1>5, QueuesTakes
  <2>3. Opened' = Opened /\ bid' = bid /\ ask' = ask
    BY <1>v, <2>1 DEF Opened, OpenIds, OrderOf, book
  <2>4. ASSUME ask = 0, connected PROVE \A i \in 1 .. Len(InFlight') : InFlight'[i].fill_price = 0
    <3>1. /\ \A id \in DOMAIN Opened : Opened[id].price = 0
          /\ \A i \in 1 .. Len(InFlight) : InFlight[i].fill_price = 0
      BY <2>4 DEF FreeInv
    <3> QED
      BY <2>1, <2>2, <2>4, <3>1 DEF PricedBy
  <2> QED
    BY <1>v, <2>1, <2>3, <2>4 DEF FreeInv
<1>6. CASE SendExit
  <2>1. ShouldExit /\ bid' = bid /\ ask' = ask
    BY <1>6 DEF SendExit, ToDrain, book
  <2>2. ask # 0
    BY <2>1, FreeSignals
  <2> QED
    BY <2>1, <2>2 DEF FreeInv
<1>7. CASE SendEntry
  BY <1>7, FreeEntry
<1>8. CASE DrainOne
  BY <1>8, FreeDrain
<1> QED
  BY <1>1, <1>2, <1>3, <1>4, <1>5, <1>6, <1>7, <1>8 DEF PNext, Loop, Exchange

\* A reference that comes before the first quote makes the loop buy at price 0, past the
\* deviation check of the OMS; until a quote arrives these trades cost nothing, and the
\* position only grows.
THEOREM UnquotedTradesCostNothing ==
    ASSUME PositivePrices
    PROVE  PSpec => []UnquotedTradesAreFree
<1>1. PInit => PInv /\ FreeInv
  <2>1. SUFFICES ASSUME PInit PROVE PInv /\ FreeInv
    OBVIOUS
  <2>2. bid = 0 /\ trading_cash = 0 /\ position = 0 /\ answers = << >> /\ from_exchange = << >>
    BY <2>1 DEF PInit, Init
  <2>3. Init
    BY <2>1 DEF PInit
  <2>4. OpenIds = {}
    BY <2>3 DEF Init, OpenIds
  <2>5. DOMAIN Opened = {}
    BY <2>4, OpenedAre DEF OpenedNamed
  <2>6. InFlight = << >>
    BY <2>2 DEF InFlight
  <2>7. 1 .. Len(InFlight) = {}
    BY <2>6
  <2> QED
    BY <2>1, <2>2, <2>5, <2>7, PInvInit DEF FreeInv
<1>2. (PInv /\ FreeInv) /\ [PNext]_pvars => (PInv /\ FreeInv)'
  BY PInvNext, FreeNext
<1>3. PInv /\ FreeInv => UnquotedTradesAreFree
  <2>1. DOMAIN Opened = OpenIds /\ \A i \in OpenIds : Opened[i] = OrderOf(i)
    BY OpenedAre DEF OpenedNamed
  <2> QED
    BY <2>1 DEF FreeInv, UnquotedTradesAreFree
<1> QED
  BY <1>1, <1>2, <1>3, PTL DEF PSpec

=============================================================================
