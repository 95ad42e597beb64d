---------------------------- MODULE MatchingBook ----------------------------
(***************************************************************************)
(* The matching order book nts::matching::OrderBook                        *)
(* (src/matching/orderbook.cpp): price levels with a queue each, and an    *)
(* index from resting ids to their place.                                  *)
(*                                                                         *)
(* Abstractions.  A sorted map of levels is a partial function from prices *)
(* to non-empty queues; begin() and rbegin() are its smallest and largest  *)
(* price.  The iterator of a location is found again by its id.            *)
(***************************************************************************)
EXTENDS Naturals, Sequences, FiniteSets, SequencesExt

CONSTANTS
    Ids,        \* order ids; the callers never reuse one that is resting
    Price, Qty

ASSUME BookAssumption == Price \subseteq Nat /\ Qty \subseteq Nat

VARIABLES
    levels,     \* "Buy" |-> bids_, "Sell" |-> asks_: price -> queue of [id, qty]
    locations,  \* resting id -> [side, price]
    fills       \* what the last add_order appended to its caller's buffer

bvars == <<levels, locations, fills>>

Side == {"Buy", "Sell"}
Opposite(side) == IF side = "Buy" THEN "Sell" ELSE "Buy"
Order == [id : Ids, side : Side, price : Price, qty : Qty, type : {"Limit", "Market"}]

Nothing == [x \in {} |-> x]

Init ==
    /\ levels = [side \in Side |-> Nothing]
    /\ locations = Nothing
    /\ fills = << >>

-----------------------------------------------------------------------------
\* f without x in its domain.
Without(f, x) == Restrict(f, DOMAIN f \ {x})

\* Level p of book b becomes queue q; an empty level is erased.
SetLevel(b, p, q) ==
    IF q = << >> THEN Without(b, p)
    ELSE [x \in DOMAIN b \cup {p} |-> IF x = p THEN q ELSE b[x]]

\* best_bid and best_ask.
Best(side, b) == IF side = "Buy" THEN Max(DOMAIN b) ELSE Min(DOMAIN b)

\* match_buy and match_sell stop at a level that the limit excludes.
Excluded(o, p) ==
    o.type = "Limit" /\ IF o.side = "Buy" THEN p > o.price ELSE p < o.price

MutIndexKept(index, id, left) == index         \* mutant: the index keeps a filled order

\* A filled order leaves the index.
IndexAfter(index, id, left) == IF left = 0 THEN Without(index, id) ELSE index

\* One pass of the loop of fill_at_level.  m is the state of the matching: the
\* book of the other side, the index, what is left of o, and the fills so far.
FillFront(m, o, p) ==
    LET queue == m.book[p]
        front == Head(queue)
        n     == Min({m.remaining, front.qty})
        left  == front.qty - n
    IN  [book      |-> SetLevel(m.book, p,
                           IF left = 0 THEN Tail(queue)
                           ELSE <<[front EXCEPT !.qty = left]>> \o Tail(queue)),
         locations |-> IndexAfter(m.locations, front.id, left),
         remaining |-> m.remaining - n,
         fills     |-> Append(m.fills, [maker |-> front.id, taker |-> o.id, price |-> p,
                                        qty |-> n, side |-> o.side])]

\* Where the matching of o starts, and what a pass makes of it: nothing, when nothing
\* is left to trade, the other side is empty or its best level is excluded.
MatchStart(o) ==
    [book |-> levels[Opposite(o.side)], locations |-> locations, remaining |-> o.qty,
     fills |-> << >>]

MatchPass(m, o) ==
    LET p == Best(Opposite(o.side), m.book)
    IN  IF m.remaining = 0 \/ DOMAIN m.book = {} \/ Excluded(o, p) THEN m ELSE FillFront(m, o, p)

\* match_buy and match_sell: pass after pass.  Every pass but the last takes an order
\* out, so one pass per resting order is enough.
Match(o) ==
    LET pass[n \in 0 .. Cardinality(DOMAIN locations)] ==
            IF n = 0 THEN MatchStart(o) ELSE MatchPass(pass[n - 1], o)
    IN  pass[Cardinality(DOMAIN locations)]

MutPushFront(queue, r) == <<r>> \o queue       \* mutant: the newest order comes first
PushBack(queue, r) == Append(queue, r)

\* add_order: match, then place what is left of a limit order.  The first conjunct is an
\* assumption on the callers, who reuse no resting id; add_order does not test it.
AddOrder(o) ==
    LET m      == Match(o)
        places == m.remaining > 0 /\ o.type = "Limit"
        own    == levels[o.side]
        queue  == IF o.price \in DOMAIN own THEN own[o.price] ELSE << >>
    IN  /\ o.id \notin DOMAIN locations
        /\ fills' = m.fills
        /\ IF places
           THEN /\ levels' = [levels EXCEPT
                      ![Opposite(o.side)] = m.book,
                      ![o.side] = SetLevel(@, o.price,
                                      PushBack(queue, [id |-> o.id, qty |-> m.remaining]))]
                /\ locations' = [id \in DOMAIN m.locations \cup {o.id} |->
                      IF id = o.id THEN [side |-> o.side, price |-> o.price] ELSE m.locations[id]]
           ELSE /\ levels' = [levels EXCEPT ![Opposite(o.side)] = m.book]
                /\ locations' = m.locations

\* The iterator that a location keeps: where its order stands in the queue.
PlaceOf(queue, id) == CHOOSE k \in DOMAIN queue : queue[k].id = id

\* cancel of a resting order; of any other id it returns false and does nothing.
Cancel(id) ==
    /\ id \in DOMAIN locations
    /\ LET at == locations[id]
           queue == levels[at.side][at.price]
       IN  levels' = [levels EXCEPT ![at.side] =
                        SetLevel(@, at.price, RemoveAt(queue, PlaceOf(queue, id)))]
    /\ locations' = Without(locations, id)
    /\ UNCHANGED fills

\* Getters: best_bid and best_ask, spread, depth_at.  An optional value is a
\* sequence of at most one.
best_of(side) == IF DOMAIN levels[side] = {} THEN << >> ELSE <<Best(side, levels[side])>>

spread_of ==
    LET ba == best_of("Sell")
        bb == best_of("Buy")
    IN  IF ba # << >> /\ bb # << >> /\ ba[1] >= bb[1] THEN <<ba[1] - bb[1]>> ELSE << >>

\* The quantity in a queue.
Total(queue) == FoldLeft(LAMBDA a, r : a + r.qty, 0, queue)

depth_of(side, price) ==
    IF price \notin DOMAIN levels[side] THEN 0 ELSE Total(levels[side][price])

Next == (\E o \in Order : AddOrder(o)) \/ (\E id \in Ids : Cancel(id))

Spec == Init /\ [][Next]_bvars

-----------------------------------------------------------------------------
(* Properties *)

\* No order of one side could trade with one of the other: matching never stops
\* early and never places an order across the book.
Uncrossed ==
    \A bid \in DOMAIN levels["Buy"], ask \in DOMAIN levels["Sell"] : bid < ask

\* The resting entries of a side, as <<price, index in the queue>>.
Entries(side) ==
    UNION {{<<p, k>> : k \in DOMAIN levels[side][p]} : p \in DOMAIN levels[side]}

\* locations_ and the queues hold the same orders, each once, with something left
\* to trade, and no level is empty: cancel never follows a stale iterator, and
\* best_bid and best_ask never name a level without an order.
IndexExact ==
    /\ \A side \in Side : \A p \in DOMAIN levels[side] : levels[side][p] # << >>
    /\ \A side \in Side : \A e \in Entries(side) :
            LET r == levels[side][e[1]][e[2]]
            IN  /\ r.qty > 0
                /\ r.id \in DOMAIN locations
                /\ locations[r.id] = [side |-> side, price |-> e[1]]
    /\ Cardinality(DOMAIN locations) = Cardinality(Entries("Buy")) + Cardinality(Entries("Sell"))

\* The book is sound: uncrossed, with an index that is exact.
BookSound == Uncrossed /\ IndexExact

\* The queue that holds the resting order id, and its place there.
QueueOf(id) == levels[locations[id].side][locations[id].price]

At(id) == PlaceOf(QueueOf(id), id)

Resting ==
    [id \in DOMAIN locations |->
        [side |-> locations[id].side, price |-> locations[id].price, qty |-> QueueOf(id)[At(id)].qty]]

Earlier ==
    {e \in (DOMAIN locations) \X (DOMAIN locations) :
        locations[e[1]] = locations[e[2]] /\ At(e[1]) < At(e[2])}

Auction == INSTANCE PriceTimeAuction WITH resting <- Resting, earlier <- Earlier, traded <- fills

\* The levels, queues and index trade exactly as price-time priority demands: whatever
\* was cancelled or partly filled before, a resting order trades at its own price and
\* only when those before it, by price and then by arrival, are exhausted, and an
\* incoming order takes all it can before it rests or is dropped.
ImplementsAuction == Auction!Spec
=============================================================================
