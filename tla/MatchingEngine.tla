--------------------------- MODULE MatchingEngine ---------------------------
(***************************************************************************)
(* The repository's second matching book (src/matching_engine.cpp, the one *)
(* tests/test_matching_engine.cpp exercises), given the same calls as      *)
(* MatchingBook's.  Its two maps are sorted so that begin() is the best    *)
(* level of either side, which makes a side a sequence of levels, the best *)
(* first; a match is two nested loops, over the levels and over a queue.   *)
(***************************************************************************)
EXTENDS MatchingBook

VARIABLES
    sides,      \* "Buy" |-> bids_, "Sell" |-> asks_: levels [price, queue], best first
    index,      \* locations_: resting id -> [side, price]
    trades      \* what the last add_order appended to its caller's buffer

evars == <<bvars, sides, index, trades>>

EngineInit ==
    /\ Init
    /\ sides = [side \in Side |-> << >>] /\ index = Nothing /\ trades = << >>

-----------------------------------------------------------------------------
\* One pass of the inner loop: the front maker trades, and leaves when nothing is left.
ServeMaker(m, o, price) ==
    LET maker == Head(m.queue)
        n     == Min({m.remaining, maker.qty})
    IN  IF m.remaining = 0 \/ m.queue = << >> THEN m
        ELSE [queue     |-> IF n = maker.qty THEN Tail(m.queue)
                            ELSE <<[maker EXCEPT !.qty = @ - n]>> \o Tail(m.queue),
              index     |-> IF n = maker.qty THEN Without(m.index, maker.id) ELSE m.index,
              remaining |-> m.remaining - n,
              trades    |-> Append(m.trades, [maker |-> maker.id, taker |-> o.id, price |-> price,
                                              qty |-> n, side |-> o.side])]

\* The inner loop: every pass but the last removes a maker.
QueueStart(t, level) ==
    [queue |-> level.queue, index |-> t.index, remaining |-> t.remaining, trades |-> t.trades]

ServeQueue(t, o, level) ==
    LET pass[n \in 0 .. Len(level.queue)] ==
            IF n = 0 THEN QueueStart(t, level) ELSE ServeMaker(pass[n - 1], o, level.price)
    IN  pass[Len(level.queue)]

\* Level k gets another queue; an empty level is erased.
Requeued(ls, k, queue) ==
    IF queue = << >> THEN RemoveAt(ls, k)
    ELSE [ls EXCEPT ![k] = [price |-> ls[k].price, queue |-> queue]]

\* One pass of the outer loop, on the best level.
ServeLevel(t, o) ==
    LET level == Head(t.levels)
        m     == ServeQueue(t, o, level)
    IN  IF t.remaining = 0 \/ t.levels = << >> \/ Excluded(o, level.price) THEN t
        ELSE [levels |-> Requeued(t.levels, 1, m.queue), index |-> m.index,
              remaining |-> m.remaining, trades |-> m.trades]

\* match_buy and match_sell.
EngineStart(o) ==
    [levels |-> sides[Opposite(o.side)], index |-> index, remaining |-> o.qty, trades |-> << >>]

ServeAll(o) ==
    LET pass[n \in 0 .. Len(sides[Opposite(o.side)])] ==
            IF n = 0 THEN EngineStart(o) ELSE ServeLevel(pass[n - 1], o)
    IN  pass[Len(sides[Opposite(o.side)])]

MutBetter(side, p, q) == p < q          \* mutant: the bids are sorted like the asks
Better(side, p, q) == IF side = "Buy" THEN p > q ELSE p < q

\* Where the level of a price stands in the sorted map, or would stand.
SlotOf(side, ls, price) ==
    CHOOSE k \in 1 .. Len(ls) + 1 :
        /\ \A j \in 1 .. k - 1 : Better(side, ls[j].price, price)
        /\ k <= Len(ls) => ~Better(side, ls[k].price, price)

\* place: at the end of the queue of its price, in a new level if there is none.
Place(side, ls, price, r) ==
    LET k == SlotOf(side, ls, price)
    IN  IF k <= Len(ls) /\ ls[k].price = price THEN Requeued(ls, k, Append(ls[k].queue, r))
        ELSE InsertAt(ls, k, [price |-> price, queue |-> <<r>>])

add_order(o) ==
    LET t == ServeAll(o)
        places == t.remaining > 0 /\ o.type = "Limit"
    IN  /\ trades' = t.trades
        /\ sides' = [sides EXCEPT
              ![Opposite(o.side)] = t.levels,
              ![o.side] = IF places THEN Place(o.side, @, o.price, [id |-> o.id, qty |-> t.remaining])
                          ELSE @]
        /\ index' = IF places
                    THEN [id \in DOMAIN t.index \cup {o.id} |->
                             IF id = o.id THEN [side |-> o.side, price |-> o.price] ELSE t.index[id]]
                    ELSE t.index

\* find in a map: the level of a price.
LevelOf(ls, price) == CHOOSE k \in DOMAIN ls : ls[k].price = price

cancel(id) ==
    /\ id \in DOMAIN index
    /\ LET at    == index[id]
           ls    == sides[at.side]
           k     == LevelOf(ls, at.price)
           queue == ls[k].queue
       IN  sides' = [sides EXCEPT ![at.side] = Requeued(ls, k, RemoveAt(queue, PlaceOf(queue, id)))]
    /\ index' = Without(index, id)
    /\ UNCHANGED trades

\* Getters: an optional value is a sequence of at most one.
best(side) == IF sides[side] = << >> THEN << >> ELSE <<sides[side][1].price>>

spread ==
    IF best("Buy") = << >> \/ best("Sell") = << >> \/ best("Sell")[1] < best("Buy")[1] THEN << >>
    ELSE <<best("Sell")[1] - best("Buy")[1]>>

depth_at(side, price) ==
    LET ls == sides[side]
    IN  IF \A k \in DOMAIN ls : ls[k].price # price THEN 0
        ELSE Total(ls[LevelOf(ls, price)].queue)

\* Both books get the same calls.
EngineNext ==
    \/ \E o \in Order : AddOrder(o) /\ add_order(o)
    \/ \E id \in Ids : Cancel(id) /\ cancel(id)

EngineSpec == EngineInit /\ [][EngineNext]_evars

-----------------------------------------------------------------------------
\* The two matching books agree after every sequence of calls that reuses no resting id:
\* the same trades in the same order, the same resting orders in the same queues, the
\* same index, and the same answers from best_bid, best_ask, spread and depth_at.
SameBook ==
    /\ trades = fills /\ index = locations
    /\ \A side \in Side :
        /\ {l.price : l \in ToSet(sides[side])} = DOMAIN levels[side]
        /\ \A l \in ToSet(sides[side]) : l.queue = levels[side][l.price]
        /\ best(side) = best_of(side)
        /\ \A p \in Price : depth_at(side, p) = depth_of(side, p)
    /\ spread = spread_of
=============================================================================
