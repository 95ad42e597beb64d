-------------------------- MODULE PriceTimeAuction --------------------------
(***************************************************************************)
(* What a price-time priority book promises, without levels, queues or an  *)
(* index: a set of resting orders, the order of arrival among those of one *)
(* price, and for an incoming order what each of them may trade.           *)
(***************************************************************************)
EXTENDS Naturals, Sequences, SequencesExt

CONSTANTS Ids, Price, Qty

VARIABLES
    resting,    \* id -> [side, price, qty]
    earlier,    \* <<i, j>> of one side and price: i arrived before j
    traded      \* what the last submission traded, in the order of execution

avars == <<resting, earlier, traded>>

Incoming == [id : Ids, side : {"Buy", "Sell"}, price : Price, qty : Qty,
             type : {"Limit", "Market"}]

Init == resting = [i \in {} |-> i] /\ earlier = {} /\ traded = << >>

-----------------------------------------------------------------------------
\* Order o accepts to trade with resting order m.
Accepts(o, m) ==
    /\ m.side # o.side
    /\ o.type = "Limit" => IF o.side = "Buy" THEN m.price <= o.price ELSE m.price >= o.price

Makers(o) == {i \in DOMAIN resting : Accepts(o, resting[i])}

\* Resting order i is served before j.
Before(o, i, j) ==
    LET p == resting[i].price
        q == resting[j].price
    IN  \/ p = q /\ <<i, j>> \in earlier
        \/ IF o.side = "Buy" THEN p < q ELSE p > q

\* What the resting orders trade with o when each is served in its turn: nobody trades
\* while somebody before it has something left, and o trades as much as there is.
Fair(o, share) ==
    /\ \A i \in DOMAIN resting : share[i] <= resting[i].qty
    /\ \A i \in DOMAIN resting : share[i] > 0 => i \in Makers(o)
    /\ \A i, j \in Makers(o) : Before(o, i, j) /\ share[j] > 0 => share[i] = resting[i].qty
    /\ SumFunction(share) <= o.qty
    /\ SumFunction(share) < o.qty => \A i \in Makers(o) : share[i] = resting[i].qty

Trade(o, share, i) ==
    [maker |-> i, taker |-> o.id, price |-> resting[i].price, qty |-> share[i], side |-> o.side]

\* One trade for each order that trades, in order of priority.
Executed(o, share) ==
    /\ ToSet(traded') = {Trade(o, share, i) : i \in {j \in DOMAIN resting : share[j] > 0}}
    /\ \A k, l \in DOMAIN traded' : k < l => Before(o, traded'[k].maker, traded'[l].maker)

\* What is left of an order rests, the incoming one's only if it has a limit.
Rests(o, share) ==
    LET left == o.qty - SumFunction(share)
        kept == {i \in DOMAIN resting : share[i] < resting[i].qty}
        new  == IF left > 0 /\ o.type = "Limit" THEN {o.id} ELSE {}
        peers == {i \in kept : resting[i].side = o.side /\ resting[i].price = o.price}
    IN  /\ resting' = [i \in kept \cup new |->
                          IF i = o.id THEN [side |-> o.side, price |-> o.price, qty |-> left]
                          ELSE [resting[i] EXCEPT !.qty = @ - share[i]]]
        /\ earlier' = {e \in earlier : e[1] \in kept /\ e[2] \in kept} \cup (peers \X new)

Submit(o) ==
    /\ o.id \notin DOMAIN resting
    /\ \E share \in [DOMAIN resting -> 0 .. o.qty] :
          Fair(o, share) /\ Executed(o, share) /\ Rests(o, share)

Cancel(id) ==
    /\ resting' = Restrict(resting, DOMAIN resting \ {id})
    /\ earlier' = {e \in earlier : e[1] # id /\ e[2] # id}
    /\ UNCHANGED traded

Next == (\E o \in Incoming : Submit(o)) \/ (\E id \in Ids : Cancel(id))

Spec == Init /\ [][Next]_avars
=============================================================================
