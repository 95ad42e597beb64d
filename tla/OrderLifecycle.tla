--------------------------- MODULE OrderLifecycle ---------------------------
(***************************************************************************)
(* What the OMS promises about one order, whatever the exchange reports    *)
(* and however slots are reused: ids are handed out in sequence, an order  *)
(* moves forward through Sent, Live and PartiallyFilled, it ends once, and *)
(* nothing that arrives later about its id has any effect.                 *)
(***************************************************************************)
EXTENDS Naturals

CONSTANT MaxId      \* bound: the last id handed out

VARIABLE st         \* id -> where that order is in its life

Ids == 1 .. MaxId
Open == {"Sent", "Live", "PartiallyFilled"}

Init == st = [id \in Ids |-> "None"]

\* A new order takes the smallest id not yet used.
Send(id) ==
    /\ st[id] = "None"
    /\ \A i \in 1 .. id - 1 : st[i] # "None"
    /\ st' = [st EXCEPT ![id] = "Sent"]

Accept(id) ==
    /\ st[id] = "Sent"
    /\ st' = [st EXCEPT ![id] = "Live"]

FillSome(id) ==
    /\ st[id] \in Open
    /\ st' = [st EXCEPT ![id] = "PartiallyFilled"]

End(id) ==
    /\ st[id] \in Open
    /\ st' = [st EXCEPT ![id] = "Closed"]

Next == \E id \in Ids : Send(id) \/ Accept(id) \/ FillSome(id) \/ End(id)

Spec == Init /\ [][Next]_st
=============================================================================
