----------------------------- MODULE OrderIndex -----------------------------
(***************************************************************************)
(* What the OMS needs from its hash map: a partial function from the ids   *)
(* of the open orders to their slots.  Module OMS uses exactly this.       *)
(***************************************************************************)
CONSTANTS Ids, Slots

VARIABLE index

Init == index = [id \in {} |-> CHOOSE s \in Slots : TRUE]

Insert(id, slot) ==
    /\ id \notin DOMAIN index
    /\ index' = [i \in DOMAIN index \cup {id} |-> IF i = id THEN slot ELSE index[i]]

Remove(id) ==
    /\ id \in DOMAIN index
    /\ index' = [i \in DOMAIN index \ {id} |-> index[i]]

Next == \E id \in Ids : Remove(id) \/ \E slot \in Slots : Insert(id, slot)

Spec == Init /\ [][Next]_index
=============================================================================
