------------------------------ MODULE OrderMap ------------------------------
(***************************************************************************)
(* The open-addressing hash map of the OMS: order_map_ with map_find,      *)
(* map_insert and map_remove (src/oms.cpp, include/nts/oms.h): linear      *)
(* probing, and deletion by re-inserting the run of entries that follows   *)
(* the removed one.                                                        *)
(*                                                                         *)
(* map_hash is a fixed multiplicative hash of the id.  The model does not  *)
(* compute it: the hash is any function from ids to positions, chosen in   *)
(* Init, so that every pattern of collisions and wrap-arounds is explored. *)
(***************************************************************************)
EXTENDS Naturals, FiniteSets

CONSTANTS
    ORDER_MAP_SIZE,
    Ids,            \* order ids; 0 marks a cleared entry and is not one
    Slots,
    MaxEntries      \* max_live_orders: how many orders can be open at once

ASSUME MapAssumption ==
    /\ ORDER_MAP_SIZE \in Nat
    /\ MaxEntries \in Nat
    /\ MaxEntries < ORDER_MAP_SIZE
    /\ 0 \notin Ids
    /\ 0 \in Slots

VARIABLES
    map_hash,       \* id -> home position
    order_map       \* position -> MapEntry

mvars == <<map_hash, order_map>>

Pos == 0 .. ORDER_MAP_SIZE - 1

Init ==
    /\ map_hash \in [Ids -> Pos]
    /\ order_map = [p \in Pos |-> [id |-> 0, slot |-> 0, occupied |-> FALSE]]

-----------------------------------------------------------------------------
\* The i-th position that a probe for id looks at.
Probe(id, i) == (map_hash[id] + i) % ORDER_MAP_SIZE

\* The step at which a probe for id meets one of the positions S, or ORDER_MAP_SIZE.
FirstStep(id, S) ==
    IF \E i \in Pos : Probe(id, i) \in S
    THEN CHOOSE i \in Pos : /\ Probe(id, i) \in S
                            /\ \A j \in 0 .. i - 1 : Probe(id, j) \notin S
    ELSE ORDER_MAP_SIZE

\* map_find: the position of id in table m, ORDER_MAP_SIZE if it is not there.
map_find(m, id) ==
    LET i == FirstStep(id, {p \in Pos : ~ m[p].occupied \/ m[p].id = id})
    IN  IF i < ORDER_MAP_SIZE /\ m[Probe(id, i)].occupied THEN Probe(id, i)
        ELSE ORDER_MAP_SIZE

\* map_insert: the first free position takes the entry; a full table loses it.
map_insert(m, id, slot) ==
    LET i == FirstStep(id, {p \in Pos : ~ m[p].occupied})
    IN  IF i < ORDER_MAP_SIZE
        THEN [m EXCEPT ![Probe(id, i)] = [id |-> id, slot |-> slot, occupied |-> TRUE]]
        ELSE m

\* Clearing an entry leaves its slot number behind.
Cleared(m, p) == [m EXCEPT ![p].occupied = FALSE, ![p].id = 0]

\* One pass of the loop of map_remove: take the entry out, insert it again.
Reinsert(m, p) == map_insert(Cleared(m, p), m[p].id, m[p].slot)

\* Mutant: only the entry next to the hole is moved.
MutRehashOne(m, pos) ==
    LET next == (pos + 1) % ORDER_MAP_SIZE
    IN  [table |-> IF m[next].occupied THEN Reinsert(m, next) ELSE m, ended |-> TRUE]

\* What the n-th pass makes of the state of the loop: the table, and whether the
\* loop has met a free position and ended.
RehashPass(before, pos, n) ==
    LET next == (pos + n) % ORDER_MAP_SIZE
    IN  IF before.ended \/ ~ before.table[next].occupied
        THEN [before EXCEPT !.ended = TRUE]
        ELSE [before EXCEPT !.table = Reinsert(before.table, next)]

\* The loop of map_remove from the hole at position pos: no more than one round.
RehashLoop(m, pos) ==
    LET loop[n \in 0 .. ORDER_MAP_SIZE] ==
            IF n = 0 THEN [table |-> m, ended |-> FALSE]
            ELSE RehashPass(loop[n - 1], pos, n)
    IN  loop[ORDER_MAP_SIZE]

\* Mutant: no rehashing.
MutRemovePlain(m, id) ==
    IF map_find(m, id) = ORDER_MAP_SIZE THEN m ELSE Cleared(m, map_find(m, id))

map_remove(m, id) ==
    LET pos == map_find(m, id)
    IN  IF pos = ORDER_MAP_SIZE THEN m ELSE RehashLoop(Cleared(m, pos), pos).table

-----------------------------------------------------------------------------
Occupied == {p \in Pos : order_map[p].occupied}
StoredIds == {order_map[p].id : p \in Occupied}

\* send_new inserts an id that was never used, while fewer than the limit are open.
Insert(id, slot) ==
    /\ Cardinality(Occupied) < MaxEntries
    /\ id \notin StoredIds
    /\ order_map' = map_insert(order_map, id, slot)
    /\ UNCHANGED map_hash

\* free_slot removes the id it is given.
Remove(id) ==
    /\ order_map' = map_remove(order_map, id)
    /\ UNCHANGED map_hash

Next == \E id \in Ids : Remove(id) \/ \E slot \in Slots : Insert(id, slot)

Spec == Init /\ [][Next]_mvars

-----------------------------------------------------------------------------
(* Properties *)

\* No entry is cut off from its home position: every position that a probe for it
\* passes is occupied.  The deletion loop of map_remove must restore this after
\* each removal, across the wrap-around too.
NoGapBeforeEntry ==
    \A p \in Occupied :
        LET id == order_map[p].id
            i  == CHOOSE i \in Pos : Probe(id, i) = p
        IN  \A j \in 0 .. i - 1 : order_map[Probe(id, j)].occupied

StoredOnce == \A p, q \in Occupied : order_map[p].id = order_map[q].id => p = q

\* "while (order_map_[next].occupied)" ends for every id that can be removed.
DeletionEnds ==
    \A id \in StoredIds :
        LET pos == map_find(order_map, id)
        IN  pos # ORDER_MAP_SIZE /\ RehashLoop(Cleared(order_map, pos), pos).ended

\* The table is sound: no entry lies behind a gap, no re-insertion leaves a second
\* copy behind, and no removal would run round the table for ever.
TableSound == NoGapBeforeEntry /\ StoredOnce /\ DeletionEnds

\* What lookups through map_find see.
Lookup ==
    [id \in {i \in Ids : map_find(order_map, i) # ORDER_MAP_SIZE} |->
        order_map[map_find(order_map, id)].slot]

Index == INSTANCE OrderIndex WITH index <- Lookup

\* Seen through map_find, the table is the partial function that module OMS uses:
\* an insertion adds its id, a removal takes out that id, no other lookup changes.
ImplementsIndex == Index!Spec
=============================================================================
