--------------------------- MODULE TracingProofs ---------------------------
(***************************************************************************)
(* Machine-checked proofs about module Tracing: which order a report is    *)
(* timed against, for every size of the tick rings, what the trace ring    *)
(* holds, for every capacity, and that the latency report says of the      *)
(* traces kept what really happened.                                       *)
(***************************************************************************)
EXTENDS Tracing, Integers, DataTheorems, SequenceTheorems, FiniteSetTheorems, TLAPS

-----------------------------------------------------------------------------
(* Tick rings *)

Places == 0 .. RING_CAPACITY - 1
TickEntry == [id : Nat, ticks : Nat, occupied : BOOLEAN]
TickRing == [entries : [Places -> TickEntry], collisions : Nat]

\* An order has a place in the ring.
LEMMA PlaceOf ==
    ASSUME NEW id \in Nat
    PROVE  id % RING_CAPACITY \in Places
<1>1. RING_CAPACITY \in Int /\ RING_CAPACITY > 0
  BY TracingAssumption DEF TracingAssumption
<1> QED
  BY <1>1 DEF Places

\* The entry at an order's place.
LEMMA EntryType ==
    ASSUME NEW ring \in TickRing, NEW id \in Nat
    PROVE  Entry(ring, id) \in TickEntry
BY PlaceOf DEF Entry, TickRing

\* A new tick ring holds no order.
LEMMA EmptyRingType == EmptyRing \in TickRing /\ \A id \in Nat : ~Has(EmptyRing, id)
<1>1. [id |-> 0, ticks |-> 0, occupied |-> FALSE] \in TickEntry
  BY DEF TickEntry
<1>2. EmptyRing \in TickRing
  BY <1>1 DEF EmptyRing, TickRing, Places
<1>3. ASSUME NEW id \in Nat PROVE ~Has(EmptyRing, id)
  <2>1. Entry(EmptyRing, id) = [id |-> 0, ticks |-> 0, occupied |-> FALSE]
    BY PlaceOf DEF Entry, EmptyRing, Places
  <2> QED
    BY <2>1 DEF Has
<1> QED
  BY <1>2, <1>3

\* What set makes of a ring: the order has a place, at the cost of at most one other,
\* and then a collision is counted.
SetTo(ring, id, t, after) ==
    /\ after \in TickRing
    /\ Has(after, id) /\ Entry(after, id).ticks = t
    /\ \A j \in Nat : j # id /\ Has(after, j) => Has(ring, j) /\ Entry(after, j) = Entry(ring, j)
    /\ \A j \in Nat : Has(ring, j) /\ ~Has(after, j) =>
            j = Entry(ring, id).id /\ after.collisions = ring.collisions + 1
    /\ after.collisions \in Nat /\ ring.collisions <= after.collisions

\* OrderTickRing::set displaces at most the order at its own place, and counts it.
LEMMA SetRing ==
    ASSUME NEW ring \in TickRing, NEW id \in Nat, NEW t \in Nat
    PROVE  SetTo(ring, id, t, Set(ring, id, t))
<1> DEFINE new == [id |-> id, ticks |-> t, occupied |-> TRUE]
           after == Set(ring, id, t)
           place == id % RING_CAPACITY
<1>1. ring.entries \in [Places -> TickEntry] /\ ring.collisions \in Nat /\ place \in Places
  BY PlaceOf DEF TickRing
<1>2. new \in TickEntry
  BY DEF TickEntry
<1>3. /\ after.entries = [ring.entries EXCEPT ![place] = new]
      /\ after.collisions = IF Entry(ring, id).occupied /\ Entry(ring, id).id # id
                            THEN ring.collisions + 1 ELSE ring.collisions
      /\ after = [entries |-> after.entries, collisions |-> after.collisions]
  BY DEF Set
<1>4. after.entries \in [Places -> TickEntry] /\ after.entries[place] = new
      /\ \A p \in Places : p # place => after.entries[p] = ring.entries[p]
  <2> HIDE DEF new, place
  <2> QED
    BY <1>1, <1>2, <1>3
<1>5. after.collisions \in Nat /\ ring.collisions <= after.collisions
  BY <1>1, <1>3
<1>6. after \in TickRing
  <2> HIDE DEF after
  <2> QED
    BY <1>3, <1>4, <1>5 DEF TickRing
<1> HIDE DEF after
<1>7. Entry(after, id) = new
  BY <1>4 DEF Entry
<1>8. Has(after, id) /\ Entry(after, id).ticks = t
  BY <1>7 DEF Has
<1>9. ASSUME NEW j \in Nat
      PROVE  IF j % RING_CAPACITY = place
             THEN Entry(after, j) = new /\ Entry(ring, j) = Entry(ring, id)
             ELSE Entry(after, j) = Entry(ring, j)
  <2> HIDE DEF new
  <2>1. j % RING_CAPACITY \in Places
    BY PlaceOf
  <2> QED
    BY <1>4, <2>1 DEF Entry
<1>10. ASSUME NEW j \in Nat, j # id, Has(after, j)
       PROVE  Has(ring, j) /\ Entry(after, j) = Entry(ring, j)
  <2>1. Entry(after, j) # new
    BY <1>10 DEF Has
  <2> HIDE DEF new
  <2>2. Entry(after, j) = Entry(ring, j)
    BY <1>9, <2>1
  <2> QED
    BY <1>10, <2>2 DEF Has
<1>11. ASSUME NEW j \in Nat, Has(ring, j), ~Has(after, j)
       PROVE  j = Entry(ring, id).id /\ after.collisions = ring.collisions + 1
  <2>1. Entry(after, j) # Entry(ring, j)
    BY <1>11 DEF Has
  <2>2. Entry(ring, j) = Entry(ring, id)
    <3> HIDE DEF new
    <3> QED
      BY <1>9, <2>1
  <2>3. Entry(ring, id).occupied /\ Entry(ring, id).id = j
    BY <1>11, <2>2 DEF Has
  <2>4. j # id
    BY <1>8, <1>11
  <2> QED
    BY <1>3, <2>3, <2>4
<1> QED
  <2>1. SetTo(ring, id, t, after)
    BY <1>5, <1>6, <1>8, <1>10, <1>11 DEF SetTo
  <2> QED
    BY <2>1 DEF after

\* What erase makes of a ring: the order is gone, and no other.
ErasedFrom(ring, id, after) ==
    /\ after \in TickRing /\ after.collisions = ring.collisions
    /\ ~Has(after, id)
    /\ \A j \in Nat : j # id => (Has(after, j) <=> Has(ring, j))
    /\ \A j \in Nat : Has(after, j) => Entry(after, j) = Entry(ring, j)

\* OrderTickRing::erase removes its own order and no other.
LEMMA EraseRing ==
    ASSUME NEW ring \in TickRing, NEW id \in Nat
    PROVE  ErasedFrom(ring, id, Erase(ring, id))
<1> DEFINE after == Erase(ring, id)
           place == id % RING_CAPACITY
           gone == [Entry(ring, id) EXCEPT !.occupied = FALSE]
<1>1. ring.entries \in [Places -> TickEntry] /\ ring.collisions \in Nat /\ place \in Places
  BY PlaceOf DEF TickRing
<1>2. Entry(ring, id) \in TickEntry
  BY EntryType
<1>3. gone \in TickEntry /\ gone.occupied = FALSE
  <2> DEFINE e == Entry(ring, id)
  <2>1. e \in TickEntry
    BY <1>2
  <2> HIDE DEF e
  <2>2. [e EXCEPT !.occupied = FALSE] \in TickEntry /\ [e EXCEPT !.occupied = FALSE].occupied = FALSE
    BY <2>1 DEF TickEntry
  <2> QED
    BY <2>2 DEF e
<1>4. CASE Has(ring, id)
  <2>1. after = [ring EXCEPT !.entries = [ring.entries EXCEPT ![place] = gone]]
    BY <1>4 DEF Erase, Entry
  <2> HIDE DEF gone, place
  <2>2. after \in TickRing /\ after.collisions = ring.collisions
        /\ after.entries = [ring.entries EXCEPT ![place] = gone]
    BY <1>1, <1>3, <2>1 DEF TickRing
  <2> HIDE DEF after
  <2>3. after.entries[place] = gone /\ \A p \in Places : p # place => after.entries[p] = ring.entries[p]
    BY <1>1, <2>2
  <2>4. ASSUME NEW j \in Nat
        PROVE  IF j % RING_CAPACITY = place
               THEN Entry(after, j) = gone /\ Entry(ring, j) = Entry(ring, id)
               ELSE Entry(after, j) = Entry(ring, j)
    <3>1. j % RING_CAPACITY \in Places
      BY PlaceOf
    <3> QED
      BY <2>3, <3>1 DEF Entry, place
  <2>5. ~Has(after, id)
    BY <1>3, <2>4 DEF Has, place
  <2>6. ASSUME NEW j \in Nat, Has(after, j)
        PROVE  j # id /\ Has(ring, j) /\ Entry(after, j) = Entry(ring, j)
    <3>1. Entry(after, j) # gone
      BY <1>3, <2>6 DEF Has
    <3>2. Entry(after, j) = Entry(ring, j)
      BY <2>4, <3>1
    <3> QED
      BY <2>5, <2>6, <3>2 DEF Has
  <2>7. ASSUME NEW j \in Nat, j # id, Has(ring, j)
        PROVE  Has(after, j)
    <3>1. Entry(ring, j) # Entry(ring, id)
      BY <1>4, <2>7 DEF Has
    <3>2. Entry(after, j) = Entry(ring, j)
      BY <2>4, <3>1
    <3> QED
      BY <2>7, <3>2 DEF Has
  <2> QED
    <3>1. ErasedFrom(ring, id, after)
      BY <2>2, <2>5, <2>6, <2>7 DEF ErasedFrom
    <3> QED
      BY <3>1 DEF after
<1>5. CASE ~Has(ring, id)
  <2>1. after = ring
    BY <1>5 DEF Erase
  <2> HIDE DEF after
  <2>2. ErasedFrom(ring, id, after)
    BY <1>5, <2>1 DEF ErasedFrom
  <2> QED
    BY <2>2 DEF after
<1> QED
  BY <1>4, <1>5

-----------------------------------------------------------------------------
(* The log *)

LogEntry == [id : Nat, stamps : UNION {[H -> Nat] : H \in SUBSET Hop}]

\* No order has two entries with hop h.
Once(l, h) ==
    \A j, k \in 1 .. Len(l) :
        l[j].id # 0 /\ l[j].id = l[k].id /\ h \in DOMAIN l[j].stamps /\ h \in DOMAIN l[k].stamps
            => j = k

\* An entry about an order: the order was sent and reported on, an ack is timed against
\* its send, what comes behind the ack is timed against the ack, and the order has left
\* the ring of acks by then.
EntryRight(e, n, U, sent, acked, ring) ==
    e.id # 0 =>
        /\ e.id \in 1 .. n - 1 /\ e.id \notin U
        /\ "AckProcessed" \in DOMAIN e.stamps =>
                e.stamps["OrderSent"] = sent[e.id] /\ e.stamps["AckReceived"] = acked[e.id]
        /\ "FillReceived" \in DOMAIN e.stamps =>
                e.stamps["AckReceived"] = acked[e.id] /\ ~Has(ring, e.id)

LogRight(l, n, U, sent, acked, ring) ==
    /\ \A k \in 1 .. Len(l) : EntryRight(l[k], n, U, sent, acked, ring)
    /\ Once(l, "AckProcessed") /\ Once(l, "FillReceived")

\* The elements of a log with one more entry.
LEMMA Appended ==
    ASSUME NEW l \in Seq(LogEntry), NEW e \in LogEntry
    PROVE  /\ Append(l, e) \in Seq(LogEntry)
           /\ Len(Append(l, e)) = Len(l) + 1 /\ Len(l) \in Nat
           /\ Append(l, e)[Len(l) + 1] = e
           /\ \A k \in 1 .. Len(l) : Append(l, e)[k] = l[k]
           /\ \A k \in 1 .. Len(l) + 1 : k \in 1 .. Len(l) \/ k = Len(l) + 1
<1>1. Len(l) \in Nat
  BY LenProperties
<1>2. \A k \in 1 .. Len(l) + 1 : k \in 1 .. Len(l) \/ k = Len(l) + 1
  BY <1>1
<1> QED
  BY <1>1, <1>2, AppendProperties

\* An entry with a hop that no earlier entry about its order has.
LEMMA OnceAppend ==
    ASSUME NEW l \in Seq(LogEntry), NEW e \in LogEntry, NEW h, Once(l, h),
           e.id # 0 /\ h \in DOMAIN e.stamps =>
                \A k \in 1 .. Len(l) : l[k].id = e.id => h \notin DOMAIN l[k].stamps
    PROVE  Once(Append(l, e), h)
<1> DEFINE m == Append(l, e)
<1>1. /\ Len(m) = Len(l) + 1 /\ m[Len(l) + 1] = e
      /\ \A k \in 1 .. Len(l) : m[k] = l[k]
      /\ \A k \in 1 .. Len(l) + 1 : k \in 1 .. Len(l) \/ k = Len(l) + 1
  BY Appended
<1> HIDE DEF m
<1>2. ASSUME NEW j \in 1 .. Len(l) + 1, NEW k \in 1 .. Len(l) + 1,
             m[j].id # 0, m[j].id = m[k].id, h \in DOMAIN m[j].stamps, h \in DOMAIN m[k].stamps
      PROVE  j = k
  <2>1. CASE j \in 1 .. Len(l) /\ k \in 1 .. Len(l)
    BY <1>1, <1>2, <2>1 DEF Once
  <2>2. CASE j = Len(l) + 1 /\ k \in 1 .. Len(l)
    BY <1>1, <1>2, <2>2
  <2>3. CASE k = Len(l) + 1 /\ j \in 1 .. Len(l)
    BY <1>1, <1>2, <2>3
  <2> QED
    BY <1>1, <2>1, <2>2, <2>3, Zenon
<1>3. Once(m, h)
  BY <1>1, <1>2, Zenon DEF Once
<1> QED
  BY <1>3 DEF m

-----------------------------------------------------------------------------
(* The invariant of the pairing *)

PairTypes ==
    /\ clock \in Nat /\ next_id \in Nat /\ next_id >= 1
    /\ unreported \subseteq 1 .. next_id - 1 /\ next_id - 1 <= MaxId
    /\ sent_at \in [1 .. MaxId -> Nat] /\ acked_at \in [1 .. MaxId -> Nat]
    /\ order_sent_ticks \in TickRing /\ ack_received_ticks \in TickRing
    /\ log \in Seq(LogEntry)

\* An order in the ring of sends has not been reported on, and its time is its own.
SentRight(ring, U, sent) ==
    \A id \in Nat : Has(ring, id) => id \in U /\ Entry(ring, id).ticks = sent[id]

\* An order in the ring of acks has been, and its time is that of its own ack.
AckedRight(ring, n, U, acked) ==
    \A id \in Nat : Has(ring, id) =>
        id \in 1 .. n - 1 /\ id \notin U /\ Entry(ring, id).ticks = acked[id]

\* The orders whose time was lost before their first report.
Lost(ring, U) == {id \in U : ~Has(ring, id)}

PairInv ==
    /\ PairTypes
    /\ SentRight(order_sent_ticks, unreported, sent_at)
    /\ AckedRight(ack_received_ticks, next_id, unreported, acked_at)
    /\ LogRight(log, next_id, unreported, sent_at, acked_at, ack_received_ticks)
    /\ Cardinality(Lost(order_sent_ticks, unreported)) <= order_sent_ticks.collisions

\* PairInv holds at the start.
LEMMA PairInit == Init => PairInv
<1> SUFFICES ASSUME Init PROVE PairInv
  OBVIOUS
<1>1. MaxId \in Nat
  BY TracingAssumption DEF TracingAssumption
<1>2. EmptyRing \in TickRing /\ \A id \in Nat : ~Has(EmptyRing, id)
  BY EmptyRingType
<1>3. /\ clock = 0 /\ next_id = 1 /\ unreported = {} /\ log = << >>
      /\ sent_at = [id \in 1 .. MaxId |-> 0] /\ acked_at = [id \in 1 .. MaxId |-> 0]
      /\ order_sent_ticks = EmptyRing /\ ack_received_ticks = EmptyRing
  BY DEF Init
<1>4. log \in Seq(LogEntry) /\ Len(log) = 0
  BY <1>3
<1>5. PairTypes
  <2>1. sent_at \in [1 .. MaxId -> Nat] /\ acked_at \in [1 .. MaxId -> Nat]
    BY <1>3
  <2> QED
    BY <1>1, <1>2, <1>3, <1>4, <2>1 DEF PairTypes
<1>6. /\ SentRight(order_sent_ticks, unreported, sent_at)
      /\ AckedRight(ack_received_ticks, next_id, unreported, acked_at)
  BY <1>2, <1>3 DEF SentRight, AckedRight
<1>7. LogRight(log, next_id, unreported, sent_at, acked_at, ack_received_ticks)
  BY <1>4 DEF LogRight, Once
<1>8. Cardinality(Lost(order_sent_ticks, unreported)) <= order_sent_ticks.collisions
  <2>1. Lost(order_sent_ticks, unreported) = {}
    BY <1>3 DEF Lost
  <2>2. Cardinality({}) = 0
    BY FS_EmptySet
  <2>3. order_sent_ticks.collisions = 0
    BY <1>3 DEF EmptyRing
  <2> QED
    BY <2>1, <2>2, <2>3
<1> QED
  BY <1>5, <1>6, <1>7, <1>8 DEF PairInv

\* The orders lost are finitely many.
LEMMA LostFinite ==
    ASSUME NEW ring, NEW n \in Nat, NEW U, U \subseteq 1 .. n - 1
    PROVE  IsFiniteSet(Lost(ring, U)) /\ Cardinality(Lost(ring, U)) \in Nat
<1>1. IsFiniteSet(1 .. n - 1)
  BY FS_Interval
<1>2. Lost(ring, U) \subseteq 1 .. n - 1
  BY DEF Lost
<1> QED
  BY <1>1, <1>2, FS_Subset, FS_CardinalityType

\* Steps that leave the orders and their rings alone, and write no report.
LEMMA PairIdle ==
    ASSUME PairInv, UNCHANGED <<next_id, ringVars>>, clock' \in Nat,
           \/ log' = log
           \/ log' = << >>
           \/ \E e \in LogEntry : e.id = 0 /\ log' = Append(log, e)
    PROVE  PairInv'
<1>1. UNCHANGED <<next_id, order_sent_ticks, ack_received_ticks, sent_at, acked_at, unreported>>
  BY DEF ringVars
<1>2. /\ log' \in Seq(LogEntry)
      /\ LogRight(log', next_id, unreported, sent_at, acked_at, ack_received_ticks)
  <2>0. /\ log \in Seq(LogEntry)
        /\ LogRight(log, next_id, unreported, sent_at, acked_at, ack_received_ticks)
    BY DEF PairInv, PairTypes
  <2>1. CASE log' = log
    BY <2>0, <2>1
  <2>2. CASE log' = << >>
    BY <2>2 DEF LogRight, Once
  <2>3. CASE \E e \in LogEntry : e.id = 0 /\ log' = Append(log, e)
    <3>1. PICK e \in LogEntry : e.id = 0 /\ log' = Append(log, e)
      BY <2>3
    <3>2. EntryRight(e, next_id, unreported, sent_at, acked_at, ack_received_ticks)
      BY <3>1 DEF EntryRight
    <3>3. Once(log', "AckProcessed") /\ Once(log', "FillReceived")
      BY <2>0, <3>1, OnceAppend DEF LogRight
    <3>4. /\ log' \in Seq(LogEntry) /\ Len(log') = Len(log) + 1
          /\ log'[Len(log) + 1] = e /\ \A k \in 1 .. Len(log) : log'[k] = log[k]
          /\ \A k \in 1 .. Len(log) + 1 : k \in 1 .. Len(log) \/ k = Len(log) + 1
      BY <2>0, <3>1, Appended
    <3> QED
      BY <2>0, <3>2, <3>3, <3>4, Zenon DEF LogRight
  <2> QED
    BY <2>1, <2>2, <2>3
<1>3. PairTypes'
  BY <1>1, <1>2, Zenon DEF PairInv, PairTypes
<1> QED
  BY <1>1, <1>2, <1>3 DEF PairInv

\* The orders already reported on do not change, and none of them comes back to the
\* ring of acks.
KeepsReported(n, U, sent, acked, ring, U1, sent1, acked1, ring1) ==
    \A id \in 1 .. n - 1 : id \notin U =>
        /\ id \notin U1 /\ sent1[id] = sent[id] /\ acked1[id] = acked[id]
        /\ Has(ring1, id) => Has(ring, id)

\* The log stays right when the orders that it is about do not change.
LEMMA LogKeeps ==
    ASSUME NEW l, NEW n \in Nat, NEW U, NEW sent, NEW acked, NEW ring,
           LogRight(l, n, U, sent, acked, ring),
           NEW n1 \in Nat, n <= n1, NEW U1, NEW sent1, NEW acked1, NEW ring1,
           KeepsReported(n, U, sent, acked, ring, U1, sent1, acked1, ring1)
    PROVE  LogRight(l, n1, U1, sent1, acked1, ring1)
<1>1. ASSUME NEW k \in 1 .. Len(l)
      PROVE  EntryRight(l[k], n1, U1, sent1, acked1, ring1)
  <2> DEFINE e == l[k]
             id == e.id
  <2>1. EntryRight(e, n, U, sent, acked, ring)
    BY DEF LogRight
  <2> HIDE DEF e
  <2> SUFFICES ASSUME id # 0
               PROVE  /\ id \in 1 .. n1 - 1 /\ id \notin U1
                      /\ "AckProcessed" \in DOMAIN e.stamps =>
                            e.stamps["OrderSent"] = sent1[id] /\ e.stamps["AckReceived"] = acked1[id]
                      /\ "FillReceived" \in DOMAIN e.stamps =>
                            e.stamps["AckReceived"] = acked1[id] /\ ~Has(ring1, id)
    BY DEF EntryRight, e
  <2>2. id \in 1 .. n - 1 /\ id \notin U
    BY <2>1 DEF EntryRight
  <2>3. id \in 1 .. n1 - 1
    <3> HIDE DEF id
    <3> QED
      BY <2>2
  <2>4. /\ id \notin U1 /\ sent1[id] = sent[id] /\ acked1[id] = acked[id]
        /\ Has(ring1, id) => Has(ring, id)
    BY <2>2 DEF KeepsReported
  <2> QED
    BY <2>1, <2>3, <2>4 DEF EntryRight
<1> QED
  BY <1>1, Zenon DEF LogRight

\* An entry is added that is right and repeats nothing.
LEMMA LogGrows ==
    ASSUME NEW l \in Seq(LogEntry), NEW n, NEW U, NEW sent, NEW acked, NEW ring,
           LogRight(l, n, U, sent, acked, ring), NEW e \in LogEntry,
           EntryRight(e, n, U, sent, acked, ring),
           "AckProcessed" \in DOMAIN e.stamps =>
                \A k \in 1 .. Len(l) : l[k].id = e.id => "AckProcessed" \notin DOMAIN l[k].stamps,
           "FillReceived" \in DOMAIN e.stamps =>
                \A k \in 1 .. Len(l) : l[k].id = e.id => "FillReceived" \notin DOMAIN l[k].stamps
    PROVE  /\ LogRight(Append(l, e), n, U, sent, acked, ring)
           /\ Append(l, e) \in Seq(LogEntry)
<1> DEFINE m == Append(l, e)
<1>1. Once(l, "AckProcessed") /\ Once(l, "FillReceived")
  BY DEF LogRight
<1>2. Once(m, "AckProcessed") /\ Once(m, "FillReceived")
  BY <1>1, OnceAppend
<1>3. /\ m \in Seq(LogEntry) /\ Len(m) = Len(l) + 1
      /\ m[Len(l) + 1] = e /\ \A k \in 1 .. Len(l) : m[k] = l[k]
      /\ \A k \in 1 .. Len(l) + 1 : k \in 1 .. Len(l) \/ k = Len(l) + 1
  BY Appended
<1> HIDE DEF m
<1>4. LogRight(m, n, U, sent, acked, ring)
  BY <1>2, <1>3, Zenon DEF LogRight
<1> QED
  BY <1>3, <1>4 DEF m

\* A loop trace is about no order.
LEMMA LoopEntry ==
    ASSUME clock \in Nat, NEW hops, hops \subseteq LoopHops
    PROVE  [id |-> 0, stamps |-> [h \in hops |-> clock + Offset[h]]] \in LogEntry
<1>1. \A h \in LoopHops : Offset[h] \in Nat
  BY DEF LoopHops, Offset
<1>2. [h \in hops |-> clock + Offset[h]] \in [hops -> Nat]
  BY <1>1
<1>3. hops \in SUBSET Hop
  BY DEF Hop
<1> QED
  BY <1>2, <1>3 DEF LogEntry

\* An iteration without an order: a trace about no order at most.
LEMMA PairNoOrder ==
    ASSUME PairInv, Iterate(FALSE)
    PROVE  PairInv'
<1>0. clock \in Nat
  BY DEF PairInv, PairTypes
<1>1. /\ UNCHANGED <<next_id, ringVars>> /\ clock' = clock + 6
      /\ log' = IF enabled THEN Append(log, [id |-> 0, stamps |->
                    [h \in LoopHops \ {"OrderSent"} |-> clock + Offset[h]]]) ELSE log
  BY DEF Iterate, Begin, ringVars
<1>2. [id |-> 0, stamps |-> [h \in LoopHops \ {"OrderSent"} |-> clock + Offset[h]]] \in LogEntry
  BY <1>0, LoopEntry
<1>3. clock' \in Nat
  BY <1>0, <1>1
<1>4. log' = log \/ \E e \in LogEntry : e.id = 0 /\ log' = Append(log, e)
  <2> DEFINE new == [id |-> 0, stamps |-> [h \in LoopHops \ {"OrderSent"} |-> clock + Offset[h]]]
  <2>1. new.id = 0
    OBVIOUS
  <2>2. log' = log \/ log' = Append(log, new)
    BY <1>1
  <2> HIDE DEF new
  <2>3. new \in LogEntry
    BY <1>2 DEF new
  <2> QED
    BY <2>1, <2>2, <2>3
<1> QED
  BY <1>1, <1>3, <1>4, PairIdle

\* An iteration with an order: it takes its place in the ring of sends, perhaps that of
\* an order that has not been reported on.
LEMMA PairOrder ==
    ASSUME PairInv, Iterate(TRUE)
    PROVE  PairInv'
<1> DEFINE new == [id |-> 0, stamps |-> [h \in LoopHops |-> clock + Offset[h]]]
<1>0. /\ PairTypes /\ MaxId \in Nat
      /\ SentRight(order_sent_ticks, unreported, sent_at)
      /\ AckedRight(ack_received_ticks, next_id, unreported, acked_at)
      /\ LogRight(log, next_id, unreported, sent_at, acked_at, ack_received_ticks)
      /\ Cardinality(Lost(order_sent_ticks, unreported)) <= order_sent_ticks.collisions
  BY TracingAssumption DEF PairInv, TracingAssumption
<1>1. /\ clock \in Nat /\ next_id \in Nat /\ next_id >= 1
      /\ unreported \subseteq 1 .. next_id - 1
      /\ sent_at \in [1 .. MaxId -> Nat] /\ acked_at \in [1 .. MaxId -> Nat]
      /\ order_sent_ticks \in TickRing /\ ack_received_ticks \in TickRing
      /\ log \in Seq(LogEntry)
  BY <1>0 DEF PairTypes
<1>2. /\ UNCHANGED <<ack_received_ticks, acked_at>> /\ next_id <= MaxId
      /\ order_sent_ticks' = Set(order_sent_ticks, next_id, clock + 5)
      /\ next_id' = next_id + 1
      /\ sent_at' = [sent_at EXCEPT ![next_id] = clock + 5]
      /\ unreported' = unreported \cup {next_id}
      /\ clock' = clock + 6
      /\ log' = IF enabled THEN Append(log, new) ELSE log
  BY DEF Iterate, Begin
<1>3. new \in LogEntry /\ new.id = 0
  BY <1>1, LoopEntry
<1> HIDE DEF new
<1>4. /\ clock + 5 \in Nat /\ clock' \in Nat /\ next_id' \in Nat /\ next_id' >= 1
      /\ next_id \in 1 .. MaxId /\ next_id' - 1 <= MaxId /\ next_id <= next_id'
      /\ unreported' \subseteq 1 .. next_id' - 1
  BY <1>0, <1>1, <1>2
<1>5. /\ sent_at' \in [1 .. MaxId -> Nat] /\ sent_at'[next_id] = clock + 5
      /\ \A id \in 1 .. MaxId : id # next_id => sent_at'[id] = sent_at[id]
  BY <1>1, <1>2, <1>4
<1>6. /\ order_sent_ticks' \in TickRing
      /\ Has(order_sent_ticks', next_id) /\ Entry(order_sent_ticks', next_id).ticks = clock + 5
      /\ \A j \in Nat : j # next_id /\ Has(order_sent_ticks', j) =>
            Has(order_sent_ticks, j) /\ Entry(order_sent_ticks', j) = Entry(order_sent_ticks, j)
      /\ \A j \in Nat : Has(order_sent_ticks, j) /\ ~Has(order_sent_ticks', j) =>
            /\ j = Entry(order_sent_ticks, next_id).id
            /\ order_sent_ticks'.collisions = order_sent_ticks.collisions + 1
      /\ order_sent_ticks'.collisions \in Nat
      /\ order_sent_ticks.collisions <= order_sent_ticks'.collisions
  <2>1. SetTo(order_sent_ticks, next_id, clock + 5, order_sent_ticks')
    BY <1>1, <1>2, <1>4, SetRing
  <2> QED
    BY <2>1, Zenon DEF SetTo
<1>7. SentRight(order_sent_ticks', unreported', sent_at')
  <2> SUFFICES ASSUME NEW id \in Nat, Has(order_sent_ticks', id)
               PROVE  id \in unreported' /\ Entry(order_sent_ticks', id).ticks = sent_at'[id]
    BY DEF SentRight
  <2>1. CASE id = next_id
    BY <1>2, <1>5, <1>6, <2>1, Zenon
  <2>2. CASE id # next_id
    <3>1. Has(order_sent_ticks, id) /\ Entry(order_sent_ticks', id) = Entry(order_sent_ticks, id)
      BY <1>6, <2>2, Zenon
    <3>2. id \in unreported /\ Entry(order_sent_ticks, id).ticks = sent_at[id]
      BY <1>0, <3>1, Zenon DEF SentRight
    <3>3. id \in 1 .. MaxId
      BY <1>0, <1>1, <1>2, <3>2
    <3>4. sent_at'[id] = sent_at[id]
      BY <1>5, <2>2, <3>3
    <3> QED
      BY <1>2, <3>1, <3>2, <3>4, Zenon
  <2> QED
    BY <2>1, <2>2
<1>8. AckedRight(ack_received_ticks, next_id', unreported', acked_at)
  <2> SUFFICES ASSUME NEW id \in Nat, Has(ack_received_ticks, id)
               PROVE  /\ id \in 1 .. next_id' - 1 /\ id \notin unreported'
                      /\ Entry(ack_received_ticks, id).ticks = acked_at[id]
    BY DEF AckedRight
  <2>1. /\ id \in 1 .. next_id - 1 /\ id \notin unreported
        /\ Entry(ack_received_ticks, id).ticks = acked_at[id]
    BY <1>0, Zenon DEF AckedRight
  <2>2. id \in 1 .. next_id' - 1 /\ id # next_id
    BY <1>1, <1>2, <2>1
  <2> QED
    BY <1>2, <2>1, <2>2, Zenon
<1>9. LogRight(log, next_id', unreported', sent_at', acked_at, ack_received_ticks)
  <2>1. ASSUME NEW id \in 1 .. next_id - 1, id \notin unreported
        PROVE  id \notin unreported' /\ sent_at'[id] = sent_at[id]
    <3>1. id \in 1 .. MaxId /\ id # next_id
      BY <1>0, <1>1, <1>2
    <3> QED
      BY <1>2, <1>5, <2>1, <3>1
  <2>2. KeepsReported(next_id, unreported, sent_at, acked_at, ack_received_ticks,
                      unreported', sent_at', acked_at, ack_received_ticks)
    BY <2>1, Zenon DEF KeepsReported
  <2> QED
    BY <1>0, <1>1, <1>4, <2>2, LogKeeps
<1>10. /\ log' \in Seq(LogEntry)
       /\ LogRight(log', next_id', unreported', sent_at', acked_at, ack_received_ticks)
  <2>1. CASE enabled
    <3>1. log' = Append(log, new)
      BY <1>2, <2>1, Zenon
    <3>2. EntryRight(new, next_id', unreported', sent_at', acked_at, ack_received_ticks)
      BY <1>3 DEF EntryRight
    <3>3. /\ \A k \in 1 .. Len(log) : EntryRight(log[k], next_id', unreported', sent_at', acked_at,
                                                 ack_received_ticks)
          /\ Once(log, "AckProcessed") /\ Once(log, "FillReceived")
      BY <1>9, Zenon DEF LogRight
    <3>4. Once(log', "AckProcessed") /\ Once(log', "FillReceived")
      BY <1>1, <1>3, <3>1, <3>3, OnceAppend
    <3>5. /\ log' \in Seq(LogEntry) /\ Len(log') = Len(log) + 1
          /\ log'[Len(log) + 1] = new /\ \A k \in 1 .. Len(log) : log'[k] = log[k]
          /\ \A k \in 1 .. Len(log) + 1 : k \in 1 .. Len(log) \/ k = Len(log) + 1
      BY <1>1, <1>3, <3>1, Appended
    <3> QED
      BY <3>2, <3>3, <3>4, <3>5, Zenon DEF LogRight
  <2>2. CASE ~enabled
    BY <1>1, <1>2, <1>9, <2>2, Zenon
  <2> QED
    BY <2>1, <2>2
<1>11. Cardinality(Lost(order_sent_ticks', unreported')) <= order_sent_ticks'.collisions
  <2> DEFINE was == Lost(order_sent_ticks, unreported)
             is == Lost(order_sent_ticks', unreported')
             out == Entry(order_sent_ticks, next_id).id
  <2>1. IsFiniteSet(was) /\ Cardinality(was) \in Nat
    BY <1>1, LostFinite
  <2>2. \A j \in is : j \in unreported /\ j # next_id /\ j \in Nat
    BY <1>1, <1>2, <1>6 DEF Lost
  <2>3. CASE \E j \in is : j \notin was
    <3>1. PICK j \in is : j \notin was
      BY <2>3
    <3>2. Has(order_sent_ticks, j) /\ ~Has(order_sent_ticks', j)
      BY <2>2, <3>1 DEF Lost
    <3>3. order_sent_ticks'.collisions = order_sent_ticks.collisions + 1
      BY <1>6, <2>2, <3>1, <3>2
    <3>4. is \subseteq was \cup {out}
      <4> SUFFICES ASSUME NEW i \in is, i \notin was PROVE i = out
        OBVIOUS
      <4>1. Has(order_sent_ticks, i) /\ ~Has(order_sent_ticks', i)
        BY <2>2 DEF Lost
      <4> QED
        BY <1>6, <2>2, <4>1
    <3> HIDE DEF was, is, out
    <3>5. IsFiniteSet(was \cup {out}) /\ Cardinality(was \cup {out}) <= Cardinality(was) + 1
          /\ Cardinality(was \cup {out}) \in Nat
      BY <2>1, FS_AddElement
    <3>6. Cardinality(is) <= Cardinality(was \cup {out}) /\ Cardinality(is) \in Nat
      BY <3>4, <3>5, FS_Subset, FS_CardinalityType
    <3>7. order_sent_ticks.collisions \in Nat /\ Cardinality(was) <= order_sent_ticks.collisions
      BY <1>0, <1>1 DEF TickRing, was
    <3>8. Cardinality(is) <= order_sent_ticks'.collisions
      <4> DEFINE c == Cardinality(is)  w == Cardinality(was)  u == Cardinality(was \cup {out})
                 a == order_sent_ticks.collisions  b == order_sent_ticks'.collisions
      <4>1. c \in Nat /\ w \in Nat /\ u \in Nat /\ a \in Nat /\ c <= u /\ u <= w + 1 /\ w <= a /\ b = a + 1
        BY <2>1, <3>3, <3>5, <3>6, <3>7
      <4> HIDE DEF c, w, u, a, b
      <4>2. c <= b
        BY <4>1
      <4> QED
        BY <4>2 DEF c, b
    <3> QED
      BY <3>8 DEF is
  <2>4. CASE is \subseteq was
    <3> HIDE DEF was, is, out
    <3>1. Cardinality(is) <= Cardinality(was) /\ Cardinality(is) \in Nat
      BY <2>1, <2>4, FS_Subset, FS_CardinalityType
    <3>2. order_sent_ticks.collisions \in Nat /\ Cardinality(was) <= order_sent_ticks.collisions
      BY <1>0, <1>1 DEF TickRing, was
    <3>3. Cardinality(is) <= order_sent_ticks'.collisions
      BY <1>6, <2>1, <3>1, <3>2
    <3> QED
      BY <3>3 DEF is
  <2> QED
    BY <2>3, <2>4
<1>12. PairTypes'
  BY <1>1, <1>2, <1>4, <1>5, <1>6, <1>10, Zenon DEF PairTypes
<1> QED
  BY <1>2, <1>7, <1>8, <1>10, <1>11, <1>12 DEF PairInv

\* A report reduces the orders without one by id; if id leaves the ring of sends at most,
\* no time is lost by it.
LEMMA LostShrinks ==
    ASSUME PairInv, NEW id \in Nat, unreported' = unreported \ {id},
           order_sent_ticks'.collisions = order_sent_ticks.collisions,
           \A j \in Nat : j # id => (Has(order_sent_ticks', j) <=> Has(order_sent_ticks, j))
    PROVE  Cardinality(Lost(order_sent_ticks', unreported')) <= order_sent_ticks'.collisions
<1> DEFINE was == Lost(order_sent_ticks, unreported)
           is == Lost(order_sent_ticks', unreported')
<1>1. next_id \in Nat /\ unreported \subseteq 1 .. next_id - 1 /\ order_sent_ticks \in TickRing
      /\ Cardinality(was) <= order_sent_ticks.collisions
  BY DEF PairInv, PairTypes
<1>2. IsFiniteSet(was) /\ Cardinality(was) \in Nat
  BY <1>1, LostFinite
<1>3. is \subseteq was
  <2> SUFFICES ASSUME NEW j \in is PROVE j \in was
    OBVIOUS
  <2>1. j \in unreported /\ j # id /\ ~Has(order_sent_ticks', j)
    BY DEF Lost
  <2>2. j \in Nat
    BY <1>1, <2>1
  <2> QED
    BY <2>1, <2>2 DEF Lost
<1> HIDE DEF was, is
<1>4. Cardinality(is) <= Cardinality(was) /\ Cardinality(is) \in Nat
  BY <1>2, <1>3, FS_Subset, FS_CardinalityType
<1>5. order_sent_ticks.collisions \in Nat
  BY <1>1 DEF TickRing
<1>6. Cardinality(is) <= order_sent_ticks.collisions
  BY <1>1, <1>2, <1>4, <1>5
<1> QED
  BY <1>6 DEF is

\* Orders in the ring of sends after a report on id, which has left it.
LEMMA SentKeeps ==
    ASSUME NEW ring, NEW U, NEW sent, SentRight(ring, U, sent), NEW id \in Nat, NEW ring1,
           ~Has(ring1, id),
           \A j \in Nat : Has(ring1, j) => Has(ring, j) /\ Entry(ring1, j) = Entry(ring, j)
    PROVE  SentRight(ring1, U \ {id}, sent)
BY Zenon DEF SentRight

\* The entry of an ack: the send of its own order, and an order that was not in the log.
LEMMA PairAck ==
    ASSUME PairInv, NEW id \in 1 .. MaxId, OnAck(id)
    PROVE  PairInv'
<1> DEFINE new == [id |-> id, stamps |-> [OrderSent    |-> Entry(order_sent_ticks, id).ticks,
                                          AckReceived  |-> clock + 1,
                                          AckProcessed |-> clock + 2]]
<1>0. /\ PairTypes /\ MaxId \in Nat
      /\ SentRight(order_sent_ticks, unreported, sent_at)
      /\ AckedRight(ack_received_ticks, next_id, unreported, acked_at)
      /\ LogRight(log, next_id, unreported, sent_at, acked_at, ack_received_ticks)
  BY TracingAssumption DEF PairInv, TracingAssumption
<1>1. /\ clock \in Nat /\ next_id \in Nat /\ next_id >= 1
      /\ unreported \subseteq 1 .. next_id - 1 /\ next_id - 1 <= MaxId
      /\ sent_at \in [1 .. MaxId -> Nat] /\ acked_at \in [1 .. MaxId -> Nat]
      /\ order_sent_ticks \in TickRing /\ ack_received_ticks \in TickRing
      /\ log \in Seq(LogEntry)
  BY <1>0 DEF PairTypes
<1>2. /\ clock' = clock + 2 /\ unreported' = unreported \ {id}
      /\ next_id' = next_id /\ sent_at' = sent_at
      /\ acked_at' = IF id \in unreported THEN [acked_at EXCEPT ![id] = clock + 1] ELSE acked_at
  BY DEF OnAck, Draining
<1>3. clock' \in Nat /\ clock + 1 \in Nat /\ clock + 2 \in Nat /\ id \in Nat /\ id # 0
  BY <1>0, <1>1, <1>2
<1>4. /\ acked_at' \in [1 .. MaxId -> Nat]
      /\ id \in unreported => acked_at'[id] = clock + 1
      /\ \A j \in 1 .. next_id - 1 : j \notin unreported => acked_at'[j] = acked_at[j]
  BY <1>0, <1>1, <1>2, <1>3
<1>5. CASE Has(order_sent_ticks, id)
  <2>1. /\ order_sent_ticks' = Erase(order_sent_ticks, id)
        /\ ack_received_ticks' = Set(ack_received_ticks, id, clock + 1)
        /\ log' = log \/ log' = Append(log, new)
    BY <1>5 DEF OnAck, RecordReport
  <2>2. id \in unreported /\ Entry(order_sent_ticks, id).ticks = sent_at[id]
    BY <1>0, <1>3, <1>5, Zenon DEF SentRight
  <2>3. ErasedFrom(order_sent_ticks, id, order_sent_ticks')
    BY <1>1, <1>3, <2>1, EraseRing
  <2>4. SetTo(ack_received_ticks, id, clock + 1, ack_received_ticks')
    BY <1>1, <1>3, <2>1, SetRing
  <2>5. SentRight(order_sent_ticks', unreported', sent_at)
    <3>1. ~Has(order_sent_ticks', id)
          /\ \A j \in Nat : Has(order_sent_ticks', j) =>
                Has(order_sent_ticks, j) /\ Entry(order_sent_ticks', j) = Entry(order_sent_ticks, j)
      BY <2>3, Zenon DEF ErasedFrom
    <3> QED
      BY <1>0, <1>2, <1>3, <3>1, SentKeeps
  <2>6. AckedRight(ack_received_ticks', next_id, unreported', acked_at')
    <3> SUFFICES ASSUME NEW j \in Nat, Has(ack_received_ticks', j)
                 PROVE  /\ j \in 1 .. next_id - 1 /\ j \notin unreported'
                        /\ Entry(ack_received_ticks', j).ticks = acked_at'[j]
      BY DEF AckedRight
    <3>1. CASE j = id
      <4>1. Entry(ack_received_ticks', j).ticks = clock + 1
        BY <2>4, <3>1, Zenon DEF SetTo
      <4> QED
        BY <1>1, <1>2, <1>4, <2>2, <3>1, <4>1
    <3>2. CASE j # id
      <4>1. Has(ack_received_ticks, j) /\ Entry(ack_received_ticks', j) = Entry(ack_received_ticks, j)
        BY <2>4, <3>2, Zenon DEF SetTo
      <4>2. /\ j \in 1 .. next_id - 1 /\ j \notin unreported
            /\ Entry(ack_received_ticks, j).ticks = acked_at[j]
        BY <1>0, <4>1, Zenon DEF AckedRight
      <4>3. acked_at'[j] = acked_at[j]
        BY <1>4, <4>2, Zenon
      <4> QED
        BY <1>2, <4>1, <4>2, <4>3, Zenon
    <3> QED
      BY <3>1, <3>2
  <2>7. LogRight(log, next_id, unreported', sent_at, acked_at', ack_received_ticks')
    <3>1. ASSUME NEW j \in 1 .. next_id - 1, j \notin unreported
          PROVE  /\ j \notin unreported' /\ acked_at'[j] = acked_at[j]
                 /\ Has(ack_received_ticks', j) => Has(ack_received_ticks, j)
      <4>1. j # id /\ j \in Nat
        BY <1>1, <2>2, <3>1
      <4> QED
        BY <1>2, <1>4, <2>4, <3>1, <4>1, Zenon DEF SetTo
    <3>2. next_id <= next_id
      BY <1>1
    <3>3. KeepsReported(next_id, unreported, sent_at, acked_at, ack_received_ticks,
                        unreported', sent_at, acked_at', ack_received_ticks')
      BY <3>1, Zenon DEF KeepsReported
    <3> QED
      BY <1>0, <1>1, <3>2, <3>3, LogKeeps
  <2>8. /\ log' \in Seq(LogEntry)
        /\ LogRight(log', next_id, unreported', sent_at, acked_at', ack_received_ticks')
    <3>1. new \in LogEntry
      <4>1. Entry(order_sent_ticks, id).ticks \in Nat
        BY <1>1, <1>3, EntryType DEF TickEntry
      <4> DEFINE st == [OrderSent |-> Entry(order_sent_ticks, id).ticks,
                        AckReceived |-> clock + 1, AckProcessed |-> clock + 2]
                 H == {"OrderSent", "AckReceived", "AckProcessed"}
      <4>2. st \in [H -> Nat]
        BY <1>3, <4>1
      <4>3. H \in SUBSET Hop
        BY DEF Hop, LoopHops
      <4> HIDE DEF st, H
      <4>4. [id |-> id, stamps |-> st] \in LogEntry
        BY <1>3, <4>2, <4>3 DEF LogEntry
      <4> QED
        BY <4>4 DEF st
    <3>2. /\ new.id = id /\ DOMAIN new.stamps = {"OrderSent", "AckReceived", "AckProcessed"}
          /\ new.stamps["OrderSent"] = Entry(order_sent_ticks, id).ticks
          /\ new.stamps["AckReceived"] = clock + 1
      OBVIOUS
    <3> HIDE DEF new
    <3>3. "FillReceived" \notin DOMAIN new.stamps
      BY <3>2
    <3>4. EntryRight(new, next_id, unreported', sent_at, acked_at', ack_received_ticks')
      <4>1. id \in 1 .. next_id - 1 /\ id \notin unreported'
        BY <1>1, <1>2, <2>2
      <4>2. new.stamps["OrderSent"] = sent_at[id] /\ new.stamps["AckReceived"] = acked_at'[id]
        BY <1>4, <2>2, <3>2, Zenon
      <4> QED
        BY <3>2, <3>3, <4>1, <4>2, Zenon DEF EntryRight
    <3>5. \A k \in 1 .. Len(log) : log[k].id # new.id
      <4> SUFFICES ASSUME NEW k \in 1 .. Len(log), log[k].id = id PROVE FALSE
        BY <3>2
      <4>1. EntryRight(log[k], next_id, unreported, sent_at, acked_at, ack_received_ticks)
        BY <1>0, Zenon DEF LogRight
      <4> QED
        BY <1>3, <2>2, <4>1 DEF EntryRight
    <3>6. LogRight(Append(log, new), next_id, unreported', sent_at, acked_at', ack_received_ticks')
          /\ Append(log, new) \in Seq(LogEntry)
      BY <1>1, <2>7, <3>1, <3>4, <3>5, LogGrows
    <3> QED
      BY <1>1, <2>1, <2>7, <3>6, Zenon
  <2>9. Cardinality(Lost(order_sent_ticks', unreported')) <= order_sent_ticks'.collisions
    <3>1. /\ order_sent_ticks'.collisions = order_sent_ticks.collisions
          /\ \A j \in Nat : j # id => (Has(order_sent_ticks', j) <=> Has(order_sent_ticks, j))
      BY <2>3, Zenon DEF ErasedFrom
    <3> QED
      BY <1>2, <1>3, <3>1, LostShrinks
  <2>10. PairTypes'
    <3>1. unreported' \subseteq 1 .. next_id - 1
      BY <1>1, <1>2
    <3>2. order_sent_ticks' \in TickRing /\ ack_received_ticks' \in TickRing
      BY <2>3, <2>4, Zenon DEF ErasedFrom, SetTo
    <3> QED
      BY <1>1, <1>2, <1>3, <1>4, <2>8, <3>1, <3>2, Zenon DEF PairTypes
  <2> QED
    BY <1>2, <2>5, <2>6, <2>8, <2>9, <2>10 DEF PairInv
<1>6. CASE ~Has(order_sent_ticks, id)
  <2>1. UNCHANGED <<order_sent_ticks, ack_received_ticks, log>>
    BY <1>6 DEF OnAck
  <2>2. SentRight(order_sent_ticks, unreported', sent_at)
    BY <1>0, <1>2, <1>3, <1>6, SentKeeps
  <2>3. AckedRight(ack_received_ticks, next_id, unreported', acked_at')
    <3> SUFFICES ASSUME NEW j \in Nat, Has(ack_received_ticks, j)
                 PROVE  /\ j \in 1 .. next_id - 1 /\ j \notin unreported'
                        /\ Entry(ack_received_ticks, j).ticks = acked_at'[j]
      BY DEF AckedRight
    <3>1. /\ j \in 1 .. next_id - 1 /\ j \notin unreported
          /\ Entry(ack_received_ticks, j).ticks = acked_at[j]
      BY <1>0, Zenon DEF AckedRight
    <3> QED
      BY <1>2, <1>4, <3>1, Zenon
  <2>4. LogRight(log, next_id, unreported', sent_at, acked_at', ack_received_ticks)
    <3>1. ASSUME NEW j \in 1 .. next_id - 1, j \notin unreported
          PROVE  j \notin unreported' /\ acked_at'[j] = acked_at[j]
      BY <1>2, <1>4, <3>1, Zenon
    <3>2. next_id <= next_id
      BY <1>1
    <3>3. KeepsReported(next_id, unreported, sent_at, acked_at, ack_received_ticks,
                        unreported', sent_at, acked_at', ack_received_ticks)
      BY <3>1, Zenon DEF KeepsReported
    <3> QED
      BY <1>0, <1>1, <3>2, <3>3, LogKeeps
  <2>5. Cardinality(Lost(order_sent_ticks', unreported')) <= order_sent_ticks'.collisions
    BY <1>2, <1>3, <2>1, LostShrinks
  <2>6. PairTypes'
    <3>1. unreported' \subseteq 1 .. next_id - 1
      BY <1>1, <1>2
    <3> QED
      BY <1>1, <1>2, <1>3, <1>4, <2>1, <3>1, Zenon DEF PairTypes
  <2> QED
    BY <1>2, <2>1, <2>2, <2>3, <2>4, <2>5, <2>6 DEF PairInv
<1> QED
  BY <1>5, <1>6

\* The entry of a report behind the ack: its own ack, which it takes out of the ring.
LEMMA PairOther ==
    ASSUME PairInv, NEW id \in 1 .. MaxId, OnOther(id)
    PROVE  PairInv'
<1> DEFINE new == [id |-> id, stamps |-> [AckReceived   |-> Entry(ack_received_ticks, id).ticks,
                                          FillReceived  |-> clock + 1,
                                          FillProcessed |-> clock + 2]]
<1>0. /\ PairTypes /\ MaxId \in Nat
      /\ SentRight(order_sent_ticks, unreported, sent_at)
      /\ AckedRight(ack_received_ticks, next_id, unreported, acked_at)
      /\ LogRight(log, next_id, unreported, sent_at, acked_at, ack_received_ticks)
  BY TracingAssumption DEF PairInv, TracingAssumption
<1>1. /\ clock \in Nat /\ next_id \in Nat /\ next_id >= 1
      /\ unreported \subseteq 1 .. next_id - 1 /\ next_id - 1 <= MaxId
      /\ sent_at \in [1 .. MaxId -> Nat] /\ acked_at \in [1 .. MaxId -> Nat]
      /\ order_sent_ticks \in TickRing /\ ack_received_ticks \in TickRing
      /\ log \in Seq(LogEntry)
  BY <1>0 DEF PairTypes
<1>2. /\ clock' = clock + 2 /\ unreported' = unreported \ {id}
      /\ next_id' = next_id /\ sent_at' = sent_at /\ acked_at' = acked_at
      /\ order_sent_ticks' = Erase(order_sent_ticks, id)
  BY DEF OnOther, Draining
<1>3. clock' \in Nat /\ clock + 1 \in Nat /\ clock + 2 \in Nat /\ id \in Nat /\ id # 0
  BY <1>0, <1>1, <1>2
<1>4. ErasedFrom(order_sent_ticks, id, order_sent_ticks')
  BY <1>1, <1>2, <1>3, EraseRing
<1>5. SentRight(order_sent_ticks', unreported', sent_at)
  <2>1. ~Has(order_sent_ticks', id)
        /\ \A j \in Nat : Has(order_sent_ticks', j) =>
              Has(order_sent_ticks, j) /\ Entry(order_sent_ticks', j) = Entry(order_sent_ticks, j)
    BY <1>4, Zenon DEF ErasedFrom
  <2> QED
    BY <1>0, <1>2, <1>3, <2>1, SentKeeps
<1>6. Cardinality(Lost(order_sent_ticks', unreported')) <= order_sent_ticks'.collisions
  <2>1. /\ order_sent_ticks'.collisions = order_sent_ticks.collisions
        /\ \A j \in Nat : j # id => (Has(order_sent_ticks', j) <=> Has(order_sent_ticks, j))
    BY <1>4, Zenon DEF ErasedFrom
  <2> QED
    BY <1>2, <1>3, <2>1, LostShrinks
<1>7. /\ ack_received_ticks' \in TickRing
      /\ \A j \in Nat : Has(ack_received_ticks', j) =>
            Has(ack_received_ticks, j) /\ Entry(ack_received_ticks', j) = Entry(ack_received_ticks, j)
      /\ ~Has(ack_received_ticks', id)
  <2>1. CASE Has(ack_received_ticks, id)
    <3>1. ack_received_ticks' = Erase(ack_received_ticks, id)
      BY <2>1 DEF OnOther
    <3>2. ErasedFrom(ack_received_ticks, id, ack_received_ticks')
      BY <1>1, <1>3, <3>1, EraseRing
    <3> QED
      BY <3>2, Zenon DEF ErasedFrom
  <2>2. CASE ~Has(ack_received_ticks, id)
    <3>1. ack_received_ticks' = ack_received_ticks
      BY <2>2 DEF OnOther
    <3> QED
      BY <1>1, <2>2, <3>1, Zenon
  <2> QED
    BY <2>1, <2>2
<1>8. AckedRight(ack_received_ticks', next_id, unreported', acked_at)
  BY <1>0, <1>2, <1>7, Zenon DEF AckedRight
<1>9. LogRight(log, next_id, unreported', sent_at, acked_at, ack_received_ticks')
  <2>1. KeepsReported(next_id, unreported, sent_at, acked_at, ack_received_ticks,
                      unreported', sent_at, acked_at, ack_received_ticks')
    <3> SUFFICES ASSUME NEW j \in 1 .. next_id - 1, j \notin unreported
                 PROVE  /\ j \notin unreported'
                        /\ Has(ack_received_ticks', j) => Has(ack_received_ticks, j)
      BY Zenon DEF KeepsReported
    <3>1. j \in Nat
      BY <1>1
    <3> QED
      BY <1>2, <1>7, <3>1, Zenon
  <2>2. next_id <= next_id
    BY <1>1
  <2> QED
    BY <1>0, <1>1, <2>1, <2>2, LogKeeps
<1>10. /\ log' \in Seq(LogEntry)
       /\ LogRight(log', next_id, unreported', sent_at, acked_at, ack_received_ticks')
  <2>1. CASE log' = log
    BY <1>1, <1>9, <2>1, Zenon
  <2>2. CASE log' # log
    <3>1. Has(ack_received_ticks, id) /\ log' = Append(log, new)
      BY <2>2 DEF OnOther, RecordReport
    <3>2. id \in 1 .. next_id - 1 /\ id \notin unreported
          /\ Entry(ack_received_ticks, id).ticks = acked_at[id]
      BY <1>0, <1>3, <3>1, Zenon DEF AckedRight
    <3>3. new \in LogEntry
      <4>1. Entry(ack_received_ticks, id).ticks \in Nat
        BY <1>1, <1>3, EntryType DEF TickEntry
      <4> DEFINE st == [AckReceived |-> Entry(ack_received_ticks, id).ticks,
                        FillReceived |-> clock + 1, FillProcessed |-> clock + 2]
                 H == {"AckReceived", "FillReceived", "FillProcessed"}
      <4>2. st \in [H -> Nat]
        BY <1>3, <4>1
      <4>3. H \in SUBSET Hop
        BY DEF Hop
      <4> HIDE DEF st, H
      <4>4. [id |-> id, stamps |-> st] \in LogEntry
        BY <1>3, <4>2, <4>3 DEF LogEntry
      <4> QED
        BY <4>4 DEF st
    <3>4. /\ new.id = id /\ DOMAIN new.stamps = {"AckReceived", "FillReceived", "FillProcessed"}
          /\ new.stamps["AckReceived"] = Entry(ack_received_ticks, id).ticks
      OBVIOUS
    <3> HIDE DEF new
    <3>5. "AckProcessed" \notin DOMAIN new.stamps
      BY <3>4
    <3>6. EntryRight(new, next_id, unreported', sent_at, acked_at, ack_received_ticks')
      <4>1. id \notin unreported' /\ new.stamps["AckReceived"] = acked_at[id]
        BY <1>2, <3>2, <3>4, Zenon
      <4> QED
        BY <1>7, <3>2, <3>4, <3>5, <4>1, Zenon DEF EntryRight
    <3>7. \A k \in 1 .. Len(log) : log[k].id = new.id => "FillReceived" \notin DOMAIN log[k].stamps
      <4> SUFFICES ASSUME NEW k \in 1 .. Len(log), log[k].id = id,
                          "FillReceived" \in DOMAIN log[k].stamps
                   PROVE  FALSE
        BY <3>4
      <4>1. EntryRight(log[k], next_id, unreported, sent_at, acked_at, ack_received_ticks)
        BY <1>0, Zenon DEF LogRight
      <4> QED
        BY <1>3, <3>1, <4>1 DEF EntryRight
    <3>8. LogRight(Append(log, new), next_id, unreported', sent_at, acked_at, ack_received_ticks')
          /\ Append(log, new) \in Seq(LogEntry)
      BY <1>1, <1>9, <3>3, <3>5, <3>6, <3>7, LogGrows
    <3> QED
      BY <3>1, <3>8, Zenon
  <2> QED
    BY <2>1, <2>2
<1>11. PairTypes'
  <2>1. unreported' \subseteq 1 .. next_id - 1
    BY <1>1, <1>2
  <2>2. order_sent_ticks' \in TickRing
    BY <1>4, Zenon DEF ErasedFrom
  <2> QED
    BY <1>1, <1>2, <1>3, <1>7, <1>10, <2>1, <2>2, Zenon DEF PairTypes
<1> QED
  BY <1>2, <1>5, <1>6, <1>8, <1>10, <1>11 DEF PairInv

\* Every step keeps PairInv.
LEMMA PairNext == PairInv /\ [Next]_tvars => PairInv'
<1> SUFFICES ASSUME PairInv, [Next]_tvars PROVE PairInv'
  OBVIOUS
<1>0. clock \in Nat
  BY DEF PairInv, PairTypes
<1>1. CASE \E sends \in BOOLEAN : Iterate(sends)
  BY <1>1, PairNoOrder, PairOrder
<1>2. CASE IdleIteration
  <2>1. UNCHANGED <<next_id, ringVars>> /\ log' = log /\ clock' = clock + 1
    BY <1>2 DEF IdleIteration, Begin, ringVars
  <2>2. clock' \in Nat
    BY <1>0, <2>1
  <2> QED
    BY <2>1, <2>2, PairIdle
<1>3. CASE \E id \in 1 .. MaxId : OnAck(id) \/ OnOther(id)
  BY <1>3, PairAck, PairOther
<1>4. CASE EndIteration \/ SetEnabled
  <2>1. UNCHANGED <<next_id, ringVars>> /\ log' = log /\ clock' = clock
    BY <1>4 DEF EndIteration, SetEnabled, loopVars
  <2> QED
    BY <1>0, <2>1, PairIdle
<1>5. CASE Reset
  <2>1. UNCHANGED <<next_id, ringVars>> /\ log' = << >> /\ clock' = clock
    BY <1>5 DEF Reset, loopVars
  <2> QED
    BY <1>0, <2>1, PairIdle
<1>6. CASE \E ns \in WindowNs, ticks \in WindowTicks : PrintReport(ns, ticks)
  <2>1. UNCHANGED <<next_id, ringVars>> /\ log' = log /\ clock' = clock
    BY <1>6 DEF PrintReport, tracerVars
  <2> QED
    BY <1>0, <2>1, PairIdle
<1>7. CASE UNCHANGED tvars
  <2>1. UNCHANGED <<next_id, ringVars>> /\ log' = log /\ clock' = clock
    BY <1>7 DEF tvars, loopVars, tracerVars
  <2> QED
    BY <1>0, <2>1, PairIdle
<1> QED
  BY <1>1, <1>2, <1>3, <1>4, <1>5, <1>6, <1>7 DEF Next

\* A set without two elements.
LEMMA AtMostOne ==
    ASSUME NEW S, \A x, y \in S : x = y
    PROVE  Cardinality(S) <= 1
<1>1. CASE S = {}
  BY <1>1, FS_EmptySet
<1>2. CASE S # {}
  <2>1. PICK x \in S : TRUE
    BY <1>2
  <2>2. S = {x}
    BY <2>1
  <2> QED
    BY <2>2, FS_Singleton
<1> QED
  BY <1>1, <1>2

\* Whatever orders share a place of a tick ring, an ack is timed against the send of its
\* own order and the report behind it against that ack, each once; and the collision
\* counter covers every order whose time was lost before its first report.
THEOREM OwnOrderTimed == Spec => []PairedWithOwnOrder
<1>1. PairInv => PairedWithOwnOrder
  <2> SUFFICES ASSUME PairInv PROVE PairedWithOwnOrder
    OBVIOUS
  <2>0. /\ LogRight(log, next_id, unreported, sent_at, acked_at, ack_received_ticks)
        /\ log \in Seq(LogEntry)
    BY DEF PairInv, PairTypes
  <2>1. DOMAIN log = 1 .. Len(log)
    BY <2>0, LenProperties
  <2>2. ASSUME NEW id \in 1 .. MaxId, NEW h, Once(log, h)
        PROVE  Cardinality({k \in DOMAIN log : log[k].id = id /\ h \in DOMAIN log[k].stamps}) <= 1
    <3>1. id # 0
      BY TracingAssumption DEF TracingAssumption
    <3>2. ASSUME NEW x \in {k \in DOMAIN log : log[k].id = id /\ h \in DOMAIN log[k].stamps},
                 NEW y \in {k \in DOMAIN log : log[k].id = id /\ h \in DOMAIN log[k].stamps}
          PROVE  x = y
      BY <2>1, <2>2, <3>1, Zenon DEF Once
    <3> QED
      BY <3>2, AtMostOne
  <2>3. ASSUME NEW id \in 1 .. MaxId, NEW k \in DOMAIN log, log[k].id = id
        PROVE  /\ "AckProcessed" \in DOMAIN log[k].stamps =>
                    /\ log[k].stamps["OrderSent"] = sent_at[id]
                    /\ log[k].stamps["AckReceived"] = acked_at[id]
               /\ "FillReceived" \in DOMAIN log[k].stamps => log[k].stamps["AckReceived"] = acked_at[id]
    <3>1. EntryRight(log[k], next_id, unreported, sent_at, acked_at, ack_received_ticks)
      BY <2>0, <2>1, Zenon DEF LogRight
    <3>2. id # 0
      BY TracingAssumption DEF TracingAssumption
    <3> QED
      BY <2>3, <3>1, <3>2, Zenon DEF EntryRight
  <2>4. Cardinality({id \in unreported : ~Has(order_sent_ticks, id)}) <= order_sent_ticks.collisions
    BY DEF PairInv, Lost
  <2>5. Once(log, "AckProcessed") /\ Once(log, "FillReceived")
    BY <2>0 DEF LogRight
  <2> QED
    BY <2>2, <2>3, <2>4, <2>5, Zenon DEF PairedWithOwnOrder
<1> QED
  BY <1>1, PairInit, PairNext, PTL DEF Spec

-----------------------------------------------------------------------------
(* Places of the trace ring *)

\* The remainder by m, and the multiple of m that it leaves out.
LEMMA Remainder ==
    ASSUME NEW a \in Int, NEW m \in Int, m > 0
    PROVE  /\ (a % m) \in Int /\ 0 <= (a % m) /\ (a % m) < m
           /\ (a \div m) \in Int /\ a = (a \div m) * m + (a % m)
<1>1. (a % m) \in Int /\ (a \div m) \in Int
  OBVIOUS
<1>2. (a % m) >= 0 /\ (a % m) < m
  OBVIOUS
<1>3. a = m * (a \div m) + (a % m)
  OBVIOUS
<1>4. m * (a \div m) = (a \div m) * m
  BY <1>1
<1> QED
  BY <1>1, <1>2, <1>3, <1>4

\* A multiple of m that lies less than m from 0 is 0.
LEMMA SmallMultiple ==
    ASSUME NEW m \in Int, m > 0, NEW q \in Int, q * m < m, q * m > -m
    PROVE  q = 0
<1>1. \A n \in Int : n >= 1 => n * m >= m
  OBVIOUS
<1>2. \A n \in Int : n <= -1 => n * m <= -m
  OBVIOUS
<1>3. CASE q >= 1
  BY <1>1, <1>3
<1>4. CASE q <= -1
  BY <1>2, <1>4
<1> QED
  BY <1>3, <1>4

\* Multiplication distributes over a difference.
LEMMA Distribute ==
    ASSUME NEW m \in Int, NEW p \in Int, NEW q \in Int
    PROVE  (q - p) * m = q * m - p * m
OBVIOUS

\* Two numbers of the same remainder that lie less than m apart are equal.
LEMMA Apart ==
    ASSUME NEW m \in Int, m > 0, NEW a \in Int, NEW b \in Int, b - a < m, a - b < m,
           (a % m) = (b % m)
    PROVE  a = b
<1> DEFINE p == a \div m
           q == b \div m
           r == a % m
<1>1. p \in Int /\ q \in Int /\ r \in Int /\ a = p * m + r /\ b = q * m + r
  BY Remainder
<1> HIDE DEF p, q, r
<1>2. (q - p) * m = q * m - p * m
  BY <1>1, Distribute
<1>3. q * m \in Int /\ p * m \in Int
  BY <1>1
<1>4. (q - p) * m = b - a
  BY <1>1, <1>2, <1>3
<1>5. q - p \in Int /\ b - a > -m
  BY <1>1
<1>6. q - p = 0
  BY <1>4, <1>5, SmallMultiple
<1>7. q = p
  BY <1>1, <1>6
<1> QED
  BY <1>1, <1>3, <1>7

\* The remainder is the number itself when that is below m, and m more or less does
\* not change it.
LEMMA Wrap ==
    ASSUME NEW m \in Int, m > 0, NEW a \in Int
    PROVE  /\ 0 <= a /\ a < m => (a % m) = a
           /\ ((a + m) % m) = (a % m)
<1>1. /\ (a % m) \in Int /\ 0 <= (a % m) /\ (a % m) < m
      /\ (a \div m) \in Int /\ a = (a \div m) * m + (a % m)
  BY Remainder
<1>2. ASSUME 0 <= a, a < m PROVE (a % m) = a
  <2> DEFINE q == a \div m
             r == a % m
  <2>1. q \in Int /\ r \in Int /\ 0 <= r /\ r < m /\ a = q * m + r
    BY <1>1
  <2> HIDE DEF q, r
  <2>2. q * m \in Int
    BY <2>1
  <2>3. q * m < m /\ q * m > -m
    BY <1>2, <2>1, <2>2
  <2>4. q = 0
    BY <2>1, <2>3, SmallMultiple
  <2>5. r = a
    BY <2>1, <2>4
  <2> QED
    BY <2>5 DEF r
<1>3. ((a + m) % m) = (a % m)
  <2> DEFINE q == a \div m
             r == a % m
             s == (a + m) % m
             t == (a + m) \div m
  <2>1. /\ q \in Int /\ r \in Int /\ 0 <= r /\ r < m /\ a = q * m + r
        /\ t \in Int /\ s \in Int /\ 0 <= s /\ s < m /\ a + m = t * m + s
    <3>1. a + m \in Int
      OBVIOUS
    <3> QED
      BY <1>1, <3>1, Remainder
  <2> HIDE DEF q, r, s, t
  <2>2. q * m \in Int /\ t * m \in Int /\ (t - q) * m = t * m - q * m
    BY <2>1, Distribute
  <2>3. (t - q) * m = m + r - s
    BY <2>1, <2>2
  <2>4. ((t - q) - 1) * m = (t - q) * m - 1 * m
    BY <2>1, Distribute
  <2>5. ((t - q) - 1) * m = r - s
    BY <2>1, <2>3, <2>4
  <2>6. (t - q) - 1 = 0
    <3>1. (t - q) - 1 \in Int /\ r - s < m /\ r - s > -m
      BY <2>1
    <3> QED
      BY <2>5, <3>1, SmallMultiple
  <2>7. r - s = 0
    BY <2>5, <2>6
  <2> QED
    BY <2>1, <2>7 DEF r, s
<1> QED
  BY <1>2, <1>3

-----------------------------------------------------------------------------
(* The invariant of the trace ring *)

Trace == [ticks : [Hop -> Nat], recorded_mask : SUBSET Hop]
TraceRing == [0 .. CAPACITY - 1 -> Trace]

\* The j-th trace of the log is in the ring, unless CAPACITY - 1 others began behind it:
\* the place of the next trace may already have been written to.
Holds(ring, l) ==
    \A j \in 1 .. Len(l) :
        j > Len(l) - CAPACITY + 1 => Shows(ring[(j - 1) % CAPACITY], l[j].stamps)

\* The latest CAPACITY traces of the log are in the ring.
Latest(ring, l) ==
    \A j \in 1 .. Len(l) : j > Len(l) - CAPACITY => Shows(ring[(j - 1) % CAPACITY], l[j].stamps)

\* Only the oldest of them may be gone, and then an idle iteration has left a trace with
\* its start alone in that place.
Oldest(ring, l) ==
    Latest(ring, l) \/ ring[Len(l) % CAPACITY].recorded_mask = {"RecvStart"}

\* The trace that is open is the last of the log but for the reports behind it, and it
\* is open only while the loop drains.
RingInv ==
    /\ traces \in TraceRing
    /\ total_count \in Nat /\ in_trace \in BOOLEAN /\ enabled \in BOOLEAN
    /\ pc # "drain" => in_trace = FALSE
    /\ Len(log) = total_count + IF in_trace = TRUE THEN 1 ELSE 0
    /\ Holds(traces, log) /\ Oldest(traces, log)

\* round_up_pow2 returns a power of two.
CapacityPositive == CAPACITY \in Nat \ {0}

\* A trace that is written over shows its own stamps and no other.
LEMMA OverwriteShows ==
    ASSUME NEW t \in Trace, NEW stamps \in UNION {[H -> Nat] : H \in SUBSET Hop}
    PROVE  Overwrite(t, stamps) \in Trace /\ Shows(Overwrite(t, stamps), stamps)
<1>1. PICK H \in SUBSET Hop : stamps \in [H -> Nat]
  OBVIOUS
<1> DEFINE new == [h \in Hop |-> IF h \in DOMAIN stamps THEN stamps[h] ELSE t.ticks[h]]
<1>2. t.ticks \in [Hop -> Nat]
  BY DEF Trace
<1>3. DOMAIN stamps = H /\ \A h \in H : stamps[h] \in Nat
  BY <1>1
<1>4. new \in [Hop -> Nat] /\ \A h \in DOMAIN stamps : new[h] = stamps[h]
  BY <1>2, <1>3
<1>5. Overwrite(t, stamps) = [ticks |-> new, recorded_mask |-> DOMAIN stamps]
  BY DEF Overwrite
<1> HIDE DEF new
<1> QED
  BY <1>3, <1>4, <1>5 DEF Trace, Shows

\* The place of the next trace, and those of the traces that must stay.
LEMMA NextPlace ==
    ASSUME CapacityPositive, NEW n \in Nat
    PROVE  /\ CAPACITY \in Int /\ CAPACITY > 0
           /\ n % CAPACITY \in 0 .. CAPACITY - 1
           /\ \A j \in 1 .. n : /\ (j - 1) % CAPACITY \in 0 .. CAPACITY - 1
                                /\ j > n - CAPACITY + 1 => (j - 1) % CAPACITY # n % CAPACITY
<1>1. CAPACITY \in Int /\ CAPACITY > 0
  BY DEF CapacityPositive
<1> DEFINE C == CAPACITY
<1>2. C \in Int /\ C > 0
  BY <1>1
<1> HIDE DEF C
<1>3. \A a \in Int : a % C \in 0 .. C - 1
  BY <1>2
<1>4. ASSUME NEW j \in 1 .. n, j > n - C + 1 PROVE (j - 1) % C # n % C
  <2>1. j - 1 \in Int /\ n \in Int /\ n - (j - 1) < C /\ (j - 1) - n < C /\ j - 1 # n
    BY <1>2, <1>4
  <2> QED
    BY <1>2, <2>1, Apart
<1> QED
  BY <1>2, <1>3, <1>4 DEF C

\* A write at the place of the next trace disturbs none that must stay.
LEMMA WriteKeeps ==
    ASSUME CapacityPositive, NEW ring \in TraceRing, NEW l \in Seq(LogEntry), Holds(ring, l),
           NEW t \in Trace
    PROVE  /\ [ring EXCEPT ![Len(l) % CAPACITY] = t] \in TraceRing
           /\ Holds([ring EXCEPT ![Len(l) % CAPACITY] = t], l)
<1> DEFINE after == [ring EXCEPT ![Len(l) % CAPACITY] = t]
           place == Len(l) % CAPACITY
<1>1. Len(l) \in Nat
  BY LenProperties
<1>2. /\ place \in 0 .. CAPACITY - 1
      /\ \A j \in 1 .. Len(l) : /\ (j - 1) % CAPACITY \in 0 .. CAPACITY - 1
                                /\ j > Len(l) - CAPACITY + 1 => (j - 1) % CAPACITY # place
  BY <1>1, NextPlace
<1>3. after = [ring EXCEPT ![place] = t]
  OBVIOUS
<1> HIDE DEF place, after
<1>4. after \in TraceRing /\ \A p \in 0 .. CAPACITY - 1 : p # place => after[p] = ring[p]
  BY <1>2, <1>3 DEF TraceRing
<1>5. Holds(after, l)
  <2> SUFFICES ASSUME NEW j \in 1 .. Len(l), j > Len(l) - CAPACITY + 1
               PROVE  Shows(after[(j - 1) % CAPACITY], l[j].stamps)
    BY Zenon DEF Holds
  <2>1. Shows(ring[(j - 1) % CAPACITY], l[j].stamps)
    BY Zenon DEF Holds
  <2>2. after[(j - 1) % CAPACITY] = ring[(j - 1) % CAPACITY]
    BY <1>2, <1>4, Zenon
  <2> QED
    BY <2>1, <2>2, Zenon
<1> QED
  BY <1>4, <1>5 DEF after, place

\* A trace of its own written there is the next of the log.
LEMMA WriteAppends ==
    ASSUME CapacityPositive, NEW ring \in TraceRing, NEW l \in Seq(LogEntry), Holds(ring, l),
           NEW e \in LogEntry
    PROVE  LET after == [ring EXCEPT ![Len(l) % CAPACITY] =
                            Overwrite(ring[Len(l) % CAPACITY], e.stamps)]
           IN  /\ after \in TraceRing
               /\ Holds(after, Append(l, e)) /\ Oldest(after, Append(l, e))
<1> DEFINE place == Len(l) % CAPACITY
           t == Overwrite(ring[place], e.stamps)
           after == [ring EXCEPT ![place] = t]
           m == Append(l, e)
<1>1. Len(l) \in Nat
  BY LenProperties
<1>2. place \in 0 .. CAPACITY - 1 /\ CAPACITY \in Int /\ CAPACITY > 0
  BY <1>1, NextPlace
<1>3. ring[place] \in Trace
  <2> HIDE DEF place
  <2> QED
    BY <1>2 DEF TraceRing
<1>4. e.stamps \in UNION {[H -> Nat] : H \in SUBSET Hop}
  BY DEF LogEntry
<1>5. t \in Trace /\ Shows(t, e.stamps)
  BY <1>3, <1>4, OverwriteShows
<1> HIDE DEF t
<1>6. after \in TraceRing /\ Holds(after, l)
  BY <1>5, WriteKeeps
<1>7. after[place] = t
  <2> HIDE DEF place
  <2> QED
    BY <1>2 DEF TraceRing
<1>8. /\ Len(m) = Len(l) + 1 /\ m[Len(l) + 1] = e /\ \A k \in 1 .. Len(l) : m[k] = l[k]
      /\ \A k \in 1 .. Len(l) + 1 : k \in 1 .. Len(l) \/ k = Len(l) + 1
  BY Appended
<1>9. (Len(l) + 1) - 1 = Len(l)
  BY <1>1
<1> HIDE DEF m, after
<1>10. ASSUME NEW j \in 1 .. Len(m), j > Len(m) - CAPACITY
       PROVE  Shows(after[(j - 1) % CAPACITY], m[j].stamps)
  <2>1. CASE j \in 1 .. Len(l)
    <3>1. j > Len(l) - CAPACITY + 1
      BY <1>1, <1>2, <1>8, <1>10, <2>1
    <3>2. Shows(after[(j - 1) % CAPACITY], l[j].stamps)
      BY <1>6, <2>1, <3>1, Zenon DEF Holds
    <3> QED
      BY <1>8, <2>1, <3>2, Zenon
  <2>2. CASE j = Len(l) + 1
    <3>1. m[j] = e /\ (j - 1) % CAPACITY = place
      BY <1>8, <1>9, <2>2, Zenon
    <3> QED
      BY <1>5, <1>7, <3>1, Zenon
  <2> QED
    BY <1>8, <2>1, <2>2
<1>11. Latest(after, m)
  BY <1>10, Zenon DEF Latest
<1>12. Holds(after, m)
  <2>1. Len(m) \in Nat
    BY <1>1, <1>8
  <2>2. \A j \in 1 .. Len(m) : j > Len(m) - CAPACITY + 1 => j > Len(m) - CAPACITY
    BY <1>2, <2>1
  <2> QED
    BY <1>11, <2>2, Zenon DEF Holds, Latest
<1> QED
  BY <1>6, <1>11, <1>12 DEF Oldest, after, place, t, m

\* RingInv holds at the start.
LEMMA RingInit == ASSUME CapacityPositive, Init PROVE RingInv
<1>1. /\ traces = [p \in 0 .. CAPACITY - 1 |-> [ticks |-> [h \in Hop |-> 0], recorded_mask |-> {}]]
      /\ total_count = 0 /\ in_trace = FALSE /\ enabled = TRUE /\ log = << >>
  BY DEF Init
<1>2. [ticks |-> [h \in Hop |-> 0], recorded_mask |-> {}] \in Trace
  BY DEF Trace
<1>3. traces \in TraceRing
  BY <1>1, <1>2 DEF TraceRing
<1>4. Len(log) = 0
  BY <1>1
<1>5. Holds(traces, log) /\ Oldest(traces, log)
  BY <1>4 DEF Holds, Oldest, Latest
<1>6. Len(log) = total_count + IF in_trace = TRUE THEN 1 ELSE 0
  <2>1. (IF in_trace = TRUE THEN 1 ELSE 0) = 0
    BY <1>1
  <2> QED
    BY <1>1, <1>4, <2>1
<1>7. total_count \in Nat /\ in_trace \in BOOLEAN /\ enabled \in BOOLEAN /\ in_trace = FALSE
  BY <1>1
<1> QED
  BY <1>3, <1>5, <1>6, <1>7, Zenon DEF RingInv

\* What was appended to a log is an entry.
LEMMA AppendedIn ==
    ASSUME NEW l \in Seq(LogEntry), NEW e, Append(l, e) \in Seq(LogEntry)
    PROVE  e \in LogEntry
<1>1. l \in Seq(LogEntry \cup {e}) /\ e \in LogEntry \cup {e} /\ Len(l) \in Nat
  BY LenProperties
<1>2. Len(Append(l, e)) = Len(l) + 1 /\ Append(l, e)[Len(l) + 1] = e
  BY <1>1, AppendProperties
<1> DEFINE m == Append(l, e)
<1>3. m \in Seq(LogEntry) /\ Len(m) = Len(l) + 1 /\ m[Len(l) + 1] = e
  BY <1>2
<1> HIDE DEF m
<1>4. Len(l) + 1 \in 1 .. Len(m)
  BY <1>1, <1>3
<1>5. m[Len(l) + 1] \in LogEntry
  BY <1>3, <1>4, ElementOfSeq
<1> QED
  BY <1>3, <1>5

\* An iteration begins a trace, or none while the tracer is off.
LEMMA RingIterate ==
    ASSUME CapacityPositive, PairInv, PairInv', RingInv, NEW sends \in BOOLEAN, Iterate(sends)
    PROVE  RingInv'
<1>0. /\ traces \in TraceRing /\ total_count \in Nat /\ enabled \in BOOLEAN
      /\ Holds(traces, log) /\ Oldest(traces, log)
      /\ log \in Seq(LogEntry) /\ log' \in Seq(LogEntry)
  BY DEF RingInv, PairInv, PairTypes
<1>1. pc = "loop" /\ pc' = "drain" /\ total_count' = total_count /\ enabled' = enabled
  BY DEF Iterate, Begin
<1>2. Len(log) = total_count
  BY <1>1 DEF RingInv
<1>3. PICK stamps :
        /\ in_trace' = enabled
        /\ traces' = IF enabled THEN [traces EXCEPT ![write_pos] = Overwrite(@, stamps)] ELSE traces
        /\ log' = IF enabled THEN Append(log, [id |-> 0, stamps |-> stamps]) ELSE log
  BY DEF Iterate, StartTrace
<1>4. CASE enabled
  <2> DEFINE e == [id |-> 0, stamps |-> stamps]
  <2>1. log' = Append(log, e) /\ e.stamps = stamps
    BY <1>3, <1>4
  <2> HIDE DEF e
  <2>2. e \in LogEntry
    BY <1>0, <2>1, AppendedIn
  <2>3. traces' = [traces EXCEPT ![Len(log) % CAPACITY] =
                        Overwrite(traces[Len(log) % CAPACITY], e.stamps)]
    BY <1>2, <1>3, <1>4, <2>1 DEF write_pos
  <2>4. traces' \in TraceRing /\ Holds(traces', log') /\ Oldest(traces', log')
    BY <1>0, <2>1, <2>2, <2>3, WriteAppends
  <2>5. Len(log') = total_count + 1
    BY <1>0, <1>2, <2>1, <2>2, Appended
  <2>6. in_trace' = TRUE
    BY <1>0, <1>3, <1>4, Zenon
  <2> QED
    BY <1>0, <1>1, <2>4, <2>5, <2>6 DEF RingInv
<1>5. CASE ~enabled
  <2>1. log' = log /\ traces' = traces
    BY <1>3, <1>5, Zenon
  <2>2. in_trace' = FALSE
    BY <1>0, <1>3, <1>5, Zenon
  <2>3. Len(log') = total_count' + 0
    BY <1>0, <1>1, <1>2, <2>1
  <2> QED
    BY <1>0, <1>1, <2>1, <2>2, <2>3 DEF RingInv
<1> QED
  BY <1>4, <1>5

\* An idle iteration writes over the oldest trace of a full ring and no other.
LEMMA RingIdle ==
    ASSUME CapacityPositive, PairInv, RingInv, IdleIteration
    PROVE  RingInv'
<1>0. /\ traces \in TraceRing /\ total_count \in Nat /\ enabled \in BOOLEAN
      /\ Holds(traces, log) /\ Oldest(traces, log) /\ log \in Seq(LogEntry) /\ clock \in Nat
  BY DEF RingInv, PairInv, PairTypes
<1>1. pc = "loop" /\ pc' = "drain" /\ total_count' = total_count /\ enabled' = enabled
      /\ log' = log /\ in_trace' = FALSE
  BY DEF IdleIteration, Begin
<1>2. Len(log) = total_count
  BY <1>1 DEF RingInv
<1>3. traces' \in TraceRing /\ Holds(traces', log) /\ Oldest(traces', log)
  <2>1. CASE enabled
    <3> DEFINE st == [RecvStart |-> clock + 1]
               place == Len(log) % CAPACITY
               t == Overwrite(traces[place], st)
    <3>1. traces' = [traces EXCEPT ![place] = t]
      BY <1>2, <2>1 DEF IdleIteration, write_pos
    <3>2. st \in UNION {[H -> Nat] : H \in SUBSET Hop}
      <4>1. st \in [{"RecvStart"} -> Nat]
        BY <1>0
      <4>2. {"RecvStart"} \in SUBSET Hop
        BY DEF Hop, LoopHops
      <4> HIDE DEF st
      <4> QED
        BY <4>1, <4>2
    <3>3. place \in 0 .. CAPACITY - 1
      BY <1>0, <1>2, NextPlace
    <3> HIDE DEF st
    <3>4. traces[place] \in Trace
      <4> HIDE DEF place
      <4> QED
        BY <1>0, <3>3 DEF TraceRing
    <3>5. t \in Trace
      BY <3>2, <3>4, OverwriteShows
    <3>6. t.recorded_mask = {"RecvStart"}
      BY DEF Overwrite, st
    <3> HIDE DEF t
    <3>7. traces'[place] = t
      <4> HIDE DEF place
      <4> QED
        BY <1>0, <3>1, <3>3 DEF TraceRing
    <3>8. Oldest(traces', log)
      BY <3>6, <3>7 DEF Oldest
    <3> QED
      BY <1>0, <3>1, <3>5, <3>8, WriteKeeps
  <2>2. CASE ~enabled
    <3>1. traces' = traces
      BY <2>2 DEF IdleIteration
    <3> QED
      BY <1>0, <3>1
  <2> QED
    BY <2>1, <2>2
<1>4. Len(log') = total_count' + 0
  BY <1>0, <1>1, <1>2
<1> QED
  BY <1>0, <1>1, <1>3, <1>4 DEF RingInv

\* A report writes a trace behind the one that is open.
LEMMA RingReport ==
    ASSUME CapacityPositive, PairInv, PairInv', RingInv, pc = "drain",
           UNCHANGED <<pc, in_trace, enabled>>, NEW id, NEW stamps, RecordReport(id, stamps)
    PROVE  RingInv'
<1>0. /\ traces \in TraceRing /\ total_count \in Nat /\ enabled \in BOOLEAN /\ in_trace \in BOOLEAN
      /\ Holds(traces, log) /\ Oldest(traces, log)
      /\ log \in Seq(LogEntry) /\ log' \in Seq(LogEntry)
      /\ Len(log) = total_count + IF in_trace = TRUE THEN 1 ELSE 0
  BY DEF RingInv, PairInv, PairTypes
<1>1. CASE enabled
  <2> DEFINE e == [id |-> id, stamps |-> stamps]
  <2>1. /\ traces' = [traces EXCEPT ![ReportPos] = Overwrite(@, stamps)]
        /\ total_count' = total_count + 1
        /\ log' = Append(log, e) /\ e.stamps = stamps
    BY <1>1 DEF RecordReport
  <2> HIDE DEF e
  <2>2. e \in LogEntry
    BY <1>0, <2>1, AppendedIn
  <2>3. ReportPos = Len(log) % CAPACITY
    <3>1. (IF in_trace = TRUE THEN 1 ELSE 0) = (IF in_trace THEN 1 ELSE 0)
      BY <1>0, Zenon
    <3> QED
      BY <1>0, <3>1, Zenon DEF ReportPos
  <2>4. traces' = [traces EXCEPT ![Len(log) % CAPACITY] =
                        Overwrite(traces[Len(log) % CAPACITY], e.stamps)]
    BY <2>1, <2>3, Zenon
  <2>5. traces' \in TraceRing /\ Holds(traces', log') /\ Oldest(traces', log')
    <3>1. traces \in TraceRing /\ Holds(traces, log) /\ log \in Seq(LogEntry)
      BY <1>0
    <3>2. log' = Append(log, e)
      BY <2>1
    <3> QED
      BY <2>2, <2>4, <3>1, <3>2, WriteAppends
  <2>6. Len(log') = Len(log) + 1
    BY <1>0, <2>1, <2>2, Appended
  <2>7. Len(log') = total_count' + IF in_trace = TRUE THEN 1 ELSE 0
    <3>1. CASE in_trace = TRUE
      BY <1>0, <2>1, <2>6, <3>1
    <3>2. CASE in_trace # TRUE
      <4>1. Len(log) = total_count + 0
        BY <1>0, <3>2, Zenon
      <4>2. Len(log') = total_count' + 0
        BY <1>0, <2>1, <2>6, <4>1
      <4> QED
        BY <3>2, <4>2, Zenon
    <3> QED
      BY <3>1, <3>2
  <2>8. total_count' \in Nat
    BY <1>0, <2>1
  <2> QED
    BY <1>0, <2>5, <2>7, <2>8, Zenon DEF RingInv
<1>2. CASE ~enabled
  <2>1. UNCHANGED <<traces, total_count, log>>
    BY <1>2 DEF RecordReport
  <2> QED
    BY <2>1 DEF RingInv
<1> QED
  BY <1>1, <1>2

\* Every step keeps RingInv.
LEMMA RingNext ==
    ASSUME CapacityPositive, PairInv, PairInv', RingInv, [Next]_tvars
    PROVE  RingInv'
<1>0. /\ traces \in TraceRing /\ total_count \in Nat /\ enabled \in BOOLEAN /\ in_trace \in BOOLEAN
      /\ pc # "drain" => in_trace = FALSE
      /\ Holds(traces, log) /\ Oldest(traces, log) /\ log \in Seq(LogEntry)
      /\ Len(log) = total_count + IF in_trace = TRUE THEN 1 ELSE 0
  BY DEF RingInv, PairInv, PairTypes
<1>1. CASE \E sends \in BOOLEAN : Iterate(sends)
  BY <1>1, RingIterate
<1>2. CASE IdleIteration
  BY <1>2, RingIdle
<1>3. CASE \E id \in 1 .. MaxId : OnAck(id) \/ OnOther(id)
  <2>1. PICK id \in 1 .. MaxId : OnAck(id) \/ OnOther(id)
    BY <1>3
  <2>2. pc = "drain" /\ UNCHANGED <<pc, in_trace, enabled>>
    BY <2>1 DEF OnAck, OnOther, Draining
  <2>3. (\E stamps : RecordReport(id, stamps)) \/ UNCHANGED <<traces, total_count, log>>
    BY <2>1 DEF OnAck, OnOther
  <2>4. CASE \E stamps : RecordReport(id, stamps)
    BY <2>2, <2>4, RingReport
  <2>5. CASE UNCHANGED <<traces, total_count, log>>
    BY <2>2, <2>5 DEF RingInv
  <2> QED
    BY <2>3, <2>4, <2>5
<1>4. CASE EndIteration
  <2>1. /\ pc' = "loop" /\ in_trace' = FALSE /\ UNCHANGED <<traces, enabled, log>>
        /\ total_count' = IF in_trace THEN total_count + 1 ELSE total_count
    BY <1>4 DEF EndIteration
  <2>2. total_count' = total_count + IF in_trace = TRUE THEN 1 ELSE 0
    <3>1. CASE in_trace = TRUE
      BY <2>1, <3>1
    <3>2. CASE in_trace = FALSE
      BY <1>0, <2>1, <3>2
    <3> QED
      BY <1>0, <3>1, <3>2
  <2>3. total_count' \in Nat /\ Len(log') = total_count' + 0
    BY <1>0, <2>1, <2>2
  <2>4. in_trace' # TRUE
    BY <2>1
  <2>5. Len(log') = total_count' + IF in_trace' = TRUE THEN 1 ELSE 0
    BY <2>3, <2>4, Zenon
  <2> QED
    BY <1>0, <2>1, <2>3, <2>5 DEF RingInv
<1>5. CASE SetEnabled
  <2>1. UNCHANGED <<pc, traces, total_count, in_trace, log>> /\ enabled' = ~enabled
    BY <1>5 DEF SetEnabled, loopVars
  <2>2. enabled' \in BOOLEAN
    BY <2>1, Zenon
  <2> QED
    BY <1>0, <2>1, <2>2 DEF RingInv
<1>6. CASE Reset
  <2>1. /\ UNCHANGED <<pc, traces, enabled>> /\ total_count' = 0 /\ in_trace' = FALSE
        /\ log' = << >>
    BY <1>6 DEF Reset, loopVars
  <2>2. in_trace' # TRUE /\ log' = << >> /\ total_count' = 0
    BY <2>1, Zenon
  <2>3. Len(log') = 0 /\ Len(log') = total_count' + 0 /\ total_count' \in Nat
    BY <2>2, SMT
  <2>4. Len(log') = total_count' + IF in_trace' = TRUE THEN 1 ELSE 0
    <3>1. in_trace' # TRUE
      BY <2>2, Zenon
    <3>2. Len(log') = total_count' + 0
      BY <2>3
    <3> QED
      BY <3>1, <3>2, Zenon
  <2>5. Holds(traces', log') /\ Oldest(traces', log')
    BY <2>2 DEF Holds, Oldest, Latest
  <2> QED
    BY <1>0, <2>1, <2>3, <2>4, <2>5 DEF RingInv
<1>7. CASE \E ns \in WindowNs, ticks \in WindowTicks : PrintReport(ns, ticks)
  <2>1. pc = "loop" /\ UNCHANGED <<traces, total_count, in_trace, enabled, log>>
    BY <1>7 DEF PrintReport, tracerVars
  <2>2. in_trace' = FALSE
    BY <1>0, <2>1
  <2> QED
    BY <1>0, <2>1, <2>2 DEF RingInv
<1>8. CASE UNCHANGED tvars
  BY <1>8 DEF RingInv, tvars, loopVars, tracerVars
<1> QED
  BY <1>1, <1>2, <1>3, <1>4, <1>5, <1>6, <1>7, <1>8 DEF Next

\* The place of the i-th trace of the report.
LEMMA TraceIs ==
    ASSUME CapacityPositive, total_count \in Nat, NEW i \in 0 .. count - 1
    PROVE  trace(i) = traces[((total_count - count + 1 + i) - 1) % CAPACITY]
<1> DEFINE j == total_count - count + 1 + i
<1>1. CAPACITY \in Int /\ CAPACITY > 0
  BY DEF CapacityPositive
<1>2. /\ i \in Int /\ 0 <= i /\ j - 1 \in Int
      /\ total_count <= CAPACITY => j - 1 = i /\ i < CAPACITY
      /\ ~(total_count <= CAPACITY) => (j - 1) + CAPACITY = total_count + i
  BY <1>1 DEF count
<1> HIDE DEF j
<1>3. CASE total_count <= CAPACITY
  <2>1. (i % CAPACITY) = i
    BY <1>1, <1>2, <1>3, Wrap
  <2>2. ((j - 1) % CAPACITY) = i
    BY <1>2, <1>3, <2>1, Zenon
  <2> QED
    BY <1>3, <2>2, Zenon DEF trace, j
<1>4. CASE ~(total_count <= CAPACITY)
  <2>1. (((j - 1) + CAPACITY) % CAPACITY) = ((j - 1) % CAPACITY)
    BY <1>1, <1>2, Wrap
  <2>2. ((total_count + i) % CAPACITY) = ((j - 1) % CAPACITY)
    BY <1>2, <1>4, <2>1, Zenon
  <2> QED
    BY <1>4, <2>2, Zenon DEF trace, j
<1> QED
  BY <1>3, <1>4

\* For every capacity the trace ring holds, between two iterations, the latest traces
\* since the last reset, unmixed and in order; only the oldest of a full ring may be
\* gone, which is what start_trace destroys when an idle iteration is discarded.
THEOREM RingKeepsLatest ==
    ASSUME CapacityPositive
    PROVE  Spec => []RingHoldsLatest
<1>1. Init => PairInv /\ RingInv
  BY PairInit, RingInit
<1>2. PairInv /\ RingInv /\ [Next]_tvars => (PairInv /\ RingInv)'
  BY PairNext, RingNext
<1>3. RingInv /\ PairInv => RingHoldsLatest
  <2> SUFFICES ASSUME RingInv, log \in Seq(LogEntry), pc = "loop"
               PROVE  /\ total_count = Len(log)
                      /\ \A i \in 0 .. count - 1 : (i = 0 /\ count = CAPACITY) \/ Faithful(i)
    BY DEF RingHoldsLatest, PairInv, PairTypes
  <2>1. total_count \in Nat /\ Holds(traces, log) /\ Len(log) = total_count
    BY DEF RingInv
  <2>2. CAPACITY \in Int /\ CAPACITY > 0
    BY DEF CapacityPositive
  <2>3. ASSUME NEW i \in 0 .. count - 1, ~(i = 0 /\ count = CAPACITY)
        PROVE  Faithful(i)
    <3> DEFINE j == Len(log) - count + 1 + i
    <3>1. j \in 1 .. Len(log) /\ j > Len(log) - CAPACITY + 1
      BY <2>1, <2>2, <2>3 DEF count
    <3>2. Shows(traces[(j - 1) % CAPACITY], log[j].stamps)
      <4> HIDE DEF j
      <4> QED
        BY <2>1, <3>1, Zenon DEF Holds
    <3>3. trace(i) = traces[(j - 1) % CAPACITY]
      BY <2>1, TraceIs
    <3> QED
      BY <3>2, <3>3, Zenon DEF Faithful
  <2> QED
    BY <2>1, <2>3
<1> QED
  BY <1>1, <1>2, <1>3, PTL DEF Spec

-----------------------------------------------------------------------------
(* Ranks and means *)

\* The quotient of a natural number is one, and how far its multiple falls short.
LEMMA Quotient ==
    ASSUME NEW a \in Nat, NEW m \in Int, m > 0
    PROVE  /\ (a \div m) \in Nat
           /\ (a \div m) * m <= a /\ a < ((a \div m) + 1) * m
<1> DEFINE q == a \div m
           r == a % m
<1>1. r \in Int /\ 0 <= r /\ r < m /\ q \in Int /\ a = q * m + r
  BY Remainder
<1> HIDE DEF q, r
<1>2. (q + 1) * m = q * m + m /\ q * m \in Int
  BY <1>1
<1>3. q >= 0
  <2>1. \A n \in Int : n <= -1 => n * m <= -m
    OBVIOUS
  <2>2. q * m > -m
    BY <1>1, <1>2
  <2> QED
    BY <1>1, <1>2, <2>1, <2>2
<1>4. q \in Nat /\ q * m <= a /\ a < (q + 1) * m
  BY <1>1, <1>2, <1>3
<1> QED
  BY <1>4 DEF q

\* s is the values of ns on S in nondecreasing order, p numbers them.
Ranked(p, s, ns, S, n) ==
    /\ n \in Nat /\ Cardinality(S) = n
    /\ p \in [1 .. n -> S]
    /\ \A j, k \in 1 .. n : p[j] = p[k] => j = k
    /\ \A i \in S : \E k \in 1 .. n : p[k] = i
    /\ \A k \in 1 .. n : s[k] = ns[p[k]] /\ s[k] \in Int
    /\ \A j, k \in 1 .. n : j < k => s[j] <= s[k]

First(p, m) == Images(p, 1 .. m)

\* The first m numbers name m elements.
LEMMA FirstCard ==
    ASSUME NEW p, NEW s, NEW ns, NEW S, NEW n, Ranked(p, s, ns, S, n), NEW m \in 0 .. n
    PROVE  IsFiniteSet(First(p, m)) /\ Cardinality(First(p, m)) = m
<1> DEFINE h == [k \in 1 .. m |-> p[k]]
<1>1. n \in Nat /\ m \in Nat /\ 1 .. m \subseteq 1 .. n
  BY DEF Ranked
<1>2. \A j, k \in 1 .. n : p[j] = p[k] => j = k
  BY DEF Ranked
<1>3. h \in [1 .. m -> First(p, m)]
  BY DEF First, Images
<1>4. \A t \in First(p, m) : \E k \in 1 .. m : h[k] = t
  BY DEF First, Images
<1>5. \A j, k \in 1 .. m : h[j] = h[k] => j = k
  BY <1>1, <1>2
<1> HIDE DEF h
<1>6. h \in Bijection(1 .. m, First(p, m))
  BY <1>3, <1>4, <1>5 DEF Bijection, Injection, Surjection, IsInjective
<1>7. ExistsBijection(1 .. m, First(p, m))
  BY <1>6 DEF ExistsBijection
<1>8. IsFiniteSet(1 .. m) /\ Cardinality(1 .. m) = m
  <2>1. 1 \in Int /\ m \in Int
    BY <1>1
  <2> QED
    BY <1>1, <2>1, FS_Interval
<1> QED
  BY <1>7, <1>8, FS_Bijection

\* The k-th of them (from 0) stands at rank k.
LEMMA RankRight ==
    ASSUME NEW p, NEW s, NEW ns, NEW S, IsFiniteSet(S), NEW n, Ranked(p, s, ns, S, n),
           NEW k \in 0 .. n - 1
    PROVE  AtRank(s[k + 1], k, ns, S)
<1> DEFINE v == s[k + 1]
           Low == {i \in S : ns[i] < v}
           Up == {i \in S : ns[i] <= v}
<1>1. n \in Nat /\ k \in 0 .. n /\ k + 1 \in 0 .. n /\ k + 1 \in 1 .. n
  BY DEF Ranked
<1>2. /\ \A j \in 1 .. n : p[j] \in S /\ s[j] = ns[p[j]] /\ s[j] \in Int
      /\ \A i \in S : \E j \in 1 .. n : p[j] = i
      /\ \A j, l \in 1 .. n : j < l => s[j] <= s[l]
  BY DEF Ranked
<1>3. v \in Int
  BY <1>1, <1>2
<1> HIDE DEF v
<1>4. Low \subseteq First(p, k)
  <2> SUFFICES ASSUME NEW i \in S, ns[i] < v PROVE i \in First(p, k)
    OBVIOUS
  <2>1. PICK j \in 1 .. n : p[j] = i
    BY <1>2
  <2>2. s[j] = ns[i] /\ s[j] \in Int
    BY <1>2, <2>1
  <2>3. ~(k + 1 <= j)
    <3> SUFFICES ASSUME k + 1 <= j PROVE FALSE
      OBVIOUS
    <3>1. k + 1 = j \/ k + 1 < j
      BY <1>1
    <3>2. v <= s[j]
      BY <1>1, <1>2, <1>3, <3>1 DEF v
    <3> QED
      BY <1>3, <2>2, <3>2
  <2>4. j \in 1 .. k
    BY <1>1, <2>3
  <2> QED
    BY <2>1, <2>4 DEF First, Images
<1>5. First(p, k + 1) \subseteq Up
  <2> SUFFICES ASSUME NEW j \in 1 .. k + 1 PROVE p[j] \in S /\ ns[p[j]] <= v
    BY DEF First, Images
  <2>1. j \in 1 .. n /\ (j = k + 1 \/ j < k + 1)
    BY <1>1
  <2>2. s[j] <= v
    BY <1>1, <1>2, <1>3, <2>1 DEF v
  <2> QED
    BY <1>2, <2>1, <2>2
<1>6. Cardinality(Low) <= k
  <2>1. IsFiniteSet(First(p, k)) /\ Cardinality(First(p, k)) = k
    BY <1>1, FirstCard
  <2> HIDE DEF Low
  <2> QED
    BY <1>4, <2>1, FS_Subset
<1>7. Cardinality(Up) > k
  <2>1. Cardinality(First(p, k + 1)) = k + 1
    BY <1>1, FirstCard
  <2>2. IsFiniteSet(Up)
    BY FS_Subset
  <2> HIDE DEF Up
  <2>3. Cardinality(First(p, k + 1)) <= Cardinality(Up) /\ Cardinality(Up) \in Nat
    BY <1>5, <2>2, FS_Subset, FS_CardinalityType
  <2> QED
    BY <1>1, <2>1, <2>3
<1> QED
  BY <1>6, <1>7 DEF AtRank, v

\* Sorting the values of a function ranks them.
LEMMA SortedRanks ==
    ASSUME NEW f, IsFiniteSet(DOMAIN f), \A x \in DOMAIN f : f[x] \in Int
    PROVE  LET n == Cardinality(DOMAIN f)
           IN  /\ DOMAIN Sorted(f) = 1 .. n /\ Len(Sorted(f)) = n
               /\ \E q : Ranked(q, Sorted(f), f, DOMAIN f, n)
<1> DEFINE n == Cardinality(DOMAIN f)
           P(q) == \A j, k \in 1 .. n : j < k => f[q[j]] <= f[q[k]]
           c == CHOOSE q \in Bijection(1 .. n, DOMAIN f) : P(q)
<1>1. n \in Nat
  BY FS_CardinalityType
<1>2. \E q \in Bijection(1 .. n, DOMAIN f) : P(q)
  BY SortExists DEF Sorts
<1>3. c \in Bijection(1 .. n, DOMAIN f) /\ P(c)
  <2> HIDE DEF P
  <2> QED
    BY <1>2
<1>4. Sorted(f) = [k \in 1 .. n |-> f[c[k]]]
  BY DEF Sorted
<1> HIDE DEF c, n
<1>5. /\ c \in [1 .. n -> DOMAIN f] /\ \A j, k \in 1 .. n : c[j] = c[k] => j = k
      /\ \A i \in DOMAIN f : \E k \in 1 .. n : c[k] = i
  BY <1>3 DEF Bijection, Injection, Surjection, IsInjective
<1>6. \A k \in 1 .. n : Sorted(f)[k] = f[c[k]] /\ f[c[k]] \in Int
  BY <1>4, <1>5
<1>7. Ranked(c, Sorted(f), f, DOMAIN f, n)
  BY <1>1, <1>3, <1>5, <1>6 DEF Ranked, n
<1>8. DOMAIN Sorted(f) = 1 .. n /\ Len(Sorted(f)) = n
  BY <1>1, <1>4
<1> QED
  BY <1>7, <1>8 DEF n

\* The mean of them, rounded down.
LEMMA MeanRight ==
    ASSUME NEW p, NEW s, NEW ns, NEW S, IsFiniteSet(S), NEW n, Ranked(p, s, ns, S, n), n > 0,
           DOMAIN s = 1 .. n, \A i \in S : ns[i] \in Nat
    PROVE  LET sum == SumFunctionOnSet(ns, S)
               mean == SumFunction(s) \div n
           IN  mean * n <= sum /\ sum < (mean + 1) * n
<1> DEFINE sum == SumFunctionOnSet(ns, S)
<1>1. n \in Nat /\ n \in Int
  BY DEF Ranked
<1>2. IsFiniteSet(1 .. n)
  <2>1. 1 \in Int
    OBVIOUS
  <2> QED
    BY <1>1, <2>1, FS_Interval
<1>3. Images(p, 1 .. n) = S
  BY DEF Ranked, Images
<1>4. Along(s, ns, p, 1 .. n)
  BY DEF Ranked, Along
<1>5. SumFunctionOnSet(s, 1 .. n) = SumFunctionOnSet(ns, Images(p, 1 .. n))
  BY <1>2, <1>4, SumMap
<1>6. SumFunction(s) = sum
  BY <1>3, <1>5 DEF SumFunction
<1>7. sum \in Nat
  BY SumNat
<1> HIDE DEF sum
<1>8. /\ (sum \div n) * n <= sum /\ sum < ((sum \div n) + 1) * n
  BY <1>1, <1>7, Quotient
<1> QED
  BY <1>6, <1>8 DEF sum

-----------------------------------------------------------------------------
(* From the traces to the rows of the report *)

\* The traces tr are what the report reads: the entries S of the log, which stand d places
\* further on there, and besides them only what idle iterations left.
Reads(tr, n, d, S) ==
    /\ n \in Nat /\ d \in Int /\ DOMAIN tr = 1 .. n
    /\ S \subseteq 1 .. Len(log)
    /\ \A j \in S : j - d \in 1 .. n /\ Shows(tr[j - d], log[j].stamps)
    /\ \A i \in 1 .. n : i + d \in S \/ tr[i].recorded_mask = {"RecvStart"}

\* The traces read and the entries of the log that have all the hops H.
ReadHops(tr, n, H) == {i \in 1 .. n : H \subseteq tr[i].recorded_mask}
WithHops(S, H) == {j \in S : H \subseteq DOMAIN log[j].stamps}

\* The elements of I are those of J less d.
Shifted(I, J, d) ==
    /\ \A i \in I : i \in Int /\ i + d \in J
    /\ \A j \in J : j \in Int /\ j - d \in I

\* Traces and entries with hops that no idle iteration leaves correspond.
LEMMA ReadSame ==
    ASSUME NEW tr, NEW n, NEW d, NEW S, Reads(tr, n, d, S), NEW H, ~(H \subseteq {"RecvStart"})
    PROVE  Shifted(ReadHops(tr, n, H), WithHops(S, H), d)
<1>1. /\ n \in Nat /\ d \in Int /\ S \subseteq Int
      /\ \A j \in S : j - d \in 1 .. n /\ Shows(tr[j - d], log[j].stamps)
      /\ \A i \in 1 .. n : i + d \in S \/ tr[i].recorded_mask = {"RecvStart"}
  BY LenProperties DEF Reads
<1>2. ASSUME NEW i \in ReadHops(tr, n, H)
      PROVE  i \in Int /\ i + d \in WithHops(S, H)
  <2>1. i \in 1 .. n /\ H \subseteq tr[i].recorded_mask /\ i \in Int
    BY DEF ReadHops
  <2>2. i + d \in S
    BY <1>1, <2>1
  <2>3. (i + d) - d = i
    BY <1>1, <2>1
  <2>4. Shows(tr[i], log[i + d].stamps)
    BY <1>1, <2>2, <2>3
  <2> QED
    BY <2>1, <2>2, <2>4 DEF Shows, WithHops
<1>3. ASSUME NEW j \in WithHops(S, H)
      PROVE  j \in Int /\ j - d \in ReadHops(tr, n, H)
  <2>1. j \in S /\ H \subseteq DOMAIN log[j].stamps
    BY DEF WithHops
  <2> QED
    BY <1>1, <2>1 DEF Shows, ReadHops
<1> QED
  BY <1>2, <1>3 DEF Shifted

\* There are as many of both.
LEMMA ReadCount ==
    ASSUME NEW tr, NEW n, NEW d, NEW S, Reads(tr, n, d, S), NEW H, ~(H \subseteq {"RecvStart"})
    PROVE  /\ IsFiniteSet(ReadHops(tr, n, H)) /\ IsFiniteSet(WithHops(S, H))
           /\ Cardinality(ReadHops(tr, n, H)) = Cardinality(WithHops(S, H))
<1> DEFINE I == ReadHops(tr, n, H)
           J == WithHops(S, H)
           h == [i \in I |-> i + d]
<1>1. n \in Nat /\ d \in Int
  BY DEF Reads
<1>2. /\ \A i \in I : i \in Int /\ i + d \in J
      /\ \A j \in J : j \in Int /\ j - d \in I
  BY ReadSame DEF Shifted
<1>3. IsFiniteSet(I)
  <2>1. 1 \in Int /\ n \in Int
    BY <1>1
  <2>2. IsFiniteSet(1 .. n)
    BY <2>1, FS_Interval
  <2>3. I \subseteq 1 .. n
    BY DEF ReadHops
  <2> HIDE DEF I
  <2> QED
    BY <2>2, <2>3, FS_Subset
<1> HIDE DEF I, J
<1>4. h \in [I -> J]
  BY <1>2
<1>5. \A j \in J : \E i \in I : h[i] = j
  <2> SUFFICES ASSUME NEW j \in J PROVE \E i \in I : h[i] = j
    OBVIOUS
  <2>1. j - d \in I /\ (j - d) + d = j
    BY <1>1, <1>2
  <2> QED
    BY <2>1
<1>6. \A i, j \in I : h[i] = h[j] => i = j
  BY <1>1, <1>2
<1> HIDE DEF h
<1>7. h \in Bijection(I, J)
  BY <1>4, <1>5, <1>6 DEF Bijection, Injection, Surjection, IsInjective
<1>8. ExistsBijection(I, J)
  BY <1>7 DEF ExistsBijection
<1>9. IsFiniteSet(J) /\ Cardinality(J) = Cardinality(I)
  BY <1>3, <1>8, FS_Bijection
<1> QED
  BY <1>3, <1>9 DEF I, J

\* The counts of the report.
LEMMA HavingRight ==
    ASSUME NEW tr, NEW n, NEW d, NEW S, Reads(tr, n, d, S), NEW h, h # "RecvStart"
    PROVE  Having(tr, h) = Cardinality({i \in S : h \in DOMAIN log[i].stamps})
<1>1. ~({h} \subseteq {"RecvStart"}) /\ DOMAIN tr = 1 .. n
  BY DEF Reads
<1>2. Cardinality(ReadHops(tr, n, {h})) = Cardinality(WithHops(S, {h}))
  BY <1>1, ReadCount
<1>3. ReadHops(tr, n, {h}) = {i \in DOMAIN tr : has(tr[i], h)}
  BY <1>1 DEF ReadHops, has
<1>4. WithHops(S, {h}) = {i \in S : h \in DOMAIN log[i].stamps}
  BY DEF WithHops
<1> QED
  BY <1>2, <1>3, <1>4 DEF Having

\* Stamps read by time c, in the order of the segments.
InTime(stamps, c) ==
    /\ \A h \in DOMAIN stamps : stamps[h] <= c
    /\ \A s \in per_hop_segments :
            {s[1], s[2]} \subseteq DOMAIN stamps => stamps[s[1]] <= stamps[s[2]]

\* The unsigned difference of two ticks in order is their distance.
LEMMA LatencyIs ==
    ASSUME NEW t, NEW stamps, Shows(t, stamps), NEW f \in DOMAIN stamps, NEW g \in DOMAIN stamps,
           stamps[f] \in Nat, stamps[g] \in Nat, stamps[f] <= stamps[g], stamps[g] < TICK_VALUES
    PROVE  /\ latency_ticks(t, f, g) = stamps[g] - stamps[f]
           /\ stamps[g] - stamps[f] \in Nat
<1> DEFINE a == stamps[g] - stamps[f]
<1>1. TICK_VALUES \in Int /\ TICK_VALUES > 0 /\ a \in Int /\ 0 <= a /\ a < TICK_VALUES
  BY StatsAssumption DEF StatsAssumption
<1>2. t.ticks[f] = stamps[f] /\ t.ticks[g] = stamps[g]
  BY DEF Shows
<1>3. TICK_VALUES + t.ticks[g] - t.ticks[f] = a + TICK_VALUES
  BY <1>1, <1>2
<1>4. ((a + TICK_VALUES) % TICK_VALUES) = a
  <2> HIDE DEF a
  <2> QED
    BY <1>1, Wrap
<1> HIDE DEF a
<1>5. latency_ticks(t, f, g) = a
  BY <1>3, <1>4, Zenon DEF latency_ticks
<1>6. a \in Nat
  BY <1>1
<1> QED
  BY <1>5, <1>6 DEF a

\* The order of the traces read is the order of the entries.
LEMMA RankedShift ==
    ASSUME NEW q, NEW s, NEW f, NEW I, NEW m, Ranked(q, s, f, I, m),
           NEW J, Cardinality(J) = m, NEW ns, NEW d \in Int, Shifted(I, J, d),
           \A i \in I : f[i] = ns[i + d]
    PROVE  Ranked([k \in 1 .. m |-> q[k] + d], s, ns, J, m)
<1> DEFINE p == [k \in 1 .. m |-> q[k] + d]
<1>1. /\ m \in Nat
      /\ q \in [1 .. m -> I]
      /\ \A j, k \in 1 .. m : q[j] = q[k] => j = k
      /\ \A i \in I : \E k \in 1 .. m : q[k] = i
      /\ \A k \in 1 .. m : s[k] = f[q[k]] /\ s[k] \in Int
      /\ \A j, k \in 1 .. m : j < k => s[j] <= s[k]
  BY DEF Ranked
<1>0. /\ \A i \in I : i \in Int /\ i + d \in J /\ f[i] = ns[i + d]
      /\ \A j \in J : j \in Int /\ j - d \in I
  BY DEF Shifted
<1>2. \A k \in 1 .. m : q[k] \in I /\ q[k] \in Int /\ p[k] = q[k] + d
  BY <1>0, <1>1
<1>3. p \in [1 .. m -> J]
  BY <1>0, <1>1
<1> HIDE DEF p
<1>4. \A j, k \in 1 .. m : p[j] = p[k] => j = k
  <2> SUFFICES ASSUME NEW j \in 1 .. m, NEW k \in 1 .. m, p[j] = p[k] PROVE j = k
    OBVIOUS
  <2>1. q[j] = q[k]
    BY <1>2
  <2> QED
    BY <1>1, <2>1
<1>5. \A i \in J : \E k \in 1 .. m : p[k] = i
  <2> SUFFICES ASSUME NEW j \in J PROVE \E k \in 1 .. m : p[k] = j
    OBVIOUS
  <2>1. j - d \in I /\ j \in Int
    BY <1>0
  <2>2. PICK k \in 1 .. m : q[k] = j - d
    BY <1>1, <2>1
  <2> QED
    BY <1>2, <2>1, <2>2
<1>6. \A k \in 1 .. m : s[k] = ns[p[k]] /\ s[k] \in Int
  BY <1>0, <1>1, <1>2
<1>7. Ranked(p, s, ns, J, m)
  BY <1>1, <1>3, <1>4, <1>5, <1>6 DEF Ranked
<1> QED
  BY <1>7 DEF p

\* The nanoseconds of the traces read, and of the entries.
Latencies(tr, n, f, g, rate) ==
    [i \in ReadHops(tr, n, {f, g}) |-> ticks_to_ns(latency_ticks(tr[i], f, g), rate)]
Lasted(S, f, g) == [i \in WithHops(S, {f, g}) |-> log[i].stamps[g] - log[i].stamps[f]]
InNs(S, f, g, rate) ==
    [i \in WithHops(S, {f, g}) |-> (Lasted(S, f, g)[i] * rate[1]) \div rate[2]]

\* The row made of a sorted sequence.
RowFor(sorted) ==
    [samples |-> Len(sorted), min_ns |-> sorted[1], max_ns |-> sorted[Len(sorted)],
     p50_ns  |-> Percentile(sorted, 500), p90_ns  |-> Percentile(sorted, 900),
     p99_ns  |-> Percentile(sorted, 990), p999_ns |-> Percentile(sorted, 999),
     mean_ns |-> SumFunction(sorted) \div Len(sorted)]

\* compute in these terms.
LEMMA ComputeIs ==
    ASSUME NEW tr, NEW n, DOMAIN tr = 1 .. n, NEW f, NEW g, NEW rate
    PROVE  compute(tr, f, g, rate) =
                IF ReadHops(tr, n, {f, g}) = {} THEN NoData
                ELSE RowFor(Sorted(Latencies(tr, n, f, g, rate)))
<1> DEFINE A == {i \in DOMAIN tr : has(tr[i], f) /\ has(tr[i], g)}
           l == [i \in A |-> ticks_to_ns(latency_ticks(tr[i], f, g), rate)]
<1>1. A = ReadHops(tr, n, {f, g})
  BY DEF ReadHops, has
<1>2. l = Latencies(tr, n, f, g, rate)
  <2> HIDE DEF A
  <2> QED
    BY <1>1 DEF Latencies
<1>3. compute(tr, f, g, rate) = IF A = {} THEN NoData ELSE RowFor(Sorted(l))
  BY Zenon DEF compute, RowFor
<1> HIDE DEF A, l
<1> QED
  BY <1>1, <1>2, <1>3, Zenon

SameTimes(tr, n, d, S, f, g, rate) ==
    /\ \A j \in WithHops(S, {f, g}) :
            Lasted(S, f, g)[j] \in Nat /\ InNs(S, f, g, rate)[j] \in Nat
    /\ \A i \in ReadHops(tr, n, {f, g}) :
            Latencies(tr, n, f, g, rate)[i] = InNs(S, f, g, rate)[i + d]

\* Each trace read lasted what its entry says, which is not negative.
LEMMA LatenciesRight ==
    ASSUME NEW tr, NEW n, NEW d, NEW S, Reads(tr, n, d, S), log \in Seq(LogEntry),
           NEW s \in per_hop_segments, NEW c \in Nat, c < TICK_VALUES,
           \A j \in S : InTime(log[j].stamps, c),
           NEW rate, rate[1] \in Nat, rate[2] \in Nat \ {0}
    PROVE  SameTimes(tr, n, d, S, s[1], s[2], rate)
<1> DEFINE f == s[1]
           g == s[2]
<1>1. ~({f, g} \subseteq {"RecvStart"})
  BY DEF per_hop_segments
<1>2. ASSUME NEW j \in WithHops(S, {f, g})
      PROVE  /\ j \in S /\ j - d \in 1 .. n /\ Shows(tr[j - d], log[j].stamps)
             /\ f \in DOMAIN log[j].stamps /\ g \in DOMAIN log[j].stamps
             /\ log[j].stamps[f] \in Nat /\ log[j].stamps[g] \in Nat
             /\ log[j].stamps[f] <= log[j].stamps[g] /\ log[j].stamps[g] < TICK_VALUES
  <2>1. j \in S /\ f \in DOMAIN log[j].stamps /\ g \in DOMAIN log[j].stamps
    BY DEF WithHops
  <2>2. j \in 1 .. Len(log) /\ j - d \in 1 .. n /\ Shows(tr[j - d], log[j].stamps)
    BY <2>1 DEF Reads
  <2>3. log[j] \in LogEntry
    BY <2>2, ElementOfSeq
  <2>4. PICK H \in SUBSET Hop : log[j].stamps \in [H -> Nat]
    BY <2>3 DEF LogEntry
  <2>5. log[j].stamps[f] \in Nat /\ log[j].stamps[g] \in Nat
    BY <2>1, <2>4
  <2>6. log[j].stamps[f] <= log[j].stamps[g] /\ log[j].stamps[g] <= c
    BY <2>1 DEF InTime
  <2>7. TICK_VALUES \in Nat
    BY StatsAssumption DEF StatsAssumption
  <2> QED
    BY <2>1, <2>2, <2>5, <2>6, <2>7
<1>3. ASSUME NEW j \in WithHops(S, {f, g})
      PROVE  /\ Lasted(S, f, g)[j] = log[j].stamps[g] - log[j].stamps[f]
             /\ InNs(S, f, g, rate)[j] = (Lasted(S, f, g)[j] * rate[1]) \div rate[2]
  BY DEF Lasted, InNs
<1>4. ASSUME NEW j \in WithHops(S, {f, g})
      PROVE  Lasted(S, f, g)[j] \in Nat /\ InNs(S, f, g, rate)[j] \in Nat
  <2> DEFINE a == Lasted(S, f, g)[j]
             x == log[j].stamps[f]
             y == log[j].stamps[g]
  <2>1. a \in Nat
    <3>1. x \in Nat /\ y \in Nat /\ x <= y
      BY <1>2
    <3>2. a = y - x
      BY <1>3
    <3> HIDE DEF a, x, y
    <3> QED
      BY <3>1, <3>2
  <2> HIDE DEF a
  <2>2. a * rate[1] \in Nat
    <3>1. \A u, w \in Nat : u * w \in Nat
      OBVIOUS
    <3> QED
      BY <2>1, <3>1
  <2>3. rate[2] \in Int /\ rate[2] > 0
    OBVIOUS
  <2>4. (a * rate[1]) \div rate[2] \in Nat
    BY <2>2, <2>3, Quotient
  <2> QED
    BY <1>3, <2>1, <2>4 DEF a
<1>5. ASSUME NEW i \in ReadHops(tr, n, {f, g})
      PROVE  Latencies(tr, n, f, g, rate)[i] = InNs(S, f, g, rate)[i + d]
  <2>1. i \in Int /\ i + d \in WithHops(S, {f, g}) /\ d \in Int
    <3>1. d \in Int
      BY DEF Reads
    <3> QED
      BY <1>1, <3>1, ReadSame DEF Shifted
  <2>2. (i + d) - d = i
    BY <2>1
  <2> DEFINE st == log[i + d].stamps
  <2>3. /\ Shows(tr[i], st) /\ f \in DOMAIN st /\ g \in DOMAIN st
        /\ st[f] \in Nat /\ st[g] \in Nat /\ st[f] <= st[g] /\ st[g] < TICK_VALUES
    BY <1>2, <2>1, <2>2
  <2> HIDE DEF f, g
  <2>4. InNs(S, f, g, rate)[i + d] = ((st[g] - st[f]) * rate[1]) \div rate[2]
    BY <1>3, <2>1
  <2> HIDE DEF st
  <2>5. latency_ticks(tr[i], f, g) = st[g] - st[f]
    BY <2>3, LatencyIs
  <2>6. Latencies(tr, n, f, g, rate)[i] = ticks_to_ns(latency_ticks(tr[i], f, g), rate)
    BY DEF Latencies
  <2> QED
    BY <2>4, <2>5, <2>6, Zenon DEF ticks_to_ns
<1> HIDE DEF f, g
<1>6. SameTimes(tr, n, d, S, f, g, rate)
  BY <1>4, <1>5 DEF SameTimes
<1> QED
  BY <1>6 DEF f, g

\* The row tells the distribution of the n values of ns on S.
Distribution(row, ns, S, n) ==
    /\ row.samples = n
    /\ n > 0 => /\ AtRank(row.min_ns, 0, ns, S) /\ AtRank(row.max_ns, n - 1, ns, S)
                /\ AtRank(row.p50_ns, (n - 1) \div 2, ns, S)
                /\ AtRank(row.p90_ns, (9 * (n - 1)) \div 10, ns, S)
                /\ AtRank(row.p99_ns, (99 * (n - 1)) \div 100, ns, S)
                /\ AtRank(row.p999_ns, (999 * (n - 1)) \div 1000, ns, S)
                /\ row.mean_ns * n <= SumFunctionOnSet(ns, S)
                /\ SumFunctionOnSet(ns, S) < (row.mean_ns + 1) * n

\* The row made of the values of ns in nondecreasing order tells their distribution.
LEMMA RowForRight ==
    ASSUME NEW p, NEW v, NEW ns, NEW J, IsFiniteSet(J), NEW m, Ranked(p, v, ns, J, m), m > 0,
           DOMAIN v = 1 .. m, Len(v) = m, \A j \in J : ns[j] \in Nat
    PROVE  Distribution(RowFor(v), ns, J, m)
<1> DEFINE k50 == (m - 1) \div 2
           k90 == (9 * (m - 1)) \div 10
           k99 == (99 * (m - 1)) \div 100
           k999 == (999 * (m - 1)) \div 1000
           row == RowFor(v)
           mean == SumFunction(v) \div m
           sum == SumFunctionOnSet(ns, J)
<1>1. m \in Nat
  BY DEF Ranked
<1> HIDE DEF k50, k90, k99, k999, row
<1>2. AtRank(row.min_ns, 0, ns, J)
  <2>1. 0 \in 0 .. m - 1 /\ 1 = 0 + 1
    BY <1>1
  <2>2. row.min_ns = v[1]
    BY DEF row, RowFor
  <2>3. row.min_ns = v[0 + 1]
    BY <2>1, <2>2
  <2>4. AtRank(v[0 + 1], 0, ns, J)
    BY <2>1, RankRight
  <2> QED
    BY <2>3, <2>4, Zenon
<1>3. AtRank(row.max_ns, m - 1, ns, J)
  <2>1. m - 1 \in 0 .. m - 1 /\ m = (m - 1) + 1
    BY <1>1
  <2>2. row.max_ns = v[m]
    BY DEF row, RowFor
  <2>3. row.max_ns = v[(m - 1) + 1]
    BY <2>1, <2>2
  <2>4. AtRank(v[(m - 1) + 1], m - 1, ns, J)
    BY <2>1, RankRight
  <2> QED
    BY <2>3, <2>4, Zenon
<1>4. AtRank(row.p50_ns, k50, ns, J)
  <2> DEFINE place == 1 + (500 * (m - 1)) \div 1000
  <2>1. k50 \in 0 .. m - 1 /\ place = k50 + 1
    BY <1>1 DEF k50
  <2>2. row.p50_ns = v[place]
    BY DEF row, RowFor, Percentile
  <2> HIDE DEF place
  <2>3. row.p50_ns = v[k50 + 1]
    BY <2>1, <2>2
  <2>4. AtRank(v[k50 + 1], k50, ns, J)
    BY <2>1, RankRight
  <2> QED
    BY <2>3, <2>4, Zenon
<1>5. AtRank(row.p90_ns, k90, ns, J)
  <2> DEFINE place == 1 + (900 * (m - 1)) \div 1000
  <2>1. k90 \in 0 .. m - 1 /\ place = k90 + 1
    BY <1>1 DEF k90
  <2>2. row.p90_ns = v[place]
    BY DEF row, RowFor, Percentile
  <2> HIDE DEF place
  <2>3. row.p90_ns = v[k90 + 1]
    BY <2>1, <2>2
  <2>4. AtRank(v[k90 + 1], k90, ns, J)
    BY <2>1, RankRight
  <2> QED
    BY <2>3, <2>4, Zenon
<1>6. AtRank(row.p99_ns, k99, ns, J)
  <2> DEFINE place == 1 + (990 * (m - 1)) \div 1000
  <2>1. k99 \in 0 .. m - 1 /\ place = k99 + 1
    BY <1>1 DEF k99
  <2>2. row.p99_ns = v[place]
    BY DEF row, RowFor, Percentile
  <2> HIDE DEF place
  <2>3. row.p99_ns = v[k99 + 1]
    BY <2>1, <2>2
  <2>4. AtRank(v[k99 + 1], k99, ns, J)
    BY <2>1, RankRight
  <2> QED
    BY <2>3, <2>4, Zenon
<1>7. AtRank(row.p999_ns, k999, ns, J)
  <2> DEFINE place == 1 + (999 * (m - 1)) \div 1000
  <2>1. k999 \in 0 .. m - 1 /\ place = k999 + 1
    BY <1>1 DEF k999
  <2>2. row.p999_ns = v[place]
    BY DEF row, RowFor, Percentile
  <2> HIDE DEF place
  <2>3. row.p999_ns = v[k999 + 1]
    BY <2>1, <2>2
  <2>4. AtRank(v[k999 + 1], k999, ns, J)
    BY <2>1, RankRight
  <2> QED
    BY <2>3, <2>4, Zenon
<1>8. mean * m <= sum /\ sum < (mean + 1) * m
  BY MeanRight
<1>9. row.mean_ns = mean /\ row.samples = m
  BY DEF row, RowFor
<1> HIDE DEF sum, mean
<1>10. row.mean_ns * m <= sum /\ sum < (row.mean_ns + 1) * m
  BY <1>8, <1>9, Zenon
<1>11. /\ AtRank(row.p50_ns, (m - 1) \div 2, ns, J)
       /\ AtRank(row.p90_ns, (9 * (m - 1)) \div 10, ns, J)
       /\ AtRank(row.p99_ns, (99 * (m - 1)) \div 100, ns, J)
       /\ AtRank(row.p999_ns, (999 * (m - 1)) \div 1000, ns, J)
  BY <1>4, <1>5, <1>6, <1>7, Zenon DEF k50, k90, k99, k999
<1>12. Distribution(row, ns, J, m)
  BY <1>2, <1>3, <1>9, <1>10, <1>11, Zenon DEF Distribution, sum
<1> QED
  BY <1>12 DEF row

\* The row is the distribution of the entries' segment.
LEMMA RowIs ==
    ASSUME NEW tr, NEW n, NEW d, NEW S, Reads(tr, n, d, S), log \in Seq(LogEntry),
           NEW s \in per_hop_segments, NEW c \in Nat, c < TICK_VALUES,
           \A j \in S : InTime(log[j].stamps, c),
           NEW rate, rate[1] \in Nat, rate[2] \in Nat \ {0}
    PROVE  RowRight(compute(tr, s[1], s[2], rate), s[1], s[2], S, rate)
<1> DEFINE f == s[1]
           g == s[2]
           H == {f, g}
           I == ReadHops(tr, n, H)
           J == WithHops(S, H)
           lat == Latencies(tr, n, f, g, rate)
           ns == InNs(S, f, g, rate)
           row == compute(tr, f, g, rate)
           m == Cardinality(J)
           v == Sorted(lat)
<1>1. ~(H \subseteq {"RecvStart"})
  BY DEF per_hop_segments
<1>2. Shifted(I, J, d)
  <2> HIDE DEF H
  <2> QED
    BY <1>1, ReadSame
<1>3. IsFiniteSet(I) /\ IsFiniteSet(J) /\ Cardinality(I) = m
  <2> HIDE DEF H
  <2> QED
    BY <1>1, ReadCount
<1>4. /\ \A j \in J : Lasted(S, f, g)[j] \in Nat /\ ns[j] \in Nat
      /\ \A i \in I : lat[i] = ns[i + d]
  <2>1. SameTimes(tr, n, d, S, f, g, rate)
    BY LatenciesRight
  <2> HIDE DEF f, g
  <2> QED
    BY <2>1 DEF SameTimes
<1>5. DOMAIN lat = I
  BY DEF Latencies
<1>6. row = IF I = {} THEN NoData ELSE RowFor(v)
  <2>1. DOMAIN tr = 1 .. n
    BY DEF Reads
  <2> QED
    BY <2>1, ComputeIs
<1>7. d \in Int
  BY DEF Reads
<1>8. \A j \in J : Lasted(S, f, g)[j] = log[j].stamps[g] - log[j].stamps[f]
  BY DEF Lasted
<1>a. {i \in S : {f, g} \subseteq DOMAIN log[i].stamps} = J
  BY DEF WithHops
<1>b. /\ Lasted(S, f, g) = [i \in J |-> log[i].stamps[g] - log[i].stamps[f]]
      /\ ns = [i \in J |-> (Lasted(S, f, g)[i] * rate[1]) \div rate[2]]
  BY DEF Lasted, InNs
<1> HIDE DEF I, J, lat, ns, row, m, v
<1>9. m \in Nat /\ (m = 0 <=> I = {})
  BY <1>3, FS_CardinalityType, FS_EmptySet
<1>10. /\ DOMAIN v = 1 .. m /\ Len(v) = m
       /\ \E q : Ranked(q, v, lat, I, m)
  <2>1. IsFiniteSet(DOMAIN lat) /\ \A x \in DOMAIN lat : lat[x] \in Int
    <3> SUFFICES ASSUME NEW x \in I PROVE lat[x] \in Int
      BY <1>3, <1>5
    <3>1. x + d \in J
      BY <1>2 DEF Shifted
    <3>2. ns[x + d] \in Int
      BY <1>4, <3>1
    <3> QED
      BY <1>4, <3>2
  <2>2. /\ DOMAIN Sorted(lat) = 1 .. Cardinality(DOMAIN lat)
        /\ Len(Sorted(lat)) = Cardinality(DOMAIN lat)
        /\ \E q : Ranked(q, Sorted(lat), lat, DOMAIN lat, Cardinality(DOMAIN lat))
    BY <2>1, SortedRanks
  <2> QED
    BY <1>3, <1>5, <2>2 DEF v
<1>11. PICK p : Ranked(p, v, ns, J, m)
  <2>1. PICK q : Ranked(q, v, lat, I, m)
    BY <1>10
  <2>2. Cardinality(J) = m
    BY DEF m
  <2>3. Ranked([k \in 1 .. m |-> q[k] + d], v, ns, J, m)
    BY <1>2, <1>4, <1>7, <2>1, <2>2, RankedShift
  <2> QED
    BY <2>3
<1>12. row.samples = m
  <2>1. CASE I = {}
    BY <1>6, <1>9, <2>1 DEF NoData
  <2>2. CASE I # {}
    BY <1>6, <1>10, <2>2 DEF RowFor
  <2> QED
    BY <2>1, <2>2
<1>13. ASSUME m > 0 PROVE Distribution(row, ns, J, m)
  <2>1. row = RowFor(v)
    BY <1>6, <1>9, <1>13
  <2>2. Distribution(RowFor(v), ns, J, m)
    BY <1>3, <1>4, <1>10, <1>11, <1>13, RowForRight
  <2> QED
    BY <2>1, <2>2
<1>14. Distribution(row, ns, J, m)
  BY <1>12, <1>13 DEF Distribution
<1> HIDE DEF f, g, H
<1>15. RowRight(row, f, g, S, rate)
  <2> DEFINE A == {i \in S : {f, g} \subseteq DOMAIN log[i].stamps}
             dt == [i \in A |-> log[i].stamps[g] - log[i].stamps[f]]
             t == [i \in A |-> (dt[i] * rate[1]) \div rate[2]]
  <2>1. A = J
    BY <1>a
  <2>2. dt = Lasted(S, f, g)
    <3> HIDE DEF A
    <3> QED
      BY <1>b, <2>1
  <2>3. t = ns
    <3> HIDE DEF A, dt
    <3> QED
      BY <1>b, <2>1, <2>2
  <2> HIDE DEF A, dt, t
  <2>4. \A i \in A : dt[i] >= 0
    BY <1>4, <2>1, <2>2
  <2>5. Cardinality(A) = m
    BY <2>1 DEF m
  <2>6. Distribution(row, t, A, Cardinality(A))
    BY <1>14, <2>1, <2>3, <2>5
  <2> QED
    BY <2>4, <2>6, Zenon DEF RowRight, Distribution, A, dt, t
<1> QED
  BY <1>15 DEF row, f, g

-----------------------------------------------------------------------------
(* The clock *)

\* The clock is read six times in an iteration and twice for a report at most.
ClockBound ==
    /\ iterations \in Nat /\ reports \in Nat
    /\ iterations <= MaxIterations /\ reports <= MaxReports
    /\ pc = "drain" => iterations < MaxIterations /\ clock <= 6 * iterations + 2 * reports + 6
    /\ pc # "drain" => clock <= 6 * iterations + 2 * reports

Before(f, c) == \A id \in 1 .. MaxId : f[id] <= c
AllInTime(l, c) == \A k \in 1 .. Len(l) : InTime(l[k].stamps, c)

\* What was recorded was read by now, and each trace in the order of its hops.
TimesRight ==
    /\ Before(sent_at, clock) /\ Before(acked_at, clock)
    /\ AllInTime(log, clock)

\* At the start nothing was read.
LEMMA TimeInit == Init => ClockBound /\ TimesRight
<1> SUFFICES ASSUME Init PROVE ClockBound /\ TimesRight
  OBVIOUS
<1>1. /\ pc = "loop" /\ clock = 0 /\ iterations = 0 /\ reports = 0 /\ log = << >>
      /\ sent_at = [id \in 1 .. MaxId |-> 0] /\ acked_at = [id \in 1 .. MaxId |-> 0]
  BY DEF Init
<1>2. MaxIterations \in Nat /\ MaxReports \in Nat
  BY TracingAssumption DEF TracingAssumption
<1>3. ClockBound
  BY <1>1, <1>2 DEF ClockBound
<1>4. TimesRight
  BY <1>1 DEF TimesRight, AllInTime, Before
<1> QED
  BY <1>3, <1>4

\* Every step keeps the bound.
LEMMA ClockNext ==
    ASSUME PairInv, ClockBound, [Next]_tvars
    PROVE  ClockBound'
<1>0. /\ clock \in Nat /\ MaxIterations \in Nat /\ MaxReports \in Nat
      /\ iterations \in Nat /\ reports \in Nat
      /\ iterations <= MaxIterations /\ reports <= MaxReports
      /\ pc = "drain" => iterations < MaxIterations /\ clock <= 6 * iterations + 2 * reports + 6
      /\ pc # "drain" => clock <= 6 * iterations + 2 * reports
  BY TracingAssumption DEF PairInv, PairTypes, ClockBound, TracingAssumption
<1>1. CASE (\E sends \in BOOLEAN : Iterate(sends)) \/ IdleIteration
  <2>1. /\ pc = "loop" /\ pc' = "drain" /\ iterations < MaxIterations
        /\ iterations' = iterations /\ reports' = reports
        /\ clock' = clock + 6 \/ clock' = clock + 1
    BY <1>1 DEF Iterate, IdleIteration, Begin
  <2>2. clock' <= 6 * iterations' + 2 * reports' + 6
    BY <1>0, <2>1
  <2> QED
    BY <1>0, <2>1, <2>2 DEF ClockBound
<1>2. CASE \E id \in 1 .. MaxId : OnAck(id) \/ OnOther(id)
  <2>1. /\ pc = "drain" /\ pc' = "drain" /\ reports < MaxReports
        /\ iterations' = iterations /\ reports' = reports + 1 /\ clock' = clock + 2
    BY <1>2 DEF OnAck, OnOther, Draining
  <2>2. clock' <= 6 * iterations' + 2 * reports' + 6 /\ reports' \in Nat /\ reports' <= MaxReports
    BY <1>0, <2>1
  <2> QED
    BY <1>0, <2>1, <2>2 DEF ClockBound
<1>3. CASE EndIteration
  <2>1. /\ pc = "drain" /\ pc' = "loop" /\ iterations' = iterations + 1 /\ reports' = reports
        /\ clock' = clock
    BY <1>3 DEF EndIteration
  <2>2. /\ clock' <= 6 * iterations' + 2 * reports'
        /\ iterations' \in Nat /\ iterations' <= MaxIterations
    BY <1>0, <2>1
  <2> QED
    BY <1>0, <2>1, <2>2 DEF ClockBound
<1>4. CASE \/ SetEnabled \/ Reset
           \/ \E ns \in WindowNs, ticks \in WindowTicks : PrintReport(ns, ticks)
           \/ UNCHANGED tvars
  <2>1. /\ UNCHANGED <<clock, iterations, reports>>
        /\ pc' = pc \/ (pc = "loop" /\ pc' = "done")
    BY <1>4 DEF SetEnabled, Reset, PrintReport, tvars, loopVars
  <2> QED
    BY <1>0, <2>1 DEF ClockBound
<1> QED
  BY <1>1, <1>2, <1>3, <1>4 DEF Next

\* The log stays in time when an entry in time is added to it.
LEMMA TimesGrow ==
    ASSUME NEW l \in Seq(LogEntry), NEW c \in Nat, NEW c1 \in Nat, c <= c1, AllInTime(l, c),
           NEW l1 \in Seq(LogEntry),
           l1 = l \/ l1 = << >> \/ \E e : l1 = Append(l, e) /\ InTime(e.stamps, c1)
    PROVE  AllInTime(l1, c1)
<1>1. ASSUME NEW k \in 1 .. Len(l) PROVE InTime(l[k].stamps, c1)
  <2>1. l[k] \in LogEntry /\ InTime(l[k].stamps, c)
    BY ElementOfSeq DEF AllInTime
  <2>2. PICK H \in SUBSET Hop : l[k].stamps \in [H -> Nat]
    BY <2>1 DEF LogEntry
  <2> DEFINE st == l[k].stamps
  <2>3. \A h \in DOMAIN st : st[h] \in Nat
    BY <2>2
  <2> HIDE DEF st
  <2>4. \A h \in DOMAIN st : st[h] <= c1
    BY <2>1, <2>3 DEF InTime, st
  <2> QED
    BY <2>1, <2>4 DEF InTime, st
<1>2. CASE l1 = l
  BY <1>1, <1>2 DEF AllInTime
<1>3. CASE l1 = << >>
  BY <1>3 DEF AllInTime
<1>4. CASE \E e : l1 = Append(l, e) /\ InTime(e.stamps, c1)
  <2>1. PICK e : l1 = Append(l, e) /\ InTime(e.stamps, c1)
    BY <1>4
  <2>2. e \in LogEntry
    BY <2>1, AppendedIn
  <2>3. /\ Len(l1) = Len(l) + 1 /\ l1[Len(l) + 1] = e /\ \A k \in 1 .. Len(l) : l1[k] = l[k]
        /\ \A k \in 1 .. Len(l) + 1 : k \in 1 .. Len(l) \/ k = Len(l) + 1
    BY <2>1, <2>2, Appended
  <2> QED
    BY <1>1, <2>1, <2>3, Zenon DEF AllInTime
<1> QED
  BY <1>2, <1>3, <1>4

\* The hops of the loop are read one after the other.
LEMMA LoopInTime ==
    ASSUME clock \in Nat, NEW hops, hops \subseteq LoopHops
    PROVE  InTime([h \in hops |-> clock + Offset[h]], clock + 6)
<1>1. /\ Offset["RecvStart"] = 1 /\ Offset["RecvDone"] = 2 /\ Offset["BookUpdated"] = 3
      /\ Offset["StrategyDone"] = 4 /\ Offset["OrderSent"] = 6
  BY DEF Offset
<1>2. \A h \in hops : clock + Offset[h] <= clock + 6
  BY <1>1 DEF LoopHops
<1>3. ASSUME NEW s \in per_hop_segments, s[1] \in hops, s[2] \in hops
      PROVE  clock + Offset[s[1]] <= clock + Offset[s[2]]
  <2>1. /\ s[1] \in LoopHops /\ s[2] \in LoopHops
    BY <1>3
  <2>2. \/ s[1] = "RecvStart" /\ s[2] = "RecvDone"
        \/ s[1] = "RecvDone" /\ s[2] = "BookUpdated"
        \/ s[1] = "BookUpdated" /\ s[2] = "StrategyDone"
        \/ s[1] = "StrategyDone" /\ s[2] = "OrderSent"
    BY <2>1 DEF per_hop_segments, LoopHops
  <2> QED
    BY <1>1, <2>2
<1> QED
  BY <1>2, <1>3 DEF InTime

\* A report's hops are in order when the send of its order was before.
LEMMA ReportInTime ==
    ASSUME clock \in Nat, NEW t \in Nat, t <= clock
    PROVE  /\ InTime([OrderSent |-> t, AckReceived |-> clock + 1, AckProcessed |-> clock + 2],
                     clock + 2)
           /\ InTime([AckReceived |-> t, FillReceived |-> clock + 1, FillProcessed |-> clock + 2],
                     clock + 2)
BY DEF InTime, per_hop_segments

\* Times stay below a later reading of the clock when one of them is set to an earlier.
LEMMA TimesSet ==
    ASSUME NEW f \in [1 .. MaxId -> Nat], NEW c \in Nat, NEW c1 \in Nat, c <= c1,
           Before(f, c), NEW i, NEW t \in Nat, t <= c1,
           NEW f1, f1 = f \/ f1 = [f EXCEPT ![i] = t]
    PROVE  Before(f1, c1)
<1> SUFFICES ASSUME NEW j \in 1 .. MaxId PROVE f1[j] <= c1
  BY DEF Before
<1>1. f[j] \in Nat /\ f[j] <= c1
  BY DEF Before
<1>2. f1[j] = f[j] \/ f1[j] = t
  OBVIOUS
<1> QED
  BY <1>1, <1>2

\* Every step leaves the times right.
LEMMA TimesNext ==
    ASSUME PairInv, PairInv', TimesRight, [Next]_tvars
    PROVE  TimesRight'
<1>0. /\ clock \in Nat /\ clock' \in Nat /\ log \in Seq(LogEntry) /\ log' \in Seq(LogEntry)
      /\ next_id \in Nat /\ next_id >= 1 /\ MaxId \in Nat
      /\ sent_at \in [1 .. MaxId -> Nat] /\ acked_at \in [1 .. MaxId -> Nat]
      /\ AllInTime(log, clock)
      /\ Before(sent_at, clock) /\ Before(acked_at, clock)
  BY TracingAssumption DEF PairInv, PairTypes, TimesRight, TracingAssumption
<1>1. CASE \E sends \in BOOLEAN : Iterate(sends)
  <2>1. PICK sends \in BOOLEAN : Iterate(sends)
    BY <1>1
  <2> DEFINE hops == IF sends THEN LoopHops ELSE LoopHops \ {"OrderSent"}
             stamps == [h \in hops |-> clock + Offset[h]]
             e == [id |-> 0, stamps |-> stamps]
  <2>2. /\ clock' = clock + 6 /\ acked_at' = acked_at
        /\ log' = IF enabled THEN Append(log, e) ELSE log
        /\ \/ sent_at' = sent_at
           \/ next_id <= MaxId /\ sent_at' = [sent_at EXCEPT ![next_id] = clock + 5]
    BY <2>1 DEF Iterate, Begin
  <2>3. InTime(e.stamps, clock')
    <3>1. hops \subseteq LoopHops
      OBVIOUS
    <3> HIDE DEF hops
    <3>2. InTime(stamps, clock + 6)
      BY <1>0, <3>1, LoopInTime
    <3> QED
      BY <2>2, <3>2
  <2> HIDE DEF e
  <2>4. clock <= clock' /\ (log' = log \/ \E x : log' = Append(log, x) /\ InTime(x.stamps, clock'))
    BY <1>0, <2>2, <2>3
  <2>5. AllInTime(log', clock')
    BY <1>0, <2>4, TimesGrow
  <2>6. Before(sent_at', clock') /\ Before(acked_at', clock')
    <3>1. clock + 5 \in Nat /\ clock + 5 <= clock' /\ clock <= clock'
      BY <1>0, <2>2
    <3>2. sent_at' = sent_at \/ sent_at' = [sent_at EXCEPT ![next_id] = clock + 5]
      BY <2>2
    <3>3. Before(sent_at', clock')
      <4>1. /\ sent_at \in [1 .. MaxId -> Nat] /\ clock \in Nat /\ clock' \in Nat
            /\ Before(sent_at, clock)
        BY <1>0
      <4> DEFINE t == clock + 5
      <4>2. t \in Nat /\ t <= clock' /\ (sent_at' = sent_at \/ sent_at' = [sent_at EXCEPT ![next_id] = t])
        BY <3>1, <3>2
      <4> HIDE DEF t
      <4> QED
        BY <3>1, <4>1, <4>2, TimesSet
    <3>4. Before(acked_at', clock')
      <4>1. acked_at' = acked_at
        BY <2>2
      <4> QED
        BY <1>0, <3>1, <4>1, TimesSet
    <3> QED
      BY <3>3, <3>4
  <2> QED
    BY <2>5, <2>6 DEF TimesRight
<1>2. CASE \E id \in 1 .. MaxId : OnAck(id)
  <2>1. PICK id \in 1 .. MaxId : OnAck(id)
    BY <1>2
  <2>2. /\ clock' = clock + 2 /\ sent_at' = sent_at
        /\ acked_at' = acked_at \/ acked_at' = [acked_at EXCEPT ![id] = clock + 1]
    BY <2>1 DEF OnAck, Draining
  <2> DEFINE t == Entry(order_sent_ticks, id).ticks
             stamps == [OrderSent |-> t, AckReceived |-> clock + 1, AckProcessed |-> clock + 2]
             e == [id |-> id, stamps |-> stamps]
  <2>3. log' = log \/ (Has(order_sent_ticks, id) /\ log' = Append(log, e))
    BY <2>1 DEF OnAck, RecordReport
  <2>4. ASSUME Has(order_sent_ticks, id) PROVE InTime(e.stamps, clock')
    <3>1. id \in Nat
      BY <1>0
    <3>2. t = sent_at[id]
      BY <2>4, <3>1, Zenon DEF PairInv, SentRight
    <3>3. t \in Nat /\ t <= clock
      <4> HIDE DEF t
      <4> QED
        BY <1>0, <3>2 DEF Before
    <3> HIDE DEF t
    <3>4. InTime(stamps, clock + 2)
      BY <1>0, <3>3, ReportInTime
    <3> QED
      BY <2>2, <3>4
  <2> HIDE DEF e
  <2>5. clock <= clock' /\ (log' = log \/ \E x : log' = Append(log, x) /\ InTime(x.stamps, clock'))
    BY <1>0, <2>2, <2>3, <2>4
  <2>6. AllInTime(log', clock')
    BY <1>0, <2>5, TimesGrow
  <2>7. Before(sent_at', clock') /\ Before(acked_at', clock')
    <3>1. clock + 1 \in Nat /\ clock + 1 <= clock' /\ clock <= clock'
      BY <1>0, <2>2
    <3>2. acked_at' = acked_at \/ acked_at' = [acked_at EXCEPT ![id] = clock + 1]
      BY <2>2
    <3>3. Before(acked_at', clock')
      BY <1>0, <3>1, <3>2, TimesSet
    <3>4. Before(sent_at', clock')
      <4>1. sent_at' = sent_at
        BY <2>2
      <4> QED
        BY <1>0, <3>1, <4>1, TimesSet
    <3> QED
      BY <3>3, <3>4
  <2> QED
    BY <2>6, <2>7 DEF TimesRight
<1>3. CASE \E id \in 1 .. MaxId : OnOther(id)
  <2>1. PICK id \in 1 .. MaxId : OnOther(id)
    BY <1>3
  <2>2. clock' = clock + 2 /\ sent_at' = sent_at /\ acked_at' = acked_at
    BY <2>1 DEF OnOther, Draining
  <2> DEFINE t == Entry(ack_received_ticks, id).ticks
             stamps == [AckReceived |-> t, FillReceived |-> clock + 1, FillProcessed |-> clock + 2]
             e == [id |-> id, stamps |-> stamps]
  <2>3. log' = log \/ (Has(ack_received_ticks, id) /\ log' = Append(log, e))
    BY <2>1 DEF OnOther, RecordReport
  <2>4. ASSUME Has(ack_received_ticks, id) PROVE InTime(e.stamps, clock')
    <3>1. id \in Nat
      BY <1>0
    <3>2. t = acked_at[id]
      BY <2>4, <3>1, Zenon DEF PairInv, AckedRight
    <3>3. t \in Nat /\ t <= clock
      <4> HIDE DEF t
      <4> QED
        BY <1>0, <3>2 DEF Before
    <3> HIDE DEF t
    <3>4. InTime(stamps, clock + 2)
      BY <1>0, <3>3, ReportInTime
    <3> QED
      BY <2>2, <3>4
  <2> HIDE DEF e
  <2>5. clock <= clock' /\ (log' = log \/ \E x : log' = Append(log, x) /\ InTime(x.stamps, clock'))
    BY <1>0, <2>2, <2>3, <2>4
  <2>6. AllInTime(log', clock')
    BY <1>0, <2>5, TimesGrow
  <2>7. Before(sent_at', clock') /\ Before(acked_at', clock')
    <3>1. clock <= clock'
      BY <1>0, <2>2
    <3> QED
      BY <1>0, <2>2, <3>1, TimesSet
  <2> QED
    BY <2>6, <2>7 DEF TimesRight
<1>4. CASE \/ IdleIteration \/ EndIteration \/ SetEnabled \/ Reset
           \/ \E ns \in WindowNs, ticks \in WindowTicks : PrintReport(ns, ticks)
           \/ UNCHANGED tvars
  <2>1. /\ clock' = clock \/ clock' = clock + 1
        /\ log' = log \/ log' = << >>
        /\ UNCHANGED <<sent_at, acked_at>>
    BY <1>4 DEF IdleIteration, Begin, EndIteration, SetEnabled, Reset, PrintReport, tvars, loopVars,
                tracerVars, ringVars
  <2>2. clock <= clock'
    BY <1>0, <2>1
  <2>3. AllInTime(log', clock')
    BY <1>0, <2>1, <2>2, TimesGrow
  <2>4. Before(sent_at', clock') /\ Before(acked_at', clock')
    BY <1>0, <2>1, <2>2, TimesSet
  <2> QED
    BY <2>3, <2>4 DEF TimesRight
<1> QED
  BY <1>1, <1>2, <1>3, <1>4 DEF Next

-----------------------------------------------------------------------------
(* The report *)

\* What the report reads.
Kept == [i \in 1 .. count |-> trace(i - 1)]

ReportOf(rate) == <<print_report(Kept, rate), rate>>

\* Once the report is printed it is that of the traces kept, with one of the calibrations.
Printed ==
    pc = "done" =>
        \E ns \in WindowNs, ticks \in WindowTicks :
            printed = ReportOf(calibrate_ns_per_tick(ns, ticks))

\* Nothing happens after the report.
LEMMA PrintedNext ==
    ASSUME Printed, [Next]_tvars
    PROVE  Printed'
<1>1. CASE \E ns \in WindowNs, ticks \in WindowTicks : PrintReport(ns, ticks)
  <2>1. PICK ns \in WindowNs, ticks \in WindowTicks : PrintReport(ns, ticks)
    BY <1>1
  <2>2. printed' = ReportOf(calibrate_ns_per_tick(ns, ticks))
    BY <2>1, Zenon DEF PrintReport, ReportOf, Kept
  <2>3. UNCHANGED <<traces, total_count>>
    BY <2>1 DEF PrintReport, tracerVars
  <2>4. Kept' = Kept
    BY <2>3, Zenon DEF Kept, count, trace
  <2>5. printed' = ReportOf(calibrate_ns_per_tick(ns, ticks))'
    BY <2>2, <2>4, Zenon DEF ReportOf
  <2> QED
    BY <2>5, Zenon DEF Printed
<1>2. CASE \/ \E sends \in BOOLEAN : Iterate(sends)
           \/ IdleIteration
           \/ \E id \in 1 .. MaxId : OnAck(id) \/ OnOther(id)
           \/ EndIteration \/ SetEnabled \/ Reset
  <2>1. pc' # "done"
    BY <1>2 DEF Iterate, IdleIteration, Begin, OnAck, OnOther, Draining, EndIteration, SetEnabled,
                Reset, Switching, loopVars
  <2> QED
    BY <2>1 DEF Printed
<1>3. CASE UNCHANGED tvars
  <2>1. UNCHANGED <<pc, printed, traces, total_count>>
    BY <1>3 DEF tvars, loopVars, tracerVars
  <2>2. Kept' = Kept
    BY <2>1, Zenon DEF Kept, count, trace
  <2> QED
    BY <2>1, <2>2, Zenon DEF Printed, ReportOf
<1> QED
  BY <1>1, <1>2, <1>3 DEF Next

\* What the report reads is the log's latest count entries, or all of them but the first
\* when the ring is full and an idle iteration has taken the place of that one.
LEMMA KeptReads ==
    ASSUME CapacityPositive, RingInv, log \in Seq(LogEntry), pc = "done"
    PROVE  \E lost \in {0} \cup (IF count = CAPACITY THEN {1} ELSE {}) :
                Reads(Kept, count, Len(log) - count, Len(log) - count + 1 + lost .. Len(log))
<1> DEFINE n == count
           d == Len(log) - count
<1>1. /\ CAPACITY \in Int /\ CAPACITY > 0 /\ Len(log) \in Nat /\ total_count = Len(log)
      /\ Holds(traces, log) /\ Oldest(traces, log)
  <2>1. in_trace = FALSE /\ total_count \in Nat
    BY DEF RingInv
  <2>2. Len(log) = total_count
    BY <2>1 DEF RingInv
  <2> QED
    BY <2>1, <2>2 DEF RingInv, CapacityPositive
<1>2. /\ n \in Nat /\ d \in Nat /\ n <= CAPACITY /\ d + n = Len(log)
      /\ d = 0 \/ n = CAPACITY
  BY <1>1 DEF count
<1>3. ASSUME NEW j \in 1 .. Len(log), j - d \in 1 .. n
      PROVE  Kept[j - d] = traces[(j - 1) % CAPACITY]
  <2> DEFINE i == j - d - 1
  <2>1. i \in 0 .. count - 1 /\ (total_count - count + 1 + i) - 1 = j - 1 /\ (j - d) - 1 = i
    BY <1>1, <1>2, <1>3
  <2>2. Kept[j - d] = trace((j - d) - 1)
    BY <1>3 DEF Kept
  <2> HIDE DEF i
  <2>3. trace(i) = traces[((total_count - count + 1 + i) - 1) % CAPACITY]
    BY <1>1, <2>1, TraceIs
  <2> QED
    BY <2>1, <2>2, <2>3, Zenon
<1>4. DOMAIN Kept = 1 .. n
  BY DEF Kept
<1> HIDE DEF n, d
<1>5. CASE Latest(traces, log)
  <2> DEFINE S == d + 1 .. Len(log)
  <2>1. /\ S \subseteq 1 .. Len(log)
        /\ \A j \in S : j - d \in 1 .. n /\ j > Len(log) - CAPACITY
        /\ \A i \in 1 .. n : i + d \in S
    BY <1>1, <1>2
  <2> HIDE DEF S
  <2>2. ASSUME NEW j \in S PROVE j - d \in 1 .. n /\ Shows(Kept[j - d], log[j].stamps)
    <3>1. Shows(traces[(j - 1) % CAPACITY], log[j].stamps)
      BY <1>5, <2>1, Zenon DEF Latest
    <3> QED
      BY <1>3, <2>1, <3>1, Zenon
  <2>3. d \in Int
    BY <1>2
  <2>4. Reads(Kept, n, d, S)
    BY <1>2, <1>4, <2>1, <2>2, <2>3, Zenon DEF Reads
  <2>5. d + 1 + 0 = d + 1
    BY <1>2
  <2>6. Reads(Kept, n, d, d + 1 + 0 .. Len(log))
    BY <2>4, <2>5, Zenon DEF S
  <2> QED
    BY <2>6, Zenon DEF n, d
<1>6. CASE ~Latest(traces, log)
  <2> DEFINE S == d + 2 .. Len(log)
  <2>1. traces[Len(log) % CAPACITY].recorded_mask = {"RecvStart"}
    BY <1>1, <1>6 DEF Oldest
  <2>2. n = CAPACITY
    <3> SUFFICES ASSUME n # CAPACITY PROVE FALSE
      OBVIOUS
    <3>1. \A j \in 1 .. Len(log) : j > Len(log) - CAPACITY + 1
      BY <1>1, <1>2
    <3> QED
      BY <1>1, <1>6, <3>1, Zenon DEF Holds, Latest
  <2>3. /\ S \subseteq 1 .. Len(log)
        /\ \A j \in S : j - d \in 1 .. n /\ j > Len(log) - CAPACITY + 1
        /\ \A i \in 1 .. n : i + d \in S \/ i = 1
    BY <1>1, <1>2, <2>2
  <2> HIDE DEF S
  <2>4. ASSUME NEW j \in S PROVE j - d \in 1 .. n /\ Shows(Kept[j - d], log[j].stamps)
    <3>1. Shows(traces[(j - 1) % CAPACITY], log[j].stamps)
      BY <1>1, <2>3, Zenon DEF Holds
    <3> QED
      BY <1>3, <2>3, <3>1, Zenon
  <2>5. Kept[1].recorded_mask = {"RecvStart"}
    <3>1. d + 1 \in 1 .. Len(log) /\ (d + 1) - d = 1 /\ (d + 1) - 1 = d /\ 1 \in 1 .. n
          /\ d + CAPACITY = Len(log) /\ d \in Int
      BY <1>1, <1>2, <2>2
    <3>2. Kept[1] = traces[d % CAPACITY]
      <4>1. (d + 1) - d \in 1 .. n
        BY <3>1
      <4>2. Kept[(d + 1) - d] = traces[((d + 1) - 1) % CAPACITY]
        BY <1>3, <3>1, <4>1, Zenon
      <4> QED
        BY <3>1, <4>2, Zenon
    <3>3. ((d + CAPACITY) % CAPACITY) = (d % CAPACITY)
      BY <1>1, <3>1, Wrap
    <3> QED
      BY <2>1, <3>1, <3>2, <3>3, Zenon
  <2>6. d \in Int
    BY <1>2
  <2>7. \A i \in 1 .. n : i + d \in S \/ Kept[i].recorded_mask = {"RecvStart"}
    BY <2>3, <2>5, Zenon
  <2>8. Reads(Kept, n, d, S)
    BY <1>2, <1>4, <2>3, <2>4, <2>6, <2>7, Zenon DEF Reads
  <2>9. d + 1 + 1 = d + 2
    BY <1>2
  <2>10. Reads(Kept, n, d, d + 1 + 1 .. Len(log))
    BY <2>8, <2>9, Zenon DEF S
  <2> QED
    BY <2>2, <2>10, Zenon DEF n, d
<1> QED
  BY <1>5, <1>6

\* Whatever was overwritten, discarded, switched off or reset before, and for every
\* capacity, every mix of events and every calibration: the printed latency report is the
\* distribution of the latencies that really occurred in the traces still in the ring.
THEOREM ReportIsRight ==
    ASSUME CapacityPositive
    PROVE  Spec => []ReportRight
<1> DEFINE Inv == PairInv /\ RingInv /\ ClockBound /\ TimesRight /\ Printed
<1>1. Init => Inv
  <2>1. Init => Printed
    BY DEF Init, Printed
  <2> QED
    BY <2>1, PairInit, RingInit, TimeInit
<1>2. Inv /\ [Next]_tvars => Inv'
  BY PairNext, RingNext, ClockNext, TimesNext, PrintedNext
<1>3. Inv => ReportRight
  <2> SUFFICES ASSUME PairInv, RingInv, ClockBound, TimesRight, Printed, pc = "done"
               PROVE  ReportRight
    BY DEF ReportRight
  <2>1. log \in Seq(LogEntry) /\ clock \in Nat
    BY DEF PairInv, PairTypes
  <2>2. clock < TICK_VALUES
    <3>1. /\ iterations \in Nat /\ reports \in Nat /\ iterations <= MaxIterations
          /\ reports <= MaxReports /\ clock <= 6 * iterations + 2 * reports
      BY DEF ClockBound
    <3>2. MaxIterations \in Nat /\ MaxReports \in Nat /\ TICK_VALUES \in Nat
          /\ 6 * MaxIterations + 2 * MaxReports < TICK_VALUES
      BY TracingAssumption, StatsAssumption, ClockAssumption
      DEF TracingAssumption, StatsAssumption, ClockAssumption
    <3> QED
      BY <2>1, <3>1, <3>2
  <2>3. PICK lost \in {0} \cup (IF count = CAPACITY THEN {1} ELSE {}) :
            Reads(Kept, count, Len(log) - count, Len(log) - count + 1 + lost .. Len(log))
    BY <2>1, KeptReads
  <2>4. PICK ns \in WindowNs, ticks \in WindowTicks :
            printed = ReportOf(calibrate_ns_per_tick(ns, ticks))
    BY DEF Printed
  <2> DEFINE S == Len(log) - count + 1 + lost .. Len(log)
             rate == calibrate_ns_per_tick(ns, ticks)
             report == print_report(Kept, rate)
  <2>5. Reads(Kept, count, Len(log) - count, S)
    BY <2>3
  <2>6. rate[1] \in Nat /\ rate[2] \in Nat \ {0}
    BY TracingAssumption DEF TracingAssumption, calibrate_ns_per_tick
  <2>7. printed[1] = report /\ printed[2] = rate
    BY <2>4 DEF ReportOf
  <2> HIDE DEF S, rate
  <2>8. \A j \in S : InTime(log[j].stamps, clock)
    BY <2>5 DEF Reads, TimesRight, AllInTime
  <2>9. /\ report.with_data = Cardinality({i \in S : "RecvDone" \in DOMAIN log[i].stamps})
        /\ report.with_orders = Cardinality({i \in S : "OrderSent" \in DOMAIN log[i].stamps})
        /\ report.with_acks = Cardinality({i \in S : "AckProcessed" \in DOMAIN log[i].stamps})
    <3>1. /\ report.with_data = Having(Kept, "RecvDone")
          /\ report.with_orders = Having(Kept, "OrderSent")
          /\ report.with_acks = Having(Kept, "AckProcessed")
      BY DEF print_report
    <3>2. Having(Kept, "RecvDone") = Cardinality({i \in S : "RecvDone" \in DOMAIN log[i].stamps})
      BY <2>5, HavingRight
    <3>3. Having(Kept, "OrderSent") = Cardinality({i \in S : "OrderSent" \in DOMAIN log[i].stamps})
      BY <2>5, HavingRight
    <3>4. Having(Kept, "AckProcessed") =
                Cardinality({i \in S : "AckProcessed" \in DOMAIN log[i].stamps})
      BY <2>5, HavingRight
    <3> QED
      BY <3>1, <3>2, <3>3, <3>4, Zenon
  <2>10. ASSUME NEW s \in per_hop_segments
         PROVE  RowRight(report.rows[s], s[1], s[2], S, rate)
    <3>1. report.rows[s] = compute(Kept, s[1], s[2], rate)
      BY DEF print_report
    <3>2. RowRight(compute(Kept, s[1], s[2], rate), s[1], s[2], S, rate)
      BY <2>1, <2>2, <2>5, <2>6, <2>8, RowIs
    <3> QED
      BY <3>1, <3>2, Zenon
  <2> HIDE DEF report
  <2> QED
    BY <2>7, <2>9, <2>10, Zenon DEF ReportRight, S
<1> QED
  BY <1>1, <1>2, <1>3, PTL DEF Spec

=============================================================================
