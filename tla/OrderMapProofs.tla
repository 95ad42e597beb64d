--------------------------- MODULE OrderMapProofs ---------------------------
(***************************************************************************)
(* Machine-checked proofs about module OrderMap, for every size of the     *)
(* table, every hash and every number of ids: deletion by re-insertion     *)
(* keeps every entry within reach of its home, so that the table is the    *)
(* partial function that the OMS takes it for.                             *)
(***************************************************************************)
EXTENDS OrderMap, Integers, FiniteSetTheorems, TLAPS

-----------------------------------------------------------------------------
(* Round the table *)

\* The position i steps after a, and how many steps p is after a.
Shift(a, i) == IF a + i < ORDER_MAP_SIZE THEN a + i ELSE a + i - ORDER_MAP_SIZE
Dist(a, p) == IF p >= a THEN p - a ELSE p - a + ORDER_MAP_SIZE

\* The table has a position.
LEMMA SizePositive == ORDER_MAP_SIZE \in Nat /\ ORDER_MAP_SIZE > 0
BY MapAssumption DEF MapAssumption

\* A multiple of m that lies less than m from 0 is 0.
LEMMA SmallMultiple ==
    ASSUME NEW m \in Int, m > 0, NEW q \in Int, q * m < m, q * m > -m
    PROVE  q = 0
<1>1. \A n \in Int : n >= 1 => n * m >= m
  OBVIOUS
<1>2. \A n \in Int : n <= -1 => n * m <= -m
  OBVIOUS
<1>3. CASE q >= 1
  BY <1>1, <1>3
<1>4. CASE q <= -1
  BY <1>2, <1>4
<1> QED
  BY <1>3, <1>4

\* The remainder of a number below 2 * m.
LEMMA Remainder ==
    ASSUME NEW m \in Int, m > 0, NEW a \in Int, 0 <= a, a < m + m
    PROVE  (a % m) = IF a < m THEN a ELSE a - m
<1> DEFINE q == a \div m
           r == a % m
<1>1. q \in Int /\ r \in Int /\ 0 <= r /\ r < m /\ a = m * q + r
  OBVIOUS
<1> HIDE DEF q, r
<1>2. q * m \in Int /\ m * q = q * m
  BY <1>1
<1>3. CASE a < m
  <2>1. q = 0
    BY <1>1, <1>2, <1>3, SmallMultiple
  <2>2. r = a
    BY <1>1, <2>1
  <2> QED
    BY <1>3, <2>2 DEF r
<1>4. CASE ~(a < m)
  <2>1. (q - 1) * m = q * m - m
    BY <1>1
  <2>2. (q - 1) * m < m /\ (q - 1) * m > -m
    BY <1>1, <1>2, <1>4, <2>1
  <2>3. q - 1 = 0
    BY <1>1, <2>2, SmallMultiple
  <2>4. r = a - m
    BY <1>1, <1>2, <2>1, <2>3
  <2> QED
    BY <1>4, <2>4 DEF r
<1> QED
  BY <1>3, <1>4

\* Positions are added without remainders.
LEMMA ShiftIs ==
    ASSUME NEW a \in Pos, NEW i \in 0 .. ORDER_MAP_SIZE
    PROVE  (a + i) % ORDER_MAP_SIZE = Shift(a, i)
BY SizePositive, Remainder DEF Pos, Shift

\* Steps and positions correspond.
LEMMA ShiftDist ==
    ASSUME NEW a \in Pos
    PROVE  /\ \A p \in Pos : Dist(a, p) \in Pos /\ Shift(a, Dist(a, p)) = p
           /\ \A i \in Pos : Shift(a, i) \in Pos /\ Dist(a, Shift(a, i)) = i
BY SizePositive DEF Pos, Shift, Dist

\* A set of numbers has a least element.
LEMMA Least ==
    ASSUME NEW n \in Nat, NEW S \in SUBSET (0 .. n), S # {}
    PROVE  \E x \in S : \A y \in S : x <= y
<1> DEFINE B == {0 .. x : x \in S}
           R == StrictSubsetOrdering(0 .. n)
<1>1. FiniteSubsetsOf(0 .. n) = SUBSET (0 .. n)
  <2>1. IsFiniteSet(0 .. n)
    BY FS_Interval
  <2> QED
    BY <2>1, FS_FiniteSubsetsOfFinite
<1>2. IsWellFoundedOn(R, SUBSET (0 .. n))
  BY <1>1, FS_StrictSubsetOrderingWellFounded
<1>3. B \subseteq SUBSET (0 .. n) /\ B # {}
  <2>1. \A x \in S : x \in 0 .. n /\ 0 .. x \subseteq 0 .. n
    OBVIOUS
  <2> QED
    BY <2>1
<1>4. PICK T \in B : \A U \in B : ~ (<<U, T>> \in R)
  <2> HIDE DEF R, B
  <2> QED
    BY <1>2, <1>3, WFMin
<1>5. PICK x \in S : T = 0 .. x
  BY <1>4
<1>6. ASSUME NEW y \in S, y < x PROVE FALSE
  <2>1. x \in Nat /\ y \in Nat /\ 0 .. y \subseteq 0 .. x /\ x \in 0 .. x /\ x \notin 0 .. y
    BY <1>6
  <2>2. 0 .. y \in B /\ 0 .. y # 0 .. x
    BY <2>1
  <2>3. <<0 .. y, T>> \in R
    BY <1>3, <1>4, <1>5, <2>1, <2>2 DEF StrictSubsetOrdering
  <2> QED
    BY <1>4, <2>2, <2>3
<1>7. \A y \in S : x \in Nat /\ y \in Nat
  OBVIOUS
<1> QED
  BY <1>6, <1>7

-----------------------------------------------------------------------------
(* Entries and their homes *)

\* O is a set of occupied positions; home says where the probe for the entry at a
\* position starts.
Homes(O, home) == O \subseteq Pos /\ \A q \in O : home[q] \in Pos

\* No probe for an entry meets a free position on its way.
Gapless(O, home) ==
    \A q \in O, x \in Pos : Dist(home[q], x) < Dist(home[q], q) => x \in O

\* n passes after a hole was made at a: a probe may meet a free position only among
\* those the loop has passed, and only on the way to an entry it has not yet moved;
\* the loop has a free position ahead, r steps from the hole.
PassInv(O, home, a, n, r) ==
    /\ Homes(O, home)
    /\ n < r /\ Shift(a, r) \notin O
    /\ \A q \in O, x \in Pos : Dist(home[q], x) < Dist(home[q], q) =>
            x \in O \/ (Dist(a, x) <= n /\ Dist(a, q) > n)

\* The hole made in a table without gaps.
LEMMA PassStart ==
    ASSUME NEW O, NEW home, Homes(O, home), Gapless(O, home), NEW a \in O, NEW f \in Pos, f \notin O
    PROVE  Dist(a, f) \in Pos /\ PassInv(O \ {a}, home, a, 0, Dist(a, f))
<1>1. a \in Pos /\ a # f
  BY DEF Homes
<1>2. Dist(a, f) \in Pos /\ Shift(a, Dist(a, f)) = f /\ Dist(a, a) = 0
  <2>1. Dist(a, a) = 0
    BY <1>1, SizePositive DEF Pos, Dist
  <2> QED
    BY <1>1, <2>1, ShiftDist
<1>3. Dist(a, f) > 0
  BY <1>1, SizePositive DEF Dist, Pos
<1>4. ASSUME NEW q \in O \ {a}, NEW x \in Pos, Dist(home[q], x) < Dist(home[q], q)
      PROVE  x \in O \ {a} \/ (Dist(a, x) <= 0 /\ Dist(a, q) > 0)
  <2>1. x \in O
    BY <1>4 DEF Gapless
  <2>2. Dist(a, q) > 0
    <3>1. q \in Pos
      BY <1>4 DEF Homes
    <3> QED
      BY <1>1, <1>4, <3>1, SizePositive DEF Dist, Pos
  <2> QED
    BY <1>2, <2>1, <2>2
<1> QED
  BY <1>2, <1>3, <1>4 DEF PassInv, Homes

\* Positions between a and an entry, as the probe for the entry sees them.
LEMMA Turn ==
    ASSUME NEW a \in Pos, NEW h \in Pos, NEW x \in Pos, NEW q \in Pos, NEW f \in Pos,
           Dist(h, x) < Dist(h, q)
    PROVE  /\ Dist(a, q) < Dist(a, x) /\ Dist(a, x) < Dist(a, f) => Dist(h, f) < Dist(h, q)
           /\ Dist(a, x) < Dist(a, f) /\ Dist(a, f) < Dist(a, q) => Dist(h, f) < Dist(h, q)
BY SizePositive DEF Pos, Dist

\* A pass takes the entry at the next position out and puts it at g, the first free
\* position from its home.
LEMMA PassMoves ==
    ASSUME NEW a \in Pos, NEW n \in Nat, NEW r \in Pos, NEW O, NEW home,
           PassInv(O, home, a, n, r), NEW e \in O, e = Shift(a, n + 1), n + 1 < r,
           NEW g \in Pos, g \notin O \ {e},
           \A x \in Pos : Dist(home[e], x) < Dist(home[e], g) => x \in O \ {e},
           NEW P, P = (O \ {e}) \cup {g},
           NEW moved, moved[g] = home[e], \A q \in O \ {e} : moved[q] = home[q]
    PROVE  PassInv(P, moved, a, n + 1, r)
<1>1. /\ O \subseteq Pos /\ \A q \in O : home[q] \in Pos
      /\ n < r /\ Shift(a, r) \notin O
      /\ \A q \in O, x \in Pos : Dist(home[q], x) < Dist(home[q], q) =>
            x \in O \/ (Dist(a, x) <= n /\ Dist(a, q) > n)
  BY DEF PassInv, Homes
<1>2. e \in Pos /\ n + 1 \in Pos /\ Dist(a, e) = n + 1
  <2>1. n + 1 \in Pos
    BY SizePositive DEF Pos
  <2> QED
    BY <1>1, <2>1, ShiftDist
<1>3. Shift(a, r) \in Pos /\ Dist(a, Shift(a, r)) = r
  BY ShiftDist
<1>4. g = e \/ (g \notin O /\ Dist(a, g) <= n)
  <2> SUFFICES ASSUME g # e PROVE g \notin O /\ Dist(a, g) <= n
    OBVIOUS
  <2>1. ~(Dist(home[e], e) < Dist(home[e], g))
    BY <1>2
  <2>2. Dist(home[e], e) # Dist(home[e], g)
    <3>1. home[e] \in Pos
      BY <1>1
    <3>2. Shift(home[e], Dist(home[e], e)) = e /\ Shift(home[e], Dist(home[e], g)) = g
      BY <1>2, <3>1, ShiftDist
    <3> QED
      BY <3>2, Zenon
  <2>3. Dist(home[e], g) < Dist(home[e], e)
    <3>1. Dist(home[e], g) \in Pos /\ Dist(home[e], e) \in Pos
      BY <1>1, <1>2, ShiftDist
    <3>2. Dist(home[e], g) \in Int /\ Dist(home[e], e) \in Int
      BY <3>1, SizePositive DEF Pos
    <3> QED
      BY <2>1, <2>2, <3>2
  <2> QED
    BY <1>1, <2>3
<1>5. Homes(P, moved)
  <2>1. home[e] \in Pos /\ \A q \in O \ {e} : moved[q] \in Pos
    BY <1>1
  <2>2. ASSUME NEW q \in P PROVE q \in Pos /\ moved[q] \in Pos
    BY <1>1, <2>1
  <2> QED
    BY <2>2 DEF Homes
<1>6. Shift(a, r) \notin P
  <2>1. r \in Int /\ r # n + 1 /\ ~(r <= n)
    BY SizePositive DEF Pos
  <2>2. Shift(a, r) # e /\ Shift(a, r) # g
    BY <1>2, <1>3, <1>4, <2>1
  <2> QED
    BY <1>1, <2>2
<1>7. ASSUME NEW q \in P, NEW x \in Pos, Dist(moved[q], x) < Dist(moved[q], q)
      PROVE  x \in P \/ (Dist(a, x) <= n + 1 /\ Dist(a, q) > n + 1)
  <2>1. CASE q = g
    BY <1>7, <2>1
  <2>2. CASE q # g
    <3>1. q \in O \ {e} /\ moved[q] = home[q] /\ Dist(home[q], x) < Dist(home[q], q)
      BY <1>7, <2>2
    <3>2. x \in O \/ (Dist(a, x) <= n /\ Dist(a, q) > n)
      BY <1>1, <3>1
    <3>3. q \in Pos /\ home[q] \in Pos /\ Dist(a, q) \in Pos /\ Dist(a, x) \in Pos
      BY <1>1, <3>1, ShiftDist
    <3>4. Dist(a, q) # n + 1
      BY <1>2, <3>1, <3>3, ShiftDist
    <3>5. CASE Dist(a, q) > n
      <4>1. Dist(a, q) > n + 1
        BY <3>3, <3>4, <3>5 DEF Pos
      <4>2. x = e \/ x \in P \/ Dist(a, x) <= n
        BY <3>2
      <4>3. Dist(a, x) <= n => Dist(a, x) <= n + 1
        BY <3>3 DEF Pos
      <4>4. x = e => Dist(a, x) <= n + 1
        BY <1>2
      <4> QED
        BY <4>1, <4>2, <4>3, <4>4
    <3>6. CASE ~(Dist(a, q) > n)
      <4>1. ASSUME x = e PROVE FALSE
        <5>1. Dist(a, q) < Dist(a, x) /\ Dist(a, x) < Dist(a, Shift(a, r))
          BY <1>2, <1>3, <3>3, <3>6, <4>1 DEF Pos
        <5>2. Dist(home[q], Shift(a, r)) < Dist(home[q], q)
          <6> DEFINE f == Shift(a, r)
                     h == home[q]
          <6>1. f \in Pos /\ h \in Pos /\ q \in Pos /\ Dist(h, x) < Dist(h, q)
            BY <1>3, <3>1, <3>3
          <6>2. Dist(a, q) < Dist(a, x) /\ Dist(a, x) < Dist(a, f)
            BY <5>1
          <6> HIDE DEF f, h
          <6>3. Dist(h, f) < Dist(h, q)
            BY <6>1, <6>2, Turn
          <6> QED
            BY <6>3 DEF f, h
        <5>3. Shift(a, r) \in O
          BY <1>1, <1>3, <3>1, <3>6, <5>2
        <5> QED
          BY <1>1, <5>3
      <4> QED
        BY <3>2, <3>6, <4>1
    <3> QED
      BY <3>5, <3>6
  <2> QED
    BY <2>1, <2>2
<1> QED
  BY <1>5, <1>6, <1>7 DEF PassInv

\* The loop ends at the first free position, and the table has no gaps again.
LEMMA PassEnd ==
    ASSUME NEW a \in Pos, NEW n \in Nat, n + 1 \in Pos, NEW r, NEW O, NEW home,
           PassInv(O, home, a, n, r), Shift(a, n + 1) \notin O
    PROVE  Gapless(O, home)
<1> DEFINE f == Shift(a, n + 1)
<1>1. f \in Pos /\ Dist(a, f) = n + 1
  BY ShiftDist
<1> HIDE DEF f
<1>2. ASSUME NEW q \in O, NEW x \in Pos, Dist(home[q], x) < Dist(home[q], q), x \notin O
      PROVE  FALSE
  <2>1. Dist(a, x) <= n /\ Dist(a, q) > n /\ q \in Pos /\ home[q] \in Pos
    BY <1>2 DEF PassInv, Homes
  <2>2. Dist(a, x) \in Pos /\ Dist(a, q) \in Pos /\ Dist(a, q) # n + 1
    BY <1>2, <2>1, ShiftDist DEF f
  <2>3. Dist(a, x) < Dist(a, f) /\ Dist(a, f) < Dist(a, q)
    BY <1>1, <2>1, <2>2 DEF Pos
  <2>4. Dist(home[q], f) < Dist(home[q], q)
    BY <1>1, <1>2, <2>1, <2>3, Turn
  <2>5. f \in O \/ Dist(a, f) <= n
    BY <1>1, <1>2, <2>4 DEF PassInv
  <2> QED
    BY <1>1, <2>5 DEF f
<1> QED
  BY <1>2 DEF Gapless

-----------------------------------------------------------------------------
(* Probes *)

MapEntry == [id : Ids \cup {0}, slot : Slots, occupied : BOOLEAN]
Table == [Pos -> MapEntry]
Hashes == map_hash \in [Ids -> Pos]

Occ(m) == {p \in Pos : m[p].occupied}
Home(m) == [p \in Occ(m) |-> map_hash[m[p].id]]

\* No position on a probe's way to p is in S.
Before(id, p, S) == \A x \in Pos : Dist(map_hash[id], x) < Dist(map_hash[id], p) => x \notin S

\* Probes go step by step from the home position.
LEMMA ProbeIs ==
    ASSUME Hashes, NEW id \in Ids, NEW i \in Pos
    PROVE  map_hash[id] \in Pos /\ Probe(id, i) = Shift(map_hash[id], i)
<1>1. map_hash[id] \in Pos /\ i \in 0 .. ORDER_MAP_SIZE
  BY SizePositive DEF Hashes, Pos
<1> QED
  BY <1>1, ShiftIs DEF Probe

\* FirstStep finds the first position of S, seen from the home of id.
LEMMA FirstStepFinds ==
    ASSUME Hashes, NEW id \in Ids, NEW S \in SUBSET Pos, S # {}
    PROVE  /\ FirstStep(id, S) \in Pos /\ Probe(id, FirstStep(id, S)) \in S
           /\ Before(id, Probe(id, FirstStep(id, S)), S)
<1> DEFINE h == map_hash[id]
           I == {i \in Pos : Probe(id, i) \in S}
           Fits(i) == i \in Pos /\ Probe(id, i) \in S /\ \A j \in 0 .. i - 1 : Probe(id, j) \notin S
<1>1. h \in Pos /\ \A i \in Pos : Probe(id, i) = Shift(h, i)
  <2>1. h \in Pos
    BY DEF Hashes
  <2> QED
    BY <2>1, ProbeIs
<1> HIDE DEF h
<1>2. I # {}
  <2>1. PICK p \in S : TRUE
    OBVIOUS
  <2>2. Dist(h, p) \in Pos /\ Probe(id, Dist(h, p)) = p
    BY <1>1, <2>1, ShiftDist
  <2> QED
    BY <2>1, <2>2
<1>3. \E i : Fits(i)
  <2>1. ORDER_MAP_SIZE - 1 \in Nat /\ I \in SUBSET (0 .. ORDER_MAP_SIZE - 1)
    BY SizePositive DEF Pos
  <2> HIDE DEF I
  <2>2. PICK i \in I : \A y \in I : i <= y
    BY <1>2, <2>1, Least
  <2>3. i \in Pos /\ Probe(id, i) \in S
    BY <2>2 DEF I
  <2>4. ASSUME NEW j \in 0 .. i - 1, Probe(id, j) \in S PROVE FALSE
    <3>1. j \in Pos /\ ~(i <= j)
      BY <2>3, <2>4, SizePositive DEF Pos
    <3>2. j \in I
      BY <2>4, <3>1 DEF I
    <3> QED
      BY <2>2, <3>1, <3>2
  <2> QED
    BY <2>3, <2>4
<1> DEFINE k == FirstStep(id, S)
<1>4. Fits(k)
  <2>1. \E i \in Pos : Probe(id, i) \in S
    BY <1>3
  <2>2. k = CHOOSE i \in Pos : Probe(id, i) \in S /\ \A j \in 0 .. i - 1 : Probe(id, j) \notin S
    BY <2>1 DEF FirstStep
  <2> HIDE DEF k
  <2> QED
    BY <1>3, <2>2
<1> HIDE DEF k
<1>5. ASSUME NEW x \in Pos, Dist(h, x) < Dist(h, Probe(id, k)) PROVE x \notin S
  <2>1. k \in Pos /\ Dist(h, Probe(id, k)) = k
    BY <1>1, <1>4, ShiftDist
  <2>2. Dist(h, x) \in Pos /\ Probe(id, Dist(h, x)) = x
    BY <1>1, ShiftDist
  <2>3. Dist(h, x) \in 0 .. k - 1
    BY <1>5, <2>1, <2>2, SizePositive DEF Pos
  <2> QED
    BY <1>4, <2>2, <2>3
<1>6. Before(id, Probe(id, k), S)
  BY <1>5 DEF Before, h
<1> QED
  BY <1>4, <1>6 DEF k

\* map_insert writes to the first free position.
LEMMA InsertFinds ==
    ASSUME Hashes, NEW id \in Ids, NEW slot \in Slots, NEW m, Occ(m) # Pos
    PROVE  \E g \in Pos \ Occ(m) :
              /\ Before(id, g, Pos \ Occ(m))
              /\ map_insert(m, id, slot) =
                    [m EXCEPT ![g] = [id |-> id, slot |-> slot, occupied |-> TRUE]]
<1> DEFINE S == {p \in Pos : ~ m[p].occupied}
           k == FirstStep(id, S)
<1>1. S = Pos \ Occ(m) /\ S \in SUBSET Pos /\ S # {}
  BY DEF Occ
<1> HIDE DEF S
<1>2. k \in Pos /\ Probe(id, k) \in S /\ Before(id, Probe(id, k), S)
  BY <1>1, FirstStepFinds
<1>3. k < ORDER_MAP_SIZE
  BY <1>2, SizePositive DEF Pos
<1>4. map_insert(m, id, slot) =
        IF k < ORDER_MAP_SIZE
        THEN [m EXCEPT ![Probe(id, k)] = [id |-> id, slot |-> slot, occupied |-> TRUE]]
        ELSE m
  BY Zenon DEF map_insert, S
<1> HIDE DEF k
<1>5. map_insert(m, id, slot) = [m EXCEPT ![Probe(id, k)] = [id |-> id, slot |-> slot, occupied |-> TRUE]]
  BY <1>3, <1>4
<1> QED
  BY <1>1, <1>2, <1>5, Zenon

\* Every entry has an id of its own.
Keyed(m) == \A p \in Occ(m) : m[p].id \in Ids
Unique(m) == \A p, q \in Occ(m) : m[p].id = m[q].id => p = q

Stored(m, id) == \E p \in Occ(m) : m[p].id = id

\* map_find finds an entry that no gap cuts off from its home.
LEMMA FindStored ==
    ASSUME Hashes, NEW m, Keyed(m), Unique(m), Gapless(Occ(m), Home(m)), NEW p \in Occ(m)
    PROVE  map_find(m, m[p].id) = p
<1> DEFINE id == m[p].id
           S == {q \in Pos : ~ m[q].occupied \/ m[q].id = id}
           k == FirstStep(id, S)
           g == Probe(id, k)
<1>1. id \in Ids /\ p \in Pos /\ p \in S /\ S \in SUBSET Pos
  BY DEF Keyed, Occ
<1>2. map_hash[id] \in Pos /\ Home(m)[p] = map_hash[id]
  BY <1>1 DEF Hashes, Home
<1>3. map_find(m, id) =
        IF k < ORDER_MAP_SIZE /\ m[g].occupied THEN g ELSE ORDER_MAP_SIZE
  BY Zenon DEF map_find
<1>4. \A q \in S : q \in Occ(m) => q = p
  <2> SUFFICES ASSUME NEW q \in S, q \in Occ(m) PROVE q = p
    OBVIOUS
  <2>1. m[q].occupied
    BY DEF Occ
  <2>2. m[q].id = m[p].id
    BY <2>1
  <2> QED
    BY <2>2 DEF Unique
<1>5. \A q \in Occ(m) : m[q].occupied
  BY DEF Occ
<1> HIDE DEF id, S
<1>6. k \in Pos /\ g \in S /\ Before(id, g, S)
  BY <1>1, FirstStepFinds
<1>7. k < ORDER_MAP_SIZE
  BY <1>6, SizePositive DEF Pos
<1> HIDE DEF k, g
<1>8. g = p
  <2> SUFFICES ASSUME g # p PROVE FALSE
    OBVIOUS
  <2>1. ~(Dist(map_hash[id], p) < Dist(map_hash[id], g))
    BY <1>1, <1>6 DEF Before
  <2>2. g \in Pos /\ g \notin Occ(m)
    BY <1>1, <1>4, <1>6
  <2>3. ~(Dist(map_hash[id], g) < Dist(map_hash[id], p))
    BY <1>2, <2>2 DEF Gapless
  <2>4. Dist(map_hash[id], g) = Dist(map_hash[id], p)
    <3>1. Dist(map_hash[id], g) \in Pos /\ Dist(map_hash[id], p) \in Pos
      BY <1>1, <1>2, <2>2, ShiftDist
    <3> QED
      BY <2>1, <2>3, <3>1, SizePositive DEF Pos
  <2>5. /\ Shift(map_hash[id], Dist(map_hash[id], g)) = g
        /\ Shift(map_hash[id], Dist(map_hash[id], p)) = p
    BY <1>1, <1>2, <2>2, ShiftDist
  <2> QED
    BY <2>4, <2>5
<1>9. map_find(m, id) = p
  BY <1>3, <1>5, <1>7, <1>8
<1> QED
  BY <1>9 DEF id

\* map_find misses an id without an entry.
LEMMA FindMissing ==
    ASSUME Hashes, NEW m, NEW id \in Ids, ~ Stored(m, id)
    PROVE  map_find(m, id) = ORDER_MAP_SIZE
<1> DEFINE S == {q \in Pos : ~ m[q].occupied \/ m[q].id = id}
           k == FirstStep(id, S)
           g == Probe(id, k)
<1>1. map_find(m, id) =
        IF k < ORDER_MAP_SIZE /\ m[g].occupied THEN g ELSE ORDER_MAP_SIZE
  BY Zenon DEF map_find
<1>2. \A q \in S : ~ m[q].occupied
  BY DEF Stored, Occ
<1>3. S \in SUBSET Pos
  OBVIOUS
<1>4. CASE S = {}
  <2>1. ~ \E i \in Pos : Probe(id, i) \in S
    BY <1>4
  <2>2. k = ORDER_MAP_SIZE
    BY <2>1, Zenon DEF FirstStep
  <2>3. ~(k < ORDER_MAP_SIZE)
    BY <2>2, SizePositive
  <2> QED
    BY <1>1, <2>3
<1>5. CASE S # {}
  <2> HIDE DEF S
  <2>1. g \in S
    BY <1>3, <1>5, FirstStepFinds
  <2> QED
    BY <1>1, <1>2, <2>1
<1> QED
  BY <1>4, <1>5

-----------------------------------------------------------------------------
(* One pass of the loop *)

\* What a table holds, whatever the positions.
Content(m) == {<<m[p].id, m[p].slot>> : p \in Occ(m)}

\* The entry at e is now at g, the others are where they were.
Moved(m, t, e, g) ==
    /\ t \in Table /\ g \notin Occ(m) \ {e} /\ Occ(t) = (Occ(m) \ {e}) \cup {g}
    /\ \A q \in Occ(m) \ {e} : t[q] = m[q]
    /\ t[g].id = m[e].id /\ t[g].slot = m[e].slot

\* Reinsert moves an entry to the first position that is free without it.
LEMMA ReinsertMoves ==
    ASSUME Hashes, NEW m \in Table, Keyed(m), NEW e \in Occ(m)
    PROVE  \E g \in Pos : Moved(m, Reinsert(m, e), e, g) /\ Before(m[e].id, g, Pos \ (Occ(m) \ {e}))
<1> DEFINE c == Cleared(m, e)
           new == [id |-> m[e].id, slot |-> m[e].slot, occupied |-> TRUE]
<1>1. e \in Pos /\ m[e].id \in Ids /\ m[e].slot \in Slots /\ m[e] \in MapEntry
  BY DEF Keyed, Occ, Table, MapEntry
<1>2. c \in Table /\ (\A q \in Pos \ {e} : c[q] = m[q]) /\ c[e].occupied = FALSE
  BY <1>1 DEF Cleared, Table, MapEntry
<1>3. new \in MapEntry /\ new.occupied = TRUE
  BY <1>1 DEF MapEntry
<1>4. Occ(c) = Occ(m) \ {e}
  BY <1>1, <1>2 DEF Occ
<1> HIDE DEF c
<1>5. Occ(c) # Pos
  BY <1>1, <1>4
<1>6. PICK g \in Pos \ Occ(c) :
        Before(m[e].id, g, Pos \ Occ(c)) /\ map_insert(c, m[e].id, m[e].slot) = [c EXCEPT ![g] = new]
  BY <1>1, <1>5, InsertFinds
<1> DEFINE t == [c EXCEPT ![g] = new]
<1>7. Reinsert(m, e) = t
  BY <1>6 DEF Reinsert, c
<1> HIDE DEF new
<1>8. t \in Table /\ t[g] = new /\ \A q \in Pos \ {g} : t[q] = c[q]
  BY <1>2, <1>3, <1>6 DEF Table
<1> HIDE DEF t
<1>9. Occ(t) = Occ(c) \cup {g}
  BY <1>3, <1>6, <1>8 DEF Occ
<1>10. \A q \in Occ(m) \ {e} : t[q] = m[q]
  BY <1>2, <1>4, <1>6, <1>8 DEF Occ
<1>11. t[g].id = m[e].id /\ t[g].slot = m[e].slot
  BY <1>8 DEF new
<1>12. Moved(m, t, e, g)
  BY <1>4, <1>6, <1>8, <1>9, <1>10, <1>11 DEF Moved
<1> QED
  BY <1>4, <1>6, <1>7, <1>12

\* A move keeps what the table holds.
LEMMA MoveKeeps ==
    ASSUME NEW m, NEW t, NEW e \in Occ(m), NEW g, Moved(m, t, e, g), Keyed(m), Unique(m),
           IsFiniteSet(Occ(m))
    PROVE  /\ Keyed(t) /\ Unique(t) /\ Content(t) = Content(m)
           /\ IsFiniteSet(Occ(t)) /\ Cardinality(Occ(t)) = Cardinality(Occ(m))
<1>1. /\ g \notin Occ(m) \ {e} /\ Occ(t) = (Occ(m) \ {e}) \cup {g}
      /\ \A q \in Occ(m) \ {e} : t[q] = m[q]
      /\ t[g].id = m[e].id /\ t[g].slot = m[e].slot
  BY DEF Moved
<1>2. Keyed(t)
  BY <1>1 DEF Keyed
<1>3. Unique(t)
  BY <1>1 DEF Unique
<1>4. Content(t) = Content(m)
  BY <1>1 DEF Content
<1>5. IsFiniteSet(Occ(m) \ {e}) /\ Cardinality(Occ(m) \ {e}) = Cardinality(Occ(m)) - 1
  BY FS_RemoveElement
<1>6. IsFiniteSet(Occ(t)) /\ Cardinality(Occ(t)) = Cardinality(Occ(m) \ {e}) + 1
  BY <1>1, <1>5, FS_AddElement
<1>7. Cardinality(Occ(m)) \in Nat
  BY FS_CardinalityType
<1> QED
  BY <1>2, <1>3, <1>4, <1>5, <1>6, <1>7

-----------------------------------------------------------------------------
(* The loop of map_remove *)

LoopStart(m) == [table |-> m, ended |-> FALSE]

\* g is the recursive function of RehashLoop, over the first k passes.
IsLoop(g, m, pos, k) ==
    g = [n \in 0 .. k |-> IF n = 0 THEN LoopStart(m) ELSE RehashPass(g[n - 1], pos, n)]

\* There is such a function.
LEMMA LoopExists ==
    ASSUME NEW m, NEW pos
    PROVE  \E g : IsLoop(g, m, pos, ORDER_MAP_SIZE)
<1> DEFINE B == {k \in 0 .. ORDER_MAP_SIZE : ~ \E g : IsLoop(g, m, pos, k)}
<1> SUFFICES ASSUME ~ \E g : IsLoop(g, m, pos, ORDER_MAP_SIZE) PROVE FALSE
  OBVIOUS
<1>1. ORDER_MAP_SIZE \in B /\ B \in SUBSET (0 .. ORDER_MAP_SIZE) /\ ORDER_MAP_SIZE \in Nat
  BY SizePositive
<1> HIDE DEF B
<1>2. PICK k \in B : \A y \in B : k <= y
  BY <1>1, Least
<1>3. k \in 0 .. ORDER_MAP_SIZE /\ ~ \E g : IsLoop(g, m, pos, k)
  BY <1>2 DEF B
<1>4. CASE k = 0
  <2> DEFINE g == [n \in 0 .. 0 |-> LoopStart(m)]
  <2>1. IsLoop(g, m, pos, 0)
    BY DEF IsLoop
  <2> QED
    BY <1>3, <1>4, <2>1
<1>5. CASE k # 0
  <2>1. k \in Nat /\ k - 1 \in 0 .. ORDER_MAP_SIZE /\ ~(k <= k - 1)
    BY <1>3, <1>5, SizePositive
  <2>2. PICK f : IsLoop(f, m, pos, k - 1)
    BY <1>2, <2>1 DEF B
  <2>3. \A n \in 0 .. k - 1 : f[n] = IF n = 0 THEN LoopStart(m) ELSE RehashPass(f[n - 1], pos, n)
    <3>1. f = [n \in 0 .. k - 1 |-> IF n = 0 THEN LoopStart(m) ELSE RehashPass(f[n - 1], pos, n)]
      BY <2>2 DEF IsLoop
    <3> QED
      BY <3>1
  <2> DEFINE g == [n \in 0 .. k |-> IF n = k THEN RehashPass(f[k - 1], pos, k) ELSE f[n]]
             G(n) == IF n = 0 THEN LoopStart(m) ELSE RehashPass(g[n - 1], pos, n)
  <2>4. \A n \in 0 .. k - 1 : g[n] = f[n]
    BY <2>1
  <2>5. ASSUME NEW n \in 0 .. k PROVE g[n] = G(n)
    <3>1. CASE n = k
      <4>1. g[k] = RehashPass(f[k - 1], pos, k) /\ g[k - 1] = f[k - 1]
        BY <2>1, <2>4, <1>5
      <4> QED
        BY <1>5, <3>1, <4>1
    <3>2. CASE n # k
      <4>1. n \in 0 .. k - 1 /\ (n # 0 => n - 1 \in 0 .. k - 1)
        BY <2>1, <3>2
      <4>2. g[n] = f[n] /\ (n # 0 => g[n - 1] = f[n - 1])
        BY <2>4, <4>1
      <4> HIDE DEF g
      <4> QED
        BY <2>3, <4>1, <4>2
    <3> QED
      BY <3>1, <3>2
  <2>6. g = [n \in 0 .. k |-> G(n)]
    <3>1. g = [n \in 0 .. k |-> g[n]]
      OBVIOUS
    <3> HIDE DEF g, G
    <3> QED
      BY <2>5, <3>1
  <2>7. IsLoop(g, m, pos, k)
    BY <2>6, Zenon DEF IsLoop
  <2> QED
    BY <1>3, <2>7
<1> QED
  BY <1>4, <1>5

\* RehashLoop is the last value of such a function.
LEMMA LoopValue ==
    ASSUME NEW m, NEW pos
    PROVE  \E g : /\ RehashLoop(m, pos) = g[ORDER_MAP_SIZE] /\ g[0] = LoopStart(m)
                  /\ \A n \in 1 .. ORDER_MAP_SIZE : g[n] = RehashPass(g[n - 1], pos, n)
<1> DEFINE g == CHOOSE g : IsLoop(g, m, pos, ORDER_MAP_SIZE)
<1>1. IsLoop(g, m, pos, ORDER_MAP_SIZE)
  BY LoopExists, Zenon
<1>2. RehashLoop(m, pos) = g[ORDER_MAP_SIZE]
  BY Zenon DEF RehashLoop, IsLoop, LoopStart
<1> HIDE DEF g
<1>3. g = [n \in 0 .. ORDER_MAP_SIZE |->
            IF n = 0 THEN LoopStart(m) ELSE RehashPass(g[n - 1], pos, n)]
  BY <1>1 DEF IsLoop
<1>4. \A n \in 0 .. ORDER_MAP_SIZE :
        g[n] = IF n = 0 THEN LoopStart(m) ELSE RehashPass(g[n - 1], pos, n)
  BY <1>3
<1>5. g[0] = LoopStart(m)
  BY <1>4, SizePositive
<1>6. \A n \in 1 .. ORDER_MAP_SIZE : g[n] = RehashPass(g[n - 1], pos, n)
  BY <1>4, SizePositive
<1> QED
  BY <1>2, <1>5, <1>6

\* The table keeps its entries throughout the loop, and has no gaps when it ends.
Kept(t, m) ==
    /\ t \in Table /\ Keyed(t) /\ Unique(t) /\ Content(t) = Content(m)
    /\ IsFiniteSet(Occ(t)) /\ Cardinality(Occ(t)) = Cardinality(Occ(m))

LoopInv(s, m, a, n, r) ==
    /\ s = [table |-> s.table, ended |-> s.ended] /\ s.ended \in BOOLEAN
    /\ Kept(s.table, m)
    /\ s.ended => Gapless(Occ(s.table), Home(s.table))
    /\ ~ s.ended => PassInv(Occ(s.table), Home(s.table), a, n, r)

\* What ending the loop does to its state.
LEMMA EndedIs ==
    ASSUME NEW t, NEW b, NEW c
    PROVE  [[table |-> t, ended |-> b] EXCEPT !.ended = c] = [table |-> t, ended |-> c]
OBVIOUS

\* Every pass keeps this.
LEMMA PassKeeps ==
    ASSUME Hashes, NEW m, NEW a \in Pos, NEW r \in Pos, NEW n \in Nat, NEW s, LoopInv(s, m, a, n, r)
    PROVE  LoopInv(RehashPass(s, a, n + 1), m, a, n + 1, r)
<1> DEFINE t == s.table
           next == (a + (n + 1)) % ORDER_MAP_SIZE
           s1 == RehashPass(s, a, n + 1)
<1>1. /\ s = [table |-> t, ended |-> s.ended] /\ s.ended \in BOOLEAN
      /\ Kept(t, m)
      /\ s.ended => Gapless(Occ(t), Home(t))
      /\ ~ s.ended => PassInv(Occ(t), Home(t), a, n, r)
  BY DEF LoopInv
<1>2. s1 = IF s.ended \/ ~ t[next].occupied
           THEN [s EXCEPT !.ended = TRUE] ELSE [s EXCEPT !.table = Reinsert(t, next)]
  BY Zenon DEF RehashPass
<1> HIDE DEF t, next, s1
<1>3. CASE s.ended
  <2>1. s1 = [table |-> t, ended |-> TRUE]
    BY <1>1, <1>2, <1>3
  <2>2. s1.table = t /\ s1.ended = TRUE /\ s1 = [table |-> s1.table, ended |-> s1.ended]
    BY <2>1
  <2> QED
    BY <1>1, <1>3, <2>2 DEF LoopInv, s1
<1>4. CASE ~ s.ended
  <2>1. PassInv(Occ(t), Home(t), a, n, r)
    BY <1>1, <1>4
  <2>2. n < r /\ Shift(a, r) \notin Occ(t)
    BY <2>1 DEF PassInv
  <2>3. n + 1 \in Pos /\ n + 1 \in 0 .. ORDER_MAP_SIZE
    BY <2>2, SizePositive DEF Pos
  <2>4. next = Shift(a, n + 1) /\ next \in Pos
    BY <2>3, ShiftIs, ShiftDist DEF next
  <2>5. CASE ~ t[next].occupied
    <3>1. s1 = [table |-> t, ended |-> TRUE]
      <4>1. s1 = [s EXCEPT !.ended = TRUE]
        BY <1>2, <2>5, Zenon
      <4> DEFINE b == s.ended
      <4>2. s = [table |-> t, ended |-> b]
        BY <1>1
      <4> HIDE DEF b
      <4>3. [s EXCEPT !.ended = TRUE] = [table |-> t, ended |-> TRUE]
        BY <4>2, EndedIs, Zenon
      <4> QED
        BY <4>1, <4>3
    <3>2. s1.table = t /\ s1.ended = TRUE /\ s1 = [table |-> s1.table, ended |-> s1.ended]
      BY <3>1
    <3>3. Shift(a, n + 1) \notin Occ(t)
      BY <2>4, <2>5 DEF Occ
    <3>4. Gapless(Occ(t), Home(t))
      BY <2>1, <2>3, <3>3, PassEnd
    <3> QED
      BY <1>1, <3>2, <3>4 DEF LoopInv, s1
  <2>6. CASE t[next].occupied
    <3> DEFINE u == Reinsert(t, next)
    <3>1. s1 = [table |-> u, ended |-> FALSE]
      BY <1>1, <1>2, <1>4, <2>6
    <3>2. next \in Occ(t) /\ t \in Table /\ Keyed(t) /\ Unique(t) /\ IsFiniteSet(Occ(t))
      BY <1>1, <2>4, <2>6 DEF Occ, Kept
    <3>3. n + 1 < r
      <4>1. n + 1 # r
        BY <2>2, <2>4, <3>2
      <4> QED
        BY <2>2, <4>1, SizePositive DEF Pos
    <3>4. PICK g \in Pos : Moved(t, u, next, g) /\ Before(t[next].id, g, Pos \ (Occ(t) \ {next}))
      BY <3>2, ReinsertMoves
    <3> HIDE DEF u
    <3>5. Kept(u, m)
      <4>1. u \in Table
        BY <3>4 DEF Moved
      <4> QED
        BY <1>1, <3>2, <3>4, <4>1, MoveKeeps DEF Kept
    <3>6. /\ g \notin Occ(t) \ {next} /\ Occ(u) = (Occ(t) \ {next}) \cup {g}
          /\ \A q \in Occ(t) \ {next} : u[q] = t[q]
          /\ u[g].id = t[next].id
      BY <3>4 DEF Moved
    <3>7. Home(t)[next] = map_hash[t[next].id]
      BY <3>2 DEF Home
    <3>8. Home(u)[g] = Home(t)[next] /\ \A q \in Occ(t) \ {next} : Home(u)[q] = Home(t)[q]
      <4>1. Home(u)[g] = map_hash[u[g].id]
        BY <3>6 DEF Home
      <4>2. ASSUME NEW q \in Occ(t) \ {next} PROVE Home(u)[q] = Home(t)[q]
        BY <3>6 DEF Home
      <4> QED
        BY <3>6, <3>7, <4>1, <4>2
    <3>9. \A x \in Pos : Dist(Home(t)[next], x) < Dist(Home(t)[next], g) => x \in Occ(t) \ {next}
      BY <3>4, <3>7 DEF Before
    <3>10. PassInv(Occ(u), Home(u), a, n + 1, r)
      BY <2>1, <2>4, <3>2, <3>3, <3>6, <3>8, <3>9, PassMoves
    <3>11. s1.table = u /\ s1.ended = FALSE /\ s1 = [table |-> s1.table, ended |-> s1.ended]
      BY <3>1
    <3> QED
      BY <3>5, <3>10, <3>11 DEF LoopInv, s1
  <2> QED
    BY <2>5, <2>6
<1> QED
  BY <1>1, <1>3, <1>4

-----------------------------------------------------------------------------
(* Insertion and removal *)

Sound(m) == m \in Table /\ Keyed(m) /\ Unique(m) /\ Gapless(Occ(m), Home(m))

\* The occupied positions are finitely many.
LEMMA OccFinite == ASSUME NEW m PROVE IsFiniteSet(Occ(m)) /\ Occ(m) \subseteq Pos
<1>1. IsFiniteSet(Pos)
  BY SizePositive, FS_Interval DEF Pos
<1>2. Occ(m) \subseteq Pos
  BY DEF Occ
<1> QED
  BY <1>1, <1>2, FS_Subset

\* A table below its limit has a free position.
LEMMA RoomLeft ==
    ASSUME NEW m, Cardinality(Occ(m)) <= MaxEntries
    PROVE  Occ(m) # Pos
<1>1. Cardinality(Pos) = ORDER_MAP_SIZE
  <2>1. 0 \in Int /\ ORDER_MAP_SIZE - 1 \in Int /\ ORDER_MAP_SIZE \in Nat /\ ORDER_MAP_SIZE > 0
    BY SizePositive
  <2>2. Cardinality(0 .. ORDER_MAP_SIZE - 1) =
            IF 0 > ORDER_MAP_SIZE - 1 THEN 0 ELSE (ORDER_MAP_SIZE - 1) - 0 + 1
    BY <2>1, FS_Interval
  <2> QED
    BY <2>1, <2>2 DEF Pos
<1> QED
  BY <1>1, MapAssumption DEF MapAssumption

\* What is left of a table's entries when the one at p has gone.
Without(t, m, p) ==
    /\ Sound(t) /\ Content(t) = Content(m) \ {<<m[p].id, m[p].slot>>}
    /\ IsFiniteSet(Occ(t)) /\ Cardinality(Occ(t)) = Cardinality(Occ(m)) - 1

\* Clearing an entry and moving up the run behind it keeps the table sound; the loop
\* comes to its end.
LEMMA RehashSound ==
    ASSUME Hashes, NEW m, Sound(m), NEW p \in Occ(m), Cardinality(Occ(m)) <= MaxEntries
    PROVE  /\ RehashLoop(Cleared(m, p), p).ended
           /\ Without(RehashLoop(Cleared(m, p), p).table, m, p)
<1> DEFINE c == Cleared(m, p)
<1>1. p \in Pos /\ m \in Table /\ Keyed(m) /\ Unique(m) /\ Gapless(Occ(m), Home(m))
  BY OccFinite DEF Sound
<1>2. c \in Table /\ (\A q \in Pos \ {p} : c[q] = m[q]) /\ c[p].occupied = FALSE
  BY <1>1, MapAssumption DEF Cleared, Table, MapEntry, MapAssumption
<1>3. Occ(c) = Occ(m) \ {p} /\ \A q \in Occ(c) : c[q] = m[q]
  BY <1>1, <1>2 DEF Occ
<1> HIDE DEF c
<1>4. Keyed(c) /\ Unique(c)
  BY <1>1, <1>3 DEF Keyed, Unique
<1>5. Content(c) = Content(m) \ {<<m[p].id, m[p].slot>>}
  BY <1>1, <1>3 DEF Content, Unique
<1>6. IsFiniteSet(Occ(c)) /\ Cardinality(Occ(c)) = Cardinality(Occ(m)) - 1
  BY <1>3, OccFinite, FS_RemoveElement
<1>7. PICK f \in Pos : f \notin Occ(m)
  BY RoomLeft, OccFinite
<1> DEFINE r == Dist(p, f)
<1>8. Homes(Occ(m), Home(m))
  <2>1. \A q \in Occ(m) : Home(m)[q] = map_hash[m[q].id] /\ m[q].id \in Ids
    BY <1>1 DEF Home, Keyed
  <2> QED
    BY <2>1, OccFinite DEF Homes, Hashes
<1>9. r \in Pos /\ PassInv(Occ(m) \ {p}, Home(m), p, 0, r)
  BY <1>1, <1>7, <1>8, PassStart
<1> HIDE DEF r
<1>10. PassInv(Occ(c), Home(c), p, 0, r)
  <2>1. \A q \in Occ(c) : Home(c)[q] = Home(m)[q]
    BY <1>3 DEF Home
  <2> QED
    BY <1>3, <1>9, <2>1 DEF PassInv, Homes
<1>11. PICK g : /\ RehashLoop(c, p) = g[ORDER_MAP_SIZE] /\ g[0] = LoopStart(c)
                /\ \A n \in 1 .. ORDER_MAP_SIZE : g[n] = RehashPass(g[n - 1], p, n)
  BY LoopValue
<1>12. LoopInv(g[0], c, p, 0, r)
  <2> DEFINE s == LoopStart(c)
  <2>1. s.table = c /\ s.ended = FALSE /\ s = [table |-> s.table, ended |-> s.ended]
    BY DEF LoopStart
  <2> HIDE DEF s
  <2>2. LoopInv(s, c, p, 0, r)
    BY <1>2, <1>4, <1>6, <1>10, <2>1 DEF LoopInv, Kept
  <2> QED
    BY <1>11, <2>2 DEF s
<1>13. LoopInv(g[ORDER_MAP_SIZE], c, p, ORDER_MAP_SIZE, r)
  <2> DEFINE B == {k \in 0 .. ORDER_MAP_SIZE : ~ LoopInv(g[k], c, p, k, r)}
  <2> SUFFICES ASSUME ~ LoopInv(g[ORDER_MAP_SIZE], c, p, ORDER_MAP_SIZE, r) PROVE FALSE
    OBVIOUS
  <2>1. ORDER_MAP_SIZE \in B /\ B \in SUBSET (0 .. ORDER_MAP_SIZE) /\ ORDER_MAP_SIZE \in Nat
    BY SizePositive
  <2> HIDE DEF B
  <2>2. PICK k \in B : \A y \in B : k <= y
    BY <2>1, Least
  <2>3. k \in 0 .. ORDER_MAP_SIZE /\ ~ LoopInv(g[k], c, p, k, r)
    BY <2>2 DEF B
  <2>4. k # 0
    BY <1>12, <2>3
  <2> DEFINE n == k - 1
  <2>5. /\ n \in Nat /\ n + 1 = k /\ k \in 1 .. ORDER_MAP_SIZE /\ n \in 0 .. ORDER_MAP_SIZE
        /\ ~(k <= n)
    BY <2>3, <2>4, SizePositive
  <2>6. LoopInv(g[n], c, p, n, r)
    BY <2>2, <2>5 DEF B
  <2>7. g[k] = RehashPass(g[n], p, k)
    BY <1>11, <2>5
  <2> HIDE DEF n
  <2>8. LoopInv(RehashPass(g[n], p, n + 1), c, p, n + 1, r)
    BY <1>1, <1>9, <2>5, <2>6, PassKeeps
  <2> QED
    BY <2>3, <2>5, <2>7, <2>8
<1> DEFINE s == g[ORDER_MAP_SIZE]
<1> HIDE DEF s
<1>14. LoopInv(s, c, p, ORDER_MAP_SIZE, r)
  BY <1>13 DEF s
<1>15. s.ended
  <2>1. ~(ORDER_MAP_SIZE < r)
    BY <1>9, SizePositive DEF Pos
  <2>2. ~ PassInv(Occ(s.table), Home(s.table), p, ORDER_MAP_SIZE, r)
    BY <2>1 DEF PassInv
  <2> QED
    BY <1>14, <2>2 DEF LoopInv
<1>16. Kept(s.table, c) /\ Gapless(Occ(s.table), Home(s.table))
  BY <1>14, <1>15 DEF LoopInv
<1>17. Without(s.table, m, p)
  BY <1>5, <1>6, <1>16 DEF Kept, Without, Sound
<1>18. RehashLoop(c, p) = s
  BY <1>11 DEF s
<1> QED
  BY <1>15, <1>17, <1>18 DEF c

\* An insertion below the limit keeps the table sound and adds its entry.
LEMMA InsertSound ==
    ASSUME Hashes, NEW m, Sound(m), Cardinality(Occ(m)) < MaxEntries,
           NEW id \in Ids, ~ Stored(m, id), NEW slot \in Slots
    PROVE  /\ Sound(map_insert(m, id, slot))
           /\ Content(map_insert(m, id, slot)) = Content(m) \cup {<<id, slot>>}
           /\ Cardinality(Occ(map_insert(m, id, slot))) <= MaxEntries
<1> DEFINE new == [id |-> id, slot |-> slot, occupied |-> TRUE]
<1>1. m \in Table /\ Keyed(m) /\ Unique(m) /\ Gapless(Occ(m), Home(m))
  BY DEF Sound
<1>2. IsFiniteSet(Occ(m)) /\ Cardinality(Occ(m)) \in Nat /\ MaxEntries \in Nat
  BY OccFinite, FS_CardinalityType, MapAssumption DEF MapAssumption
<1>3. Occ(m) # Pos
  <2>1. Cardinality(Occ(m)) <= MaxEntries
    BY <1>2
  <2> QED
    BY <2>1, RoomLeft
<1>4. PICK g \in Pos \ Occ(m) :
        Before(id, g, Pos \ Occ(m)) /\ map_insert(m, id, slot) = [m EXCEPT ![g] = new]
  BY <1>3, InsertFinds
<1> DEFINE t == [m EXCEPT ![g] = new]
<1>5. new \in MapEntry /\ new.id = id /\ new.slot = slot /\ new.occupied = TRUE
  BY DEF MapEntry
<1> HIDE DEF new
<1>6. t \in Table /\ t[g] = new /\ \A q \in Pos \ {g} : t[q] = m[q]
  BY <1>1, <1>4, <1>5 DEF Table
<1> HIDE DEF t
<1>7. Occ(t) = Occ(m) \cup {g} /\ \A q \in Occ(m) : t[q] = m[q]
  BY <1>4, <1>5, <1>6 DEF Occ
<1>8. t[g].id = id /\ t[g].slot = slot
  BY <1>5, <1>6
<1>9. Keyed(t)
  BY <1>1, <1>7, <1>8 DEF Keyed
<1>10. Unique(t)
  BY <1>1, <1>7, <1>8 DEF Unique, Stored
<1>11. Content(t) = Content(m) \cup {<<id, slot>>}
  BY <1>7, <1>8 DEF Content
<1>12. Gapless(Occ(t), Home(t))
  <2>1. Home(t)[g] = map_hash[id] /\ \A q \in Occ(m) : Home(t)[q] = Home(m)[q]
    BY <1>7, <1>8 DEF Home
  <2>2. ASSUME NEW q \in Occ(t), NEW x \in Pos, Dist(Home(t)[q], x) < Dist(Home(t)[q], q)
        PROVE  x \in Occ(t)
    <3>1. CASE q = g
      BY <1>4, <1>7, <2>1, <2>2, <3>1 DEF Before
    <3>2. CASE q # g
      BY <1>1, <1>7, <2>1, <2>2, <3>2 DEF Gapless
    <3> QED
      BY <3>1, <3>2
  <2> QED
    BY <2>2 DEF Gapless
<1>13. Cardinality(Occ(t)) = Cardinality(Occ(m)) + 1
  BY <1>2, <1>4, <1>7, FS_AddElement
<1>14. Cardinality(Occ(t)) <= MaxEntries
  BY <1>2, <1>13
<1>15. map_insert(m, id, slot) = t
  BY <1>4 DEF t
<1> QED
  BY <1>6, <1>9, <1>10, <1>11, <1>12, <1>14, <1>15 DEF Sound

-----------------------------------------------------------------------------
(* The specification *)

MapInv == Hashes /\ Sound(order_map) /\ Cardinality(Occ(order_map)) <= MaxEntries

\* MapInv holds of the empty table.
LEMMA MapInit == Init => MapInv
<1> SUFFICES ASSUME Init PROVE MapInv
  OBVIOUS
<1>1. order_map = [p \in Pos |-> [id |-> 0, slot |-> 0, occupied |-> FALSE]] /\ Hashes
  BY DEF Init, Hashes
<1>2. order_map \in Table
  BY <1>1, MapAssumption DEF Table, MapEntry, MapAssumption
<1>3. Occ(order_map) = {}
  BY <1>1 DEF Occ
<1>4. Cardinality(Occ(order_map)) = 0
  BY <1>3, FS_EmptySet
<1>5. Sound(order_map)
  BY <1>2, <1>3 DEF Sound, Keyed, Unique, Gapless
<1> QED
  BY <1>1, <1>4, <1>5, MapAssumption DEF MapInv, MapAssumption

\* A sound table is sound in the next state when the hash is the same.
LEMMA SoundNext ==
    ASSUME NEW t, Sound(t), order_map' = t, UNCHANGED map_hash
    PROVE  Sound(order_map)'
<1>1. t \in Table /\ Keyed(t) /\ Unique(t) /\ Gapless(Occ(t), Home(t))
  BY DEF Sound
<1>2. Occ(order_map)' = Occ(t)
  BY DEF Occ
<1>3. Home(order_map)' = Home(t)
  BY DEF Home, Occ
<1>4. Keyed(order_map)' /\ Unique(order_map)'
  BY <1>1, <1>2 DEF Keyed, Unique
<1>5. Gapless(Occ(order_map), Home(order_map))'
  BY <1>1, <1>2, <1>3 DEF Gapless
<1>6. (order_map \in Table)'
  BY <1>1
<1> QED
  BY <1>4, <1>5, <1>6 DEF Sound

\* What a removal does: nothing when the id has no entry, else its entry goes.
LEMMA RemoveIs ==
    ASSUME MapInv, NEW id \in Ids
    PROVE  \/ ~ Stored(order_map, id) /\ map_remove(order_map, id) = order_map
           \/ \E p \in Occ(order_map) : /\ order_map[p].id = id
                                        /\ Without(map_remove(order_map, id), order_map, p)
<1>1. Hashes /\ Sound(order_map) /\ Cardinality(Occ(order_map)) <= MaxEntries
  BY DEF MapInv
<1>2. map_remove(order_map, id) =
        IF map_find(order_map, id) = ORDER_MAP_SIZE THEN order_map
        ELSE RehashLoop(Cleared(order_map, map_find(order_map, id)), map_find(order_map, id)).table
  BY Zenon DEF map_remove
<1>3. CASE ~ Stored(order_map, id)
  <2>1. map_find(order_map, id) = ORDER_MAP_SIZE
    BY <1>1, <1>3, FindMissing
  <2> QED
    BY <1>2, <1>3, <2>1
<1>4. CASE Stored(order_map, id)
  <2>1. PICK p \in Occ(order_map) : order_map[p].id = id
    BY <1>4 DEF Stored
  <2>2. map_find(order_map, id) = p
    BY <1>1, <2>1, FindStored DEF Sound
  <2>3. p # ORDER_MAP_SIZE
    BY OccFinite, SizePositive DEF Pos
  <2>4. Without(RehashLoop(Cleared(order_map, p), p).table, order_map, p)
    BY <1>1, RehashSound
  <2>5. map_remove(order_map, id) = RehashLoop(Cleared(order_map, p), p).table
    BY <1>2, <2>2, <2>3
  <2> QED
    BY <2>1, <2>4, <2>5
<1> QED
  BY <1>3, <1>4

\* Every step keeps MapInv.
LEMMA MapNext == MapInv /\ [Next]_mvars => MapInv'
<1> SUFFICES ASSUME MapInv, [Next]_mvars PROVE MapInv'
  OBVIOUS
<1>1. Hashes /\ Sound(order_map) /\ Cardinality(Occ(order_map)) <= MaxEntries
  BY DEF MapInv
<1>2. UNCHANGED map_hash
  BY DEF Next, Insert, Remove, mvars
<1>3. Hashes'
  BY <1>1, <1>2 DEF Hashes
<1>4. Occ(order_map)' = Occ(order_map')
  BY DEF Occ
<1>5. ASSUME NEW t, order_map' = t, Sound(t), Cardinality(Occ(t)) <= MaxEntries
      PROVE  MapInv'
  <2>1. Sound(order_map)'
    BY <1>2, <1>5, SoundNext
  <2> QED
    BY <1>3, <1>4, <1>5, <2>1 DEF MapInv
<1>6. CASE \E id \in Ids : Remove(id)
  <2>1. PICK id \in Ids : order_map' = map_remove(order_map, id)
    BY <1>6 DEF Remove
  <2>2. CASE map_remove(order_map, id) = order_map
    BY <1>1, <1>5, <2>1, <2>2
  <2>3. CASE \E p \in Occ(order_map) : Without(map_remove(order_map, id), order_map, p)
    <3>1. PICK p \in Occ(order_map) : Without(map_remove(order_map, id), order_map, p)
      BY <2>3
    <3>2. /\ Sound(map_remove(order_map, id))
          /\ Cardinality(Occ(map_remove(order_map, id))) = Cardinality(Occ(order_map)) - 1
      BY <3>1 DEF Without
    <3>3. Cardinality(Occ(order_map)) \in Nat /\ MaxEntries \in Nat
      BY OccFinite, FS_CardinalityType, MapAssumption DEF MapAssumption
    <3>4. Cardinality(Occ(map_remove(order_map, id))) <= MaxEntries
      BY <1>1, <3>2, <3>3
    <3> QED
      BY <1>5, <2>1, <3>2, <3>4
  <2> QED
    BY <2>2, <2>3, RemoveIs
<1>7. CASE \E id \in Ids, slot \in Slots : Insert(id, slot)
  <2>1. PICK id \in Ids, slot \in Slots : Insert(id, slot)
    BY <1>7
  <2>2. /\ Cardinality(Occ(order_map)) < MaxEntries /\ ~ Stored(order_map, id)
        /\ order_map' = map_insert(order_map, id, slot)
    BY <2>1 DEF Insert, Occupied, StoredIds, Occ, Stored
  <2> QED
    BY <1>1, <1>5, <2>2, InsertSound
<1>8. CASE UNCHANGED mvars
  BY <1>1, <1>5, <1>8 DEF mvars
<1> QED
  BY <1>6, <1>7, <1>8 DEF Next

\* For every size of the table, every hash and every sequence of insertions and
\* removals, map_remove leaves no entry behind a gap and no second copy, and its loop
\* would end for any id that is stored.
THEOREM MapIsSound == Spec => []TableSound
<1>1. MapInv => TableSound
  <2> SUFFICES ASSUME MapInv PROVE TableSound
    OBVIOUS
  <2>1. Hashes /\ Sound(order_map) /\ Cardinality(Occ(order_map)) <= MaxEntries
    BY DEF MapInv
  <2>2. /\ order_map \in Table /\ Keyed(order_map) /\ Unique(order_map)
        /\ Gapless(Occ(order_map), Home(order_map))
    BY <2>1 DEF Sound
  <2>3. Occupied = Occ(order_map)
    BY DEF Occupied, Occ
  <2>4. ASSUME NEW p \in Occ(order_map),
               NEW j \in 0 .. (CHOOSE i \in Pos : Probe(order_map[p].id, i) = p) - 1
        PROVE  order_map[Probe(order_map[p].id, j)].occupied
    <3> DEFINE id == order_map[p].id
               h == map_hash[id]
               k == CHOOSE i \in Pos : Probe(id, i) = p
    <3>1. id \in Ids /\ h \in Pos /\ p \in Pos /\ Home(order_map)[p] = h
      BY <2>1, <2>2, OccFinite DEF Keyed, Hashes, Home
    <3>2. \A i \in Pos : Probe(id, i) = Shift(h, i)
      BY <2>1, <3>1, ProbeIs
    <3>3. Dist(h, p) \in Pos /\ Probe(id, Dist(h, p)) = p
      BY <3>1, <3>2, ShiftDist
    <3> HIDE DEF id, h
    <3>4. k \in Pos /\ Probe(id, k) = p
      BY <3>3
    <3>5. j \in 0 .. k - 1
      BY DEF id
    <3> HIDE DEF k
    <3>6. Dist(h, p) = k
      BY <3>1, <3>2, <3>4, ShiftDist
    <3>7. j \in Pos /\ j < k
      BY <3>4, <3>5, SizePositive DEF Pos
    <3>8. Probe(id, j) \in Pos /\ Dist(h, Probe(id, j)) = j
      BY <3>1, <3>2, <3>7, ShiftDist
    <3>9. Probe(id, j) \in Occ(order_map)
      BY <2>2, <3>1, <3>6, <3>7, <3>8 DEF Gapless
    <3> QED
      BY <3>9 DEF Occ, id
  <2>5. NoGapBeforeEntry
    BY <2>3, <2>4 DEF NoGapBeforeEntry
  <2>6. StoredOnce
    BY <2>2, <2>3 DEF StoredOnce, Unique
  <2>7. DeletionEnds
    <3> SUFFICES ASSUME NEW id \in StoredIds
                 PROVE  /\ map_find(order_map, id) # ORDER_MAP_SIZE
                        /\ RehashLoop(Cleared(order_map, map_find(order_map, id)),
                                      map_find(order_map, id)).ended
      BY DEF DeletionEnds
    <3>1. PICK p \in Occ(order_map) : order_map[p].id = id
      BY <2>3 DEF StoredIds
    <3>2. map_find(order_map, id) = p
      BY <2>1, <2>2, <3>1, FindStored
    <3>3. p # ORDER_MAP_SIZE
      BY OccFinite, SizePositive DEF Pos
    <3>4. RehashLoop(Cleared(order_map, p), p).ended
      BY <2>1, RehashSound
    <3> QED
      BY <3>2, <3>3, <3>4
  <2> QED
    BY <2>5, <2>6, <2>7 DEF TableSound
<1> QED
  BY <1>1, MapInit, MapNext, PTL DEF Spec

-----------------------------------------------------------------------------
(* The partial function behind the table *)

\* F is the function whose pairs are C.
Graph(F, C) == F = [i \in DOMAIN F |-> F[i]] /\ C = {<<i, F[i]>> : i \in DOMAIN F}

\* G is F with one pair more.
Added(G, F, id, slot) == G = [i \in DOMAIN F \cup {id} |-> IF i = id THEN slot ELSE F[i]]

\* A pair more.
LEMMA GraphAdd ==
    ASSUME NEW F, NEW C, Graph(F, C), NEW G, NEW D, Graph(G, D),
           NEW id, id \notin DOMAIN F, NEW slot, D = C \cup {<<id, slot>>}
    PROVE  Added(G, F, id, slot)
<1>1. C = {<<i, F[i]>> : i \in DOMAIN F} /\ D = {<<i, G[i]>> : i \in DOMAIN G}
  BY DEF Graph
<1>2. \A i \in DOMAIN G : <<i, G[i]>> \in C \cup {<<id, slot>>}
  BY <1>1
<1>3. \A i \in DOMAIN F : <<i, F[i]>> \in D
  BY <1>1
<1>4. <<id, slot>> \in D
  OBVIOUS
<1>5. \A i \in DOMAIN F : i \in DOMAIN G /\ G[i] = F[i]
  BY <1>1, <1>3
<1>6. id \in DOMAIN G /\ G[id] = slot
  <2>1. PICK i \in DOMAIN G : <<id, slot>> = <<i, G[i]>>
    BY <1>1, <1>4
  <2> QED
    BY <2>1
<1>7. DOMAIN G = DOMAIN F \cup {id}
  BY <1>1, <1>2, <1>5, <1>6
<1>8. G = [i \in DOMAIN G |-> G[i]]
  BY DEF Graph
<1>9. \A i \in DOMAIN G : G[i] = IF i = id THEN slot ELSE F[i]
  BY <1>5, <1>6, <1>7
<1> QED
  BY <1>7, <1>8, <1>9 DEF Added

\* A pair less.
LEMMA GraphRemove ==
    ASSUME NEW F, NEW C, Graph(F, C), NEW G, NEW D, Graph(G, D),
           NEW id, NEW slot, <<id, slot>> \in C, D = C \ {<<id, slot>>}
    PROVE  id \in DOMAIN F /\ G = [i \in DOMAIN F \ {id} |-> F[i]]
<1>1. C = {<<i, F[i]>> : i \in DOMAIN F} /\ D = {<<i, G[i]>> : i \in DOMAIN G}
  BY DEF Graph
<1>2. id \in DOMAIN F /\ F[id] = slot
  BY <1>1
<1>3. \A i \in DOMAIN G : <<i, G[i]>> \in C /\ <<i, G[i]>> # <<id, slot>>
  BY <1>1
<1>4. \A i \in DOMAIN G : i \in DOMAIN F /\ G[i] = F[i] /\ i # id
  BY <1>1, <1>2, <1>3
<1>5. ASSUME NEW i \in DOMAIN F \ {id} PROVE i \in DOMAIN G
  <2>1. <<i, F[i]>> \in D
    BY <1>1
  <2>2. PICK j \in DOMAIN G : <<i, F[i]>> = <<j, G[j]>>
    BY <1>1, <2>1
  <2> QED
    BY <2>2
<1>6. DOMAIN G = DOMAIN F \ {id}
  BY <1>4, <1>5
<1>7. G = [i \in DOMAIN G |-> G[i]]
  BY DEF Graph
<1> QED
  BY <1>2, <1>4, <1>6, <1>7

\* Lookups see exactly the entries of the table.
LEMMA LookupIs == MapInv => Graph(Lookup, Content(order_map))
<1> SUFFICES ASSUME MapInv PROVE Graph(Lookup, Content(order_map))
  OBVIOUS
<1>1. Hashes /\ Keyed(order_map) /\ Unique(order_map) /\ Gapless(Occ(order_map), Home(order_map))
  BY DEF MapInv, Sound
<1> DEFINE D == {i \in Ids : map_find(order_map, i) # ORDER_MAP_SIZE}
           L(id) == order_map[map_find(order_map, id)].slot
<1>2. Lookup = [id \in D |-> L(id)]
  BY Zenon DEF Lookup
<1>3. ASSUME NEW p \in Occ(order_map)
      PROVE  order_map[p].id \in D /\ L(order_map[p].id) = order_map[p].slot
  <2>1. map_find(order_map, order_map[p].id) = p
    BY <1>1, FindStored
  <2>2. p # ORDER_MAP_SIZE
    BY OccFinite, SizePositive DEF Pos
  <2> QED
    BY <1>1, <2>1, <2>2 DEF Keyed
<1>4. ASSUME NEW id \in D PROVE \E p \in Occ(order_map) : order_map[p].id = id
  BY <1>1, FindMissing DEF Stored
<1> HIDE DEF D, L
<1>5. DOMAIN Lookup = D /\ \A id \in D : Lookup[id] = L(id)
  BY <1>2
<1>6. Content(order_map) = {<<id, Lookup[id]>> : id \in D}
  <2>1. \A c \in Content(order_map) : c \in {<<id, Lookup[id]>> : id \in D}
    BY <1>3, <1>5 DEF Content
  <2>2. ASSUME NEW id \in D PROVE <<id, Lookup[id]>> \in Content(order_map)
    <3>1. PICK p \in Occ(order_map) : order_map[p].id = id
      BY <1>4
    <3>2. Lookup[id] = order_map[p].slot
      BY <1>3, <1>5, <3>1
    <3> QED
      BY <3>1, <3>2 DEF Content
  <2> QED
    BY <2>1, <2>2
<1> QED
  BY <1>2, <1>5, <1>6 DEF Graph

\* The same in the next state.
LEMMA LookupNext == MapInv' => Graph(Lookup', Content(order_map'))
<1>1. MapInv' => Graph(Lookup, Content(order_map))'
  BY LookupIs, PTL
<1>2. Content(order_map)' = Content(order_map')
  BY DEF Content, Occ
<1> QED
  BY <1>1, <1>2 DEF Graph

\* The empty table is the empty function.
LEMMA IndexInit == Init => Index!Init
<1> SUFFICES ASSUME Init PROVE Index!Init
  OBVIOUS
<1>1. Graph(Lookup, Content(order_map))
  BY MapInit, LookupIs
<1>2. Content(order_map) = {}
  BY DEF Init, Content, Occ
<1>3. DOMAIN Lookup = {} /\ Lookup = [i \in DOMAIN Lookup |-> Lookup[i]]
  BY <1>1, <1>2 DEF Graph
<1> QED
  BY <1>3 DEF Index!Init

\* Every step is one of the partial function, or changes no lookup.
LEMMA IndexNext == MapInv /\ MapInv' /\ [Next]_mvars => [Index!Next]_Lookup
<1> SUFFICES ASSUME MapInv, MapInv', [Next]_mvars PROVE [Index!Next]_Lookup
  OBVIOUS
<1>1. Graph(Lookup, Content(order_map)) /\ Graph(Lookup', Content(order_map'))
  BY LookupIs, LookupNext
<1>2. Hashes /\ Sound(order_map)
  BY DEF MapInv
<1>3. ASSUME order_map' = order_map PROVE Lookup' = Lookup
  <2>1. Content(order_map') = Content(order_map)
    BY <1>3
  <2>2. UNCHANGED map_hash
    BY DEF Next, Insert, Remove, mvars
  <2> QED
    BY <1>3, <2>2 DEF Lookup, map_find, FirstStep, Probe
<1>4. CASE \E id \in Ids : Remove(id)
  <2>1. PICK id \in Ids : order_map' = map_remove(order_map, id)
    BY <1>4 DEF Remove
  <2>2. CASE map_remove(order_map, id) = order_map
    BY <1>3, <2>1, <2>2
  <2>3. CASE \E p \in Occ(order_map) : /\ order_map[p].id = id
                                       /\ Without(map_remove(order_map, id), order_map, p)
    <3>1. PICK p \in Occ(order_map) : /\ order_map[p].id = id
                                      /\ Without(map_remove(order_map, id), order_map, p)
      BY <2>3
    <3>2. Content(order_map') = Content(order_map) \ {<<id, order_map[p].slot>>}
      BY <2>1, <3>1 DEF Without
    <3>3. <<id, order_map[p].slot>> \in Content(order_map)
      BY <3>1 DEF Content
    <3>4. id \in DOMAIN Lookup /\ Lookup' = [i \in DOMAIN Lookup \ {id} |-> Lookup[i]]
      BY <1>1, <3>2, <3>3, GraphRemove
    <3>5. Index!Remove(id)
      BY <3>4 DEF Index!Remove
    <3> QED
      BY <3>5 DEF Index!Next
  <2> QED
    BY <2>2, <2>3, RemoveIs
<1>5. CASE \E id \in Ids, slot \in Slots : Insert(id, slot)
  <2>1. PICK id \in Ids, slot \in Slots : Insert(id, slot)
    BY <1>5
  <2>2. /\ Cardinality(Occ(order_map)) < MaxEntries /\ ~ Stored(order_map, id)
        /\ order_map' = map_insert(order_map, id, slot)
    BY <2>1 DEF Insert, Occupied, StoredIds, Occ, Stored
  <2>3. Content(order_map') = Content(order_map) \cup {<<id, slot>>}
    BY <1>2, <2>2, InsertSound
  <2>4. id \notin DOMAIN Lookup
    <3>1. \A i \in DOMAIN Lookup : <<i, Lookup[i]>> \in Content(order_map)
      BY <1>1 DEF Graph
    <3>2. \A c \in Content(order_map) : c[1] # id
      BY <2>2 DEF Content, Stored
    <3> QED
      BY <3>1, <3>2
  <2>5. Added(Lookup', Lookup, id, slot)
    BY <1>1, <2>3, <2>4, GraphAdd, Zenon
  <2>6. Index!Insert(id, slot)
    BY <2>4, <2>5 DEF Index!Insert, Added
  <2> QED
    BY <2>6 DEF Index!Next
<1>6. CASE UNCHANGED mvars
  BY <1>3, <1>6 DEF mvars
<1> QED
  BY <1>4, <1>5, <1>6 DEF Next

\* Seen through map_find, the hash map is the partial function that the OMS is written
\* against: insertions and removals change the lookup of their own id and no other.
THEOREM MapIsIndex == Spec => ImplementsIndex
<1>1. MapInv /\ [Next]_mvars => [Index!Next]_Lookup
  BY MapNext, IndexNext
<1> QED
  BY <1>1, MapInit, MapNext, IndexInit, PTL DEF Spec, ImplementsIndex, Index!Spec

=============================================================================
