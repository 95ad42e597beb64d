--------------------------- MODULE MatchingProofs ---------------------------
(***************************************************************************)
(* Machine-checked proofs about modules MatchingBook and MatchingEngine,   *)
(* for every set of ids, prices and quantities and every sequence of       *)
(* orders and cancels in which no order has the id of one that rests (no   *)
(* caller reuses one, and add_order does not test it): the index and the   *)
(* queues of the book hold the same orders, matching leaves no two orders  *)
(* that could trade, the book trades by price and then by arrival          *)
(* (PriceTimeAuction), and the engine given the same calls is the same     *)
(* book.                                                                   *)
(***************************************************************************)
EXTENDS MatchingEngine, DataTheorems, SequenceTheorems

-----------------------------------------------------------------------------
(* Books and their index *)

RestingOrder == [id : Ids, qty : Nat \ {0}]

\* The levels of one side: finitely many, none empty.
IsBook(b) ==
    /\ IsFiniteSet(DOMAIN b) /\ DOMAIN b \subseteq Price
    /\ \A p \in DOMAIN b : b[p] \in Seq(RestingOrder) /\ b[p] # << >>

IsIndex(loc) ==
    /\ IsFiniteSet(DOMAIN loc) /\ DOMAIN loc \subseteq Ids
    /\ \A id \in DOMAIN loc : loc[id] \in [side : Side, price : Price]

\* Book b of a side and the index name the same orders, each at one place.
Listed(b, side, loc) ==
    \A p \in DOMAIN b : \A k \in 1 .. Len(b[p]) :
        b[p][k].id \in DOMAIN loc /\ loc[b[p][k].id] = [side |-> side, price |-> p]

OnePlace(b) ==
    \A p \in DOMAIN b : \A k, l \in 1 .. Len(b[p]) : b[p][k].id = b[p][l].id => k = l

Found(b, side, loc) ==
    \A id \in DOMAIN loc : loc[id].side = side =>
        /\ loc[id].price \in DOMAIN b
        /\ \E k \in 1 .. Len(b[loc[id].price]) : b[loc[id].price][k].id = id

SideOK(b, side, loc) == IsBook(b) /\ Listed(b, side, loc) /\ OnePlace(b) /\ Found(b, side, loc)

\* c is book b with queue t at price p.
LevelSet(c, b, p, t) ==
    /\ DOMAIN c = IF t = << >> THEN DOMAIN b \ {p} ELSE DOMAIN b \cup {p}
    /\ t # << >> => c[p] = t
    /\ \A x \in DOMAIN c : x # p => c[x] = b[x]

\* What SetLevel does.
LEMMA SetLevelIs ==
    ASSUME NEW b, NEW p, NEW t
    PROVE  LevelSet(SetLevel(b, p, t), b, p, t)
<1>1. CASE t = << >>
  <2>1. SetLevel(b, p, t) = [x \in DOMAIN b \ {p} |-> b[x]]
    BY <1>1 DEF SetLevel, Without, Restrict
  <2> QED
    BY <1>1, <2>1 DEF LevelSet
<1>2. CASE t # << >>
  <2>1. SetLevel(b, p, t) = [x \in DOMAIN b \cup {p} |-> IF x = p THEN t ELSE b[x]]
    BY <1>2 DEF SetLevel
  <2> QED
    BY <1>2, <2>1 DEF LevelSet
<1> QED
  BY <1>1, <1>2

\* loc without id.
Dropped(new, loc, id) ==
    /\ DOMAIN new = DOMAIN loc \ {id}
    /\ \A i \in DOMAIN new : new[i] = loc[i]

\* What Without does.
LEMMA WithoutIs == ASSUME NEW loc, NEW id PROVE Dropped(Without(loc, id), loc, id)
BY DEF Dropped, Without, Restrict

\* loc with id at a new place.
Entered(new, loc, id, side, p) ==
    /\ DOMAIN new = DOMAIN loc \cup {id}
    /\ new[id] = [side |-> side, price |-> p]
    /\ \A i \in DOMAIN loc \ {id} : new[i] = loc[i]

\* A change of one level leaves a book.
LEMMA BookStays ==
    ASSUME NEW b, IsBook(b), NEW p \in Price, NEW t \in Seq(RestingOrder), NEW c, LevelSet(c, b, p, t)
    PROVE  IsBook(c)
<1>1. /\ IsFiniteSet(DOMAIN b) /\ DOMAIN b \subseteq Price
      /\ \A x \in DOMAIN b : b[x] \in Seq(RestingOrder) /\ b[x] # << >>
  BY DEF IsBook
<1>2. IsFiniteSet(DOMAIN b \ {p}) /\ IsFiniteSet(DOMAIN b \cup {p})
  BY <1>1, FS_RemoveElement, FS_AddElement
<1>3. IsFiniteSet(DOMAIN c) /\ DOMAIN c \subseteq Price
  BY <1>1, <1>2 DEF LevelSet
<1>4. ASSUME NEW x \in DOMAIN c PROVE c[x] \in Seq(RestingOrder) /\ c[x] # << >>
  <2>1. CASE x = p
    BY <1>4, <2>1 DEF LevelSet
  <2>2. CASE x # p
    <3>1. x \in DOMAIN b /\ c[x] = b[x]
      BY <1>4, <2>2 DEF LevelSet
    <3> QED
      BY <1>1, <3>1
  <2> QED
    BY <2>1, <2>2
<1> QED
  BY <1>3, <1>4 DEF IsBook

\* Sequence t is q without its k-th element.
CutAt(t, q, k) ==
    /\ Len(t) = Len(q) - 1
    /\ \A j \in 1 .. Len(t) : t[j] = IF j < k THEN q[j] ELSE q[j + 1]

\* An order taken out of a queue and of the index.
LEMMA TakeOut ==
    ASSUME NEW b, NEW side, NEW loc, SideOK(b, side, loc), NEW p \in DOMAIN b,
           NEW k \in 1 .. Len(b[p]), NEW t \in Seq(RestingOrder), CutAt(t, b[p], k),
           NEW c, LevelSet(c, b, p, t), NEW new, Dropped(new, loc, b[p][k].id)
    PROVE  SideOK(c, side, new)
<1> DEFINE id == b[p][k].id
           q == b[p]
<1>1. IsBook(b) /\ Listed(b, side, loc) /\ OnePlace(b) /\ Found(b, side, loc)
  BY DEF SideOK
<1>2. p \in Price /\ q \in Seq(RestingOrder) /\ Len(q) \in Nat /\ Len(t) \in Nat /\ k \in Int
  BY <1>1 DEF IsBook
<1>3. IsBook(c)
  BY <1>1, <1>2, BookStays
<1>4. \A x \in DOMAIN c : x # p => x \in DOMAIN b /\ c[x] = b[x]
  BY DEF LevelSet
<1>5. p \in DOMAIN c => c[p] = t /\ t # << >>
  BY DEF LevelSet
<1>6. ASSUME NEW j \in 1 .. Len(t)
      PROVE  \E i \in 1 .. Len(q) : i # k /\ t[j] = q[i] /\ i = IF j < k THEN j ELSE j + 1
  <2>1. CASE j < k
    BY <1>2, <2>1 DEF CutAt
  <2>2. CASE ~(j < k)
    BY <1>2, <2>2 DEF CutAt
  <2> QED
    BY <2>1, <2>2
<1>7. \A x \in DOMAIN b : x # p => \A i \in 1 .. Len(b[x]) : b[x][i].id # id
  <2> SUFFICES ASSUME NEW x \in DOMAIN b, NEW i \in 1 .. Len(b[x]), b[x][i].id = id
               PROVE  x = p
    OBVIOUS
  <2>1. loc[id] = [side |-> side, price |-> x] /\ loc[id] = [side |-> side, price |-> p]
    BY <1>1 DEF Listed
  <2>2. loc[id].price = x /\ loc[id].price = p
    BY <2>1
  <2> QED
    BY <2>2
<1>8. Listed(c, side, new)
  <2> SUFFICES ASSUME NEW x \in DOMAIN c, NEW j \in 1 .. Len(c[x])
               PROVE  c[x][j].id \in DOMAIN new /\ new[c[x][j].id] = [side |-> side, price |-> x]
    BY DEF Listed
  <2>1. CASE x = p
    <3>1. c[x] = t /\ j \in 1 .. Len(t)
      BY <1>5, <2>1
    <3>2. PICK i \in 1 .. Len(q) : i # k /\ t[j] = q[i]
      BY <1>6, <3>1
    <3>3. q[i].id # id /\ q[i].id \in DOMAIN loc /\ loc[q[i].id] = [side |-> side, price |-> p]
      BY <1>1, <3>2 DEF OnePlace, Listed
    <3> QED
      BY <2>1, <3>1, <3>2, <3>3 DEF Dropped
  <2>2. CASE x # p
    <3>1. x \in DOMAIN b /\ c[x] = b[x]
      BY <1>4, <2>2
    <3>2. b[x][j].id # id /\ b[x][j].id \in DOMAIN loc /\ loc[b[x][j].id] = [side |-> side, price |-> x]
      BY <1>1, <1>7, <2>2, <3>1 DEF Listed
    <3> QED
      BY <3>1, <3>2 DEF Dropped
  <2> QED
    BY <2>1, <2>2
<1>9. OnePlace(c)
  <2> SUFFICES ASSUME NEW x \in DOMAIN c, NEW j \in 1 .. Len(c[x]), NEW l \in 1 .. Len(c[x]),
                      c[x][j].id = c[x][l].id
               PROVE  j = l
    BY DEF OnePlace
  <2>1. CASE x = p
    <3>1. c[x] = t /\ j \in 1 .. Len(t) /\ l \in 1 .. Len(t)
      BY <1>5, <2>1
    <3>2. PICK i \in 1 .. Len(q) : i # k /\ t[j] = q[i] /\ i = IF j < k THEN j ELSE j + 1
      BY <1>6, <3>1
    <3>3. PICK h \in 1 .. Len(q) : h # k /\ t[l] = q[h] /\ h = IF l < k THEN l ELSE l + 1
      BY <1>6, <3>1
    <3>4. i = h
      BY <1>1, <3>1, <3>2, <3>3 DEF OnePlace
    <3> QED
      BY <1>2, <3>1, <3>2, <3>3, <3>4
  <2>2. CASE x # p
    <3>1. x \in DOMAIN b /\ c[x] = b[x]
      BY <1>4, <2>2
    <3> QED
      BY <1>1, <3>1 DEF OnePlace
  <2> QED
    BY <2>1, <2>2
<1>10. Found(c, side, new)
  <2> SUFFICES ASSUME NEW i \in DOMAIN new, new[i].side = side
               PROVE  /\ new[i].price \in DOMAIN c
                      /\ \E j \in 1 .. Len(c[new[i].price]) : c[new[i].price][j].id = i
    BY DEF Found
  <2> DEFINE x == new[i].price
  <2>1. i \in DOMAIN loc /\ i # id /\ new[i] = loc[i]
    BY DEF Dropped
  <2>2. x \in DOMAIN b /\ \E j \in 1 .. Len(b[x]) : b[x][j].id = i
    BY <1>1, <2>1 DEF Found
  <2> HIDE DEF x
  <2>3. CASE x # p
    <3>1. x \in DOMAIN c /\ c[x] = b[x]
      BY <2>2, <2>3 DEF LevelSet
    <3> QED
      BY <2>2, <3>1 DEF x
  <2>4. CASE x = p
    <3>1. PICK h \in 1 .. Len(q) : q[h].id = i
      BY <2>2, <2>4
    <3>2. h # k
      BY <2>1, <3>1
    <3> DEFINE j == IF h < k THEN h ELSE h - 1
    <3>3. j \in 1 .. Len(t) /\ t[j] = q[h]
      <4>1. CASE h < k
        BY <1>2, <4>1 DEF CutAt
      <4>2. CASE ~(h < k)
        <5>1. j = h - 1 /\ h - 1 \in 1 .. Len(t) /\ ~(h - 1 < k) /\ (h - 1) + 1 = h
          BY <1>2, <3>2, <4>2 DEF CutAt
        <5> HIDE DEF j
        <5>2. t[h - 1] = q[(h - 1) + 1]
          BY <5>1 DEF CutAt
        <5> QED
          BY <5>1, <5>2
      <4> QED
        BY <4>1, <4>2
    <3> HIDE DEF j
    <3>4. t # << >>
      BY <3>3
    <3>5. p \in DOMAIN c /\ c[p] = t
      BY <3>4 DEF LevelSet
    <3> QED
      BY <2>4, <3>1, <3>3, <3>5 DEF x
  <2> QED
    BY <2>3, <2>4
<1> QED
  BY <1>3, <1>8, <1>9, <1>10 DEF SideOK

\* An order of the other side taken out of the index.
LEMMA OtherTakenOut ==
    ASSUME NEW b, NEW side, NEW loc, SideOK(b, side, loc), NEW id \in DOMAIN loc,
           loc[id].side # side, NEW new, Dropped(new, loc, id)
    PROVE  SideOK(b, side, new)
<1>1. IsBook(b) /\ Listed(b, side, loc) /\ OnePlace(b) /\ Found(b, side, loc)
  BY DEF SideOK
<1>2. Listed(b, side, new)
  <2> SUFFICES ASSUME NEW x \in DOMAIN b, NEW j \in 1 .. Len(b[x])
               PROVE  b[x][j].id \in DOMAIN new /\ new[b[x][j].id] = [side |-> side, price |-> x]
    BY DEF Listed
  <2>1. b[x][j].id \in DOMAIN loc /\ loc[b[x][j].id] = [side |-> side, price |-> x]
    BY <1>1 DEF Listed
  <2>2. loc[b[x][j].id].side = side
    BY <2>1
  <2>3. b[x][j].id # id
    BY <2>2
  <2> QED
    BY <2>1, <2>3 DEF Dropped
<1>3. Found(b, side, new)
  BY <1>1 DEF Found, Dropped
<1> QED
  BY <1>1, <1>2, <1>3 DEF SideOK

\* An order of the other side entered in the index.
LEMMA OtherEntered ==
    ASSUME NEW b, NEW side, NEW loc, SideOK(b, side, loc), NEW id, id \notin DOMAIN loc,
           NEW other, other # side, NEW p, NEW new, Entered(new, loc, id, other, p)
    PROVE  SideOK(b, side, new)
<1>1. IsBook(b) /\ Listed(b, side, loc) /\ OnePlace(b) /\ Found(b, side, loc)
  BY DEF SideOK
<1>2. Listed(b, side, new)
  BY <1>1 DEF Listed, Entered
<1>3. Found(b, side, new)
  <2> SUFFICES ASSUME NEW i \in DOMAIN new, new[i].side = side
               PROVE  /\ new[i].price \in DOMAIN b
                      /\ \E j \in 1 .. Len(b[new[i].price]) : b[new[i].price][j].id = i
    BY DEF Found
  <2>1. i # id
    <3>1. new[id].side = other
      BY DEF Entered
    <3> QED
      BY <3>1
  <2>2. i \in DOMAIN loc /\ new[i] = loc[i]
    BY <2>1 DEF Entered
  <2> QED
    BY <1>1, <2>2 DEF Found
<1> QED
  BY <1>1, <1>2, <1>3 DEF SideOK

\* A queue whose orders stay where they are.
LEMMA Requeue ==
    ASSUME NEW b, NEW side, NEW loc, SideOK(b, side, loc), NEW p \in DOMAIN b,
           NEW t \in Seq(RestingOrder), Len(t) = Len(b[p]),
           \A j \in 1 .. Len(t) : t[j].id = b[p][j].id,
           NEW c, LevelSet(c, b, p, t)
    PROVE  SideOK(c, side, loc) /\ DOMAIN c = DOMAIN b
<1>1. IsBook(b) /\ Listed(b, side, loc) /\ OnePlace(b) /\ Found(b, side, loc)
  BY DEF SideOK
<1>2. p \in Price /\ b[p] \in Seq(RestingOrder) /\ b[p] # << >>
  BY <1>1 DEF IsBook
<1>3. IsBook(c)
  BY <1>1, <1>2, BookStays
<1>4. t # << >>
  BY <1>2, EmptySeq
<1>5. DOMAIN c = DOMAIN b /\ c[p] = t /\ \A x \in DOMAIN b : x # p => c[x] = b[x]
  BY <1>4 DEF LevelSet
<1>6. ASSUME NEW x \in DOMAIN b
      PROVE  Len(c[x]) = Len(b[x]) /\ \A j \in 1 .. Len(b[x]) : c[x][j].id = b[x][j].id
  BY <1>5
<1>7. Listed(c, side, loc)
  BY <1>1, <1>5, <1>6 DEF Listed
<1>8. OnePlace(c)
  BY <1>1, <1>5, <1>6 DEF OnePlace
<1>9. Found(c, side, loc)
  BY <1>1, <1>5, <1>6 DEF Found
<1> QED
  BY <1>3, <1>5, <1>7, <1>8, <1>9 DEF SideOK

\* q is the queue of price p in book b, empty if there is no such level.
QueueAt(q, b, p) == (p \in DOMAIN b => q = b[p]) /\ (p \notin DOMAIN b => q = << >>)

\* t is queue q with r at its end.
Pushed(t, q, r) == t = Append(q, r)

\* An order placed at the end of its queue and entered in the index.
LEMMA PlaceLast ==
    ASSUME NEW b, NEW side, NEW loc, SideOK(b, side, loc), NEW p \in Price, NEW r \in RestingOrder,
           r.id \notin DOMAIN loc, NEW q \in Seq(RestingOrder),
           QueueAt(q, b, p),
           NEW t, Pushed(t, q, r), NEW c, LevelSet(c, b, p, t), NEW new, Entered(new, loc, r.id, side, p)
    PROVE  SideOK(c, side, new)
<1>1. IsBook(b) /\ Listed(b, side, loc) /\ OnePlace(b) /\ Found(b, side, loc)
  BY DEF SideOK
<1>2. /\ t \in Seq(RestingOrder) /\ Len(t) = Len(q) + 1 /\ t # << >> /\ Len(q) \in Nat
      /\ t[Len(q) + 1] = r /\ \A j \in 1 .. Len(q) : t[j] = q[j]
  BY AppendProperties DEF Pushed
<1>3. IsBook(c)
  BY <1>1, <1>2, BookStays
<1>4. DOMAIN c = DOMAIN b \cup {p} /\ c[p] = t /\ \A x \in DOMAIN b : x # p => c[x] = b[x]
  BY <1>2 DEF LevelSet
<1>5. \A j \in 1 .. Len(q) : p \in DOMAIN b /\ j \in 1 .. Len(b[p]) /\ q[j] = b[p][j]
  BY <1>2 DEF QueueAt
<1>6. ASSUME NEW j \in 1 .. Len(q) PROVE q[j].id \in DOMAIN loc /\ q[j].id # r.id
                                         /\ loc[q[j].id] = [side |-> side, price |-> p]
  BY <1>1, <1>5 DEF Listed
<1>7. \A j \in 1 .. Len(t) : j \in 1 .. Len(q) \/ j = Len(q) + 1
  BY <1>2
<1>8. Listed(c, side, new)
  <2> SUFFICES ASSUME NEW x \in DOMAIN c, NEW j \in 1 .. Len(c[x])
               PROVE  c[x][j].id \in DOMAIN new /\ new[c[x][j].id] = [side |-> side, price |-> x]
    BY DEF Listed
  <2>1. CASE x = p
    <3>1. c[x] = t /\ (j \in 1 .. Len(q) \/ j = Len(q) + 1)
      BY <1>4, <1>7, <2>1
    <3> QED
      BY <1>2, <1>6, <2>1, <3>1 DEF Entered
  <2>2. CASE x # p
    <3>1. x \in DOMAIN b /\ c[x] = b[x]
      BY <1>4, <2>2
    <3>2. b[x][j].id \in DOMAIN loc /\ loc[b[x][j].id] = [side |-> side, price |-> x]
      BY <1>1, <3>1 DEF Listed
    <3> QED
      BY <3>1, <3>2 DEF Entered
  <2> QED
    BY <2>1, <2>2
<1>9. OnePlace(c)
  <2> SUFFICES ASSUME NEW x \in DOMAIN c, NEW j \in 1 .. Len(c[x]), NEW l \in 1 .. Len(c[x]),
                      c[x][j].id = c[x][l].id
               PROVE  j = l
    BY DEF OnePlace
  <2>1. CASE x = p
    <3>1. c[x] = t /\ (j \in 1 .. Len(q) \/ j = Len(q) + 1) /\ (l \in 1 .. Len(q) \/ l = Len(q) + 1)
      BY <1>4, <1>7, <2>1
    <3>2. j \in 1 .. Len(q) /\ l \in 1 .. Len(q) => j = l
      BY <1>1, <1>2, <1>5, <3>1 DEF OnePlace
    <3> QED
      BY <1>2, <1>6, <3>1, <3>2
  <2>2. CASE x # p
    <3>1. x \in DOMAIN b /\ c[x] = b[x]
      BY <1>4, <2>2
    <3> QED
      BY <1>1, <3>1 DEF OnePlace
  <2> QED
    BY <2>1, <2>2
<1>10. Found(c, side, new)
  <2> SUFFICES ASSUME NEW i \in DOMAIN new, new[i].side = side
               PROVE  /\ new[i].price \in DOMAIN c
                      /\ \E j \in 1 .. Len(c[new[i].price]) : c[new[i].price][j].id = i
    BY DEF Found
  <2>1. CASE i = r.id
    <3>1. new[i].price = p /\ c[p] = t /\ t[Len(q) + 1].id = i /\ Len(q) + 1 \in 1 .. Len(t)
      BY <1>2, <1>4, <2>1 DEF Entered
    <3> QED
      BY <1>4, <3>1
  <2>2. CASE i # r.id
    <3>1. i \in DOMAIN loc /\ new[i] = loc[i]
      BY <2>2 DEF Entered
    <3>2. /\ loc[i].price \in DOMAIN b
          /\ \E j \in 1 .. Len(b[loc[i].price]) : b[loc[i].price][j].id = i
      BY <1>1, <3>1 DEF Found
    <3>3. CASE loc[i].price = p
      <4>1. PICK j \in 1 .. Len(q) : q[j].id = i
        BY <3>2, <3>3 DEF QueueAt
      <4>2. j \in 1 .. Len(t) /\ t[j].id = i
        BY <1>2, <4>1
      <4> QED
        BY <1>4, <3>1, <3>3, <4>2
    <3>4. CASE loc[i].price # p
      BY <1>4, <3>1, <3>2, <3>4
    <3> QED
      BY <3>3, <3>4
  <2> QED
    BY <2>1, <2>2
<1> QED
  BY <1>3, <1>4, <1>8, <1>9, <1>10 DEF SideOK

-----------------------------------------------------------------------------
(* One pass of the matching *)

\* The index without one order.
LEMMA IndexShrinks ==
    ASSUME NEW loc, IsIndex(loc), NEW id \in DOMAIN loc, NEW new, Dropped(new, loc, id)
    PROVE  IsIndex(new) /\ Cardinality(DOMAIN new) = Cardinality(DOMAIN loc) - 1
<1>1. IsFiniteSet(DOMAIN loc) /\ DOMAIN new = DOMAIN loc \ {id}
  BY DEF IsIndex, Dropped
<1>2. IsFiniteSet(DOMAIN new) /\ Cardinality(DOMAIN new) = Cardinality(DOMAIN loc) - 1
  BY <1>1, FS_RemoveElement
<1> QED
  BY <1>1, <1>2 DEF IsIndex, Dropped

\* The index with one more order.
LEMMA IndexGrows ==
    ASSUME NEW loc, IsIndex(loc), NEW id \in Ids, NEW side \in Side, NEW p \in Price,
           NEW new, Entered(new, loc, id, side, p)
    PROVE  IsIndex(new)
<1>1. IsFiniteSet(DOMAIN loc) /\ DOMAIN new = DOMAIN loc \cup {id}
  BY DEF IsIndex, Entered
<1>2. IsFiniteSet(DOMAIN new)
  BY <1>1, FS_AddElement
<1> QED
  BY <1>1, <1>2 DEF IsIndex, Entered

\* Where a matching of o stands: m matches against the other side, and the own side,
\* which it does not touch, is `own`.
Matching(m, side, own) ==
    /\ IsIndex(m.locations) /\ m.remaining \in Nat
    /\ SideOK(m.book, Opposite(side), m.locations)
    /\ SideOK(own, side, m.locations)

\* A fill either takes the front order out or leaves nothing of the incoming one.
LEMMA FillKeeps ==
    ASSUME NEW side \in Side, NEW own, NEW m, Matching(m, side, own), m.remaining # 0,
           NEW p \in DOMAIN m.book, NEW o
    PROVE  LET f == FillFront(m, o, p)
           IN  /\ Matching(f, side, own)
               /\ DOMAIN f.book \subseteq DOMAIN m.book
               /\ DOMAIN f.locations \subseteq DOMAIN m.locations
               /\ \/ f.remaining = 0
                  \/ Cardinality(DOMAIN f.locations) = Cardinality(DOMAIN m.locations) - 1
<1> DEFINE f == FillFront(m, o, p)
           queue == m.book[p]
           front == Head(queue)
           n == Min({m.remaining, front.qty})
           left == front.qty - n
           rest == IF left = 0 THEN Tail(queue) ELSE <<[front EXCEPT !.qty = left]>> \o Tail(queue)
<1>1. /\ IsIndex(m.locations) /\ m.remaining \in Nat /\ SideOK(own, side, m.locations)
      /\ SideOK(m.book, Opposite(side), m.locations)
  BY DEF Matching
<1>2. /\ IsBook(m.book) /\ Listed(m.book, Opposite(side), m.locations)
      /\ queue \in Seq(RestingOrder) /\ queue # << >> /\ p \in Price
  BY <1>1 DEF SideOK, IsBook
<1>3. /\ front = queue[1] /\ 1 \in 1 .. Len(queue) /\ Len(queue) \in Nat
      /\ Tail(queue) \in Seq(RestingOrder) /\ Len(Tail(queue)) = Len(queue) - 1
      /\ \A j \in 1 .. Len(Tail(queue)) : Tail(queue)[j] = queue[j + 1]
  BY <1>2
<1>4. front \in RestingOrder
  BY <1>2, <1>3
<1>5. n \in Nat /\ left \in Nat /\ n <= m.remaining /\ (left # 0 => n = m.remaining)
  BY <1>1, <1>4, MinOfTwo DEF RestingOrder
<1>6. /\ f.book = SetLevel(m.book, p, rest)
      /\ f.locations = IndexAfter(m.locations, front.id, left)
      /\ f.remaining = m.remaining - n
  BY DEF FillFront
<1>7. f.remaining \in Nat /\ (left # 0 => f.remaining = 0)
  BY <1>1, <1>5, <1>6
<1>8. front.id \in DOMAIN m.locations /\ m.locations[front.id].side = Opposite(side)
  <2>1. /\ queue[1].id \in DOMAIN m.locations
        /\ m.locations[queue[1].id] = [side |-> Opposite(side), price |-> p]
    BY <1>2, <1>3 DEF Listed
  <2> QED
    BY <1>3, <2>1
<1>9. Opposite(side) # side
  BY DEF Opposite, Side
<1>10. LevelSet(f.book, m.book, p, rest)
  BY <1>6, SetLevelIs
<1> HIDE DEF f, n, left, rest, front
<1>11. CASE left = 0
  <2>1. rest = Tail(queue)
    BY <1>11 DEF rest
  <2>2. CutAt(rest, queue, 1) /\ rest \in Seq(RestingOrder)
    BY <1>3, <2>1 DEF CutAt
  <2>3. Dropped(f.locations, m.locations, front.id)
    BY <1>6, <1>11, WithoutIs DEF IndexAfter
  <2>4. SideOK(f.book, Opposite(side), f.locations)
    <3>1. Dropped(f.locations, m.locations, m.book[p][1].id)
      BY <1>3, <2>3
    <3> QED
      BY <1>1, <1>3, <1>10, <2>2, <3>1, TakeOut
  <2>5. SideOK(own, side, f.locations)
    BY <1>1, <1>8, <1>9, <2>3, OtherTakenOut
  <2>6. IsIndex(f.locations) /\ Cardinality(DOMAIN f.locations) = Cardinality(DOMAIN m.locations) - 1
    BY <1>1, <1>8, <2>3, IndexShrinks
  <2>7. DOMAIN f.book \subseteq DOMAIN m.book /\ DOMAIN f.locations \subseteq DOMAIN m.locations
    BY <1>10, <2>3 DEF LevelSet, Dropped
  <2> QED
    BY <1>7, <2>4, <2>5, <2>6, <2>7 DEF Matching, f
<1>12. CASE left # 0
  <2> DEFINE r == [front EXCEPT !.qty = left]
  <2>1. r \in RestingOrder /\ r.id = front.id
    BY <1>4, <1>5, <1>12 DEF RestingOrder
  <2> HIDE DEF r
  <2>2. rest = <<r>> \o Tail(queue)
    BY <1>12 DEF rest, r
  <2>3. /\ rest \in Seq(RestingOrder) /\ Len(rest) = Len(queue)
        /\ \A j \in 1 .. Len(rest) : rest[j].id = queue[j].id
    <3>1. <<r>> \in Seq(RestingOrder) /\ Len(<<r>>) = 1 /\ <<r>>[1] = r
      BY <2>1
    <3>2. /\ rest \in Seq(RestingOrder) /\ Len(rest) = Len(queue)
          /\ \A j \in 1 .. Len(rest) : rest[j] = IF j <= 1 THEN r ELSE Tail(queue)[j - 1]
      BY <1>3, <2>2, <3>1, ConcatProperties
    <3>3. ASSUME NEW j \in 1 .. Len(rest) PROVE rest[j].id = queue[j].id
      <4>1. CASE j = 1
        BY <1>3, <2>1, <3>2, <4>1
      <4>2. CASE j # 1
        <5>1. j - 1 \in 1 .. Len(Tail(queue)) /\ ~(j <= 1) /\ (j - 1) + 1 = j
          BY <1>3, <3>2, <4>2
        <5>2. rest[j] = Tail(queue)[j - 1]
          BY <3>2, <5>1
        <5> QED
          BY <1>3, <5>1, <5>2
      <4> QED
        BY <4>1, <4>2
    <3> QED
      BY <3>2, <3>3
  <2>4. f.locations = m.locations
    BY <1>6, <1>12 DEF IndexAfter
  <2>5. SideOK(f.book, Opposite(side), f.locations) /\ DOMAIN f.book = DOMAIN m.book
    BY <1>1, <1>10, <2>3, <2>4, Requeue
  <2> QED
    BY <1>1, <1>7, <1>12, <2>4, <2>5 DEF Matching, f
<1> QED
  BY <1>11, <1>12

-----------------------------------------------------------------------------
(* The whole matching *)

\* The matching has come to an end: nothing remains of o, or no level is left that
\* its limit admits.
Settled(m, o) ==
    \/ m.remaining = 0
    \/ DOMAIN m.book = {}
    \/ Excluded(o, Best(Opposite(o.side), m.book))

\* A pass leaves a settled matching alone and brings any other one nearer.
LEMMA PassKeeps ==
    ASSUME NEW o \in Order, NEW own, NEW m, Matching(m, o.side, own)
    PROVE  LET f == MatchPass(m, o)
           IN  /\ Matching(f, o.side, own)
               /\ DOMAIN f.book \subseteq DOMAIN m.book
               /\ DOMAIN f.locations \subseteq DOMAIN m.locations
               /\ Settled(m, o) => f = m
               /\ ~Settled(m, o) =>
                     f.remaining = 0
                     \/ Cardinality(DOMAIN f.locations) = Cardinality(DOMAIN m.locations) - 1
<1> DEFINE p == Best(Opposite(o.side), m.book)
<1>1. CASE Settled(m, o)
  <2>1. MatchPass(m, o) = m
    BY <1>1 DEF Settled, MatchPass
  <2> QED
    BY <1>1, <2>1
<1>2. CASE ~Settled(m, o)
  <2>1. MatchPass(m, o) = FillFront(m, o, p) /\ m.remaining # 0 /\ DOMAIN m.book # {}
    BY <1>2 DEF Settled, MatchPass
  <2>2. o.side \in Side /\ IsBook(m.book)
    BY DEF Order, Matching, SideOK
  <2>3. p \in DOMAIN m.book
    <3>1. DOMAIN m.book \in SUBSET Nat /\ IsFiniteSet(DOMAIN m.book)
      BY <2>2, BookAssumption DEF IsBook, BookAssumption
    <3> QED
      BY <2>1, <3>1, MinMaxNat DEF Best
  <2> HIDE DEF p
  <2> QED
    BY <1>2, <2>1, <2>2, <2>3, FillKeeps
<1> QED
  BY <1>1, <1>2

\* One pass of each of the three loops of the two books.
LoopPass(loop, x, o, p) ==
    CASE loop = "book" -> MatchPass(x, o)
      [] loop = "level" -> ServeLevel(x, o)
      [] loop = "maker" -> ServeMaker(x, o, p)

\* g holds what the first k passes make of x.
IsPasses(g, loop, x, o, p, k) ==
    g = [n \in 0 .. k |-> IF n = 0 THEN x ELSE LoopPass(loop, g[n - 1], o, p)]

\* There is such a function.
LEMMA PassesExist ==
    ASSUME NEW loop, NEW x, NEW o, NEW p, NEW N \in Nat
    PROVE  \E g : IsPasses(g, loop, x, o, p, N)
<1> DEFINE B == {k \in 0 .. N : ~ \E g : IsPasses(g, loop, x, o, p, k)}
<1> SUFFICES ASSUME ~ \E g : IsPasses(g, loop, x, o, p, N) PROVE FALSE
  OBVIOUS
<1>1. N \in B /\ B \in SUBSET (0 .. N)
  OBVIOUS
<1> HIDE DEF B
<1>2. PICK k \in B : \A y \in B : k <= y
  BY <1>1, Least
<1>3. k \in 0 .. N /\ ~ \E g : IsPasses(g, loop, x, o, p, k)
  BY <1>2 DEF B
<1>4. CASE k = 0
  <2> DEFINE g == [n \in 0 .. 0 |-> x]
  <2>1. IsPasses(g, loop, x, o, p, 0)
    BY DEF IsPasses
  <2> QED
    BY <1>3, <1>4, <2>1
<1>5. CASE k # 0
  <2>1. k \in Nat /\ k - 1 \in 0 .. N /\ ~(k <= k - 1)
    BY <1>3, <1>5
  <2>2. PICK f : IsPasses(f, loop, x, o, p, k - 1)
    BY <1>2, <2>1 DEF B
  <2>3. \A n \in 0 .. k - 1 : f[n] = IF n = 0 THEN x ELSE LoopPass(loop, f[n - 1], o, p)
    <3>1. f = [n \in 0 .. k - 1 |-> IF n = 0 THEN x ELSE LoopPass(loop, f[n - 1], o, p)]
      BY <2>2 DEF IsPasses
    <3> QED
      BY <3>1
  <2> DEFINE g == [n \in 0 .. k |-> IF n = k THEN LoopPass(loop, f[k - 1], o, p) ELSE f[n]]
             G(n) == IF n = 0 THEN x ELSE LoopPass(loop, g[n - 1], o, p)
  <2>4. \A n \in 0 .. k - 1 : g[n] = f[n]
    BY <2>1
  <2>5. ASSUME NEW n \in 0 .. k PROVE g[n] = G(n)
    <3>1. CASE n = k
      <4>1. g[k] = LoopPass(loop, f[k - 1], o, p) /\ g[k - 1] = f[k - 1]
        BY <2>1, <2>4, <1>5
      <4> QED
        BY <1>5, <3>1, <4>1
    <3>2. CASE n # k
      <4>1. n \in 0 .. k - 1 /\ (n # 0 => n - 1 \in 0 .. k - 1)
        BY <2>1, <3>2
      <4>2. g[n] = f[n] /\ (n # 0 => g[n - 1] = f[n - 1])
        BY <2>4, <4>1
      <4> HIDE DEF g
      <4> QED
        BY <2>3, <4>1, <4>2
    <3> QED
      BY <3>1, <3>2
  <2>6. g = [n \in 0 .. k |-> G(n)]
    <3>1. g = [n \in 0 .. k |-> g[n]]
      OBVIOUS
    <3> HIDE DEF g, G
    <3> QED
      BY <2>5, <3>1
  <2>7. IsPasses(g, loop, x, o, p, k)
    BY <2>6, Zenon DEF IsPasses
  <2> QED
    BY <1>3, <2>7
<1> QED
  BY <1>4, <1>5

\* Such a function as a sequence of steps.
PassSteps(g, loop, x, o, p, k) ==
    g[0] = x /\ \A n \in 1 .. k : g[n] = LoopPass(loop, g[n - 1], o, p)

\* A run of passes, step by step.
LEMMA PassesSteps ==
    ASSUME NEW g, NEW loop, NEW x, NEW o, NEW p, NEW k \in Nat, IsPasses(g, loop, x, o, p, k)
    PROVE  PassSteps(g, loop, x, o, p, k)
<1>1. g = [n \in 0 .. k |-> IF n = 0 THEN x ELSE LoopPass(loop, g[n - 1], o, p)]
  BY DEF IsPasses
<1>2. \A n \in 0 .. k : g[n] = IF n = 0 THEN x ELSE LoopPass(loop, g[n - 1], o, p)
  BY <1>1
<1>3. 0 \in 0 .. k /\ \A n \in 1 .. k : n \in 0 .. k /\ n # 0
  OBVIOUS
<1> QED
  BY <1>2, <1>3 DEF PassSteps

\* g is the run of the matching of o, to its end.
MatchRun(g, o) ==
    /\ Match(o) = g[Cardinality(DOMAIN locations)] /\ g[0] = MatchStart(o)
    /\ \A n \in 1 .. Cardinality(DOMAIN locations) : g[n] = MatchPass(g[n - 1], o)

\* Match has such a run.
LEMMA MatchValue ==
    ASSUME NEW o, Cardinality(DOMAIN locations) \in Nat
    PROVE  \E g : MatchRun(g, o)
<1> DEFINE K == Cardinality(DOMAIN locations)
           g == CHOOSE g : g = [n \in 0 .. K |-> IF n = 0 THEN MatchStart(o) ELSE MatchPass(g[n - 1], o)]
<1>1. \A y : LoopPass("book", y, o, 0) = MatchPass(y, o)
  BY DEF LoopPass
<1>2. PICK h : IsPasses(h, "book", MatchStart(o), o, 0, K)
  BY PassesExist
<1>3. h = [n \in 0 .. K |-> IF n = 0 THEN MatchStart(o) ELSE MatchPass(h[n - 1], o)]
  BY <1>1, <1>2 DEF IsPasses
<1>4. g = [n \in 0 .. K |-> IF n = 0 THEN MatchStart(o) ELSE MatchPass(g[n - 1], o)]
  BY <1>3, Zenon
<1>5. Match(o) = g[K]
  BY Zenon DEF Match
<1> HIDE DEF g
<1>6. IsPasses(g, "book", MatchStart(o), o, 0, K)
  BY <1>1, <1>4 DEF IsPasses
<1>7. PassSteps(g, "book", MatchStart(o), o, 0, K)
  BY <1>6, PassesSteps
<1>8. MatchRun(g, o)
  BY <1>1, <1>5, <1>7 DEF MatchRun, PassSteps
<1> QED
  BY <1>8

\* After n of the passes: the books and the index are in order, and unless the matching
\* is settled an order has left the book at every pass.
Progress(m, o, n) ==
    /\ Matching(m, o.side, levels[o.side])
    /\ DOMAIN m.book \subseteq DOMAIN levels[Opposite(o.side)]
    /\ DOMAIN m.locations \subseteq DOMAIN locations
    /\ Settled(m, o) \/ Cardinality(DOMAIN m.locations) = Cardinality(DOMAIN locations) - n

\* The books and the index are in order.
InOrder ==
    /\ IsIndex(locations)
    /\ \A side \in Side : SideOK(levels[side], side, locations)

\* add_order starts a matching of which no pass has been done.
LEMMA ProgressStart ==
    ASSUME InOrder, NEW o \in Order
    PROVE  Progress(MatchStart(o), o, 0)
<1>1. o.side \in Side /\ Opposite(o.side) \in Side /\ o.qty \in Nat
  BY BookAssumption DEF Order, Side, Opposite, BookAssumption
<1>2. Cardinality(DOMAIN locations) \in Nat
  BY FS_CardinalityType DEF InOrder, IsIndex
<1> QED
  BY <1>1, <1>2 DEF Progress, MatchStart, Matching, InOrder

\* Each pass keeps the matching in order and, unless it is settled, removes an order.
LEMMA ProgressStep ==
    ASSUME InOrder, NEW o \in Order, NEW n \in Nat, NEW m, Progress(m, o, n)
    PROVE  Progress(MatchPass(m, o), o, n + 1)
<1> DEFINE f == MatchPass(m, o)
           own == levels[o.side]
<1>1. /\ Matching(f, o.side, own)
      /\ DOMAIN f.book \subseteq DOMAIN m.book
      /\ DOMAIN f.locations \subseteq DOMAIN m.locations
      /\ Settled(m, o) => f = m
      /\ ~Settled(m, o) =>
            f.remaining = 0
            \/ Cardinality(DOMAIN f.locations) = Cardinality(DOMAIN m.locations) - 1
  <2>1. Matching(m, o.side, own)
    BY DEF Progress
  <2> HIDE DEF own
  <2> QED
    BY <2>1, PassKeeps
<1>2. Cardinality(DOMAIN locations) \in Nat
  BY FS_CardinalityType DEF InOrder, IsIndex
<1> HIDE DEF f
<1>3. CASE Settled(m, o)
  BY <1>1, <1>3 DEF Progress, f
<1>4. CASE ~Settled(m, o)
  <2>1. \/ f.remaining = 0
        \/ Cardinality(DOMAIN f.locations) = Cardinality(DOMAIN locations) - (n + 1)
    BY <1>1, <1>2, <1>4 DEF Progress
  <2> QED
    BY <1>1, <2>1 DEF Progress, f, Settled
<1> QED
  BY <1>3, <1>4

\* Every pass of a run makes progress.
LEMMA RunProgress ==
    ASSUME InOrder, NEW o \in Order, NEW g, MatchRun(g, o),
           NEW i \in 0 .. Cardinality(DOMAIN locations)
    PROVE  Progress(g[i], o, i)
<1> DEFINE K == Cardinality(DOMAIN locations)
<1>1. K \in Nat
  BY FS_CardinalityType DEF InOrder, IsIndex
<1>2. g[0] = MatchStart(o) /\ \A n \in 1 .. K : g[n] = MatchPass(g[n - 1], o)
  BY DEF MatchRun
<1> DEFINE B == {n \in 0 .. K : ~Progress(g[n], o, n)}
<1>3. B = {}
  <2> SUFFICES ASSUME B # {} PROVE FALSE
    OBVIOUS
  <2>1. B \in SUBSET (0 .. K)
    OBVIOUS
  <2> HIDE DEF B, K
  <2>2. PICK n \in B : \A y \in B : n <= y
    BY <1>1, <2>1, Least
  <2>3. n \in 0 .. K /\ ~Progress(g[n], o, n)
    BY <2>2 DEF B
  <2>4. n # 0
    BY <1>2, <2>3, ProgressStart
  <2>5. n - 1 \in 0 .. K /\ n - 1 \in Nat /\ (n - 1) + 1 = n /\ ~(n <= n - 1) /\ n \in 1 .. K
    BY <1>1, <2>3, <2>4
  <2>6. Progress(g[n - 1], o, n - 1)
    BY <2>2, <2>5 DEF B
  <2>7. Progress(g[n], o, (n - 1) + 1)
    BY <1>2, <2>5, <2>6, ProgressStep
  <2> QED
    BY <2>3, <2>5, <2>7
<1> QED
  BY <1>3

\* A matching ends settled, whatever the book: no pass is missing.
LEMMA MatchSettles ==
    ASSUME InOrder, NEW o \in Order
    PROVE  /\ Matching(Match(o), o.side, levels[o.side])
           /\ DOMAIN Match(o).book \subseteq DOMAIN levels[Opposite(o.side)]
           /\ DOMAIN Match(o).locations \subseteq DOMAIN locations
           /\ Settled(Match(o), o)
<1> DEFINE K == Cardinality(DOMAIN locations)
<1>1. K \in Nat
  BY FS_CardinalityType DEF InOrder, IsIndex
<1>2. PICK g : MatchRun(g, o)
  BY <1>1, MatchValue
<1>3. K \in 0 .. K
  BY <1>1
<1>4. Progress(Match(o), o, K)
  BY <1>2, <1>3, RunProgress DEF MatchRun
<1> DEFINE m == Match(o)
<1>5. Settled(m, o)
  <2> SUFFICES ASSUME ~Settled(m, o) PROVE FALSE
    OBVIOUS
  <2>1. Cardinality(DOMAIN m.locations) = 0
    BY <1>1, <1>4 DEF Progress
  <2>2. IsFiniteSet(DOMAIN m.locations) /\ DOMAIN m.locations = {}
    BY <1>4, <2>1, FS_EmptySet DEF Progress, Matching, IsIndex
  <2>3. PICK p \in DOMAIN m.book : TRUE
    BY DEF Settled
  <2>4. m.book[p] \in Seq(RestingOrder) /\ m.book[p] # << >>
    BY <1>4 DEF Progress, Matching, SideOK, IsBook
  <2>5. 1 \in 1 .. Len(m.book[p])
    BY <2>4
  <2>6. m.book[p][1].id \in DOMAIN m.locations
    BY <1>4, <2>5 DEF Progress, Matching, SideOK, Listed
  <2> QED
    BY <2>2, <2>6
<1> QED
  BY <1>4, <1>5 DEF Progress

-----------------------------------------------------------------------------
(* The inductive invariant *)

BookInv == DOMAIN levels = Side /\ InOrder /\ Uncrossed

\* The empty book is in order.
LEMMA BookInvInit == Init => BookInv
<1> SUFFICES ASSUME Init PROVE BookInv
  OBVIOUS
<1>1. DOMAIN Nothing = {}
  BY DEF Nothing
<1>2. DOMAIN levels = Side /\ locations = Nothing /\ \A side \in Side : levels[side] = Nothing
  BY DEF Init
<1>3. IsIndex(Nothing)
  BY <1>1, FS_EmptySet DEF IsIndex
<1>4. ASSUME NEW side PROVE SideOK(Nothing, side, Nothing)
  BY <1>1, FS_EmptySet DEF SideOK, IsBook, Listed, OnePlace, Found
<1>5. Uncrossed
  BY <1>1, <1>2 DEF Uncrossed, Side
<1> QED
  BY <1>2, <1>3, <1>4, <1>5 DEF BookInv, InOrder

\* RemoveAt takes one element out of a sequence.
LEMMA RemoveAtIs ==
    ASSUME NEW S, NEW q \in Seq(S), NEW k \in 1 .. Len(q)
    PROVE  RemoveAt(q, k) \in Seq(S) /\ CutAt(RemoveAt(q, k), q, k)
<1> DEFINE a == SubSeq(q, 1, k - 1)
           z == SubSeq(q, k + 1, Len(q))
<1>1. Len(q) \in Nat /\ k \in Int
  OBVIOUS
<1>2. /\ a \in Seq(S) /\ Len(a) = k - 1
      /\ \A j \in 1 .. k - 1 : a[j] = q[j]
  BY <1>1, SubSeqProperties
<1>3. /\ z \in Seq(S) /\ Len(z) = Len(q) - k
      /\ \A j \in 1 .. Len(q) - k : z[j] = q[k + j]
  BY <1>1, SubSeqProperties
<1>4. RemoveAt(q, k) = a \o z
  BY DEF RemoveAt
<1> HIDE DEF a, z
<1>5. /\ a \o z \in Seq(S) /\ Len(a \o z) = Len(q) - 1
      /\ \A j \in 1 .. Len(a) + Len(z) : (a \o z)[j] = IF j <= Len(a) THEN a[j] ELSE z[j - Len(a)]
  <2>1. /\ a \o z \in Seq(S) /\ Len(a \o z) = Len(a) + Len(z)
        /\ \A j \in 1 .. Len(a) + Len(z) :
             (a \o z)[j] = IF j <= Len(a) THEN a[j] ELSE z[j - Len(a)]
    <3>1. a \in Seq(S) /\ z \in Seq(S)
      BY <1>2, <1>3
    <3> QED
      BY <3>1, ConcatProperties, Zenon
  <2>2. Len(a) + Len(z) = Len(q) - 1
    BY <1>1, <1>2, <1>3
  <2> QED
    BY <2>1, <2>2
<1>6. ASSUME NEW j \in 1 .. Len(a \o z)
      PROVE  (a \o z)[j] = IF j < k THEN q[j] ELSE q[j + 1]
  <2>1. j \in 1 .. Len(a) + Len(z) /\ j \in Int
    BY <1>1, <1>2, <1>3, <1>5
  <2>2. CASE j < k
    BY <1>1, <1>2, <1>5, <2>1, <2>2
  <2>3. CASE ~(j < k)
    <3>1. ~(j <= Len(a)) /\ j - Len(a) \in 1 .. Len(q) - k /\ k + (j - Len(a)) = j + 1
      BY <1>1, <1>2, <1>5, <2>1, <2>3
    <3>2. (a \o z)[j] = z[j - Len(a)] /\ z[j - Len(a)] = q[k + (j - Len(a))]
      BY <1>3, <1>5, <2>1, <3>1
    <3> QED
      BY <2>3, <3>1, <3>2
  <2> QED
    BY <2>2, <2>3
<1> QED
  BY <1>4, <1>5, <1>6 DEF CutAt

\* A cancel takes its order out of its queue and of the index.
LEMMA CancelKeeps ==
    ASSUME BookInv, NEW id \in Ids, Cancel(id)
    PROVE  BookInv'
<1> DEFINE at == locations[id]
           book == levels[at.side]
           queue == book[at.price]
           k == PlaceOf(queue, id)
           t == RemoveAt(queue, k)
           c == SetLevel(book, at.price, t)
<1>1. id \in DOMAIN locations /\ locations' = Without(locations, id)
  BY DEF Cancel
<1>2. levels' = [levels EXCEPT ![at.side] = c]
  BY DEF Cancel
<1>3. at.side \in Side /\ at.price \in Price /\ DOMAIN levels = Side
  BY <1>1 DEF BookInv, InOrder, IsIndex
<1>4. SideOK(book, at.side, locations) /\ IsIndex(locations)
  BY <1>3 DEF BookInv, InOrder
<1>5. at.price \in DOMAIN book /\ \E j \in 1 .. Len(queue) : queue[j].id = id
  BY <1>1, <1>4 DEF SideOK, Found
<1>6. queue \in Seq(RestingOrder)
  BY <1>4, <1>5 DEF SideOK, IsBook
<1>7. k \in 1 .. Len(queue) /\ queue[k].id = id
  <2>1. DOMAIN queue = 1 .. Len(queue)
    BY <1>6
  <2>2. \E j \in DOMAIN queue : queue[j].id = id
    BY <1>5, <2>1
  <2>3. k \in DOMAIN queue /\ queue[k].id = id
    BY <2>2, Zenon DEF PlaceOf
  <2> QED
    BY <2>1, <2>3
<1> HIDE DEF k
<1>8. t \in Seq(RestingOrder) /\ CutAt(t, queue, k)
  BY <1>6, <1>7, RemoveAtIs
<1>9. LevelSet(c, book, at.price, t)
  BY SetLevelIs
<1> HIDE DEF t, c
<1>10. Dropped(locations', locations, id)
  BY <1>1, WithoutIs
<1>11. IsIndex(locations')
  BY <1>1, <1>4, <1>10, IndexShrinks
<1>12. SideOK(c, at.side, locations')
  <2>1. Dropped(locations', locations, queue[k].id)
    BY <1>7, <1>10
  <2> HIDE DEF book, at
  <2> QED
    BY <1>4, <1>5, <1>7, <1>8, <1>9, <2>1, TakeOut
<1>13. \A side \in Side : side # at.side => SideOK(levels[side], side, locations')
  <2> SUFFICES ASSUME NEW side \in Side, side # at.side PROVE SideOK(levels[side], side, locations')
    OBVIOUS
  <2>1. SideOK(levels[side], side, locations)
    BY DEF BookInv, InOrder
  <2> QED
    BY <1>1, <1>10, <2>1, OtherTakenOut
<1>14. /\ DOMAIN levels' = Side /\ levels'[at.side] = c
       /\ \A side \in Side : side # at.side => levels'[side] = levels[side]
  BY <1>2, <1>3
<1>15. InOrder'
  BY <1>11, <1>12, <1>13, <1>14 DEF InOrder
<1>16. DOMAIN c \subseteq DOMAIN book
  BY <1>5, <1>9 DEF LevelSet
<1>17. \A side \in Side : DOMAIN levels'[side] \subseteq DOMAIN levels[side]
  BY <1>14, <1>16
<1>18. Uncrossed'
  <2>1. "Buy" \in Side /\ "Sell" \in Side
    BY DEF Side
  <2> QED
    BY <1>17, <2>1 DEF BookInv, Uncrossed
<1> QED
  BY <1>14, <1>15, <1>18 DEF BookInv

\* Nothing that a settled matching leaves on the other side could trade with o.
LEMMA SettledApart ==
    ASSUME NEW o \in Order, NEW b, IsBook(b), o.type = "Limit",
           DOMAIN b = {} \/ Excluded(o, Best(Opposite(o.side), b)),
           NEW p \in DOMAIN b
    PROVE  IF o.side = "Buy" THEN o.price < p ELSE p < o.price
<1>1. DOMAIN b \in SUBSET Nat /\ IsFiniteSet(DOMAIN b) /\ DOMAIN b # {} /\ o.price \in Nat /\ o.side \in Side
  BY BookAssumption DEF IsBook, BookAssumption, Order
<1>2. Min(DOMAIN b) \in Nat /\ Max(DOMAIN b) \in Nat /\ Min(DOMAIN b) <= p /\ p <= Max(DOMAIN b)
  BY <1>1, MinMaxNat
<1>3. p \in Nat
  BY <1>1
<1>4. CASE o.side = "Buy"
  BY <1>1, <1>2, <1>3, <1>4 DEF Excluded, Best, Opposite
<1>5. CASE o.side # "Buy"
  BY <1>1, <1>2, <1>3, <1>5 DEF Excluded, Best, Opposite
<1> QED
  BY <1>4, <1>5

\* An order that matches, and may be placed, keeps the book in order.
LEMMA AddOrderKeeps ==
    ASSUME BookInv, NEW o \in Order, AddOrder(o)
    PROVE  BookInv'
<1> DEFINE m == Match(o)
           places == m.remaining > 0 /\ o.type = "Limit"
           own == levels[o.side]
           queue == IF o.price \in DOMAIN own THEN own[o.price] ELSE << >>
           r == [id |-> o.id, qty |-> m.remaining]
           t == Append(queue, r)
           c == SetLevel(own, o.price, t)
           other == Opposite(o.side)
<1>1. o.id \notin DOMAIN locations
  BY DEF AddOrder
<1>2. places => /\ levels' = [levels EXCEPT ![other] = m.book, ![o.side] = SetLevel(@, o.price, PushBack(queue, r))]
                /\ locations' = [id \in DOMAIN m.locations \cup {o.id} |->
                      IF id = o.id THEN [side |-> o.side, price |-> o.price] ELSE m.locations[id]]
  BY DEF AddOrder
<1>3. ~places => levels' = [levels EXCEPT ![other] = m.book] /\ locations' = m.locations
  BY DEF AddOrder
<1>4. /\ o.side \in Side /\ other \in Side /\ o.side # other /\ DOMAIN levels = Side
      /\ o.id \in Ids /\ o.price \in Price /\ \A side \in Side : side = o.side \/ side = other
  BY DEF Order, Side, Opposite, BookInv
<1>5. /\ Matching(m, o.side, own) /\ Settled(m, o)
      /\ DOMAIN m.book \subseteq DOMAIN levels[other]
      /\ DOMAIN m.locations \subseteq DOMAIN locations
  BY MatchSettles DEF BookInv
<1>6. /\ IsIndex(m.locations) /\ m.remaining \in Nat
      /\ SideOK(m.book, other, m.locations) /\ SideOK(own, o.side, m.locations)
  BY <1>5 DEF Matching
<1> HIDE DEF m
<1>7. CASE ~places
  <2>1. DOMAIN levels' = Side /\ levels'[other] = m.book /\ levels'[o.side] = own
    BY <1>3, <1>4, <1>7
  <2>2. InOrder'
    BY <1>3, <1>4, <1>6, <1>7, <2>1 DEF InOrder
  <2>3. \A side \in Side : DOMAIN levels'[side] \subseteq DOMAIN levels[side]
    BY <1>4, <1>5, <2>1
  <2>4. Uncrossed'
    BY <2>3 DEF BookInv, Uncrossed, Side
  <2> QED
    BY <2>1, <2>2, <2>4 DEF BookInv
<1>8. CASE places
  <2>1. r \in RestingOrder /\ r.id = o.id
    BY <1>4, <1>6, <1>8 DEF RestingOrder
  <2>2. queue \in Seq(RestingOrder) /\ QueueAt(queue, own, o.price)
    BY <1>6 DEF SideOK, IsBook, QueueAt
  <2> HIDE DEF r, queue
  <2>3. LevelSet(c, own, o.price, t)
    BY SetLevelIs
  <2>4. o.id \notin DOMAIN m.locations
    BY <1>1, <1>5
  <2>5. Entered(locations', m.locations, o.id, o.side, o.price)
    BY <1>2, <1>8, <2>4 DEF Entered
  <2>6. levels' = [levels EXCEPT ![other] = m.book, ![o.side] = SetLevel(@, o.price, Append(queue, r))]
    BY <1>2, <1>8 DEF PushBack, queue, r
  <2>7. DOMAIN levels' = Side /\ levels'[other] = m.book /\ levels'[o.side] = c
    BY <1>4, <2>6
  <2> HIDE DEF c
  <2>8. SideOK(c, o.side, locations')
    <3>1. Entered(locations', m.locations, r.id, o.side, o.price) /\ r.id \notin DOMAIN m.locations
      BY <2>1, <2>4, <2>5
    <3>2. Pushed(t, queue, r)
      BY DEF Pushed
    <3> HIDE DEF own, t
    <3> QED
      BY <1>4, <1>6, <2>1, <2>2, <2>3, <3>1, <3>2, PlaceLast
  <2>a. DOMAIN c = DOMAIN own \cup {o.price}
    <3>1. t # << >>
      BY <2>1, <2>2, AppendProperties
    <3> HIDE DEF own, t
    <3> QED
      BY <2>3, <3>1 DEF LevelSet
  <2>9. SideOK(m.book, other, locations')
    BY <1>4, <1>6, <2>4, <2>5, OtherEntered
  <2>10. IsIndex(locations')
    BY <1>4, <1>6, <2>5, IndexGrows
  <2>11. InOrder'
    BY <1>4, <2>7, <2>8, <2>9, <2>10 DEF InOrder
  <2>12. ASSUME NEW p \in DOMAIN m.book
         PROVE  IF o.side = "Buy" THEN o.price < p ELSE p < o.price
    <3>1. IsBook(m.book) /\ o.type = "Limit"
      BY <1>6, <1>8 DEF SideOK
    <3>2. DOMAIN m.book = {} \/ Excluded(o, Best(Opposite(o.side), m.book))
      BY <1>5, <1>6, <1>8 DEF Settled
    <3> HIDE DEF other
    <3> QED
      BY <3>1, <3>2, SettledApart
  <2>13. Uncrossed'
    <3> SUFFICES ASSUME NEW bid \in DOMAIN levels'["Buy"], NEW ask \in DOMAIN levels'["Sell"]
                 PROVE  bid < ask
      BY DEF Uncrossed
    <3>1. CASE o.side = "Buy"
      <4>1. other = "Sell"
        BY <3>1 DEF Opposite
      <4>2. ask \in DOMAIN m.book /\ ask \in DOMAIN levels["Sell"] /\ bid \in DOMAIN levels["Buy"] \cup {o.price}
        BY <1>5, <2>7, <2>a, <3>1, <4>1
      <4>3. CASE bid = o.price
        BY <2>12, <3>1, <4>2, <4>3
      <4>4. CASE bid \in DOMAIN levels["Buy"]
        BY <4>2, <4>4 DEF BookInv, Uncrossed
      <4> QED
        BY <4>2, <4>3, <4>4
    <3>2. CASE o.side = "Sell"
      <4>1. other = "Buy"
        BY <3>2 DEF Opposite
      <4>2. bid \in DOMAIN m.book /\ bid \in DOMAIN levels["Buy"] /\ ask \in DOMAIN levels["Sell"] \cup {o.price}
        BY <1>5, <2>7, <2>a, <3>2, <4>1
      <4>3. CASE ask = o.price
        BY <2>12, <3>2, <4>2, <4>3
      <4>4. CASE ask \in DOMAIN levels["Sell"]
        BY <4>2, <4>4 DEF BookInv, Uncrossed
      <4> QED
        BY <4>2, <4>3, <4>4
    <3> QED
      BY <1>4, <3>1, <3>2 DEF Side
  <2> QED
    BY <2>7, <2>11, <2>13 DEF BookInv
<1> QED
  BY <1>7, <1>8

\* Every step keeps the invariant.
LEMMA BookInvNext == BookInv /\ [Next]_bvars => BookInv'
<1> SUFFICES ASSUME BookInv, [Next]_bvars PROVE BookInv'
  OBVIOUS
<1>1. ASSUME NEW o \in Order, AddOrder(o) PROVE BookInv'
  BY <1>1, AddOrderKeeps
<1>2. ASSUME NEW id \in Ids, Cancel(id) PROVE BookInv'
  BY <1>2, CancelKeeps
<1>3. CASE UNCHANGED bvars
  BY <1>3 DEF bvars, BookInv, InOrder, Uncrossed
<1> QED
  BY <1>1, <1>2, <1>3 DEF Next

-----------------------------------------------------------------------------
(* The index and the queues hold equally many orders *)

\* The orders that the index puts on a side.
Resters(side) == {id \in DOMAIN locations : locations[id].side = side}

IdAt(side, e) == levels[side][e[1]][e[2]].id

\* An entry is a price with a place in its queue.
LEMMA EntryIs ==
    ASSUME NEW side, \A p \in DOMAIN levels[side] : levels[side][p] \in Seq(RestingOrder)
    PROVE  /\ \A e \in Entries(side) :
                \E p \in DOMAIN levels[side] : \E k \in 1 .. Len(levels[side][p]) : e = <<p, k>>
           /\ \A p \in DOMAIN levels[side] : \A k \in 1 .. Len(levels[side][p]) :
                <<p, k>> \in Entries(side)
<1> DEFINE b == levels[side]
<1>1. \A p \in DOMAIN b : DOMAIN b[p] = 1 .. Len(b[p])
  OBVIOUS
<1>2. Entries(side) = UNION {{<<p, k>> : k \in DOMAIN b[p]} : p \in DOMAIN b}
  BY DEF Entries
<1> HIDE DEF b
<1>3. ASSUME NEW e \in Entries(side)
      PROVE  \E p \in DOMAIN b : \E k \in 1 .. Len(b[p]) : e = <<p, k>>
  <2>1. PICK p \in DOMAIN b : e \in {<<p, k>> : k \in DOMAIN b[p]}
    BY <1>2
  <2>2. PICK k \in DOMAIN b[p] : e = <<p, k>>
    BY <2>1
  <2> QED
    BY <1>1, <2>2
<1>4. ASSUME NEW p \in DOMAIN b, NEW k \in 1 .. Len(b[p])
      PROVE  <<p, k>> \in Entries(side)
  <2>1. k \in DOMAIN b[p]
    BY <1>1
  <2>2. <<p, k>> \in {<<p, j>> : j \in DOMAIN b[p]}
    BY <2>1
  <2> QED
    BY <1>2, <2>2
<1> QED
  BY <1>3, <1>4 DEF b

\* The entries of a side and the orders that the index puts there are in bijection.
LEMMA EntriesCount ==
    ASSUME InOrder, NEW side \in Side
    PROVE  IsFiniteSet(Resters(side)) /\ Cardinality(Entries(side)) = Cardinality(Resters(side))
<1> DEFINE b == levels[side]
           S == Entries(side)
           T == Resters(side)
           f == [e \in S |-> IdAt(side, e)]
<1>1. /\ IsFiniteSet(DOMAIN locations)
      /\ IsBook(b) /\ Listed(b, side, locations) /\ OnePlace(b) /\ Found(b, side, locations)
  BY DEF InOrder, IsIndex, SideOK
<1>2. /\ \A e \in S : \E p \in DOMAIN b : \E k \in 1 .. Len(b[p]) : e = <<p, k>>
      /\ \A p \in DOMAIN b : \A k \in 1 .. Len(b[p]) : <<p, k>> \in S
  BY <1>1, EntryIs DEF IsBook
<1>3. \A p, k : IdAt(side, <<p, k>>) = b[p][k].id
  BY DEF IdAt
<1>4. IsFiniteSet(T)
  <2>1. T \in SUBSET DOMAIN locations
    BY DEF Resters
  <2> QED
    BY <1>1, <2>1, FS_Subset
<1> HIDE DEF S, b
<1>5. ASSUME NEW e \in S
      PROVE  \E p \in DOMAIN b : \E k \in 1 .. Len(b[p]) :
                /\ e = <<p, k>> /\ f[e] = b[p][k].id
                /\ f[e] \in T /\ locations[f[e]].price = p
  <2>0. PICK p \in DOMAIN b : \E k \in 1 .. Len(b[p]) : e = <<p, k>>
    BY <1>2
  <2>1. PICK k \in 1 .. Len(b[p]) : e = <<p, k>>
    BY <2>0
  <2>2. f[e] = b[p][k].id
    BY <1>3, <2>1
  <2>3. b[p][k].id \in DOMAIN locations /\ locations[b[p][k].id] = [side |-> side, price |-> p]
    BY <1>1 DEF Listed
  <2> HIDE DEF f
  <2> QED
    BY <2>1, <2>2, <2>3 DEF Resters
<1>6. f \in [S -> T]
  <2>1. \A e \in S : f[e] \in T
    BY <1>5
  <2>2. \A e \in S : f[e] = IdAt(side, e)
    OBVIOUS
  <2> HIDE DEF T
  <2> QED
    BY <2>1, <2>2
<1>7. \A d, e \in S : f[d] = f[e] => d = e
  <2> SUFFICES ASSUME NEW d \in S, NEW e \in S, f[d] = f[e] PROVE d = e
    BY Zenon
  <2> HIDE DEF f, T
  <2>a. PICK p \in DOMAIN b : \E k \in 1 .. Len(b[p]) :
           d = <<p, k>> /\ f[d] = b[p][k].id /\ locations[f[d]].price = p
    BY <1>5
  <2>1. PICK k \in 1 .. Len(b[p]) :
           d = <<p, k>> /\ f[d] = b[p][k].id /\ locations[f[d]].price = p
    BY <2>a
  <2>b. PICK q \in DOMAIN b : \E l \in 1 .. Len(b[q]) :
           e = <<q, l>> /\ f[e] = b[q][l].id /\ locations[f[e]].price = q
    BY <1>5
  <2>2. PICK l \in 1 .. Len(b[q]) :
           e = <<q, l>> /\ f[e] = b[q][l].id /\ locations[f[e]].price = q
    BY <2>b
  <2>3. p = q
    BY <2>1, <2>2
  <2>4. k = l
    BY <1>1, <2>1, <2>2, <2>3 DEF OnePlace
  <2> QED
    BY <2>1, <2>2, <2>3, <2>4
<1>8. \A id \in T : \E e \in S : f[e] = id
  <2> SUFFICES ASSUME NEW id \in T PROVE \E e \in S : f[e] = id
    BY Zenon
  <2> DEFINE p == locations[id].price
  <2>1. id \in DOMAIN locations /\ locations[id].side = side
    BY DEF Resters
  <2>2. p \in DOMAIN b /\ \E k \in 1 .. Len(b[p]) : b[p][k].id = id
    BY <1>1, <2>1 DEF Found
  <2>3. PICK k \in 1 .. Len(b[p]) : b[p][k].id = id
    BY <2>2
  <2>4. <<p, k>> \in S
    BY <1>2, <2>2
  <2>5. f[<<p, k>>] = id
    BY <1>3, <2>3, <2>4
  <2> QED
    BY <2>4, <2>5
<1> HIDE DEF T, f
<1>9. f \in Injection(S, T)
  BY <1>6, <1>7 DEF Injection, IsInjective
<1>10. f \in Surjection(S, T)
  BY <1>6, <1>8 DEF Surjection
<1>11. Cardinality(S) = Cardinality(T)
  BY <1>4, <1>9, <1>10, FS_Injection
<1> QED
  BY <1>4, <1>11 DEF S, T

\* A book whose invariant holds is sound.
LEMMA InvIsSound == BookInv => BookSound
<1> SUFFICES ASSUME BookInv PROVE BookSound
  OBVIOUS
<1>1. /\ InOrder /\ Uncrossed /\ IsFiniteSet(DOMAIN locations)
      /\ \A id \in DOMAIN locations : locations[id].side \in Side
      /\ \A side \in Side : IsBook(levels[side]) /\ Listed(levels[side], side, locations)
  BY DEF BookInv, InOrder, IsIndex, SideOK
<1>2. ASSUME NEW side \in Side, NEW p \in DOMAIN levels[side] PROVE levels[side][p] # << >>
  BY <1>1 DEF IsBook
<1>3. ASSUME NEW side \in Side, NEW e \in Entries(side)
      PROVE  LET r == levels[side][e[1]][e[2]]
             IN  /\ r.qty > 0
                 /\ r.id \in DOMAIN locations
                 /\ locations[r.id] = [side |-> side, price |-> e[1]]
  <2> DEFINE b == levels[side]
  <2>1. \A x \in DOMAIN b : b[x] \in Seq(RestingOrder)
    BY <1>1 DEF IsBook
  <2>a. PICK p \in DOMAIN b : \E k \in 1 .. Len(b[p]) : e = <<p, k>>
    BY <2>1, EntryIs
  <2>2. PICK k \in 1 .. Len(b[p]) : e = <<p, k>>
    BY <2>a
  <2>3. e[1] = p /\ e[2] = k
    BY <2>2
  <2>4. b[p][k].id \in DOMAIN locations /\ locations[b[p][k].id] = [side |-> side, price |-> p]
    BY <1>1 DEF Listed
  <2>5. b[p][k] \in RestingOrder
    BY <2>1
  <2>6. b[p][k].qty > 0
    BY <2>5 DEF RestingOrder
  <2> QED
    BY <2>3, <2>4, <2>6
<1>4. Cardinality(DOMAIN locations) = Cardinality(Entries("Buy")) + Cardinality(Entries("Sell"))
  <2> DEFINE B == Resters("Buy")
             A == Resters("Sell")
  <2>1. /\ IsFiniteSet(B) /\ Cardinality(Entries("Buy")) = Cardinality(B)
        /\ IsFiniteSet(A) /\ Cardinality(Entries("Sell")) = Cardinality(A)
    BY <1>1, EntriesCount DEF Side
  <2>2. DOMAIN locations = B \cup A /\ B \cap A = {}
    BY <1>1 DEF Resters, Side
  <2> HIDE DEF A, B
  <2>3. Cardinality(B \cup A) = Cardinality(B) + Cardinality(A) - Cardinality(B \cap A)
    BY <2>1, FS_Union
  <2>4. Cardinality(B \cap A) = 0
    BY <2>2, FS_EmptySet
  <2>5. Cardinality(A) \in Nat /\ Cardinality(B) \in Nat
    BY <2>1, FS_CardinalityType
  <2> QED
    BY <2>1, <2>2, <2>3, <2>4, <2>5
<1>5. IndexExact
  BY <1>2, <1>3, <1>4, Zenon DEF IndexExact
<1> QED
  BY <1>1, <1>5 DEF BookSound

\* For every set of ids, prices and quantities and every sequence of add_order and
\* cancel that reuses no resting id: locations_ and the queues hold the same orders, each
\* once and with something left to trade, no level is empty, and match_buy and match_sell
\* never stop while the best level of the other side could still trade with what is
\* placed.
THEOREM BookIsSound == Spec => []BookSound
<1>1. Spec => []BookInv
  BY BookInvInit, BookInvNext, PTL DEF Spec
<1> QED
  BY <1>1, InvIsSound, PTL

-----------------------------------------------------------------------------
(* Price-time priority: what a book shows of its orders *)

\* The whole book: levels and index of both sides.
WholeBook(lv, loc) ==
    DOMAIN lv = Side /\ IsIndex(loc) /\ \A side \in Side : SideOK(lv[side], side, loc)

\* Order id stands at place k of its queue.
Queue(lv, loc, id) == lv[loc[id].side][loc[id].price]
Stands(lv, loc, id, k) == k \in 1 .. Len(Queue(lv, loc, id)) /\ Queue(lv, loc, id)[k].id = id

\* What the refinement mapping shows of levels lv and index loc.
Shown(lv, loc) ==
    [id \in DOMAIN loc |->
        [side |-> loc[id].side, price |-> loc[id].price,
         qty |-> Queue(lv, loc, id)[PlaceOf(Queue(lv, loc, id), id)].qty]]

ShownEarlier(lv, loc) ==
    {e \in (DOMAIN loc) \X (DOMAIN loc) :
        /\ loc[e[1]] = loc[e[2]]
        /\ PlaceOf(Queue(lv, loc, e[1]), e[1]) < PlaceOf(Queue(lv, loc, e[2]), e[2])}

\* The mapped orders and their arrival, before and after a step, as functions of the book.
LEMMA ShownIs ==
    /\ Resting = Shown(levels, locations)
    /\ Earlier = ShownEarlier(levels, locations)
    /\ Resting' = Shown(levels', locations')
    /\ Earlier' = ShownEarlier(levels', locations')
  BY DEF Resting, Earlier, Shown, ShownEarlier, Queue, QueueOf, At

\* Every indexed order stands at one place.
LEMMA StandsOne ==
    ASSUME NEW lv, NEW loc, WholeBook(lv, loc), NEW id \in DOMAIN loc
    PROVE  /\ loc[id].side \in Side /\ loc[id].price \in Price
           /\ loc[id] = [side |-> loc[id].side, price |-> loc[id].price]
           /\ loc[id].price \in DOMAIN lv[loc[id].side]
           /\ Queue(lv, loc, id) \in Seq(RestingOrder)
           /\ \E k : Stands(lv, loc, id, k)
           /\ \A k : Stands(lv, loc, id, k) => PlaceOf(Queue(lv, loc, id), id) = k
<1> DEFINE side == loc[id].side
           b == lv[side]
           p == loc[id].price
<1>1. loc[id] \in [side : Side, price : Price] /\ side \in Side
  BY DEF WholeBook, IsIndex
<1>2. IsBook(b) /\ OnePlace(b) /\ Found(b, side, loc)
  BY <1>1 DEF WholeBook, SideOK
<1>3. p \in DOMAIN b /\ \E k \in 1 .. Len(b[p]) : b[p][k].id = id
  BY <1>2 DEF Found
<1>4. b[p] \in Seq(RestingOrder) /\ b[p] = Queue(lv, loc, id)
  BY <1>2, <1>3 DEF IsBook, Queue
<1>5. \A k, l \in 1 .. Len(b[p]) : b[p][k].id = b[p][l].id => k = l
  BY <1>2, <1>3 DEF OnePlace
<1> DEFINE q == b[p]
<1> HIDE DEF b, p
<1>6. ASSUME NEW k, Stands(lv, loc, id, k) PROVE PlaceOf(Queue(lv, loc, id), id) = k
  <2>1. k \in 1 .. Len(q) /\ q[k].id = id /\ DOMAIN q = 1 .. Len(q)
    BY <1>4, <1>6 DEF Stands
  <2> HIDE DEF q
  <2>2. PlaceOf(q, id) \in DOMAIN q /\ q[PlaceOf(q, id)].id = id
    BY <2>1, Zenon DEF PlaceOf
  <2>3. PlaceOf(q, id) = k
    BY <1>5, <2>1, <2>2 DEF q
  <2> QED
    BY <1>4, <2>3 DEF q
<1> QED
  BY <1>1, <1>3, <1>4, <1>6 DEF Stands, p, b

\* An order with its place, as the abstract book sees it.
LEMMA ShownOf ==
    ASSUME NEW lv, NEW loc, WholeBook(lv, loc), NEW id \in DOMAIN loc,
           NEW k, Stands(lv, loc, id, k)
    PROVE  /\ Shown(lv, loc)[id] = [side |-> loc[id].side, price |-> loc[id].price,
                                    qty |-> Queue(lv, loc, id)[k].qty]
           /\ k \in Nat /\ Queue(lv, loc, id)[k] \in RestingOrder
           /\ Shown(lv, loc)[id].qty \in Nat \ {0}
<1>1. PlaceOf(Queue(lv, loc, id), id) = k /\ Queue(lv, loc, id) \in Seq(RestingOrder)
  BY StandsOne
<1>2. k \in Nat /\ Queue(lv, loc, id)[k] \in RestingOrder
  BY <1>1 DEF Stands
<1>3. Shown(lv, loc)[id] = [side |-> loc[id].side, price |-> loc[id].price,
                            qty |-> Queue(lv, loc, id)[k].qty]
  BY <1>1 DEF Shown
<1> QED
  BY <1>2, <1>3 DEF RestingOrder

\* The order of two orders in one queue is the order of their places.
LEMMA ShownOrder ==
    ASSUME NEW lv, NEW loc, WholeBook(lv, loc), NEW i \in DOMAIN loc, NEW j \in DOMAIN loc,
           NEW k, Stands(lv, loc, i, k), NEW l, Stands(lv, loc, j, l)
    PROVE  <<i, j>> \in ShownEarlier(lv, loc) <=> loc[i] = loc[j] /\ k < l
<1>1. PlaceOf(Queue(lv, loc, i), i) = k /\ PlaceOf(Queue(lv, loc, j), j) = l
  BY StandsOne
<1>2. <<i, j>> \in (DOMAIN loc) \X (DOMAIN loc) /\ <<i, j>>[1] = i /\ <<i, j>>[2] = j
  OBVIOUS
<1> QED
  BY <1>1, <1>2 DEF ShownEarlier
\* Earlier is a strict order, total on each queue.
LEMMA EarlierOrder ==
    ASSUME NEW lv, NEW loc, WholeBook(lv, loc), NEW i \in DOMAIN loc, NEW j \in DOMAIN loc
    PROVE  /\ <<i, i>> \notin ShownEarlier(lv, loc)
           /\ <<i, j>> \in ShownEarlier(lv, loc) =>
                 loc[i] = loc[j] /\ <<j, i>> \notin ShownEarlier(lv, loc)
           /\ i # j /\ loc[i] = loc[j] =>
                 <<i, j>> \in ShownEarlier(lv, loc) \/ <<j, i>> \in ShownEarlier(lv, loc)
<1>1. PICK k : Stands(lv, loc, i, k)
  BY StandsOne
<1>2. PICK l : Stands(lv, loc, j, l)
  BY StandsOne
<1>3. k \in Nat /\ l \in Nat
  BY <1>1, <1>2, ShownOf
<1>4. /\ <<i, i>> \in ShownEarlier(lv, loc) <=> loc[i] = loc[i] /\ k < k
      /\ <<i, j>> \in ShownEarlier(lv, loc) <=> loc[i] = loc[j] /\ k < l
      /\ <<j, i>> \in ShownEarlier(lv, loc) <=> loc[j] = loc[i] /\ l < k
  BY <1>1, <1>2, ShownOrder
<1>5. loc[i] = loc[j] /\ k = l => i = j
  BY <1>1, <1>2 DEF Stands, Queue
<1> QED
  BY <1>3, <1>4, <1>5

\* An ordered book is one as the operators above need it.
LEMMA WholeIs == BookInv => WholeBook(levels, locations)
BY DEF BookInv, InOrder, WholeBook

\* So is the book after the step.
LEMMA WholeNext == BookInv' => WholeBook(levels', locations')
BY DEF BookInv, InOrder, WholeBook

\* The resting orders of the abstract book.
LEMMA RestingIs ==
    ASSUME BookInv
    PROVE  /\ DOMAIN Resting = DOMAIN locations
           /\ \A i \in DOMAIN locations :
                /\ \E q \in Nat \ {0} :
                      Resting[i] = [side |-> locations[i].side, price |-> locations[i].price, qty |-> q]
                /\ Resting[i].side = locations[i].side /\ locations[i].side \in Side
                /\ Resting[i].price = locations[i].price /\ locations[i].price \in Nat
                /\ Resting[i].qty \in Nat \ {0}
<1>1. DOMAIN Resting = DOMAIN locations
  BY DEF Resting
<1>2. ASSUME NEW i \in DOMAIN locations
      PROVE  /\ \E q \in Nat \ {0} :
                    Resting[i] = [side |-> locations[i].side, price |-> locations[i].price, qty |-> q]
             /\ locations[i].side \in Side /\ locations[i].price \in Nat
  <2>1. WholeBook(levels, locations)
    BY WholeIs
  <2>2. locations[i].side \in Side /\ locations[i].price \in Price /\ \E k : Stands(levels, locations, i, k)
    BY <2>1, StandsOne
  <2>3. PICK k : Stands(levels, locations, i, k)
    BY <2>2
  <2>4. /\ Resting[i] = [side |-> locations[i].side, price |-> locations[i].price,
                         qty |-> Queue(levels, locations, i)[k].qty]
        /\ Queue(levels, locations, i)[k].qty \in Nat \ {0}
    BY <2>1, <2>3, ShownOf, ShownIs DEF RestingOrder
  <2> QED
    BY <2>2, <2>4, BookAssumption DEF BookAssumption
<1>3. ASSUME NEW i \in DOMAIN locations
      PROVE  /\ Resting[i].side = locations[i].side /\ Resting[i].price = locations[i].price
             /\ Resting[i].qty \in Nat \ {0}
  <2>1. PICK q \in Nat \ {0} :
           Resting[i] = [side |-> locations[i].side, price |-> locations[i].price, qty |-> q]
    BY <1>2
  <2> QED
    BY <2>1
<1> QED
  BY <1>1, <1>2, <1>3

\* The orders that o may trade with are those of the other side that its limit admits.
LEMMA MakersAre ==
    ASSUME BookInv, NEW o \in Order, NEW i
    PROVE  i \in Auction!Makers(o) <=>
              /\ i \in DOMAIN locations /\ locations[i].side = Opposite(o.side)
              /\ ~Excluded(o, locations[i].price)
<1>1. o.side \in Side /\ o.price \in Nat
  BY BookAssumption DEF Order, BookAssumption
<1>2. i \in Auction!Makers(o) <=> i \in DOMAIN locations /\ Auction!Accepts(o, Resting[i])
  BY RestingIs DEF Auction!Makers
<1>3. ASSUME i \in DOMAIN locations
      PROVE  Auction!Accepts(o, Resting[i]) <=>
                locations[i].side = Opposite(o.side) /\ ~Excluded(o, locations[i].price)
  <2>1. /\ Resting[i].side = locations[i].side /\ locations[i].side \in Side
        /\ Resting[i].price = locations[i].price /\ locations[i].price \in Nat
    BY <1>3, RestingIs
  <2>2. (locations[i].side # o.side) = (locations[i].side = Opposite(o.side))
    BY <1>1, <2>1 DEF Side, Opposite
  <2>3. (o.type = "Limit" => IF o.side = "Buy" THEN locations[i].price <= o.price
                             ELSE locations[i].price >= o.price)
        <=> ~Excluded(o, locations[i].price)
    BY <1>1, <2>1 DEF Excluded
  <2> QED
    BY <2>1, <2>2, <2>3 DEF Auction!Accepts
<1> QED
  BY <1>2, <1>3

\* Priority, in terms of the index.
LEMMA BeforeIs ==
    ASSUME BookInv, NEW o, NEW i \in DOMAIN locations, NEW j \in DOMAIN locations
    PROVE  Auction!Before(o, i, j) <=>
              \/ locations[i].price = locations[j].price /\ <<i, j>> \in Earlier
              \/ IF o.side = "Buy" THEN locations[i].price < locations[j].price
                                   ELSE locations[i].price > locations[j].price
<1>1. Resting[i].price = locations[i].price /\ Resting[j].price = locations[j].price
  BY RestingIs
<1> QED
  BY <1>1, Zenon DEF Auction!Before

\* Priority is a strict total order on the orders that o may trade with.
LEMMA BeforeOrder ==
    ASSUME BookInv, NEW o \in Order, NEW i \in Auction!Makers(o), NEW j \in Auction!Makers(o)
    PROVE  /\ ~Auction!Before(o, i, i)
           /\ ~(Auction!Before(o, i, j) /\ Auction!Before(o, j, i))
           /\ i = j \/ Auction!Before(o, i, j) \/ Auction!Before(o, j, i)
<1> DEFINE p == locations[i].price
           q == locations[j].price
<1>1. /\ i \in DOMAIN locations /\ j \in DOMAIN locations
      /\ locations[i].side = locations[j].side
  BY MakersAre
<1>2. p \in Nat /\ q \in Nat
  BY <1>1, RestingIs
<1>3. /\ Auction!Before(o, i, i) <=>
            (p = p /\ <<i, i>> \in Earlier) \/ IF o.side = "Buy" THEN p < p ELSE p > p
      /\ Auction!Before(o, i, j) <=>
            (p = q /\ <<i, j>> \in Earlier) \/ IF o.side = "Buy" THEN p < q ELSE p > q
      /\ Auction!Before(o, j, i) <=>
            (q = p /\ <<j, i>> \in Earlier) \/ IF o.side = "Buy" THEN q < p ELSE q > p
  BY <1>1, BeforeIs
<1>4. WholeBook(levels, locations) /\ Earlier = ShownEarlier(levels, locations)
  BY WholeIs, ShownIs
<1>5. p = q => locations[i] = locations[j]
  BY <1>1, <1>4, StandsOne
<1>6. /\ <<i, i>> \notin Earlier /\ (<<i, j>> \in Earlier => <<j, i>> \notin Earlier)
      /\ i # j /\ locations[i] = locations[j] => <<i, j>> \in Earlier \/ <<j, i>> \in Earlier
  BY <1>1, <1>4, EarlierOrder
<1> HIDE DEF p, q
<1> QED
  BY <1>2, <1>3, <1>5, <1>6

-----------------------------------------------------------------------------
(* Price-time priority: how a matching shares out the incoming order *)

Fill == [maker : Ids, taker : Ids, price : Price, qty : Nat, side : Side]

\* What a fill takes from the front of a queue.
FillQty(m, p) == Min({m.remaining, Head(m.book[p]).qty})

\* f is m after a fill of n from the first order of queue p.
Filled(f, m, p, n) ==
    LET queue == m.book[p]
        d == IF n = queue[1].qty THEN 1 ELSE 0
    IN  /\ f.remaining = m.remaining - n
        /\ DOMAIN f.locations = IF d = 1 THEN DOMAIN m.locations \ {queue[1].id} ELSE DOMAIN m.locations
        /\ \A i \in DOMAIN f.locations : f.locations[i] = m.locations[i]
        /\ DOMAIN f.book \subseteq DOMAIN m.book
        /\ \A x \in DOMAIN f.book : x # p => f.book[x] = m.book[x]
        /\ p \in DOMAIN f.book => \A k \in 1 .. Len(f.book[p]) :
              /\ k + d \in 1 .. Len(queue) /\ f.book[p][k].id = queue[k + d].id
              /\ f.book[p][k].qty = IF k + d = 1 THEN queue[1].qty - n ELSE queue[k + d].qty

\* The same with the fill it reports; n is what is left to trade of one of the two.
FillDone(f, m, o, p, n) ==
    /\ m.book[p] \in Seq(RestingOrder) /\ Len(m.book[p]) \in Nat /\ 1 \in 1 .. Len(m.book[p])
    /\ n \in Nat \ {0} /\ n <= m.remaining /\ n <= m.book[p][1].qty
    /\ n = m.remaining \/ n = m.book[p][1].qty
    /\ Filled(f, m, p, n)
    /\ f.fills = Append(m.fills, [maker |-> m.book[p][1].id, taker |-> o.id, price |-> p,
                                  qty |-> n, side |-> o.side])

\* One pass of fill_at_level trades what the front order and the taker both have.
LEMMA FillIs ==
    ASSUME NEW m, IsBook(m.book), m.remaining \in Nat \ {0}, NEW p \in DOMAIN m.book, NEW o
    PROVE  FillDone(FillFront(m, o, p), m, o, p, FillQty(m, p))
<1> DEFINE f == FillFront(m, o, p)
           queue == m.book[p]
           front == Head(queue)
           n == FillQty(m, p)
           left == front.qty - n
           rest == IF left = 0 THEN Tail(queue) ELSE <<[front EXCEPT !.qty = left]>> \o Tail(queue)
           d == IF n = queue[1].qty THEN 1 ELSE 0
<1>1. queue \in Seq(RestingOrder) /\ queue # << >>
  BY DEF IsBook
<1>2. /\ front = queue[1] /\ 1 \in 1 .. Len(queue) /\ Len(queue) \in Nat
      /\ Tail(queue) \in Seq(RestingOrder) /\ Len(Tail(queue)) = Len(queue) - 1
      /\ \A j \in 1 .. Len(Tail(queue)) : Tail(queue)[j] = queue[j + 1]
  BY <1>1
<1>3. front \in RestingOrder /\ front.qty \in Nat \ {0}
  <2>1. front \in RestingOrder
    BY <1>1, <1>2
  <2> HIDE DEF front
  <2> QED
    BY <2>1 DEF RestingOrder
<1>4. /\ n \in Nat \ {0} /\ n <= m.remaining /\ n <= front.qty
      /\ n = m.remaining \/ n = front.qty
  BY <1>3, MinOfTwo DEF FillQty
<1>5. left \in Nat /\ (left = 0) = (n = front.qty)
  BY <1>3, <1>4
<1>6. /\ f.book = SetLevel(m.book, p, rest)
      /\ f.locations = IndexAfter(m.locations, front.id, left)
      /\ f.remaining = m.remaining - n
      /\ f.fills = Append(m.fills, [maker |-> front.id, taker |-> o.id, price |-> p,
                                    qty |-> n, side |-> o.side])
  BY DEF FillFront, FillQty
<1> HIDE DEF f, n
<1>7. LevelSet(f.book, m.book, p, rest)
  BY <1>6, SetLevelIs
<1>8. DOMAIN f.book \subseteq DOMAIN m.book /\ \A x \in DOMAIN f.book : x # p => f.book[x] = m.book[x]
  <2> HIDE DEF rest
  <2> QED
    BY <1>7 DEF LevelSet
<1>9. /\ DOMAIN f.locations = IF d = 1 THEN DOMAIN m.locations \ {queue[1].id} ELSE DOMAIN m.locations
      /\ \A i \in DOMAIN f.locations : f.locations[i] = m.locations[i]
  <2>1. CASE left = 0
    <3>1. Dropped(f.locations, m.locations, front.id) /\ d = 1
      BY <1>2, <1>5, <1>6, <2>1, WithoutIs DEF IndexAfter
    <3> QED
      BY <1>2, <3>1 DEF Dropped
  <2>2. CASE left # 0
    BY <1>2, <1>5, <1>6, <2>2 DEF IndexAfter
  <2> QED
    BY <2>1, <2>2
<1>10. p \in DOMAIN f.book => f.book[p] = rest
  <2> HIDE DEF rest
  <2> QED
    BY <1>7 DEF LevelSet
<1>11. ASSUME NEW k \in 1 .. Len(rest)
       PROVE  /\ k + d \in 1 .. Len(queue) /\ rest[k].id = queue[k + d].id
              /\ rest[k].qty = IF k + d = 1 THEN queue[1].qty - n ELSE queue[k + d].qty
  <2>1. CASE left = 0
    <3>1. rest = Tail(queue) /\ d = 1
      BY <1>2, <1>5, <2>1
    <3>2. k \in 1 .. Len(Tail(queue)) /\ rest[k] = Tail(queue)[k]
      BY <3>1
    <3> HIDE DEF rest
    <3>3. k + 1 \in 1 .. Len(queue) /\ k + 1 # 1 /\ rest[k] = queue[k + 1]
      BY <1>2, <3>2
    <3> HIDE DEF d, queue
    <3> QED
      BY <3>1, <3>3
  <2>2. CASE left # 0
    <3> DEFINE r == [front EXCEPT !.qty = left]
    <3>1. r \in RestingOrder /\ r.id = front.id /\ r.qty = left
      BY <1>3, <1>5, <2>2 DEF RestingOrder
    <3> HIDE DEF r
    <3>2. rest = <<r>> \o Tail(queue) /\ d = 0
      BY <1>2, <1>5, <2>2 DEF r
    <3>3. <<r>> \in Seq(RestingOrder) /\ Len(<<r>>) = 1 /\ <<r>>[1] = r
      BY <3>1
    <3>4. /\ Len(rest) = Len(queue)
          /\ \A j \in 1 .. Len(rest) : rest[j] = IF j <= 1 THEN r ELSE Tail(queue)[j - 1]
      <4> HIDE DEF rest
      <4> QED
        BY <1>2, <3>2, <3>3, ConcatProperties
    <3>5. k \in 1 .. Len(queue) /\ k + d = k
      BY <3>2, <3>4
    <3> HIDE DEF rest
    <3>6. CASE k = 1
      <4>1. rest[k] = r
        BY <3>4, <3>6
      <4> HIDE DEF d
      <4> QED
        BY <1>2, <3>1, <3>5, <3>6, <4>1
    <3>7. CASE k # 1
      <4>1. k - 1 \in 1 .. Len(Tail(queue)) /\ ~(k <= 1) /\ (k - 1) + 1 = k
        BY <1>2, <3>5, <3>7
      <4>2. rest[k] = queue[k]
        <5>1. rest[k] = Tail(queue)[k - 1]
          BY <3>4, <4>1
        <5> QED
          BY <1>2, <4>1, <5>1
      <4> HIDE DEF d
      <4> QED
        BY <3>5, <3>7, <4>2
    <3> QED
      BY <3>6, <3>7
  <2> QED
    BY <2>1, <2>2
<1> HIDE DEF rest
<1>12. Filled(f, m, p, n)
  BY <1>6, <1>8, <1>9, <1>10, <1>11 DEF Filled
<1> QED
  BY <1>1, <1>2, <1>4, <1>6, <1>12 DEF f, n, FillDone

\* Only orders that o accepts have traded, and each in its turn.
InTurn(o, s) ==
    /\ s \in [DOMAIN locations -> 0 .. o.qty]
    /\ \A i \in DOMAIN locations : s[i] > 0 => i \in Auction!Makers(o)
    /\ \A i, j \in Auction!Makers(o) : Auction!Before(o, i, j) /\ s[j] > 0 => s[i] = Resting[i].qty

\* The index keeps exactly the orders that have something left, where they were.
Taken(m, s) ==
    /\ \A i \in DOMAIN m.locations : i \in DOMAIN locations /\ m.locations[i] = locations[i]
    /\ \A i \in DOMAIN locations :
          /\ i \in DOMAIN m.locations => s[i] < Resting[i].qty
          /\ i \notin DOMAIN m.locations => s[i] = Resting[i].qty

\* What o has traded is no longer to trade; an order that is served in part takes the last of o.
Remainder(m, o, s) ==
    /\ m.remaining \in Nat /\ SumFunction(s) \in Nat /\ m.remaining + SumFunction(s) = o.qty
    /\ m.remaining > 0 => \A i \in DOMAIN locations : s[i] = 0 \/ s[i] = Resting[i].qty

\* The queues hold what is left of the orders, in the order of arrival.
QueuesLeft(m, s) ==
    \A p \in DOMAIN m.book : \A k \in 1 .. Len(m.book[p]) :
        m.book[p][k].qty = Resting[m.book[p][k].id].qty - s[m.book[p][k].id]

QueuesKeep(m) ==
    \A p \in DOMAIN m.book : \A k, l \in 1 .. Len(m.book[p]) :
        k < l => <<m.book[p][k].id, m.book[p][l].id>> \in Earlier

\* One fill for each order that has traded, in order of priority.
Logged(m, o, s) ==
    /\ m.fills \in Seq(Fill)
    /\ \A k \in 1 .. Len(m.fills) :
          /\ m.fills[k].maker \in DOMAIN locations /\ s[m.fills[k].maker] > 0
          /\ m.fills[k] = Auction!Trade(o, s, m.fills[k].maker)
    /\ \A i \in DOMAIN locations : s[i] > 0 => \E k \in 1 .. Len(m.fills) : m.fills[k].maker = i
    /\ \A k, l \in 1 .. Len(m.fills) :
          k < l => Auction!Before(o, m.fills[k].maker, m.fills[l].maker)

\* The matching m of o has given each resting order the share s.
Shared(m, o, s) ==
    /\ InTurn(o, s) /\ Taken(m, s) /\ Remainder(m, o, s)
    /\ QueuesLeft(m, s) /\ QueuesKeep(m) /\ Logged(m, o, s)

\* Before the first pass nobody has traded.
LEMMA SharedStart ==
    ASSUME BookInv, NEW o \in Order
    PROVE  \E s : Shared(MatchStart(o), o, s)
<1> DEFINE m == MatchStart(o)
           s == [i \in DOMAIN locations |-> 0]
           b == levels[Opposite(o.side)]
           side == Opposite(o.side)
<1>1. /\ m.book = b /\ m.locations = locations /\ m.remaining = o.qty /\ m.fills = << >>
  BY DEF MatchStart
<1>2. side \in Side /\ o.qty \in Nat
  BY BookAssumption DEF Order, Side, Opposite, BookAssumption
<1>3. /\ WholeBook(levels, locations) /\ IsFiniteSet(DOMAIN locations)
      /\ IsBook(b) /\ Listed(b, side, locations)
  BY <1>2, WholeIs DEF WholeBook, SideOK, IsIndex
<1>4. DOMAIN s = DOMAIN locations /\ \A i \in DOMAIN locations : s[i] = 0
  OBVIOUS
<1>5. SumFunction(s) = 0
  <2> HIDE DEF s
  <2> QED
    BY <1>3, <1>4, SumZero DEF SumFunction
<1>6. s \in [DOMAIN locations -> 0 .. o.qty]
  BY <1>2
<1> HIDE DEF s, m
<1>7. \A i \in Auction!Makers(o) : i \in DOMAIN locations
  BY MakersAre
<1>8. InTurn(o, s)
  BY <1>4, <1>6, <1>7 DEF InTurn
<1>9. Taken(m, s)
  BY <1>1, <1>4, RestingIs DEF Taken
<1>10. Remainder(m, o, s)
  BY <1>1, <1>2, <1>4, <1>5 DEF Remainder
<1>11. ASSUME NEW p \in DOMAIN b, NEW k \in 1 .. Len(b[p])
       PROVE  /\ b[p][k].id \in DOMAIN locations /\ Stands(levels, locations, b[p][k].id, k)
              /\ locations[b[p][k].id] = [side |-> side, price |-> p]
              /\ b[p][k].qty = Resting[b[p][k].id].qty - s[b[p][k].id]
  <2> DEFINE id == b[p][k].id
  <2>1. id \in DOMAIN locations /\ locations[id] = [side |-> side, price |-> p]
    BY <1>3 DEF Listed
  <2>2. Queue(levels, locations, id) = b[p]
    BY <2>1 DEF Queue
  <2>3. Stands(levels, locations, id, k)
    BY <2>2 DEF Stands
  <2>4. /\ Resting[id] = [side |-> locations[id].side, price |-> locations[id].price,
                          qty |-> Queue(levels, locations, id)[k].qty]
        /\ Resting[id].qty \in Nat
    <3>1. /\ Shown(levels, locations)[id] =
                [side |-> locations[id].side, price |-> locations[id].price,
                 qty |-> Queue(levels, locations, id)[k].qty]
          /\ Shown(levels, locations)[id].qty \in Nat
      BY <1>3, <2>1, <2>3, ShownOf
    <3> QED
      BY <3>1, ShownIs
  <2>5. Resting[id].qty = b[p][k].qty
    BY <2>2, <2>4
  <2> QED
    BY <1>4, <2>1, <2>3, <2>4, <2>5
<1> HIDE DEF b, side
<1>12. QueuesLeft(m, s)
  BY <1>1, <1>11 DEF QueuesLeft
<1>13. QueuesKeep(m)
  <2> SUFFICES ASSUME NEW p \in DOMAIN b, NEW k \in 1 .. Len(b[p]), NEW l \in 1 .. Len(b[p]), k < l
               PROVE  <<b[p][k].id, b[p][l].id>> \in Earlier
    BY <1>1 DEF QueuesKeep
  <2> DEFINE i == b[p][k].id
             j == b[p][l].id
  <2>1. /\ i \in DOMAIN locations /\ Stands(levels, locations, i, k)
        /\ j \in DOMAIN locations /\ Stands(levels, locations, j, l)
        /\ locations[i] = locations[j]
    <3>1. i \in DOMAIN locations /\ Stands(levels, locations, i, k) /\ locations[i] = [side |-> side, price |-> p]
      BY <1>11
    <3>2. j \in DOMAIN locations /\ Stands(levels, locations, j, l) /\ locations[j] = [side |-> side, price |-> p]
      BY <1>11
    <3> QED
      BY <3>1, <3>2
  <2> HIDE DEF i, j
  <2>2. <<i, j>> \in ShownEarlier(levels, locations)
    BY <1>3, <2>1, ShownOrder
  <2> QED
    BY <2>2, ShownIs DEF i, j
<1>14. Logged(m, o, s)
  <2>1. m.fills \in Seq(Fill) /\ Len(m.fills) = 0
    BY <1>1
  <2> QED
    BY <1>4, <2>1 DEF Logged
<1> QED
  BY <1>8, <1>9, <1>10, <1>12, <1>13, <1>14 DEF Shared, m

\* The best level, and the order at its front, when a matching is not settled.
Foremost(m, o, s, p, id) ==
    /\ p \in DOMAIN m.book /\ IsBook(m.book) /\ 1 \in 1 .. Len(m.book[p])
    /\ id \in DOMAIN m.locations /\ id \in Auction!Makers(o)
    /\ locations[id] = [side |-> Opposite(o.side), price |-> p]
    /\ s[id] = 0 /\ m.book[p][1].qty = Resting[id].qty
    /\ \A i \in Auction!Makers(o) : Auction!Before(o, i, id) => s[i] = Resting[i].qty

\* The order at the front of the best level is the next in turn.
LEMMA AtFront ==
    ASSUME BookInv, NEW o \in Order, NEW own, NEW m, Matching(m, o.side, own), ~Settled(m, o),
           NEW s, Shared(m, o, s), NEW p, p = Best(Opposite(o.side), m.book),
           NEW id, id = m.book[p][1].id
    PROVE  Foremost(m, o, s, p, id)
<1> DEFINE side == Opposite(o.side)
           b == m.book
<1>1. /\ IsBook(b) /\ Listed(b, side, m.locations) /\ Found(b, side, m.locations)
      /\ m.remaining \in Nat \ {0} /\ DOMAIN b # {} /\ ~Excluded(o, Best(side, b))
  BY DEF Matching, SideOK, Settled
<1>2. InTurn(o, s) /\ Taken(m, s) /\ Remainder(m, o, s) /\ QueuesLeft(m, s) /\ QueuesKeep(m)
  BY DEF Shared
<1>3. DOMAIN b \in SUBSET Nat /\ IsFiniteSet(DOMAIN b)
  BY <1>1, BookAssumption DEF IsBook, BookAssumption
<1>4. Min(DOMAIN b) \in DOMAIN b /\ Max(DOMAIN b) \in DOMAIN b
      /\ \A x \in DOMAIN b : Min(DOMAIN b) <= x /\ x <= Max(DOMAIN b)
  BY <1>1, <1>3, MinMaxNat
<1>5. p \in DOMAIN b /\ p = (IF side = "Buy" THEN Max(DOMAIN b) ELSE Min(DOMAIN b))
  BY <1>4 DEF Best
<1>6. b[p] \in Seq(RestingOrder) /\ b[p] # << >>
  BY <1>1, <1>5 DEF IsBook
<1>7. 1 \in 1 .. Len(b[p]) /\ Len(b[p]) \in Nat
  BY <1>6
<1>8. id \in DOMAIN m.locations /\ m.locations[id] = [side |-> side, price |-> p]
  BY <1>1, <1>5, <1>7 DEF Listed
<1>9. id \in DOMAIN locations /\ locations[id] = [side |-> side, price |-> p] /\ s[id] < Resting[id].qty
  BY <1>2, <1>8 DEF Taken
<1>10. locations[id].side = side /\ locations[id].price = p /\ ~Excluded(o, p)
  BY <1>1, <1>9
<1>11. id \in Auction!Makers(o)
  BY <1>9, <1>10, MakersAre
<1>12. Resting[id].qty \in Nat /\ s[id] \in Nat
  BY <1>2, <1>9, RestingIs DEF InTurn
<1>13. s[id] = 0
  BY <1>1, <1>2, <1>9, <1>12 DEF Remainder
<1>14. b[p][1].qty = Resting[id].qty - s[id]
  BY <1>2, <1>5, <1>7 DEF QueuesLeft
<1>15. b[p][1].qty = Resting[id].qty
  BY <1>12, <1>13, <1>14
<1>16. ASSUME NEW i \in Auction!Makers(o), Auction!Before(o, i, id) PROVE s[i] = Resting[i].qty
  <2> SUFFICES ASSUME s[i] # Resting[i].qty PROVE FALSE
    OBVIOUS
  <2> DEFINE x == locations[i].price
  <2>1. i \in DOMAIN locations /\ locations[i].side = side
    BY MakersAre
  <2>2. i \in DOMAIN m.locations /\ m.locations[i] = locations[i]
    BY <1>2, <2>1 DEF Taken
  <2>3. x \in DOMAIN b /\ \E k \in 1 .. Len(b[x]) : b[x][k].id = i
    BY <1>1, <2>1, <2>2 DEF Found
  <2>4. PICK k \in 1 .. Len(b[x]) : b[x][k].id = i
    BY <2>3
  <2>5. \/ x = p /\ <<i, id>> \in Earlier
        \/ IF o.side = "Buy" THEN x < p ELSE x > p
    BY <1>9, <1>10, <1>16, <2>1, BeforeIs
  <2>6. x \in Nat /\ p \in Nat /\ o.side \in Side
    BY <1>3, <1>5, <2>3 DEF Order
  <2> HIDE DEF x
  <2>7. ~(IF o.side = "Buy" THEN x < p ELSE x > p)
    BY <1>3, <1>4, <1>5, <2>3, <2>6 DEF Opposite, Side
  <2>8. x = p /\ <<i, id>> \in Earlier
    BY <2>5, <2>7
  <2>9. i # id
    BY <1>11, <1>16, BeforeOrder
  <2>10. k # 1
    BY <2>4, <2>8, <2>9
  <2>11. 1 < k /\ k \in 1 .. Len(b[p])
    BY <1>7, <2>4, <2>8, <2>10
  <2>12. <<id, i>> \in Earlier
    BY <1>2, <1>5, <1>7, <2>4, <2>8, <2>11 DEF QueuesKeep
  <2>13. <<id, i>> \notin Earlier
    <3>1. WholeBook(levels, locations) /\ Earlier = ShownEarlier(levels, locations)
      BY WholeIs, ShownIs
    <3>2. id \in DOMAIN locations /\ i \in DOMAIN locations
      BY <1>9, <2>1
    <3>3. <<i, id>> \in ShownEarlier(levels, locations)
      BY <2>8, <3>1
    <3>4. <<id, i>> \notin ShownEarlier(levels, locations)
      BY <3>1, <3>2, <3>3, EarlierOrder
    <3> QED
      BY <3>1, <3>4
  <2> QED
    BY <2>12, <2>13
<1> QED
  BY <1>1, <1>5, <1>7, <1>8, <1>9, <1>11, <1>13, <1>15, <1>16 DEF Foremost

\* A pass gives the order at the front of the best queue its share.
LEMMA SharedStep ==
    ASSUME BookInv, NEW o \in Order, NEW own, NEW m, Matching(m, o.side, own), ~Settled(m, o),
           NEW s, Shared(m, o, s)
    PROVE  \E t : Shared(MatchPass(m, o), o, t)
<1> DEFINE side == Opposite(o.side)
           p == Best(side, m.book)
           id == m.book[p][1].id
           queue == m.book[p]
           n == FillQty(m, p)
           f == MatchPass(m, o)
           t == [s EXCEPT ![id] = n]
           d == IF n = queue[1].qty THEN 1 ELSE 0
           new == [maker |-> id, taker |-> o.id, price |-> p, qty |-> n, side |-> o.side]
<1>1. f = FillFront(m, o, p) /\ m.remaining \in Nat \ {0}
  BY DEF MatchPass, Settled, Matching
<1>2. /\ p \in DOMAIN m.book /\ IsBook(m.book)
      /\ id \in DOMAIN m.locations /\ id \in Auction!Makers(o)
      /\ locations[id] = [side |-> side, price |-> p]
      /\ s[id] = 0 /\ queue[1].qty = Resting[id].qty
      /\ \A i \in Auction!Makers(o) : Auction!Before(o, i, id) => s[i] = Resting[i].qty
  <2>1. p = Best(Opposite(o.side), m.book) /\ id = m.book[p][1].id
    OBVIOUS
  <2>2. Foremost(m, o, s, p, id)
    <3> HIDE DEF p, id
    <3> QED
      BY <2>1, AtFront
  <2> QED
    BY <2>2, Zenon DEF Foremost
<1>3. /\ queue \in Seq(RestingOrder) /\ Len(queue) \in Nat /\ 1 \in 1 .. Len(queue)
      /\ n \in Nat \ {0} /\ n <= m.remaining /\ n <= queue[1].qty
      /\ n = m.remaining \/ n = queue[1].qty
      /\ Filled(f, m, p, n)
      /\ f.fills = Append(m.fills, new)
  <2>1. FillDone(f, m, o, p, n)
    <3> HIDE DEF p
    <3> QED
      BY <1>1, <1>2, FillIs
  <2> QED
    BY <2>1, Zenon DEF FillDone
<1>4. InTurn(o, s) /\ Taken(m, s) /\ Remainder(m, o, s) /\ QueuesLeft(m, s) /\ QueuesKeep(m) /\ Logged(m, o, s)
  BY DEF Shared
<1>5. /\ IsFiniteSet(DOMAIN locations) /\ id \in DOMAIN locations
      /\ Listed(m.book, side, m.locations) /\ OnePlace(m.book)
  BY <1>2, MakersAre DEF BookInv, InOrder, IsIndex, Matching, SideOK
<1>6. o.qty \in Nat /\ Resting[id].qty \in Nat \ {0}
  BY <1>5, RestingIs, BookAssumption DEF Order, BookAssumption
<1>7. /\ f.remaining = m.remaining - n
      /\ DOMAIN f.locations = IF d = 1 THEN DOMAIN m.locations \ {queue[1].id} ELSE DOMAIN m.locations
      /\ \A i \in DOMAIN f.locations : f.locations[i] = m.locations[i]
      /\ DOMAIN f.book \subseteq DOMAIN m.book
      /\ \A x \in DOMAIN f.book : x # p => f.book[x] = m.book[x]
      /\ p \in DOMAIN f.book => \A k \in 1 .. Len(f.book[p]) :
            /\ k + d \in 1 .. Len(queue) /\ f.book[p][k].id = queue[k + d].id
            /\ f.book[p][k].qty = IF k + d = 1 THEN queue[1].qty - n ELSE queue[k + d].qty
  BY <1>3 DEF Filled
<1>8. /\ s \in [DOMAIN locations -> 0 .. o.qty] /\ n \in 0 .. o.qty
      /\ t \in [DOMAIN locations -> 0 .. o.qty]
      /\ t[id] = n /\ \A i \in DOMAIN locations : i # id => t[i] = s[i]
  <2>1. s \in [DOMAIN locations -> 0 .. o.qty]
    BY <1>4 DEF InTurn
  <2>2. n \in 0 .. o.qty
    BY <1>1, <1>3, <1>4, <1>6 DEF Remainder
  <2> HIDE DEF n, id
  <2> QED
    BY <1>5, <2>1, <2>2
<1> HIDE DEF side, p, f, t, n, new
<1>9. InTurn(o, t)
  <2>1. \A i \in DOMAIN locations : t[i] > 0 => i \in Auction!Makers(o)
    BY <1>2, <1>4, <1>8 DEF InTurn
  <2>2. ASSUME NEW i \in Auction!Makers(o), NEW j \in Auction!Makers(o), Auction!Before(o, i, j), t[j] > 0
        PROVE  t[i] = Resting[i].qty
    <3>1. i \in DOMAIN locations /\ j \in DOMAIN locations
      BY MakersAre
    <3>2. CASE j = id
      <4>1. s[i] = Resting[i].qty
        BY <1>2, <2>2, <3>2
      <4>2. i # id
        BY <1>2, <1>6, <4>1
      <4> QED
        BY <1>8, <3>1, <4>1, <4>2
    <3>3. CASE j # id
      <4>1. s[j] > 0
        BY <1>8, <2>2, <3>1, <3>3
      <4>2. s[i] = Resting[i].qty
        BY <1>4, <2>2, <4>1 DEF InTurn
      <4>3. i # id
        BY <1>2, <1>6, <4>2
      <4> QED
        BY <1>8, <3>1, <4>2, <4>3
    <3> QED
      BY <3>2, <3>3
  <2> QED
    BY <1>8, <2>1, <2>2 DEF InTurn
<1>10. d \in {0, 1} /\ (d = 1) = (n = Resting[id].qty) /\ queue[1].id = id
  BY <1>2
<1> HIDE DEF d, id, queue
<1>11. Taken(f, t)
  <2>1. \A i \in DOMAIN f.locations : i \in DOMAIN locations /\ f.locations[i] = locations[i]
    BY <1>4, <1>7, <1>10 DEF Taken
  <2>2. ASSUME NEW i \in DOMAIN locations
        PROVE  /\ i \in DOMAIN f.locations => t[i] < Resting[i].qty
               /\ i \notin DOMAIN f.locations => t[i] = Resting[i].qty
    <3>1. CASE i = id
      BY <1>2, <1>3, <1>6, <1>7, <1>8, <1>10, <3>1
    <3>2. CASE i # id
      <4>1. t[i] = s[i] /\ (i \in DOMAIN f.locations <=> i \in DOMAIN m.locations)
        BY <1>7, <1>8, <1>10, <3>2
      <4> QED
        BY <1>4, <4>1 DEF Taken
    <3> QED
      BY <3>1, <3>2
  <2> QED
    BY <2>1, <2>2 DEF Taken
<1>12. Remainder(f, o, t)
  <2>1. SumFunction(t) = SumFunction(s) + (n - 0)
    <3>1. DOMAIN s = DOMAIN locations /\ DOMAIN t = DOMAIN locations
      BY <1>8
    <3>2. \A i \in DOMAIN locations : s[i] \in Int /\ t[i] \in Int
      BY <1>8
    <3>3. \A i \in DOMAIN locations \ {id} : t[i] = s[i]
      BY <1>8
    <3>4. SumFunctionOnSet(t, DOMAIN locations) = SumFunctionOnSet(s, DOMAIN locations) + (t[id] - s[id])
      BY <1>5, <3>2, <3>3, SumChange
    <3> QED
      BY <1>2, <1>8, <3>1, <3>4 DEF SumFunction
  <2>2. f.remaining \in Nat /\ SumFunction(t) \in Nat /\ f.remaining + SumFunction(t) = o.qty
    BY <1>1, <1>3, <1>4, <1>6, <1>7, <2>1 DEF Remainder
  <2>3. ASSUME f.remaining > 0, NEW i \in DOMAIN locations PROVE t[i] = 0 \/ t[i] = Resting[i].qty
    <3>1. n = Resting[id].qty
      BY <1>1, <1>2, <1>3, <1>7, <2>3
    <3>2. m.remaining > 0
      BY <1>1
    <3> QED
      BY <1>4, <1>8, <3>1, <3>2 DEF Remainder
  <2> QED
    BY <2>2, <2>3 DEF Remainder
<1>13. ASSUME NEW x \in DOMAIN f.book, NEW k \in 1 .. Len(f.book[x])
       PROVE  \E l \in 1 .. Len(m.book[x]) :
                 /\ l = (IF x = p THEN k + d ELSE k) /\ f.book[x][k].id = m.book[x][l].id
                 /\ f.book[x][k].qty =
                       Resting[f.book[x][k].id].qty - t[f.book[x][k].id]
  <2>1. CASE x = p
    <3>1. /\ k + d \in 1 .. Len(queue) /\ f.book[p][k].id = queue[k + d].id
          /\ f.book[p][k].qty = IF k + d = 1 THEN queue[1].qty - n ELSE queue[k + d].qty
      BY <1>7, <2>1
    <3>2. queue[k + d].qty = Resting[queue[k + d].id].qty - s[queue[k + d].id]
          /\ queue[k + d].id \in DOMAIN m.locations
      BY <1>2, <1>4, <1>5, <3>1 DEF QueuesLeft, Listed, queue
    <3>3. queue[k + d].id \in DOMAIN locations
      BY <1>4, <3>2 DEF Taken
    <3>4. f.book[p][k].qty = Resting[queue[k + d].id].qty - t[queue[k + d].id]
      <4>1. CASE k + d = 1
        BY <1>2, <1>8, <1>10, <3>1, <4>1
      <4>2. CASE k + d # 1
        <5>1. queue[k + d].id # id
          BY <1>2, <1>3, <1>5, <1>10, <3>1, <4>2 DEF OnePlace, queue
        <5> QED
          BY <1>8, <3>1, <3>2, <3>3, <4>2, <5>1
      <4> QED
        BY <4>1, <4>2
    <3> QED
      BY <2>1, <3>1, <3>4 DEF queue
  <2>2. CASE x # p
    <3> DEFINE i == m.book[x][k].id
    <3>1. f.book[x] = m.book[x] /\ x \in DOMAIN m.book /\ k \in 1 .. Len(m.book[x])
      BY <1>7, <2>2
    <3>2. /\ i \in DOMAIN m.locations /\ m.locations[i] = [side |-> side, price |-> x]
          /\ m.book[x][k].qty = Resting[i].qty - s[i]
      BY <1>4, <1>5, <3>1 DEF QueuesLeft, Listed
    <3>3. i \in DOMAIN locations /\ locations[i] = [side |-> side, price |-> x]
      BY <1>4, <3>2 DEF Taken
    <3>4. i # id
      <4>1. locations[i].price = x /\ locations[id].price = p
        BY <1>2, <3>3
      <4> QED
        BY <2>2, <4>1
    <3>5. t[i] = s[i]
      BY <1>8, <3>3, <3>4
    <3> QED
      BY <2>2, <3>1, <3>2, <3>5
  <2> QED
    BY <2>1, <2>2
<1>14. QueuesLeft(f, t)
  BY <1>13 DEF QueuesLeft
<1>15. QueuesKeep(f)
  <2> SUFFICES ASSUME NEW x \in DOMAIN f.book, NEW k \in 1 .. Len(f.book[x]),
                      NEW l \in 1 .. Len(f.book[x]), k < l
               PROVE  <<f.book[x][k].id, f.book[x][l].id>> \in Earlier
    BY DEF QueuesKeep
  <2>1. PICK a \in 1 .. Len(m.book[x]) :
           a = (IF x = p THEN k + d ELSE k) /\ f.book[x][k].id = m.book[x][a].id
    BY <1>13
  <2>2. PICK b \in 1 .. Len(m.book[x]) :
           b = (IF x = p THEN l + d ELSE l) /\ f.book[x][l].id = m.book[x][b].id
    BY <1>13
  <2>3. a < b
    BY <1>10, <2>1, <2>2
  <2>4. x \in DOMAIN m.book
    BY <1>7
  <2> QED
    BY <1>4, <2>1, <2>2, <2>3, <2>4 DEF QueuesKeep
<1>16. Logged(f, o, t)
  <2>1. /\ m.fills \in Seq(Fill)
        /\ \A k \in 1 .. Len(m.fills) :
              /\ m.fills[k].maker \in DOMAIN locations /\ s[m.fills[k].maker] > 0
              /\ m.fills[k] = Auction!Trade(o, s, m.fills[k].maker)
        /\ \A i \in DOMAIN locations : s[i] > 0 => \E k \in 1 .. Len(m.fills) : m.fills[k].maker = i
        /\ \A k, l \in 1 .. Len(m.fills) :
              k < l => Auction!Before(o, m.fills[k].maker, m.fills[l].maker)
    BY <1>4 DEF Logged
  <2>2. new \in Fill
    <3>1. /\ o.id \in Ids /\ o.side \in Side /\ p \in Price /\ id \in Ids
      BY <1>2, <1>5 DEF Order, IsBook, BookInv, InOrder, IsIndex
    <3> QED
      BY <1>3, <3>1 DEF Fill, new
  <2> DEFINE L == Len(m.fills)
  <2>3. /\ f.fills \in Seq(Fill) /\ L \in Nat /\ Len(f.fills) = L + 1 /\ f.fills[L + 1] = new
        /\ \A k \in 1 .. L : f.fills[k] = m.fills[k]
    BY <1>3, <2>1, <2>2, AppendProperties
  <2> HIDE DEF L
  <2>4. \A k \in 1 .. Len(f.fills) : k \in 1 .. L \/ k = L + 1
    BY <2>3
  <2>5. new = Auction!Trade(o, t, id) /\ new.maker = id
    <3>1. Resting[id].price = p
      <4>1. Resting[id].price = locations[id].price /\ locations[id].price = p
        BY <1>2, <1>5, RestingIs
      <4> QED
        BY <4>1
    <3> QED
      BY <1>8, <3>1 DEF Auction!Trade, new
  <2>6. ASSUME NEW k \in 1 .. L
        PROVE  /\ m.fills[k].maker \in DOMAIN locations /\ m.fills[k].maker # id
               /\ t[m.fills[k].maker] = s[m.fills[k].maker] /\ s[m.fills[k].maker] > 0
               /\ m.fills[k] = Auction!Trade(o, t, m.fills[k].maker)
               /\ Auction!Before(o, m.fills[k].maker, id)
    <3> DEFINE i == m.fills[k].maker
    <3>1. i \in DOMAIN locations /\ s[i] > 0 /\ m.fills[k] = Auction!Trade(o, s, i)
      BY <2>1 DEF L
    <3> HIDE DEF i
    <3>2. i # id /\ t[i] = s[i]
      BY <1>2, <1>8, <3>1
    <3>3. i \in Auction!Makers(o)
      BY <1>4, <3>1 DEF InTurn
    <3>4. ~Auction!Before(o, id, i)
      <4> SUFFICES ASSUME Auction!Before(o, id, i) PROVE FALSE
        OBVIOUS
      <4>1. s[id] = Resting[id].qty
        BY <1>2, <1>4, <3>1, <3>3 DEF InTurn
      <4> QED
        BY <1>2, <1>6, <4>1
    <3>5. Auction!Before(o, i, id)
      BY <1>2, <3>2, <3>3, <3>4, BeforeOrder
    <3>6. Auction!Trade(o, s, i) = Auction!Trade(o, t, i)
      BY <3>2, Zenon DEF Auction!Trade
    <3> QED
      BY <3>1, <3>2, <3>5, <3>6 DEF i
  <2>7. ASSUME NEW k \in 1 .. Len(f.fills)
        PROVE  /\ f.fills[k].maker \in DOMAIN locations /\ t[f.fills[k].maker] > 0
               /\ f.fills[k] = Auction!Trade(o, t, f.fills[k].maker)
    <3>1. CASE k \in 1 .. L
      BY <2>3, <2>6, <3>1
    <3>2. CASE k = L + 1
      <4>1. f.fills[k] = new
        BY <2>3, <3>2
      <4> QED
        BY <1>3, <1>5, <1>8, <2>5, <4>1
    <3> QED
      BY <2>4, <3>1, <3>2
  <2>8. ASSUME NEW i \in DOMAIN locations, t[i] > 0 PROVE \E k \in 1 .. Len(f.fills) : f.fills[k].maker = i
    <3>1. CASE i = id
      <4>1. L + 1 \in 1 .. Len(f.fills) /\ f.fills[L + 1].maker = id
        BY <2>3, <2>5
      <4> QED
        BY <3>1, <4>1
    <3>2. CASE i # id
      <4>1. PICK k \in 1 .. L : m.fills[k].maker = i
        BY <1>8, <2>1, <2>8, <3>2 DEF L
      <4>2. k \in 1 .. Len(f.fills) /\ f.fills[k] = m.fills[k]
        BY <2>3
      <4> QED
        BY <4>1, <4>2
    <3> QED
      BY <3>1, <3>2
  <2>9. ASSUME NEW k \in 1 .. Len(f.fills), NEW l \in 1 .. Len(f.fills), k < l
        PROVE  Auction!Before(o, f.fills[k].maker, f.fills[l].maker)
    <3>1. k \in 1 .. L /\ f.fills[k] = m.fills[k]
      BY <2>3, <2>4, <2>9
    <3>2. CASE l \in 1 .. L
      BY <2>1, <2>3, <2>9, <3>1, <3>2 DEF L
    <3>3. CASE l = L + 1
      BY <2>3, <2>5, <2>6, <3>1, <3>3
    <3> QED
      BY <2>4, <3>2, <3>3
  <2> QED
    BY <2>3, <2>7, <2>8, <2>9 DEF Logged
<1>17. Shared(f, o, t)
  BY <1>9, <1>11, <1>12, <1>14, <1>15, <1>16 DEF Shared
<1> QED
  BY <1>17 DEF f

\* Every matching shares the order out in this way.
LEMMA MatchShared ==
    ASSUME BookInv, NEW o \in Order
    PROVE  \E s : Shared(Match(o), o, s)
<1> DEFINE K == Cardinality(DOMAIN locations)
<1>1. InOrder /\ K \in Nat
  BY FS_CardinalityType DEF BookInv, InOrder, IsIndex
<1>2. PICK g : MatchRun(g, o)
  BY <1>1, MatchValue
<1>3. /\ Match(o) = g[K] /\ g[0] = MatchStart(o)
      /\ \A n \in 1 .. K : g[n] = MatchPass(g[n - 1], o)
  BY <1>2 DEF MatchRun
<1>4. \A n \in 0 .. K : Matching(g[n], o.side, levels[o.side])
  BY <1>1, <1>2, RunProgress DEF Progress
<1> DEFINE B == {n \in 0 .. K : ~ \E s : Shared(g[n], o, s)}
<1> HIDE DEF K
<1>5. B = {}
  <2> SUFFICES ASSUME B # {} PROVE FALSE
    OBVIOUS
  <2>1. B \in SUBSET (0 .. K)
    OBVIOUS
  <2> HIDE DEF B
  <2>2. PICK n \in B : \A y \in B : n <= y
    BY <1>1, <2>1, Least
  <2>3. n \in 0 .. K /\ ~ \E s : Shared(g[n], o, s)
    BY <2>2 DEF B
  <2>4. n # 0
    BY <1>3, <2>3, SharedStart
  <2>5. n - 1 \in 0 .. K /\ ~(n <= n - 1) /\ n \in 1 .. K
    BY <1>1, <2>3, <2>4
  <2>6. PICK s : Shared(g[n - 1], o, s)
    BY <2>2, <2>5 DEF B
  <2>7. g[n] = MatchPass(g[n - 1], o) /\ Matching(g[n - 1], o.side, levels[o.side])
    BY <1>3, <1>4, <2>5
  <2>8. CASE Settled(g[n - 1], o)
    <3>1. MatchPass(g[n - 1], o) = g[n - 1]
      BY <2>8 DEF Settled, MatchPass
    <3> QED
      BY <2>3, <2>6, <2>7, <3>1
  <2>9. CASE ~Settled(g[n - 1], o)
    <3>1. \E t : Shared(MatchPass(g[n - 1], o), o, t)
      BY <2>6, <2>7, <2>9, SharedStep
    <3> QED
      BY <2>3, <2>7, <3>1
  <2> QED
    BY <2>8, <2>9
<1>6. K \in 0 .. K
  BY <1>1
<1> QED
  BY <1>3, <1>5, <1>6

\* The abstract book uses the same operators on functions and sequences.
LEMMA SameOperators ==
    /\ \A f : Auction!SumFunction(f) = SumFunction(f)
    /\ \A q : Auction!ToSet(q) = ToSet(q)
    /\ \A f, S : Auction!Restrict(f, S) = Restrict(f, S)
<1>1. ASSUME NEW f PROVE Auction!SumFunction(f) = SumFunction(f)
  BY Zenon DEF Auction!SumFunction, Auction!SumFunctionOnSet, Auction!FoldFunctionOnSet,
               Auction!MapThenFoldSet, SumFunction, SumFunctionOnSet, FoldFunctionOnSet, MapThenFoldSet
<1>2. ASSUME NEW q PROVE Auction!ToSet(q) = ToSet(q)
  BY DEF Auction!ToSet, ToSet
<1>3. ASSUME NEW f, NEW S PROVE Auction!Restrict(f, S) = Restrict(f, S)
  BY DEF Auction!Restrict, Restrict
<1> QED
  BY <1>1, <1>2, <1>3

\* A settled matching is fair, and what it reports is what the orders traded.
LEMMA SettledFair ==
    ASSUME BookInv, NEW o \in Order, NEW own, NEW m, Matching(m, o.side, own), Settled(m, o),
           NEW s, Shared(m, o, s)
    PROVE  Auction!Fair(o, s)
<1> DEFINE side == Opposite(o.side)
           b == m.book
<1>1. IsBook(b) /\ Found(b, side, m.locations)
  BY DEF Matching, SideOK
<1>2. InTurn(o, s) /\ Taken(m, s) /\ Remainder(m, o, s)
  BY DEF Shared
<1>3. DOMAIN Resting = DOMAIN locations /\ \A i \in DOMAIN locations : Resting[i].qty \in Nat /\ s[i] \in Nat
  BY <1>2, RestingIs DEF InTurn
<1>4. \A i \in DOMAIN Resting : s[i] <= Resting[i].qty
  BY <1>2, <1>3 DEF Taken
<1>5. \A i \in DOMAIN Resting : s[i] > 0 => i \in Auction!Makers(o)
  BY <1>2, <1>3 DEF InTurn
<1>6. \A i, j \in Auction!Makers(o) : Auction!Before(o, i, j) /\ s[j] > 0 => s[i] = Resting[i].qty
  BY <1>2 DEF InTurn
<1>7. o.qty \in Nat /\ o.price \in Nat /\ o.side \in Side
  BY BookAssumption DEF Order, BookAssumption
<1>8. SumFunction(s) <= o.qty
  BY <1>2, <1>7 DEF Remainder
<1>9. ASSUME SumFunction(s) < o.qty, NEW i \in Auction!Makers(o) PROVE s[i] = Resting[i].qty
  <2> SUFFICES ASSUME s[i] # Resting[i].qty PROVE FALSE
    OBVIOUS
  <2> DEFINE x == locations[i].price
  <2>1. i \in DOMAIN locations /\ locations[i].side = side /\ ~Excluded(o, x)
    BY MakersAre
  <2>2. i \in DOMAIN m.locations /\ m.locations[i] = locations[i]
    BY <1>2, <2>1 DEF Taken
  <2>3. x \in DOMAIN b
    BY <1>1, <2>1, <2>2 DEF Found
  <2>4. m.remaining # 0
    BY <1>2, <1>7, <1>9 DEF Remainder
  <2>5. Excluded(o, Best(side, b))
    BY <2>3, <2>4 DEF Settled
  <2>6. DOMAIN b \in SUBSET Nat /\ IsFiniteSet(DOMAIN b) /\ DOMAIN b # {}
    BY <1>1, <2>3, BookAssumption DEF IsBook, BookAssumption
  <2>7. Min(DOMAIN b) \in DOMAIN b /\ Max(DOMAIN b) \in DOMAIN b
        /\ \A y \in DOMAIN b : Min(DOMAIN b) <= y /\ y <= Max(DOMAIN b)
    BY <2>6, MinMaxNat
  <2> HIDE DEF x
  <2>8. /\ Min(DOMAIN b) \in Nat /\ Max(DOMAIN b) \in Nat /\ x \in Nat
        /\ Min(DOMAIN b) <= x /\ x <= Max(DOMAIN b)
    BY <2>3, <2>6, <2>7
  <2> QED
    BY <1>7, <2>1, <2>5, <2>8 DEF Excluded, Best, Opposite, Side
<1> QED
  BY <1>4, <1>5, <1>6, <1>8, <1>9, SameOperators DEF Auction!Fair

\* The fills are one trade for each order that trades, in order of priority.
LEMMA SharedExecuted ==
    ASSUME BookInv, NEW o \in Order, NEW m, NEW s, Shared(m, o, s), fills' = m.fills
    PROVE  Auction!Executed(o, s)
<1>1. DOMAIN Resting = DOMAIN locations
  BY RestingIs
<1>2. /\ m.fills \in Seq(Fill)
      /\ \A k \in 1 .. Len(m.fills) :
            /\ m.fills[k].maker \in DOMAIN locations /\ s[m.fills[k].maker] > 0
            /\ m.fills[k] = Auction!Trade(o, s, m.fills[k].maker)
      /\ \A i \in DOMAIN locations : s[i] > 0 => \E k \in 1 .. Len(m.fills) : m.fills[k].maker = i
      /\ \A k, l \in 1 .. Len(m.fills) :
            k < l => Auction!Before(o, m.fills[k].maker, m.fills[l].maker)
  BY DEF Shared, Logged
<1> DEFINE t == m.fills
           T(i) == Auction!Trade(o, s, i)
           S == {T(i) : i \in {j \in DOMAIN locations : s[j] > 0}}
<1>3. DOMAIN t = 1 .. Len(t)
  BY <1>2
<1>4. ToSet(t) = {t[k] : k \in DOMAIN t}
  BY DEF ToSet
<1> HIDE DEF T, t
<1>5. /\ \A k \in 1 .. Len(t) : t[k].maker \in DOMAIN locations /\ s[t[k].maker] > 0 /\ t[k] = T(t[k].maker)
      /\ \A i \in DOMAIN locations : s[i] > 0 => \E k \in 1 .. Len(t) : t[k].maker = i
  BY <1>2 DEF t, T
<1>6. ToSet(t) = S
  BY <1>3, <1>4, <1>5
<1>7. ToSet(fills') = {Auction!Trade(o, s, i) : i \in {j \in DOMAIN Resting : s[j] > 0}}
  BY <1>1, <1>6 DEF t, T
<1>8. \A k, l \in DOMAIN fills' : k < l => Auction!Before(o, fills'[k].maker, fills'[l].maker)
  BY <1>2, <1>3 DEF t
<1> QED
  BY <1>7, <1>8, SameOperators DEF Auction!Executed

-----------------------------------------------------------------------------
(* Price-time priority: what rests afterwards *)

\* What is left of o rests if it has a limit.
Rested(o, m) == IF m.remaining > 0 /\ o.type = "Limit" THEN {o.id} ELSE {}

\* lv and loc are the book after the matching m of o.
After(lv, loc, o, m) ==
    /\ DOMAIN loc = DOMAIN m.locations \cup Rested(o, m)
    /\ o.id \notin DOMAIN locations
    /\ \A i \in DOMAIN m.locations : loc[i] = m.locations[i]
    /\ lv[Opposite(o.side)] = m.book
    /\ Rested(o, m) = {} => lv[o.side] = levels[o.side]
    /\ Rested(o, m) # {} =>
          /\ loc[o.id] = [side |-> o.side, price |-> o.price]
          /\ \E q, t : /\ QueueAt(q, levels[o.side], o.price)
                       /\ Pushed(t, q, [id |-> o.id, qty |-> m.remaining])
                       /\ LevelSet(lv[o.side], levels[o.side], o.price, t)

\* What add_order leaves is what After says of its settled matching.
LEMMA AddOrderAfter ==
    ASSUME BookInv, NEW o \in Order, AddOrder(o)
    PROVE  After(levels', locations', o, Match(o)) /\ fills' = Match(o).fills
<1> DEFINE m == Match(o)
           places == m.remaining > 0 /\ o.type = "Limit"
           own == levels[o.side]
           queue == IF o.price \in DOMAIN own THEN own[o.price] ELSE << >>
           r == [id |-> o.id, qty |-> m.remaining]
           other == Opposite(o.side)
           c == SetLevel(own, o.price, Append(queue, r))
<1>1. o.id \notin DOMAIN locations /\ fills' = m.fills
  BY DEF AddOrder
<1>2. places => /\ levels' = [levels EXCEPT ![other] = m.book, ![o.side] = SetLevel(@, o.price, PushBack(queue, r))]
                /\ locations' = [id \in DOMAIN m.locations \cup {o.id} |->
                      IF id = o.id THEN [side |-> o.side, price |-> o.price] ELSE m.locations[id]]
  BY DEF AddOrder
<1>3. ~places => levels' = [levels EXCEPT ![other] = m.book] /\ locations' = m.locations
  BY DEF AddOrder
<1>4. o.side \in Side /\ other \in Side /\ o.side # other /\ DOMAIN levels = Side
  BY DEF Order, Side, Opposite, BookInv
<1>5. DOMAIN m.locations \subseteq DOMAIN locations
  BY MatchSettles DEF BookInv
<1>6. Rested(o, m) = IF places THEN {o.id} ELSE {}
  BY DEF Rested
<1> HIDE DEF m
<1>7. CASE ~places
  <2>1. levels'[other] = m.book /\ levels'[o.side] = own
    BY <1>3, <1>4, <1>7
  <2> QED
    BY <1>1, <1>3, <1>6, <1>7, <2>1 DEF After, m
<1>8. CASE places
  <2>1. levels' = [levels EXCEPT ![other] = m.book, ![o.side] = SetLevel(@, o.price, Append(queue, r))]
    BY <1>2, <1>8 DEF PushBack
  <2>2. QueueAt(queue, own, o.price)
    BY DEF QueueAt
  <2>3. LevelSet(c, own, o.price, Append(queue, r))
    BY SetLevelIs
  <2> HIDE DEF queue, r
  <2>4. levels'[other] = m.book /\ levels'[o.side] = c
    BY <1>4, <2>1
  <2> HIDE DEF c
  <2>5. \E q, t : QueueAt(q, own, o.price) /\ Pushed(t, q, r) /\ LevelSet(levels'[o.side], own, o.price, t)
    BY <2>2, <2>3, <2>4 DEF Pushed
  <2>6. /\ DOMAIN locations' = DOMAIN m.locations \cup {o.id}
        /\ locations'[o.id] = [side |-> o.side, price |-> o.price]
        /\ \A i \in DOMAIN m.locations : locations'[i] = m.locations[i]
    BY <1>1, <1>2, <1>5, <1>8
  <2> HIDE DEF places, other, own
  <2>7. Rested(o, m) = {o.id}
    BY <1>6, <1>8
  <2> QED
    BY <1>1, <2>4, <2>5, <2>6, <2>7 DEF After, m, r, other, own
<1> QED
  BY <1>7, <1>8

\* An order on the side of o stands where it stood.
LEMMA OwnStays ==
    ASSUME BookInv, NEW o \in Order, NEW m, NEW lv, NEW loc, After(lv, loc, o, m),
           NEW i \in DOMAIN locations, i \in DOMAIN m.locations, m.locations[i] = locations[i],
           locations[i].side = o.side, NEW k, Stands(levels, locations, i, k)
    PROVE  Stands(lv, loc, i, k) /\ Queue(lv, loc, i)[k] = Queue(levels, locations, i)[k]
<1> DEFINE own == levels[o.side]
           p == locations[i].price
<1>1. loc[i] = locations[i]
  BY DEF After
<1>2. Queue(levels, locations, i) = own[p] /\ Queue(lv, loc, i) = lv[o.side][p]
  BY <1>1 DEF Queue
<1>3. p \in DOMAIN own /\ own[p] \in Seq(RestingOrder) /\ k \in 1 .. Len(own[p]) /\ own[p][k].id = i
  BY <1>2, WholeIs, StandsOne DEF Stands
<1>4. CASE Rested(o, m) = {}
  <2>1. lv[o.side] = own
    BY <1>4 DEF After
  <2> QED
    BY <1>2, <1>3, <2>1 DEF Stands
<1>5. CASE Rested(o, m) # {}
  <2> DEFINE r == [id |-> o.id, qty |-> m.remaining]
  <2>1. PICK q, t : QueueAt(q, own, o.price) /\ Pushed(t, q, r) /\ LevelSet(lv[o.side], own, o.price, t)
    BY <1>5 DEF After
  <2> HIDE DEF own, p, r
  <2>2. CASE p = o.price
    <3>1. q = own[p] /\ t = Append(q, r)
      BY <1>3, <2>1, <2>2 DEF QueueAt, Pushed
    <3>2. q \in Seq(RestingOrder) /\ k \in 1 .. Len(q)
      BY <1>3, <3>1
    <3>3. t # << >> /\ k \in 1 .. Len(t) /\ t[k] = q[k]
      BY <3>1, <3>2
    <3>4. lv[o.side][p] = t
      BY <2>1, <2>2, <3>3 DEF LevelSet
    <3> QED
      BY <1>2, <1>3, <3>1, <3>3, <3>4 DEF Stands
  <2>3. CASE p # o.price
    <3>1. p \in DOMAIN lv[o.side]
      BY <1>3, <2>1, <2>3 DEF LevelSet
    <3>2. lv[o.side][p] = own[p]
      BY <2>1, <2>3, <3>1 DEF LevelSet
    <3> QED
      BY <1>2, <1>3, <3>2 DEF Stands
  <2> QED
    BY <2>2, <2>3
<1> QED
  BY <1>4, <1>5

\* What is left of o stands behind all others of its queue.
LEMMA NewLast ==
    ASSUME BookInv, NEW o \in Order, NEW m, NEW lv, NEW loc, WholeBook(lv, loc), After(lv, loc, o, m),
           Rested(o, m) # {}
    PROVE  \E l : /\ Stands(lv, loc, o.id, l) /\ Queue(lv, loc, o.id)[l].qty = m.remaining
                  /\ \A i \in DOMAIN loc : \A k :
                        loc[i] = loc[o.id] /\ Stands(lv, loc, i, k) /\ i # o.id => k < l
<1> DEFINE own == levels[o.side]
           r == [id |-> o.id, qty |-> m.remaining]
<1>1. /\ o.id \in DOMAIN loc /\ loc[o.id] = [side |-> o.side, price |-> o.price]
  BY DEF After, Rested
<1>2. PICK q, t : QueueAt(q, own, o.price) /\ Pushed(t, q, r) /\ LevelSet(lv[o.side], own, o.price, t)
  BY DEF After
<1>3. IsBook(own)
  BY DEF BookInv, InOrder, SideOK, Order
<1>4. r.id = o.id /\ r.qty = m.remaining
  OBVIOUS
<1> HIDE DEF r, own
<1>5. q \in Seq(RestingOrder)
  <2>1. CASE o.price \in DOMAIN own
    BY <1>2, <1>3, <2>1 DEF QueueAt, IsBook
  <2>2. CASE o.price \notin DOMAIN own
    BY <1>2, <2>2 DEF QueueAt
  <2> QED
    BY <2>1, <2>2
<1>6. t = Append(q, r)
  BY <1>2 DEF Pushed
<1>7. Len(q) \in Nat /\ Len(t) = Len(q) + 1 /\ t # << >> /\ t[Len(q) + 1] = r
  <2>1. q \in Seq(RestingOrder \cup {r}) /\ r \in RestingOrder \cup {r}
    BY <1>5
  <2> QED
    BY <1>6, <2>1, AppendProperties
<1>8. Queue(lv, loc, o.id) = t
  <2>1. lv[o.side][o.price] = t
    BY <1>2, <1>7 DEF LevelSet
  <2> QED
    BY <1>1, <2>1 DEF Queue
<1> DEFINE l == Len(q) + 1
<1>9. Stands(lv, loc, o.id, l) /\ Queue(lv, loc, o.id)[l].qty = m.remaining
  BY <1>4, <1>7, <1>8 DEF Stands
<1>10. ASSUME NEW i \in DOMAIN loc, NEW k, loc[i] = loc[o.id], Stands(lv, loc, i, k), i # o.id
       PROVE  k < l
  <2>1. Queue(lv, loc, i) = t
    BY <1>8, <1>10 DEF Queue
  <2>2. k \in 1 .. Len(t) /\ t[k].id = i
    BY <1>10, <2>1 DEF Stands
  <2>3. k # l
    BY <1>4, <1>7, <1>10, <2>2
  <2> QED
    BY <1>7, <2>2, <2>3
<1> QED
  BY <1>9, <1>10

\* What the abstract book shows afterwards of the orders that were there.
LEMMA KeptShown ==
    ASSUME BookInv, NEW o \in Order, NEW m, Matching(m, o.side, levels[o.side]), NEW s, Shared(m, o, s),
           NEW lv, NEW loc, WholeBook(lv, loc), After(lv, loc, o, m),
           NEW i \in DOMAIN m.locations
    PROVE  /\ i \in DOMAIN loc /\ i \in DOMAIN Resting /\ i # o.id
           /\ Shown(lv, loc)[i] = [Resting[i] EXCEPT !.qty = @ - s[i]]
<1>1. Taken(m, s) /\ InTurn(o, s) /\ QueuesLeft(m, s)
  BY DEF Shared
<1>2. i \in DOMAIN locations /\ m.locations[i] = locations[i] /\ DOMAIN Resting = DOMAIN locations
  BY <1>1, RestingIs DEF Taken
<1>3. i \in DOMAIN loc /\ i # o.id /\ loc[i] = locations[i]
  BY <1>2 DEF After
<1>4. PICK q \in Nat \ {0} :
         Resting[i] = [side |-> locations[i].side, price |-> locations[i].price, qty |-> q]
  BY <1>2, RestingIs
<1>5. [Resting[i] EXCEPT !.qty = @ - s[i]] =
         [side |-> locations[i].side, price |-> locations[i].price, qty |-> q - s[i]]
  BY <1>4
<1>6. \E k : Stands(lv, loc, i, k) /\ Queue(lv, loc, i)[k].qty = q - s[i]
  <2>1. CASE locations[i].side = o.side
    <3>1. PICK k : Stands(levels, locations, i, k)
      BY <1>2, WholeIs, StandsOne
    <3>2. Stands(lv, loc, i, k) /\ Queue(lv, loc, i)[k] = Queue(levels, locations, i)[k]
      BY <1>2, <2>1, <3>1, OwnStays
    <3>3. Resting[i] = [side |-> locations[i].side, price |-> locations[i].price,
                        qty |-> Queue(levels, locations, i)[k].qty]
      <4>1. WholeBook(levels, locations)
        BY WholeIs
      <4>2. Shown(levels, locations)[i] =
               [side |-> locations[i].side, price |-> locations[i].price,
                qty |-> Queue(levels, locations, i)[k].qty]
        BY <1>2, <3>1, <4>1, ShownOf
      <4> QED
        BY <4>2, ShownIs
    <3>4. Queue(levels, locations, i)[k].qty = q
      BY <1>4, <3>3
    <3>5. i \notin Auction!Makers(o)
      BY <2>1, MakersAre DEF Opposite, Order, Side
    <3>6. s[i] = 0
      BY <1>1, <1>2, <3>5 DEF InTurn
    <3> QED
      BY <3>2, <3>4, <3>6
  <2>2. CASE locations[i].side # o.side
    <3> DEFINE p == locations[i].price
    <3>1. locations[i].side = Opposite(o.side)
      BY <1>2, <2>2, RestingIs DEF Opposite, Order, Side
    <3>2. p \in DOMAIN m.book /\ \E k \in 1 .. Len(m.book[p]) : m.book[p][k].id = i
      BY <1>2, <3>1 DEF Matching, SideOK, Found
    <3>3. PICK k \in 1 .. Len(m.book[p]) : m.book[p][k].id = i
      BY <3>2
    <3>4. Queue(lv, loc, i) = m.book[p]
      BY <1>3, <3>1 DEF Queue, After
    <3>5. m.book[p][k].qty = Resting[i].qty - s[i]
      BY <1>1, <3>2, <3>3 DEF QueuesLeft
    <3>6. Resting[i].qty = q
      BY <1>4
    <3> QED
      BY <3>3, <3>4, <3>5, <3>6 DEF Stands
  <2> QED
    BY <2>1, <2>2
<1>7. PICK k : Stands(lv, loc, i, k) /\ Queue(lv, loc, i)[k].qty = q - s[i]
  BY <1>6
<1>8. Shown(lv, loc)[i] = [side |-> loc[i].side, price |-> loc[i].price,
                           qty |-> Queue(lv, loc, i)[k].qty]
  BY <1>3, <1>7, ShownOf
<1> QED
  BY <1>2, <1>3, <1>5, <1>7, <1>8

\* They keep their order.
LEMMA KeptOrder ==
    ASSUME BookInv, NEW o \in Order, NEW m, Matching(m, o.side, levels[o.side]), NEW s, Shared(m, o, s),
           NEW lv, NEW loc, WholeBook(lv, loc), After(lv, loc, o, m),
           NEW i \in DOMAIN m.locations, NEW j \in DOMAIN m.locations
    PROVE  <<i, j>> \in ShownEarlier(lv, loc) <=> <<i, j>> \in Earlier
<1>1. Taken(m, s) /\ QueuesKeep(m)
  BY DEF Shared
<1>2. /\ i \in DOMAIN locations /\ m.locations[i] = locations[i]
      /\ j \in DOMAIN locations /\ m.locations[j] = locations[j]
  BY <1>1 DEF Taken
<1>3. /\ i \in DOMAIN loc /\ loc[i] = locations[i]
      /\ j \in DOMAIN loc /\ loc[j] = locations[j]
  BY <1>2 DEF After
<1>4. WholeBook(levels, locations) /\ Earlier = ShownEarlier(levels, locations)
  BY WholeIs, ShownIs
<1>5. CASE locations[i] # locations[j]
  <2>1. <<i, j>> \notin ShownEarlier(lv, loc) /\ <<i, j>> \notin ShownEarlier(levels, locations)
    BY <1>2, <1>3, <1>4, <1>5, EarlierOrder
  <2> QED
    BY <1>4, <2>1
<1>6. CASE locations[i] = locations[j] /\ locations[i].side = o.side
  <2>1. PICK k : Stands(levels, locations, i, k)
    BY <1>2, <1>4, StandsOne
  <2>2. PICK l : Stands(levels, locations, j, l)
    BY <1>2, <1>4, StandsOne
  <2>3. Stands(lv, loc, i, k) /\ Stands(lv, loc, j, l)
    BY <1>2, <1>6, <2>1, <2>2, OwnStays
  <2>4. <<i, j>> \in ShownEarlier(lv, loc) <=> loc[i] = loc[j] /\ k < l
    BY <1>3, <2>3, ShownOrder
  <2>5. <<i, j>> \in ShownEarlier(levels, locations) <=> locations[i] = locations[j] /\ k < l
    BY <1>2, <1>4, <2>1, <2>2, ShownOrder
  <2> QED
    BY <1>3, <1>4, <2>4, <2>5
<1>7. CASE locations[i] = locations[j] /\ locations[i].side # o.side
  <2> DEFINE p == locations[i].price
             b == m.book
  <2>1. locations[i].side = Opposite(o.side) /\ locations[j].side = Opposite(o.side)
    BY <1>2, <1>7, RestingIs DEF Opposite, Order, Side
  <2>2. Found(b, Opposite(o.side), m.locations) /\ IsBook(b)
    BY DEF Matching, SideOK
  <2>3. /\ p \in DOMAIN b /\ \E k \in 1 .. Len(b[p]) : b[p][k].id = i
        /\ \E k \in 1 .. Len(b[p]) : b[p][k].id = j
    BY <1>2, <1>7, <2>1, <2>2 DEF Found
  <2>4. PICK k \in 1 .. Len(b[p]) : b[p][k].id = i
    BY <2>3
  <2>5. PICK l \in 1 .. Len(b[p]) : b[p][l].id = j
    BY <2>3
  <2>6. Queue(lv, loc, i) = b[p] /\ Queue(lv, loc, j) = b[p]
    BY <1>3, <1>7, <2>1 DEF Queue, After
  <2>7. Stands(lv, loc, i, k) /\ Stands(lv, loc, j, l)
    BY <2>4, <2>5, <2>6 DEF Stands
  <2>8. <<i, j>> \in ShownEarlier(lv, loc) <=> loc[i] = loc[j] /\ k < l
    BY <1>3, <2>7, ShownOrder
  <2>9. k < l => <<i, j>> \in Earlier
    BY <1>1, <2>3, <2>4, <2>5 DEF QueuesKeep
  <2>10. l < k => <<j, i>> \in Earlier
    BY <1>1, <2>3, <2>4, <2>5 DEF QueuesKeep
  <2>11. k = l => i = j
    BY <2>4, <2>5
  <2>12. /\ <<i, i>> \notin ShownEarlier(levels, locations)
         /\ <<i, j>> \in ShownEarlier(levels, locations) => <<j, i>> \notin ShownEarlier(levels, locations)
    BY <1>2, <1>4, EarlierOrder
  <2>13. k \in Int /\ l \in Int /\ loc[i] = loc[j]
    BY <1>3, <1>7
  <2> HIDE DEF p, b
  <2> QED
    BY <1>4, <2>8, <2>9, <2>10, <2>11, <2>12, <2>13
<1> QED
  BY <1>5, <1>6, <1>7

\* The orders the abstract book keeps, and the one it places, are those of the index.
LEMMA KeptAre ==
    ASSUME BookInv, NEW o \in Order, NEW m, Matching(m, o.side, levels[o.side]), NEW s, Shared(m, o, s)
    PROVE  /\ {i \in DOMAIN Resting : s[i] < Resting[i].qty} = DOMAIN m.locations
           /\ o.qty - SumFunction(s) = m.remaining
<1>1. Taken(m, s) /\ InTurn(o, s) /\ Remainder(m, o, s)
  BY DEF Shared
<1>2. DOMAIN Resting = DOMAIN locations /\ \A i \in DOMAIN locations : Resting[i].qty \in Nat /\ s[i] \in Nat
  BY <1>1, RestingIs DEF InTurn
<1>3. \A i \in DOMAIN m.locations : i \in DOMAIN locations
  BY <1>1 DEF Taken
<1>4. \A i \in DOMAIN locations : (s[i] < Resting[i].qty) = (i \in DOMAIN m.locations)
  BY <1>1, <1>2 DEF Taken
<1>5. o.qty \in Nat
  BY BookAssumption DEF Order, BookAssumption
<1> QED
  BY <1>1, <1>2, <1>3, <1>4, <1>5 DEF Remainder

\* What rests after a matching is what the abstract book says.
LEMMA SharedRests ==
    ASSUME BookInv, NEW o \in Order, NEW m, Matching(m, o.side, levels[o.side]), NEW s, Shared(m, o, s),
           WholeBook(levels', locations'), After(levels', locations', o, m)
    PROVE  Auction!Rests(o, s)
<1> DEFINE kept == DOMAIN m.locations
           new == Rested(o, m)
           peers == {i \in kept : Resting[i].side = o.side /\ Resting[i].price = o.price}
           lv == levels'
           loc == locations'
<1>1. /\ {i \in DOMAIN Resting : s[i] < Resting[i].qty} = kept
      /\ o.qty - SumFunction(s) = m.remaining
  BY KeptAre
<1>2. DOMAIN loc = kept \cup new /\ o.id \notin DOMAIN locations
  BY DEF After
<1>3. \A i \in kept : /\ i \in DOMAIN loc /\ i \in DOMAIN Resting /\ i # o.id
                      /\ Shown(lv, loc)[i] = [Resting[i] EXCEPT !.qty = @ - s[i]]
  BY KeptShown
<1>4. \A i, j \in kept : <<i, j>> \in ShownEarlier(lv, loc) <=> <<i, j>> \in Earlier
  BY KeptOrder
<1>5. new = {} \/ new = {o.id}
  BY DEF Rested
<1>6. ASSUME new # {}
      PROVE  /\ Shown(lv, loc)[o.id] = [side |-> o.side, price |-> o.price, qty |-> m.remaining]
             /\ \A i \in kept : <<i, o.id>> \in ShownEarlier(lv, loc) <=> i \in peers
             /\ \A j \in DOMAIN loc : <<o.id, j>> \notin ShownEarlier(lv, loc)
  <2>1. o.id \in DOMAIN loc /\ loc[o.id] = [side |-> o.side, price |-> o.price]
    BY <1>2, <1>5, <1>6 DEF After
  <2>2. PICK l : /\ Stands(lv, loc, o.id, l) /\ Queue(lv, loc, o.id)[l].qty = m.remaining
                 /\ \A i \in DOMAIN loc : \A k :
                        loc[i] = loc[o.id] /\ Stands(lv, loc, i, k) /\ i # o.id => k < l
    BY <1>6, NewLast
  <2> HIDE DEF lv, loc
  <2>3. Shown(lv, loc)[o.id] = [side |-> o.side, price |-> o.price, qty |-> m.remaining]
    <3>1. Shown(lv, loc)[o.id] = [side |-> loc[o.id].side, price |-> loc[o.id].price,
                                  qty |-> Queue(lv, loc, o.id)[l].qty] /\ l \in Nat
      BY <2>1, <2>2, ShownOf DEF lv, loc
    <3> QED
      BY <2>1, <2>2, <3>1
  <2>4. WholeBook(lv, loc)
    BY DEF lv, loc
  <2>5. l \in Nat
    BY <2>1, <2>2, <2>4, ShownOf
  <2>6. ASSUME NEW i \in kept PROVE <<i, o.id>> \in ShownEarlier(lv, loc) <=> i \in peers
    <3>1. i \in DOMAIN loc /\ i # o.id /\ loc[i] = locations[i] /\ i \in DOMAIN locations
      BY <1>3 DEF After, Shared, Taken, loc
    <3>2. PICK k : Stands(lv, loc, i, k)
      BY <2>4, <3>1, StandsOne
    <3>3. <<i, o.id>> \in ShownEarlier(lv, loc) <=> loc[i] = loc[o.id] /\ k < l
      BY <2>1, <2>2, <2>4, <3>1, <3>2, ShownOrder
    <3>4. loc[i] = loc[o.id] => k < l
      BY <2>2, <3>1, <3>2
    <3>5. Resting[i].side = locations[i].side /\ Resting[i].price = locations[i].price
      BY <3>1, RestingIs
    <3>6. locations[i] = [side |-> locations[i].side, price |-> locations[i].price]
      BY <3>1, WholeIs, StandsOne
    <3>7. loc[i] = loc[o.id] <=> Resting[i].side = o.side /\ Resting[i].price = o.price
      BY <2>1, <3>1, <3>5, <3>6
    <3> QED
      BY <3>3, <3>4, <3>7
  <2>7. ASSUME NEW j \in DOMAIN loc PROVE <<o.id, j>> \notin ShownEarlier(lv, loc)
    <3>1. CASE j = o.id
      BY <2>1, <2>4, <3>1, EarlierOrder
    <3>2. CASE j # o.id
      <4>1. PICK k : Stands(lv, loc, j, k)
        BY <2>4, StandsOne
      <4>2. <<o.id, j>> \in ShownEarlier(lv, loc) <=> loc[o.id] = loc[j] /\ l < k
        BY <2>1, <2>2, <2>4, <4>1, ShownOrder
      <4>3. loc[j] = loc[o.id] => k < l
        BY <2>2, <3>2, <4>1
      <4>4. k \in Nat
        BY <2>4, <4>1, ShownOf
      <4> QED
        BY <2>5, <4>2, <4>3, <4>4
    <3> QED
      BY <3>1, <3>2
  <2> QED
    BY <2>3, <2>6, <2>7
<1>7. Shown(lv, loc) = [i \in kept \cup new |->
          IF i = o.id THEN [side |-> o.side, price |-> o.price, qty |-> m.remaining]
          ELSE [Resting[i] EXCEPT !.qty = @ - s[i]]]
  <2> DEFINE R(i) == IF i = o.id THEN [side |-> o.side, price |-> o.price, qty |-> m.remaining]
                     ELSE [Resting[i] EXCEPT !.qty = @ - s[i]]
  <2>1. Shown(lv, loc) = [i \in DOMAIN loc |-> Shown(lv, loc)[i]]
    BY DEF Shown
  <2>2. \A i \in kept \cup new : Shown(lv, loc)[i] = R(i)
    <3> SUFFICES ASSUME NEW i \in kept \cup new PROVE Shown(lv, loc)[i] = R(i)
      OBVIOUS
    <3> HIDE DEF lv, loc, kept, new
    <3>1. CASE i \in kept
      BY <1>3, <3>1
    <3>2. CASE i \notin kept
      BY <1>5, <1>6, <3>2
    <3> QED
      BY <3>1, <3>2
  <2> HIDE DEF R, lv, loc, kept, new
  <2>3. Shown(lv, loc) = [i \in kept \cup new |-> R(i)]
    BY <1>2, <2>1, <2>2
  <2> QED
    BY <2>3 DEF R
<1>8. ShownEarlier(lv, loc) = {e \in Earlier : e[1] \in kept /\ e[2] \in kept} \cup (peers \X new)
  <2> DEFINE A == ShownEarlier(lv, loc)
             B == {e \in Earlier : e[1] \in kept /\ e[2] \in kept} \cup (peers \X new)
  <2>1. A \subseteq (DOMAIN loc) \X (DOMAIN loc)
    BY DEF ShownEarlier
  <2>2. Earlier \subseteq (DOMAIN locations) \X (DOMAIN locations)
    BY DEF Earlier
  <2>3. peers \subseteq kept
    OBVIOUS
  <2> HIDE DEF lv, loc, kept, new, peers, A
  <2>4. B \subseteq (DOMAIN loc) \X (DOMAIN loc)
    <3> SUFFICES ASSUME NEW e \in B PROVE e \in (DOMAIN loc) \X (DOMAIN loc)
      OBVIOUS
    <3>1. CASE e \in Earlier /\ e[1] \in kept /\ e[2] \in kept
      BY <1>2, <2>2, <3>1
    <3>2. CASE e \in peers \X new
      BY <1>2, <2>3, <3>2
    <3> QED
      BY <3>1, <3>2
  <2>5. ASSUME NEW i \in DOMAIN loc, NEW j \in DOMAIN loc
        PROVE  <<i, j>> \in A <=> <<i, j>> \in B
    <3>1. /\ <<i, j>>[1] = i /\ <<i, j>>[2] = j
          /\ <<i, j>> \in B <=> (<<i, j>> \in Earlier /\ i \in kept /\ j \in kept) \/ (i \in peers /\ j \in new)
      OBVIOUS
    <3> HIDE DEF B
    <3>2. CASE i \in kept /\ j \in kept
      <4>1. j \notin new
        BY <1>3, <1>5, <3>2
      <4> QED
        BY <1>4, <3>1, <3>2, <4>1 DEF A
    <3>3. CASE i \in kept /\ j \notin kept
      <4>1. new # {} /\ j = o.id /\ j \in new
        BY <1>2, <1>5, <3>3
      <4> QED
        BY <1>6, <3>1, <3>3, <4>1 DEF A
    <3>4. CASE i \notin kept
      <4>1. new # {} /\ i = o.id
        BY <1>2, <1>5, <3>4
      <4>2. i \notin peers
        BY <2>3, <3>4
      <4> QED
        BY <1>6, <3>1, <3>4, <4>1, <4>2 DEF A
    <3> QED
      BY <3>2, <3>3, <3>4
  <2> HIDE DEF B
  <2>6. A = B
    <3>1. ASSUME NEW e \in (DOMAIN loc) \X (DOMAIN loc) PROVE e \in A <=> e \in B
      <4>1. PICK i \in DOMAIN loc : \E j \in DOMAIN loc : e = <<i, j>>
        OBVIOUS
      <4>2. PICK j \in DOMAIN loc : e = <<i, j>>
        BY <4>1
      <4> QED
        BY <2>5, <4>2
    <3> QED
      BY <2>1, <2>4, <3>1
  <2> QED
    BY <2>6 DEF A, B
<1>9. Resting' = Shown(lv, loc) /\ Earlier' = ShownEarlier(lv, loc)
  BY ShownIs
<1>10. new = IF m.remaining > 0 /\ o.type = "Limit" THEN {o.id} ELSE {}
  BY DEF Rested
<1> HIDE DEF kept, new, peers, lv, loc
<1>11. Resting' = [i \in kept \cup new |->
          IF i = o.id THEN [side |-> o.side, price |-> o.price, qty |-> m.remaining]
          ELSE [Resting[i] EXCEPT !.qty = @ - s[i]]]
  BY <1>7, <1>9
<1>12. Earlier' = {e \in Earlier : e[1] \in kept /\ e[2] \in kept} \cup (peers \X new)
  BY <1>8, <1>9
<1>13. o.qty - Auction!SumFunction(s) = m.remaining
  BY <1>1, SameOperators
<1> QED
  BY <1>1, <1>10, <1>11, <1>12, <1>13 DEF Auction!Rests, peers

-----------------------------------------------------------------------------
(* Price-time priority: the refinement *)

\* add_order is a submission of the abstract book.
LEMMA AddOrderSubmits ==
    ASSUME BookInv, BookInv', NEW o \in Order, AddOrder(o)
    PROVE  Auction!Submit(o)
<1> DEFINE m == Match(o)
<1>1. Matching(m, o.side, levels[o.side]) /\ Settled(m, o)
  BY MatchSettles DEF BookInv
<1>2. PICK s : Shared(m, o, s)
  BY MatchShared
<1>3. After(levels', locations', o, m) /\ fills' = m.fills
  BY AddOrderAfter
<1> HIDE DEF m
<1>4. Auction!Fair(o, s)
  BY <1>1, <1>2, SettledFair
<1>5. Auction!Executed(o, s)
  BY <1>2, <1>3, SharedExecuted
<1>6. WholeBook(levels', locations')
  BY WholeNext
<1>7. Auction!Rests(o, s)
  BY <1>1, <1>2, <1>3, <1>6, SharedRests
<1>8. DOMAIN Resting = DOMAIN locations
  BY RestingIs
<1>9. o.id \notin DOMAIN Resting /\ s \in [DOMAIN Resting -> 0 .. o.qty]
  BY <1>2, <1>3, <1>8 DEF After, Shared, InTurn
<1> QED
  BY <1>4, <1>5, <1>7, <1>9 DEF Auction!Submit

\* Where an order stands when another one is taken out.
LEMMA CancelShifts ==
    ASSUME BookInv, NEW id \in Ids, Cancel(id), NEW i \in DOMAIN locations, i # id,
           NEW h, Stands(levels, locations, id, h), NEW k, Stands(levels, locations, i, k)
    PROVE  LET l == IF locations[i] = locations[id] /\ h < k THEN k - 1 ELSE k
           IN  /\ Stands(levels', locations', i, l)
               /\ Queue(levels', locations', i)[l] = Queue(levels, locations, i)[k]
               /\ locations[i] = locations[id] => k # h
<1> DEFINE at == locations[id]
           side == at.side
           p == at.price
           b == levels[side]
           q == b[p]
           t == RemoveAt(q, PlaceOf(q, id))
           c == SetLevel(b, p, t)
           l == IF locations[i] = at /\ h < k THEN k - 1 ELSE k
<1>1. id \in DOMAIN locations /\ locations' = Without(locations, id) /\ levels' = [levels EXCEPT ![side] = c]
  BY DEF Cancel
<1>2. WholeBook(levels, locations) /\ DOMAIN levels = Side
  BY WholeIs DEF BookInv
<1>3. /\ side \in Side /\ at = [side |-> side, price |-> p] /\ p \in DOMAIN b /\ q \in Seq(RestingOrder)
      /\ Queue(levels, locations, id) = q /\ PlaceOf(q, id) = h
  BY <1>1, <1>2, StandsOne DEF Queue
<1>4. h \in 1 .. Len(q) /\ q[h].id = id /\ Len(q) \in Nat
  BY <1>3 DEF Stands
<1>5. t \in Seq(RestingOrder) /\ CutAt(t, q, h)
  BY <1>3, <1>4, RemoveAtIs
<1>6. LevelSet(c, b, p, t)
  BY SetLevelIs
<1>7. levels'[side] = c /\ \A x \in Side : x # side => levels'[x] = levels[x]
  BY <1>1, <1>2, <1>3
<1>8. locations'[i] = locations[i]
  BY <1>1, WithoutIs DEF Dropped
<1>9. /\ locations[i].side \in Side
      /\ locations[i] = [side |-> locations[i].side, price |-> locations[i].price]
      /\ locations[i].price \in DOMAIN levels[locations[i].side]
      /\ Queue(levels, locations, i) \in Seq(RestingOrder)
  BY <1>2, StandsOne
<1>10. k \in 1 .. Len(Queue(levels, locations, i)) /\ Queue(levels, locations, i)[k].id = i
  BY DEF Stands
<1> HIDE DEF c, t, at
<1>11. CASE locations[i] = at
  <2>1. Queue(levels, locations, i) = q
    BY <1>3, <1>11 DEF Queue, at
  <2>2. k \in 1 .. Len(q) /\ q[k].id = i /\ k # h
    BY <1>4, <1>10, <2>1
  <2>3. l \in 1 .. Len(t) /\ t[l] = q[k] /\ l \in Int
    <3> HIDE DEF q
    <3>1. CASE h < k
      <4>1. k - 1 \in 1 .. Len(t) /\ ~(k - 1 < h) /\ (k - 1) + 1 = k
        BY <1>4, <1>5, <2>2, <3>1 DEF CutAt
      <4>2. t[k - 1] = q[(k - 1) + 1]
        BY <1>5, <4>1 DEF CutAt
      <4> QED
        BY <1>11, <3>1, <4>1, <4>2
    <3>2. CASE ~(h < k)
      <4>1. k \in 1 .. Len(t) /\ k < h
        BY <1>4, <1>5, <2>2, <3>2 DEF CutAt
      <4> QED
        BY <1>5, <3>2, <4>1 DEF CutAt
    <3> QED
      BY <3>1, <3>2
  <2>4. t # << >>
    BY <1>5, <2>3
  <2>5. c[p] = t
    BY <1>6, <2>4 DEF LevelSet
  <2>6. Queue(levels', locations', i) = t
    BY <1>7, <1>8, <1>11, <2>5 DEF Queue
  <2> HIDE DEF l, q
  <2>7. Stands(levels', locations', i, l) /\ Queue(levels', locations', i)[l] = Queue(levels, locations, i)[k]
    BY <2>1, <2>2, <2>3, <2>6 DEF Stands
  <2> QED
    BY <2>2, <2>7 DEF l, at
<1>12. CASE locations[i] # at
  <2>1. l = k
    BY <1>12
  <2>2. Queue(levels', locations', i) = Queue(levels, locations, i)
    <3>1. CASE locations[i].side = side
      <4>1. locations[i].price # p
        BY <1>3, <1>9, <1>12, <3>1
      <4>2. c[locations[i].price] = b[locations[i].price]
        <5>1. locations[i].price \in DOMAIN b
          BY <1>9, <3>1
        <5>2. locations[i].price \in DOMAIN c
          BY <1>6, <4>1, <5>1 DEF LevelSet
        <5> QED
          BY <1>6, <4>1, <5>2 DEF LevelSet
      <4> QED
        BY <1>7, <1>8, <3>1, <4>2 DEF Queue
    <3>2. CASE locations[i].side # side
      <4>1. levels'[locations[i].side] = levels[locations[i].side]
        BY <1>7, <1>9, <3>2
      <4> QED
        BY <1>8, <4>1 DEF Queue
    <3> QED
      BY <3>1, <3>2
  <2> HIDE DEF l
  <2>3. Stands(levels', locations', i, l)
    BY <1>10, <2>1, <2>2 DEF Stands
  <2> QED
    BY <1>12, <2>1, <2>2, <2>3 DEF l, at
<1> QED
  BY <1>11, <1>12

\* cancel is a cancel of the abstract book.
LEMMA CancelCancels ==
    ASSUME BookInv, BookInv', NEW id \in Ids, Cancel(id)
    PROVE  Auction!Cancel(id)
<1> DEFINE D == DOMAIN locations \ {id}
<1>1. /\ id \in DOMAIN locations /\ fills' = fills
      /\ DOMAIN locations' = D /\ \A i \in D : locations'[i] = locations[i]
  <2>1. Dropped(locations', locations, id) /\ id \in DOMAIN locations /\ fills' = fills
    BY WithoutIs DEF Cancel
  <2> QED
    BY <2>1 DEF Dropped
<1>2. /\ WholeBook(levels, locations) /\ WholeBook(levels', locations')
      /\ Earlier = ShownEarlier(levels, locations) /\ Resting = Shown(levels, locations)
      /\ Earlier' = ShownEarlier(levels', locations') /\ Resting' = Shown(levels', locations')
  BY WholeIs, WholeNext, ShownIs
<1>3. PICK h : Stands(levels, locations, id, h)
  BY <1>1, <1>2, StandsOne
<1>4. h \in Nat
  BY <1>1, <1>2, <1>3, ShownOf
<1>5. ASSUME NEW i \in D PROVE Resting'[i] = Resting[i]
  <2>1. i \in DOMAIN locations /\ i # id /\ i \in DOMAIN locations' /\ locations'[i] = locations[i]
    BY <1>1
  <2>2. PICK k : Stands(levels, locations, i, k)
    BY <1>2, <2>1, StandsOne
  <2> DEFINE l == IF locations[i] = locations[id] /\ h < k THEN k - 1 ELSE k
  <2>3. /\ Stands(levels', locations', i, l)
        /\ Queue(levels', locations', i)[l] = Queue(levels, locations, i)[k]
    BY <1>3, <2>1, <2>2, CancelShifts
  <2> HIDE DEF l
  <2>4. Shown(levels', locations')[i] =
           [side |-> locations'[i].side, price |-> locations'[i].price,
            qty |-> Queue(levels', locations', i)[l].qty]
    BY <1>2, <2>1, <2>3, ShownOf
  <2>5. Shown(levels, locations)[i] =
           [side |-> locations[i].side, price |-> locations[i].price,
            qty |-> Queue(levels, locations, i)[k].qty]
    BY <1>2, <2>1, <2>2, ShownOf
  <2> QED
    BY <1>2, <2>1, <2>3, <2>4, <2>5
<1>6. ASSUME NEW i \in D, NEW j \in D PROVE <<i, j>> \in Earlier' <=> <<i, j>> \in Earlier
  <2>1. /\ i \in DOMAIN locations /\ i # id /\ i \in DOMAIN locations' /\ locations'[i] = locations[i]
        /\ j \in DOMAIN locations /\ j # id /\ j \in DOMAIN locations' /\ locations'[j] = locations[j]
    BY <1>1
  <2>2. PICK k : Stands(levels, locations, i, k)
    BY <1>2, <2>1, StandsOne
  <2>3. PICK l : Stands(levels, locations, j, l)
    BY <1>2, <2>1, StandsOne
  <2> DEFINE x == IF locations[i] = locations[id] /\ h < k THEN k - 1 ELSE k
             y == IF locations[j] = locations[id] /\ h < l THEN l - 1 ELSE l
  <2>4. Stands(levels', locations', i, x) /\ (locations[i] = locations[id] => k # h)
    BY <1>3, <2>1, <2>2, CancelShifts
  <2>5. Stands(levels', locations', j, y) /\ (locations[j] = locations[id] => l # h)
    BY <1>3, <2>1, <2>3, CancelShifts
  <2>6. k \in Nat /\ l \in Nat
    BY <1>2, <2>1, <2>2, <2>3, ShownOf
  <2>7. locations[i] = locations[j] => (x < y <=> k < l)
    BY <1>4, <2>4, <2>5, <2>6
  <2> HIDE DEF x, y
  <2>8. <<i, j>> \in ShownEarlier(levels', locations') <=> locations'[i] = locations'[j] /\ x < y
    BY <1>2, <2>1, <2>4, <2>5, ShownOrder
  <2>9. <<i, j>> \in ShownEarlier(levels, locations) <=> locations[i] = locations[j] /\ k < l
    BY <1>2, <2>1, <2>2, <2>3, ShownOrder
  <2> QED
    BY <1>2, <2>1, <2>7, <2>8, <2>9
<1>7. Resting' = Auction!Restrict(Resting, DOMAIN Resting \ {id})
  <2>1. Resting' = [i \in D |-> Resting'[i]]
    BY <1>1, <1>2 DEF Shown
  <2>2. Resting' = [i \in D |-> Resting[i]]
    BY <1>5, <2>1
  <2>3. DOMAIN Resting \ {id} = D
    BY RestingIs
  <2> QED
    BY <2>2, <2>3, SameOperators DEF Restrict
<1>8. Earlier' = {e \in Earlier : e[1] # id /\ e[2] # id}
  <2> DEFINE A == Earlier'
             B == {e \in Earlier : e[1] # id /\ e[2] # id}
  <2>1. A \subseteq D \X D
    BY <1>1, <1>2 DEF ShownEarlier
  <2>2. Earlier \subseteq (DOMAIN locations) \X (DOMAIN locations)
    BY DEF Earlier
  <2>3. B \subseteq D \X D
    BY <2>2
  <2>4. ASSUME NEW i \in D, NEW j \in D PROVE <<i, j>> \in A <=> <<i, j>> \in B
    BY <1>6
  <2> HIDE DEF A, B, D
  <2>5. A = B
    <3>1. ASSUME NEW e \in D \X D PROVE e \in A <=> e \in B
      <4>1. PICK i \in D : \E j \in D : e = <<i, j>>
        OBVIOUS
      <4>2. PICK j \in D : e = <<i, j>>
        BY <4>1
      <4> QED
        BY <2>4, <4>2
    <3> QED
      BY <2>1, <2>3, <3>1
  <2> QED
    BY <2>5 DEF A, B
<1> QED
  BY <1>1, <1>7, <1>8 DEF Auction!Cancel

\* Every step of the book is a step of the abstract one, or none.
LEMMA PriorityNext ==
    BookInv /\ BookInv' /\ [Next]_bvars => [Auction!Next]_(Auction!avars)
<1> SUFFICES ASSUME BookInv, BookInv', [Next]_bvars PROVE [Auction!Next]_(Auction!avars)
  OBVIOUS
<1>1. ASSUME NEW o \in Order, AddOrder(o) PROVE Auction!Next
  <2>1. o \in Auction!Incoming
    BY DEF Order, Side, Auction!Incoming
  <2>2. Auction!Submit(o)
    BY <1>1, AddOrderSubmits
  <2> QED
    BY <2>1, <2>2 DEF Auction!Next
<1>2. ASSUME NEW id \in Ids, Cancel(id) PROVE Auction!Next
  BY <1>2, CancelCancels DEF Auction!Next
<1>3. CASE UNCHANGED bvars
  <2>1. levels' = levels /\ locations' = locations /\ fills' = fills
    BY <1>3 DEF bvars
  <2>2. Resting' = Resting /\ Earlier' = Earlier
    BY <2>1, ShownIs
  <2> QED
    BY <2>1, <2>2 DEF Auction!avars
<1> QED
  BY <1>1, <1>2, <1>3 DEF Next

\* The empty book is the empty auction.
LEMMA PriorityInit == Init => Auction!Init
<1> SUFFICES ASSUME Init PROVE Auction!Init
  OBVIOUS
<1>1. locations = Nothing /\ DOMAIN Nothing = {} /\ fills = << >>
  BY DEF Init, Nothing
<1>2. Resting = [i \in {} |-> i]
  BY <1>1 DEF Resting
<1>3. Earlier = {}
  BY <1>1 DEF Earlier
<1> QED
  BY <1>1, <1>2, <1>3 DEF Auction!Init

\* For every set of ids, prices and quantities, whatever was cancelled or partly filled
\* before: the levels, queues and index of src/matching/orderbook.cpp trade exactly as
\* price-time priority demands.  A resting order trades at its own price and only when
\* those before it, by price and then by arrival, are exhausted; an incoming order takes
\* all it can before it rests or is dropped.
THEOREM BookKeepsPriority == Spec => ImplementsAuction
<1>1. Spec => []BookInv
  BY BookInvInit, BookInvNext, PTL DEF Spec
<1>2. BookInv /\ BookInv' /\ [Next]_bvars => [Auction!Next]_(Auction!avars)
  BY PriorityNext
<1> QED
  BY <1>1, <1>2, PriorityInit, PTL DEF Spec, ImplementsAuction, Auction!Spec

-----------------------------------------------------------------------------
(* The two matching books *)

Level == [price : Price, queue : Seq(RestingOrder)]

InOrderOfPrice(side, ls) ==
    \A i, j \in 1 .. Len(ls) : i < j => Better(side, ls[i].price, ls[j].price)

\* The sequence of levels ls and the book b of a side hold the same queues.
SameLevels(ls, b) ==
    /\ \A k \in 1 .. Len(ls) : ls[k].price \in DOMAIN b /\ ls[k].queue = b[ls[k].price]
    /\ \A p \in DOMAIN b : \E k \in 1 .. Len(ls) : ls[k].price = p

SameSide(ls, b, side) == ls \in Seq(Level) /\ InOrderOfPrice(side, ls) /\ SameLevels(ls, b)

\* Better is a strict total order.
LEMMA BetterOrder ==
    ASSUME NEW side, NEW p \in Nat, NEW q \in Nat
    PROVE  /\ ~Better(side, p, p)
           /\ p = q \/ Better(side, p, q) \/ Better(side, q, p)
           /\ ~(Better(side, p, q) /\ Better(side, q, p))
           /\ \A r \in Nat : Better(side, p, q) /\ Better(side, q, r) => Better(side, p, r)
BY DEF Better

\* The levels have prices that are numbers.
LEMMA LevelPrice ==
    ASSUME NEW ls \in Seq(Level), NEW k \in 1 .. Len(ls)
    PROVE  ls[k] \in Level /\ ls[k].price \in Price /\ ls[k].price \in Nat /\ ls[k].queue \in Seq(RestingOrder)
<1>1. ls[k] \in Level
  OBVIOUS
<1> QED
  BY <1>1, BookAssumption DEF Level, BookAssumption

\* No two levels have the same price.
LEMMA OneLevel ==
    ASSUME NEW ls \in Seq(Level), NEW side, InOrderOfPrice(side, ls),
           NEW i \in 1 .. Len(ls), NEW j \in 1 .. Len(ls), ls[i].price = ls[j].price
    PROVE  i = j
<1>1. ls[i].price \in Nat /\ ls[j].price \in Nat
  BY LevelPrice
<1>2. i \in Int /\ j \in Int
  OBVIOUS
<1>3. ~(i < j) /\ ~(j < i)
  BY <1>1, BetterOrder DEF InOrderOfPrice
<1> QED
  BY <1>2, <1>3

\* The first level is the best one.
LEMMA BestFirst ==
    ASSUME NEW side \in Side, NEW ls, NEW b, IsBook(b), SameSide(ls, b, side)
    PROVE  /\ (ls = << >>) = (DOMAIN b = {})
           /\ ls # << >> => 1 \in 1 .. Len(ls) /\ ls[1].price = Best(side, b)
<1>1. ls \in Seq(Level) /\ InOrderOfPrice(side, ls) /\ SameLevels(ls, b) /\ Len(ls) \in Nat
  BY DEF SameSide
<1>2. CASE ls = << >>
  <2>1. Len(ls) = 0
    BY <1>2
  <2>2. DOMAIN b = {}
    BY <1>1, <2>1 DEF SameLevels
  <2> QED
    BY <1>2, <2>2
<1>3. CASE ls # << >>
  <2> DEFINE p == ls[1].price
  <2>1. 1 \in 1 .. Len(ls)
    BY <1>1, <1>3
  <2>2. p \in DOMAIN b /\ p \in Nat
    BY <1>1, <2>1, LevelPrice DEF SameLevels
  <2>3. DOMAIN b \in SUBSET Nat /\ IsFiniteSet(DOMAIN b) /\ DOMAIN b # {}
    BY <2>2, BookAssumption DEF IsBook, BookAssumption
  <2>4. ASSUME NEW q \in DOMAIN b PROVE p = q \/ Better(side, p, q)
    <3>1. PICK k \in 1 .. Len(ls) : ls[k].price = q
      BY <1>1 DEF SameLevels
    <3>2. k = 1 \/ 1 < k
      BY <1>1
    <3> QED
      BY <1>1, <2>1, <3>1, <3>2 DEF InOrderOfPrice
  <2>5. /\ Min(DOMAIN b) \in DOMAIN b /\ Max(DOMAIN b) \in DOMAIN b
        /\ \A x \in DOMAIN b : Min(DOMAIN b) <= x /\ x <= Max(DOMAIN b)
    BY <2>3, MinMaxNat
  <2> HIDE DEF p
  <2>6. CASE side = "Buy"
    <3>1. Max(DOMAIN b) \in Nat /\ p <= Max(DOMAIN b)
      BY <2>2, <2>3, <2>5
    <3>2. p = Max(DOMAIN b) \/ p > Max(DOMAIN b)
      BY <2>4, <2>5, <2>6 DEF Better
    <3> QED
      BY <1>3, <2>1, <2>2, <2>6, <3>1, <3>2 DEF Best, p
  <2>7. CASE side # "Buy"
    <3>1. Min(DOMAIN b) \in Nat /\ Min(DOMAIN b) <= p
      BY <2>2, <2>3, <2>5
    <3>2. p = Min(DOMAIN b) \/ p < Min(DOMAIN b)
      BY <2>4, <2>5, <2>7 DEF Better
    <3> QED
      BY <1>3, <2>1, <2>2, <2>7, <3>1, <3>2 DEF Best, p
  <2> QED
    BY <2>6, <2>7
<1> QED
  BY <1>2, <1>3

\* A level that gets another queue, or is erased, on both sides.
LEMMA RequeueSame ==
    ASSUME NEW side, NEW ls, NEW b, SameSide(ls, b, side), NEW k \in 1 .. Len(ls),
           NEW q \in Seq(RestingOrder), NEW c, LevelSet(c, b, ls[k].price, q)
    PROVE  SameSide(Requeued(ls, k, q), c, side)
<1> DEFINE t == Requeued(ls, k, q)
           p == ls[k].price
<1>1. ls \in Seq(Level) /\ InOrderOfPrice(side, ls) /\ SameLevels(ls, b) /\ Len(ls) \in Nat /\ k \in Int
  BY DEF SameSide
<1>2. p \in Price /\ \A i \in 1 .. Len(ls) : ls[i].price = p => i = k
  <2>1. p \in Price
    BY <1>1, LevelPrice
  <2> SUFFICES ASSUME NEW i \in 1 .. Len(ls), ls[i].price = p PROVE i = k
    BY <2>1
  <2> QED
    BY <1>1, OneLevel
<1> HIDE DEF p
<1>3. LevelSet(c, b, p, q)
  BY DEF p
<1>4. CASE q # << >>
  <2>1. t = [ls EXCEPT ![k] = [price |-> p, queue |-> q]]
    BY <1>4 DEF Requeued, p
  <2>2. [price |-> p, queue |-> q] \in Level
    BY <1>2 DEF Level
  <2>3. /\ t \in Seq(Level) /\ Len(t) = Len(ls) /\ t[k] = [price |-> p, queue |-> q]
        /\ \A i \in 1 .. Len(ls) : i # k => t[i] = ls[i]
    BY <1>1, <2>1, <2>2
  <2> HIDE DEF t
  <2>4. \A i \in 1 .. Len(ls) : t[i].price = ls[i].price
    BY <2>3 DEF p
  <2>5. InOrderOfPrice(side, t)
    BY <1>1, <2>3, <2>4 DEF InOrderOfPrice
  <2>6. DOMAIN c = DOMAIN b \cup {p} /\ c[p] = q /\ \A x \in DOMAIN c : x # p => c[x] = b[x]
    BY <1>3, <1>4 DEF LevelSet
  <2>7. p \in DOMAIN b
    BY <1>1 DEF SameLevels, p
  <2>8. ASSUME NEW i \in 1 .. Len(t) PROVE t[i].price \in DOMAIN c /\ t[i].queue = c[t[i].price]
    <3>1. CASE i = k
      BY <2>3, <2>6, <3>1
    <3>2. CASE i # k
      <4>1. t[i] = ls[i] /\ ls[i].price # p /\ ls[i].price \in DOMAIN b /\ ls[i].queue = b[ls[i].price]
        BY <1>1, <1>2, <2>3, <3>2 DEF SameLevels
      <4> QED
        BY <2>6, <4>1
    <3> QED
      BY <3>1, <3>2
  <2>9. \A x \in DOMAIN c : \E i \in 1 .. Len(t) : t[i].price = x
    <3> SUFFICES ASSUME NEW x \in DOMAIN c PROVE \E i \in 1 .. Len(t) : t[i].price = x
      OBVIOUS
    <3>1. PICK i \in 1 .. Len(ls) : ls[i].price = x
      BY <1>1, <2>6, <2>7 DEF SameLevels
    <3>2. i \in 1 .. Len(t) /\ t[i].price = x
      BY <2>3, <2>4, <3>1
    <3> QED
      BY <3>2
  <2> QED
    BY <2>3, <2>5, <2>8, <2>9 DEF SameSide, SameLevels, t
<1>5. CASE q = << >>
  <2>1. t = RemoveAt(ls, k)
    BY <1>5 DEF Requeued
  <2>2. t \in Seq(Level) /\ CutAt(t, ls, k)
    BY <1>1, <2>1, RemoveAtIs
  <2> HIDE DEF t
  <2>3. /\ Len(t) = Len(ls) - 1 /\ Len(t) \in Nat
        /\ \A j \in 1 .. Len(t) : t[j] = IF j < k THEN ls[j] ELSE ls[j + 1]
    BY <2>2 DEF CutAt
  <2>4. ASSUME NEW j \in 1 .. Len(t)
        PROVE  \E i \in 1 .. Len(ls) : i # k /\ t[j] = ls[i] /\ i = IF j < k THEN j ELSE j + 1
    BY <1>1, <2>3
  <2>5. InOrderOfPrice(side, t)
    <3> SUFFICES ASSUME NEW i \in 1 .. Len(t), NEW j \in 1 .. Len(t), i < j
                 PROVE  Better(side, t[i].price, t[j].price)
      BY DEF InOrderOfPrice
    <3>1. PICK x \in 1 .. Len(ls) : t[i] = ls[x] /\ x = IF i < k THEN i ELSE i + 1
      BY <2>4
    <3>2. PICK y \in 1 .. Len(ls) : t[j] = ls[y] /\ y = IF j < k THEN j ELSE j + 1
      BY <2>4
    <3>3. x < y
      BY <1>1, <2>3, <3>1, <3>2
    <3> QED
      BY <1>1, <3>1, <3>2, <3>3 DEF InOrderOfPrice
  <2>6. DOMAIN c = DOMAIN b \ {p} /\ \A x \in DOMAIN c : x # p => c[x] = b[x]
    BY <1>3, <1>5 DEF LevelSet
  <2>7. ASSUME NEW j \in 1 .. Len(t) PROVE t[j].price \in DOMAIN c /\ t[j].queue = c[t[j].price]
    <3>1. PICK i \in 1 .. Len(ls) : i # k /\ t[j] = ls[i]
      BY <2>4
    <3>2. ls[i].price # p /\ ls[i].price \in DOMAIN b /\ ls[i].queue = b[ls[i].price]
      BY <1>1, <1>2, <3>1 DEF SameLevels
    <3> QED
      BY <2>6, <3>1, <3>2
  <2>8. ASSUME NEW x \in DOMAIN c PROVE \E j \in 1 .. Len(t) : t[j].price = x
    <3>1. PICK i \in 1 .. Len(ls) : ls[i].price = x
      BY <1>1, <2>6 DEF SameLevels
    <3>2. i # k
      BY <2>6, <3>1 DEF p
    <3>3. CASE i < k
      <4>1. i \in 1 .. Len(t) /\ t[i] = ls[i]
        BY <1>1, <2>3, <3>3
      <4> QED
        BY <3>1, <4>1
    <3>4. CASE ~(i < k)
      <4>1. i - 1 \in 1 .. Len(t) /\ ~(i - 1 < k) /\ (i - 1) + 1 = i
        BY <1>1, <2>3, <3>2, <3>4
      <4>2. t[i - 1] = ls[(i - 1) + 1]
        BY <2>3, <4>1
      <4>3. t[i - 1].price = x
        BY <3>1, <4>1, <4>2
      <4> QED
        BY <4>1, <4>3
    <3> QED
      BY <3>3, <3>4
  <2> QED
    BY <2>2, <2>5, <2>7, <2>8 DEF SameSide, SameLevels, t
<1> QED
  BY <1>4, <1>5

\* Only the last queue given to a level shows.
LEMMA RequeuedTwice ==
    ASSUME NEW ls \in Seq(Level), NEW k \in 1 .. Len(ls), NEW q \in Seq(RestingOrder), q # << >>,
           NEW r \in Seq(RestingOrder)
    PROVE  Requeued(Requeued(ls, k, q), k, r) = Requeued(ls, k, r)
<1> DEFINE t == Requeued(ls, k, q)
           p == ls[k].price
<1>1. t = [ls EXCEPT ![k] = [price |-> p, queue |-> q]]
  BY DEF Requeued
<1>2. p \in Price /\ Len(ls) \in Nat
  BY LevelPrice
<1>3. [price |-> p, queue |-> q] \in Level
  BY <1>2 DEF Level
<1>4. /\ t \in Seq(Level) /\ Len(t) = Len(ls) /\ t[k] = [price |-> p, queue |-> q]
      /\ \A i \in 1 .. Len(ls) : i # k => t[i] = ls[i]
  BY <1>1, <1>2, <1>3
<1> HIDE DEF t
<1>5. t[k].price = p
  BY <1>4
<1>6. CASE r = << >>
  <2> DEFINE x == RemoveAt(t, k)
             y == RemoveAt(ls, k)
  <2>1. x \in Seq(Level) /\ CutAt(x, t, k) /\ y \in Seq(Level) /\ CutAt(y, ls, k)
    BY <1>4, RemoveAtIs
  <2>2. Requeued(t, k, r) = x /\ Requeued(ls, k, r) = y
    BY <1>6 DEF Requeued
  <2> HIDE DEF x, y
  <2>3. Len(x) = Len(y) /\ Len(x) = Len(ls) - 1
    BY <1>4, <2>1 DEF CutAt
  <2>4. ASSUME NEW i \in 1 .. Len(x) PROVE x[i] = y[i]
    <3>1. CASE i < k
      BY <1>2, <1>4, <2>1, <2>3, <3>1 DEF CutAt
    <3>2. CASE ~(i < k)
      <4>1. x[i] = t[i + 1] /\ y[i] = ls[i + 1] /\ i + 1 \in 1 .. Len(ls) /\ i + 1 # k
        BY <1>2, <2>1, <2>3, <3>2 DEF CutAt
      <4> QED
        BY <1>4, <4>1
    <3> QED
      BY <3>1, <3>2
  <2>5. x = y
    BY <2>1, <2>3, <2>4, SeqEqual
  <2> QED
    BY <2>2, <2>5 DEF t
<1>7. CASE r # << >>
  <2> DEFINE l == [price |-> p, queue |-> r]
             x == [t EXCEPT ![k] = l]
             y == [ls EXCEPT ![k] = l]
  <2>1. Requeued(t, k, r) = x /\ Requeued(ls, k, r) = y
    BY <1>5, <1>7 DEF Requeued
  <2>2. l \in Level
    BY <1>2 DEF Level
  <2> HIDE DEF l
  <2>3. /\ x \in Seq(Level) /\ y \in Seq(Level) /\ Len(x) = Len(ls) /\ Len(y) = Len(ls)
        /\ \A i \in 1 .. Len(ls) : x[i] = y[i]
    BY <1>2, <1>4, <2>2
  <2> HIDE DEF x, y
  <2>4. x = y
    BY <2>3, SeqEqual
  <2> QED
    BY <2>1, <2>4 DEF t
<1> QED
  BY <1>6, <1>7

\* Where the level of a price is found, or goes.
LEMMA SlotFound ==
    ASSUME NEW ls \in Seq(Level), NEW side, NEW p
    PROVE  LET k == SlotOf(side, ls, p)
           IN  /\ k \in 1 .. Len(ls) + 1
               /\ \A j \in 1 .. k - 1 : Better(side, ls[j].price, p)
               /\ k <= Len(ls) => ~Better(side, ls[k].price, p)
<1> DEFINE B == {k \in 0 .. Len(ls) : k = Len(ls) \/ ~Better(side, ls[k + 1].price, p)}
<1>1. Len(ls) \in Nat
  OBVIOUS
<1>2. B \in SUBSET (0 .. Len(ls)) /\ Len(ls) \in B
  BY <1>1
<1> HIDE DEF B
<1>3. PICK h \in B : \A y \in B : h <= y
  BY <1>1, <1>2, Least
<1>4. h \in 0 .. Len(ls) /\ (h = Len(ls) \/ ~Better(side, ls[h + 1].price, p))
  BY <1>3 DEF B
<1>5. ASSUME NEW j \in 1 .. (h + 1) - 1 PROVE Better(side, ls[j].price, p)
  <2>1. j - 1 \in 0 .. Len(ls) /\ ~(h <= j - 1) /\ (j - 1) + 1 = j /\ j - 1 # Len(ls)
    BY <1>1, <1>4, <1>5
  <2>2. j - 1 \notin B
    BY <1>3, <2>1
  <2>3. Better(side, ls[(j - 1) + 1].price, p)
    BY <2>1, <2>2 DEF B
  <2> QED
    BY <2>1, <2>3
<1>6. /\ h + 1 \in 1 .. Len(ls) + 1
      /\ \A j \in 1 .. (h + 1) - 1 : Better(side, ls[j].price, p)
      /\ h + 1 <= Len(ls) => ~Better(side, ls[h + 1].price, p)
  BY <1>1, <1>4, <1>5
<1>7. \E k \in 1 .. Len(ls) + 1 : /\ \A j \in 1 .. k - 1 : Better(side, ls[j].price, p)
                                  /\ k <= Len(ls) => ~Better(side, ls[k].price, p)
  BY <1>6, Zenon
<1> QED
  BY <1>7, Zenon DEF SlotOf

\* t is sequence s with e put in at place k.
PutIn(t, s, k, e) ==
    /\ Len(t) = Len(s) + 1 /\ t[k] = e
    /\ \A j \in 1 .. Len(s) : IF j < k THEN t[j] = s[j] ELSE t[j + 1] = s[j]

\* InsertAt puts one element into a sequence.
LEMMA InsertAtIs ==
    ASSUME NEW S, NEW s \in Seq(S), NEW k \in 1 .. Len(s) + 1, NEW e \in S
    PROVE  InsertAt(s, k, e) \in Seq(S) /\ PutIn(InsertAt(s, k, e), s, k, e)
<1> DEFINE a == SubSeq(s, 1, k - 1)
           z == SubSeq(s, k, Len(s))
           ae == a \o <<e>>
           t == ae \o z
<1>1. Len(s) \in Nat /\ k \in Int
  OBVIOUS
<1>2. a \in Seq(S) /\ Len(a) = k - 1 /\ \A j \in 1 .. k - 1 : a[j] = s[j]
  BY <1>1, SubSeqProperties
<1>3. z \in Seq(S) /\ Len(z) = Len(s) - k + 1 /\ \A j \in 1 .. Len(s) - k + 1 : z[j] = s[k + j - 1]
  BY <1>1, SubSeqProperties
<1>4. InsertAt(s, k, e) = t
  BY DEF InsertAt
<1>5. <<e>> \in Seq(S) /\ Len(<<e>>) = 1 /\ <<e>>[1] = e
  OBVIOUS
<1> HIDE DEF a, z
<1>6. /\ ae \in Seq(S) /\ Len(ae) = Len(a) + Len(<<e>>)
      /\ \A j \in 1 .. Len(a) + Len(<<e>>) : ae[j] = IF j <= Len(a) THEN a[j] ELSE <<e>>[j - Len(a)]
  BY <1>2, <1>5, ConcatProperties, Zenon
<1>7. Len(ae) = k /\ ae[k] = e /\ \A j \in 1 .. k - 1 : ae[j] = s[j]
  <2>1. Len(ae) = k
    BY <1>1, <1>2, <1>5, <1>6
  <2>2. k \in 1 .. Len(a) + Len(<<e>>) /\ ~(k <= Len(a)) /\ k - Len(a) = 1
    BY <1>1, <1>2, <1>5
  <2>3. ae[k] = e
    BY <1>5, <1>6, <2>2
  <2>4. ASSUME NEW j \in 1 .. k - 1 PROVE ae[j] = s[j]
    <3>1. j \in 1 .. Len(a) + Len(<<e>>) /\ j <= Len(a)
      BY <1>1, <1>2, <1>5
    <3> QED
      BY <1>2, <1>6, <3>1
  <2> QED
    BY <2>1, <2>3, <2>4
<1> HIDE DEF ae
<1>8. /\ t \in Seq(S) /\ Len(t) = Len(ae) + Len(z)
      /\ \A j \in 1 .. Len(ae) + Len(z) : t[j] = IF j <= Len(ae) THEN ae[j] ELSE z[j - Len(ae)]
  <2>1. ae \in Seq(S) /\ z \in Seq(S)
    BY <1>3, <1>6
  <2>2. ae \o z \in Seq(S) /\ Len(ae \o z) = Len(ae) + Len(z)
    BY <2>1, ConcatProperties
  <2>3. \A j \in 1 .. Len(ae) + Len(z) : (ae \o z)[j] = IF j <= Len(ae) THEN ae[j] ELSE z[j - Len(ae)]
    BY <2>1, ConcatProperties
  <2> QED
    BY <2>2, <2>3
<1> HIDE DEF t
<1>9. Len(t) = Len(s) + 1
  BY <1>1, <1>3, <1>7, <1>8
<1>10. t[k] = e
  <2>1. k \in 1 .. Len(ae) + Len(z) /\ k <= Len(ae)
    BY <1>1, <1>3, <1>7
  <2> QED
    BY <1>7, <1>8, <2>1
<1>11. ASSUME NEW j \in 1 .. Len(s) PROVE IF j < k THEN t[j] = s[j] ELSE t[j + 1] = s[j]
  <2>1. CASE j < k
    <3>1. j \in 1 .. Len(ae) + Len(z) /\ j <= Len(ae) /\ j \in 1 .. k - 1
      BY <1>1, <1>3, <1>7, <2>1
    <3> QED
      BY <1>7, <1>8, <2>1, <3>1
  <2>2. CASE ~(j < k)
    <3>1. /\ j + 1 \in 1 .. Len(ae) + Len(z) /\ ~(j + 1 <= Len(ae))
          /\ (j + 1) - Len(ae) \in 1 .. Len(s) - k + 1 /\ k + ((j + 1) - Len(ae)) - 1 = j
      BY <1>1, <1>3, <1>7, <2>2
    <3>2. t[j + 1] = z[(j + 1) - Len(ae)] /\ z[(j + 1) - Len(ae)] = s[k + ((j + 1) - Len(ae)) - 1]
      BY <1>3, <1>8, <3>1
    <3> QED
      BY <2>2, <3>1, <3>2
  <2> QED
    BY <2>1, <2>2
<1> QED
  BY <1>4, <1>8, <1>9, <1>10, <1>11 DEF PutIn

\* An order placed in its level, on both sides.
LEMMA PlaceSame ==
    ASSUME NEW side, NEW ls, NEW b, SameSide(ls, b, side), NEW p \in Price, NEW r \in RestingOrder,
           NEW q \in Seq(RestingOrder), QueueAt(q, b, p),
           NEW t, Pushed(t, q, r), NEW c, LevelSet(c, b, p, t)
    PROVE  SameSide(Place(side, ls, p, r), c, side)
<1> DEFINE k == SlotOf(side, ls, p)
           new == Place(side, ls, p, r)
<1>1. ls \in Seq(Level) /\ InOrderOfPrice(side, ls) /\ SameLevels(ls, b) /\ Len(ls) \in Nat
  BY DEF SameSide
<1>2. /\ k \in 1 .. Len(ls) + 1
      /\ \A j \in 1 .. k - 1 : Better(side, ls[j].price, p)
      /\ k <= Len(ls) => ~Better(side, ls[k].price, p)
  BY <1>1, SlotFound
<1>3. new = IF k <= Len(ls) /\ ls[k].price = p THEN Requeued(ls, k, Append(ls[k].queue, r))
            ELSE InsertAt(ls, k, [price |-> p, queue |-> <<r>>])
  BY DEF Place
<1> HIDE DEF k, new
<1>4. p \in Nat /\ k \in Int /\ t \in Seq(RestingOrder) /\ t # << >>
  BY <1>2, BookAssumption, AppendProperties DEF BookAssumption, Pushed
<1>5. CASE k <= Len(ls) /\ ls[k].price = p
  <2>1. k \in 1 .. Len(ls)
    BY <1>1, <1>2, <1>5
  <2>2. p \in DOMAIN b /\ ls[k].queue = b[p]
    BY <1>1, <1>5, <2>1 DEF SameLevels
  <2>3. new = Requeued(ls, k, t)
    BY <1>3, <1>5, <2>2 DEF QueueAt, Pushed
  <2>4. LevelSet(c, b, ls[k].price, t)
    BY <1>5
  <2> QED
    BY <1>4, <2>1, <2>3, <2>4, RequeueSame DEF new
<1>6. CASE ~(k <= Len(ls) /\ ls[k].price = p)
  <2> DEFINE e == [price |-> p, queue |-> t]
  <2>1. ASSUME NEW i \in 1 .. Len(ls)
        PROVE  IF i < k THEN Better(side, ls[i].price, p) ELSE Better(side, p, ls[i].price)
    <3>1. CASE i < k
      BY <1>1, <1>2, <1>4, <3>1
    <3>2. CASE ~(i < k)
      <4>1. k \in 1 .. Len(ls) /\ k <= Len(ls) /\ (k = i \/ k < i)
        BY <1>1, <1>2, <1>4, <3>2
      <4>2. ls[k].price \in Nat /\ ls[i].price \in Nat
        BY <1>1, <4>1, LevelPrice
      <4>3. Better(side, p, ls[k].price)
        BY <1>2, <1>4, <1>6, <4>1, <4>2, BetterOrder
      <4>4. k < i => Better(side, ls[k].price, ls[i].price)
        BY <1>1, <4>1 DEF InOrderOfPrice
      <4>5. Better(side, p, ls[i].price)
        BY <1>4, <4>1, <4>2, <4>3, <4>4, BetterOrder
      <4> QED
        BY <3>2, <4>5
    <3> QED
      BY <3>1, <3>2
  <2>2. p \notin DOMAIN b
    <3> SUFFICES ASSUME p \in DOMAIN b PROVE FALSE
      OBVIOUS
    <3>1. PICK i \in 1 .. Len(ls) : ls[i].price = p
      BY <1>1 DEF SameLevels
    <3> QED
      BY <1>4, <2>1, <3>1, BetterOrder
  <2>3. t = <<r>>
    BY <2>2 DEF QueueAt, Pushed
  <2>4. new = InsertAt(ls, k, e)
    BY <1>3, <1>6, <2>3
  <2>5. e \in Level
    BY <1>4 DEF Level
  <2>6. e.price = p /\ e.queue = t
    OBVIOUS
  <2> HIDE DEF e
  <2>7. new \in Seq(Level) /\ PutIn(new, ls, k, e)
    BY <1>1, <1>2, <2>4, <2>5, InsertAtIs
  <2>8. /\ Len(new) = Len(ls) + 1 /\ new[k] = e
        /\ \A j \in 1 .. Len(ls) : IF j < k THEN new[j] = ls[j] ELSE new[j + 1] = ls[j]
    BY <2>7 DEF PutIn
  <2>9. ASSUME NEW i \in 1 .. Len(new), i # k
        PROVE  \E h \in 1 .. Len(ls) : new[i] = ls[h] /\ h = IF i < k THEN i ELSE i - 1
    <3>1. CASE i < k
      <4>1. i \in 1 .. Len(ls)
        BY <1>1, <1>2, <1>4, <2>8, <3>1
      <4> QED
        BY <2>8, <3>1, <4>1
    <3>2. CASE ~(i < k)
      <4>1. i - 1 \in 1 .. Len(ls) /\ ~(i - 1 < k) /\ (i - 1) + 1 = i
        BY <1>1, <1>2, <1>4, <2>8, <2>9, <3>2
      <4>2. new[(i - 1) + 1] = ls[i - 1]
        BY <2>8, <4>1
      <4>3. new[i] = ls[i - 1]
        BY <4>1, <4>2
      <4> QED
        BY <3>2, <4>1, <4>3
    <3> QED
      BY <3>1, <3>2
  <2>10. InOrderOfPrice(side, new)
    <3> SUFFICES ASSUME NEW i \in 1 .. Len(new), NEW j \in 1 .. Len(new), i < j
                 PROVE  Better(side, new[i].price, new[j].price)
      BY DEF InOrderOfPrice
    <3>0. i \in Int /\ j \in Int
      OBVIOUS
    <3>1. CASE i = k
      <4>1. PICK h \in 1 .. Len(ls) : new[j] = ls[h] /\ h = IF j < k THEN j ELSE j - 1
        BY <2>9, <3>0, <3>1
      <4>2. ~(h < k)
        BY <1>4, <3>0, <3>1, <4>1
      <4> QED
        BY <2>1, <2>6, <2>8, <3>1, <4>1, <4>2
    <3>2. CASE j = k
      <4>1. PICK h \in 1 .. Len(ls) : new[i] = ls[h] /\ h = IF i < k THEN i ELSE i - 1
        BY <2>9, <3>0, <3>2
      <4>2. h < k
        BY <1>4, <3>0, <3>2, <4>1
      <4> QED
        BY <2>1, <2>6, <2>8, <3>2, <4>1, <4>2
    <3>3. CASE i # k /\ j # k
      <4>1. PICK h \in 1 .. Len(ls) : new[i] = ls[h] /\ h = IF i < k THEN i ELSE i - 1
        BY <2>9, <3>3
      <4>2. PICK g \in 1 .. Len(ls) : new[j] = ls[g] /\ g = IF j < k THEN j ELSE j - 1
        BY <2>9, <3>3
      <4>3. h < g
        BY <1>4, <3>0, <3>3, <4>1, <4>2
      <4> QED
        BY <1>1, <4>1, <4>2, <4>3 DEF InOrderOfPrice
    <3> QED
      BY <3>1, <3>2, <3>3
  <2>11. DOMAIN c = DOMAIN b \cup {p} /\ c[p] = t /\ \A x \in DOMAIN c : x # p => c[x] = b[x]
    BY <1>4 DEF LevelSet
  <2>12. ASSUME NEW i \in 1 .. Len(new) PROVE new[i].price \in DOMAIN c /\ new[i].queue = c[new[i].price]
    <3>1. CASE i = k
      BY <2>6, <2>8, <2>11, <3>1
    <3>2. CASE i # k
      <4>1. PICK h \in 1 .. Len(ls) : new[i] = ls[h]
        BY <2>9, <3>2
      <4>2. ls[h].price \in DOMAIN b /\ ls[h].queue = b[ls[h].price] /\ ls[h].price # p
        BY <1>1, <2>2 DEF SameLevels
      <4> QED
        BY <2>11, <4>1, <4>2
    <3> QED
      BY <3>1, <3>2
  <2>13. ASSUME NEW x \in DOMAIN c PROVE \E i \in 1 .. Len(new) : new[i].price = x
    <3>1. CASE x = p
      <4>1. k \in 1 .. Len(new)
        BY <1>2, <2>8
      <4> QED
        BY <2>6, <2>8, <3>1, <4>1
    <3>2. CASE x # p
      <4>1. PICK h \in 1 .. Len(ls) : ls[h].price = x
        BY <1>1, <2>11, <3>2 DEF SameLevels
      <4>2. h \in 1 .. Len(new) /\ h + 1 \in 1 .. Len(new)
        BY <1>1, <2>8
      <4> QED
        BY <2>8, <4>1, <4>2
    <3> QED
      BY <3>1, <3>2
  <2> QED
    BY <2>7, <2>10, <2>12, <2>13 DEF SameSide, SameLevels, new
<1> QED
  BY <1>5, <1>6

-----------------------------------------------------------------------------
(* The nested loops of the engine follow the passes of the book *)

\* a stands on the run of the matching of o.
Leads(a, o) ==
    \E g : \E n \in 0 .. Cardinality(DOMAIN locations) : MatchRun(g, o) /\ a = g[n]

\* The run of the matching starts at its start.
LEMMA LeadsStart ==
    ASSUME InOrder, NEW o \in Order
    PROVE  Leads(MatchStart(o), o)
<1>1. Cardinality(DOMAIN locations) \in Nat
  BY FS_CardinalityType DEF InOrder, IsIndex
<1>2. PICK g : MatchRun(g, o)
  BY <1>1, MatchValue
<1>3. 0 \in 0 .. Cardinality(DOMAIN locations) /\ MatchStart(o) = g[0]
  BY <1>1, <1>2 DEF MatchRun
<1> QED
  BY <1>2, <1>3 DEF Leads

\* On the way the books and the index are in order.
LEMMA LeadsKeeps ==
    ASSUME InOrder, NEW o \in Order, NEW a, Leads(a, o)
    PROVE  Matching(a, o.side, levels[o.side])
<1>1. PICK g : \E n \in 0 .. Cardinality(DOMAIN locations) : MatchRun(g, o) /\ a = g[n]
  BY DEF Leads
<1>2. PICK n \in 0 .. Cardinality(DOMAIN locations) : MatchRun(g, o) /\ a = g[n]
  BY <1>1
<1> QED
  BY <1>2, RunProgress DEF Progress

\* A matching that is not settled has a pass to come.
LEMMA LeadsStep ==
    ASSUME InOrder, NEW o \in Order, NEW a, Leads(a, o), ~Settled(a, o)
    PROVE  Leads(MatchPass(a, o), o)
<1> DEFINE K == Cardinality(DOMAIN locations)
<1>1. PICK g : \E n \in 0 .. K : MatchRun(g, o) /\ a = g[n]
  BY DEF Leads
<1>2. PICK n \in 0 .. K : MatchRun(g, o) /\ a = g[n]
  BY <1>1
<1>3. K \in Nat
  BY FS_CardinalityType DEF InOrder, IsIndex
<1>4. Progress(a, o, n)
  BY <1>2, RunProgress
<1>5. Cardinality(DOMAIN a.locations) = K - n
  BY <1>4 DEF Progress
<1>6. PICK p \in DOMAIN a.book : TRUE
  BY DEF Settled
<1>7. /\ IsFiniteSet(DOMAIN a.locations) /\ IsBook(a.book)
      /\ Listed(a.book, Opposite(o.side), a.locations)
  BY <1>4 DEF Progress, Matching, IsIndex, SideOK
<1>8. a.book[p] \in Seq(RestingOrder) /\ a.book[p] # << >>
  BY <1>7 DEF IsBook
<1>9. 1 \in 1 .. Len(a.book[p])
  BY <1>8
<1>10. DOMAIN a.locations # {}
  BY <1>7, <1>9 DEF Listed
<1> HIDE DEF K
<1>11. K - n # 0
  BY <1>5, <1>7, <1>10, FS_EmptySet
<1>12. n + 1 \in 0 .. K /\ n + 1 \in 1 .. K /\ (n + 1) - 1 = n
  BY <1>2, <1>3, <1>11
<1>13. MatchPass(a, o) = g[n + 1]
  BY <1>2, <1>12 DEF MatchRun, K
<1> QED
  BY <1>2, <1>12, <1>13 DEF Leads, K

\* A matching that is settled is over.
LEMMA LeadsEnd ==
    ASSUME InOrder, NEW o \in Order, NEW a, Leads(a, o), Settled(a, o)
    PROVE  Match(o) = a
<1> DEFINE K == Cardinality(DOMAIN locations)
<1>1. PICK g : \E n \in 0 .. K : MatchRun(g, o) /\ a = g[n]
  BY DEF Leads
<1>2. PICK n \in 0 .. K : MatchRun(g, o) /\ a = g[n]
  BY <1>1
<1>3. K \in Nat
  BY FS_CardinalityType DEF InOrder, IsIndex
<1>4. \A i \in 1 .. K : g[i] = MatchPass(g[i - 1], o)
  BY <1>2 DEF MatchRun
<1>5. MatchPass(a, o) = a
  BY DEF Settled, MatchPass
<1> HIDE DEF K
<1> DEFINE B == {j \in 0 .. K : n <= j /\ g[j] # a}
<1>6. B = {}
  <2> SUFFICES ASSUME B # {} PROVE FALSE
    OBVIOUS
  <2>1. B \in SUBSET (0 .. K)
    OBVIOUS
  <2> HIDE DEF B
  <2>2. PICK j \in B : \A y \in B : j <= y
    BY <1>3, <2>1, Least
  <2>3. j \in 0 .. K /\ n <= j /\ g[j] # a
    BY <2>2 DEF B
  <2>4. j # n
    BY <1>2, <2>3
  <2>5. j - 1 \in 0 .. K /\ n <= j - 1 /\ ~(j <= j - 1) /\ j \in 1 .. K
    BY <1>2, <1>3, <2>3, <2>4
  <2>6. g[j - 1] = a
    BY <2>2, <2>5 DEF B
  <2> QED
    BY <1>4, <1>5, <2>3, <2>5, <2>6
<1>7. K \in 0 .. K /\ n <= K
  BY <1>2, <1>3
<1>8. g[K] = a
  BY <1>6, <1>7
<1> QED
  BY <1>2, <1>8 DEF MatchRun, K

\* What a fill leaves of a queue.
Rest(queue, remaining) ==
    LET left == Head(queue).qty - Min({remaining, Head(queue).qty})
    IN  IF left = 0 THEN Tail(queue) ELSE <<[Head(queue) EXCEPT !.qty = left]>> \o Tail(queue)

\* A fill leaves a queue, shorter by one order unless the taker is exhausted.
LEMMA RestIs ==
    ASSUME NEW queue \in Seq(RestingOrder), queue # << >>, NEW remaining \in Nat
    PROVE  LET n == Min({remaining, Head(queue).qty})
           IN  /\ Head(queue) \in RestingOrder /\ n \in Nat
               /\ (n = Head(queue).qty) = (Head(queue).qty - n = 0)
               /\ Rest(queue, remaining) \in Seq(RestingOrder)
               /\ remaining - n = 0 \/ Len(Rest(queue, remaining)) = Len(queue) - 1
<1> DEFINE front == Head(queue)
           n == Min({remaining, front.qty})
           left == front.qty - n
<1>1. /\ front = queue[1] /\ 1 \in 1 .. Len(queue)
      /\ Tail(queue) \in Seq(RestingOrder) /\ Len(Tail(queue)) = Len(queue) - 1
  OBVIOUS
<1>2. front \in RestingOrder /\ front.qty \in Nat
  <2>1. queue[1] \in RestingOrder
    BY <1>1
  <2>2. queue[1].qty \in Nat
    BY <2>1 DEF RestingOrder
  <2> QED
    BY <1>1, <2>1, <2>2
<1>3. n \in Nat /\ left \in Nat /\ (left # 0 => n = remaining) /\ (n = front.qty) = (left = 0)
  <2> HIDE DEF front
  <2> QED
    BY <1>2, MinOfTwo
<1>4. Rest(queue, remaining) = IF left = 0 THEN Tail(queue)
                               ELSE <<[front EXCEPT !.qty = left]>> \o Tail(queue)
  BY DEF Rest
<1> HIDE DEF front, n, left
<1>5. CASE left = 0
  BY <1>1, <1>2, <1>3, <1>4, <1>5 DEF front, n, left
<1>6. CASE left # 0
  <2> DEFINE r == [front EXCEPT !.qty = left]
  <2>1. r \in RestingOrder
    BY <1>2, <1>3, <1>6 DEF RestingOrder
  <2> HIDE DEF r
  <2>2. <<r>> \in Seq(RestingOrder)
    BY <2>1
  <2>3. <<r>> \o Tail(queue) \in Seq(RestingOrder)
    BY <1>1, <2>2, ConcatProperties
  <2>4. Rest(queue, remaining) \in Seq(RestingOrder)
    BY <1>4, <1>6, <2>3 DEF r
  <2>5. remaining - n = 0
    BY <1>3, <1>6
  <2> QED
    BY <1>2, <1>3, <1>6, <2>4, <2>5 DEF front, n, left
<1> QED
  BY <1>5, <1>6

\* The inner loop on the best level of ls: m and the book's a hold the same.
InnerSame(m, ls, a, side) ==
    /\ m.index = a.locations /\ m.remaining = a.remaining /\ m.trades = a.fills
    /\ m.queue \in Seq(RestingOrder)
    /\ SameSide(Requeued(ls, 1, m.queue), a.book, side)

\* A pass of the inner loop is a pass of the book.
LEMMA ServeMakerSame ==
    ASSUME InOrder, NEW o \in Order, NEW ls \in Seq(Level), 1 \in 1 .. Len(ls),
           ~Excluded(o, ls[1].price), NEW m, NEW a, InnerSame(m, ls, a, Opposite(o.side)),
           Leads(a, o), m.remaining # 0, m.queue # << >>
    PROVE  \E c : LET x == ServeMaker(m, o, ls[1].price)
                  IN  /\ InnerSame(x, ls, c, Opposite(o.side)) /\ Leads(c, o)
                      /\ x.remaining = 0 \/ Len(x.queue) = Len(m.queue) - 1
<1> DEFINE side == Opposite(o.side)
           p == ls[1].price
           x == ServeMaker(m, o, p)
           t == Requeued(ls, 1, m.queue)
           queue == m.queue
           front == Head(queue)
           n == Min({m.remaining, front.qty})
           rest == Rest(queue, m.remaining)
           c == FillFront(a, o, p)
<1>1. /\ m.index = a.locations /\ m.remaining = a.remaining /\ m.trades = a.fills
      /\ queue \in Seq(RestingOrder) /\ SameSide(t, a.book, side)
  BY DEF InnerSame
<1>2. /\ IsIndex(a.locations) /\ a.remaining \in Nat /\ SideOK(a.book, side, a.locations)
      /\ IsBook(a.book)
  BY LeadsKeeps DEF Matching, SideOK
<1>3. side \in Side
  BY DEF Opposite, Side
<1>4. p \in Price
  BY LevelPrice
<1>5. /\ t \in Seq(Level) /\ Len(t) = Len(ls) /\ t[1] = [price |-> p, queue |-> queue]
  <2>1. t = [ls EXCEPT ![1] = [price |-> p, queue |-> queue]]
    BY DEF Requeued
  <2>2. [price |-> p, queue |-> queue] \in Level
    BY <1>1, <1>4 DEF Level
  <2> QED
    BY <2>1, <2>2
<1> HIDE DEF t, p, side
<1>6. t[1].price = p /\ t[1].queue = queue /\ 1 \in 1 .. Len(t) /\ t # << >>
  BY <1>5
<1>7. p \in DOMAIN a.book /\ a.book[p] = queue
  <2>1. t[1].price \in DOMAIN a.book /\ t[1].queue = a.book[t[1].price]
    BY <1>1, <1>6 DEF SameSide, SameLevels
  <2> QED
    BY <1>6, <2>1
<1>8. p = Best(side, a.book) /\ DOMAIN a.book # {}
  BY <1>1, <1>2, <1>3, <1>6, BestFirst
<1>9. ~Settled(a, o) /\ MatchPass(a, o) = c
  <2>1. ~Excluded(o, p)
    BY DEF p
  <2> QED
    BY <1>1, <1>8, <2>1 DEF Settled, MatchPass, side
<1>10. Leads(c, o)
  BY <1>9, LeadsStep
<1>11. /\ front \in RestingOrder /\ n \in Nat /\ (n = front.qty) = (front.qty - n = 0)
       /\ rest \in Seq(RestingOrder)
       /\ m.remaining - n = 0 \/ Len(rest) = Len(queue) - 1
  BY <1>1, <1>2, RestIs
<1>12. /\ c.book = SetLevel(a.book, p, rest)
       /\ c.locations = IndexAfter(a.locations, front.id, front.qty - n)
       /\ c.remaining = a.remaining - n
       /\ c.fills = Append(a.fills, [maker |-> front.id, taker |-> o.id, price |-> p,
                                     qty |-> n, side |-> o.side])
  BY <1>1, <1>7 DEF FillFront, Rest
<1>13. /\ x.queue = rest
       /\ x.index = IndexAfter(m.index, front.id, front.qty - n)
       /\ x.remaining = m.remaining - n
       /\ x.trades = Append(m.trades, [maker |-> front.id, taker |-> o.id, price |-> p,
                                       qty |-> n, side |-> o.side])
  BY <1>11 DEF ServeMaker, Rest, IndexAfter
<1>14. SameSide(Requeued(ls, 1, rest), c.book, side)
  <2>1. LevelSet(c.book, a.book, t[1].price, rest)
    BY <1>6, <1>12, SetLevelIs
  <2> HIDE DEF rest, c
  <2>2. SameSide(Requeued(t, 1, rest), c.book, side)
    BY <1>1, <1>6, <1>11, <2>1, RequeueSame
  <2>3. Requeued(t, 1, rest) = Requeued(ls, 1, rest)
    BY <1>1, <1>11, RequeuedTwice DEF t
  <2> QED
    BY <2>2, <2>3
<1>15. InnerSame(x, ls, c, side) /\ (x.remaining = 0 \/ Len(x.queue) = Len(m.queue) - 1)
  <2> HIDE DEF x, c, rest, n, front
  <2> QED
    BY <1>1, <1>11, <1>12, <1>13, <1>14 DEF InnerSame
<1> QED
  BY <1>10, <1>15 DEF side, p

\* Where the inner loop stands after n of its at most L passes.
InnerAt(x, ls, o, L, n) ==
    \E a : /\ InnerSame(x, ls, a, Opposite(o.side)) /\ Leads(a, o)
           /\ x.remaining = 0 \/ Len(x.queue) = L - n

\* The recursive function of the inner loop.
LEMMA QueueValue ==
    ASSUME NEW t, NEW o, NEW level, Len(level.queue) \in Nat
    PROVE  \E g : /\ ServeQueue(t, o, level) = g[Len(level.queue)]
                  /\ PassSteps(g, "maker", QueueStart(t, level), o, level.price, Len(level.queue))
<1> DEFINE L == Len(level.queue)
           x == QueueStart(t, level)
           p == level.price
           g == CHOOSE g : g = [n \in 0 .. L |-> IF n = 0 THEN x ELSE ServeMaker(g[n - 1], o, p)]
<1>1. \A y : LoopPass("maker", y, o, p) = ServeMaker(y, o, p)
  BY DEF LoopPass
<1>2. ServeQueue(t, o, level) = g[L]
  BY Zenon DEF ServeQueue
<1> HIDE DEF x, p, L
<1>3. L \in Nat
  BY DEF L
<1>4. PICK h : IsPasses(h, "maker", x, o, p, L)
  BY <1>3, PassesExist
<1>5. h = [n \in 0 .. L |-> IF n = 0 THEN x ELSE ServeMaker(h[n - 1], o, p)]
  BY <1>1, <1>4 DEF IsPasses
<1>6. g = [n \in 0 .. L |-> IF n = 0 THEN x ELSE ServeMaker(g[n - 1], o, p)]
  BY <1>5, Zenon
<1> HIDE DEF g
<1>7. IsPasses(g, "maker", x, o, p, L)
  BY <1>1, <1>6 DEF IsPasses
<1>8. PassSteps(g, "maker", x, o, p, L)
  BY <1>3, <1>7, PassesSteps
<1> QED
  BY <1>2, <1>8 DEF x, p, L

\* The inner loop ends when nothing remains or the queue is empty, and has done what
\* some passes of the book do.
LEMMA ServeQueueSame ==
    ASSUME InOrder, NEW o \in Order, NEW ls \in Seq(Level), 1 \in 1 .. Len(ls),
           ~Excluded(o, ls[1].price), NEW t,
           NEW a, InnerSame(QueueStart(t, ls[1]), ls, a, Opposite(o.side)), Leads(a, o)
    PROVE  \E c : LET m == ServeQueue(t, o, ls[1])
                  IN  /\ InnerSame(m, ls, c, Opposite(o.side)) /\ Leads(c, o)
                      /\ m.remaining = 0 \/ m.queue = << >>
<1> DEFINE level == ls[1]
           L == Len(level.queue)
           x == QueueStart(t, level)
<1>1. level.queue \in Seq(RestingOrder) /\ L \in Nat
  <2>1. level.queue \in Seq(RestingOrder)
    BY LevelPrice
  <2> QED
    BY <2>1
<1>2. PICK g : ServeQueue(t, o, level) = g[L] /\ PassSteps(g, "maker", x, o, level.price, L)
  BY <1>1, QueueValue
<1>3. g[0] = x /\ \A n \in 1 .. L : g[n] = ServeMaker(g[n - 1], o, level.price)
  BY <1>2 DEF PassSteps, LoopPass
<1>4. InnerAt(g[0], ls, o, L, 0)
  <2>1. x.queue = level.queue
    BY DEF QueueStart
  <2>2. Len(x.queue) = L - 0
    BY <1>1, <2>1
  <2> HIDE DEF x
  <2> QED
    BY <1>3, <2>2 DEF InnerAt, x
<1> DEFINE B == {n \in 0 .. L : ~InnerAt(g[n], ls, o, L, n)}
<1> HIDE DEF L, x
<1>5. B = {}
  <2> SUFFICES ASSUME B # {} PROVE FALSE
    OBVIOUS
  <2>1. B \in SUBSET (0 .. L) /\ L \in Nat
    BY <1>1
  <2> HIDE DEF B
  <2>2. PICK n \in B : \A y \in B : n <= y
    BY <2>1, Least
  <2>3. n \in 0 .. L /\ ~InnerAt(g[n], ls, o, L, n)
    BY <2>2 DEF B
  <2>4. n # 0
    BY <1>4, <2>3
  <2>5. n - 1 \in 0 .. L /\ ~(n <= n - 1) /\ n \in 1 .. L
    BY <2>1, <2>3, <2>4
  <2> DEFINE m == g[n - 1]
  <2>6. InnerAt(m, ls, o, L, n - 1)
    BY <2>2, <2>5 DEF B
  <2>7. PICK b : /\ InnerSame(m, ls, b, Opposite(o.side)) /\ Leads(b, o)
                 /\ m.remaining = 0 \/ Len(m.queue) = L - (n - 1)
    BY <2>6 DEF InnerAt
  <2>8. g[n] = ServeMaker(m, o, level.price)
    BY <1>3, <2>5
  <2> HIDE DEF m
  <2>9. CASE m.remaining = 0
    <3>1. g[n] = m
      BY <2>8, <2>9 DEF ServeMaker
    <3> QED
      BY <2>3, <2>7, <2>9, <3>1 DEF InnerAt
  <2>10. CASE m.remaining # 0
    <3>1. m.queue \in Seq(RestingOrder) /\ Len(m.queue) = L - (n - 1)
      BY <2>7, <2>10 DEF InnerSame
    <3>2. m.queue # << >>
      BY <2>1, <2>5, <3>1
    <3>3. PICK c : /\ InnerSame(g[n], ls, c, Opposite(o.side)) /\ Leads(c, o)
                   /\ g[n].remaining = 0 \/ Len(g[n].queue) = Len(m.queue) - 1
      BY <2>7, <2>8, <2>10, <3>2, ServeMakerSame
    <3>4. g[n].remaining = 0 \/ Len(g[n].queue) = L - n
      BY <2>1, <2>5, <3>1, <3>3
    <3> QED
      BY <2>3, <3>3, <3>4 DEF InnerAt
  <2> QED
    BY <2>9, <2>10
<1>6. L \in Nat /\ L \in 0 .. L
  BY <1>1 DEF L
<1>7. InnerAt(g[L], ls, o, L, L)
  BY <1>5, <1>6
<1>8. PICK c : /\ InnerSame(g[L], ls, c, Opposite(o.side)) /\ Leads(c, o)
               /\ g[L].remaining = 0 \/ Len(g[L].queue) = L - L
  BY <1>7 DEF InnerAt
<1>9. g[L].queue \in Seq(RestingOrder)
  BY <1>8 DEF InnerSame
<1>10. g[L].remaining = 0 \/ g[L].queue = << >>
  BY <1>6, <1>8, <1>9
<1> QED
  BY <1>2, <1>8, <1>10

\* The outer loop: t and the book's a hold the same.
OuterSame(t, a, side) ==
    /\ t.index = a.locations /\ t.remaining = a.remaining /\ t.trades = a.fills
    /\ SameSide(t.levels, a.book, side)

\* The outer loop has come to its end.
Stopped(t, o) ==
    t.remaining = 0 \/ t.levels = << >> \/ Excluded(o, Head(t.levels).price)

\* A pass of the outer loop is some passes of the book.
LEMMA ServeLevelSame ==
    ASSUME InOrder, NEW o \in Order, NEW t, NEW a, OuterSame(t, a, Opposite(o.side)),
           Leads(a, o), ~Stopped(t, o)
    PROVE  \E c : LET x == ServeLevel(t, o)
                  IN  /\ OuterSame(x, c, Opposite(o.side)) /\ Leads(c, o)
                      /\ x.remaining = 0 \/ Len(x.levels) = Len(t.levels) - 1
<1> DEFINE side == Opposite(o.side)
           ls == t.levels
           x == ServeLevel(t, o)
           m == ServeQueue(t, o, ls[1])
           p == ls[1].price
           q == ls[1].queue
<1>1. /\ t.index = a.locations /\ t.remaining = a.remaining /\ t.trades = a.fills
      /\ SameSide(ls, a.book, side) /\ ls \in Seq(Level)
  BY DEF OuterSame, SameSide
<1>2. 1 \in 1 .. Len(ls) /\ Head(ls) = ls[1] /\ ls # << >>
  BY <1>1 DEF Stopped
<1>3. x = [levels |-> Requeued(ls, 1, m.queue), index |-> m.index,
           remaining |-> m.remaining, trades |-> m.trades]
  BY <1>2 DEF ServeLevel, Stopped
<1>4. ~Excluded(o, ls[1].price)
  BY <1>2 DEF Stopped
<1>5. q \in Seq(RestingOrder)
  BY <1>1, <1>2, LevelPrice
<1>6. IsBook(a.book)
  BY LeadsKeeps DEF Matching, SideOK
<1>7. p \in DOMAIN a.book /\ q = a.book[p] /\ q # << >>
  <2>1. p \in DOMAIN a.book /\ q = a.book[p]
    BY <1>1, <1>2 DEF SameSide, SameLevels
  <2> HIDE DEF p, q
  <2> QED
    BY <1>6, <2>1 DEF IsBook
<1>8. LevelSet(a.book, a.book, p, q)
  BY <1>7 DEF LevelSet
<1>9. SameSide(Requeued(ls, 1, q), a.book, side)
  <2> HIDE DEF ls, q, side
  <2> QED
    BY <1>1, <1>2, <1>5, <1>8, RequeueSame
<1>10. InnerSame(QueueStart(t, ls[1]), ls, a, side)
  BY <1>1, <1>5, <1>9 DEF InnerSame, QueueStart
<1>11. PICK c : /\ InnerSame(m, ls, c, side) /\ Leads(c, o)
                /\ m.remaining = 0 \/ m.queue = << >>
  BY <1>1, <1>2, <1>4, <1>10, ServeQueueSame
<1> HIDE DEF m
<1>12. OuterSame(x, c, side)
  BY <1>3, <1>11 DEF InnerSame, OuterSame
<1>13. x.remaining = 0 \/ Len(x.levels) = Len(ls) - 1
  <2>1. CASE m.remaining = 0
    BY <1>3, <2>1
  <2>2. CASE m.queue = << >>
    <3>1. x.levels = RemoveAt(ls, 1)
      BY <1>3, <2>2 DEF Requeued
    <3> HIDE DEF x, ls
    <3>2. CutAt(RemoveAt(ls, 1), ls, 1)
      BY <1>1, <1>2, RemoveAtIs
    <3> QED
      BY <3>1, <3>2 DEF CutAt
  <2> QED
    BY <1>11, <2>1, <2>2
<1> QED
  BY <1>11, <1>12, <1>13

\* Where the outer loop stands after n of its at most L passes.
OuterAt(t, o, L, n) ==
    \E a : /\ OuterSame(t, a, Opposite(o.side)) /\ Leads(a, o)
           /\ Stopped(t, o) \/ Len(t.levels) = L - n

\* The recursive function of the outer loop.
LEMMA AllValue ==
    ASSUME NEW o, NEW L, L = Len(sides[Opposite(o.side)]), L \in Nat
    PROVE  \E g : ServeAll(o) = g[L] /\ PassSteps(g, "level", EngineStart(o), o, 0, L)
<1> DEFINE x == EngineStart(o)
           g == CHOOSE g : g = [n \in 0 .. Len(sides[Opposite(o.side)]) |->
                                   IF n = 0 THEN x ELSE ServeLevel(g[n - 1], o)]
<1>1. \A y : LoopPass("level", y, o, 0) = ServeLevel(y, o)
  BY DEF LoopPass
<1>2. ServeAll(o) = g[L]
  BY Zenon DEF ServeAll
<1> HIDE DEF x
<1>3. PICK h : IsPasses(h, "level", x, o, 0, L)
  BY PassesExist
<1>4. h = [n \in 0 .. L |-> IF n = 0 THEN x ELSE ServeLevel(h[n - 1], o)]
  BY <1>1, <1>3 DEF IsPasses
<1>5. g = [n \in 0 .. L |-> IF n = 0 THEN x ELSE ServeLevel(g[n - 1], o)]
  BY <1>4, Zenon
<1> HIDE DEF g
<1>6. IsPasses(g, "level", x, o, 0, L)
  BY <1>1, <1>5 DEF IsPasses
<1>7. PassSteps(g, "level", x, o, 0, L)
  BY <1>6, PassesSteps
<1> QED
  BY <1>2, <1>7 DEF x

\* The two books hold the same.
Same ==
    /\ trades = fills /\ index = locations /\ DOMAIN sides = Side
    /\ \A side \in Side : SameSide(sides[side], levels[side], side)

\* The two matchings of an order end with the same.
LEMMA ServeAllSame ==
    ASSUME InOrder, Same, NEW o \in Order
    PROVE  OuterSame(ServeAll(o), Match(o), Opposite(o.side))
<1> DEFINE side == Opposite(o.side)
           ls == sides[side]
           L == Len(ls)
<1>1. side \in Side
  BY DEF Opposite, Side
<1>2. SameSide(ls, levels[side], side) /\ ls \in Seq(Level) /\ L \in Nat
  BY <1>1 DEF Same, SameSide
<1>3. PICK g : ServeAll(o) = g[L] /\ PassSteps(g, "level", EngineStart(o), o, 0, L)
  BY <1>2, AllValue
<1>4. g[0] = EngineStart(o) /\ \A n \in 1 .. L : g[n] = ServeLevel(g[n - 1], o)
  BY <1>3 DEF PassSteps, LoopPass
<1>5. OuterAt(g[0], o, L, 0)
  <2>1. OuterSame(g[0], MatchStart(o), side)
    BY <1>2, <1>4 DEF OuterSame, EngineStart, MatchStart, Same
  <2>2. Len(g[0].levels) = L - 0
    BY <1>2, <1>4 DEF EngineStart
  <2>3. Leads(MatchStart(o), o)
    BY LeadsStart
  <2> QED
    BY <2>1, <2>2, <2>3 DEF OuterAt
<1> DEFINE B == {n \in 0 .. L : ~OuterAt(g[n], o, L, n)}
<1> HIDE DEF L
<1>6. B = {}
  <2> SUFFICES ASSUME B # {} PROVE FALSE
    OBVIOUS
  <2>1. B \in SUBSET (0 .. L) /\ L \in Nat
    BY <1>2
  <2> HIDE DEF B
  <2>2. PICK n \in B : \A y \in B : n <= y
    BY <2>1, Least
  <2>3. n \in 0 .. L /\ ~OuterAt(g[n], o, L, n)
    BY <2>2 DEF B
  <2>4. n # 0
    BY <1>5, <2>3
  <2>5. n - 1 \in 0 .. L /\ ~(n <= n - 1) /\ n \in 1 .. L
    BY <2>1, <2>3, <2>4
  <2> DEFINE t == g[n - 1]
  <2>6. OuterAt(t, o, L, n - 1)
    BY <2>2, <2>5 DEF B
  <2>7. PICK a : /\ OuterSame(t, a, side) /\ Leads(a, o)
                 /\ Stopped(t, o) \/ Len(t.levels) = L - (n - 1)
    BY <2>6 DEF OuterAt
  <2>8. g[n] = ServeLevel(t, o)
    BY <1>4, <2>5
  <2> HIDE DEF t
  <2>9. CASE Stopped(t, o)
    <3>1. g[n] = t
      BY <2>8, <2>9 DEF ServeLevel, Stopped
    <3> QED
      BY <2>3, <2>7, <2>9, <3>1 DEF OuterAt
  <2>10. CASE ~Stopped(t, o)
    <3>1. PICK c : /\ OuterSame(g[n], c, side) /\ Leads(c, o)
                   /\ g[n].remaining = 0 \/ Len(g[n].levels) = Len(t.levels) - 1
      BY <2>7, <2>8, <2>10, ServeLevelSame
    <3>2. Stopped(g[n], o) \/ Len(g[n].levels) = L - n
      <4>1. CASE g[n].remaining = 0
        BY <4>1 DEF Stopped
      <4>2. CASE Len(g[n].levels) = Len(t.levels) - 1
        <5>1. Len(t.levels) = L - (n - 1) /\ n \in Int
          BY <2>5, <2>7, <2>10
        <5> QED
          BY <2>1, <4>2, <5>1
      <4> QED
        BY <3>1, <4>1, <4>2
    <3> QED
      BY <2>3, <3>1, <3>2 DEF OuterAt
  <2> QED
    BY <2>9, <2>10
<1> DEFINE t == g[L]
<1>7. L \in Nat /\ L \in 0 .. L
  BY <1>2 DEF L
<1>8. OuterAt(t, o, L, L)
  BY <1>6, <1>7
<1>9. PICK a : OuterSame(t, a, side) /\ Leads(a, o) /\ (Stopped(t, o) \/ Len(t.levels) = L - L)
  BY <1>8 DEF OuterAt
<1> HIDE DEF t
<1>10. IsBook(a.book)
  BY <1>9, LeadsKeeps DEF Matching, SideOK
<1>11. SameSide(t.levels, a.book, side) /\ t.levels \in Seq(Level) /\ t.remaining = a.remaining
  BY <1>9 DEF OuterSame, SameSide
<1>12. /\ (t.levels = << >>) = (DOMAIN a.book = {})
       /\ t.levels # << >> => t.levels[1].price = Best(side, a.book)
  <2> DEFINE now == t.levels
             b == a.book
  <2>1. IsBook(b) /\ SameSide(now, b, side)
    BY <1>10, <1>11
  <2> HIDE DEF side, now, b
  <2>2. (now = << >>) = (DOMAIN b = {}) /\ (now # << >> => now[1].price = Best(side, b))
    BY <1>1, <2>1, BestFirst
  <2> QED
    BY <2>2 DEF now, b
<1>13. Stopped(t, o)
  <2> SUFFICES ASSUME Len(t.levels) = L - L PROVE t.levels = << >>
    BY <1>9 DEF Stopped
  <2> QED
    BY <1>7, <1>11
<1>14. Settled(a, o)
  <2>1. CASE t.levels = << >>
    BY <1>12, <2>1 DEF Settled
  <2>2. CASE t.levels # << >>
    <3>1. Head(t.levels).price = Best(side, a.book)
      BY <1>11, <1>12, <2>2
    <3> QED
      BY <1>11, <1>13, <2>2, <3>1 DEF Stopped, Settled, side
  <2> QED
    BY <2>1, <2>2
<1>15. Match(o) = a
  BY <1>9, <1>14, LeadsEnd
<1> QED
  BY <1>3, <1>9, <1>15 DEF t

\* A cancel in both books.
LEMMA CancelSame ==
    ASSUME BookInv, Same, NEW id \in Ids, Cancel(id), cancel(id)
    PROVE  Same'
<1> DEFINE at == locations[id]
           side == at.side
           p == at.price
           b == levels[side]
           q == b[p]
           r == RemoveAt(q, PlaceOf(q, id))
           c == SetLevel(b, p, r)
           ls == sides[side]
           k == LevelOf(ls, p)
<1>1. id \in DOMAIN locations /\ index = locations /\ trades = fills /\ DOMAIN sides = Side
  BY DEF Cancel, Same
<1>2. /\ levels' = [levels EXCEPT ![side] = c]
      /\ locations' = Without(locations, id) /\ fills' = fills
  BY DEF Cancel
<1>3. /\ sides' = [sides EXCEPT ![side] =
              Requeued(ls, k, RemoveAt(ls[k].queue, PlaceOf(ls[k].queue, id)))]
      /\ index' = Without(index, id) /\ trades' = trades
  BY <1>1 DEF cancel
<1>4. side \in Side /\ DOMAIN levels = Side
  BY <1>1 DEF BookInv, InOrder, IsIndex
<1>5. SideOK(b, side, locations) /\ SameSide(ls, b, side) /\ ls \in Seq(Level)
  BY <1>4 DEF BookInv, InOrder, Same, SameSide
<1>6. p \in DOMAIN b /\ \E j \in 1 .. Len(q) : q[j].id = id
  BY <1>1, <1>5 DEF SideOK, Found
<1>7. q \in Seq(RestingOrder)
  BY <1>5, <1>6 DEF SideOK, IsBook
<1>8. r \in Seq(RestingOrder)
  <2>1. DOMAIN q = 1 .. Len(q)
    BY <1>7
  <2>2. \E j \in DOMAIN q : q[j].id = id
    BY <1>6, <2>1
  <2>3. PlaceOf(q, id) \in DOMAIN q
    BY <2>2, Zenon DEF PlaceOf
  <2> HIDE DEF q
  <2> QED
    BY <1>7, <2>1, <2>3, RemoveAtIs
<1>9. k \in 1 .. Len(ls) /\ ls[k].price = p
  <2>1. DOMAIN ls = 1 .. Len(ls)
    BY <1>5
  <2>2. \E j \in DOMAIN ls : ls[j].price = p
    BY <1>5, <1>6, <2>1 DEF SameSide, SameLevels
  <2>3. k \in DOMAIN ls /\ ls[k].price = p
    BY <2>2, Zenon DEF LevelOf
  <2> QED
    BY <2>1, <2>3
<1> HIDE DEF k
<1>10. ls[k].queue = q
  BY <1>5, <1>9 DEF SameSide, SameLevels
<1>11. sides' = [sides EXCEPT ![side] = Requeued(ls, k, r)]
  BY <1>3, <1>10
<1>12. LevelSet(c, b, ls[k].price, r)
  BY <1>9, SetLevelIs
<1> HIDE DEF c, r
<1>13. SameSide(Requeued(ls, k, r), c, side)
  <2> HIDE DEF ls, b, side
  <2> QED
    BY <1>5, <1>8, <1>9, <1>12, RequeueSame
<1>14. ASSUME NEW s \in Side PROVE SameSide(sides'[s], levels'[s], s)
  <2>1. CASE s = side
    <3>1. sides'[s] = Requeued(ls, k, r) /\ levels'[s] = c
      BY <1>1, <1>2, <1>4, <1>11, <2>1
    <3> QED
      BY <1>13, <2>1, <3>1
  <2>2. CASE s # side
    <3>1. sides'[s] = sides[s] /\ levels'[s] = levels[s]
      BY <1>1, <1>2, <1>4, <1>11, <2>2
    <3> QED
      BY <3>1 DEF Same
  <2> QED
    BY <2>1, <2>2
<1>15. trades' = fills' /\ index' = locations' /\ DOMAIN sides' = Side
  BY <1>1, <1>2, <1>3
<1> QED
  BY <1>14, <1>15 DEF Same

\* An order in both books.
LEMMA AddOrderSame ==
    ASSUME BookInv, Same, NEW o \in Order, AddOrder(o), add_order(o)
    PROVE  Same'
<1> DEFINE m == Match(o)
           t == ServeAll(o)
           other == Opposite(o.side)
           places == m.remaining > 0 /\ o.type = "Limit"
           own == levels[o.side]
           queue == IF o.price \in DOMAIN own THEN own[o.price] ELSE << >>
           r == [id |-> o.id, qty |-> m.remaining]
           end == Append(queue, r)
           c == SetLevel(own, o.price, end)
           ls == sides[o.side]
<1>1. OuterSame(t, m, other)
  BY ServeAllSame DEF BookInv
<1>2. /\ t.index = m.locations /\ t.remaining = m.remaining /\ t.trades = m.fills
      /\ SameSide(t.levels, m.book, other)
  BY <1>1 DEF OuterSame
<1>3. fills' = m.fills /\ trades' = t.trades
  BY DEF AddOrder, add_order
<1>4. places => /\ levels' = [levels EXCEPT ![other] = m.book, ![o.side] = SetLevel(@, o.price, PushBack(queue, r))]
                /\ locations' = [id \in DOMAIN m.locations \cup {o.id} |->
                      IF id = o.id THEN [side |-> o.side, price |-> o.price] ELSE m.locations[id]]
  BY DEF AddOrder
<1>5. ~places => levels' = [levels EXCEPT ![other] = m.book] /\ locations' = m.locations
  BY DEF AddOrder
<1>6. places => /\ sides' = [sides EXCEPT ![other] = t.levels, ![o.side] = Place(o.side, @, o.price, r)]
                /\ index' = [id \in DOMAIN t.index \cup {o.id} |->
                      IF id = o.id THEN [side |-> o.side, price |-> o.price] ELSE t.index[id]]
  BY <1>2 DEF add_order
<1>7. ~places => sides' = [sides EXCEPT ![other] = t.levels, ![o.side] = @] /\ index' = t.index
  BY <1>2 DEF add_order
<1>8. /\ o.side \in Side /\ other \in Side /\ o.side # other
      /\ DOMAIN levels = Side /\ DOMAIN sides = Side
      /\ o.id \in Ids /\ o.price \in Price /\ \A side \in Side : side = o.side \/ side = other
  BY DEF Order, Side, Opposite, BookInv, Same
<1>9. SideOK(own, o.side, locations) /\ SameSide(ls, own, o.side)
  BY <1>8 DEF BookInv, InOrder, Same
<1>10. m.remaining \in Nat
  BY MatchSettles DEF Matching, BookInv
<1>11. trades' = fills' /\ index' = locations'
  <2> HIDE DEF m, t, places
  <2> QED
    BY <1>2, <1>3, <1>4, <1>5, <1>6, <1>7
<1> HIDE DEF m, t, other
<1>12. CASE ~places
  <2>1. /\ levels'[other] = m.book /\ levels'[o.side] = own
        /\ sides'[other] = t.levels /\ sides'[o.side] = ls /\ DOMAIN sides' = Side
    BY <1>5, <1>7, <1>8, <1>12
  <2> QED
    BY <1>2, <1>8, <1>9, <1>11, <2>1 DEF Same
<1>13. CASE places
  <2>1. r \in RestingOrder
    BY <1>8, <1>10, <1>13 DEF RestingOrder
  <2>2. queue \in Seq(RestingOrder) /\ QueueAt(queue, own, o.price)
    BY <1>9 DEF SideOK, IsBook, QueueAt
  <2>3. Pushed(end, queue, r)
    BY DEF Pushed
  <2>4. LevelSet(c, own, o.price, end)
    BY SetLevelIs
  <2>5. levels' = [levels EXCEPT ![other] = m.book, ![o.side] = SetLevel(@, o.price, end)]
    BY <1>4, <1>13 DEF PushBack
  <2> HIDE DEF r, queue, end
  <2>6. levels'[other] = m.book /\ levels'[o.side] = c
    BY <1>8, <2>5
  <2>7. sides'[other] = t.levels /\ sides'[o.side] = Place(o.side, ls, o.price, r) /\ DOMAIN sides' = Side
    BY <1>6, <1>8, <1>13
  <2>8. SameSide(Place(o.side, ls, o.price, r), c, o.side)
    <3> HIDE DEF c, own, ls, places
    <3> QED
      BY <1>8, <1>9, <2>1, <2>2, <2>3, <2>4, PlaceSame
  <2> QED
    BY <1>2, <1>8, <1>11, <2>6, <2>7, <2>8 DEF Same
<1> QED
  BY <1>12, <1>13

EngineInv == BookInv /\ Same

\* Both empty books agree.
LEMMA EngineInvInit == EngineInit => EngineInv
<1> SUFFICES ASSUME EngineInit PROVE EngineInv
  OBVIOUS
<1>1. BookInv
  BY BookInvInit DEF EngineInit
<1>2. /\ trades = fills /\ index = locations /\ DOMAIN sides = Side
      /\ \A side \in Side : sides[side] = << >> /\ levels[side] = Nothing
  BY DEF EngineInit, Init
<1>3. DOMAIN Nothing = {}
  BY DEF Nothing
<1>4. ASSUME NEW side PROVE SameSide(<< >>, Nothing, side)
  BY <1>3 DEF SameSide, InOrderOfPrice, SameLevels
<1> QED
  BY <1>1, <1>2, <1>4 DEF EngineInv, Same

\* The same call keeps them agreeing.
LEMMA EngineInvNext == EngineInv /\ [EngineNext]_evars => EngineInv'
<1> SUFFICES ASSUME EngineInv, [EngineNext]_evars PROVE EngineInv'
  OBVIOUS
<1>1. ASSUME NEW o \in Order, AddOrder(o), add_order(o) PROVE EngineInv'
  BY <1>1, AddOrderKeeps, AddOrderSame DEF EngineInv
<1>2. ASSUME NEW id \in Ids, Cancel(id), cancel(id) PROVE EngineInv'
  BY <1>2, CancelKeeps, CancelSame DEF EngineInv
<1>3. CASE UNCHANGED evars
  BY <1>3 DEF evars, bvars, EngineInv, BookInv, InOrder, Uncrossed, Same
<1> QED
  BY <1>1, <1>2, <1>3 DEF EngineNext

\* What the invariant says of the getters.
LEMMA SameAnswers ==
    ASSUME EngineInv
    PROVE  SameBook
<1>1. trades = fills /\ index = locations
  BY DEF EngineInv, Same
<1>2. ASSUME NEW side \in Side
      PROVE  /\ {l.price : l \in ToSet(sides[side])} = DOMAIN levels[side]
             /\ \A l \in ToSet(sides[side]) : l.queue = levels[side][l.price]
             /\ best(side) = best_of(side)
             /\ \A p \in Price : depth_at(side, p) = depth_of(side, p)
  <2> DEFINE ls == sides[side]
             b == levels[side]
  <2>1. SameSide(ls, b, side) /\ IsBook(b) /\ ls \in Seq(Level) /\ DOMAIN ls = 1 .. Len(ls)
    BY DEF EngineInv, BookInv, InOrder, Same, SideOK, SameSide
  <2>2. /\ \A k \in 1 .. Len(ls) : ls[k].price \in DOMAIN b /\ ls[k].queue = b[ls[k].price]
        /\ \A p \in DOMAIN b : \E k \in 1 .. Len(ls) : ls[k].price = p
    BY <2>1 DEF SameSide, SameLevels
  <2>3. best(side) = best_of(side)
    <3>1. (ls = << >>) = (DOMAIN b = {}) /\ (ls # << >> => ls[1].price = Best(side, b))
      BY <2>1, BestFirst
    <3> QED
      BY <3>1 DEF best, best_of
  <2>4. ASSUME NEW p \in Price PROVE depth_at(side, p) = depth_of(side, p)
    <3>1. CASE p \in DOMAIN b
      <4>1. \E k \in DOMAIN ls : ls[k].price = p
        BY <2>1, <2>2, <3>1
      <4>2. LevelOf(ls, p) \in DOMAIN ls /\ ls[LevelOf(ls, p)].price = p
        BY <4>1, Zenon DEF LevelOf
      <4>3. ls[LevelOf(ls, p)].queue = b[p]
        BY <2>1, <2>2, <4>2
      <4>4. depth_at(side, p) = Total(ls[LevelOf(ls, p)].queue)
        BY <4>1 DEF depth_at
      <4>5. depth_of(side, p) = Total(b[p])
        BY <3>1 DEF depth_of
      <4> QED
        BY <4>3, <4>4, <4>5
    <3>2. CASE p \notin DOMAIN b
      <4>1. \A k \in DOMAIN ls : ls[k].price # p
        BY <2>1, <2>2, <3>2
      <4> QED
        BY <3>2, <4>1 DEF depth_at, depth_of
    <3> QED
      BY <3>1, <3>2
  <2>5. ToSet(ls) = {ls[k] : k \in 1 .. Len(ls)}
    BY <2>1 DEF ToSet
  <2> HIDE DEF ls, b
  <2>6. {l.price : l \in ToSet(ls)} = DOMAIN b
    BY <2>2, <2>5
  <2>7. \A l \in ToSet(ls) : l.queue = b[l.price]
    BY <2>2, <2>5
  <2> QED
    BY <2>3, <2>4, <2>6, <2>7 DEF ls, b
<1>3. spread = spread_of
  <2> DEFINE bb == best_of("Buy")
             ba == best_of("Sell")
  <2>1. best("Buy") = bb /\ best("Sell") = ba
    BY <1>2 DEF Side
  <2>2. ASSUME NEW side \in Side, best_of(side) # << >> PROVE best_of(side)[1] \in Nat
    <3>1. DOMAIN levels[side] # {} /\ best_of(side) = <<Best(side, levels[side])>>
      BY <2>2 DEF best_of
    <3>2. IsBook(levels[side])
      BY DEF EngineInv, BookInv, InOrder, SideOK
    <3>3. DOMAIN levels[side] \in SUBSET Nat /\ IsFiniteSet(DOMAIN levels[side])
      BY <3>2, BookAssumption DEF IsBook, BookAssumption
    <3>4. Best(side, levels[side]) \in Nat
      BY <3>1, <3>3, MinMaxNat DEF Best
    <3> QED
      BY <3>1, <3>4
  <2>3. (bb # << >> => bb[1] \in Nat) /\ (ba # << >> => ba[1] \in Nat)
    BY <2>2 DEF Side
  <2> HIDE DEF ba, bb
  <2>4. spread = IF bb = << >> \/ ba = << >> \/ ba[1] < bb[1] THEN << >> ELSE <<ba[1] - bb[1]>>
    BY <2>1 DEF spread
  <2>5. spread_of = IF ba # << >> /\ bb # << >> /\ ba[1] >= bb[1] THEN <<ba[1] - bb[1]>> ELSE << >>
    BY DEF spread_of, ba, bb
  <2>6. CASE bb = << >> \/ ba = << >>
    BY <2>4, <2>5, <2>6
  <2>7. CASE bb # << >> /\ ba # << >>
    <3>1. (ba[1] < bb[1]) = ~(ba[1] >= bb[1])
      BY <2>3, <2>7
    <3> QED
      BY <2>4, <2>5, <2>7, <3>1
  <2> QED
    BY <2>6, <2>7
<1> QED
  BY <1>1, <1>2, <1>3 DEF SameBook

\* For every set of ids, prices and quantities the repository's two matching books agree
\* after every sequence of calls that reuses no resting id: src/matching_engine.cpp, with
\* a map sorted for each side and nested loops over levels and queues, trades, keeps and
\* answers the same as src/matching/orderbook.cpp.
THEOREM BooksAgree == EngineSpec => []SameBook
<1>1. EngineSpec => []EngineInv
  BY EngineInvInit, EngineInvNext, PTL DEF EngineSpec
<1> QED
  BY <1>1, SameAnswers, PTL

\* The engine gives the book the calls of its own specification, so the book beside it
\* stays sound and keeps price-time priority, and with SameBook so do the trades and the
\* queues of src/matching_engine.cpp.
THEOREM EngineKeepsPriority == EngineSpec => []BookSound /\ ImplementsAuction
<1>1. EngineInit => Init
  BY DEF EngineInit
<1>2. [EngineNext]_evars => [Next]_bvars
  BY DEF EngineNext, Next, evars, bvars
<1>3. EngineSpec => Spec
  BY <1>1, <1>2, PTL DEF EngineSpec, Spec
<1> QED
  BY <1>3, BookIsSound, BookKeepsPriority

=============================================================================
