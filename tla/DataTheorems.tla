---------------------------- MODULE DataTheorems ----------------------------
(***************************************************************************)
(* Facts about finite sets, numbers and sums that the proofs about several *)
(* modules rest on.                                                        *)
(***************************************************************************)
EXTENDS Integers, FiniteSetsExt, Functions, FiniteSetTheorems, TLAPS

-----------------------------------------------------------------------------
(* Finite sets *)

\* Induction over a finite set, in the form the provers can use: a nonempty
\* collection of subsets of a finite set has a smallest member.
LEMMA SmallestSubset ==
    ASSUME NEW S, IsFiniteSet(S), NEW B, \A T \in B : T \subseteq S, \E T : T \in B
    PROVE  \E T \in B : \A U \in B : U \subseteq T => U = T
<1> DEFINE R == StrictSubsetOrdering(S)
<1>1. FiniteSubsetsOf(S) = SUBSET S
  BY FS_FiniteSubsetsOfFinite
<1>2. IsWellFoundedOn(R, SUBSET S)
  BY <1>1, FS_StrictSubsetOrderingWellFounded
<1>3. PICK T \in B : \A U \in B : ~ (<<U, T>> \in R)
  <2>1. B \subseteq SUBSET S /\ B # {}
    OBVIOUS
  <2> HIDE DEF R
  <2> QED
    BY <1>2, <2>1, WFMin
<1>4. \A U \in B : U \subseteq T => U = T
  BY <1>3 DEF StrictSubsetOrdering
<1> QED
  BY <1>4

\* The size of a finite set without one element.
LEMMA OneLess ==
    ASSUME NEW S, IsFiniteSet(S), NEW x
    PROVE  /\ Cardinality(S) \in Nat /\ Cardinality(S \ {x}) \in Nat
           /\ x \in S => Cardinality(S \ {x}) = Cardinality(S) - 1 /\ Cardinality(S) >= 1
           /\ x \notin S => Cardinality(S \ {x}) = Cardinality(S)
<1>1. IsFiniteSet(S \ {x})
      /\ Cardinality(S \ {x}) = IF x \in S THEN Cardinality(S) - 1 ELSE Cardinality(S)
  BY FS_RemoveElement
<1>2. Cardinality(S) \in Nat /\ Cardinality(S \ {x}) \in Nat
  BY <1>1, FS_CardinalityType
<1> QED
  BY <1>1, <1>2

\* A finite nonempty set of numbers has a smallest and a largest element.
LEMMA MinMaxNat ==
    ASSUME NEW S \in SUBSET Nat, IsFiniteSet(S), S # {}
    PROVE  /\ Min(S) \in S /\ Max(S) \in S
           /\ \A x \in S : Min(S) <= x /\ x <= Max(S)
<1>1. \E x \in S : \A y \in S : x >= y
  <2> DEFINE G(x) == {y \in S : y > x}
             B == {G(x) : x \in S}
  <2>1. PICK T \in B : \A U \in B : U \subseteq T => U = T
    <3>1. (\A T \in B : T \subseteq S) /\ \E T : T \in B
      OBVIOUS
    <3> HIDE DEF B
    <3> QED
      BY <3>1, SmallestSubset
  <2>2. PICK x \in S : T = G(x)
    BY <2>1
  <2>3. ASSUME NEW y \in G(x)
        PROVE  G(y) \subseteq G(x) /\ y \notin G(y)
    <3>1. x \in Nat /\ y \in Nat
      OBVIOUS
    <3>2. \A z \in G(y) : z \in G(x)
      <4> SUFFICES ASSUME NEW z \in G(y) PROVE z \in G(x)
        OBVIOUS
      <4>1. z \in Nat
        OBVIOUS
      <4> QED
        BY <3>1, <4>1
    <3>3. y \notin G(y)
      BY <3>1
    <3> HIDE DEF G
    <3> QED
      BY <3>2, <3>3
  <2>a. \A y \in S : G(y) \in B
    OBVIOUS
  <2>b. G(x) \subseteq S
    OBVIOUS
  <2>4. G(x) = {}
    <3> HIDE DEF G, B
    <3> QED
      BY <2>1, <2>2, <2>3, <2>a, <2>b
  <2> QED
    BY <2>4
<1>2. \E x \in S : \A y \in S : x =< y
  <2> DEFINE G(x) == {y \in S : y < x}
             B == {G(x) : x \in S}
  <2>1. PICK T \in B : \A U \in B : U \subseteq T => U = T
    <3>1. (\A T \in B : T \subseteq S) /\ \E T : T \in B
      OBVIOUS
    <3> HIDE DEF B
    <3> QED
      BY <3>1, SmallestSubset
  <2>2. PICK x \in S : T = G(x)
    BY <2>1
  <2>3. ASSUME NEW y \in G(x)
        PROVE  G(y) \subseteq G(x) /\ y \notin G(y)
    <3>1. x \in Nat /\ y \in Nat
      OBVIOUS
    <3>2. \A z \in G(y) : z \in G(x)
      <4> SUFFICES ASSUME NEW z \in G(y) PROVE z \in G(x)
        OBVIOUS
      <4>1. z \in Nat
        OBVIOUS
      <4> QED
        BY <3>1, <4>1
    <3>3. y \notin G(y)
      BY <3>1
    <3> HIDE DEF G
    <3> QED
      BY <3>2, <3>3
  <2>a. \A y \in S : G(y) \in B
    OBVIOUS
  <2>b. G(x) \subseteq S
    OBVIOUS
  <2>4. G(x) = {}
    <3> HIDE DEF G, B
    <3> QED
      BY <2>1, <2>2, <2>3, <2>a, <2>b
  <2> QED
    BY <2>4
<1>3. Max(S) \in S /\ \A y \in S : Max(S) >= y
  BY <1>1, Zenon DEF Max
<1>4. Min(S) \in S /\ \A y \in S : Min(S) =< y
  BY <1>2, Zenon DEF Min
<1>5. Max(S) \in Nat /\ Min(S) \in Nat
  BY <1>3, <1>4
<1> QED
  BY <1>3, <1>4, <1>5

\* The smaller of two numbers.
LEMMA MinOfTwo ==
    ASSUME NEW a \in Nat, NEW b \in Nat
    PROVE  Min({a, b}) = IF a <= b THEN a ELSE b
<1>1. \E x \in {a, b} : \A y \in {a, b} : x =< y
  OBVIOUS
<1>2. Min({a, b}) \in {a, b} /\ \A y \in {a, b} : Min({a, b}) =< y
  BY <1>1, Zenon DEF Min
<1> QED
  BY <1>2

\* A nonempty set of numbers up to n has a least element.
LEMMA Least ==
    ASSUME NEW n \in Nat, NEW S \in SUBSET (0 .. n), S # {}
    PROVE  \E x \in S : \A y \in S : x <= y
<1>1. 0 \in Int /\ n \in Int /\ S \in SUBSET Nat
  OBVIOUS
<1>2. IsFiniteSet(0 .. n)
  BY <1>1, FS_Interval
<1>3. IsFiniteSet(S)
  BY <1>2, FS_Subset
<1> QED
  BY <1>1, <1>3, MinMaxNat

-----------------------------------------------------------------------------
(* Sums over finite sets *)

Pick(s) == CHOOSE x \in s : TRUE

\* g is the function that SumFunctionOnSet computes over the subsets of S.
Sums(g, f, S) ==
    g = [s \in SUBSET S |-> IF s = {} THEN 0 ELSE f[Pick(s)] + g[s \ {Pick(s)}]]

\* An element of a nonempty set.
LEMMA PickIn == ASSUME NEW s, NEW x \in s PROVE Pick(s) \in s
BY Zenon DEF Pick

\* The library's definition in these terms.
LEMMA SumIs == ASSUME NEW f, NEW S
               PROVE  SumFunctionOnSet(f, S) = (CHOOSE g : Sums(g, f, S))[S]
BY Zenon DEF SumFunctionOnSet, FoldFunctionOnSet, MapThenFoldSet, Sums, Pick

\* What such a function is on each subset.
LEMMA SumsValue ==
    ASSUME NEW g, NEW f, NEW S, Sums(g, f, S), NEW s, s \subseteq S
    PROVE  g[s] = IF s = {} THEN 0 ELSE f[Pick(s)] + g[s \ {Pick(s)}]
<1>1. s \in SUBSET S
  OBVIOUS
<1>2. g = [t \in SUBSET S |-> IF t = {} THEN 0 ELSE f[Pick(t)] + g[t \ {Pick(t)}]]
  BY DEF Sums
<1> QED
  BY <1>1, <1>2

\* Two such functions agree where both are defined.
LEMMA SumsUnique ==
    ASSUME NEW f, NEW S, NEW g, Sums(g, f, S), NEW T, NEW h, Sums(h, f, T),
           NEW u, IsFiniteSet(u), u \subseteq S, u \subseteq T
    PROVE  g[u] = h[u]
<1> DEFINE B == {v \in SUBSET u : g[v] # h[v]}
<1> SUFFICES ASSUME g[u] # h[u] PROVE FALSE
  OBVIOUS
<1>1. (\A v \in B : v \subseteq u) /\ u \in B
  OBVIOUS
<1> HIDE DEF B
<1>2. PICK v \in B : \A w \in B : w \subseteq v => w = v
  BY <1>1, SmallestSubset
<1>3. v \subseteq u /\ v \subseteq S /\ v \subseteq T /\ g[v] # h[v]
  BY <1>2 DEF B
<1> DEFINE w == v \ {Pick(v)}
<1>4. /\ g[v] = IF v = {} THEN 0 ELSE f[Pick(v)] + g[w]
      /\ h[v] = IF v = {} THEN 0 ELSE f[Pick(v)] + h[w]
  BY <1>3, SumsValue
<1>5. v # {}
  BY <1>3, <1>4
<1>6. w \subseteq v /\ w # v
  BY <1>5, PickIn
<1> HIDE DEF w
<1>7. w \notin B
  BY <1>2, <1>6
<1>8. g[w] = h[w]
  BY <1>3, <1>6, <1>7 DEF B
<1> QED
  BY <1>3, <1>4, <1>8

\* A subset of a finite set with one element less is a smaller one.
LEMMA Smaller ==
    ASSUME NEW u, u # {}
    PROVE  u \ {Pick(u)} \subseteq u /\ u \ {Pick(u)} # u
BY PickIn

\* Such a function exists over every finite set.
LEMMA SumsExist ==
    ASSUME NEW f, NEW S, IsFiniteSet(S)
    PROVE  \E g : Sums(g, f, S)
<1> DEFINE B == {u \in SUBSET S : ~ \E g : Sums(g, f, u)}
<1> SUFFICES ASSUME ~ \E g : Sums(g, f, S) PROVE FALSE
  OBVIOUS
<1>1. (\A v \in B : v \subseteq S) /\ S \in B
  OBVIOUS
<1> HIDE DEF B
<1>2. PICK u \in B : \A w \in B : w \subseteq u => w = u
  BY <1>1, SmallestSubset
<1>3. u \subseteq S /\ ~ \E g : Sums(g, f, u)
  BY <1>2 DEF B
<1> DEFINE H(v) == (CHOOSE h : Sums(h, f, v))[v]
           c(v) == CHOOSE h : Sums(h, f, v)
           g == [s \in SUBSET u |-> IF s = {} THEN 0 ELSE f[Pick(s)] + H(s \ {Pick(s)})]
<1>4. ASSUME NEW v, v \subseteq u, v # u
      PROVE  Sums(c(v), f, v) /\ IsFiniteSet(v)
  <2>1. v \notin B /\ v \in SUBSET S
    BY <1>2, <1>3, <1>4
  <2>2. \E h : Sums(h, f, v)
    BY <2>1 DEF B
  <2>3. IsFiniteSet(v)
    BY <2>1, FS_Subset
  <2> QED
    BY <2>2, <2>3, Zenon
<1>5. \A v : H(v) = c(v)[v]
  OBVIOUS
<1>6. ASSUME NEW v, v \subseteq u, v # u, v # {}
      PROVE  H(v) = f[Pick(v)] + H(v \ {Pick(v)})
  <2> DEFINE w == v \ {Pick(v)}
  <2>1. w \subseteq v /\ w # v /\ w \subseteq u /\ w # u
    BY <1>6, Smaller
  <2>2. Sums(c(v), f, v) /\ Sums(c(w), f, w) /\ IsFiniteSet(w)
    BY <1>4, <1>6, <2>1
  <2> HIDE DEF c, H
  <2>3. c(v)[v] = f[Pick(v)] + c(v)[w]
    BY <1>6, <2>2, SumsValue
  <2> HIDE DEF w
  <2>4. c(v)[w] = c(w)[w]
    BY <2>1, <2>2, SumsUnique
  <2>5. H(v) = f[Pick(v)] + H(w)
    BY <2>3, <2>4, <1>5
  <2> QED
    BY <2>5 DEF w
<1>7. H({}) = 0
  <2>1. u # {}
    <3>1. CASE u = {}
      <4> DEFINE z == [s \in SUBSET {} |-> 0]
      <4>1. Sums(z, f, {})
        BY DEF Sums
      <4> QED
        BY <3>1, <4>1, <1>3
    <3> QED
      BY <3>1
  <2>2. Sums(c({}), f, {})
    BY <2>1, <1>4
  <2> HIDE DEF c, H
  <2>3. c({})[{}] = 0
    BY <2>2, SumsValue
  <2> QED
    BY <2>3, <1>5
<1> HIDE DEF H
<1>8. ASSUME NEW v, v \subseteq u, v # u
      PROVE  g[v] = H(v)
  <2>1. v \in SUBSET u
    BY <1>8
  <2>2. g[v] = IF v = {} THEN 0 ELSE f[Pick(v)] + H(v \ {Pick(v)})
    BY <2>1
  <2> QED
    BY <2>2, <1>6, <1>7, <1>8
<1>9. \A s \in SUBSET u : s # {} => g[s \ {Pick(s)}] = H(s \ {Pick(s)})
  <2> SUFFICES ASSUME NEW s \in SUBSET u, s # {}
               PROVE  g[s \ {Pick(s)}] = H(s \ {Pick(s)})
    OBVIOUS
  <2> DEFINE w == s \ {Pick(s)}
  <2>1. w \subseteq u /\ w # u
    BY Smaller
  <2> HIDE DEF w, g
  <2>2. g[w] = H(w)
    BY <2>1, <1>8
  <2> QED
    BY <2>2 DEF w
<1>10. g = [s \in SUBSET u |-> IF s = {} THEN 0 ELSE f[Pick(s)] + g[s \ {Pick(s)}]]
  <2>1. \A s \in SUBSET u : (IF s = {} THEN 0 ELSE f[Pick(s)] + H(s \ {Pick(s)})) =
                            (IF s = {} THEN 0 ELSE f[Pick(s)] + g[s \ {Pick(s)}])
    <3> HIDE DEF g
    <3> QED
      BY <1>9
  <2>2. g = [s \in SUBSET u |-> IF s = {} THEN 0 ELSE f[Pick(s)] + H(s \ {Pick(s)})]
    OBVIOUS
  <2> HIDE DEF g
  <2> QED
    BY <2>1, <2>2
<1>11. Sums(g, f, u)
  <2> HIDE DEF g
  <2> QED
    BY <1>10 DEF Sums
<1> QED
  BY <1>3, <1>11

\* The sum over a finite set: the element picked first, and the sum of the others.
LEMMA SumStep ==
    ASSUME NEW f, NEW S, IsFiniteSet(S)
    PROVE  SumFunctionOnSet(f, S) =
                IF S = {} THEN 0 ELSE f[Pick(S)] + SumFunctionOnSet(f, S \ {Pick(S)})
<1> DEFINE c(T) == CHOOSE g : Sums(g, f, T)
           w == S \ {Pick(S)}
<1>1. IsFiniteSet(w) /\ w \subseteq S
  BY FS_Subset
<1>2. Sums(c(S), f, S)
  BY SumsExist, Zenon
<1>3. Sums(c(w), f, w)
  <2> HIDE DEF w
  <2> QED
    BY <1>1, SumsExist, Zenon
<1>4. SumFunctionOnSet(f, S) = c(S)[S] /\ SumFunctionOnSet(f, w) = c(w)[w]
  BY SumIs, Zenon
<1> HIDE DEF c
<1>5. c(S)[S] = IF S = {} THEN 0 ELSE f[Pick(S)] + c(S)[w]
  BY <1>2, SumsValue
<1> HIDE DEF w
<1>6. c(S)[w] = c(w)[w]
  BY <1>1, <1>2, <1>3, SumsUnique
<1>7. SumFunctionOnSet(f, S) = IF S = {} THEN 0 ELSE f[Pick(S)] + SumFunctionOnSet(f, w)
  BY <1>4, <1>5, <1>6
<1> QED
  BY <1>7 DEF w

\* A sum of integers is an integer.
LEMMA SumInt ==
    ASSUME NEW f, NEW S, IsFiniteSet(S), \A x \in S : f[x] \in Int
    PROVE  SumFunctionOnSet(f, S) \in Int
<1> DEFINE B == {u \in SUBSET S : SumFunctionOnSet(f, u) \notin Int}
<1> SUFFICES ASSUME SumFunctionOnSet(f, S) \notin Int PROVE FALSE
  OBVIOUS
<1>1. (\A v \in B : v \subseteq S) /\ S \in B
  OBVIOUS
<1> HIDE DEF B
<1>2. PICK u \in B : \A w \in B : w \subseteq u => w = u
  BY <1>1, SmallestSubset
<1>3. u \in SUBSET S /\ SumFunctionOnSet(f, u) \notin Int
  BY <1>2 DEF B
<1> DEFINE w == u \ {Pick(u)}
<1>4. IsFiniteSet(u)
  BY <1>3, FS_Subset
<1>5. SumFunctionOnSet(f, u) = IF u = {} THEN 0 ELSE f[Pick(u)] + SumFunctionOnSet(f, w)
  BY <1>4, SumStep
<1>6. u # {}
  BY <1>3, <1>5
<1>7. w \subseteq u /\ w # u /\ Pick(u) \in u
  BY <1>6, PickIn
<1> HIDE DEF w
<1>8. w \notin B /\ w \in SUBSET S
  BY <1>2, <1>3, <1>7
<1>9. SumFunctionOnSet(f, w) \in Int
  BY <1>8 DEF B
<1>10. f[Pick(u)] \in Int
  BY <1>3, <1>7
<1> QED
  BY <1>3, <1>5, <1>6, <1>9, <1>10

\* Adding zeros gives zero.
LEMMA SumZero ==
    ASSUME NEW f, NEW S, IsFiniteSet(S), \A x \in S : f[x] = 0
    PROVE  SumFunctionOnSet(f, S) = 0
<1> DEFINE B == {u \in SUBSET S : SumFunctionOnSet(f, u) # 0}
<1> SUFFICES ASSUME SumFunctionOnSet(f, S) # 0 PROVE FALSE
  OBVIOUS
<1>1. (\A v \in B : v \subseteq S) /\ S \in B
  OBVIOUS
<1> HIDE DEF B
<1>2. PICK u \in B : \A w \in B : w \subseteq u => w = u
  BY <1>1, SmallestSubset
<1>3. u \in SUBSET S /\ SumFunctionOnSet(f, u) # 0
  BY <1>2 DEF B
<1> DEFINE w == u \ {Pick(u)}
<1>4. IsFiniteSet(u)
  BY <1>3, FS_Subset
<1>5. SumFunctionOnSet(f, u) = IF u = {} THEN 0 ELSE f[Pick(u)] + SumFunctionOnSet(f, w)
  BY <1>4, SumStep
<1>6. u # {}
  BY <1>3, <1>5
<1>7. w \subseteq u /\ w # u /\ Pick(u) \in u
  BY <1>6, PickIn
<1> HIDE DEF w
<1>8. w \notin B /\ w \in SUBSET S
  BY <1>2, <1>3, <1>7
<1>9. SumFunctionOnSet(f, w) = 0 /\ f[Pick(u)] = 0
  BY <1>3, <1>7, <1>8 DEF B
<1> QED
  BY <1>3, <1>5, <1>6, <1>9

\* A sum only depends on the values it adds.
LEMMA SumSame ==
    ASSUME NEW f, NEW g, NEW S, IsFiniteSet(S), \A x \in S : f[x] = g[x]
    PROVE  SumFunctionOnSet(f, S) = SumFunctionOnSet(g, S)
<1> DEFINE B == {u \in SUBSET S : SumFunctionOnSet(f, u) # SumFunctionOnSet(g, u)}
<1> SUFFICES ASSUME SumFunctionOnSet(f, S) # SumFunctionOnSet(g, S) PROVE FALSE
  OBVIOUS
<1>1. (\A v \in B : v \subseteq S) /\ S \in B
  OBVIOUS
<1> HIDE DEF B
<1>2. PICK u \in B : \A w \in B : w \subseteq u => w = u
  BY <1>1, SmallestSubset
<1>3. u \in SUBSET S /\ SumFunctionOnSet(f, u) # SumFunctionOnSet(g, u)
  BY <1>2 DEF B
<1> DEFINE w == u \ {Pick(u)}
<1>4. IsFiniteSet(u)
  BY <1>3, FS_Subset
<1>5. /\ SumFunctionOnSet(f, u) = IF u = {} THEN 0 ELSE f[Pick(u)] + SumFunctionOnSet(f, w)
      /\ SumFunctionOnSet(g, u) = IF u = {} THEN 0 ELSE g[Pick(u)] + SumFunctionOnSet(g, w)
  BY <1>4, SumStep
<1>6. u # {}
  BY <1>3, <1>5
<1>7. w \subseteq u /\ w # u /\ Pick(u) \in u
  BY <1>6, PickIn
<1> HIDE DEF w
<1>8. w \notin B /\ w \in SUBSET S
  BY <1>2, <1>3, <1>7
<1>9. SumFunctionOnSet(f, w) = SumFunctionOnSet(g, w)
  BY <1>8 DEF B
<1>10. f[Pick(u)] = g[Pick(u)]
  BY <1>3, <1>7
<1> QED
  BY <1>3, <1>5, <1>6, <1>9, <1>10

\* The order of the summands does not matter: any of them can be taken out.
LEMMA SumTake ==
    ASSUME NEW f, NEW S, IsFiniteSet(S), \A x \in S : f[x] \in Int, NEW x \in S
    PROVE  SumFunctionOnSet(f, S) = f[x] + SumFunctionOnSet(f, S \ {x})
<1> DEFINE Sm(u) == SumFunctionOnSet(f, u)
           B == {u \in SUBSET S : \E y \in u : Sm(u) # f[y] + Sm(u \ {y})}
<1> SUFFICES ASSUME Sm(S) # f[x] + Sm(S \ {x}) PROVE FALSE
  OBVIOUS
<1>1. (\A v \in B : v \subseteq S) /\ S \in B
  OBVIOUS
<1>a. \A u \in SUBSET S : u \notin B => \A y \in u : Sm(u) = f[y] + Sm(u \ {y})
  OBVIOUS
<1>b. \A u \in B : u \in SUBSET S /\ \E y \in u : Sm(u) # f[y] + Sm(u \ {y})
  OBVIOUS
<1> HIDE DEF B
<1>2. PICK u \in B : \A w \in B : w \subseteq u => w = u
  BY <1>1, SmallestSubset
<1>3. PICK y \in u : u \in SUBSET S /\ Sm(u) # f[y] + Sm(u \ {y})
  BY <1>2, <1>b
<1> DEFINE p == Pick(u)
           r == u \ {p}
           q == u \ {y}
           w == r \ {y}
<1>4. p \in u
  BY <1>3, PickIn
<1>5. \A v \in SUBSET S : IsFiniteSet(v)
  BY FS_Subset
<1>6. Sm(u) = f[p] + Sm(r)
  BY <1>3, <1>5, SumStep
<1>7. p # y
  BY <1>3, <1>6
<1>8. r \in SUBSET S /\ r \notin B /\ y \in r
  <2>1. r \subseteq u /\ r # u /\ y \in r
    BY <1>3, <1>4, <1>7
  <2> HIDE DEF r
  <2> QED
    BY <2>1, <1>2, <1>3
<1>9. q \in SUBSET S /\ q \notin B /\ p \in q
  <2>1. q \subseteq u /\ q # u /\ p \in q
    BY <1>3, <1>4, <1>7
  <2> HIDE DEF q, p
  <2> QED
    BY <2>1, <1>2, <1>3
<1>10. w = q \ {p} /\ w \in SUBSET S
  BY <1>3
<1>11. Sm(w) \in Int
  <2> HIDE DEF w
  <2> QED
    BY <1>5, <1>10, SumInt
<1>12. f[p] \in Int /\ f[y] \in Int
  BY <1>3, <1>4
<1>13. Sm(r) = f[y] + Sm(w)
  <2> HIDE DEF r, Sm
  <2> QED
    BY <1>8, <1>a
<1>14. Sm(q) = f[p] + Sm(w)
  <2>1. Sm(q) = f[p] + Sm(q \ {p})
    <3> HIDE DEF q, Sm, p
    <3> QED
      BY <1>9, <1>a
  <2> HIDE DEF q, Sm, p, w
  <2> QED
    BY <2>1, <1>10
<1>15. Sm(u) # f[y] + Sm(q)
  BY <1>3
<1> HIDE DEF p, q, r, w, Sm
<1> QED
  BY <1>6, <1>11, <1>12, <1>13, <1>14, <1>15

\* A sum of values that are at most m.
LEMMA SumBound ==
    ASSUME NEW f, NEW S, IsFiniteSet(S), NEW m \in Nat,
           \A x \in S : f[x] \in Int /\ f[x] <= m
    PROVE  SumFunctionOnSet(f, S) <= Cardinality(S) * m
<1> DEFINE Sm(u) == SumFunctionOnSet(f, u)
           B == {u \in SUBSET S : ~ (Sm(u) <= Cardinality(u) * m)}
<1> SUFFICES ASSUME ~ (Sm(S) <= Cardinality(S) * m) PROVE FALSE
  OBVIOUS
<1>1. (\A v \in B : v \subseteq S) /\ S \in B
  OBVIOUS
<1>a. \A u \in SUBSET S : u \notin B => Sm(u) <= Cardinality(u) * m
  OBVIOUS
<1>b. \A u \in B : u \in SUBSET S /\ ~ (Sm(u) <= Cardinality(u) * m)
  OBVIOUS
<1> HIDE DEF B
<1>2. PICK u \in B : \A w \in B : w \subseteq u => w = u
  BY <1>1, SmallestSubset
<1>3. u \in SUBSET S /\ ~ (Sm(u) <= Cardinality(u) * m)
  BY <1>2, <1>b
<1> DEFINE w == u \ {Pick(u)}
<1>4. \A v \in SUBSET S : IsFiniteSet(v)
  BY FS_Subset
<1>5. Sm(u) = IF u = {} THEN 0 ELSE f[Pick(u)] + Sm(w)
  BY <1>3, <1>4, SumStep
<1>6. u # {}
  <2>1. CASE u = {}
    <3>1. Cardinality(u) = 0
      BY <2>1, FS_EmptySet
    <3> QED
      BY <2>1, <3>1, <1>3, <1>5
  <2> QED
    BY <2>1
<1>7. w \subseteq u /\ w # u /\ Pick(u) \in u
  BY <1>6, PickIn
<1>8. Cardinality(u) = Cardinality(w) + 1 /\ Cardinality(w) \in Nat
  BY <1>3, <1>4, <1>7, OneLess
<1> HIDE DEF w
<1>9. w \notin B /\ w \in SUBSET S
  BY <1>2, <1>3, <1>7
<1>10. Sm(w) <= Cardinality(w) * m
  BY <1>9, <1>a
<1>11. Sm(w) \in Int
  BY <1>4, <1>9, SumInt
<1>12. f[Pick(u)] \in Int /\ f[Pick(u)] <= m
  BY <1>3, <1>7
<1>13. (Cardinality(w) + 1) * m = Cardinality(w) * m + m /\ Cardinality(w) * m \in Int
  <2>1. \A k \in Nat : (k + 1) * m = k * m + m /\ k * m \in Int
    OBVIOUS
  <2> QED
    BY <1>8, <2>1
<1> HIDE DEF Sm
<1>14. Sm(u) <= Cardinality(w) * m + m
  BY <1>5, <1>6, <1>10, <1>11, <1>12, <1>13
<1> QED
  BY <1>3, <1>8, <1>13, <1>14

\* Changing one summand.
LEMMA SumChange ==
    ASSUME NEW S, IsFiniteSet(S), NEW f, NEW g, NEW x \in S,
           \A y \in S : f[y] \in Int /\ g[y] \in Int,
           \A y \in S \ {x} : g[y] = f[y]
    PROVE  /\ SumFunctionOnSet(f, S) \in Int
           /\ SumFunctionOnSet(g, S) = SumFunctionOnSet(f, S) + (g[x] - f[x])
<1> DEFINE T == S \ {x}
<1>1. IsFiniteSet(T) /\ T \subseteq S
  BY FS_Subset
<1>2. SumFunctionOnSet(f, S) = f[x] + SumFunctionOnSet(f, T)
  BY SumTake
<1>3. SumFunctionOnSet(g, S) = g[x] + SumFunctionOnSet(g, T)
  BY SumTake
<1>4. \A y \in T : f[y] = g[y] /\ f[y] \in Int
  OBVIOUS
<1> HIDE DEF T
<1>5. SumFunctionOnSet(f, T) = SumFunctionOnSet(g, T) /\ SumFunctionOnSet(f, T) \in Int
  BY <1>1, <1>4, SumSame, SumInt
<1>6. f[x] \in Int /\ g[x] \in Int
  OBVIOUS
<1> QED
  BY <1>2, <1>3, <1>5, <1>6

\* Adding one summand.
LEMMA SumExtend ==
    ASSUME NEW S, IsFiniteSet(S), NEW f, NEW g, NEW x, x \notin S,
           \A y \in S : f[y] \in Int, g[x] \in Int,
           \A y \in S : g[y] = f[y]
    PROVE  /\ SumFunctionOnSet(f, S) \in Int
           /\ SumFunctionOnSet(g, S \cup {x}) = SumFunctionOnSet(f, S) + g[x]
<1> DEFINE T == S \cup {x}
<1>1. IsFiniteSet(T) /\ x \in T /\ T \ {x} = S
  BY FS_AddElement
<1>2. \A y \in T : g[y] \in Int
  OBVIOUS
<1> HIDE DEF T
<1>3. SumFunctionOnSet(g, T) = g[x] + SumFunctionOnSet(g, S)
  BY <1>1, <1>2, SumTake
<1>4. SumFunctionOnSet(f, S) = SumFunctionOnSet(g, S) /\ SumFunctionOnSet(f, S) \in Int
  BY SumSame, SumInt
<1>5. /\ SumFunctionOnSet(f, S) \in Int
      /\ SumFunctionOnSet(g, T) = SumFunctionOnSet(f, S) + g[x]
  BY <1>3, <1>4
<1> QED
  BY <1>5 DEF T

\* A set with one element less.
LEMMA SumShrink ==
    ASSUME NEW S, IsFiniteSet(S), NEW x \in S, NEW f, NEW g,
           \A y \in S : f[y] \in Int,
           \A y \in S \ {x} : g[y] = f[y]
    PROVE  SumFunctionOnSet(g, S \ {x}) = SumFunctionOnSet(f, S) - f[x]
<1> DEFINE T == S \ {x}
<1>1. IsFiniteSet(T) /\ f[x] \in Int
  BY FS_RemoveElement
<1>2. /\ \A y \in T : g[y] \in Int
      /\ \A y \in T : g[y] = f[y]
      /\ \A y \in T : f[y] = g[y]
  OBVIOUS
<1>3. SumFunctionOnSet(f, S) = f[x] + SumFunctionOnSet(f, T)
  BY SumTake
<1> HIDE DEF T
<1>4. SumFunctionOnSet(f, T) = SumFunctionOnSet(g, T)
  BY <1>1, <1>2, SumSame
<1>5. SumFunctionOnSet(g, T) \in Int
  BY <1>1, <1>2, SumInt
<1>6. SumFunctionOnSet(g, T) = SumFunctionOnSet(f, S) - f[x]
  BY <1>1, <1>3, <1>4, <1>5
<1> QED
  BY <1>6 DEF T
Images(p, S) == {p[x] : x \in S}

\* g is f along p, which tells the elements of S apart.
Along(g, f, p, S) ==
    /\ \A x, y \in S : p[x] = p[y] => x = y
    /\ \A x \in S : g[x] = f[p[x]] /\ f[p[x]] \in Int

\* The sum over a set is the sum over the images of its elements, when no two of them
\* have the same image.
LEMMA SumMap ==
    ASSUME NEW S, IsFiniteSet(S), NEW f, NEW g, NEW p, Along(g, f, p, S)
    PROVE  SumFunctionOnSet(g, S) = SumFunctionOnSet(f, Images(p, S))
<1> DEFINE Im(u) == {p[x] : x \in u}
           B == {u \in SUBSET S : SumFunctionOnSet(g, u) # SumFunctionOnSet(f, Im(u))}
<1> SUFFICES ASSUME SumFunctionOnSet(g, S) # SumFunctionOnSet(f, Im(S)) PROVE FALSE
  BY DEF Images
<1>0. /\ \A x, y \in S : p[x] = p[y] => x = y
      /\ \A x \in S : g[x] = f[p[x]] /\ f[p[x]] \in Int
  BY DEF Along
<1>1. (\A v \in B : v \subseteq S) /\ S \in B
  OBVIOUS
<1> HIDE DEF B
<1>2. PICK u \in B : \A v \in B : v \subseteq u => v = u
  BY <1>1, SmallestSubset
<1>3. u \subseteq S /\ SumFunctionOnSet(g, u) # SumFunctionOnSet(f, Im(u))
  BY <1>2 DEF B
<1>4. IsFiniteSet(u)
  BY <1>3, FS_Subset
<1>5. CASE u = {}
  <2>1. Im(u) = {}
    BY <1>5
  <2>2. SumFunctionOnSet(g, {}) = 0 /\ SumFunctionOnSet(f, {}) = 0
    BY FS_EmptySet, SumZero
  <2> QED
    BY <1>3, <1>5, <2>1, <2>2
<1>6. ASSUME NEW x \in u PROVE FALSE
  <2> DEFINE v == u \ {x}
  <2>1. v \in SUBSET S /\ v \subseteq u /\ v # u
    BY <1>3, <1>6
  <2>2. v \notin B
    BY <1>2, <2>1
  <2>3. SumFunctionOnSet(g, v) = SumFunctionOnSet(f, Im(v))
    BY <2>1, <2>2 DEF B
  <2>4. IsFiniteSet(v) /\ v \cup {x} = u /\ x \notin v
    BY <1>4, <1>6, FS_RemoveElement
  <2>5. Im(u) \ {p[x]} = Im(v) /\ p[x] \in Im(u)
    <3>1. x \in S /\ \A y \in v : p[y] # p[x]
      BY <1>0, <1>3, <1>6
    <3> QED
      BY <1>6, <3>1
  <2>6. IsFiniteSet(Im(u))
    <3> DEFINE h == [y \in u |-> p[y]]
    <3>1. h \in Surjection(u, Im(u))
      BY DEF Surjection
    <3> HIDE DEF h, Im
    <3> QED
      BY <1>4, <3>1, FS_Surjection
  <2>7. \A y \in u : g[y] \in Int /\ g[y] = f[p[y]] /\ f[p[y]] \in Int
    BY <1>0, <1>3
  <2>8. \A z \in Im(u) : f[z] \in Int
    BY <2>7
  <2> HIDE DEF Im
  <2>9. SumFunctionOnSet(g, u) = g[x] + SumFunctionOnSet(g, u \ {x})
    BY <1>4, <1>6, <2>7, SumTake
  <2>10. SumFunctionOnSet(f, Im(u)) = f[p[x]] + SumFunctionOnSet(f, Im(u) \ {p[x]})
    BY <2>5, <2>6, <2>8, SumTake
  <2> QED
    BY <1>3, <1>6, <2>3, <2>5, <2>7, <2>9, <2>10
<1> QED
  BY <1>5, <1>6

\* A sum of natural numbers is one.
LEMMA SumNat ==
    ASSUME NEW f, NEW S, IsFiniteSet(S), \A x \in S : f[x] \in Nat
    PROVE  SumFunctionOnSet(f, S) \in Nat
<1> DEFINE B == {u \in SUBSET S : SumFunctionOnSet(f, u) \notin Nat}
<1> SUFFICES ASSUME SumFunctionOnSet(f, S) \notin Nat PROVE FALSE
  OBVIOUS
<1>1. (\A v \in B : v \subseteq S) /\ S \in B
  OBVIOUS
<1> HIDE DEF B
<1>2. PICK u \in B : \A v \in B : v \subseteq u => v = u
  BY <1>1, SmallestSubset
<1>3. u \subseteq S /\ SumFunctionOnSet(f, u) \notin Nat
  BY <1>2 DEF B
<1>4. IsFiniteSet(u)
  BY <1>3, FS_Subset
<1>5. u # {}
  <2>1. SumFunctionOnSet(f, {}) = 0
    BY FS_EmptySet, SumZero
  <2> QED
    BY <1>3, <2>1
<1>6. PICK x \in u : TRUE
  BY <1>5
<1>7. u \ {x} \notin B
  BY <1>2, <1>6
<1>8. SumFunctionOnSet(f, u \ {x}) \in Nat
  BY <1>3, <1>7 DEF B
<1>9. (\A y \in u : f[y] \in Nat) /\ \A y \in u : f[y] \in Int
  BY <1>3
<1>10. SumFunctionOnSet(f, u) = f[x] + SumFunctionOnSet(f, u \ {x})
  BY <1>4, <1>6, <1>9, SumTake
<1> QED
  BY <1>3, <1>6, <1>8, <1>9, <1>10

-----------------------------------------------------------------------------
(* Sorting *)

\* How many of n values stand before the i-th, or with it, when equal values keep their
\* order.
Standing(g, n, i) == {j \in 1 .. n : g[j] < g[i] \/ (g[j] = g[i] /\ j <= i)}

\* Values that stand lower have a smaller place.
LEMMA StandingLess ==
    ASSUME NEW n \in Nat, NEW g, \A i \in 1 .. n : g[i] \in Int,
           NEW i \in 1 .. n, NEW k \in 1 .. n, g[i] < g[k] \/ (g[i] = g[k] /\ i < k)
    PROVE  Cardinality(Standing(g, n, i)) < Cardinality(Standing(g, n, k))
<1> DEFINE A == Standing(g, n, i)
           B == Standing(g, n, k)
<1>1. A \subseteq B /\ k \in B /\ k \notin A
  BY DEF Standing
<1>2. IsFiniteSet(1 .. n) /\ B \subseteq 1 .. n
  <2>1. 1 \in Int /\ n \in Int
    OBVIOUS
  <2>2. IsFiniteSet(1 .. n)
    BY <2>1, FS_Interval
  <2> QED
    BY <2>2 DEF Standing
<1>3. IsFiniteSet(B)
  BY <1>2, FS_Subset
<1> HIDE DEF A, B
<1>4. IsFiniteSet(A) /\ Cardinality(A) <= Cardinality(B) /\ (Cardinality(B) = Cardinality(A) => B = A)
  BY <1>1, <1>3, FS_Subset
<1>5. Cardinality(A) \in Nat /\ Cardinality(B) \in Nat
  BY <1>3, <1>4, FS_CardinalityType
<1>6. A # B
  BY <1>1
<1> QED
  BY <1>4, <1>5, <1>6 DEF A, B

\* Every place is that of one value.
LEMMA Ranking ==
    ASSUME NEW n \in Nat, NEW g, \A i \in 1 .. n : g[i] \in Int
    PROVE  [i \in 1 .. n |-> Cardinality(Standing(g, n, i))] \in Bijection(1 .. n, 1 .. n)
<1> DEFINE r == [i \in 1 .. n |-> Cardinality(Standing(g, n, i))]
<1>1. IsFiniteSet(1 .. n) /\ Cardinality(1 .. n) = n
  BY FS_Interval
<1>2. ASSUME NEW i \in 1 .. n PROVE Cardinality(Standing(g, n, i)) \in 1 .. n
  <2>1. Standing(g, n, i) \subseteq 1 .. n /\ i \in Standing(g, n, i)
    BY DEF Standing
  <2> DEFINE A == Standing(g, n, i)
  <2> HIDE DEF A
  <2>2. A \subseteq 1 .. n /\ i \in A
    BY <2>1 DEF A
  <2>3. IsFiniteSet(A) /\ Cardinality(A) <= n
    BY <1>1, <2>2, FS_Subset
  <2>4. Cardinality(A) \in Nat /\ Cardinality(A) # 0
    BY <2>2, <2>3, FS_CardinalityType, FS_EmptySet
  <2> QED
    BY <2>3, <2>4 DEF A
<1>3. ASSUME NEW i \in 1 .. n, NEW k \in 1 .. n, i # k
      PROVE  Cardinality(Standing(g, n, i)) # Cardinality(Standing(g, n, k))
  <2>1. g[i] \in Int /\ g[k] \in Int
    OBVIOUS
  <2>2. \/ g[i] < g[k] \/ (g[i] = g[k] /\ i < k)
        \/ g[k] < g[i] \/ (g[k] = g[i] /\ k < i)
    BY <1>3, <2>1
  <2>3. Cardinality(Standing(g, n, i)) \in Int /\ Cardinality(Standing(g, n, k)) \in Int
    BY <1>2
  <2>4. CASE g[i] < g[k] \/ (g[i] = g[k] /\ i < k)
    <3>1. Cardinality(Standing(g, n, i)) < Cardinality(Standing(g, n, k))
      BY <2>4, StandingLess
    <3> QED
      BY <2>3, <3>1
  <2>5. CASE g[k] < g[i] \/ (g[k] = g[i] /\ k < i)
    <3>1. Cardinality(Standing(g, n, k)) < Cardinality(Standing(g, n, i))
      BY <2>5, StandingLess
    <3> QED
      BY <2>3, <3>1
  <2> QED
    BY <2>2, <2>4, <2>5
<1>4. r \in [1 .. n -> 1 .. n]
  BY <1>2
<1>5. \A a, b \in DOMAIN r : r[a] = r[b] => a = b
  BY <1>3
<1> HIDE DEF r
<1>6. r \in Injection(1 .. n, 1 .. n)
  BY <1>4, <1>5 DEF Injection, IsInjective
<1>7. r \in Surjection(1 .. n, 1 .. n)
  BY <1>1, <1>6, FS_Injection
<1> QED
  BY <1>6, <1>7 DEF Bijection, r

\* What sorts the values of f: a numbering of its domain along which they do not fall.
Sorts(q, f) ==
    /\ q \in Bijection(1 .. Cardinality(DOMAIN f), DOMAIN f)
    /\ \A j, k \in 1 .. Cardinality(DOMAIN f) : j < k => f[q[j]] <= f[q[k]]

\* The values of a function on a finite set can be sorted.
LEMMA SortExists ==
    ASSUME NEW f, IsFiniteSet(DOMAIN f), \A x \in DOMAIN f : f[x] \in Int
    PROVE  \E q : Sorts(q, f)
<1> DEFINE D == DOMAIN f
           n == Cardinality(D)
<1>1. n \in Nat /\ ExistsBijection(1 .. n, D)
  BY FS_CardinalityType
<1> HIDE DEF n
<1>2. PICK b : b \in Bijection(1 .. n, D)
  BY <1>1, Zenon DEF ExistsBijection
<1>3. /\ b \in [1 .. n -> D] /\ \A x, y \in 1 .. n : b[x] = b[y] => x = y
      /\ \A t \in D : \E s \in 1 .. n : b[s] = t
  BY <1>2 DEF Bijection, Injection, Surjection, IsInjective
<1> DEFINE g == [i \in 1 .. n |-> f[b[i]]]
           r == [i \in 1 .. n |-> Cardinality(Standing(g, n, i))]
<1>4. \A i \in 1 .. n : g[i] \in Int /\ g[i] = f[b[i]]
  BY <1>3
<1> HIDE DEF g
<1>5. r \in Bijection(1 .. n, 1 .. n)
  BY <1>1, <1>4, Ranking
<1>6. \A i \in 1 .. n : r[i] = Cardinality(Standing(g, n, i))
  OBVIOUS
<1> HIDE DEF r
<1>7. /\ r \in [1 .. n -> 1 .. n] /\ \A x, y \in 1 .. n : r[x] = r[y] => x = y
      /\ \A t \in 1 .. n : \E s \in 1 .. n : r[s] = t
  BY <1>5 DEF Bijection, Injection, Surjection, IsInjective
<1> DEFINE w == [k \in 1 .. n |-> CHOOSE i \in 1 .. n : r[i] = k]
           q == [k \in 1 .. n |-> b[w[k]]]
<1>8. \A k \in 1 .. n : w[k] \in 1 .. n /\ r[w[k]] = k
  BY <1>7
<1>9. \A i \in 1 .. n : w[r[i]] = i
  BY <1>7, <1>8
<1> HIDE DEF w
<1>10. \A k \in 1 .. n : q[k] = b[w[k]] /\ q[k] \in D
  BY <1>3, <1>8
<1>11. q \in [1 .. n -> D]
  BY <1>3, <1>8
<1> HIDE DEF q
<1>12. \A j, k \in 1 .. n : q[j] = q[k] => j = k
  <2> SUFFICES ASSUME NEW j \in 1 .. n, NEW k \in 1 .. n, q[j] = q[k] PROVE j = k
    OBVIOUS
  <2>1. w[j] \in 1 .. n /\ w[k] \in 1 .. n /\ b[w[j]] = b[w[k]]
    BY <1>8, <1>10, Zenon
  <2>2. w[j] = w[k]
    BY <1>3, <2>1, Zenon
  <2> QED
    BY <1>8, <2>2, Zenon
<1>13. \A t \in D : \E k \in 1 .. n : q[k] = t
  <2> SUFFICES ASSUME NEW t \in D PROVE \E k \in 1 .. n : q[k] = t
    OBVIOUS
  <2>1. PICK i \in 1 .. n : b[i] = t
    BY <1>3, Zenon
  <2>2. r[i] \in 1 .. n
    BY <1>7
  <2>3. q[r[i]] = t
    BY <1>9, <1>10, <2>1, <2>2, Zenon
  <2> QED
    BY <2>2, <2>3
<1>14. q \in Bijection(1 .. n, D)
  BY <1>11, <1>12, <1>13 DEF Bijection, Injection, Surjection, IsInjective
<1>15. ASSUME NEW j \in 1 .. n, NEW k \in 1 .. n, j < k PROVE f[q[j]] <= f[q[k]]
  <2>1. w[j] \in 1 .. n /\ w[k] \in 1 .. n /\ f[q[j]] = g[w[j]] /\ f[q[k]] = g[w[k]]
    BY <1>4, <1>8, <1>10
  <2>2. g[w[j]] \in Int /\ g[w[k]] \in Int
    BY <1>4, <2>1
  <2>3. ~(g[w[k]] < g[w[j]])
    <3> SUFFICES ASSUME g[w[k]] < g[w[j]] PROVE FALSE
      OBVIOUS
    <3>1. Cardinality(Standing(g, n, w[k])) < Cardinality(Standing(g, n, w[j]))
      BY <1>1, <1>4, <2>1, StandingLess
    <3>2. k < j
      BY <1>6, <1>8, <2>1, <3>1
    <3> QED
      BY <1>15, <3>2
  <2> QED
    BY <2>1, <2>2, <2>3
<1>16. Sorts(q, f)
  BY <1>14, <1>15 DEF Sorts, n
<1> QED
  BY <1>16

=============================================================================
