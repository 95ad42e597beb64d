-------------------------- MODULE PmuProfileProofs --------------------------
(***************************************************************************)
(* Machine-checked proofs about the totals of module PmuProfile: for every *)
(* group of counters, every number of calls and every number of events     *)
(* between any two system calls.                                           *)
(***************************************************************************)
EXTENDS PmuProfile, Integers, SequenceTheorems, TLAPS

-----------------------------------------------------------------------------
(* The counters visited *)

\* s lists elements of A, none of them twice.
Listed(s, A) ==
    /\ s \in Seq(A)
    /\ \A i, j \in 1 .. Len(s) : s[i] = s[j] => i = j

\* Two lists without a common element make one list.
LEMMA ListedConcat ==
    ASSUME NEW A, NEW B, A \cap B = {}, NEW s, NEW t, Listed(s, A), Listed(t, B)
    PROVE  Listed(s \o t, A \cup B)
<1>1. /\ s \in Seq(A \cup B) /\ t \in Seq(A \cup B)
      /\ Len(s) \in Nat /\ Len(t) \in Nat
      /\ \A i \in 1 .. Len(s) : s[i] \in A
      /\ \A i \in 1 .. Len(t) : t[i] \in B
  BY DEF Listed
<1>2. /\ s \o t \in Seq(A \cup B) /\ Len(s \o t) = Len(s) + Len(t)
      /\ \A i \in 1 .. Len(s) + Len(t) :
            (s \o t)[i] = IF i <= Len(s) THEN s[i] ELSE t[i - Len(s)]
  BY <1>1, ConcatProperties
<1>3. ASSUME NEW i \in 1 .. Len(s) + Len(t), NEW j \in 1 .. Len(s) + Len(t),
             (s \o t)[i] = (s \o t)[j]
      PROVE  i = j
  <2>1. CASE i <= Len(s) /\ j <= Len(s)
    BY <1>1, <1>2, <1>3, <2>1 DEF Listed
  <2>2. CASE i > Len(s) /\ j > Len(s)
    <3>1. i - Len(s) \in 1 .. Len(t) /\ j - Len(s) \in 1 .. Len(t)
      BY <1>1, <2>2
    <3>2. t[i - Len(s)] = t[j - Len(s)]
      BY <1>1, <1>2, <1>3, <2>2
    <3>3. i - Len(s) = j - Len(s)
      BY <3>1, <3>2 DEF Listed
    <3> QED
      BY <1>1, <3>3
  <2>3. CASE i <= Len(s) /\ j > Len(s)
    <3>1. s[i] \in A /\ t[j - Len(s)] \in B
      BY <1>1, <2>3
    <3> QED
      BY <1>1, <1>2, <1>3, <2>3, <3>1
  <2>4. CASE i > Len(s) /\ j <= Len(s)
    <3>1. s[j] \in A /\ t[i - Len(s)] \in B
      BY <1>1, <2>4
    <3> QED
      BY <1>1, <1>2, <1>3, <2>4, <3>1
  <2> QED
    BY <1>1, <2>1, <2>2, <2>3, <2>4
<1> QED
  BY <1>2, <1>3 DEF Listed

CoreNames == {"cycles", "instructions", "branches", "branch_misses", "page_faults"}
CacheNames == {"cache_references", "cache_misses"}
L1dNames == {"l1d_loads", "l1d_load_misses", "l1d_stores"}
LlcNames == {"llc_loads", "llc_load_misses", "llc_stores", "llc_store_misses"}

\* A scope visits every counter of its groups once.
LEMMA EnabledListed ==
    /\ Enabled \in Seq(Event) /\ Len(Enabled) \in Nat
    /\ \A i \in 1 .. Len(Enabled) : Enabled[i] \in Event
    /\ \A i, j \in 1 .. Len(Enabled) : Enabled[i] = Enabled[j] => i = j
    /\ \A e \in Event : \E i \in 1 .. Len(Enabled) : Enabled[i] = e
<1>1. Listed(Visited("core"), CoreNames)
  <2>1. Visited("core") = << >> \/ Visited("core") = <<"cycles", "instructions", "branches", "branch_misses", "page_faults">>
    BY DEF Visited, CountersOf
  <2>2. Listed(<< >>, CoreNames)
    BY DEF Listed
  <2>3. Listed(<<"cycles", "instructions", "branches", "branch_misses", "page_faults">>, CoreNames)
    BY DEF Listed, CoreNames
  <2> QED
    BY <2>1, <2>2, <2>3
<1>2. Listed(Visited("cache"), CacheNames)
  <2>1. Visited("cache") = << >> \/ Visited("cache") = <<"cache_references", "cache_misses">>
    BY DEF Visited, CountersOf
  <2>2. Listed(<< >>, CacheNames)
    BY DEF Listed
  <2>3. Listed(<<"cache_references", "cache_misses">>, CacheNames)
    BY DEF Listed, CacheNames
  <2> QED
    BY <2>1, <2>2, <2>3
<1>3. Listed(Visited("l1d"), L1dNames)
  <2>1. Visited("l1d") = << >> \/ Visited("l1d") = <<"l1d_loads", "l1d_load_misses", "l1d_stores">>
    BY DEF Visited, CountersOf
  <2>2. Listed(<< >>, L1dNames)
    BY DEF Listed
  <2>3. Listed(<<"l1d_loads", "l1d_load_misses", "l1d_stores">>, L1dNames)
    BY DEF Listed, L1dNames
  <2> QED
    BY <2>1, <2>2, <2>3
<1>4. Listed(Visited("llc"), LlcNames)
  <2>1. Visited("llc") = << >> \/ Visited("llc") = <<"llc_loads", "llc_load_misses", "llc_stores", "llc_store_misses">>
    BY DEF Visited, CountersOf
  <2>2. Listed(<< >>, LlcNames)
    BY DEF Listed
  <2>3. Listed(<<"llc_loads", "llc_load_misses", "llc_stores", "llc_store_misses">>, LlcNames)
    BY DEF Listed, LlcNames
  <2> QED
    BY <2>1, <2>2, <2>3
<1>5. Listed(Visited("core") \o Visited("cache"), CoreNames \cup CacheNames)
  <2>1. CoreNames \cap CacheNames = {}
    BY DEF CoreNames, CacheNames
  <2> QED
    BY <1>1, <1>2, <2>1, ListedConcat
<1>6. Listed(Visited("core") \o Visited("cache") \o Visited("l1d"),
             CoreNames \cup CacheNames \cup L1dNames)
  <2>1. (CoreNames \cup CacheNames) \cap L1dNames = {}
    BY DEF CoreNames, CacheNames, L1dNames
  <2> QED
    BY <1>3, <1>5, <2>1, ListedConcat
<1>7. Listed(Enabled, CoreNames \cup CacheNames \cup L1dNames \cup LlcNames)
  <2>1. (CoreNames \cup CacheNames \cup L1dNames) \cap LlcNames = {}
    BY DEF CoreNames, CacheNames, L1dNames, LlcNames
  <2> QED
    BY <1>4, <1>6, <2>1, ListedConcat DEF Enabled
<1>8. /\ Enabled \in Seq(CoreNames \cup CacheNames \cup L1dNames \cup LlcNames)
      /\ \A i, j \in 1 .. Len(Enabled) : Enabled[i] = Enabled[j] => i = j
  BY <1>7 DEF Listed
<1>9. DOMAIN Enabled = 1 .. Len(Enabled) /\ Len(Enabled) \in Nat
      /\ Enabled = [i \in 1 .. Len(Enabled) |-> Enabled[i]]
  BY <1>8, LenProperties
<1>10. /\ \A i \in 1 .. Len(Enabled) : Enabled[i] \in Event
       /\ \A e \in Event : \E i \in 1 .. Len(Enabled) : Enabled[i] = e
  BY <1>9 DEF Event, ToSet
<1>11. Enabled \in Seq(Event)
  BY <1>9, <1>10, SeqDef
<1> QED
  BY <1>8, <1>9, <1>10, <1>11

-----------------------------------------------------------------------------
(* The inductive invariant *)

Phases == {"outside", "reset", "enable", "body", "disable", "read"}

\* The phases in which the counters are visited one by one.
Visiting == {"reset", "enable", "disable", "read"}

ProfileTypes ==
    /\ pc \in Phases /\ k \in Nat /\ k >= 1
    /\ IF pc \in Visiting THEN k <= Len(Enabled) ELSE k = 1
    /\ fd \in [Event -> {"none", "open", "failed"}]
    /\ counter \in [Event -> Nat] /\ counting \in [Event -> BOOLEAN]
    /\ totals \in [Event -> Nat] /\ body \in [Event -> Nat] /\ window \in [Event -> Nat]
    /\ missed \in [Event -> Nat]

\* The i-th counter runs at place n of phase p.
Runs(p, n, i) == p = "body" \/ (p = "enable" /\ i < n) \/ (p = "disable" /\ i >= n)

\* The i-th counter holds what this call has still to add to its total.
Due(p, n, i) ==
    p \in {"enable", "body", "disable"} \/ (p = "reset" /\ i < n) \/ (p = "read" /\ i >= n)

\* The i-th counter has been visited at least once.
Built(p, n, i) == p \in {"enable", "body", "disable", "read"} \/ (p = "reset" /\ i < n)

\* The events accounted for: in the total if the counter is read now, or missed.
Owed(p, n, i, total, value, miss) ==
    IF Due(p, n, i) THEN total + value + miss ELSE total + miss

\* A counter at place n of phase p: whether it runs, and which events its total, the
\* events in the counter that are still to be added and the missed ones cover together.
CounterRight(p, n, i, f, value, runs, total, inside, within, miss) ==
    /\ (runs = TRUE) <=> (f = "open" /\ Runs(p, n, i))
    /\ Built(p, n, i) => f # "none"
    /\ f = "none" => inside = 0
    /\ f # "open" => total = 0 /\ miss = 0
    /\ f = "open" =>
        /\ Owed(p, n, i, total, value, miss) <= within
        /\ inside <= Owed(p, n, i, total, value, miss)

EachRight ==
    \A i \in 1 .. Len(Enabled) :
        CounterRight(pc, k, i, fd[Enabled[i]], counter[Enabled[i]], counting[Enabled[i]],
                     totals[Enabled[i]], body[Enabled[i]], window[Enabled[i]],
                     missed[Enabled[i]])

ProfileInv == ProfileTypes /\ EachRight

-----------------------------------------------------------------------------
(* Initial states and steps *)

\* ProfileInv holds before any counter is opened.
LEMMA ProfileInit == Init => ProfileInv
<1> SUFFICES ASSUME Init PROVE ProfileInv
  OBVIOUS
<1>1. ProfileTypes
  BY DEF Init, ProfileTypes, Phases, Visiting, Zero
<1>2. ASSUME NEW i \in 1 .. Len(Enabled)
      PROVE  CounterRight(pc, k, i, fd[Enabled[i]], counter[Enabled[i]], counting[Enabled[i]],
                          totals[Enabled[i]], body[Enabled[i]], window[Enabled[i]],
                          missed[Enabled[i]])
  <2>1. Enabled[i] \in Event
    BY EnabledListed
  <2>2. fd[Enabled[i]] = "none" /\ ~counting[Enabled[i]] /\ totals[Enabled[i]] = 0
        /\ missed[Enabled[i]] = 0
        /\ body[Enabled[i]] = 0 /\ pc = "outside"
    BY <2>1 DEF Init, Zero
  <2> QED
    BY <2>2 DEF CounterRight, Runs, Built
<1> QED
  BY <1>1, <1>2 DEF ProfileInv, EachRight

\* What an event does to the count and the missed events, and to what is to be counted.
Counts(p, runs, value, value1, miss, miss1, inside, inside1, within, within1) ==
    /\ \/ runs = TRUE /\ value1 = value + 1 /\ miss1 = miss
       \/ runs = TRUE /\ value1 = value /\ miss1 = miss + 1
       \/ runs # TRUE /\ value1 = value /\ miss1 = miss
    /\ inside1 = IF p = "body" THEN inside + 1 ELSE inside
    /\ within1 = IF p = "outside" THEN within ELSE within + 1

\* An event of one counter: it is counted or missed if the counter runs, and the
\* counter runs inside the profiled function.
LEMMA EventStep ==
    ASSUME NEW p, NEW n, NEW i, NEW f, NEW value \in Nat,
           NEW runs \in BOOLEAN, NEW total \in Nat, NEW inside \in Nat, NEW within \in Nat,
           NEW miss \in Nat,
           CounterRight(p, n, i, f, value, runs, total, inside, within, miss),
           NEW value1, NEW inside1, NEW within1, NEW miss1,
           Counts(p, runs, value, value1, miss, miss1, inside, inside1, within, within1)
    PROVE  CounterRight(p, n, i, f, value1, runs, total, inside1, within1, miss1)
<1>0. /\ inside1 = IF p = "body" THEN inside + 1 ELSE inside
      /\ within1 = IF p = "outside" THEN within ELSE within + 1
  BY Zenon DEF Counts
<1>1. CASE f # "open"
  <2>1. runs # TRUE
    BY <1>1, Zenon DEF CounterRight
  <2>2. value1 = value /\ miss1 = miss
    BY <2>1, Zenon DEF Counts
  <2> QED
    BY <1>0, <1>1, <2>2 DEF CounterRight, Built, Runs
<1>2. CASE f = "open" /\ runs = TRUE
  <2>1. Runs(p, n, i) /\ Due(p, n, i) /\ p # "outside"
    BY <1>2 DEF CounterRight, Runs, Due
  <2>2. total + value + miss <= within /\ inside <= total + value + miss
    BY <1>2, <2>1 DEF CounterRight, Owed
  <2>3. value1 + miss1 = value + miss + 1 /\ value1 \in Nat /\ miss1 \in Nat
    <3>1. \/ value1 = value + 1 /\ miss1 = miss
          \/ value1 = value /\ miss1 = miss + 1
      BY <1>2, Zenon DEF Counts
    <3> QED
      BY <3>1
  <2>4. within1 = within + 1 /\ inside1 \in Nat /\ inside1 <= inside + 1
    BY <1>0, <2>1
  <2>5. Owed(p, n, i, total, value1, miss1) = total + value1 + miss1
    BY <2>1, Zenon DEF Owed
  <2>6. /\ Owed(p, n, i, total, value1, miss1) <= within1
        /\ inside1 <= Owed(p, n, i, total, value1, miss1)
    BY <2>2, <2>3, <2>4, <2>5
  <2> QED
    BY <1>2, <2>1, <2>6, Zenon DEF CounterRight
<1>3. CASE f = "open" /\ runs # TRUE
  <2>1. p # "body"
    BY <1>3 DEF CounterRight, Runs
  <2>2. Owed(p, n, i, total, value, miss) \in Nat
    BY DEF Owed
  <2>3. value1 = value /\ miss1 = miss
    BY <1>3, Zenon DEF Counts
  <2>4. inside1 = inside
    BY <1>0, <2>1, Zenon
  <2>5. within1 \in Nat /\ within <= within1
    BY <1>0
  <2>6. Owed(p, n, i, total, value, miss) <= within
        => Owed(p, n, i, total, value1, miss1) <= within1
    BY <2>2, <2>3, <2>5
  <2> QED
    BY <1>3, <2>3, <2>4, <2>6 DEF CounterRight
<1> QED
  BY <1>1, <1>2, <1>3

\* An event, counted or missed if its counter runs: the only step inside the profiled
\* function.
LEMMA HappensInv ==
    ASSUME ProfileInv, NEW e \in Event, Happens(e)
    PROVE  ProfileInv'
<1>0. ProfileTypes /\ EachRight
  BY DEF ProfileInv
<1>1. ProfileTypes'
  <2>1. /\ counter' \in [Event -> Nat] /\ body' \in [Event -> Nat] /\ window' \in [Event -> Nat]
        /\ missed' \in [Event -> Nat]
    <3>1. body' \in [Event -> Nat] /\ window' \in [Event -> Nat]
      BY <1>0 DEF ProfileTypes, Happens
    <3>2. CASE counter' = [counter EXCEPT ![e] = @ + 1] /\ UNCHANGED missed
      BY <1>0, <3>1, <3>2 DEF ProfileTypes
    <3>3. CASE missed' = [missed EXCEPT ![e] = @ + 1] /\ UNCHANGED counter
      BY <1>0, <3>1, <3>3 DEF ProfileTypes
    <3>4. CASE UNCHANGED <<counter, missed>>
      BY <1>0, <3>1, <3>4 DEF ProfileTypes
    <3> QED
      BY <3>2, <3>3, <3>4 DEF Happens
  <2>2. UNCHANGED <<pc, k, fd, counting, totals>>
    BY DEF Happens, sums
  <2> QED
    BY <1>0, <2>1, <2>2, Zenon DEF ProfileTypes
<1>2. ASSUME NEW i \in 1 .. Len(Enabled)
      PROVE  CounterRight(pc, k, i, fd[Enabled[i]], counter[Enabled[i]], counting[Enabled[i]],
                          totals[Enabled[i]], body[Enabled[i]], window[Enabled[i]],
                          missed[Enabled[i]])'
  <2> DEFINE x == Enabled[i]
  <2>1. x \in Event
    BY EnabledListed
  <2>2. CounterRight(pc, k, i, fd[x], counter[x], counting[x], totals[x], body[x], window[x],
                     missed[x])
    BY <1>0 DEF EachRight
  <2>3. /\ counter[x] \in Nat /\ counting[x] \in BOOLEAN /\ totals[x] \in Nat /\ body[x] \in Nat
        /\ window[x] \in Nat /\ missed[x] \in Nat /\ pc \in Phases
    BY <1>0, <2>1 DEF ProfileTypes
  <2>4. pc' = pc /\ k' = k /\ fd' = fd /\ counting' = counting /\ totals' = totals
    BY DEF Happens, sums
  <2>5. CASE x = e
    <3>1. /\ \/ counting[x] = TRUE /\ counter'[x] = counter[x] + 1 /\ missed'[x] = missed[x]
             \/ counting[x] = TRUE /\ counter'[x] = counter[x] /\ missed'[x] = missed[x] + 1
             \/ counting[x] # TRUE /\ counter'[x] = counter[x] /\ missed'[x] = missed[x]
          /\ body'[x] = (IF pc = "body" THEN body[x] + 1 ELSE body[x])
          /\ window'[x] = (IF pc = "outside" THEN window[x] ELSE window[x] + 1)
      <4>1. /\ body'[x] = (IF pc = "body" THEN body[x] + 1 ELSE body[x])
            /\ window'[x] = (IF pc = "outside" THEN window[x] ELSE window[x] + 1)
        BY <1>0, <2>1, <2>5 DEF Happens, ProfileTypes
      <4>2. CASE counting[e] /\ counter' = [counter EXCEPT ![e] = @ + 1] /\ UNCHANGED missed
        <5>1. counter'[x] = counter[x] + 1 /\ missed'[x] = missed[x]
          BY <1>0, <2>1, <2>5, <4>2 DEF ProfileTypes
        <5>2. counting[x] = TRUE
          BY <2>3, <2>5, <4>2, Zenon
        <5> QED
          BY <4>1, <5>1, <5>2, Zenon
      <4>3. CASE counting[e] /\ missed' = [missed EXCEPT ![e] = @ + 1] /\ UNCHANGED counter
        <5>1. counter'[x] = counter[x] /\ missed'[x] = missed[x] + 1
          BY <1>0, <2>1, <2>5, <4>3 DEF ProfileTypes
        <5>2. counting[x] = TRUE
          BY <2>3, <2>5, <4>3, Zenon
        <5> QED
          BY <4>1, <5>1, <5>2, Zenon
      <4>4. CASE ~counting[e] /\ UNCHANGED <<counter, missed>>
        <5>1. counter'[x] = counter[x] /\ missed'[x] = missed[x]
          BY <4>4
        <5>2. counting[x] # TRUE
          BY <2>3, <2>5, <4>4, Zenon
        <5> QED
          BY <4>1, <5>1, <5>2, Zenon
      <4> QED
        BY <4>2, <4>3, <4>4 DEF Happens
    <3>2. CounterRight(pc, k, i, fd[x], counter'[x], counting[x], totals[x], body'[x], window'[x],
                       missed'[x])
      <4> HIDE DEF x
      <4>1. Counts(pc, counting[x], counter[x], counter'[x], missed[x], missed'[x],
                   body[x], body'[x], window[x], window'[x])
        BY <3>1, Zenon DEF Counts
      <4> QED
        BY <2>2, <2>3, <4>1, EventStep
    <3> QED
      BY <2>4, <3>2
  <2>6. CASE x # e
    <3>1. /\ counter'[x] = counter[x] /\ body'[x] = body[x] /\ window'[x] = window[x]
          /\ missed'[x] = missed[x]
      BY <1>0, <2>1, <2>6 DEF Happens, ProfileTypes
    <3> QED
      BY <2>2, <2>4, <3>1
  <2> QED
    BY <2>5, <2>6
<1> QED
  BY <1>1, <1>2 DEF ProfileInv, EachRight

-----------------------------------------------------------------------------
(* Visiting the counters *)

\* The phase behind one in which the counters are visited.
Following == [reset |-> "enable", enable |-> "body", disable |-> "read", read |-> "outside"]

\* From place n of phase p of N counters to the next one.
Moves(N, p, n, p1, n1) ==
    IF n < N THEN p1 = p /\ n1 = n + 1 ELSE p1 = Following[p] /\ n1 = 1

\* The same for each phase by itself.
LEMMA MovesIn ==
    ASSUME NEW N, NEW n, NEW p1, NEW n1
    PROVE  /\ Moves(N, "reset", n, p1, n1) =>
                IF n < N THEN p1 = "reset" /\ n1 = n + 1 ELSE p1 = "enable" /\ n1 = 1
           /\ Moves(N, "enable", n, p1, n1) =>
                IF n < N THEN p1 = "enable" /\ n1 = n + 1 ELSE p1 = "body" /\ n1 = 1
           /\ Moves(N, "disable", n, p1, n1) =>
                IF n < N THEN p1 = "disable" /\ n1 = n + 1 ELSE p1 = "read" /\ n1 = 1
           /\ Moves(N, "read", n, p1, n1) =>
                IF n < N THEN p1 = "read" /\ n1 = n + 1 ELSE p1 = "outside" /\ n1 = 1
BY DEF Moves, Following

\* A visit moves no counter but the one visited.
LEMMA Elsewhere ==
    ASSUME NEW N \in Nat, NEW n \in 1 .. N, NEW i \in 1 .. N, i # n,
           NEW p \in Visiting, NEW p1, NEW n1, Moves(N, p, n, p1, n1)
    PROVE  /\ Runs(p1, n1, i) <=> Runs(p, n, i)
           /\ Due(p1, n1, i) <=> Due(p, n, i)
           /\ Built(p1, n1, i) => Built(p, n, i)
<1>1. CASE p = "reset"
  BY <1>1, MovesIn DEF Runs, Due, Built
<1>2. CASE p = "enable"
  BY <1>2, MovesIn DEF Runs, Due, Built
<1>3. CASE p = "disable"
  BY <1>3, MovesIn DEF Runs, Due, Built
<1>4. CASE p = "read"
  BY <1>4, MovesIn DEF Runs, Due, Built
<1> QED
  BY <1>1, <1>2, <1>3, <1>4 DEF Visiting

\* The counter that is visited, before the visit and after it.
LEMMA AtPlace ==
    ASSUME NEW N \in Nat, NEW n \in 1 .. N, NEW p \in Visiting, NEW p1, NEW n1,
           Moves(N, p, n, p1, n1)
    PROVE  /\ Runs(p, n, n) <=> p = "disable"
           /\ Runs(p1, n1, n) <=> p = "enable"
           /\ Due(p, n, n) <=> p # "reset"
           /\ Due(p1, n1, n) <=> p # "read"
           /\ Built(p, n, n) <=> p # "reset"
<1>1. CASE p = "reset"
  BY <1>1, MovesIn DEF Runs, Due, Built
<1>2. CASE p = "enable"
  BY <1>2, MovesIn DEF Runs, Due, Built
<1>3. CASE p = "disable"
  BY <1>3, MovesIn DEF Runs, Due, Built
<1>4. CASE p = "read"
  BY <1>4, MovesIn DEF Runs, Due, Built
<1> QED
  BY <1>1, <1>2, <1>3, <1>4 DEF Visiting

\* Where a visit leads.
LEMMA AdvanceMoves ==
    ASSUME ProfileTypes, pc \in Visiting, Advance(Following[pc])
    PROVE  /\ Moves(Len(Enabled), pc, k, pc', k')
           /\ k \in 1 .. Len(Enabled) /\ Len(Enabled) \in Nat /\ e_k \in Event /\ e_k = Enabled[k]
           /\ pc' \in Phases /\ k' \in Nat /\ k' >= 1
           /\ IF pc' \in Visiting THEN k' <= Len(Enabled) ELSE k' = 1
<1>1. Len(Enabled) \in Nat
  BY EnabledListed
<1>2. k \in 1 .. Len(Enabled) /\ k \in Nat
  BY <1>1 DEF ProfileTypes
<1>3. e_k \in Event /\ e_k = Enabled[k]
  BY <1>2, EnabledListed DEF e_k
<1>4. Moves(Len(Enabled), pc, k, pc', k')
  BY DEF Moves, Advance
<1>5. Following[pc] \in Phases
  BY DEF Following, Visiting, Phases
<1>6. CASE k < Len(Enabled)
  <2>1. pc' = pc /\ k' = k + 1
    BY <1>6 DEF Advance
  <2>2. k' \in Nat /\ k' >= 1 /\ k' <= Len(Enabled)
    BY <1>1, <1>2, <1>6, <2>1
  <2> QED
    BY <1>1, <1>2, <1>3, <1>4, <2>1, <2>2, Zenon DEF ProfileTypes
<1>7. CASE ~(k < Len(Enabled))
  <2>1. pc' = Following[pc] /\ k' = 1 /\ 1 <= Len(Enabled)
    BY <1>1, <1>2, <1>7 DEF Advance
  <2>2. k' \in Nat /\ k' >= 1
    BY <2>1
  <2> QED
    BY <1>1, <1>2, <1>3, <1>4, <1>5, <2>1, <2>2
<1> QED
  BY <1>6, <1>7

\* A visit of counter k: the others are right as they were, and what is left to show
\* is that the one visited is.
LEMMA Visit ==
    ASSUME ProfileInv, pc \in Visiting, Advance(Following[pc]),
           fd' = fd, body' = body, window' = window,
           counter' \in [Event -> Nat], counting' \in [Event -> BOOLEAN],
           totals' \in [Event -> Nat], missed' \in [Event -> Nat],
           \A e \in Event \ {e_k} :
                /\ counter'[e] = counter[e] /\ counting'[e] = counting[e]
                /\ totals'[e] = totals[e] /\ missed'[e] = missed[e],
           CounterRight(pc', k', k, fd[e_k], counter'[e_k], counting'[e_k], totals'[e_k],
                        body[e_k], window[e_k], missed'[e_k])
    PROVE  ProfileInv'
<1>0. ProfileTypes /\ EachRight
  BY DEF ProfileInv
<1>1. /\ Moves(Len(Enabled), pc, k, pc', k')
      /\ k \in 1 .. Len(Enabled) /\ Len(Enabled) \in Nat /\ e_k \in Event /\ e_k = Enabled[k]
      /\ pc' \in Phases /\ k' \in Nat /\ k' >= 1
      /\ IF pc' \in Visiting THEN k' <= Len(Enabled) ELSE k' = 1
  BY <1>0, AdvanceMoves
<1>2. ProfileTypes'
  BY <1>0, <1>1, Zenon DEF ProfileTypes
<1>3. ASSUME NEW i \in 1 .. Len(Enabled), i # k
      PROVE  CounterRight(pc', k', i, fd[Enabled[i]], counter'[Enabled[i]], counting'[Enabled[i]],
                          totals'[Enabled[i]], body[Enabled[i]], window[Enabled[i]],
                          missed'[Enabled[i]])
  <2> DEFINE x == Enabled[i]
  <2>1. x \in Event \ {e_k}
    BY <1>1, <1>3, EnabledListed
  <2>2. CounterRight(pc, k, i, fd[x], counter[x], counting[x], totals[x], body[x], window[x],
                     missed[x])
    BY <1>0 DEF EachRight
  <2>3. /\ counter'[x] = counter[x] /\ counting'[x] = counting[x]
        /\ totals'[x] = totals[x] /\ missed'[x] = missed[x]
    BY <2>1
  <2> HIDE DEF x
  <2>4. /\ Runs(pc', k', i) <=> Runs(pc, k, i)
        /\ Due(pc', k', i) <=> Due(pc, k, i)
        /\ Built(pc', k', i) => Built(pc, k, i)
    BY <1>1, <1>3, Elsewhere
  <2>5. Owed(pc', k', i, totals[x], counter[x], missed[x]) = Owed(pc, k, i, totals[x], counter[x], missed[x])
    BY <2>4, Zenon DEF Owed
  <2>6. CounterRight(pc', k', i, fd[x], counter[x], counting[x], totals[x], body[x], window[x],
                     missed[x])
    <3>1. counting[x] = TRUE <=> fd[x] = "open" /\ Runs(pc', k', i)
      BY <2>2, <2>4, Zenon DEF CounterRight
    <3>2. /\ Built(pc', k', i) => fd[x] # "none"
          /\ fd[x] = "none" => body[x] = 0
          /\ fd[x] # "open" => totals[x] = 0 /\ missed[x] = 0
      BY <2>2, <2>4, Zenon DEF CounterRight
    <3>3. fd[x] = "open" =>
            /\ Owed(pc', k', i, totals[x], counter[x], missed[x]) <= window[x]
            /\ body[x] <= Owed(pc', k', i, totals[x], counter[x], missed[x])
      BY <2>2, <2>3, <2>5 DEF CounterRight
    <3> QED
      BY <3>1, <3>2, <3>3, Zenon DEF CounterRight
  <2>7. CounterRight(pc', k', i, fd[x], counter'[x], counting'[x], totals'[x], body[x], window[x],
                     missed'[x])
    <3>1. /\ counter'[x] = counter[x] /\ counting'[x] = counting[x] /\ totals'[x] = totals[x]
          /\ missed'[x] = missed[x]
      BY <2>3, Zenon
    <3> QED
      BY <2>6, <3>1, SMT
  <2> QED
    BY <2>7 DEF x
<1>4. EachRight'
  <2> SUFFICES ASSUME NEW i \in 1 .. Len(Enabled)
               PROVE  CounterRight(pc', k', i, fd'[Enabled[i]], counter'[Enabled[i]],
                                   counting'[Enabled[i]], totals'[Enabled[i]], body'[Enabled[i]],
                                   window'[Enabled[i]], missed'[Enabled[i]])
    BY DEF EachRight
  <2>1. CASE i = k
    BY <1>1, <2>1, Zenon
  <2>2. CASE i # k
    BY <1>3, <2>2, Zenon
  <2> QED
    BY <2>1, <2>2
<1> QED
  BY <1>2, <1>4 DEF ProfileInv

\* What the invariant says of the counter whose turn it is, with the phase it goes to.
LEMMA VisitedCounter ==
    ASSUME ProfileInv, pc \in Visiting, Advance(Following[pc])
    PROVE  /\ CounterRight(pc, k, k, fd[e_k], counter[e_k], counting[e_k], totals[e_k],
                           body[e_k], window[e_k], missed[e_k])
           /\ e_k \in Event
           /\ counter[e_k] \in Nat /\ counting[e_k] \in BOOLEAN /\ totals[e_k] \in Nat
           /\ body[e_k] \in Nat /\ window[e_k] \in Nat /\ missed[e_k] \in Nat
           /\ (Runs(pc, k, k) <=> pc = "disable")
           /\ (Runs(pc', k', k) <=> pc = "enable")
           /\ (Due(pc, k, k) <=> pc # "reset")
           /\ (Due(pc', k', k) <=> pc # "read")
           /\ (Built(pc, k, k) <=> pc # "reset")
<1>0. ProfileTypes /\ EachRight
  BY DEF ProfileInv
<1>1. /\ Moves(Len(Enabled), pc, k, pc', k')
      /\ k \in 1 .. Len(Enabled) /\ Len(Enabled) \in Nat /\ e_k \in Event /\ e_k = Enabled[k]
  BY <1>0, AdvanceMoves
<1>2. CounterRight(pc, k, k, fd[e_k], counter[e_k], counting[e_k], totals[e_k],
                   body[e_k], window[e_k], missed[e_k])
  BY <1>0, <1>1, Zenon DEF EachRight
<1>3. /\ counter[e_k] \in Nat /\ counting[e_k] \in BOOLEAN /\ totals[e_k] \in Nat
      /\ body[e_k] \in Nat /\ window[e_k] \in Nat /\ missed[e_k] \in Nat
  BY <1>0, <1>1 DEF ProfileTypes
<1>4. /\ (Runs(pc, k, k) <=> pc = "disable")
      /\ (Runs(pc', k', k) <=> pc = "enable")
      /\ (Due(pc, k, k) <=> pc # "reset")
      /\ (Due(pc', k', k) <=> pc # "read")
      /\ (Built(pc, k, k) <=> pc # "reset")
  BY <1>1, AtPlace
<1> QED
  BY <1>1, <1>2, <1>3, <1>4

\* A counter built on its first visit: there was no call before it.
LEMMA ConstructInv ==
    ASSUME ProfileInv, Construct
    PROVE  ProfileInv'
<1>0. ProfileTypes /\ EachRight
  BY DEF ProfileInv
<1>1. pc = "reset" /\ fd[e_k] = "none" /\ UNCHANGED <<pc, k, counter, counting, totals, body, window, missed>>
  BY DEF Construct, sums, past
<1>2. k \in 1 .. Len(Enabled) /\ k \in Nat /\ Len(Enabled) \in Nat
  BY <1>0, <1>1, EnabledListed DEF ProfileTypes, Visiting
<1>3. e_k \in Event /\ e_k = Enabled[k]
  BY <1>2, EnabledListed DEF e_k
<1>4. PICK result \in {"open", "failed"} : fd' = [fd EXCEPT ![e_k] = result]
  BY DEF Construct
<1>5. fd' \in [Event -> {"none", "open", "failed"}] /\ fd'[e_k] = result
      /\ \A e \in Event \ {e_k} : fd'[e] = fd[e]
  BY <1>0, <1>3, <1>4 DEF ProfileTypes
<1>6. ProfileTypes'
  BY <1>0, <1>1, <1>5, Zenon DEF ProfileTypes
<1>7. ASSUME NEW i \in 1 .. Len(Enabled)
      PROVE  CounterRight(pc, k, i, fd'[Enabled[i]], counter[Enabled[i]], counting[Enabled[i]],
                          totals[Enabled[i]], body[Enabled[i]], window[Enabled[i]],
                          missed[Enabled[i]])
  <2> DEFINE x == Enabled[i]
  <2>1. CounterRight(pc, k, i, fd[x], counter[x], counting[x], totals[x], body[x], window[x],
                     missed[x])
    BY <1>0 DEF EachRight
  <2>2. x \in Event
    BY EnabledListed
  <2>3. CASE i = k
    <3>1. x = e_k
      BY <1>3, <2>3
    <3>2. window[x] \in Nat /\ counting[x] \in BOOLEAN
      BY <1>0, <2>2 DEF ProfileTypes
    <3> HIDE DEF x
    <3>3. counting[x] # TRUE /\ body[x] = 0 /\ totals[x] = 0 /\ missed[x] = 0
      BY <1>1, <2>1, <3>1 DEF CounterRight
    <3>4. ~Runs(pc, k, i) /\ ~Due(pc, k, i) /\ ~Built(pc, k, i)
      BY <1>1, <1>2, <2>3 DEF Runs, Due, Built
    <3>5. Owed(pc, k, i, totals[x], counter[x], missed[x]) = 0
      BY <3>3, <3>4 DEF Owed
    <3>6. fd'[x] = "open" \/ fd'[x] = "failed"
      BY <1>5, <3>1
    <3>7. fd'[x] # "none"
      BY <3>6
    <3>8. 0 <= window[x] /\ body[x] <= 0
      BY <3>2, <3>3
    <3> QED
      BY <3>3, <3>4, <3>5, <3>7, <3>8, Zenon DEF CounterRight, x
  <2>4. CASE i # k
    <3>1. fd'[x] = fd[x]
      <4>1. x # e_k
        BY <1>2, <1>3, <2>4, EnabledListed
      <4> HIDE DEF x
      <4> QED
        BY <1>5, <2>2, <4>1
    <3> QED
      BY <2>1, <3>1
  <2> QED
    BY <2>3, <2>4
<1>8. EachRight'
  <2> SUFFICES ASSUME NEW i \in 1 .. Len(Enabled)
               PROVE  CounterRight(pc', k', i, fd'[Enabled[i]], counter'[Enabled[i]],
                                   counting'[Enabled[i]], totals'[Enabled[i]], body'[Enabled[i]],
                                   window'[Enabled[i]], missed'[Enabled[i]])
    BY DEF EachRight
  <2> QED
    BY <1>1, <1>7
<1> QED
  BY <1>6, <1>8 DEF ProfileInv

\* A counter reset: from here on what it counts belongs to this call.
LEMMA ResetInv ==
    ASSUME ProfileInv, Reset
    PROVE  ProfileInv'
<1>0. ProfileTypes
  BY DEF ProfileInv
<1>1. pc = "reset" /\ fd[e_k] # "none" /\ UNCHANGED <<fd, counting, totals, body, window, missed>>
  BY DEF Reset, sums, past
<1>2. pc \in Visiting /\ Following[pc] = "enable"
  BY <1>1 DEF Visiting, Following
<1>3. Advance(Following[pc])
  BY <1>2, Zenon DEF Reset
<1>4. /\ CounterRight(pc, k, k, fd[e_k], counter[e_k], counting[e_k], totals[e_k],
                      body[e_k], window[e_k], missed[e_k])
      /\ e_k \in Event
      /\ counter[e_k] \in Nat /\ counting[e_k] \in BOOLEAN /\ totals[e_k] \in Nat
      /\ body[e_k] \in Nat /\ window[e_k] \in Nat /\ missed[e_k] \in Nat
      /\ ~Runs(pc, k, k) /\ ~Runs(pc', k', k) /\ ~Due(pc, k, k) /\ Due(pc', k', k)
  BY <1>1, <1>2, <1>3, VisitedCounter
<1>5. counter' = [counter EXCEPT ![e_k] = IF IsOpen THEN 0 ELSE @]
  BY DEF Reset
<1>6. /\ counter' \in [Event -> Nat] /\ counter'[e_k] = IF fd[e_k] = "open" THEN 0 ELSE counter[e_k]
      /\ \A e \in Event \ {e_k} : counter'[e] = counter[e]
  BY <1>0, <1>4, <1>5 DEF ProfileTypes, IsOpen
<1>7. CounterRight(pc', k', k, fd[e_k], counter'[e_k], counting[e_k], totals[e_k],
                   body[e_k], window[e_k], missed[e_k])
  <2>1. CASE fd[e_k] = "open"
    <3>1. Owed(pc', k', k, totals[e_k], counter'[e_k], missed[e_k])
          = Owed(pc, k, k, totals[e_k], counter[e_k], missed[e_k])
      <4>1. Owed(pc', k', k, totals[e_k], counter'[e_k], missed[e_k]) = totals[e_k] + 0 + missed[e_k]
        BY <1>4, <1>6, <2>1 DEF Owed
      <4>2. Owed(pc, k, k, totals[e_k], counter[e_k], missed[e_k]) = totals[e_k] + missed[e_k]
        BY <1>4 DEF Owed
      <4> QED
        BY <1>4, <4>1, <4>2
    <3> QED
      BY <1>1, <1>4, <2>1, <3>1 DEF CounterRight
  <2>2. CASE fd[e_k] # "open"
    BY <1>1, <1>4, <2>2 DEF CounterRight
  <2> QED
    BY <2>1, <2>2
<1> QED
  <2>1. counting' \in [Event -> BOOLEAN] /\ totals' \in [Event -> Nat] /\ missed' \in [Event -> Nat]
    BY <1>0, <1>1 DEF ProfileTypes
  <2>2. \A e \in Event \ {e_k} :
            /\ counter'[e] = counter[e] /\ counting'[e] = counting[e]
            /\ totals'[e] = totals[e] /\ missed'[e] = missed[e]
    BY <1>1, <1>6
  <2>3. CounterRight(pc', k', k, fd[e_k], counter'[e_k], counting'[e_k], totals'[e_k],
                     body[e_k], window[e_k], missed'[e_k])
    BY <1>1, <1>7
  <2> QED
    BY <1>1, <1>2, <1>3, <1>6, <2>1, <2>2, <2>3, Visit

\* A counter switched on or off: what it counted is still due.
LEMMA SwitchInv ==
    ASSUME ProfileInv, Enable \/ Disable
    PROVE  ProfileInv'
<1>0. ProfileTypes
  BY DEF ProfileInv
<1>1. UNCHANGED <<fd, counter, totals, body, window, missed>>
  BY DEF Enable, Disable, sums, past
<1>2. /\ pc \in Visiting /\ Advance(Following[pc]) /\ (pc = "enable" \/ pc = "disable")
      /\ counting' = [counting EXCEPT ![e_k] = (pc = "enable" /\ fd[e_k] = "open")]
  <2>1. CASE Enable
    <3>1. pc = "enable" /\ Advance("body") /\ counting' = [counting EXCEPT ![e_k] = IsOpen]
      BY <2>1 DEF Enable
    <3>2. pc \in Visiting /\ Following[pc] = "body"
      BY <3>1 DEF Visiting, Following
    <3>3. IsOpen = (pc = "enable" /\ fd[e_k] = "open")
      BY <3>1, Zenon DEF IsOpen
    <3> QED
      BY <3>1, <3>2, <3>3, Zenon
  <2>2. CASE Disable
    <3>1. pc = "disable" /\ Advance("read") /\ counting' = [counting EXCEPT ![e_k] = FALSE]
      BY <2>2 DEF Disable
    <3>2. pc \in Visiting /\ Following[pc] = "read" /\ pc # "enable"
      BY <3>1 DEF Visiting, Following
    <3>3. FALSE = (pc = "enable" /\ fd[e_k] = "open")
      BY <3>2, Zenon
    <3> QED
      BY <3>1, <3>2, <3>3, Zenon
  <2> QED
    BY <2>1, <2>2
<1>3. /\ CounterRight(pc, k, k, fd[e_k], counter[e_k], counting[e_k], totals[e_k],
                      body[e_k], window[e_k], missed[e_k])
      /\ e_k \in Event
      /\ (Runs(pc', k', k) <=> pc = "enable")
      /\ Due(pc, k, k) /\ Due(pc', k', k) /\ Built(pc, k, k)
  BY <1>2, VisitedCounter
<1>4. /\ counting' \in [Event -> BOOLEAN]
      /\ (counting'[e_k] = TRUE) <=> (pc = "enable" /\ fd[e_k] = "open")
      /\ \A e \in Event \ {e_k} : counting'[e] = counting[e]
  <2> DEFINE on == (pc = "enable" /\ fd[e_k] = "open")
  <2>1. on \in BOOLEAN
    OBVIOUS
  <2>2. counting' = [counting EXCEPT ![e_k] = on]
    BY <1>2
  <2> HIDE DEF on
  <2>3. counting \in [Event -> BOOLEAN]
    BY <1>0 DEF ProfileTypes
  <2>4. counting' \in [Event -> BOOLEAN] /\ counting'[e_k] = on
        /\ \A e \in Event \ {e_k} : counting'[e] = counting[e]
    BY <1>3, <2>1, <2>2, <2>3
  <2> QED
    BY <2>1, <2>4, Zenon DEF on
<1>5. CounterRight(pc', k', k, fd[e_k], counter[e_k], counting'[e_k], totals[e_k],
                   body[e_k], window[e_k], missed[e_k])
  <2>1. Owed(pc', k', k, totals[e_k], counter[e_k], missed[e_k])
        = Owed(pc, k, k, totals[e_k], counter[e_k], missed[e_k])
    BY <1>3, Zenon DEF Owed
  <2>2. (counting'[e_k] = TRUE) <=> (fd[e_k] = "open" /\ Runs(pc', k', k))
    BY <1>3, <1>4, Zenon
  <2>3. fd[e_k] # "none"
    BY <1>3, Zenon DEF CounterRight
  <2>4. fd[e_k] = "open" =>
            /\ Owed(pc', k', k, totals[e_k], counter[e_k], missed[e_k]) <= window[e_k]
            /\ body[e_k] <= Owed(pc', k', k, totals[e_k], counter[e_k], missed[e_k])
    BY <1>3, <2>1 DEF CounterRight
  <2>5. fd[e_k] # "open" => totals[e_k] = 0 /\ missed[e_k] = 0
    BY <1>3, Zenon DEF CounterRight
  <2> QED
    BY <2>2, <2>3, <2>4, <2>5, Zenon DEF CounterRight
<1> QED
  <2>1. counter' \in [Event -> Nat] /\ totals' \in [Event -> Nat] /\ missed' \in [Event -> Nat]
    BY <1>0, <1>1 DEF ProfileTypes
  <2>2. \A e \in Event \ {e_k} :
            /\ counter'[e] = counter[e] /\ counting'[e] = counting[e]
            /\ totals'[e] = totals[e] /\ missed'[e] = missed[e]
    BY <1>1, <1>4
  <2>3. CounterRight(pc', k', k, fd[e_k], counter'[e_k], counting'[e_k], totals'[e_k],
                     body[e_k], window[e_k], missed'[e_k])
    BY <1>1, <1>5
  <2> QED
    BY <1>1, <1>2, <1>4, <2>1, <2>2, <2>3, Visit

\* A counter read: its count moves to the total, or to the missed events if the read
\* comes back short.
LEMMA AccumulateInv ==
    ASSUME ProfileInv, Accumulate
    PROVE  ProfileInv'
<1>0. ProfileTypes
  BY DEF ProfileInv
<1>1. pc = "read" /\ UNCHANGED <<fd, counter, counting, body, window>>
  BY DEF Accumulate
<1>2. pc \in Visiting /\ Following[pc] = "outside"
  BY <1>1 DEF Visiting, Following
<1>3. Advance(Following[pc])
  BY <1>2, Zenon DEF Accumulate
<1>4. /\ CounterRight(pc, k, k, fd[e_k], counter[e_k], counting[e_k], totals[e_k],
                      body[e_k], window[e_k], missed[e_k])
      /\ e_k \in Event
      /\ counter[e_k] \in Nat /\ counting[e_k] \in BOOLEAN /\ totals[e_k] \in Nat
      /\ body[e_k] \in Nat /\ window[e_k] \in Nat /\ missed[e_k] \in Nat
      /\ ~Runs(pc, k, k) /\ ~Runs(pc', k', k) /\ Due(pc, k, k) /\ ~Due(pc', k', k)
      /\ Built(pc, k, k)
  BY <1>1, <1>2, <1>3, VisitedCounter
<1>5. PICK value \in read_value :
        /\ totals' = [totals EXCEPT ![e_k] = @ + value]
        /\ missed' = [missed EXCEPT ![e_k] = IF IsOpen THEN @ + (counter[e_k] - value) ELSE @]
  BY DEF Accumulate
<1>6. value \in Nat /\ (value = counter[e_k] \/ value = 0) /\ (fd[e_k] # "open" => value = 0)
  BY <1>4 DEF read_value, IsOpen
<1>7. /\ totals' \in [Event -> Nat] /\ totals'[e_k] = totals[e_k] + value
      /\ \A e \in Event \ {e_k} : totals'[e] = totals[e]
  BY <1>0, <1>4, <1>5, <1>6 DEF ProfileTypes
<1>8. /\ missed' \in [Event -> Nat]
      /\ fd[e_k] = "open" => missed'[e_k] + value = missed[e_k] + counter[e_k]
      /\ fd[e_k] # "open" => missed'[e_k] = missed[e_k]
      /\ \A e \in Event \ {e_k} : missed'[e] = missed[e]
  <2> DEFINE short == IF fd[e_k] = "open" THEN missed[e_k] + (counter[e_k] - value) ELSE missed[e_k]
  <2>1. short \in Nat
    BY <1>4, <1>6
  <2>2. missed' = [missed EXCEPT ![e_k] = short]
    BY <1>5 DEF IsOpen
  <2>3. /\ fd[e_k] = "open" => short + value = missed[e_k] + counter[e_k]
        /\ fd[e_k] # "open" => short = missed[e_k]
    BY <1>4, <1>6
  <2> HIDE DEF short
  <2>4. missed \in [Event -> Nat]
    BY <1>0 DEF ProfileTypes
  <2>5. /\ missed' \in [Event -> Nat] /\ missed'[e_k] = short
        /\ \A e \in Event \ {e_k} : missed'[e] = missed[e]
    BY <1>4, <2>1, <2>2, <2>4
  <2> QED
    BY <2>3, <2>5
<1>9. CounterRight(pc', k', k, fd[e_k], counter[e_k], counting[e_k], totals'[e_k],
                   body[e_k], window[e_k], missed'[e_k])
  <2>1. Owed(pc', k', k, totals'[e_k], counter[e_k], missed'[e_k]) = totals'[e_k] + missed'[e_k]
    BY <1>4, Zenon DEF Owed
  <2>2. Owed(pc, k, k, totals[e_k], counter[e_k], missed[e_k])
        = totals[e_k] + counter[e_k] + missed[e_k]
    BY <1>4, Zenon DEF Owed
  <2>3. fd[e_k] # "none" /\ counting[e_k] # TRUE
        /\ (fd[e_k] # "open" => totals[e_k] = 0 /\ missed[e_k] = 0)
    BY <1>4, Zenon DEF CounterRight
  <2>4. CASE fd[e_k] = "open"
    <3>1. /\ totals[e_k] + counter[e_k] + missed[e_k] <= window[e_k]
          /\ body[e_k] <= totals[e_k] + counter[e_k] + missed[e_k]
      BY <1>4, <2>2, <2>4 DEF CounterRight
    <3>2. totals'[e_k] + missed'[e_k] = totals[e_k] + counter[e_k] + missed[e_k]
      <4>1. missed'[e_k] \in Nat
        BY <1>4, <1>8
      <4> QED
        BY <1>4, <1>6, <1>7, <1>8, <2>4, <4>1
    <3>3. /\ Owed(pc', k', k, totals'[e_k], counter[e_k], missed'[e_k]) <= window[e_k]
          /\ body[e_k] <= Owed(pc', k', k, totals'[e_k], counter[e_k], missed'[e_k])
      BY <2>1, <3>1, <3>2
    <3> QED
      BY <1>4, <2>3, <2>4, <3>3, Zenon DEF CounterRight
  <2>5. CASE fd[e_k] # "open"
    <3>1. totals'[e_k] = 0 /\ missed'[e_k] = 0
      BY <1>6, <1>7, <1>8, <2>3, <2>5
    <3> QED
      BY <1>4, <2>3, <2>5, <3>1, Zenon DEF CounterRight
  <2> QED
    BY <2>4, <2>5
<1> QED
  <2>1. counting' \in [Event -> BOOLEAN] /\ counter' \in [Event -> Nat]
    BY <1>0, <1>1 DEF ProfileTypes
  <2>2. \A e \in Event \ {e_k} :
            /\ counter'[e] = counter[e] /\ counting'[e] = counting[e]
            /\ totals'[e] = totals[e] /\ missed'[e] = missed[e]
    BY <1>1, <1>7, <1>8
  <2>3. CounterRight(pc', k', k, fd[e_k], counter'[e_k], counting'[e_k], totals'[e_k],
                     body[e_k], window[e_k], missed'[e_k])
    BY <1>1, <1>9
  <2> QED
    BY <1>1, <1>2, <1>3, <1>7, <1>8, <2>1, <2>2, <2>3, Visit

\* The two ends of the profiled function: no counter changes, only where the scope is.
LEMMA ScopeInv ==
    ASSUME ProfileInv, EnterScope \/ LeaveScope
    PROVE  ProfileInv'
<1>0. ProfileTypes /\ EachRight
  BY DEF ProfileInv
<1>1. /\ UNCHANGED <<k, fd, counter, counting, totals, body, window, missed>>
      /\ \/ pc = "outside" /\ pc' = IF Enabled = << >> THEN "body" ELSE "reset"
         \/ pc = "body" /\ pc' = IF Enabled = << >> THEN "outside" ELSE "disable"
  BY DEF EnterScope, LeaveScope, sums, past
<1>2. k = 1 /\ pc' \in Phases /\ Len(Enabled) \in Nat
  BY <1>0, <1>1, EnabledListed DEF ProfileTypes, Visiting, Phases
<1>3. IF pc' \in Visiting THEN k' <= Len(Enabled) ELSE k' = 1
  <2>1. Enabled # << >> => 1 <= Len(Enabled)
    BY <1>2, EnabledListed, EmptySeq
  <2> QED
    BY <1>1, <1>2, <2>1 DEF Visiting
<1>4. ProfileTypes'
  BY <1>0, <1>1, <1>2, <1>3, Zenon DEF ProfileTypes
<1>5. ASSUME NEW i \in 1 .. Len(Enabled)
      PROVE  CounterRight(pc', k, i, fd[Enabled[i]], counter[Enabled[i]], counting[Enabled[i]],
                          totals[Enabled[i]], body[Enabled[i]], window[Enabled[i]],
                          missed[Enabled[i]])
  <2> DEFINE x == Enabled[i]
  <2>1. CounterRight(pc, k, i, fd[x], counter[x], counting[x], totals[x], body[x], window[x],
                     missed[x])
    BY <1>0 DEF EachRight
  <2>2. Enabled # << >>
    BY EmptySeq
  <2>3. (pc = "outside" /\ pc' = "reset") \/ (pc = "body" /\ pc' = "disable")
    BY <1>1, <2>2
  <2>4. /\ Runs(pc', k, i) <=> Runs(pc, k, i)
        /\ Due(pc', k, i) <=> Due(pc, k, i)
        /\ Built(pc', k, i) => Built(pc, k, i)
    BY <1>2, <2>3 DEF Runs, Due, Built
  <2> HIDE DEF x
  <2>5. Owed(pc', k, i, totals[x], counter[x], missed[x]) = Owed(pc, k, i, totals[x], counter[x], missed[x])
    BY <2>4, Zenon DEF Owed
  <2>6. /\ (counting[x] = TRUE) <=> (fd[x] = "open" /\ Runs(pc', k, i))
        /\ Built(pc', k, i) => fd[x] # "none"
        /\ fd[x] = "none" => body[x] = 0
        /\ fd[x] # "open" => totals[x] = 0 /\ missed[x] = 0
    BY <2>1, <2>4, Zenon DEF CounterRight
  <2>7. fd[x] = "open" =>
            /\ Owed(pc', k, i, totals[x], counter[x], missed[x]) <= window[x]
            /\ body[x] <= Owed(pc', k, i, totals[x], counter[x], missed[x])
    BY <2>1, <2>5 DEF CounterRight
  <2> QED
    BY <2>6, <2>7, Zenon DEF CounterRight, x
<1>6. EachRight'
  <2> SUFFICES ASSUME NEW i \in 1 .. Len(Enabled)
               PROVE  CounterRight(pc', k', i, fd'[Enabled[i]], counter'[Enabled[i]],
                                   counting'[Enabled[i]], totals'[Enabled[i]], body'[Enabled[i]],
                                   window'[Enabled[i]], missed'[Enabled[i]])
    BY DEF EachRight
  <2> QED
    BY <1>1, <1>5
<1> QED
  BY <1>4, <1>6 DEF ProfileInv

-----------------------------------------------------------------------------
(* The theorem *)

\* The totals that accumulate_enabled_pmu_counters adds up are, between two calls, short
\* of the events of the profiled function only by what the kernel did not count while
\* another event had the counter's place and by what a short read dropped, and they hold
\* nothing from outside the scopes: for every group, the multiplexed ones included, and
\* whatever happens between two system calls, whichever events are unsupported.
THEOREM TotalsCover == Spec => []TotalsCoverCalls
<1>1. ProfileInv /\ [Next]_vars => ProfileInv'
  <2> SUFFICES ASSUME ProfileInv, [Next]_vars PROVE ProfileInv'
    OBVIOUS
  <2>1. CASE EnterScope \/ LeaveScope
    BY <2>1, ScopeInv
  <2>2. CASE Construct
    BY <2>2, ConstructInv
  <2>3. CASE Reset
    BY <2>3, ResetInv
  <2>4. CASE Enable \/ Disable
    BY <2>4, SwitchInv
  <2>5. CASE Accumulate
    BY <2>5, AccumulateInv
  <2>6. CASE \E e \in Event : Happens(e)
    BY <2>6, HappensInv
  <2>7. CASE UNCHANGED vars
    BY <2>7 DEF vars, sums, past, ProfileInv, ProfileTypes, EachRight
  <2> QED
    BY <2>1, <2>2, <2>3, <2>4, <2>5, <2>6, <2>7 DEF Next
<1>2. ProfileInv => TotalsCoverCalls
  <2> SUFFICES ASSUME ProfileInv, pc = "outside", NEW e \in Event
               PROVE  /\ fd[e] = "open" => /\ body[e] <= totals[e] + missed[e]
                                           /\ totals[e] + missed[e] <= window[e]
                      /\ fd[e] # "open" => totals[e] = 0
    BY DEF TotalsCoverCalls
  <2>1. PICK i \in 1 .. Len(Enabled) : Enabled[i] = e
    BY EnabledListed
  <2>2. CounterRight(pc, k, i, fd[e], counter[e], counting[e], totals[e], body[e], window[e],
                     missed[e])
    BY <2>1, Zenon DEF ProfileInv, EachRight
  <2>3. ~Due(pc, k, i)
    BY DEF Due
  <2>4. Owed(pc, k, i, totals[e], counter[e], missed[e]) = totals[e] + missed[e]
    BY <2>3, Zenon DEF Owed
  <2> QED
    BY <2>2, <2>4 DEF CounterRight
<1> QED
  BY <1>1, <1>2, ProfileInit, PTL DEF Spec

=============================================================================
