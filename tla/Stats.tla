------------------------------- MODULE Stats -------------------------------
(***************************************************************************)
(* The arithmetic of the latency report: StatsCalculator                   *)
(* (src/instrument/stats.cpp) over the traces it is given, and the         *)
(* conversion of ticks to nanoseconds (include/nts/instrument/clock.h, the *)
(* Linux x86-64 branch).  Numbers the code keeps as doubles are rationals  *)
(* here; the standard deviation, a square root, is left out.               *)
(***************************************************************************)
EXTENDS Naturals, Sequences, FiniteSets, Functions

CONSTANT TICK_VALUES      \* values of a tick counter: 2^64 in the code

ASSUME StatsAssumption == TICK_VALUES \in Nat \ {0}

LoopHops == {"RecvStart", "RecvDone", "BookUpdated", "StrategyDone", "OrderSent"}
Hop == LoopHops \cup {"AckReceived", "AckProcessed", "FillReceived", "FillProcessed"}

per_hop_segments ==
    {<<"RecvStart", "RecvDone">>, <<"RecvDone", "BookUpdated">>,
     <<"BookUpdated", "StrategyDone">>, <<"StrategyDone", "OrderSent">>,
     <<"OrderSent", "AckReceived">>, <<"AckReceived", "AckProcessed">>,
     <<"AckReceived", "FillReceived">>, <<"FillReceived", "FillProcessed">>}

\* Nanoseconds per tick as <<numerator, denominator>>, from the two windows measured
\* around the sleep: no tick elapsed means one nanosecond a tick.
calibrate_ns_per_tick(ns, ticks) == IF ticks = 0 THEN <<1, 1>> ELSE <<ns, ticks>>

ticks_to_ns(ticks, rate) == (ticks * rate[1]) \div rate[2]

has(t, h) == h \in t.recorded_mask

\* An unsigned difference: it wraps when the hops are in the wrong order.
latency_ticks(t, from, to) == (TICK_VALUES + t.ticks[to] - t.ticks[from]) % TICK_VALUES

NoData == [samples |-> 0, min_ns |-> 0, max_ns |-> 0, p50_ns |-> 0, p90_ns |-> 0,
           p99_ns |-> 0, p999_ns |-> 0, mean_ns |-> 0]

\* Mutant: the sort is forgotten.
MutUnsorted(f) ==
    LET n == 1 .. Cardinality(DOMAIN f)
        q == CHOOSE q \in Bijection(n, DOMAIN f) : \A j, k \in n : j < k => q[j] < q[k]
    IN  [k \in n |-> f[q[k]]]

\* The values of f in nondecreasing order, each as often as f has it.
Sorted(f) ==
    LET n == 1 .. Cardinality(DOMAIN f)
        q == CHOOSE q \in Bijection(n, DOMAIN f) : \A j, k \in n : j < k => f[q[j]] <= f[q[k]]
    IN  [k \in n |-> f[q[k]]]

Percentile(sorted, permille) == sorted[1 + (permille * (Len(sorted) - 1)) \div 1000]

\* compute: the distribution of one segment over the traces that have both its hops.
compute(traces, from, to, rate) ==
    LET both      == {i \in DOMAIN traces : has(traces[i], from) /\ has(traces[i], to)}
        latencies == [i \in both |-> ticks_to_ns(latency_ticks(traces[i], from, to), rate)]
        sorted    == Sorted(latencies)
    IN  IF both = {} THEN NoData
        ELSE [samples |-> Len(sorted), min_ns |-> sorted[1], max_ns |-> sorted[Len(sorted)],
              p50_ns  |-> Percentile(sorted, 500), p90_ns  |-> Percentile(sorted, 900),
              p99_ns  |-> Percentile(sorted, 990), p999_ns |-> Percentile(sorted, 999),
              mean_ns |-> SumFunction(sorted) \div Len(sorted)]

Having(traces, h) == Cardinality({i \in DOMAIN traces : has(traces[i], h)})

\* print_report: the three counts and a row for each segment.
print_report(traces, rate) ==
    [with_data   |-> Having(traces, "RecvDone"),
     with_orders |-> Having(traces, "OrderSent"),
     with_acks   |-> Having(traces, "AckProcessed"),
     rows        |-> [s \in per_hop_segments |-> compute(traces, s[1], s[2], rate)]]
=============================================================================
