------------------------------ MODULE Tracing ------------------------------
(***************************************************************************)
(* Latency tracing in the trading loop: the ring of traces kept by         *)
(* HopTracer (include/nts/instrument/tracer.h, src/instrument/tracer.cpp), *)
(* the two OrderTickRings that remember when an order was sent and         *)
(* acknowledged (src/pipeline_utils.cpp), the way src/main.cpp drives      *)
(* them, and the latency report printed when the loop ends.                *)
(*                                                                         *)
(* Each reading of the clock is one tick later than the one before.  What  *)
(* the strategy decides and which reports arrive is left open: any report  *)
(* about any order, in any order.  The tracer's owner may switch it on or  *)
(* off or reset it between two iterations.                                 *)
(***************************************************************************)
EXTENDS Stats

CONSTANTS
    RequestedCapacity,  \* of the trace ring, as given to the constructor
    RING_CAPACITY,      \* OrderTickRing::CAPACITY
    WindowNs,           \* nanoseconds the calibration window may measure,
    WindowTicks,        \* and ticks
    MaxId,              \* bound: orders sent
    MaxIterations,      \* bound: iterations of the loop
    MaxReports,         \* bound: execution reports
    MaxSwitches         \* bound: calls of enable, disable and reset

ASSUME TracingAssumption ==
    /\ RequestedCapacity \in Nat /\ RING_CAPACITY \in Nat \ {0}
    /\ WindowNs \subseteq Nat \ {0} /\ WindowTicks \subseteq Nat
    /\ MaxId \in Nat /\ MaxIterations \in Nat /\ MaxReports \in Nat /\ MaxSwitches \in Nat

\* The tick counter does not wrap while the program runs: an iteration reads the clock
\* six times and a report twice.
ASSUME ClockAssumption == 6 * MaxIterations + 2 * MaxReports < TICK_VALUES

VARIABLES
    pc,               \* "loop" between iterations, "drain" while reports are drained,
                      \* "done" after the report
    clock,
    iterations,
    reports,          \* reports processed so far
    next_id,          \* id of the next order
    traces,           \* position -> [ticks, recorded_mask]
    total_count,
    in_trace,
    enabled,
    switches,         \* calls of enable, disable and reset so far
    order_sent_ticks, ack_received_ticks,      \* [entries, collisions]
    printed,          \* << >>, or the report and the calibration it was made with
    log,              \* history: the hops of every trace completed, or still open,
                      \* with the order it is about, in the order they began
    sent_at, acked_at,  \* history: when each order was sent, and when its first report
                      \* came if that was an ack; 0 before
    unreported        \* history: orders sent that no report was about yet

loopVars   == <<pc, clock, iterations, reports, next_id>>
tracerVars == <<traces, total_count, in_trace, enabled, switches, log>>
ringVars   == <<order_sent_ticks, ack_received_ticks, sent_at, acked_at, unreported>>
tvars      == <<loopVars, tracerVars, ringVars, printed>>

\* The least power of two that is not below v.
round_up_pow2(v) == CHOOSE p \in {2 ^ k : k \in 0 .. v} :
                        p >= v /\ \A k \in 0 .. v : 2 ^ k >= v => p <= 2 ^ k

CAPACITY == round_up_pow2(RequestedCapacity)
EmptyRing == [entries |-> [i \in 0 .. RING_CAPACITY - 1 |->
                              [id |-> 0, ticks |-> 0, occupied |-> FALSE]],
              collisions |-> 0]

Init ==
    /\ pc = "loop"
    /\ clock = 0 /\ iterations = 0 /\ reports = 0 /\ next_id = 1
    /\ traces = [p \in 0 .. CAPACITY - 1 |->
                    [ticks |-> [h \in Hop |-> 0], recorded_mask |-> {}]]
    /\ total_count = 0 /\ in_trace = FALSE /\ enabled = TRUE /\ switches = 0
    /\ order_sent_ticks = EmptyRing /\ ack_received_ticks = EmptyRing
    /\ printed = << >>
    /\ log = << >>
    /\ sent_at = [id \in 1 .. MaxId |-> 0] /\ acked_at = sent_at /\ unreported = {}

-----------------------------------------------------------------------------
(* OrderTickRing *)

Entry(ring, id) == ring.entries[id % RING_CAPACITY]

MutHas(ring, id) == Entry(ring, id).occupied     \* mutant: the id is not compared
Has(ring, id) == Entry(ring, id).occupied /\ Entry(ring, id).id = id

Set(ring, id, t) ==
    [entries    |-> [ring.entries EXCEPT ![id % RING_CAPACITY] =
                        [id |-> id, ticks |-> t, occupied |-> TRUE]],
     collisions |-> IF Entry(ring, id).occupied /\ Entry(ring, id).id # id
                    THEN ring.collisions + 1 ELSE ring.collisions]

Erase(ring, id) ==
    IF Has(ring, id) THEN [ring EXCEPT !.entries[id % RING_CAPACITY].occupied = FALSE] ELSE ring

-----------------------------------------------------------------------------
(* HopTracer *)

write_pos == total_count % CAPACITY

\* Mutant: the mask of the trace that is overwritten is kept.
MutKeepMask(t, stamps) ==
    [ticks         |-> [h \in Hop |-> IF h \in DOMAIN stamps THEN stamps[h] ELSE t.ticks[h]],
     recorded_mask |-> t.recorded_mask \cup DOMAIN stamps]

\* A trace written over t: the mask starts from zero, the other ticks stay.
Overwrite(t, stamps) ==
    [ticks         |-> [h \in Hop |-> IF h \in DOMAIN stamps THEN stamps[h] ELSE t.ticks[h]],
     recorded_mask |-> DOMAIN stamps]

\* start_trace and the record calls behind it: nothing while the tracer is off.
StartTrace(stamps) ==
    /\ in_trace' = enabled
    /\ traces' = IF enabled THEN [traces EXCEPT ![write_pos] = Overwrite(@, stamps)] ELSE traces

\* Where record_order_ack and record_ack_fill write: behind a trace that is open.
ReportPos == (total_count + IF in_trace THEN 1 ELSE 0) % CAPACITY

RecordReport(id, stamps) ==
    IF enabled
    THEN /\ traces' = [traces EXCEPT ![ReportPos] = Overwrite(@, stamps)]
         /\ total_count' = total_count + 1
         /\ log' = Append(log, [id |-> id, stamps |-> stamps])
    ELSE UNCHANGED <<traces, total_count, log>>

\* trace(i): the i-th oldest trace of the count that the report reads.
count == IF total_count < CAPACITY THEN total_count ELSE CAPACITY
trace(i) == IF total_count <= CAPACITY THEN traces[i] ELSE traces[(total_count + i) % CAPACITY]

Switching == pc = "loop" /\ switches < MaxSwitches /\ switches' = switches + 1

\* enable or disable.
SetEnabled ==
    /\ Switching
    /\ enabled' = ~enabled
    /\ UNCHANGED <<loopVars, ringVars, printed, traces, total_count, in_trace, log>>

Reset ==
    /\ Switching
    /\ total_count' = 0 /\ in_trace' = FALSE
    /\ log' = << >>
    /\ UNCHANGED <<loopVars, ringVars, printed, traces, enabled>>

-----------------------------------------------------------------------------
(* The loop *)

Begin ==
    /\ pc = "loop" /\ iterations < MaxIterations
    /\ pc' = "drain"
    /\ UNCHANGED <<iterations, reports, total_count, enabled, switches, ack_received_ticks, printed,
                   acked_at>>

\* When each hop of the loop is recorded: the clock is read once more between the
\* strategy and the order, for order_sent_ticks.
Offset == [RecvStart |-> 1, RecvDone |-> 2, BookUpdated |-> 3, StrategyDone |-> 4, OrderSent |-> 6]

\* A datagram arrived: the hops up to the decision, with an order or without.
Iterate(sends) ==
    /\ Begin
    /\ sends => next_id <= MaxId
    /\ LET hops   == IF sends THEN LoopHops ELSE LoopHops \ {"OrderSent"}
           stamps == [h \in hops |-> clock + Offset[h]]
       IN  /\ StartTrace(stamps)
           /\ log' = IF enabled THEN Append(log, [id |-> 0, stamps |-> stamps]) ELSE log
    /\ IF sends
       THEN /\ order_sent_ticks' = Set(order_sent_ticks, next_id, clock + 5)
            /\ next_id' = next_id + 1
            /\ sent_at' = [sent_at EXCEPT ![next_id] = clock + 5]
            /\ unreported' = unreported \cup {next_id}
       ELSE UNCHANGED <<order_sent_ticks, next_id, sent_at, unreported>>
    /\ clock' = clock + 6

\* No datagram: the trace begun is discarded.
IdleIteration ==
    /\ Begin
    /\ traces' = IF enabled THEN [traces EXCEPT ![write_pos] = Overwrite(@, [RecvStart |-> clock + 1])]
                 ELSE traces
    /\ in_trace' = FALSE
    /\ clock' = clock + 1
    /\ UNCHANGED <<next_id, order_sent_ticks, log, sent_at, unreported>>

Draining(id) ==
    /\ pc = "drain" /\ reports < MaxReports
    /\ reports' = reports + 1
    /\ clock' = clock + 2
    /\ unreported' = unreported \ {id}
    /\ UNCHANGED <<pc, iterations, next_id, in_trace, enabled, switches, printed, sent_at>>

\* process_execution of a NewAck.
OnAck(id) ==
    /\ Draining(id)
    /\ acked_at' = IF id \in unreported THEN [acked_at EXCEPT ![id] = clock + 1] ELSE acked_at
    /\ IF Has(order_sent_ticks, id)
       THEN /\ RecordReport(id, [OrderSent    |-> Entry(order_sent_ticks, id).ticks,
                                 AckReceived  |-> clock + 1,
                                 AckProcessed |-> clock + 2])
            /\ order_sent_ticks' = Erase(order_sent_ticks, id)
            /\ ack_received_ticks' = Set(ack_received_ticks, id, clock + 1)
       ELSE UNCHANGED <<traces, total_count, log, order_sent_ticks, ack_received_ticks>>

\* process_execution of every other report.
OnOther(id) ==
    /\ Draining(id)
    /\ IF Has(ack_received_ticks, id)
       THEN /\ RecordReport(id, [AckReceived   |-> Entry(ack_received_ticks, id).ticks,
                                 FillReceived  |-> clock + 1,
                                 FillProcessed |-> clock + 2])
            /\ ack_received_ticks' = Erase(ack_received_ticks, id)
       ELSE UNCHANGED <<traces, total_count, log, ack_received_ticks>>
    /\ order_sent_ticks' = Erase(order_sent_ticks, id)
    /\ UNCHANGED acked_at

\* end_trace, after an iteration whose trace was not discarded.
EndIteration ==
    /\ pc = "drain"
    /\ pc' = "loop"
    /\ iterations' = iterations + 1
    /\ total_count' = IF in_trace THEN total_count + 1 ELSE total_count
    /\ in_trace' = FALSE
    /\ UNCHANGED <<ringVars, clock, reports, next_id, traces, enabled, switches, log, printed>>

\* The loop ends, by the deadline or a signal, and the report is printed.  The clock
\* is calibrated once; what was measured shows only here.
PrintReport(ns, ticks) ==
    /\ pc = "loop"
    /\ pc' = "done"
    /\ LET rate == calibrate_ns_per_tick(ns, ticks)
       IN  printed' = <<print_report([i \in 1 .. count |-> trace(i - 1)], rate), rate>>
    /\ UNCHANGED <<clock, iterations, reports, next_id, tracerVars, ringVars>>

Next ==
    \/ \E sends \in BOOLEAN : Iterate(sends)
    \/ IdleIteration
    \/ \E id \in 1 .. MaxId : OnAck(id) \/ OnOther(id)
    \/ EndIteration
    \/ SetEnabled
    \/ Reset
    \/ \E ns \in WindowNs, ticks \in WindowTicks : PrintReport(ns, ticks)

Spec == Init /\ [][Next]_tvars

-----------------------------------------------------------------------------
(* Properties *)

\* Trace t shows exactly these stamps to has() and latency().
Shows(t, stamps) ==
    /\ t.recorded_mask = DOMAIN stamps
    /\ \A h \in DOMAIN stamps : t.ticks[h] = stamps[h]

\* The i-th trace of the report is the one begun at that point of the history.
Faithful(i) == Shows(trace(i), log[Len(log) - count + 1 + i].stamps)

\* Between two iterations the ring holds the latest traces since the last reset in
\* the order in which they began, loop traces and report traces alike, and none of
\* them mixes two events; only the oldest of a full ring may be gone.
RingHoldsLatest ==
    pc = "loop" =>
        /\ total_count = Len(log)
        /\ \A i \in 0 .. count - 1 : (i = 0 /\ count = CAPACITY) \/ Faithful(i)

\* "when capacity is reached, oldest traces are overwritten instead of silently
\* dropping new ones": between two iterations a full ring holds the latest
\* CAPACITY traces.
OldestOverwrittenByNew == pc = "loop" => \A i \in 0 .. count - 1 : Faithful(i)

\* Value v stands at rank k (from 0) of the latencies lat[i], i \in S.
AtRank(v, k, lat, S) ==
    /\ Cardinality({i \in S : lat[i] < v}) <= k
    /\ Cardinality({i \in S : lat[i] <= v}) > k

\* The row is the distribution of the segment over the entries S of the log, and no
\* latency in it is negative.
RowRight(row, from, to, S, rate) ==
    LET both == {i \in S : {from, to} \subseteq DOMAIN log[i].stamps}
        dt   == [i \in both |-> log[i].stamps[to] - log[i].stamps[from]]
        ns   == [i \in both |-> (dt[i] * rate[1]) \div rate[2]]
        n    == Cardinality(both)
        sum  == SumFunctionOnSet(ns, both)
    IN  /\ \A i \in both : dt[i] >= 0
        /\ row.samples = n
        /\ n > 0 => /\ AtRank(row.min_ns, 0, ns, both) /\ AtRank(row.max_ns, n - 1, ns, both)
                    /\ AtRank(row.p50_ns, (n - 1) \div 2, ns, both)
                    /\ AtRank(row.p90_ns, (9 * (n - 1)) \div 10, ns, both)
                    /\ AtRank(row.p99_ns, (99 * (n - 1)) \div 100, ns, both)
                    /\ AtRank(row.p999_ns, (999 * (n - 1)) \div 1000, ns, both)
                    /\ row.mean_ns * n <= sum /\ sum < (row.mean_ns + 1) * n

\* The latency report is right: each of its rows is the distribution of the latencies
\* that really occurred in the traces still in the ring, whatever was overwritten,
\* discarded, switched off or reset before, and so are its counts; a ring that is
\* full may have lost the oldest.
ReportRight ==
    pc = "done" =>
        \E lost \in {0} \cup (IF count = CAPACITY THEN {1} ELSE {}) :
            LET S == Len(log) - count + 1 + lost .. Len(log)
                With(h) == Cardinality({i \in S : h \in DOMAIN log[i].stamps})
                report  == printed[1]
            IN  /\ report.with_data = With("RecvDone")
                /\ report.with_orders = With("OrderSent")
                /\ report.with_acks = With("AckProcessed")
                /\ \A s \in per_hop_segments :
                        RowRight(report.rows[s], s[1], s[2], S, printed[2])

\* An ack is timed against the send of its own order, and the report behind it
\* against that ack, each at most once, whatever orders share a ring position; and
\* the collisions count every order whose time was lost before its first report.
PairedWithOwnOrder ==
    /\ \A id \in 1 .. MaxId :
        LET About(h) == {k \in DOMAIN log : log[k].id = id /\ h \in DOMAIN log[k].stamps}
            acks == About("AckProcessed")
            ends == About("FillReceived")
        IN  /\ Cardinality(acks) <= 1 /\ Cardinality(ends) <= 1
            /\ \A k \in acks : log[k].stamps["OrderSent"] = sent_at[id]
            /\ \A k \in acks \cup ends : log[k].stamps["AckReceived"] = acked_at[id]
    /\ Cardinality({id \in unreported : ~Has(order_sent_ticks, id)})
            <= order_sent_ticks.collisions
=============================================================================
