# TLA+ verification of nanosecond-trading-stack

The system is a low-latency trading client: one thread polls two UDP multicast
feeds, keeps a level-one book, asks a strategy for a signal, sends IOC orders to an
exchange over TCP and applies the execution reports that come back. Beside it stand
a matching order book library, latency instrumentation, a benchmark runner and a
clock-skew tool. The exchange itself is not part of the repository's sources.

All paths below are relative to the repository (`src/oms.cpp` is the OMS, and so on).

## Inventory

| Component | State | Operations | Interacts with | What is hard, what must hold |
|---|---|---|---|---|
| OMS (`src/oms.cpp`, `include/nts/oms.h`) | order slots, free stack, id map, position, pending delta, cash, two order counters, report counters | `send_new`, `on_execution` (six report types), `set_reference_price` | called by the loop | reports in any order, late, duplicate, unknown; slot reuse; limits tested on counters that can drift. Slots, map and stack agree; limits hold; counters and exposure are exact while the exchange keeps the protocol |
| Order hash map (`map_find`, `map_insert`, `map_remove`) | open-addressing table | find, insert, remove | inside the OMS | deletion re-inserts a run that may wrap. It is a partial function from ids to slots |
| Trading loop (`src/main.cpp`) | message flags, decision | poll feeds, update book, decide, send, drain reports, stop | everything | state read before a send and changed by reports that arrive at any time; lost connection. No order forgotten, one unacknowledged order, answers are eventually applied |
| Book and strategy (`src/orderbook.cpp`, `src/strategy.cpp`) | best bid and ask, reference | `on_quote`, `on_reference`, `on_book_update` | loop | decisions before the first quote |
| Order gateway (`src/order_gateway.cpp`) | socket, read buffer | connect, `submit_order`, `poll_execution`, close | loop, exchange | partial sends and reads, full buffer, close with data unread. Messages cross whole and in order |
| Matching book (`src/matching/orderbook.cpp`) | levels, queues, id index, fills | `add_order`, `cancel`, getters | benchmark, tests | index and queues in step; price-time priority; never crossed |
| Matching engine (`src/matching_engine.cpp`) | the same, bids sorted the other way | the same | its own tests | a second copy of the book: the two must not part |
| Market data receiver (`src/market_data.cpp`) | sequence number, counters | init, `poll`, close | loop | lost, reordered, duplicated datagrams; receive errors |
| Tracer and tick rings (`include/nts/instrument/tracer.h`, `src/instrument/tracer.cpp`, `src/pipeline_utils.cpp`) | trace ring, switch, rings keyed by order id, collision counters | record, start, end, discard, enable, disable, reset; set, get, erase | loop | full ring, colliding ids, traces left behind by reset or while switched off. The ring holds the latest traces unmixed; a report is timed against its own order |
| Statistics and clock (`src/instrument/stats.cpp`, `include/nts/instrument/clock.h`) | calibration | segments, percentiles, report, ticks to nanoseconds | tracer | boundary indices, unsigned differences, a calibration without a tick. Each row of the report is the distribution of what happened |
| Tick sampler (`src/instrument/tick_sampler.cpp`) | samples | add, compute | nobody | not modelled: nothing calls it |
| TSC check (`tools/tsc_sync_check.cpp`) | atomics shared by two threads; verdicts of the pairs | parse, pin, ping, answer, bounds, exit code | - | interleaving of the handshake, pinning that fails, one exit code for many pairs. Bounds and verdicts are right, the tool ends |
| Benchmark runner (`tools/bench_runner.py`) | child processes | start, wait, terminate | exchange, client | failures and interruptions between two steps; children that ignore signals. No child the runner knows of is left running when its finally block completes, signals come in order, the runner ends |
| PMU profile (`src/perf_counter.cpp`) | file descriptors, kernel counters, totals | construct, reset, enable, disable, read | loop | events between any two system calls; unsupported events; short reads; counters that take turns in the processor. Totals are short of the profiled calls by no more than that |
| Matching benchmark, argument parsing, printing | | | | not modelled: timing and text |

## Modules

| Module | Models | Correspondence |
|---|---|---|
| `OMS` | class `OMS` | one variable per member (the report counters in the record `stats`); `SendNew`/`SendRefused` are the two outcomes of `send_new`; `OnNewAck`, `OnFill`, `OnCancelAck`, `OnReject`, `OnIgnored` are the cases of `on_execution` |
| `OrderLifecycle` | abstract: the life of one order id | implemented by `OMS` (`ImplementsLifecycle`) |
| `TradingProofs` | proofs about `OMS` (slots, limits, accounts, the life of an order, the sums over the open orders) and about `Pipeline` | see Proofs |
| `OrderMap`, `OrderIndex` | the hash table, and the partial function it stands for | `map_find`, `map_insert`, `map_remove` are operators on tables; the hash is an arbitrary function chosen in `Init` |
| `Pipeline` | `run_pipeline`, `process_market_signal_and_order`, `build_exit_order`, strategy, book, gateway | extends `OMS`; `pc` follows the loop: poll, decide, drain; the exchange runs beside it |
| `OrderGateway` | the gateway byte by byte | `pc` is inside `submit_order` or `poll_execution`; a byte is its position in its stream |
| `MatchingBook`, `PriceTimeAuction` | `nts::matching::OrderBook`, and price-time priority stated without levels or queues | `FillFront` is one pass of the loop in `fill_at_level`; `MatchPass` adds the tests of `match_buy` and `match_sell`, and `Match` repeats it. The auction knows resting orders (`Resting`) and which of two at one price arrived first (`Earlier`); both are read off the levels, queues and index |
| `MatchingEngine` | the book of `matching_engine.cpp`, in step with `MatchingBook` | a side is a sequence of levels, best first; `ServeLevel` is one pass of the outer matching loop and contains the inner one, of which `ServeMaker` is one pass; each step gives both books the same call |
| `MdReceiver` | `MdReceiver::poll` datagram by datagram, and the feed | `Receive` is one pass of the receive loop, `PollReturns` and `PollFails` its two ends; `Publish`, `Lose`, `Duplicate` are the network |
| `Stats` | `StatsCalculator` and the tick conversion | pure operators with the code's names; a sort is what it returns, the values of a function in order; the calibration is a fraction |
| `Tracing` | `HopTracer`, `OrderTickRing`, their use in `run_pipeline`, and the report | extends `Stats`; a trace slot keeps its old ticks, only the mask is cleared, as in `start_trace`; every clock reading is a new tick; `PrintReport` ends the run; `SetEnabled` and `Reset` happen between iterations, whoever calls them |
| `TscSync` | `measure_pair` and `target_loop` of the clock-skew tool | one action per access to the shared atomics or to a counter; `ref_pc` and `target_pc` are the two threads; time passes between any two steps |
| `TscCheck` | `main`, the argument check and pinning of the same tool | extends `TscSync`; `main_pc` is main; `FinishPair` resets the shared state for the next pair; `PinFails` ends the process |
| `OrderMapProofs`, `TracingProofs`, `PmuProfileProofs` | proofs about the module named | see Proofs |
| `NetworkProofs` | proofs about `OrderGateway` and `MdReceiver` | see Proofs |
| `MatchingProofs` | proofs about `MatchingBook` and `MatchingEngine` | see Proofs |
| `ToolProofs` | proofs about `TscSync`, `TscCheck` and `BenchRunner` | see Proofs |
| `DataTheorems` | facts about finite sets, numbers and sums that several proofs cite | see Proofs |
| `BenchRunner` | `main`, `run_once` and `terminate_process` of the benchmark runner, and its children | `pc` is inside one of the three; a child may end or ignore signals at any time; `Interrupt` is Ctrl-C at any step, the build and the final cleanup included |
| `PmuProfile` | `PmuProfileScope` and `PerfCounter` | one action per system call on one counter; `Happens` is an event at any time, which an enabled counter counts or, while another event has its place, misses |
| `MCOMS`, `MCPipeline`, `MCMatchingBook`, `MCTscSync` | model values for TLC | |

Operators named `Mut...` are deliberately broken variants of the definition that
follows them. No specification uses them; substituting one for its original makes TLC
report the property it is paired with, which shows that the property can fail.

Data abstractions. Prices are whole numbers (the code's doubles carry feed prices; the
quotes used have whole mid prices). Order quantities are small and the 32-bit widths are
never reached: `max_order_qty` and `max_position` keep sent quantities far below 2^31.
`Tracing` and `TscSync` have ticks; elsewhere time stamps are left out, and text is left
out everywhere. Doubles of the statistics are exact fractions. `avg_fill_price` is written
and never read.

## Environments

`OMS!Spec` lets any report arrive at any time, since nothing on the wire is validated
before `on_execution`. `OMS!ConformingSpec` restricts reports about open orders to what
an exchange that keeps the protocol sends (`Conforms`): a Reject only as first answer, a
CancelAck only after an acceptance, fills within the leaves. Fills may still overtake
acks, and reports may be repeated or concern unknown orders. `Pipeline` has an explicit
exchange (`Answers`); `PipelineConforms` says that the OMS inside the pipeline then
sees a conforming environment, so the results of `oms_conforming`, and the theorems about
`ConformingSpec`, carry over. The run checks it and `PipelineIsConforming` proves it.

## Runs

| Run | Shows | Bounds and why they suffice |
|---|---|---|
| `oms_any` | slots, map and free stack agree; the live-order limit holds although its counters drift; counters drift only on two protocol breaches; every id has one life | 3 ids, limit 2, 3 slots, 3 fills: an order can be replaced in a recycled slot while another is open |
| `oms_conforming` | counters, pending delta and outcome counts are exact; position and cash agree with the fill counters; `max_position + (max_live_orders - 1) * max_order_qty` bounds the worst case | 3 ids, 2 open, quantities 1 and 2, prices 1 and 7 with deviation limit 5: partial fills, then cancel or completion, both outcomes of the price test; the exposure bound is reached |
| `order_map` | no lookup is lost by a deletion, every table leaves a free position at which deletion ends, the table is a partial function | 4 positions, 4 ids, up to 3 entries, all 256 hash functions: every collision pattern with wrap-around |
| `pipeline` | no order forgotten, one unacknowledged order, conformance, orders close, a dead gateway halts trading; what is bought before the first quote costs nothing and is kept; when the reports on an order come in one segment also one open order and a position within one order | 3 orders of size 2: an entry, partial fills, exits, one more entry; whether reports come one at a time or in one segment is chosen in `PInit`, references may precede quotes, and the connection may be lost, or the process stopped, at any time |
| `order_gateway` | whole messages in order, buffer bookkeeping, delivery | orders of 2 bytes, reports of 3, buffer of 5: the buffer fills with a cut report at its end, 4 reports |
| `matching_book` | uncrossed, index exact, price-time priority; the two books of the repository give the same trades, queues and getter results | 4 ids (symmetric), 3 prices, quantities 0, 1, 3: sweeps over levels, partial fills, cancels |
| `md_receiver` | on a feed that only loses datagrams the drop counter is exact and messages never go back; with reordering and duplicates the counter still telescopes modulo the width | sequence numbers modulo 5, 4 datagrams starting anywhere: the number wraps; the kind of network is chosen in `Init` |
| `tracing` | the ring holds the latest traces, acks and fills are timed against their own order and losses show in the collision counter, the printed report is right rank by rank | capacity 3 rounded up to 4 slots, tick rings of 2 places, 3 orders (two ids collide), 3 iterations, 4 reports: the ring wraps; 2 switches or resets; calibration with and without a tick |
| `tracing_discard` | violation: an idle iteration in a full ring destroys the oldest trace (below) | as `tracing` |
| `tsc_sync` | the bounds contain the true skew, the verdict is right, the exit code sums the pairs up, the tool ends | skew -2, threshold 1, one warm-up and two counted samples, 6 ticks a pair: odd and even round trips, both verdicts; lists of up to three cores with the reference, a duplicate, an invalid core or nothing |
| `bench_runner` | when the reports are read no child runs; a child outlives the runner only after Ctrl-C, after SIGKILL, or, as client a, when client b was not started; only own children are signalled, gentler signals first, the exchange after the clients; once the build is over the runner ends | all children, 3 interruptions: in the try block, in the finally block and in the cleanup of the temporary directory |
| `pmu_profile` | totals, with the events that a counter or a short read missed, cover what happened inside the profiled calls and nothing from outside the scopes | 2 calls, 3 counters, 2 events of each kind: counters that fail to open, stale counts from the first call, one event counted and one missed |

`MaxId`, `MaxFills`, `MaxOrders`, `MaxReports`, `MaxSent`, `MaxCopies`, `MaxIterations`,
`MaxSwitches`, `MaxTime`, `MaxInterrupts`, `MaxCalls` and `MaxEvents` are bounds of the models; the code
has no such limits. `CHECK_DEADLOCK FALSE` appears only where the process may stop
(`pipeline`, `order_gateway`) or where the run ends (`md_receiver`, `tracing`,
`tracing_discard`, `tsc_sync`, `bench_runner`, `pmu_profile`). The OMS runs use IOC
orders, the only type the loop sends; the proofs cover every type.

What the runs do not claim. When the reports on an order come one at a time, the loop
may have more than one order open and a position above one order (`has_pending_order` does not see an order between its
ack and its fill), and with reports outside the protocol the counters and the pending
delta drift. Those limits are stated in the properties' comments.
A child of the benchmark runner may be left running: after Ctrl-C in the finally block or
before `client_procs` is assigned, when the second client cannot be started (the finally
block does not know of the first), and when a process is still there after SIGKILL. Ctrl-C
inside `temp_dir.cleanup()` leaves what is not yet removed of the temporary directory.
The PMU totals are raw counts. When more events are enabled than the processor has counters
for (`USAGE.md` warns of it for the group `all`), or another program uses them, the kernel
lets the counters take turns; `perf_counter.cpp` asks for no `time_running` and does not
scale, so a total misses what happened in between. In the model `missed` counts those
events, and the ones a short read drops, and `TotalsCoverCalls` says that nothing else is
missing and nothing is counted twice. Page faults are counted by the kernel and have no turns.

The finding. `include/nts/instrument/tracer.h:46` says that when the ring is full the
oldest traces are overwritten "instead of silently dropping new ones". `start_trace`
(line 69) clears the slot of the oldest trace before it is known whether the new one is
kept; an iteration without market data discards the new one, so the oldest is gone and
nothing has replaced it, while `count()` still counts the slot. `tracing_discard` shows it.

In `MdReceiver` a receive error after a datagram makes `poll` return true without writing
the caller's message. The model has the step; `NeverBackwards` says that later polls still
go forward, and what `main` makes of the unwritten message is not modelled.

Seen while modelling, without a run: `include/nts/instrument/stats.h:33` announces a
report "per-hop + end-to-end", and `print_report` prints the per-hop rows only;
`end_to_end_segments` has no caller, so the tick-to-order figures that `bench_runner.py`
takes from the client's report are always 0 in its summary.

## Fairness

`Pipeline`: weak fairness of the loop as a whole (it spins until it is stopped) and of
the exchange as a whole (it goes on answering while it is up). Nothing obliges the
exchange to close or the process to stop, and the liveness properties exempt both.
`OrderGateway`: weak fairness of polling, and of sends (a socket that stays full for
ever makes `submit_order` spin for ever; the code has no timeout). Errors are never
forced.
`TscCheck` (and `TscSync`): weak fairness of main and of each thread. Once pinned each
thread has a core of its own and spins; from the second pair on a new target thread
shares the reference's core until it has pinned itself, and runs because the scheduler
preempts the spinning reference. Time itself need not pass, and pinning need not fail.
`BenchRunner`: weak fairness of the runner's steps behind the build, where every wait for a
process has a timeout. `run_cmd` waits for `cargo` without one, so nothing is assumed of the
build, and `RunnerEnds` speaks of the runs that get past it. Nothing is assumed of the
children, not even that SIGKILL ends them.

## Proofs

The proofs hold for every value of the constants that satisfies the named assumptions of
the modules; the bounds of the models (`MaxId`, `MaxEvents` and so on) are constants like
the others, so nothing depends on how large they are, with one exception: `ClockAssumption`
of `Tracing` says that the run is short enough for the 64-bit tick counter not to wrap,
which `ReportIsRight` needs. Where a theorem needs more than the
module's assumptions, it says so as a hypothesis:

| Hypothesis | Where | Why the code has it |
|---|---|---|
| `FinitePrices` | `LedgerSound` | prices are doubles, so there are finitely many; the ledger is bounded by the least and the greatest of them |
| `Types \subseteq {"IOC"}` | `OutcomesComplete` | the loop sends no other type; the outcome counters count IOC orders only |
| `max_live_orders >= 1` | `ExposureBounded` | with a limit of 0 nothing is ever sent and the bound is not meant |
| `PositivePrices` | `UnquotedTradesCostNothing` | an ask of a feed is not 0 and a reference lies above `EXIT_HALF_SPREAD`; an ask of 0 is how the code recognises that there is no quote yet |
| `CapacityPositive` | `RingKeepsLatest`, `ReportIsRight` | `round_up_pow2` returns a power of two; that one is found for every request is a fact about exponentiation, of which the provers know nothing |

### The OMS

`TradingProofs`, with `max_live_orders <= MAX_ORDERS`:

| Theorem | Property | Specification |
|---|---|---|
| `TypeCorrect` | `TypeOK` | `Spec` |
| `SlotsSafe` | `SlotDiscipline` | `Spec` |
| `CountersCover` | `CountersCoverOpenOrders` | `Spec` |
| `OpenOrdersBounded` | `OpenOrdersWithinLimit` | `Spec` |
| `SlotAvailable` | `RiskCheckImpliesSlot` | `Spec` |
| `LedgerSound` | `LedgerConsistent` | `Spec` |
| `DriftOnlyByBreach` | `DriftNeedsProtocolBreach` | `Spec` |
| `OMSImplementsLifecycle` | `ImplementsLifecycle` | `Spec` |
| `CountersAreExact` | `CountersExact` | `ConformingSpec` |
| `OutcomesComplete` | `OutcomesPartition` | `ConformingSpec` |
| `DeltaIsOpenLeaves` | `PendingDeltaIsOpenLeaves` | `ConformingSpec` |
| `ExposureBounded` | `WorstCaseExposure` | `ConformingSpec` |

`IInv == TypeOK /\ SlotDiscipline /\ CountersCoverOpenOrders /\ OpenOrdersWithinLimit` is
the inductive invariant under everything else. The limit alone is not inductive:
`check_risk` tests the counters, not the open orders, so one needs that the counters never
fall below them, and that `pending_new` alone covers the Sent orders, because a fill of a
Sent order lowers `pending_new` and raises `live_orders`. The guarded decrement
("if (n > 0) n--") is what keeps the two inequalities. `SlotAvailable` adds a counting
argument: open slots and free slots are disjoint and together are the slots ever handed
out, so if none is left, all `MAX_ORDERS` are open.

The accounts rest on `IInv`. The refinement maps an order id to its slot through the map,
so each step of the OMS is one step of `OrderLifecycle` or a stutter because two ids never
share a slot. `OutcomesPartition` needs `OpenIocOrders` (the invariant is
`OutcomeInv == IInv /\ OpenIocOrders /\ OutcomesPartition`): an open order of another type
would be ended without being counted.

Sums over the open orders are `SumFunction` of the community modules. Induction over a
finite set cannot be instantiated by the provers, so `SmallestSubset` replaces it: a
nonempty collection of subsets of a finite set has a smallest member, here the smallest
set on which the fact fails. The lemmas built on it, in `DataTheorems`, say what a sum does
when one element joins, leaves or changes. `ExposureInv == IInv /\ LeavesRight /\ PendingDeltaIsOpenLeaves /\
DeltaSplits` adds that leaves are what is not yet filled (`LeavesRight`) and that the net
delta is the buys less the sells (`DeltaSplits`): `check_risk` limits the net, the bound of
`WorstCaseExposure` is about one side, and the difference is at most what the other open
orders can carry.

### The hash map

`OrderMapProofs`, for every table larger than the number of open orders, every hash and
every set of ids:

| Theorem | Property |
|---|---|
| `MapIsSound` | `TableSound` |
| `MapIsIndex` | `ImplementsIndex` |

`MapInv` says that ids are unique, that no position between an entry and its home is free
(`Gapless`) and that one position of the table is. The loop of `map_remove` breaks and
restores it. `PassInv` is its invariant after n passes from the hole: a probe meets a free
position only among those the loop has passed, only on the way to an entry not yet
re-inserted, and a free position lies ahead. A re-insertion goes to the first free position
from the entry's home, which is one the loop has passed or the entry's own, so the run
ahead is not touched (`PassMoves`); at the free position that ends the run no probe can
have crossed it, so none has a gap left (`PassEnd`). The free position ahead is why the
loop ends. Distances are counted from the hole, which turns the wrap-around into linear
arithmetic (`Dist`, `Turn`). Every pass keeps the pairs of id and slot (`Content`), and
lookups see exactly those (`LookupIs`), which is the refinement.

The loop is a recursive function; that it is one (`LoopExists`) and what holds after every
pass (`RehashSound`) is shown by the least number of passes for which it fails (`Least`),
since the induction theorems of the library cannot be instantiated.

### The trading loop

`TradingProofs`, for every feed, order size and number of orders:

| Theorem | Property |
|---|---|
| `PipelineIsConforming` | `PipelineConforms` |
| `PipelineAccounts` | `CountersExact` and `PendingDeltaIsOpenLeaves` in the whole client |
| `NoneForgotten` | `NoOrderForgotten` |
| `LostGatewayHalts` | `LostGatewayHaltsTrading` |
| `OneAtATime` | `OneOrderAtATime` |
| `UnquotedTradesCostNothing` | `UnquotedTradesAreFree` |

`PInv == ExposureInv /\ BookTypes /\ PricesRight /\ QueuesRight`. The queues are read as
one: `InFlight` is what has been received and not parsed, followed by what the exchange has still to
send. `Sound` says of it and of the orders not yet taken that reports are about orders that were
sent, that an order's reports end with its last one, that its fills and acks are
what the open order still expects, and that an order not taken has no report; `Remembered`
that each open order is in one of the two queues. Each report applied is then one that
`Conforms` allows, which is the step the conformance theorem needs, and which lets every
invariant of the OMS be used inside the loop. `SingleInv` strengthens `OneOrderAtATime`:
with an order's reports in one segment the order is settled before the loop decides again.
`FreeInv` says the same of prices: as long as there is no ask, nothing that is open or
reported has one.

### Gateway, market data, benchmark runner, tracer, PMU

| Theorem | Property | Inductive invariant |
|---|---|---|
| `NetworkProofs!ReportsStayIntact` | `ReportsIntact` | `GatewayInv`: the place in the loop tells the state of the socket, and an order is cut short only inside its send or by a failed one |
| `NetworkProofs!OrdersStayIntact` | `OrdersIntact` | the same |
| `NetworkProofs!DropsAreRight` | `DropsRight` | `FeedInv`: a feed without reordering is a strictly increasing queue ahead of the last number seen |
| `NetworkProofs!NeverGoesBack` | `NeverBackwards` | the same |
| `ToolProofs!NoChildLeft` | `NoneLeftRunning` | `RunnerInv`: at every place, which children may be running and where an interruption leads; `LeftInv`: why one may be left |
| `ToolProofs!SignalsInOrder` | `SignalDiscipline` | the same; `Escalates` relates the place in `terminate_process` to the signals received |
| `TracingProofs!OwnOrderTimed` | `PairedWithOwnOrder` | `PairInv`: below |
| `TracingProofs!RingKeepsLatest` | `RingHoldsLatest` | `RingInv`: below |
| `TracingProofs!ReportIsRight` | `ReportRight` | `PairInv`, `RingInv`, `ClockBound`, `TimesRight` and `Printed`: below |
| `PmuProfileProofs!TotalsCover` | `TotalsCoverCalls` | `ProfileInv`: below |

The gateway's proofs hold for every message size and every buffer that holds one report;
the bytes in the buffer are the interval of the stream behind those returned. The
receiver's hold for every width of the sequence number: gaps are differences modulo the
width, and the counter telescopes because equal residues stay equal when a gap is added
(`GapTelescopes`); it is exact where the true gap is below the width.
`PairInv` relates the two tick rings to the history of each order, for every number of
places: an order in the ring of sends has not been reported on and its ticks are those of
its own send (`SentRight`), one in the ring of acks has been and its ticks are those of its
own ack (`AckedRight`), a logged ack or fill is the only one of its order (`LogRight`), and
the orders displaced before their first report (`Lost`) are no more than the collisions
counted. It rests on what `set` and `erase` do to the other orders (`SetRing`,
`EraseRing`). `RingInv` says that the trace of entry j of the history lies at place
`(j - 1) % CAPACITY`, for all but the oldest of the last `CAPACITY` entries: `start_trace`
has already cleared that one when an idle iteration is discarded, and then its place has
`RecvStart` and no other hop (`Oldest`). Its step is that two
entries less than `CAPACITY` apart have different places (`Apart`), and that a place
written over shows its own stamps only (`OverwriteShows`).

The report is then right because the traces it reads are the latest entries of the history
(`KeptReads`); a place left by an idle iteration is in no count and no segment, since no
segment has `RecvStart` at both its ends. So the traces that have the hops of a segment and
the entries that have them correspond one to one (`ReadSame`), and have the same latencies
(`LatenciesRight`): the unsigned difference is the distance, because each trace's hops were
read in order (`TimesRight`, which needs `PairInv` for the times taken from a tick ring) and
the clock has not wrapped (`ClockBound`). An order of a finite set by the values of a function
exists (`SortExists`), so what `Sorted` chooses has the values of that function in order
(`SortedRanks`); the element at rank k then has at most k below it and more than k at or
below it (`RankRight`, by counting the images of `1 .. k`), and the mean is the quotient of
the sum (`MeanRight`). The sum does not depend on the order in which it is taken (`SumMap`).
`ProfileInv` says, counter by counter and for every place in the four passes over them,
whether the counter runs, and that its total together with what it still owes and what was
missed (`Owed`) covers the events of the profiled function and is covered by those of the scope. It needs
that a counter not yet built has seen no call, and that no counter is visited twice in a
pass (`EnabledListed`).

### The matching books

`MatchingProofs`, for every set of ids, prices and quantities and every sequence of orders
and cancels in which no order has the id of one that rests. `add_order` does not test that;
it is an assumption on its callers, which the benchmark and the tests keep:

| Theorem | Property |
|---|---|
| `BookIsSound` | `BookSound` |
| `BookKeepsPriority` | `ImplementsAuction` |
| `BooksAgree` | `SameBook` |
| `EngineKeepsPriority` | `ImplementsAuction` and `BookSound` under the engine's specification |

`BookInv` says that the index and the queues hold the same orders (`InOrder`: every listed
order is in the index with its side and price, every indexed order is in one queue once)
and that no bid reaches an ask (`Uncrossed`). Matching breaks both for a while, and
`Matching` is what holds between two passes: the book of one side is in order with the
index that is left, and quantities are counted. That the loop has come to its end after
one pass per resting order is `Progress`: every pass but the last takes an order out of the
index. At the end nothing more can trade (`Settled`), so that what is placed does not
cross.

The refinement of `PriceTimeAuction` follows the passes of the matching loop with a function
`s` from the resting orders to what each has traded so far. `Shared` is what every pass
keeps: only orders the incoming one accepts have traded, each in its turn (`InTurn`); the
index has those with something left (`Taken`); the incoming order's quantity is what is left
plus the sum of `s` (`Remainder`); the queues hold what is left of each, in the order in
which they stood (`QueuesLeft`, `QueuesKeep`); and the fills logged are those of `s`, in
order of priority (`Logged`). The step is `AtFront`: the order at the front of the best level
is the next in turn, because every order before it has left its queue. It holds for every
number of passes by smallest counterexample (`MatchShared`). Where the loop ends,
`Shared` gives the `Fair` and `Executed` of the auction (`SharedExecuted`), and placing the
rest at the end of its queue gives `Rests` (`SharedRests`). A cancel shifts the later orders
of a queue by one place, which leaves their order of arrival alone (`CancelShifts`).

`EngineInv` adds that the engine's sides are the levels of the book in order of price
(`SameSide`). The engine matches in two nested loops and the book in one, so they are
compared pass by pass: `Leads` says that some number of passes of the book leads from one
state to another, every pass of the engine's inner loop is a pass of the book
(`InnerSame`), and so the end of the inner loop and then of the outer one is reached by the
book too (`OuterSame`), where it stays, since both stop on the same conditions. The front of a
sorted side is its best price, which is the minimum of the asks and the maximum of the
bids. The three loops are recursive functions; `LoopPass` treats them alike.

### The clock-skew tool

`ToolProofs`, for every skew, threshold, number of samples, length of run and list of cores:

| Theorem | Property |
|---|---|
| `TypeCorrect` | `TypeOK` of one measurement |
| `HandshakeHolds` | `Handshake` |
| `BoundsSound`, `ToolBoundsSound` | `SkewWithinBounds`, of one measurement and in every pair |
| `VerdictRight`, `ToolVerdictRight` | `VerdictSound`, likewise |
| `ExitCodeComplete` | `ExitCodeSound` |

The inductive invariant of `TscSync` is `TypeOK /\ Handshake /\ SamplesCounted /\ SkewWithinBounds`.
The bounds are right because the time stamp used was taken between the start and the end
of its own exchange; `Handshake` says so for every position of the two threads. It then
takes one arithmetic fact, that half a round trip rounded down and rounded up add up to
the whole (`Halves`, `BoundsContainSkew`). The verdict also needs that a best sample
exists when the loop ends (`SamplesCounted`). `ToolInv` adds that main has checked the
arguments before it measures, that `all_pass` is the conjunction of the verdicts so far,
and that, once false, the skew is above the threshold (`MainInv`). A pair starts in
`TscSync!Init`, so the measurement's invariant is re-established each time. `ListInv`
counts the cores measured, so that no core of the list is skipped: the exit code is about
all of them. Sequential consistency of the accesses is assumed: every store that another
thread reads is released by `ack` or `request`.

### Only model-checked

- Liveness under fairness: `OrdersSettle`, `ReportsDelivered`, `ToolEnds`, `RunnerEnds`.
  Fairness is about `ENABLED`, which the proof system cannot reason about.

## Not modelled

- `src/instrument/tick_sampler.cpp`: compiled, never called.
- `benchmarks/matching_bench.cpp`: generates a workload and measures time.
- Argument parsing and printing of the trading client, the files it saves, and the PnL
  marked in its report: text without state of its own.
- The standard deviation of the latency report: a square root of doubles.
- In `MdReceiver` the ways in which `init` can fail: in all of them `main` gives up before
  anything was received. In `OrderGateway` the refusal of limit orders by `submit_order`:
  the loop sends IOC orders only. In `TscCheck` the arguments that are no numbers or out of
  range and `--help`: the tool exits before it measures anything; `TscAssumption` states
  what is left.
- `NoopTracer`, the non-Linux clocks and the non-Linux branches of the PMU code.
- In `bench_runner.py`: command lines, pinning prefixes and the regular expressions that
  read the reports. The two clients are told apart in the server's report by the order in
  which they connected; the model has no connections, and nothing in the repository says
  which one comes first.

## Plan

Every component with state that the programs use has its module, and every safety
property its theorem. What is left is liveness, which is checked on small instances, and
the parts listed above as not modelled.
