----------------------------- MODULE PmuProfile -----------------------------
(***************************************************************************)
(* Hardware counters around process_market_signal_and_order                *)
(* (src/perf_counter.cpp): a PmuProfileScope resets and enables the        *)
(* counters of the group chosen, one system call at a time, and disables   *)
(* and reads them when the function returns.                               *)
(*                                                                         *)
(* Events of every kind go on happening between any two of these calls:    *)
(* those of the profiled function, and those of the profiling itself.      *)
(* A processor counts few kinds of event at a time; with more of them than *)
(* that, or with another user of its counters, the kernel lets them take   *)
(* turns, and an enabled counter misses what happens in between.  The code *)
(* reads the raw counts and does not scale them by the time they ran.      *)
(***************************************************************************)
EXTENDS Naturals, Sequences, SequencesExt

CONSTANTS
    pmu_group_name,     \* NTS_PMU_GROUP, "core" when it is not set
    MaxCalls,           \* bound: calls of the profiled function
    MaxEvents           \* bound: events of each kind

ASSUME PmuAssumption ==
    pmu_group_name \in STRING /\ MaxCalls \in Nat /\ MaxEvents \in Nat

\* The counters of each group, in the order in which they are visited.
CountersOf ==
    [core  |-> <<"cycles", "instructions", "branches", "branch_misses", "page_faults">>,
     cache |-> <<"cache_references", "cache_misses">>,
     l1d   |-> <<"l1d_loads", "l1d_load_misses", "l1d_stores">>,
     llc   |-> <<"llc_loads", "llc_load_misses", "llc_stores", "llc_store_misses">>]

pmu_event_enabled(group) == pmu_group_name \in {"all", group}

\* The counters a scope visits; none for an unknown group.
Visited(group) == IF pmu_event_enabled(group) THEN CountersOf[group] ELSE << >>
Enabled == Visited("core") \o Visited("cache") \o Visited("l1d") \o Visited("llc")
Event == ToSet(Enabled)

VARIABLES
    pc,         \* outside, reset, enable, body, disable or read
    k,          \* index in Enabled of the counter whose turn it is
    fd,         \* Event -> none (not constructed), open or failed
    counter,    \* Event -> the kernel's counter
    counting,   \* Event -> whether it is enabled
    totals,     \* Event -> PmuProfileTotals
    calls,
    body,       \* history: events that happened inside the profiled function
    window,     \* history: events between the start and the end of a scope
    missed      \* history: events of an enabled counter that no total will have

sums == <<totals, calls>>
past == <<body, window, missed>>
vars == <<pc, k, fd, counter, counting, sums, past>>

Zero == [e \in Event |-> 0]

Init ==
    /\ pc = "outside" /\ k = 1
    /\ fd = [e \in Event |-> "none"]
    /\ counter = Zero /\ counting = [e \in Event |-> FALSE]
    /\ totals = Zero /\ calls = 0
    /\ body = Zero /\ window = Zero /\ missed = Zero

\* An event happens, in the profiled function or elsewhere (external).  An enabled
\* counter counts it, unless the counter has lost its place in the processor for the
\* moment; page faults are counted by the kernel itself and need no place.
Happens(e) ==
    /\ window[e] < MaxEvents /\ counter[e] < MaxEvents
    /\ \/ /\ counting[e]
          /\ counter' = [counter EXCEPT ![e] = @ + 1]
          /\ UNCHANGED missed
       \/ /\ counting[e] /\ e # "page_faults"
          /\ missed' = [missed EXCEPT ![e] = @ + 1]
          /\ UNCHANGED counter
       \/ /\ ~counting[e]
          /\ UNCHANGED <<counter, missed>>
    /\ body' = [body EXCEPT ![e] = IF pc = "body" THEN @ + 1 ELSE @]
    /\ window' = [window EXCEPT ![e] = IF pc = "outside" THEN @ ELSE @ + 1]
    /\ UNCHANGED <<pc, k, fd, counting, sums>>

-----------------------------------------------------------------------------
(* PerfCounter *)

e_k == Enabled[k]
IsOpen == fd[e_k] = "open"

\* The counter of e is a static object: the first visit opens it, disabled, or finds
\* that the event is not supported.
Construct ==
    /\ pc = "reset" /\ k <= Len(Enabled)
    /\ fd[e_k] = "none"
    /\ \E result \in {"open", "failed"} : fd' = [fd EXCEPT ![e_k] = result]
    /\ UNCHANGED <<pc, k, counter, counting, sums, past>>

\* One visit of the counters done, the next one begins.
Advance(next) ==
    IF k < Len(Enabled) THEN k' = k + 1 /\ UNCHANGED pc ELSE k' = 1 /\ pc' = next

MutReset ==                                    \* mutant: only a new counter is reset
    /\ pc = "reset" /\ k <= Len(Enabled) /\ fd[e_k] # "none"
    /\ Advance("enable")
    /\ UNCHANGED <<fd, counter, counting, sums, past>>

Reset ==
    /\ pc = "reset" /\ k <= Len(Enabled) /\ fd[e_k] # "none"
    /\ counter' = [counter EXCEPT ![e_k] = IF IsOpen THEN 0 ELSE @]
    /\ Advance("enable")
    /\ UNCHANGED <<fd, counting, sums, past>>

Enable ==
    /\ pc = "enable"
    /\ counting' = [counting EXCEPT ![e_k] = IsOpen]
    /\ Advance("body")
    /\ UNCHANGED <<fd, counter, sums, past>>

Disable ==
    /\ pc = "disable"
    /\ counting' = [counting EXCEPT ![e_k] = FALSE]
    /\ Advance("read")
    /\ UNCHANGED <<fd, counter, sums, past>>

\* What read_value may return: 0 without a descriptor, and 0 when the read comes back
\* short.
read_value == IF IsOpen THEN {counter[e_k], 0} ELSE {0}

Accumulate ==
    /\ pc = "read"
    /\ \E value \in read_value :
        /\ totals' = [totals EXCEPT ![e_k] = @ + value]
        /\ missed' = [missed EXCEPT ![e_k] = IF IsOpen THEN @ + (counter[e_k] - value) ELSE @]
    /\ Advance("outside")
    /\ UNCHANGED <<fd, counter, counting, calls, body, window>>

-----------------------------------------------------------------------------
(* PmuProfileScope *)

\* The constructor; with no counter to visit the function runs at once.
EnterScope ==
    /\ pc = "outside" /\ calls < MaxCalls
    /\ pc' = IF Enabled = << >> THEN "body" ELSE "reset"
    /\ UNCHANGED <<k, fd, counter, counting, sums, past>>

\* The destructor.
LeaveScope ==
    /\ pc = "body"
    /\ calls' = calls + 1
    /\ pc' = IF Enabled = << >> THEN "outside" ELSE "disable"
    /\ UNCHANGED <<k, fd, counter, counting, totals, past>>

Next ==
    \/ EnterScope \/ Construct \/ Reset \/ Enable \/ LeaveScope \/ Disable \/ Accumulate
    \/ \E e \in Event : Happens(e)

Spec == Init /\ [][Next]_vars

-----------------------------------------------------------------------------
(* Properties *)

\* Between two calls the total of a counter is what happened inside the profiled
\* function, over all calls, and of what happened outside it at most what the scope
\* itself costs, short exactly of the events that the counter missed while it had no
\* place in the processor and of the reads that came back short: nothing is counted
\* twice, left over from an earlier call or lost in any other way.  An unsupported
\* event stays at 0.
TotalsCoverCalls ==
    pc = "outside" =>
        \A e \in Event :
            /\ fd[e] = "open" => /\ body[e] <= totals[e] + missed[e]
                                /\ totals[e] + missed[e] <= window[e]
            /\ fd[e] # "open" => totals[e] = 0
=============================================================================
