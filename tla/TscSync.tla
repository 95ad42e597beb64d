------------------------------ MODULE TscSync ------------------------------
(***************************************************************************)
(* The clock-skew tool (tools/tsc_sync_check.cpp): measure_pair on the     *)
(* reference core and target_loop on the target core exchange requests and *)
(* acks through atomics, and the reference derives bounds on the skew of   *)
(* the target's time stamp counter from the fastest exchange.              *)
(*                                                                         *)
(* now is the reference's counter; the target's reads now + Skew.  Any     *)
(* time may pass between two steps.  The stores and loads of request and   *)
(* ack are release and acquire, and target_tsc is written before the one   *)
(* and read after the other, so that steps interleave as if each had its   *)
(* effect at once.                                                         *)
(***************************************************************************)
EXTENDS Integers

CONSTANTS
    Skew,              \* target counter minus reference counter
    Start,             \* the reference's counter at the beginning
    warmup, samples, threshold_cycles,     \* Config
    MaxTime            \* bound: the reference's counter at the end

ASSUME TscAssumption ==
    /\ Skew \in Int
    /\ Start \in Nat /\ Start + Skew \in Nat
    /\ warmup \in Nat /\ samples \in Nat \ {0} /\ threshold_cycles \in Nat
    /\ MaxTime \in Nat /\ MaxTime >= Start

VARIABLES
    now,
    request, ack, ready, stop, target_tsc,      \* Shared
    ref_pc, i, start, end, best,                \* measure_pair; best.taken is FALSE
                                                \* until the first sample counts
    target_pc, seen, tsc                        \* target_loop

shared == <<request, ack, ready, stop, target_tsc>>
ref == <<ref_pc, i, start, end, best>>
target == <<target_pc, seen, tsc>>
vars == <<now, shared, ref, target>>

Init ==
    /\ now = Start
    /\ request = 0 /\ ack = 0 /\ ready = FALSE /\ stop = FALSE /\ target_tsc = 0
    /\ ref_pc = "wait" /\ i = 0 /\ start = 0 /\ end = 0
    /\ best = [taken |-> FALSE, roundtrip |-> 0, offset |-> 0]
    /\ target_pc = "pin" /\ seen = 0 /\ tsc = 0

Tick ==
    /\ now < MaxTime
    /\ now' = now + 1
    /\ UNCHANGED <<shared, ref, target>>

-----------------------------------------------------------------------------
(* target_loop *)

TargetReady ==
    /\ target_pc = "pin"
    /\ ready' = TRUE
    /\ target_pc' = "test"
    /\ UNCHANGED <<now, request, ack, stop, target_tsc, ref, seen, tsc>>

MutTestStop ==                                 \* mutant: the target never looks at stop
    /\ target_pc = "test"
    /\ target_pc' = "load"
    /\ UNCHANGED <<now, shared, ref, seen, tsc>>

TestStop ==
    /\ target_pc = "test"
    /\ target_pc' = IF stop THEN "exit" ELSE "load"
    /\ UNCHANGED <<now, shared, ref, seen, tsc>>

LoadRequest ==
    /\ target_pc = "load"
    /\ seen' = request
    /\ target_pc' = IF request = seen THEN "test" ELSE "read"
    /\ UNCHANGED <<now, shared, ref, tsc>>

ReadTsc ==
    /\ target_pc = "read"
    /\ tsc' = now + Skew
    /\ target_pc' = "store"
    /\ UNCHANGED <<now, shared, ref, seen>>

StoreTsc ==
    /\ target_pc = "store"
    /\ target_tsc' = tsc
    /\ target_pc' = "ack"
    /\ UNCHANGED <<now, request, ack, ready, stop, ref, seen, tsc>>

StoreAck ==
    /\ target_pc = "ack"
    /\ ack' = seen
    /\ target_pc' = "test"
    /\ UNCHANGED <<now, request, ready, stop, target_tsc, ref, seen, tsc>>

-----------------------------------------------------------------------------
(* measure_pair *)

SeeReady ==
    /\ ref_pc = "wait" /\ ready
    /\ ref_pc' = "sample"
    /\ UNCHANGED <<now, shared, i, start, end, best, target>>

BeginSample ==
    /\ ref_pc = "sample" /\ i < warmup + samples
    /\ start' = now
    /\ ref_pc' = "request"
    /\ UNCHANGED <<now, shared, i, end, best, target>>

StoreRequest ==
    /\ ref_pc = "request"
    /\ request' = i + 1
    /\ ref_pc' = "spin"
    /\ UNCHANGED <<now, ack, ready, stop, target_tsc, i, start, end, best, target>>

MutSeeAck ==                                   \* mutant: the previous answer will do
    /\ ref_pc = "spin" /\ ack >= i
    /\ ref_pc' = "end"
    /\ UNCHANGED <<now, shared, i, start, end, best, target>>

SeeAck ==
    /\ ref_pc = "spin" /\ ack = i + 1
    /\ ref_pc' = "end"
    /\ UNCHANGED <<now, shared, i, start, end, best, target>>

EndSample ==
    /\ ref_pc = "end"
    /\ end' = now
    /\ ref_pc' = "keep"
    /\ UNCHANGED <<now, shared, i, start, best, target>>

Offset(t, s, r) == t - (s + r \div 2)

Roundtrip == end - start

Improves(r) == ~ best.taken \/ r < best.roundtrip

KeepBest ==
    /\ ref_pc = "keep"
    /\ best' = IF i >= warmup /\ Improves(Roundtrip)
               THEN [taken |-> TRUE, roundtrip |-> Roundtrip,
                     offset |-> Offset(target_tsc, start, Roundtrip)]
               ELSE best
    /\ i' = i + 1
    /\ ref_pc' = "sample"
    /\ UNCHANGED <<now, shared, start, end, target>>

StoreStop ==
    /\ ref_pc = "sample" /\ i = warmup + samples
    /\ stop' = TRUE
    /\ ref_pc' = "bump"
    /\ UNCHANGED <<now, request, ack, ready, target_tsc, i, start, end, best, target>>

BumpRequest ==
    /\ ref_pc = "bump"
    /\ request' = request + 1
    /\ ref_pc' = "join"
    /\ UNCHANGED <<now, ack, ready, stop, target_tsc, i, start, end, best, target>>

Join ==
    /\ ref_pc = "join" /\ target_pc = "exit"
    /\ ref_pc' = "done"
    /\ UNCHANGED <<now, shared, i, start, end, best, target>>

\* The statistics of the pair.
MutHalfDown == best.roundtrip \div 2           \* mutant: the half is rounded down
uncertainty == (best.roundtrip + 1) \div 2
low_bound == best.offset - uncertainty
high_bound == best.offset + uncertainty
MutPassOffset == best.offset <= threshold_cycles + uncertainty      \* mutant: no llabs
pass ==
    /\ best.offset <= threshold_cycles + uncertainty
    /\ -best.offset <= threshold_cycles + uncertainty

-----------------------------------------------------------------------------
Target == TargetReady \/ TestStop \/ LoadRequest \/ ReadTsc \/ StoreTsc \/ StoreAck
Reference ==
    \/ SeeReady \/ BeginSample \/ StoreRequest \/ SeeAck \/ EndSample
    \/ KeepBest \/ StoreStop \/ BumpRequest \/ Join

Next == Tick \/ Target \/ Reference

\* Each thread has a core of its own and keeps running.
Spec == Init /\ [][Next]_vars /\ WF_vars(Target) /\ WF_vars(Reference)

-----------------------------------------------------------------------------
(* Properties *)

\* Every variable has its type.
TypeOK ==
    /\ now \in Nat /\ now >= Start
    /\ request \in Nat /\ ack \in Nat /\ ready \in BOOLEAN /\ stop \in BOOLEAN
    /\ target_tsc \in Int
    /\ ref_pc \in {"wait", "sample", "request", "spin", "end", "keep", "bump", "join", "done"}
    /\ i \in Nat /\ start \in Nat /\ end \in Nat
    /\ best \in [taken : BOOLEAN, roundtrip : Nat, offset : Int]
    /\ target_pc \in {"pin", "test", "load", "read", "store", "ack", "exit"}
    /\ seen \in Nat /\ tsc \in Int

\* The bounds printed for a pair contain the true skew, however the two threads
\* interleave and whatever sample was the fastest: the time stamp used is always
\* one taken between the start and the end of its own exchange.
SkewWithinBounds == best.taken => low_bound <= Skew /\ Skew <= high_bound

\* The invariant behind the bounds: while a request is open the target has either not
\* seen it, or is answering it, or has answered it, with a time stamp taken after the
\* start of that request; no request is made while the target still works on another.
\* Once stop is set the handshake no longer matters, only the number of samples.
Idle == target_pc \in {"pin", "test", "load"}
Within(t, latest) == start <= t - Skew /\ t - Skew <= latest
Unseen == seen = i /\ ack = i /\ Idle
Answering ==
    /\ seen = i + 1 /\ ack = i
    /\ \/ target_pc = "read"
       \/ target_pc = "store" /\ Within(tsc, now)
       \/ target_pc = "ack" /\ Within(target_tsc, now)
Answered == seen = i + 1 /\ ack = i + 1 /\ Idle
Handshake ==
    /\ stop <=> ref_pc \in {"bump", "join", "done"}
    /\ ref_pc \in {"wait", "sample", "request"} => request = i /\ Unseen
    /\ ref_pc \in {"request", "spin", "end"} => start <= now
    /\ ref_pc = "spin" =>
          /\ request = i + 1
          /\ Unseen \/ Answering \/ (Answered /\ Within(target_tsc, now))
    /\ ref_pc = "end" => request = i + 1 /\ Answered /\ Within(target_tsc, now)
    /\ ref_pc = "keep" => request = i + 1 /\ Answered /\ Within(target_tsc, end)

\* The verdict means what it says: "check" proves a skew above the threshold, and
\* "ok" limits it to the threshold and twice the uncertainty.
VerdictSound ==
    ref_pc = "done" =>
        /\ ~ pass => Skew > threshold_cycles \/ -Skew > threshold_cycles
        /\ pass => /\ Skew <= threshold_cycles + 2 * uncertainty
                   /\ -Skew <= threshold_cycles + 2 * uncertainty
=============================================================================
