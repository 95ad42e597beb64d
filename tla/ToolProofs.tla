----------------------------- MODULE ToolProofs -----------------------------
(***************************************************************************)
(* Machine-checked proofs about the two programs under tools/: the         *)
(* clock-skew tool (modules TscSync and TscCheck) for every skew, number   *)
(* of samples and list of cores, and the benchmark runner (module          *)
(* BenchRunner) for every number of interruptions.                         *)
(***************************************************************************)
EXTENDS TscCheck, BenchRunner, SequenceTheorems, FiniteSetTheorems, TLAPS

-----------------------------------------------------------------------------
(* The clock-skew tool *)

\* The samples are counted: every request belongs to a sample, and once the warm-up is
\* over there is a best one.
SamplesCounted ==
    /\ i > warmup => best.taken
    /\ ref_pc = "wait" => i = 0
    /\ ref_pc \in {"request", "spin", "end", "keep"} => i < warmup + samples
    /\ ref_pc \in {"bump", "join", "done"} => i = warmup + samples

\* The inductive invariant.
IInv == TypeOK /\ Handshake /\ SamplesCounted /\ SkewWithinBounds

-----------------------------------------------------------------------------
(* Arithmetic *)

\* What rounding half a round trip down and up loses.
LEMMA Halves ==
    ASSUME NEW r \in Nat
    PROVE  /\ r \div 2 \in Nat /\ (r + 1) \div 2 \in Nat
           /\ r \div 2 + (r + 1) \div 2 = r
           /\ r \div 2 <= (r + 1) \div 2
  OBVIOUS

\* A time stamp taken between s and e puts the skew k within the bounds.
LEMMA BoundsContainSkew ==
    ASSUME NEW k \in Int, NEW t \in Int, NEW s \in Nat, NEW e \in Nat,
           s <= t - k, t - k <= e
    PROVE  /\ e - s \in Nat
           /\ Offset(t, s, e - s) \in Int
           /\ Offset(t, s, e - s) - (e - s + 1) \div 2 <= k
           /\ k <= Offset(t, s, e - s) + (e - s + 1) \div 2
<1>1. e - s \in Nat
  OBVIOUS
<1>2. /\ (e - s) \div 2 \in Nat /\ (e - s + 1) \div 2 \in Nat
      /\ (e - s) \div 2 + (e - s + 1) \div 2 = e - s
      /\ (e - s) \div 2 <= (e - s + 1) \div 2
  BY <1>1, Halves
<1> DEFINE h == (e - s) \div 2
           u == (e - s + 1) \div 2
<1>3. h \in Nat /\ u \in Nat /\ h + u = e - s /\ h <= u
  BY <1>2
<1>4. Offset(t, s, e - s) = t - (s + h)
  BY DEF Offset
<1> HIDE DEF h, u
<1>5. t - (s + h) \in Int /\ t - (s + h) - u <= k /\ k <= t - (s + h) + u
  BY <1>3
<1> QED BY <1>1, <1>4, <1>5 DEF u

-----------------------------------------------------------------------------
(* The invariant *)

\* The invariant holds when a measurement starts.
LEMMA InitInv == Init => IInv
<1> SUFFICES ASSUME Init PROVE IInv
  OBVIOUS
<1>1. TypeOK
  <2>1. best \in [taken : BOOLEAN, roundtrip : Nat, offset : Int]
    BY DEF Init
  <2>2. now \in Nat /\ now >= Start
    BY TscAssumption DEF TscAssumption, Init
  <2> QED BY <2>1, <2>2 DEF Init, TypeOK
<1>2. Handshake
  BY DEF Init, Handshake, Unseen, Idle
<1>3. SamplesCounted
  BY TscAssumption DEF TscAssumption, Init, SamplesCounted
<1>4. best.taken = FALSE
  BY DEF Init
<1>5. SkewWithinBounds
  BY <1>4 DEF SkewWithinBounds
<1> QED BY <1>1, <1>2, <1>3, <1>5 DEF IInv

\* Everything but KeepBest leaves the best sample alone.
LEMMA BoundsKept ==
    ASSUME SkewWithinBounds, best' = best
    PROVE  SkewWithinBounds'
  BY DEF SkewWithinBounds, low_bound, high_bound, uncertainty

\* Tick keeps the invariant.
LEMMA TickInv == IInv /\ Tick => IInv'
<1> SUFFICES ASSUME IInv, Tick PROVE IInv'
  OBVIOUS
<1>1. TypeOK'
  BY TscAssumption DEF IInv, TypeOK, Tick, shared, ref, target, TscAssumption
<1>2. Handshake'
  BY TscAssumption DEF IInv, TypeOK, Handshake, Unseen, Answering, Answered, Idle, Within,
     Tick, shared, ref, target, TscAssumption
<1>3. SamplesCounted'
  BY DEF IInv, SamplesCounted, Tick, ref
<1>4. SkewWithinBounds'
  BY BoundsKept DEF IInv, Tick, ref
<1> QED BY <1>1, <1>2, <1>3, <1>4 DEF IInv

\* TargetReady keeps the invariant.
LEMMA TargetReadyInv == IInv /\ TargetReady => IInv'
<1> SUFFICES ASSUME IInv, TargetReady PROVE IInv'
  OBVIOUS
<1>1. TypeOK'
  BY TscAssumption DEF IInv, TypeOK, TargetReady, shared, ref, target, TscAssumption
<1>2. Handshake'
  BY TscAssumption DEF IInv, TypeOK, Handshake, SamplesCounted, Unseen, Answering, Answered,
     Idle, Within, TargetReady, shared, ref, target, TscAssumption
<1>3. SamplesCounted'
  BY TscAssumption DEF IInv, TypeOK, SamplesCounted, TargetReady, ref, TscAssumption
<1>4. SkewWithinBounds'
  BY BoundsKept DEF IInv, TargetReady, ref
<1> QED BY <1>1, <1>2, <1>3, <1>4 DEF IInv

\* TestStop keeps the invariant.
LEMMA TestStopInv == IInv /\ TestStop => IInv'
<1> SUFFICES ASSUME IInv, TestStop PROVE IInv'
  OBVIOUS
<1>1. TypeOK'
  BY TscAssumption DEF IInv, TypeOK, TestStop, shared, ref, target, TscAssumption
<1>2. Handshake'
  BY TscAssumption DEF IInv, TypeOK, Handshake, SamplesCounted, Unseen, Answering, Answered,
     Idle, Within, TestStop, shared, ref, target, TscAssumption
<1>3. SamplesCounted'
  BY TscAssumption DEF IInv, TypeOK, SamplesCounted, TestStop, ref, TscAssumption
<1>4. SkewWithinBounds'
  BY BoundsKept DEF IInv, TestStop, ref
<1> QED BY <1>1, <1>2, <1>3, <1>4 DEF IInv

\* LoadRequest keeps the invariant.
LEMMA LoadRequestInv == IInv /\ LoadRequest => IInv'
<1> SUFFICES ASSUME IInv, LoadRequest PROVE IInv'
  OBVIOUS
<1>1. TypeOK'
  BY TscAssumption DEF IInv, TypeOK, LoadRequest, shared, ref, target, TscAssumption
<1>2. Handshake'
  BY TscAssumption DEF IInv, TypeOK, Handshake, SamplesCounted, Unseen, Answering, Answered,
     Idle, Within, LoadRequest, shared, ref, target, TscAssumption
<1>3. SamplesCounted'
  BY TscAssumption DEF IInv, TypeOK, SamplesCounted, LoadRequest, ref, TscAssumption
<1>4. SkewWithinBounds'
  BY BoundsKept DEF IInv, LoadRequest, ref
<1> QED BY <1>1, <1>2, <1>3, <1>4 DEF IInv

\* ReadTsc keeps the invariant.
LEMMA ReadTscInv == IInv /\ ReadTsc => IInv'
<1> SUFFICES ASSUME IInv, ReadTsc PROVE IInv'
  OBVIOUS
<1>1. TypeOK'
  BY TscAssumption DEF IInv, TypeOK, ReadTsc, shared, ref, target, TscAssumption
<1>2. Handshake'
  BY TscAssumption DEF IInv, TypeOK, Handshake, SamplesCounted, Unseen, Answering, Answered,
     Idle, Within, ReadTsc, shared, ref, target, TscAssumption
<1>3. SamplesCounted'
  BY TscAssumption DEF IInv, TypeOK, SamplesCounted, ReadTsc, ref, TscAssumption
<1>4. SkewWithinBounds'
  BY BoundsKept DEF IInv, ReadTsc, ref
<1> QED BY <1>1, <1>2, <1>3, <1>4 DEF IInv

\* StoreTsc keeps the invariant.
LEMMA StoreTscInv == IInv /\ StoreTsc => IInv'
<1> SUFFICES ASSUME IInv, StoreTsc PROVE IInv'
  OBVIOUS
<1>1. TypeOK'
  BY TscAssumption DEF IInv, TypeOK, StoreTsc, shared, ref, target, TscAssumption
<1>2. Handshake'
  BY TscAssumption DEF IInv, TypeOK, Handshake, SamplesCounted, Unseen, Answering, Answered,
     Idle, Within, StoreTsc, shared, ref, target, TscAssumption
<1>3. SamplesCounted'
  BY TscAssumption DEF IInv, TypeOK, SamplesCounted, StoreTsc, ref, TscAssumption
<1>4. SkewWithinBounds'
  BY BoundsKept DEF IInv, StoreTsc, ref
<1> QED BY <1>1, <1>2, <1>3, <1>4 DEF IInv

\* StoreAck keeps the invariant.
LEMMA StoreAckInv == IInv /\ StoreAck => IInv'
<1> SUFFICES ASSUME IInv, StoreAck PROVE IInv'
  OBVIOUS
<1>1. TypeOK'
  BY TscAssumption DEF IInv, TypeOK, StoreAck, shared, ref, target, TscAssumption
<1>2. Handshake'
  BY TscAssumption DEF IInv, TypeOK, Handshake, SamplesCounted, Unseen, Answering, Answered,
     Idle, Within, StoreAck, shared, ref, target, TscAssumption
<1>3. SamplesCounted'
  BY TscAssumption DEF IInv, TypeOK, SamplesCounted, StoreAck, ref, TscAssumption
<1>4. SkewWithinBounds'
  BY BoundsKept DEF IInv, StoreAck, ref
<1> QED BY <1>1, <1>2, <1>3, <1>4 DEF IInv

\* SeeReady keeps the invariant.
LEMMA SeeReadyInv == IInv /\ SeeReady => IInv'
<1> SUFFICES ASSUME IInv, SeeReady PROVE IInv'
  OBVIOUS
<1>1. TypeOK'
  BY TscAssumption DEF IInv, TypeOK, SeeReady, shared, ref, target, TscAssumption
<1>2. Handshake'
  BY TscAssumption DEF IInv, TypeOK, Handshake, SamplesCounted, Unseen, Answering, Answered,
     Idle, Within, SeeReady, shared, ref, target, TscAssumption
<1>3. SamplesCounted'
  BY TscAssumption DEF IInv, TypeOK, SamplesCounted, SeeReady, ref, TscAssumption
<1>4. SkewWithinBounds'
  BY BoundsKept DEF IInv, SeeReady, ref
<1> QED BY <1>1, <1>2, <1>3, <1>4 DEF IInv

\* BeginSample keeps the invariant.
LEMMA BeginSampleInv == IInv /\ BeginSample => IInv'
<1> SUFFICES ASSUME IInv, BeginSample PROVE IInv'
  OBVIOUS
<1>1. TypeOK'
  BY TscAssumption DEF IInv, TypeOK, BeginSample, shared, ref, target, TscAssumption
<1>2. Handshake'
  BY TscAssumption DEF IInv, TypeOK, Handshake, SamplesCounted, Unseen, Answering, Answered,
     Idle, Within, BeginSample, shared, ref, target, TscAssumption
<1>3. SamplesCounted'
  BY TscAssumption DEF IInv, TypeOK, SamplesCounted, BeginSample, ref, TscAssumption
<1>4. SkewWithinBounds'
  BY BoundsKept DEF IInv, BeginSample, ref
<1> QED BY <1>1, <1>2, <1>3, <1>4 DEF IInv

\* StoreRequest keeps the invariant.
LEMMA StoreRequestInv == IInv /\ StoreRequest => IInv'
<1> SUFFICES ASSUME IInv, StoreRequest PROVE IInv'
  OBVIOUS
<1>1. TypeOK'
  BY TscAssumption DEF IInv, TypeOK, StoreRequest, shared, ref, target, TscAssumption
<1>2. Handshake'
  BY TscAssumption DEF IInv, TypeOK, Handshake, SamplesCounted, Unseen, Answering, Answered,
     Idle, Within, StoreRequest, shared, ref, target, TscAssumption
<1>3. SamplesCounted'
  BY TscAssumption DEF IInv, TypeOK, SamplesCounted, StoreRequest, ref, TscAssumption
<1>4. SkewWithinBounds'
  BY BoundsKept DEF IInv, StoreRequest, ref
<1> QED BY <1>1, <1>2, <1>3, <1>4 DEF IInv

\* SeeAck keeps the invariant.
LEMMA SeeAckInv == IInv /\ SeeAck => IInv'
<1> SUFFICES ASSUME IInv, SeeAck PROVE IInv'
  OBVIOUS
<1>1. TypeOK'
  BY TscAssumption DEF IInv, TypeOK, SeeAck, shared, ref, target, TscAssumption
<1>2. Handshake'
  BY TscAssumption DEF IInv, TypeOK, Handshake, SamplesCounted, Unseen, Answering, Answered,
     Idle, Within, SeeAck, shared, ref, target, TscAssumption
<1>3. SamplesCounted'
  BY TscAssumption DEF IInv, TypeOK, SamplesCounted, SeeAck, ref, TscAssumption
<1>4. SkewWithinBounds'
  BY BoundsKept DEF IInv, SeeAck, ref
<1> QED BY <1>1, <1>2, <1>3, <1>4 DEF IInv

\* EndSample keeps the invariant.
LEMMA EndSampleInv == IInv /\ EndSample => IInv'
<1> SUFFICES ASSUME IInv, EndSample PROVE IInv'
  OBVIOUS
<1>1. TypeOK'
  BY TscAssumption DEF IInv, TypeOK, EndSample, shared, ref, target, TscAssumption
<1>2. Handshake'
  BY TscAssumption DEF IInv, TypeOK, Handshake, SamplesCounted, Unseen, Answering, Answered,
     Idle, Within, EndSample, shared, ref, target, TscAssumption
<1>3. SamplesCounted'
  BY TscAssumption DEF IInv, TypeOK, SamplesCounted, EndSample, ref, TscAssumption
<1>4. SkewWithinBounds'
  BY BoundsKept DEF IInv, EndSample, ref
<1> QED BY <1>1, <1>2, <1>3, <1>4 DEF IInv

\* StoreStop keeps the invariant.
LEMMA StoreStopInv == IInv /\ StoreStop => IInv'
<1> SUFFICES ASSUME IInv, StoreStop PROVE IInv'
  OBVIOUS
<1>1. TypeOK'
  BY TscAssumption DEF IInv, TypeOK, StoreStop, shared, ref, target, TscAssumption
<1>2. Handshake'
  BY TscAssumption DEF IInv, TypeOK, Handshake, SamplesCounted, Unseen, Answering, Answered,
     Idle, Within, StoreStop, shared, ref, target, TscAssumption
<1>3. SamplesCounted'
  BY TscAssumption DEF IInv, TypeOK, SamplesCounted, StoreStop, ref, TscAssumption
<1>4. SkewWithinBounds'
  BY BoundsKept DEF IInv, StoreStop, ref
<1> QED BY <1>1, <1>2, <1>3, <1>4 DEF IInv

\* BumpRequest keeps the invariant.
LEMMA BumpRequestInv == IInv /\ BumpRequest => IInv'
<1> SUFFICES ASSUME IInv, BumpRequest PROVE IInv'
  OBVIOUS
<1>1. TypeOK'
  BY TscAssumption DEF IInv, TypeOK, BumpRequest, shared, ref, target, TscAssumption
<1>2. Handshake'
  BY TscAssumption DEF IInv, TypeOK, Handshake, SamplesCounted, Unseen, Answering, Answered,
     Idle, Within, BumpRequest, shared, ref, target, TscAssumption
<1>3. SamplesCounted'
  BY TscAssumption DEF IInv, TypeOK, SamplesCounted, BumpRequest, ref, TscAssumption
<1>4. SkewWithinBounds'
  BY BoundsKept DEF IInv, BumpRequest, ref
<1> QED BY <1>1, <1>2, <1>3, <1>4 DEF IInv

\* Join keeps the invariant.
LEMMA JoinInv == IInv /\ Join => IInv'
<1> SUFFICES ASSUME IInv, Join PROVE IInv'
  OBVIOUS
<1>1. TypeOK'
  BY TscAssumption DEF IInv, TypeOK, Join, shared, ref, target, TscAssumption
<1>2. Handshake'
  BY TscAssumption DEF IInv, TypeOK, Handshake, SamplesCounted, Unseen, Answering, Answered,
     Idle, Within, Join, shared, ref, target, TscAssumption
<1>3. SamplesCounted'
  BY TscAssumption DEF IInv, TypeOK, SamplesCounted, Join, ref, TscAssumption
<1>4. SkewWithinBounds'
  BY BoundsKept DEF IInv, Join, ref
<1> QED BY <1>1, <1>2, <1>3, <1>4 DEF IInv
\* The one step that changes the best sample: its time stamp was taken between the
\* start and the end of its own exchange.
LEMMA KeepBestInv == IInv /\ KeepBest => IInv'
<1> SUFFICES ASSUME IInv, KeepBest PROVE IInv'
  OBVIOUS
<1>1. /\ start \in Nat /\ end \in Nat /\ target_tsc \in Int /\ Skew \in Int
      /\ start <= target_tsc - Skew /\ target_tsc - Skew <= end
  BY TscAssumption DEF TscAssumption, IInv, TypeOK, Handshake, Within, KeepBest
<1> DEFINE o == Offset(target_tsc, start, Roundtrip)
           u == (Roundtrip + 1) \div 2
<1>2. /\ Roundtrip \in Nat /\ o \in Int
      /\ o - u <= Skew /\ Skew <= o + u
  BY <1>1, BoundsContainSkew DEF Roundtrip
<1>3. CASE i >= warmup /\ Improves(Roundtrip)
  <2>1. best' = [taken |-> TRUE, roundtrip |-> Roundtrip, offset |-> o]
    BY <1>3 DEF KeepBest
  <2>2. best'.taken /\ best'.roundtrip = Roundtrip /\ best'.offset = o
    BY <2>1
  <2>3. best' \in [taken : BOOLEAN, roundtrip : Nat, offset : Int]
    BY <2>1, <1>2
  <2>4. SkewWithinBounds'
    BY <1>2, <2>2 DEF SkewWithinBounds, low_bound, high_bound, uncertainty
  <2>5. TypeOK'
    BY <2>3 DEF IInv, TypeOK, KeepBest, shared, target
  <2>6. SamplesCounted'
    BY <2>2, TscAssumption DEF IInv, TypeOK, SamplesCounted, KeepBest, TscAssumption
  <2>7. Handshake'
    BY TscAssumption DEF IInv, TypeOK, Handshake, Unseen, Answered, Idle, KeepBest,
       shared, target, TscAssumption
  <2> QED BY <2>4, <2>5, <2>6, <2>7 DEF IInv
<1>4. CASE ~ (i >= warmup /\ Improves(Roundtrip))
  <2>1. best' = best
    BY <1>4 DEF KeepBest
  <2>2. SkewWithinBounds'
    BY <2>1, BoundsKept DEF IInv
  <2>3. TypeOK'
    BY <2>1 DEF IInv, TypeOK, KeepBest, shared, target
  <2>4. i >= warmup => best.taken
    BY <1>4 DEF Improves
  <2>5. SamplesCounted'
    BY <2>1, <2>4, TscAssumption DEF IInv, TypeOK, SamplesCounted, KeepBest, TscAssumption
  <2>6. Handshake'
    BY TscAssumption DEF IInv, TypeOK, Handshake, Unseen, Answered, Idle, KeepBest,
       shared, target, TscAssumption
  <2> QED BY <2>2, <2>3, <2>5, <2>6 DEF IInv
<1> QED BY <1>3, <1>4

\* Every step keeps the invariant.
LEMMA NextInv == IInv /\ [Next]_vars => IInv'
<1> SUFFICES ASSUME IInv, [Next]_vars PROVE IInv'
  OBVIOUS
<1>1. CASE Tick
  BY <1>1, TickInv
<1>2. CASE Target
  BY <1>2, TargetReadyInv, TestStopInv, LoadRequestInv, ReadTscInv, StoreTscInv, StoreAckInv
     DEF Target
<1>3. CASE Reference
  BY <1>3, SeeReadyInv, BeginSampleInv, StoreRequestInv, SeeAckInv, EndSampleInv,
     KeepBestInv, StoreStopInv, BumpRequestInv, JoinInv DEF Reference
<1>4. CASE UNCHANGED vars
  <2>1. UNCHANGED <<now, request, ack, ready, stop, target_tsc, ref_pc, i, start, end, best,
                    target_pc, seen, tsc>>
    BY <1>4 DEF vars, shared, ref, target
  <2>2. TypeOK'
    BY <2>1 DEF IInv, TypeOK
  <2>3. Handshake'
    BY <2>1 DEF IInv, Handshake, Unseen, Answering, Answered, Idle, Within
  <2>4. SamplesCounted'
    BY <2>1 DEF IInv, SamplesCounted
  <2>5. SkewWithinBounds'
    BY <2>1, BoundsKept DEF IInv
  <2> QED BY <2>2, <2>3, <2>4, <2>5 DEF IInv
<1> QED BY <1>1, <1>2, <1>3, <1>4 DEF Next

\* The inductive invariant holds throughout every run of measure_pair.
THEOREM MeasurementInv == Spec => []IInv
  BY InitInv, NextInv, PTL DEF Spec

-----------------------------------------------------------------------------
(* What follows from it *)

\* Type correctness of measure_pair and target_loop.
THEOREM TypeCorrect == Spec => []TypeOK
<1>1. IInv => TypeOK
  BY DEF IInv
<1> QED BY <1>1, MeasurementInv, PTL

\* Every answer belongs to the request just made, however the two threads interleave.
THEOREM HandshakeHolds == Spec => []Handshake
<1>1. IInv => Handshake
  BY DEF IInv
<1> QED BY <1>1, MeasurementInv, PTL

\* The bounds printed for a pair contain the true skew.
THEOREM BoundsSound == Spec => []SkewWithinBounds
<1>1. IInv => SkewWithinBounds
  BY DEF IInv
<1> QED BY <1>1, MeasurementInv, PTL

\* The verdict is right whenever the bounds are.
LEMMA VerdictFromBounds ==
    ASSUME NEW k \in Int, NEW o \in Int, NEW u \in Nat, NEW c \in Nat,
           o - u <= k, k <= o + u
    PROVE  /\ ~ (o <= c + u /\ -o <= c + u) => k > c \/ -k > c
           /\ o <= c + u /\ -o <= c + u => k <= c + 2 * u /\ -k <= c + 2 * u
  OBVIOUS

\* At the end of measure_pair there is a best sample, and its bounds are right.
LEMMA VerdictFromInv == IInv => VerdictSound
<1> SUFFICES ASSUME IInv, ref_pc = "done"
             PROVE  /\ ~ pass => Skew > threshold_cycles \/ -Skew > threshold_cycles
                    /\ pass => /\ Skew <= threshold_cycles + 2 * uncertainty
                               /\ -Skew <= threshold_cycles + 2 * uncertainty
  BY DEF VerdictSound
<1>1. best.taken
  BY TscAssumption DEF TscAssumption, IInv, TypeOK, SamplesCounted
<1>2. best.roundtrip \in Nat /\ best.offset \in Int
  BY DEF IInv, TypeOK
<1>3. uncertainty \in Nat
  BY <1>2, Halves DEF uncertainty
<1>4. best.offset - uncertainty <= Skew /\ Skew <= best.offset + uncertainty
  BY <1>1 DEF IInv, SkewWithinBounds, low_bound, high_bound
<1>5. Skew \in Int /\ threshold_cycles \in Nat
  BY TscAssumption DEF TscAssumption
<1> QED BY <1>2, <1>3, <1>4, <1>5, VerdictFromBounds DEF pass

\* "check" proves a skew above the threshold; "ok" limits it.
THEOREM VerdictRight == Spec => []VerdictSound
BY VerdictFromInv, MeasurementInv, PTL

-----------------------------------------------------------------------------
(* main *)

\* What main knows between two pairs: the arguments were checked, and all_pass sums up
\* the verdicts, each of which is right.
MainInv ==
    /\ cores \in Seq(Int) /\ visited \in Nat
    /\ all_pass \in BOOLEAN
    /\ verdicts \in Seq(Int \X BOOLEAN)
    /\ main_pc = "parse" => verdicts = << >>
    /\ main_pc \in {"loop", "measure"} => Valid
    /\ main_pc = "measure" => core \in Int
    /\ all_pass => \A k \in DOMAIN verdicts : verdicts[k][2]
    /\ ~ all_pass => Skew > threshold_cycles \/ -Skew > threshold_cycles

\* The inductive invariant.
ToolInv == IInv /\ MainInv /\ CodeMeans

-----------------------------------------------------------------------------
\* A step of measure_pair or target_loop changes nothing that main remembers.
LEMMA MeasuringInv == ToolInv /\ main_pc = "measure" /\ Next /\ UNCHANGED mainVars => ToolInv'
<1> SUFFICES ASSUME ToolInv, main_pc = "measure", Next, UNCHANGED mainVars PROVE ToolInv'
  OBVIOUS
<1>1. IInv'
  BY NextInv DEF ToolInv
<1>2. MainInv' /\ CodeMeans'
  BY DEF ToolInv, MainInv, CodeMeans, mainVars, Valid, core
<1> QED BY <1>1, <1>2 DEF ToolInv

\* main checks the arguments.
LEMMA ParseInv == ToolInv /\ Parse => ToolInv'
<1> SUFFICES ASSUME ToolInv, Parse PROVE ToolInv'
  OBVIOUS
<1>1. IInv'
  BY NextInv DEF ToolInv, Parse
<1>2. Valid' <=> Valid
  BY DEF Parse, Valid
<1>3. MainInv'
  BY <1>2 DEF ToolInv, MainInv, Parse
<1>4. CodeMeans'
  BY <1>2 DEF ToolInv, MainInv, CodeMeans, Parse
<1> QED BY <1>1, <1>3, <1>4 DEF ToolInv

\* main goes to the next core, or a thread cannot be pinned: no verdict is touched.
LEMMA WalkInv == ToolInv /\ (SkipReference \/ StartPair \/ PinFails) => ToolInv'
<1> SUFFICES ASSUME ToolInv, SkipReference \/ StartPair \/ PinFails PROVE ToolInv'
  OBVIOUS
<1>1. IInv'
  BY NextInv DEF ToolInv, SkipReference, StartPair, PinFails
<1>2. UNCHANGED <<reference_core, cores, all_pass, exit_code, verdicts>>
  BY DEF SkipReference, StartPair, PinFails
<1>3. Valid' <=> Valid
  BY <1>2 DEF Valid
<1>4. main_pc' = "measure" => core' \in Int
  <2> SUFFICES ASSUME main_pc' = "measure" PROVE core' \in Int
    OBVIOUS
  <2>1. StartPair
    BY DEF SkipReference, PinFails
  <2>2. Valid /\ visited + 1 \in DOMAIN cores /\ UNCHANGED <<cores, visited>>
    BY <2>1 DEF ToolInv, MainInv, StartPair
  <2> QED BY <2>2 DEF Valid, core
<1>5. MainInv'
  BY <1>2, <1>3, <1>4 DEF ToolInv, MainInv, SkipReference, StartPair, PinFails
<1>6. CodeMeans'
  BY <1>2, <1>3 DEF ToolInv, CodeMeans, SkipReference, StartPair, PinFails
<1> QED BY <1>1, <1>5, <1>6 DEF ToolInv

\* A new Shared and a new thread satisfy the invariant of the measurement.
LEMMA InitPrimed == Init' => IInv'
BY InitInv, PTL

\* A pair is done: its verdict is added, and the next pair starts from nothing.
LEMMA FinishPairInv == ToolInv /\ FinishPair => ToolInv'
<1> SUFFICES ASSUME ToolInv, FinishPair PROVE ToolInv'
  OBVIOUS
<1>1. IInv'
  <2>1. Init'
    BY DEF FinishPair, Init
  <2> QED BY <2>1, InitPrimed
<1>2. /\ all_pass' = (all_pass /\ pass)
      /\ verdicts' = Append(verdicts, <<core, pass>>)
      /\ main_pc' = "loop"
      /\ visited' = visited + 1
      /\ UNCHANGED <<reference_core, cores>>
  BY DEF FinishPair, AllPass
<1>3. Valid'
  <2>1. Valid
    BY DEF ToolInv, MainInv, FinishPair
  <2> QED BY <2>1, <1>2 DEF Valid
<1>4. ~ pass => Skew > threshold_cycles \/ -Skew > threshold_cycles
  BY VerdictFromInv DEF ToolInv, VerdictSound, FinishPair
<1>5. pass \in BOOLEAN
  BY DEF pass
<1>6. core \in Int /\ verdicts \in Seq(Int \X BOOLEAN) /\ all_pass \in BOOLEAN
  BY DEF ToolInv, MainInv, FinishPair
<1>7. verdicts' \in Seq(Int \X BOOLEAN)
  <2>1. <<core, pass>> \in Int \X BOOLEAN
    BY <1>5, <1>6
  <2> QED BY <2>1, <1>2, <1>6
<1>8. all_pass' => \A k \in DOMAIN verdicts' : verdicts'[k][2]
  <2> SUFFICES ASSUME all_pass', NEW k \in DOMAIN verdicts' PROVE verdicts'[k][2]
    OBVIOUS
  <2>1. all_pass /\ pass
    BY <1>2
  <2>2. DOMAIN verdicts' = 1 .. Len(verdicts) + 1 /\ DOMAIN verdicts = 1 .. Len(verdicts)
    BY <1>2, <1>6
  <2>3. CASE k = Len(verdicts) + 1
    BY <2>1, <2>3, <1>2, <1>6
  <2>4. CASE k \in DOMAIN verdicts
    <3>1. verdicts'[k] = verdicts[k]
      BY <2>4, <2>2, <1>2, <1>6
    <3>2. verdicts[k][2]
      BY <2>1, <2>4 DEF ToolInv, MainInv
    <3> QED BY <3>1, <3>2
  <2> QED BY <2>2, <2>3, <2>4, <1>6
<1>9. ~ all_pass' => Skew > threshold_cycles \/ -Skew > threshold_cycles
  BY <1>2, <1>4 DEF ToolInv, MainInv
<1>10. all_pass' \in BOOLEAN
  BY <1>2
<1>11. cores' \in Seq(Int) /\ visited' \in Nat
  BY <1>2 DEF ToolInv, MainInv
<1>12. MainInv'
  BY <1>2, <1>3, <1>7, <1>8, <1>9, <1>10, <1>11 DEF MainInv
<1>13. CodeMeans'
  BY <1>2 DEF CodeMeans
<1> QED BY <1>1, <1>12, <1>13 DEF ToolInv

\* main returns its exit code.
LEMMA ReturnInv == ToolInv /\ Return => ToolInv'
<1> SUFFICES ASSUME ToolInv, Return PROVE ToolInv'
  OBVIOUS
<1>1. IInv'
  BY NextInv DEF ToolInv, Return
<1>2. /\ main_pc' = "exited" /\ exit_code' = IF all_pass THEN 0 ELSE 2
      /\ UNCHANGED <<reference_core, cores, visited, all_pass, verdicts>>
  BY DEF Return
<1>3. Valid'
  <2>1. Valid
    BY DEF ToolInv, MainInv, Return
  <2> QED BY <2>1, <1>2 DEF Valid
<1>4. MainInv'
  BY <1>2, <1>3 DEF ToolInv, MainInv
<1>5. CodeMeans'
  BY <1>2, <1>3 DEF ToolInv, MainInv, CodeMeans
<1> QED BY <1>1, <1>4, <1>5 DEF ToolInv

-----------------------------------------------------------------------------
\* Every state of the tool satisfies the invariant.
THEOREM ToolInvariant == CheckSpec => []ToolInv
<1>1. CheckInit => ToolInv
  <2> SUFFICES ASSUME CheckInit PROVE ToolInv
    OBVIOUS
  <2>1. IInv
    BY InitInv DEF CheckInit
  <2>2. MainInv
    BY CheckAssumption DEF CheckAssumption, CheckInit, MainInv
  <2>3. CodeMeans
    BY DEF CheckInit, CodeMeans
  <2> QED BY <2>1, <2>2, <2>3 DEF ToolInv
<1>2. ToolInv /\ [CheckNext]_checkVars => ToolInv'
  <2> SUFFICES ASSUME ToolInv, [CheckNext]_checkVars PROVE ToolInv'
    OBVIOUS
  <2>1. CASE Parse
    BY <2>1, ParseInv
  <2>2. CASE SkipReference \/ StartPair \/ PinFails
    BY <2>2, WalkInv
  <2>3. CASE FinishPair
    BY <2>3, FinishPairInv
  <2>4. CASE Return
    BY <2>4, ReturnInv
  <2>5. CASE Measuring(Tick) \/ Measuring(Target) \/ Measuring(Reference)
    BY <2>5, MeasuringInv DEF Measuring, Next
  <2>6. CASE UNCHANGED checkVars
    <3>1. IInv'
      BY <2>6, NextInv DEF ToolInv, checkVars
    <3>2. UNCHANGED mainVars
      BY <2>6 DEF checkVars
    <3>3. MainInv' /\ CodeMeans'
      BY <3>2 DEF ToolInv, MainInv, CodeMeans, mainVars, Valid, core
    <3> QED BY <3>1, <3>3 DEF ToolInv
  <2> QED BY <2>1, <2>2, <2>3, <2>4, <2>5, <2>6 DEF CheckNext, Main
<1> QED BY <1>1, <1>2, PTL DEF CheckSpec

\* In every pair that main measures, one after the other with fresh shared state, the
\* bounds contain the skew.
THEOREM ToolBoundsSound == CheckSpec => []SkewWithinBounds
<1>1. ToolInv => SkewWithinBounds
  BY DEF ToolInv, IInv
<1> QED BY <1>1, ToolInvariant, PTL

\* The verdict of every pair that main measures is right.
THEOREM ToolVerdictRight == CheckSpec => []VerdictSound
<1>1. ToolInv => VerdictSound
  BY VerdictFromInv DEF ToolInv
<1> QED BY <1>1, ToolInvariant, PTL

\* The exit code of main is right: 2 proves a skew above the threshold, 0 says that
\* every pair measured passed, 1 that nothing was measured.
THEOREM ExitCodeRight == CheckSpec => []CodeMeans
<1>1. ToolInv => CodeMeans
  BY DEF ToolInv
<1> QED BY <1>1, ToolInvariant, PTL
-----------------------------------------------------------------------------
(* The list of cores *)

\* Where main is in the list, and that it has measured what lies behind it.
ListInv ==
    /\ visited <= Len(cores)
    /\ AllMeasured
    /\ main_pc = "measure" => visited < Len(cores) /\ core # reference_core
    /\ main_pc = "exited" /\ Valid => visited = Len(cores)

\* The entries counted by Others.
Counted(list, reference, k) == {j \in 1 .. k : list[j] # reference}

\* How the count grows along the list.
LEMMA OthersGrow ==
    ASSUME NEW list, NEW reference, NEW k \in Nat
    PROVE  /\ Others(list, reference, k) \in Nat
           /\ list[k + 1] # reference => Others(list, reference, k + 1) = Others(list, reference, k) + 1
           /\ list[k + 1] = reference => Others(list, reference, k + 1) = Others(list, reference, k)
<1> DEFINE S == Counted(list, reference, k)
           T == Counted(list, reference, k + 1)
<1>1. IsFiniteSet(1 .. k) /\ S \subseteq 1 .. k
  BY FS_Interval DEF Counted
<1>2. IsFiniteSet(S)
  BY <1>1, FS_Subset
<1>3. Cardinality(S) \in Nat
  BY <1>2, FS_CardinalityType
<1>4. k + 1 \notin S
  BY DEF Counted
<1>5. list[k + 1] # reference => T = S \cup {k + 1}
  BY DEF Counted
<1>6. list[k + 1] = reference => T = S
  BY DEF Counted
<1>7. Others(list, reference, k) = Cardinality(S) /\ Others(list, reference, k + 1) = Cardinality(T)
  BY DEF Others, Counted
<1> HIDE DEF S, T
<1>8. Cardinality(S \cup {k + 1}) = Cardinality(S) + 1
  BY <1>2, <1>4, FS_AddElement
<1> QED
  BY <1>3, <1>5, <1>6, <1>7, <1>8

\* An entry other than the reference has its place among those counted further on.
LEMMA OthersPlace ==
    ASSUME NEW list, NEW reference, NEW n \in Nat, NEW k \in 1 .. n, list[k] # reference
    PROVE  Others(list, reference, k) \in 1 .. Others(list, reference, n)
<1> DEFINE S == Counted(list, reference, k)
           T == Counted(list, reference, n)
<1>1. k \in Nat /\ k <= n /\ k \in 1 .. k
  OBVIOUS
<1>2. S \subseteq T
  BY <1>1 DEF Counted
<1>3. k \in S
  BY <1>1 DEF Counted
<1>4. IsFiniteSet(T)
  <2>1. IsFiniteSet(1 .. n) /\ T \subseteq 1 .. n
    BY FS_Interval DEF Counted
  <2> QED
    BY <2>1, FS_Subset
<1>5. Others(list, reference, k) = Cardinality(S) /\ Others(list, reference, n) = Cardinality(T)
  BY DEF Others, Counted
<1> HIDE DEF S, T
<1>6. IsFiniteSet(S) /\ Cardinality(S) <= Cardinality(T)
  BY <1>2, <1>4, FS_Subset
<1>7. Cardinality(S) \in Nat /\ Cardinality(T) \in Nat
  BY <1>4, <1>6, FS_CardinalityType
<1>8. Cardinality(S) # 0
  BY <1>3, <1>6, FS_EmptySet
<1> QED
  BY <1>5, <1>6, <1>7, <1>8

\* main starts before the first entry.
LEMMA ListInit == CheckInit => ListInv
<1>1. SUFFICES ASSUME CheckInit PROVE ListInv
  OBVIOUS
<1>2. main_pc = "parse" /\ visited = 0 /\ verdicts = << >> /\ cores \in Seq(Int)
  BY <1>1, CheckAssumption DEF CheckInit, CheckAssumption
<1>3. Len(cores) \in Nat /\ Len(verdicts) = 0
  BY <1>2, LenProperties
<1>4. 1 .. 0 = {}
  OBVIOUS
<1>5. {j \in 1 .. 0 : cores[j] # reference_core} = {}
  BY <1>4
<1>6. Others(cores, reference_core, 0) = 0
  BY <1>5, FS_EmptySet DEF Others
<1>7. AllMeasured
  BY <1>2, <1>3, <1>4, <1>6 DEF AllMeasured
<1> QED
  BY <1>2, <1>3, <1>7 DEF ListInv

\* A step that leaves list, place and verdicts alone.
LEMMA ListKept ==
    ASSUME ListInv, UNCHANGED <<reference_core, cores, visited, verdicts>>,
           main_pc' = "measure" => visited < Len(cores) /\ core # reference_core,
           main_pc' = "exited" /\ Valid => visited = Len(cores)
    PROVE  ListInv'
<1>1. AllMeasured'
  BY DEF ListInv, AllMeasured
<1>2. (Valid' <=> Valid) /\ core' = core
  BY DEF Valid, core
<1> QED
  BY <1>1, <1>2 DEF ListInv

\* The reference core is passed over and counts for nothing.
LEMMA ListSkips == ASSUME ToolInv, ListInv, SkipReference PROVE ListInv'
<1>1. /\ main_pc = "loop" /\ main_pc' = main_pc /\ visited < Len(cores)
      /\ cores[visited + 1] = reference_core
      /\ visited' = visited + 1 /\ UNCHANGED <<reference_core, cores, verdicts>>
  BY DEF SkipReference, core
<1>2. visited \in Nat /\ Len(cores) \in Nat
  BY LenProperties DEF ToolInv, MainInv
<1>3. visited' <= Len(cores)
  BY <1>1, <1>2
<1>4. Others(cores, reference_core, visited') = Others(cores, reference_core, visited)
  BY <1>1, <1>2, OthersGrow
<1>5. \A k \in 1 .. visited' : cores[k] # reference_core => k \in 1 .. visited
  BY <1>1, <1>2
<1>6. AllMeasured'
  BY <1>1, <1>4, <1>5 DEF ListInv, AllMeasured
<1> QED
  BY <1>1, <1>3, <1>6 DEF ListInv

\* A pair is done: its verdict takes the place of its entry.
LEMMA ListFinishes == ASSUME ToolInv, ListInv, FinishPair PROVE ListInv'
<1> DEFINE v == <<core, pass>>
           n == Others(cores, reference_core, visited)
<1>1. /\ main_pc = "measure" /\ main_pc' = "loop" /\ visited' = visited + 1
      /\ verdicts' = Append(verdicts, v) /\ UNCHANGED <<reference_core, cores>>
  BY DEF FinishPair
<1>2. /\ visited \in Nat /\ verdicts \in Seq(Int \X BOOLEAN) /\ core \in Int
      /\ visited < Len(cores) /\ cores[visited + 1] # reference_core /\ AllMeasured
  BY <1>1 DEF ToolInv, MainInv, ListInv, core
<1>3. Len(cores) \in Nat
  BY LenProperties DEF ToolInv, MainInv
<1>4. v \in Int \X BOOLEAN /\ v[1] = cores[visited + 1]
  <2>1. pass \in BOOLEAN
    BY DEF pass
  <2> QED
    BY <2>1, <1>2 DEF core
<1> HIDE DEF v
<1>5. Len(verdicts) = n /\ n \in Nat /\ Others(cores, reference_core, visited') = n + 1
  BY <1>1, <1>2, OthersGrow DEF AllMeasured
<1>6. /\ Len(verdicts') = Len(verdicts) + 1 /\ verdicts'[Len(verdicts) + 1] = v
      /\ \A m \in 1 .. Len(verdicts) : verdicts'[m] = verdicts[m]
  BY <1>1, <1>2, <1>4, AppendProperties
<1>7. ASSUME NEW k \in 1 .. visited', cores[k] # reference_core
      PROVE  verdicts'[Others(cores, reference_core, k)][1] = cores[k]
  <2>1. CASE k = visited + 1
    <3>1. Others(cores, reference_core, k) = Len(verdicts) + 1
      BY <2>1, <1>1, <1>5
    <3>2. verdicts'[Others(cores, reference_core, k)] = v
      BY <3>1, <1>6
    <3> QED
      BY <2>1, <3>2, <1>4
  <2>2. CASE k \in 1 .. visited
    <3>1. Others(cores, reference_core, k) \in 1 .. n
      BY <2>2, <1>2, <1>7, OthersPlace
    <3>2. verdicts'[Others(cores, reference_core, k)] = verdicts[Others(cores, reference_core, k)]
      BY <3>1, <1>5, <1>6
    <3> QED
      BY <2>2, <3>2, <1>2, <1>7 DEF AllMeasured
  <2>3. k \in 1 .. visited + 1 /\ visited \in Nat
    BY <1>1, <1>2, <1>7
  <2>4. k = visited + 1 \/ k \in 1 .. visited
    BY <2>3
  <2> QED
    BY <2>1, <2>2, <2>4
<1> HIDE DEF n
<1>8. AllMeasured'
  BY <1>1, <1>5, <1>6, <1>7 DEF AllMeasured
<1>9. visited' <= Len(cores)
  BY <1>1, <1>2, <1>3
<1> QED
  BY <1>1, <1>8, <1>9 DEF ListInv

\* Every step of the tool keeps the list and the verdicts in step.
LEMMA ListNext == ToolInv /\ ListInv /\ [CheckNext]_checkVars => ListInv'
<1>1. SUFFICES ASSUME ToolInv, ListInv, [CheckNext]_checkVars PROVE ListInv'
  OBVIOUS
<1>2. CASE Parse
  BY <1>1, <1>2, ListKept DEF Parse
<1>3. CASE SkipReference
  BY <1>1, <1>3, ListSkips
<1>4. CASE StartPair
  BY <1>1, <1>4, ListKept DEF StartPair
<1>5. CASE PinFails
  BY <1>1, <1>5, ListKept DEF PinFails
<1>6. CASE FinishPair
  BY <1>1, <1>6, ListFinishes
<1>7. CASE Return
  BY <1>1, <1>7, ListKept DEF Return
<1>8. CASE Measuring(Tick) \/ Measuring(Target) \/ Measuring(Reference) \/ UNCHANGED checkVars
  <2>1. UNCHANGED mainVars
    BY <1>8 DEF Measuring, checkVars
  <2> QED
    BY <1>1, <2>1, ListKept DEF mainVars, ListInv
<1> QED
  BY <1>1, <1>2, <1>3, <1>4, <1>5, <1>6, <1>7, <1>8 DEF CheckNext, Main

\* The exit code sums up every pair, for every list of cores with duplicates or the
\* reference core in it: each verdict is right, and none is missing.
THEOREM ExitCodeComplete == CheckSpec => []ExitCodeSound
<1>1. ToolInv /\ ListInv => ExitCodeSound
  BY DEF ToolInv, ListInv, ExitCodeSound
<1>2. CheckSpec => []ListInv
  BY ListInit, ListNext, ToolInvariant, PTL DEF CheckSpec
<1> QED
  BY <1>1, <1>2, ToolInvariant, PTL

-----------------------------------------------------------------------------
(* The benchmark runner *)

Clients == <<"a", "b">>
Calls == {"poll", "signal", "grace"}
InFinally == {"unwind", "return"}

\* What the finally block terminates, in order: the clients in cp, then the exchange.
Targets(cp) == IF cp = << >> THEN 1 ELSE 3
TargetAt(cp, k) ==
    IF cp = << >> THEN "exchange" ELSE IF k = 1 THEN "a" ELSE IF k = 2 THEN "b" ELSE "exchange"

\* None of the first k of them runs, when the processes have status st.
Down(cp, st, k) == \A m \in 1 .. k : st[TargetAt(cp, m)] # "running"

RunnerTypes ==
    /\ status \in [Proc -> {"none", "running", "zombie", "reaped"}]
    /\ received \in [Proc -> SUBSET {"SIGINT", "SIGTERM", "SIGKILL"}]
    /\ client_procs \in {<< >>, Clients}
    /\ client \in 1 .. 5
    /\ proc \in Proc /\ tries \in 0 .. 3
    /\ after \in {"wait", "finally, then read"} \cup InFinally

\* What is known at each place of run_once, with the index c of its loops.
AtPlace(l, cp, c, st, a) ==
    /\ l \in {"build", "check", "start", "try", "start a", "start b", "assign"} => c = 1
    /\ l = "wait" => cp = Clients /\ c <= 3 /\ Down(cp, st, c - 1)
    /\ l = "finally, then read" => cp = Clients
    /\ l = "clean" => /\ a \in InFinally
                      /\ a = "return" => cp = Clients
                      /\ c <= Targets(cp) + 1 /\ Down(cp, st, c - 1)
    /\ l = "raised" => Down(cp, st, Targets(cp))
    /\ l \in {"read", "cleanup"} => cp = Clients /\ Down(cp, st, 3)

\* What is known inside terminate_process: whom it was called for, and by whom.
InCall(l, cp, c, st, a, p) ==
    l \in Calls =>
        /\ a \in {"wait", "finally, then read", "return"} => cp = Clients
        /\ a = "finally, then read" => p = "exchange" /\ Down(cp, st, 2)
        /\ a = "wait" => c \in 2 .. 3
        /\ a # "finally, then read" =>
                /\ c \in 2 .. Targets(cp) + 1
                /\ p = TargetAt(cp, c - 1) /\ Down(cp, st, c - 2)

\* What was sent to whom: the harder signals come after the gentler ones.
Escalates(l, st, rec, p, t) ==
    /\ \A q \in Proc : "SIGKILL" \in rec[q] => {"SIGINT", "SIGTERM"} \subseteq rec[q]
    /\ l \in {"signal", "grace"} => st[p] \in {"running", "zombie"}
    /\ l = "poll" => t = 0
    /\ l = "signal" => t < 3
    /\ l \in Calls => /\ t >= 1 => "SIGINT" \in rec[p]
                      /\ t >= 2 => "SIGTERM" \in rec[p]

RunnerInv ==
    /\ RunnerTypes
    /\ AtPlace(pc, client_procs, client, status, after)
    /\ InCall(pc, client_procs, client, status, after, proc)
    /\ Escalates(pc, status, received, proc, tries)

-----------------------------------------------------------------------------
(* Lists and processes *)

\* The list that the finally block walks through.
LEMMA ListIs ==
    ASSUME NEW cp \in {<< >>, Clients}
    PROVE  /\ Len(cp) + 1 = Targets(cp)
           /\ \A c \in 1 .. Targets(cp) : (cp \o <<"exchange">>)[c] = TargetAt(cp, c)
           /\ \A c \in 1 .. Len(cp) : cp[c] = TargetAt(cp, c)
           /\ Clients # << >> /\ Len(Clients) = 2 /\ Targets(Clients) = 3
<1> DEFINE x == <<"exchange">>
<1>1. x \in Seq(Proc) /\ Len(x) = 1 /\ x[1] = "exchange"
  BY DEF Proc
<1>2. Clients \in Seq(Proc) /\ Len(Clients) = 2 /\ Clients[1] = "a" /\ Clients[2] = "b"
  BY DEF Clients, Proc
<1>3. << >> \in Seq(Proc) /\ Len(<< >>) = 0
  BY EmptySeq
<1>4. Clients # << >>
  <2>1. Len(Clients) # Len(<< >>)
    BY <1>2, <1>3
  <2> QED
    BY <2>1, Zenon
<1> HIDE DEF x
<1>5. CASE cp = << >>
  <2>1. << >> \o x = x
    BY <1>1, ConcatEmptySeq
  <2>2. Targets(cp) = 1 /\ Len(cp) = 0 /\ \A c \in 1 .. 1 : TargetAt(cp, c) = "exchange"
    BY <1>3, <1>5 DEF Targets, TargetAt
  <2>3. \A c \in 1 .. 1 : (cp \o x)[c] = "exchange"
    BY <1>1, <1>5, <2>1
  <2> QED
    BY <1>2, <1>4, <2>2, <2>3 DEF Targets, x
<1>6. CASE cp = Clients
  <2>1. /\ Len(Clients \o x) = 3
        /\ \A m \in 1 .. 3 : (Clients \o x)[m] = IF m <= 2 THEN Clients[m] ELSE x[m - 2]
    <3>1. /\ Len(Clients \o x) = Len(Clients) + Len(x)
          /\ \A m \in 1 .. Len(Clients) + Len(x) :
                (Clients \o x)[m] = IF m <= Len(Clients) THEN Clients[m] ELSE x[m - Len(Clients)]
      BY <1>1, <1>2, ConcatProperties, Zenon
    <3>2. Len(Clients) = 2 /\ Len(Clients) + Len(x) = 3
      BY <1>1, <1>2
    <3> QED
      BY <3>1, <3>2, Zenon
  <2>2. TargetAt(cp, 1) = "a" /\ TargetAt(cp, 2) = "b" /\ TargetAt(cp, 3) = "exchange" /\ Targets(cp) = 3
    BY <1>4, <1>6 DEF TargetAt, Targets
  <2>3. (cp \o x)[1] = "a" /\ (cp \o x)[2] = "b" /\ (cp \o x)[3] = "exchange"
    BY <1>1, <1>2, <1>6, <2>1
  <2>4. \A c \in 1 .. 3 : (cp \o x)[c] = TargetAt(cp, c)
    <3>1. \A c \in 1 .. 3 : c = 1 \/ c = 2 \/ c = 3
      OBVIOUS
    <3> QED
      BY <2>2, <2>3, <3>1, Zenon
  <2>5. \A c \in 1 .. 2 : cp[c] = TargetAt(cp, c)
    <3>1. \A c \in 1 .. 2 : c = 1 \/ c = 2
      OBVIOUS
    <3>2. cp[1] = "a" /\ cp[2] = "b"
      BY <1>2, <1>6
    <3> QED
      BY <2>2, <3>1, <3>2, Zenon
  <2>6. Len(cp) = 2 /\ Len(cp) + 1 = 3 /\ Targets(Clients) = 3
    <3>1. Len(cp) = 2 /\ Targets(Clients) = 3
      BY <1>2, <1>6, <2>2, Zenon
    <3>2. Len(cp) + 1 = 3
      <4> DEFINE n == Len(cp)
      <4>1. n = 2
        BY <3>1
      <4> HIDE DEF n
      <4>2. n + 1 = 3
        BY <4>1
      <4> QED
        BY <4>2 DEF n
    <3> QED
      BY <3>1, <3>2
  <2>7. \A c \in 1 .. Targets(cp) : (cp \o <<"exchange">>)[c] = TargetAt(cp, c)
    BY <2>2, <2>4, Zenon DEF x
  <2>8. \A c \in 1 .. Len(cp) : cp[c] = TargetAt(cp, c)
    BY <2>5, <2>6, Zenon
  <2>9. Len(cp) + 1 = Targets(cp)
    BY <2>2, <2>6, Zenon
  <2> QED
    BY <1>2, <1>4, <2>6, <2>7, <2>8, <2>9, Zenon
<1> QED
  BY <1>5, <1>6

\* What the finally block terminates are processes of the runner.
LEMMA TargetIs ==
    ASSUME NEW cp, NEW k
    PROVE  /\ TargetAt(cp, k) \in Proc
           /\ cp # << >> => TargetAt(cp, 1) = "a" /\ TargetAt(cp, 2) = "b" /\ TargetAt(cp, 3) = "exchange"
           /\ cp = << >> => TargetAt(cp, k) = "exchange"
BY DEF TargetAt, Proc

\* No process starts again.
LEMMA DownKept ==
    ASSUME NEW cp, NEW st, NEW st2, NEW k, Down(cp, st, k),
           \A p \in Proc : st2[p] = "running" => st[p] = "running"
    PROVE  Down(cp, st2, k)
BY TargetIs DEF Down

\* One more process is down.
LEMMA DownNext ==
    ASSUME NEW cp, NEW st, NEW k \in Nat, Down(cp, st, k), st[TargetAt(cp, k + 1)] # "running"
    PROVE  Down(cp, st, k + 1)
<1>1. \A m \in 1 .. k + 1 : m \in 1 .. k \/ m = k + 1
  OBVIOUS
<1> QED
  BY <1>1 DEF Down

\* Of none, nothing is claimed.
LEMMA DownNone ==
    ASSUME NEW cp, NEW st
    PROVE  Down(cp, st, 0)
<1>1. 1 .. 0 = {}
  OBVIOUS
<1> QED
  BY <1>1 DEF Down

\* The places of run_once at which nothing is claimed, and those before the first wait.
Early == {"build", "check", "start", "try", "start a", "start b", "assign"}
Quiet == {"finally", "broken", "exit", "exit with error"}

\* A step to one of these places.
LEMMA QuietStep ==
    ASSUME RunnerInv, pc' \in Early \cup Quiet, pc' \in Early => client = 1,
           status' \in [Proc -> {"none", "running", "zombie", "reaped"}],
           UNCHANGED <<received, client_procs, client, proc, tries, after>>
    PROVE  RunnerInv'
<1>1. RunnerTypes /\ Escalates(pc, status, received, proc, tries)
  BY DEF RunnerInv
<1>2. RunnerTypes'
  BY <1>1 DEF RunnerTypes
<1>3. /\ pc' \notin Calls
      /\ pc' \notin {"wait", "finally, then read", "clean", "raised", "read", "cleanup"}
  BY DEF Early, Quiet, Calls
<1>4. AtPlace(pc', client_procs', client', status', after')
  BY <1>3 DEF AtPlace, Early
<1>5. InCall(pc', client_procs', client', status', after', proc')
  BY <1>3 DEF InCall
<1>6. Escalates(pc', status', received', proc', tries')
  BY <1>1, <1>3 DEF Escalates, Calls
<1> QED
  BY <1>2, <1>4, <1>5, <1>6 DEF RunnerInv

\* A process that is started is one of the runner's.
LEMMA StartedTypes ==
    ASSUME RunnerTypes, NEW p \in Proc, Started(p)
    PROVE  status' \in [Proc -> {"none", "running", "zombie", "reaped"}]
BY DEF RunnerTypes, Started

\* The runner starts with no child.
LEMMA RunnerInvInit == RunnerInit => RunnerInv
<1>1. SUFFICES ASSUME RunnerInit PROVE RunnerInv
  OBVIOUS
<1>2. RunnerTypes
  BY <1>1 DEF RunnerInit, RunnerTypes, Proc
<1>3. pc = "build" /\ client = 1 /\ \A q \in Proc : received[q] = {}
  BY <1>1 DEF RunnerInit
<1>4. AtPlace(pc, client_procs, client, status, after)
  BY <1>3 DEF AtPlace
<1>5. InCall(pc, client_procs, client, status, after, proc)
  BY <1>3 DEF InCall, Calls
<1>6. Escalates(pc, status, received, proc, tries)
  BY <1>3 DEF Escalates, Calls
<1> QED
  BY <1>2, <1>4, <1>5, <1>6 DEF RunnerInv

\* main up to run_once and after it, and the starts of the children.
LEMMA RunnerStarts ==
    ASSUME RunnerInv,
           Build \/ CheckBinaries \/ Cleanup \/ StartExchange \/ EnterTry \/ StartA \/ StartB
    PROVE  RunnerInv'
<1>1. RunnerTypes /\ AtPlace(pc, client_procs, client, status, after)
  BY DEF RunnerInv
<1>2. UNCHANGED <<received, client_procs, client, proc, tries, after>>
  BY DEF Build, CheckBinaries, Cleanup, StartExchange, EnterTry, StartA, StartB, procs, call
<1>3. pc' \in Early \cup Quiet /\ (pc' \in Early => pc \in Early)
  BY DEF Build, CheckBinaries, Cleanup, StartExchange, EnterTry, StartA, StartB, Goto, Early, Quiet
<1>4. status' \in [Proc -> {"none", "running", "zombie", "reaped"}]
  <2>1. {"exchange", "a", "b"} = Proc
    BY DEF Proc
  <2>2. status' = status \/ Started("exchange") \/ Started("a") \/ Started("b")
    BY DEF Build, CheckBinaries, Cleanup, StartExchange, EnterTry, StartA, StartB, procs
  <2> QED
    BY <1>1, <2>1, <2>2, StartedTypes DEF RunnerTypes
<1>5. pc \in Early => client = 1
  BY <1>1 DEF AtPlace, Early
<1> QED
  BY <1>2, <1>3, <1>4, <1>5, QuietStep

\* An interruption leads to the finally block, out of run_once or out of the program.
LEMMA RunnerInterrupted == ASSUME RunnerInv, Interrupt PROVE RunnerInv'
<1>1. pc' \in Quiet /\ UNCHANGED <<status, received, client_procs, client, proc, tries, after>>
  BY DEF Interrupt, Goto, Quiet, procs, call
<1>2. pc' \notin Early
  BY <1>1 DEF Quiet, Early
<1>3. status' \in [Proc -> {"none", "running", "zombie", "reaped"}]
  BY <1>1 DEF RunnerInv, RunnerTypes
<1> QED
  BY <1>1, <1>2, <1>3, QuietStep

\* A child ends.
LEMMA RunnerExit == ASSUME RunnerInv, NEW p \in Proc, Exit(p) PROVE RunnerInv'
<1>1. /\ RunnerTypes
      /\ AtPlace(pc, client_procs, client, status, after)
      /\ InCall(pc, client_procs, client, status, after, proc)
      /\ Escalates(pc, status, received, proc, tries)
  BY DEF RunnerInv
<1>2. /\ status[p] = "running" /\ status' = [status EXCEPT ![p] = "zombie"]
      /\ UNCHANGED <<received, pc, client_procs, client, proc, tries, after>>
  BY DEF Exit, call
<1>3. /\ \A q \in Proc : status'[q] = "running" => status[q] = "running"
      /\ \A q \in Proc : status[q] \in {"running", "zombie"} => status'[q] \in {"running", "zombie"}
      /\ status' \in [Proc -> {"none", "running", "zombie", "reaped"}]
  BY <1>1, <1>2 DEF RunnerTypes
<1>4. \A k : Down(client_procs, status, k) => Down(client_procs, status', k)
  BY <1>3, DownKept
<1>5. RunnerTypes'
  BY <1>1, <1>2, <1>3 DEF RunnerTypes
<1>6. AtPlace(pc, client_procs, client, status', after)
  BY <1>1, <1>4 DEF AtPlace
<1>7. InCall(pc, client_procs, client, status', after, proc)
  BY <1>1, <1>4 DEF InCall
<1>8. Escalates(pc, status', received, proc, tries)
  BY <1>1, <1>3 DEF Escalates, RunnerTypes
<1> QED
  BY <1>2, <1>5, <1>6, <1>7, <1>8 DEF RunnerInv

-----------------------------------------------------------------------------
(* run_once *)

\* The parts of the invariant.
LEMMA Parts ==
    ASSUME RunnerInv
    PROVE  /\ RunnerTypes
           /\ AtPlace(pc, client_procs, client, status, after)
           /\ InCall(pc, client_procs, client, status, after, proc)
           /\ Escalates(pc, status, received, proc, tries)
BY DEF RunnerInv

\* The index and the lists are in range.
LEMMA IndexTypes ==
    ASSUME RunnerInv
    PROVE  /\ client \in 1 .. 5 /\ client \in Int
           /\ client_procs \in {<< >>, Clients}
           /\ status \in [Proc -> {"none", "running", "zombie", "reaped"}]
<1>1. client \in 1 .. 5
  BY DEF RunnerInv, RunnerTypes
<1>2. client \in Int
  BY <1>1
<1> QED
  BY <1>1, <1>2, Zenon DEF RunnerInv, RunnerTypes

Returns == {"wait", "finally, then read"} \cup InFinally

\* A step that leaves the signals and the list alone keeps the types.
LEMMA TypesKept ==
    ASSUME RunnerInv, UNCHANGED <<received, client_procs>>,
           status' \in [Proc -> {"none", "running", "zombie", "reaped"}],
           client' \in 1 .. 5, proc' = proc \/ proc' \in Proc,
           tries' = tries \/ tries' = 0, after' = after \/ after' \in Returns
    PROVE  RunnerTypes'
<1>1. tries' \in 0 .. 3
  <2>1. tries \in 0 .. 3
    BY DEF RunnerInv, RunnerTypes
  <2>2. 0 \in 0 .. 3
    OBVIOUS
  <2> QED
    BY <2>1, <2>2, Zenon
<1>2. /\ proc' \in Proc /\ after' \in {"wait", "finally, then read"} \cup InFinally
  BY DEF RunnerInv, RunnerTypes, Returns
<1>3. client_procs' \in {<< >>, Clients}
  BY DEF RunnerInv, RunnerTypes
<1>4. received' \in [Proc -> SUBSET {"SIGINT", "SIGTERM", "SIGKILL"}]
  BY DEF RunnerInv, RunnerTypes
<1> QED
  BY <1>1, <1>2, <1>3, <1>4 DEF RunnerTypes

\* Outside terminate_process nothing is claimed of the signals to come.
LEMMA EscalatesOutside ==
    ASSUME NEW l, NEW st, NEW rec, NEW p, NEW t, Escalates(l, st, rec, p, t),
           NEW l2, NEW st2, NEW p2, NEW t2, l2 \notin Calls
    PROVE  Escalates(l2, st2, rec, p2, t2)
BY DEF Escalates, Calls

\* A call of terminate_process begins with no signal sent.
LEMMA EscalatesCall ==
    ASSUME NEW l, NEW st, NEW rec, NEW p, NEW t, Escalates(l, st, rec, p, t),
           NEW st2, NEW p2
    PROVE  Escalates("poll", st2, rec, p2, 0)
BY DEF Escalates, Calls

\* Both clients run and the finally block knows them.
LEMMA RunnerAssigns == ASSUME RunnerInv, AssignClients PROVE RunnerInv'
<1>1. /\ pc = "assign" /\ pc' = "wait" /\ client_procs' = Clients
      /\ UNCHANGED <<status, received, client, proc, tries, after>>
  BY DEF AssignClients, Goto, procs, call, Clients
<1>2. client = 1
  BY <1>1, Parts DEF AtPlace
<1>3. RunnerTypes'
  BY <1>1, Parts DEF RunnerTypes
<1>4. AtPlace(pc', client_procs', client', status', after')
  <2>1. Down(client_procs', status', client' - 1)
    BY <1>1, <1>2, DownNone
  <2> QED
    BY <2>1, <1>1, <1>2 DEF AtPlace
<1>5. pc' \notin Calls
  BY <1>1 DEF Calls
<1>6. InCall(pc', client_procs', client', status', after', proc')
  BY <1>5 DEF InCall
<1>7. Escalates(pc', status', received', proc', tries')
  BY <1>1, <1>5, Parts, EscalatesOutside
<1> QED
  BY <1>3, <1>4, <1>6, <1>7 DEF RunnerInv

\* The wait for a client ends, or its time is up and it is terminated.
LEMMA RunnerWaits == ASSUME RunnerInv, WaitClient PROVE RunnerInv'
<1> DEFINE p == client_procs[client]
<1>1. /\ pc = "wait" /\ client <= Len(client_procs) /\ client' = client + 1
      /\ UNCHANGED <<received, client_procs>>
  BY DEF WaitClient
<1>2. client_procs = Clients /\ client \in 1 .. 2 /\ Down(client_procs, status, client - 1)
  <2>1. client_procs = Clients /\ Down(client_procs, status, client - 1)
    BY <1>1, Parts DEF AtPlace
  <2>2. Len(Clients) = 2
    BY ListIs
  <2>3. client \in 1 .. 5 /\ client <= 2
    BY <2>1, <2>2, <1>1, IndexTypes
  <2>4. client \in 1 .. 2
    BY <2>3
  <2> QED
    BY <2>1, <2>4
<1>3. Targets(client_procs) = 3 /\ p = TargetAt(client_procs, client) /\ p \in Proc
  BY <1>2, ListIs, TargetIs
<1>4. client' \in 2 .. 3 /\ client' - 1 = client /\ client' - 2 = client - 1 /\ client - 1 \in Nat
      /\ (client - 1) + 1 = client
  BY <1>1, <1>2
<1> HIDE DEF p
<1>5. CASE status[p] \in {"zombie", "reaped"} /\ status' = [status EXCEPT ![p] = "reaped"]
           /\ UNCHANGED <<pc, proc, tries, after>>
  <2>1. /\ \A q \in Proc : status'[q] = "running" => status[q] = "running"
        /\ status'[p] # "running"
        /\ status' \in [Proc -> {"none", "running", "zombie", "reaped"}]
    BY <1>3, <1>5, Parts DEF RunnerTypes
  <2>2. Down(client_procs, status', client - 1)
    BY <2>1, <1>2, DownKept
  <2>3. Down(client_procs, status', (client - 1) + 1)
    BY <2>1, <2>2, <1>3, <1>4, DownNext
  <2>4. Down(client_procs', status', client' - 1)
    BY <2>3, <1>1, <1>4
  <2>5. RunnerTypes'
    <3>1. client' \in 1 .. 5
      BY <1>4
    <3> QED
      BY <3>1, <2>1, <1>1, <1>5, TypesKept
  <2>6. AtPlace(pc', client_procs', client', status', after')
    BY <2>4, <1>1, <1>2, <1>4, <1>5 DEF AtPlace
  <2>7. pc' \notin Calls
    BY <1>1, <1>5 DEF Calls
  <2>8. InCall(pc', client_procs', client', status', after', proc')
    BY <2>7 DEF InCall
  <2>9. Escalates(pc', status', received', proc', tries')
    BY <2>7, <1>1, Parts, EscalatesOutside
  <2> QED
    BY <2>5, <2>6, <2>8, <2>9 DEF RunnerInv
<1>6. CASE Call(p, "wait") /\ UNCHANGED status
  <2>1. pc' = "poll" /\ proc' = p /\ tries' = 0 /\ after' = "wait" /\ status' = status
    BY <1>6 DEF Call, Goto
  <2>2. RunnerTypes'
    <3>1. client' \in 1 .. 5 /\ "wait" \in Returns
      BY <1>4 DEF Returns
    <3> QED
      BY <3>1, <2>1, <1>1, <1>3, IndexTypes, TypesKept
  <2>3. AtPlace(pc', client_procs', client', status', after')
    BY <2>1 DEF AtPlace
  <2>4. InCall(pc', client_procs', client', status', after', proc')
    BY <2>1, <1>1, <1>2, <1>3, <1>4 DEF InCall
  <2>5. Escalates(pc', status', received', proc', tries')
    BY <2>1, <1>1, Parts, EscalatesCall
  <2> QED
    BY <2>2, <2>3, <2>4, <2>5 DEF RunnerInv
<1> QED
  BY <1>5, <1>6 DEF WaitClient, p, call

\* Both clients are done; the exchange is terminated.
LEMMA RunnerStops == ASSUME RunnerInv, StopExchange PROVE RunnerInv'
<1>1. /\ pc = "wait" /\ client > Len(client_procs) /\ client' = 1
      /\ pc' = "poll" /\ proc' = "exchange" /\ tries' = 0 /\ after' = "finally, then read"
      /\ UNCHANGED <<status, received, client_procs>>
  BY DEF StopExchange, Call, Goto, procs
<1>2. client_procs = Clients /\ client = 3 /\ Down(client_procs, status, 2)
  <2>1. client_procs = Clients /\ client <= 3 /\ Down(client_procs, status, client - 1)
    BY <1>1, Parts DEF AtPlace
  <2>2. Len(Clients) = 2
    BY ListIs
  <2>3. client = 3
    <3>1. client \in Int /\ client > 2 /\ client <= 3
      BY <2>1, <2>2, <1>1, IndexTypes
    <3> QED
      BY <3>1
  <2>4. client - 1 = 2
    BY <2>3
  <2> QED
    BY <2>1, <2>3, <2>4
<1>3. RunnerTypes'
  <2>1. proc' \in Proc /\ after' \in Returns
    BY <1>1 DEF Returns, Proc
  <2>2. 1 \in 1 .. 5
    OBVIOUS
  <2>3. client' \in 1 .. 5
    BY <2>2, <1>1, Zenon
  <2> QED
    BY <2>1, <2>3, <1>1, IndexTypes, TypesKept
<1>4. AtPlace(pc', client_procs', client', status', after')
  BY <1>1 DEF AtPlace
<1>5. InCall(pc', client_procs', client', status', after', proc')
  BY <1>1, <1>2 DEF InCall
<1>6. Escalates(pc', status', received', proc', tries')
  BY <1>1, Parts, EscalatesCall
<1> QED
  BY <1>3, <1>4, <1>5, <1>6 DEF RunnerInv

\* The finally block begins; a normal end is one that comes from the last call.
LEMMA RunnerEntersFinally == ASSUME RunnerInv, EnterFinally PROVE RunnerInv'
<1>1. /\ pc \in {"finally", "finally, then read"}
      /\ after' = IF pc = "finally" THEN "unwind" ELSE "return"
      /\ client' = 1 /\ pc' = "clean"
      /\ UNCHANGED <<status, received, client_procs, proc, tries>>
  BY DEF EnterFinally, Goto, procs
<1>2. after' \in InFinally /\ (after' = "return" => client_procs = Clients)
  BY <1>1, Parts DEF AtPlace, InFinally
<1>3. RunnerTypes'
  <2>1. after' \in Returns
    BY <1>2 DEF Returns
  <2>2. 1 \in 1 .. 5
    OBVIOUS
  <2>3. client' \in 1 .. 5
    BY <2>2, <1>1, Zenon
  <2> QED
    BY <2>1, <2>3, <1>1, IndexTypes, TypesKept
<1>4. Down(client_procs', status', client' - 1)
  <2>a. 1 - 1 = 0
    OBVIOUS
  <2>1. client' - 1 = 0
    BY <2>a, <1>1, Zenon
  <2> QED
    BY <2>1, DownNone
<1>5. client' <= Targets(client_procs') + 1
  <2>1. \A n \in {1, 3} : 1 <= n + 1
    OBVIOUS
  <2>2. Targets(client_procs') \in {1, 3}
    BY DEF Targets
  <2> QED
    BY <2>1, <2>2, <1>1
<1>6. AtPlace(pc', client_procs', client', status', after')
  BY <1>1, <1>2, <1>4, <1>5 DEF AtPlace
<1>7. pc' \notin Calls
  BY <1>1 DEF Calls
<1>8. InCall(pc', client_procs', client', status', after', proc')
  BY <1>7 DEF InCall
<1>9. Escalates(pc', status', received', proc', tries')
  BY <1>1, <1>7, Parts, EscalatesOutside
<1> QED
  BY <1>3, <1>6, <1>8, <1>9 DEF RunnerInv

\* The finally block terminates the next process, or is complete.
LEMMA RunnerCleans == ASSUME RunnerInv, Finally PROVE RunnerInv'
<1> DEFINE n == Targets(client_procs)
           p == (client_procs \o <<"exchange">>)[client]
<1>1. pc = "clean" /\ client' = client + 1 /\ UNCHANGED <<status, received, client_procs>>
  BY DEF Finally, procs
<1>2. /\ after \in InFinally /\ (after = "return" => client_procs = Clients)
      /\ client <= n + 1 /\ Down(client_procs, status, client - 1)
  BY <1>1, Parts DEF AtPlace
<1>3. client_procs \in {<< >>, Clients} /\ client \in 1 .. 5 /\ n \in {1, 3}
  BY Parts DEF RunnerTypes, Targets
<1>4. Len(client_procs) + 1 = n
  BY <1>3, ListIs
<1>5. Clients # << >> /\ Targets(Clients) = 3
  BY ListIs
<1> HIDE DEF n
<1>6. CASE client <= Len(client_procs) + 1
  <2>1. client \in 1 .. n
    BY <1>3, <1>4, <1>6
  <2>2. p = TargetAt(client_procs, client) /\ p \in Proc
    BY <2>1, <1>3, ListIs, TargetIs DEF n
  <2>3. pc' = "poll" /\ proc' = p /\ tries' = 0 /\ after' = after
    BY <1>6 DEF Finally, Call, Goto
  <2>4. client' \in 2 .. n + 1 /\ client' - 1 = client /\ client' - 2 = client - 1
        /\ client' \in 1 .. 5
    BY <2>1, <1>1, <1>3
  <2> HIDE DEF p
  <2>5. RunnerTypes'
    BY <2>2, <2>3, <2>4, <1>1, IndexTypes, TypesKept
  <2>6. AtPlace(pc', client_procs', client', status', after')
    BY <2>3 DEF AtPlace
  <2>7. InCall(pc', client_procs', client', status', after', proc')
    BY <2>2, <2>3, <2>4, <1>1, <1>2 DEF InCall, InFinally, n
  <2>8. Escalates(pc', status', received', proc', tries')
    BY <2>3, <1>1, Parts, EscalatesCall
  <2> QED
    BY <2>5, <2>6, <2>7, <2>8 DEF RunnerInv
<1>7. CASE ~ (client <= Len(client_procs) + 1)
  <2>1. client = n + 1 /\ client - 1 = n
    BY <1>2, <1>3, <1>4, <1>7
  <2>2. Down(client_procs, status, n)
    BY <2>1, <1>2
  <2>3. /\ pc' = IF after = "return" THEN "read" ELSE "raised"
        /\ UNCHANGED <<proc, tries, after>>
    BY <1>7 DEF Finally, Goto, call
  <2>4. RunnerTypes'
    <3>1. client' \in 1 .. 5
      BY <2>1, <1>1, <1>3
    <3> QED
      BY <3>1, <2>3, <1>1, IndexTypes, TypesKept
  <2>5. AtPlace(pc', client_procs', client', status', after')
    BY <2>2, <2>3, <1>1, <1>2, <1>5 DEF AtPlace, n
  <2>6. pc' \notin Calls
    BY <2>3 DEF Calls
  <2>7. InCall(pc', client_procs', client', status', after', proc')
    BY <2>6 DEF InCall
  <2>8. Escalates(pc', status', received', proc', tries')
    BY <2>6, <1>1, Parts, EscalatesOutside
  <2> QED
    BY <2>4, <2>5, <2>7, <2>8 DEF RunnerInv
<1> QED
  BY <1>6, <1>7

\* The reports are read, or reading them raises.
LEMMA RunnerReads == ASSUME RunnerInv, ReadReports PROVE RunnerInv'
<1>1. /\ pc = "read" /\ pc' \in {"cleanup", "broken"}
      /\ UNCHANGED <<status, received, client_procs, client, proc, tries, after>>
  BY DEF ReadReports, Goto, procs, call
<1>2. RunnerTypes'
  BY <1>1, Parts DEF RunnerTypes
<1>3. AtPlace(pc', client_procs', client', status', after')
  BY <1>1, Parts DEF AtPlace
<1>4. pc' \notin Calls
  BY <1>1 DEF Calls
<1>5. InCall(pc', client_procs', client', status', after', proc')
  BY <1>4 DEF InCall
<1>6. Escalates(pc', status', received', proc', tries')
  BY <1>1, <1>4, Parts, EscalatesOutside
<1> QED
  BY <1>2, <1>3, <1>5, <1>6 DEF RunnerInv

-----------------------------------------------------------------------------
(* terminate_process *)

\* terminate_process returns when its process is down: whoever called it goes on with
\* one more of his list down.
LEMMA RunnerReturns ==
    ASSUME RunnerInv, pc \in Calls, pc' = ReturnTo,
           status' \in [Proc -> {"none", "running", "zombie", "reaped"}],
           \A q \in Proc : status'[q] = "running" => status[q] = "running",
           status'[proc] # "running",
           UNCHANGED <<received, client_procs, client, proc, tries, after>>
    PROVE  RunnerInv'
<1>1. InCall(pc, client_procs, client, status, after, proc)
  BY Parts
<1>2. client \in Int /\ client \in 1 .. 5 /\ client_procs \in {<< >>, Clients}
  BY IndexTypes
<1>3. after \in {"wait", "finally, then read", "unwind", "return"}
  BY DEF RunnerInv, RunnerTypes, InFinally
<1>4. /\ after \in InFinally => pc' = "clean"
      /\ after \notin InFinally => pc' = after
  BY DEF ReturnTo, InFinally
<1>5. RunnerTypes'
  BY <1>2, TypesKept
<1>6. ASSUME after # "finally, then read"
      PROVE  client \in 2 .. Targets(client_procs) + 1 /\ Down(client_procs, status', client - 1)
  <2>1. /\ client \in 2 .. Targets(client_procs) + 1
        /\ proc = TargetAt(client_procs, client - 1) /\ Down(client_procs, status, client - 2)
    BY <1>1, <1>6 DEF InCall
  <2>2. Targets(client_procs) \in Int
    BY DEF Targets
  <2>3. client - 2 \in Nat /\ (client - 2) + 1 = client - 1
    BY <2>1, <2>2, <1>2
  <2>4. Down(client_procs, status', client - 2)
    BY <2>1, DownKept
  <2>5. Down(client_procs, status', (client - 2) + 1)
    BY <2>1, <2>3, <2>4, DownNext
  <2> QED
    BY <2>1, <2>3, <2>5
<1>7. AtPlace(pc', client_procs', client', status', after')
  <2>1. CASE after \in InFinally
    <3>1. after = "return" => client_procs = Clients
      BY <1>1 DEF InCall
    <3>2. client \in 2 .. Targets(client_procs) + 1 /\ Down(client_procs, status', client - 1)
      BY <1>6, <2>1 DEF InFinally
    <3>3. client <= Targets(client_procs) + 1
      <4>1. Targets(client_procs) \in Int
        BY DEF Targets
      <4> QED
        BY <4>1, <3>2, <1>2
    <3> QED
      BY <2>1, <3>1, <3>2, <3>3, <1>4 DEF AtPlace
  <2>2. CASE after = "wait"
    <3>1. client_procs = Clients /\ client \in 2 .. 3 /\ Down(client_procs, status', client - 1)
      BY <1>1, <1>6, <2>2 DEF InCall
    <3>2. client <= 3
      BY <3>1
    <3> QED
      BY <2>2, <3>1, <3>2, <1>4 DEF AtPlace, InFinally
  <2>3. CASE after = "finally, then read"
    <3>1. client_procs = Clients
      BY <1>1, <2>3 DEF InCall
    <3> QED
      BY <2>3, <3>1, <1>4 DEF AtPlace, InFinally
  <2> QED
    BY <1>3, <2>1, <2>2, <2>3 DEF InFinally
<1>8. pc' \notin Calls
  BY <1>3, <1>4 DEF Calls, InFinally
<1>9. InCall(pc', client_procs', client', status', after', proc')
  BY <1>8 DEF InCall
<1>10. Escalates(pc', status', received', proc', tries')
  BY <1>8, Parts, EscalatesOutside
<1> QED
  BY <1>5, <1>7, <1>9, <1>10 DEF RunnerInv

\* A step from one place of terminate_process to the next.
LEMMA InCallKept ==
    ASSUME RunnerInv, pc \in Calls, pc' \in Calls,
           UNCHANGED <<status, client_procs, client, proc, after>>
    PROVE  /\ AtPlace(pc', client_procs', client', status', after')
           /\ InCall(pc', client_procs', client', status', after', proc')
<1>1. InCall(pc, client_procs, client, status, after, proc)
  BY Parts
<1>2. InCall(pc', client_procs', client', status', after', proc')
  BY <1>1 DEF InCall
<1>3. AtPlace(pc', client_procs', client', status', after')
  BY DEF AtPlace, Calls
<1> QED
  BY <1>2, <1>3

\* The first test: a process that has ended is reaped and gets no signal.
LEMMA RunnerPolls == ASSUME RunnerInv, Poll PROVE RunnerInv'
<1>1. pc = "poll" /\ pc \in Calls /\ UNCHANGED <<received, client_procs, client, proc, tries, after>>
  BY DEF Poll, call, Calls
<1>2. proc \in Proc
  BY DEF RunnerInv, RunnerTypes
<1>3. CASE status[proc] = "running" /\ pc' = "signal" /\ status' = status
  <2>1. pc' \in Calls
    BY <1>3 DEF Calls
  <2>2. /\ AtPlace(pc', client_procs', client', status', after')
        /\ InCall(pc', client_procs', client', status', after', proc')
    BY <2>1, <1>1, <1>3, InCallKept
  <2>3. RunnerTypes'
    BY <1>1, <1>3, IndexTypes, TypesKept
  <2>4. tries = 0
    BY <1>1, Parts DEF Escalates
  <2>5. ~ (0 >= 1) /\ ~ (0 >= 2) /\ 0 < 3
    OBVIOUS
  <2>6. Escalates(pc, status, received, proc, tries)
    BY Parts
  <2>7. Escalates("signal", status, received, proc, 0)
    BY <2>5, <2>6, <1>3 DEF Escalates
  <2>8. Escalates(pc', status', received', proc', tries')
    BY <2>4, <2>7, <1>1, <1>3
  <2> QED
    BY <2>2, <2>3, <2>8 DEF RunnerInv
<1>4. CASE status[proc] # "running" /\ pc' = ReturnTo
           /\ status' = [status EXCEPT ![proc] = "reaped"]
  <2>1. /\ status' \in [Proc -> {"none", "running", "zombie", "reaped"}]
        /\ \A q \in Proc : status'[q] = "running" => status[q] = "running"
        /\ status'[proc] # "running"
    BY <1>2, <1>4, IndexTypes
  <2> QED
    BY <2>1, <1>1, <1>4, RunnerReturns
<1> QED
  BY <1>3, <1>4 DEF Poll, Goto

\* The signal that the n-th pass sends.
LEMMA SignalIs == Signal[1] = "SIGINT" /\ Signal[2] = "SIGTERM" /\ Signal[3] = "SIGKILL"
BY DEF Signal

\* What the passes before this one have sent.
LEMMA SignalsSent ==
    ASSUME RunnerInv, pc = "signal"
    PROVE  \/ tries = 0
           \/ tries = 1 /\ "SIGINT" \in received[proc]
           \/ tries = 2 /\ {"SIGINT", "SIGTERM"} \subseteq received[proc]
<1>1. /\ tries < 3
      /\ tries >= 1 => "SIGINT" \in received[proc]
      /\ tries >= 2 => "SIGTERM" \in received[proc]
  BY Parts DEF Escalates, Calls
<1>2. tries \in 0 .. 3
  BY DEF RunnerInv, RunnerTypes
<1>3. tries = 0 \/ tries = 1 \/ tries = 2
  BY <1>1, <1>2
<1>4. 1 >= 1 /\ 2 >= 1 /\ 2 >= 2
  OBVIOUS
<1> QED
  BY <1>1, <1>3, <1>4

\* The next signal is sent, or the process has just gone.
LEMMA RunnerSignals == ASSUME RunnerInv, SendSignal PROVE RunnerInv'
<1>1. pc = "signal" /\ pc \in Calls /\ UNCHANGED <<status, client_procs, client, proc, after>>
  BY DEF SendSignal, Calls
<1>2. /\ proc \in Proc /\ received \in [Proc -> SUBSET {"SIGINT", "SIGTERM", "SIGKILL"}]
      /\ status \in [Proc -> {"none", "running", "zombie", "reaped"}]
  BY DEF RunnerInv, RunnerTypes
<1>3. CASE /\ received' = [received EXCEPT ![proc] = @ \cup {Signal[tries + 1]}]
           /\ tries' = tries + 1 /\ pc' = "grace"
  <2> DEFINE sig == Signal[tries + 1]
  <2>1. /\ tries \in 0 .. 2 /\ tries' \in 0 .. 3
        /\ sig \in {"SIGINT", "SIGTERM", "SIGKILL"}
        /\ tries' >= 1 => "SIGINT" \in received[proc] \cup {sig}
        /\ tries' >= 2 => "SIGTERM" \in received[proc] \cup {sig}
        /\ sig = "SIGKILL" => {"SIGINT", "SIGTERM"} \subseteq received[proc]
    <3>1. CASE tries = 0
      <4>1. tries' = 1 /\ tries + 1 = 1 /\ tries \in 0 .. 2 /\ tries' \in 0 .. 3 /\ ~ (1 >= 2)
        BY <3>1, <1>3
      <4>2. sig = "SIGINT"
        BY <4>1, SignalIs
      <4> QED
        BY <4>1, <4>2
    <3>2. CASE tries = 1 /\ "SIGINT" \in received[proc]
      <4>1. tries' = 2 /\ tries + 1 = 2 /\ tries \in 0 .. 2 /\ tries' \in 0 .. 3
        BY <3>2, <1>3
      <4>2. sig = "SIGTERM"
        BY <4>1, SignalIs
      <4> QED
        BY <3>2, <4>1, <4>2
    <3>3. CASE tries = 2 /\ {"SIGINT", "SIGTERM"} \subseteq received[proc]
      <4>1. tries' = 3 /\ tries + 1 = 3 /\ tries \in 0 .. 2 /\ tries' \in 0 .. 3
        BY <3>3, <1>3
      <4>2. sig = "SIGKILL"
        BY <4>1, SignalIs
      <4> QED
        BY <3>3, <4>1, <4>2
    <3> QED
      BY <3>1, <3>2, <3>3, <1>1, SignalsSent
  <2> HIDE DEF sig
  <2>2. /\ received' \in [Proc -> SUBSET {"SIGINT", "SIGTERM", "SIGKILL"}]
        /\ received'[proc] = received[proc] \cup {sig}
        /\ \A q \in Proc : q # proc => received'[q] = received[q]
    BY <2>1, <1>2, <1>3 DEF sig
  <2>3. RunnerTypes'
    BY <2>1, <2>2, <1>1 DEF RunnerInv, RunnerTypes
  <2>4. pc' \in Calls
    BY <1>3 DEF Calls
  <2>5. /\ AtPlace(pc', client_procs', client', status', after')
        /\ InCall(pc', client_procs', client', status', after', proc')
    BY <2>4, <1>1, InCallKept
  <2>6. Escalates(pc, status, received, proc, tries)
    BY Parts
  <2>7. ASSUME NEW q \in Proc, "SIGKILL" \in received'[q]
        PROVE  {"SIGINT", "SIGTERM"} \subseteq received'[q]
    <3>1. CASE q = proc
      BY <2>1, <2>2, <2>6, <2>7, <3>1, <1>2 DEF Escalates
    <3>2. CASE q # proc
      BY <2>2, <2>6, <2>7, <3>2 DEF Escalates
    <3> QED
      BY <3>1, <3>2
  <2>8. status'[proc'] \in {"running", "zombie"}
    BY <2>6, <1>1 DEF Escalates
  <2>9. Escalates(pc', status', received', proc', tries')
    BY <2>1, <2>2, <2>7, <2>8, <1>1, <1>3 DEF Escalates
  <2> QED
    BY <2>3, <2>5, <2>9 DEF RunnerInv
<1>4. CASE status[proc] # "running" /\ pc' = ReturnTo /\ UNCHANGED <<received, tries>>
  BY <1>1, <1>2, <1>4, RunnerReturns
<1> QED
  BY <1>3, <1>4 DEF SendSignal, Goto

\* The process has ended within its time, or gets the next signal, or terminate_process
\* gives up.
LEMMA RunnerGrace == ASSUME RunnerInv, Grace PROVE RunnerInv'
<1>1. pc = "grace" /\ pc \in Calls /\ UNCHANGED <<received, client_procs, client, proc, tries, after>>
  BY DEF Grace, call, Calls
<1>2. proc \in Proc
  BY DEF RunnerInv, RunnerTypes
<1>3. CASE /\ status[proc] = "zombie" /\ pc' = ReturnTo
           /\ status' = [status EXCEPT ![proc] = "reaped"]
  <2>1. /\ status' \in [Proc -> {"none", "running", "zombie", "reaped"}]
        /\ \A q \in Proc : status'[q] = "running" => status[q] = "running"
        /\ status'[proc] # "running"
    BY <1>2, <1>3, IndexTypes
  <2> QED
    BY <2>1, <1>1, <1>3, RunnerReturns
<1>4. CASE status[proc] = "running" /\ tries < 3 /\ pc' = "signal" /\ status' = status
  <2>1. pc' \in Calls
    BY <1>4 DEF Calls
  <2>2. /\ AtPlace(pc', client_procs', client', status', after')
        /\ InCall(pc', client_procs', client', status', after', proc')
    BY <2>1, <1>1, <1>4, InCallKept
  <2>3. RunnerTypes'
    BY <1>1, <1>4, IndexTypes, TypesKept
  <2>4. Escalates(pc, status, received, proc, tries)
    BY Parts
  <2>5. Escalates("signal", status, received, proc, tries)
    BY <2>4, <1>1, <1>4 DEF Escalates, Calls
  <2> QED
    BY <2>2, <2>3, <2>5, <1>1, <1>4 DEF RunnerInv
<1>5. CASE pc' = Raise /\ status' = status
  <2>1. pc' \in Quiet /\ pc' \notin Early
    BY <1>5 DEF Raise, Quiet, Early
  <2> QED
    BY <2>1, <1>1, <1>5, IndexTypes, QuietStep
<1> QED
  BY <1>3, <1>4, <1>5 DEF Grace, Goto

\* Every step of the runner, the user and the children keeps the invariant.
LEMMA RunnerInvNext == RunnerInv /\ [RunnerNext]_runnerVars => RunnerInv'
<1>1. SUFFICES ASSUME RunnerInv, [RunnerNext]_runnerVars PROVE RunnerInv'
  OBVIOUS
<1>2. CASE Build \/ CheckBinaries \/ Cleanup \/ StartExchange \/ EnterTry \/ StartA \/ StartB
  BY <1>1, <1>2, RunnerStarts
<1>3. CASE AssignClients \/ WaitClient \/ StopExchange
  BY <1>1, <1>3, RunnerAssigns, RunnerWaits, RunnerStops
<1>4. CASE EnterFinally \/ Finally \/ ReadReports
  BY <1>1, <1>4, RunnerEntersFinally, RunnerCleans, RunnerReads
<1>5. CASE Poll \/ SendSignal \/ Grace
  BY <1>1, <1>5, RunnerPolls, RunnerSignals, RunnerGrace
<1>6. CASE Interrupt
  BY <1>1, <1>6, RunnerInterrupted
<1>7. ASSUME NEW p \in Proc, Exit(p) PROVE RunnerInv'
  BY <1>1, <1>7, RunnerExit
<1>8. CASE UNCHANGED runnerVars
  BY <1>1, <1>8 DEF runnerVars, procs, call, RunnerInv, RunnerTypes
<1> QED
  BY <1>1, <1>2, <1>3, <1>4, <1>5, <1>6, <1>7, <1>8 DEF RunnerNext, Proceed

\* Somebody pressed Ctrl-C, or a process was sent SIGKILL.
Excused == interrupts > 0 \/ \E p \in Proc : "SIGKILL" \in received[p]

\* At most client a runs, and client b never did.
AtMostA(st) == \A p \in Proc : st[p] = "running" => p = "a" /\ st["b"] = "none"

\* Why a process may be left: client_procs is empty behind the try block only if client
\* b was not started, and the finally block gives up only on a process that got SIGKILL.
LeftInv ==
    /\ interrupts \in Nat
    /\ pc \in {"build", "check", "start"} => \A p \in Proc : status[p] = "none"
    /\ client_procs = << >> /\ pc # "assign" => Excused \/ status["b"] = "none"
    /\ pc \in {"broken", "exit", "exit with error"} => Excused \/ AtMostA(status)
    /\ pc = "grace" /\ tries = 3 => "SIGKILL" \in received[proc]

\* An excuse once given stays.
LEMMA ExcusedKept == ASSUME RunnerInv, LeftInv, RunnerNext, Excused PROVE Excused'
<1>1. interrupts' = interrupts \/ interrupts' = interrupts + 1
  BY DEF RunnerNext, Proceed, Build, CheckBinaries, Cleanup, StartExchange, EnterTry,
         StartA, StartB, AssignClients, WaitClient, StopExchange, EnterFinally, Finally,
         ReadReports, Poll, SendSignal, Grace, Interrupt, Exit
<1>2. received' = received \/ received' = [received EXCEPT ![proc] = @ \cup {Signal[tries + 1]}]
  BY DEF RunnerNext, Proceed, procs, Build, CheckBinaries, Cleanup, StartExchange, EnterTry,
         StartA, StartB, AssignClients, WaitClient, StopExchange, EnterFinally, Finally,
         ReadReports, Poll, SendSignal, Grace, Interrupt, Exit
<1>3. /\ proc \in Proc /\ received \in [Proc -> SUBSET {"SIGINT", "SIGTERM", "SIGKILL"}]
      /\ interrupts \in Nat
  BY DEF RunnerInv, RunnerTypes, LeftInv
<1>4. \A p \in Proc : received[p] \subseteq received'[p]
  BY <1>2, <1>3
<1>5. CASE interrupts > 0
  BY <1>1, <1>3, <1>5 DEF Excused
<1>6. CASE \E p \in Proc : "SIGKILL" \in received[p]
  BY <1>4, <1>6 DEF Excused
<1> QED
  BY <1>5, <1>6 DEF Excused

\* Nothing runs when the runner starts.
LEMMA LeftInit == RunnerInit => LeftInv
BY DEF RunnerInit, LeftInv, Proc

\* When all that the finally block knows of is down, at most client a runs, or there is
\* an excuse.
LEMMA LeftDown ==
    ASSUME RunnerInv, LeftInv, pc # "assign",
           Down(client_procs, status, Targets(client_procs))
    PROVE  Excused \/ AtMostA(status)
<1>1. client_procs \in {<< >>, Clients}
  BY IndexTypes
<1>2. Clients # << >> /\ Targets(Clients) = 3 /\ Targets(<< >>) = 1
  BY ListIs DEF Targets
<1>3. CASE client_procs = << >>
  <2>1. status["exchange"] # "running"
    <3>1. 1 \in 1 .. 1 /\ TargetAt(<< >>, 1) = "exchange"
      BY DEF TargetAt
    <3> QED
      BY <1>2, <1>3, <3>1 DEF Down
  <2>2. Excused \/ status["b"] = "none"
    BY <1>3 DEF LeftInv
  <2> QED
    BY <2>1, <2>2 DEF AtMostA, Proc
<1>4. CASE client_procs = Clients
  <2>1. 1 \in 1 .. 3 /\ 2 \in 1 .. 3 /\ 3 \in 1 .. 3
    OBVIOUS
  <2>2. TargetAt(Clients, 1) = "a" /\ TargetAt(Clients, 2) = "b" /\ TargetAt(Clients, 3) = "exchange"
    BY <1>2, TargetIs
  <2>3. \A p \in Proc : status[p] # "running"
    BY <1>2, <1>4, <2>1, <2>2 DEF Down, Proc
  <2> QED
    BY <2>3 DEF AtMostA
<1> QED
  BY <1>1, <1>3, <1>4

\* Each step keeps the reasons.
LEMMA LeftNext == RunnerInv /\ LeftInv /\ [RunnerNext]_runnerVars => LeftInv'
<1>0. SUFFICES ASSUME RunnerInv, LeftInv, [RunnerNext]_runnerVars PROVE LeftInv'
  OBVIOUS
<1>t. /\ status \in [Proc -> {"none", "running", "zombie", "reaped"}]
      /\ client_procs \in {<< >>, Clients} /\ interrupts \in Nat /\ "b" \in Proc /\ proc \in Proc
  BY <1>0, IndexTypes DEF LeftInv, Proc, RunnerInv, RunnerTypes
<1>k. RunnerNext /\ Excused => Excused'
  BY <1>0, ExcusedKept
<1>1. CASE Interrupt
  <2>1. interrupts' = interrupts + 1 /\ interrupts' \in Nat /\ interrupts' > 0
    <3>1. interrupts' = interrupts + 1
      BY <1>1 DEF Interrupt
    <3> QED
      BY <1>t, <3>1
  <2>2. pc' \in {"finally", "broken", "exit with error"}
    BY <1>1 DEF Interrupt, Goto
  <2>3. Excused'
    BY <2>1 DEF Excused
  <2> QED
    BY <2>1, <2>2, <2>3 DEF LeftInv
<1>2. ASSUME NEW p \in Proc, Exit(p) PROVE LeftInv'
  <2>1. status[p] = "running" /\ status' = [status EXCEPT ![p] = "zombie"]
        /\ UNCHANGED <<received, pc, client_procs, tries, proc, interrupts>>
    BY <1>2 DEF Exit, call
  <2>2. \A q \in Proc : /\ status'[q] = "running" => status[q] = "running"
                        /\ status[q] = "none" => status'[q] = "none"
                        /\ q # p => status'[q] = status[q]
    BY <1>t, <2>1
  <2>3. Excused' <=> Excused
    BY <2>1 DEF Excused
  <2>4. AtMostA(status) => AtMostA(status')
    BY <1>t, <2>2 DEF AtMostA
  <2>5. pc' \in {"build", "check", "start"} => \A q \in Proc : status'[q] = "none"
    BY <1>0, <2>1, <2>2 DEF LeftInv
  <2>6. client_procs' = << >> /\ pc' # "assign" => Excused' \/ status'["b"] = "none"
    BY <1>0, <1>t, <2>1, <2>2, <2>3 DEF LeftInv
  <2> QED
    BY <1>0, <2>1, <2>3, <2>4, <2>5, <2>6 DEF LeftInv
<1>3. CASE Build \/ CheckBinaries \/ StartExchange \/ EnterTry \/ StartA \/ StartB
  <2>1. UNCHANGED <<received, client_procs, interrupts>>
    BY <1>3 DEF Build, CheckBinaries, StartExchange, EnterTry, StartA, StartB, procs
  <2>2. Excused' <=> Excused
    BY <2>1 DEF Excused
  <2>3. CASE Build \/ CheckBinaries
    <3>1. /\ pc \in {"build", "check"} /\ pc' \in {"check", "start", "exit"} /\ status' = status
      BY <2>3 DEF Build, CheckBinaries, Goto, procs
    <3>2. \A q \in Proc : status[q] = "none"
      BY <1>0, <3>1 DEF LeftInv
    <3> QED
      BY <1>t, <2>1, <2>2, <3>1, <3>2 DEF LeftInv, AtMostA
  <2>4. CASE StartExchange
    <3>1. /\ pc = "start"
          /\ \/ Started("exchange") /\ pc' = "try"
             \/ status' = status /\ pc' = "broken"
      BY <2>4 DEF StartExchange, Goto
    <3>2. \A q \in Proc : status[q] = "none"
      BY <1>0, <3>1 DEF LeftInv
    <3>3. status'["b"] = "none"
      BY <1>t, <3>1, <3>2 DEF Started
    <3> QED
      BY <1>t, <2>1, <2>2, <3>1, <3>2, <3>3 DEF LeftInv, AtMostA
  <2>5. CASE EnterTry \/ StartA
    <3>1. /\ pc \in {"try", "start a"} /\ pc' \in {"start a", "start b", "finally"}
          /\ Started("a") \/ status' = status
      BY <2>5 DEF EnterTry, StartA, Goto, procs
    <3>2. status'["b"] = status["b"]
      BY <1>t, <3>1 DEF Started
    <3> QED
      BY <1>0, <1>t, <2>1, <2>2, <3>1, <3>2 DEF LeftInv
  <2>6. CASE StartB
    <3>1. /\ pc = "start b"
          /\ \/ pc' = "assign"
             \/ pc' = "finally" /\ status' = status
      BY <2>6 DEF StartB, Goto
    <3> QED
      BY <1>0, <1>t, <2>1, <2>2, <3>1 DEF LeftInv
  <2> QED
    BY <1>3, <2>3, <2>4, <2>5, <2>6
<1>4. CASE Cleanup
  <2>1. /\ pc \in {"cleanup", "raised", "broken"} /\ pc' \in {"exit", "exit with error"}
        /\ UNCHANGED <<status, received, client_procs, interrupts>>
    BY <1>4 DEF Cleanup, Goto, procs
  <2>2. Excused' <=> Excused
    BY <2>1 DEF Excused
  <2>3. Excused \/ AtMostA(status)
    <3>1. CASE pc = "broken"
      BY <1>0, <3>1 DEF LeftInv
    <3>2. CASE pc \in {"cleanup", "raised"}
      <4>1. AtPlace(pc, client_procs, client, status, after)
        BY <1>0, Parts
      <4>2. Targets(Clients) = 3
        BY ListIs
      <4>3. Down(client_procs, status, Targets(client_procs))
        BY <3>2, <4>1, <4>2 DEF AtPlace
      <4> QED
        BY <1>0, <3>2, <4>3, LeftDown
    <3> QED
      BY <2>1, <3>1, <3>2
  <2> QED
    BY <1>0, <1>t, <2>1, <2>2, <2>3 DEF LeftInv
<1>5. CASE AssignClients
  <2>1. pc' = "wait" /\ client_procs' = Clients /\ interrupts' = interrupts
    BY <1>5 DEF AssignClients, Goto, Clients
  <2>2. Clients # << >>
    BY ListIs
  <2> QED
    BY <1>t, <2>1, <2>2 DEF LeftInv
<1>6. CASE WaitClient \/ StopExchange \/ EnterFinally \/ Finally \/ ReadReports \/ Poll \/ SendSignal \/ Grace
  <2>1. client_procs' = client_procs /\ interrupts' = interrupts
    BY <1>6 DEF WaitClient, StopExchange, EnterFinally, Finally, ReadReports, Poll, SendSignal, Grace
  <2>2. RunnerNext
    BY <1>6 DEF RunnerNext, Proceed
  <2>3. /\ pc # "assign"
        /\ pc' \notin {"build", "check", "start", "assign", "exit", "exit with error"}
    <3>1. pc' \in {"poll", "signal", "grace", "clean", "read", "raised", "cleanup", "broken", "wait",
                   "finally", "finally, then read"}
      <4>1. after \in {"wait", "finally, then read"} \cup InFinally
        BY <1>0 DEF RunnerInv, RunnerTypes
      <4>2. /\ ReturnTo \in {"clean", "wait", "finally, then read"}
            /\ Raise \in {"broken", "finally"}
        BY <4>1 DEF ReturnTo, Raise, InFinally
      <4>3. CASE Poll \/ SendSignal \/ Grace
        BY <4>2, <4>3 DEF Poll, SendSignal, Grace, Goto
      <4>4. CASE WaitClient \/ StopExchange \/ EnterFinally \/ Finally \/ ReadReports
        BY <4>4 DEF WaitClient, StopExchange, EnterFinally, Finally, ReadReports, Goto, Call
      <4> QED
        BY <1>6, <4>3, <4>4
    <3>2. pc # "assign"
      BY <1>6 DEF WaitClient, StopExchange, EnterFinally, Finally, ReadReports, Poll, SendSignal, Grace
    <3> QED
      BY <3>1, <3>2
  <2>4. ASSUME client_procs = << >> PROVE status'["b"] = status["b"]
    <3>0. Clients # << >>
      BY ListIs
    <3>1. CASE StopExchange \/ EnterFinally \/ Finally \/ ReadReports \/ SendSignal
      BY <3>1 DEF StopExchange, EnterFinally, Finally, ReadReports, SendSignal, procs
    <3>2. CASE WaitClient
      <4>1. pc = "wait" /\ AtPlace(pc, client_procs, client, status, after)
        BY <1>0, <3>2, Parts DEF WaitClient
      <4> QED
        BY <2>4, <3>0, <4>1 DEF AtPlace
    <3>3. CASE Poll \/ Grace
      <4>1. pc \in Calls /\ InCall(pc, client_procs, client, status, after, proc)
        BY <1>0, <3>3, Parts DEF Poll, Grace, Calls
      <4>2. after # "finally, then read"
        BY <2>4, <3>0, <4>1 DEF InCall
      <4>3. proc = TargetAt(client_procs, client - 1)
        BY <4>1, <4>2 DEF InCall
      <4>4. proc = "exchange"
        BY <2>4, <4>3, TargetIs
      <4>5. status' = status \/ status' = [status EXCEPT ![proc] = "reaped"]
        BY <3>3 DEF Poll, Grace
      <4> QED
        BY <1>t, <4>4, <4>5
    <3> QED
      BY <1>6, <3>1, <3>2, <3>3
  <2>5. client_procs' = << >> /\ pc' # "assign" => Excused' \/ status'["b"] = "none"
    BY <1>0, <1>k, <2>1, <2>2, <2>3, <2>4 DEF LeftInv
  <2>6. ASSUME pc' = "broken" PROVE Excused' \/ AtMostA(status')
    <3>1. CASE ReadReports
      <4>1. /\ pc = "read" /\ status' = status
            /\ AtPlace(pc, client_procs, client, status, after)
        BY <1>0, <3>1, Parts DEF ReadReports, procs
      <4>2. Targets(Clients) = 3
        BY ListIs
      <4>3. Down(client_procs, status, Targets(client_procs))
        BY <4>1, <4>2 DEF AtPlace
      <4>4. Excused \/ AtMostA(status)
        BY <1>0, <4>1, <4>3, LeftDown
      <4> QED
        BY <1>k, <2>2, <4>1, <4>4
    <3>2. CASE Grace /\ tries = 3
      <4>1. "SIGKILL" \in received[proc]
        BY <1>0, <3>2 DEF LeftInv, Grace
      <4> QED
        BY <1>k, <1>t, <2>2, <4>1 DEF Excused
    <3>3. CASE ~ ReadReports /\ ~ (Grace /\ tries = 3)
      <4>1. ReturnTo # "broken"
        <5>1. after \in {"wait", "finally, then read"} \cup InFinally
          BY <1>0 DEF RunnerInv, RunnerTypes
        <5> QED
          BY <5>1 DEF ReturnTo, InFinally
      <4>2. tries \in 0 .. 3
        BY <1>0 DEF RunnerInv, RunnerTypes
      <4>3. tries # 3 => tries < 3
        BY <4>2
      <4>4. CASE Poll \/ SendSignal \/ Grace
        BY <2>6, <3>3, <4>1, <4>3, <4>4 DEF Poll, SendSignal, Grace, Goto
      <4>5. CASE WaitClient \/ StopExchange \/ EnterFinally \/ Finally
        BY <2>6, <4>5 DEF WaitClient, StopExchange, EnterFinally, Finally, Goto, Call
      <4> QED
        BY <1>6, <3>3, <4>4, <4>5
    <3> QED
      BY <3>1, <3>2, <3>3
  <2>7. ASSUME pc' = "grace", tries' = 3 PROVE "SIGKILL" \in received'[proc']
    <3>1. SendSignal
      <4>1. ReturnTo # "grace" /\ Raise # "grace"
        <5>1. after \in {"wait", "finally, then read"} \cup InFinally
          BY <1>0 DEF RunnerInv, RunnerTypes
        <5> QED
          BY <5>1 DEF ReturnTo, Raise, InFinally
      <4>2. ~ Poll /\ ~ Grace
        BY <2>7, <4>1 DEF Poll, Grace, Goto
      <4>3. ~ (WaitClient \/ StopExchange \/ EnterFinally \/ Finally \/ ReadReports)
        BY <2>7 DEF WaitClient, StopExchange, EnterFinally, Finally, ReadReports, Goto, Call
      <4> QED
        BY <1>6, <4>2, <4>3
    <3>2. ReturnTo # "grace"
      <4>1. after \in {"wait", "finally, then read"} \cup InFinally
        BY <1>0 DEF RunnerInv, RunnerTypes
      <4> QED
        BY <4>1 DEF ReturnTo, InFinally
    <3>3. /\ proc' = proc /\ tries' = tries + 1
          /\ received' = [received EXCEPT ![proc] = @ \cup {Signal[tries + 1]}]
      BY <2>7, <3>1, <3>2 DEF SendSignal, Goto
    <3>4. tries + 1 = 3
      BY <2>7, <3>3
    <3>5. Signal[tries + 1] = "SIGKILL"
      BY <3>4, SignalIs
    <3>6. received \in [Proc -> SUBSET {"SIGINT", "SIGTERM", "SIGKILL"}]
      BY <1>0 DEF RunnerInv, RunnerTypes
    <3> QED
      BY <1>t, <3>3, <3>5, <3>6
  <2> QED
    BY <1>t, <2>1, <2>3, <2>5, <2>6, <2>7 DEF LeftInv
<1>7. CASE UNCHANGED runnerVars
  <2>1. UNCHANGED <<status, received, pc, client_procs, proc, tries, interrupts>>
    BY <1>7 DEF runnerVars, procs, call
  <2> QED
    BY <1>0, <2>1 DEF LeftInv, Excused
<1> QED
  BY <1>0, <1>1, <1>2, <1>3, <1>4, <1>5, <1>6, <1>7 DEF RunnerNext, Proceed

\* However often the runner is interrupted and however its children behave, none of them
\* runs when their reports are read, and none that the finally block knows of when it
\* has completed; one outlives the runner only after Ctrl-C, after SIGKILL, or, as client
\* a, because client b could not be started.
THEOREM NoChildLeft == RunnerSpec => []NoneLeftRunning
<1>1. RunnerInv /\ LeftInv => NoneLeftRunning
  <2>1. SUFFICES ASSUME RunnerInv, LeftInv PROVE NoneLeftRunning
    OBVIOUS
  <2>2. AtPlace(pc, client_procs, client, status, after) /\ client_procs \in {<< >>, Clients}
    BY <2>1, Parts, IndexTypes
  <2>3. Clients # << >> /\ Targets(Clients) = 3 /\ Targets(<< >>) = 1
    BY ListIs DEF Targets
  <2>4. ASSUME Down(Clients, status, 3) PROVE Running = {}
    <3>1. 1 \in 1 .. 3 /\ 2 \in 1 .. 3 /\ 3 \in 1 .. 3
      OBVIOUS
    <3>2. TargetAt(Clients, 1) = "a" /\ TargetAt(Clients, 2) = "b" /\ TargetAt(Clients, 3) = "exchange"
      BY <2>3, TargetIs
    <3>3. \A p \in Proc : status[p] # "running"
      BY <2>4, <3>1, <3>2 DEF Down, Proc
    <3> QED
      BY <3>3 DEF Running
  <2>5. ASSUME Down(<< >>, status, 1) PROVE "exchange" \notin Running
    <3>1. 1 \in 1 .. 1 /\ TargetAt(<< >>, 1) = "exchange"
      BY DEF TargetAt
    <3> QED
      BY <2>5, <3>1 DEF Down, Running
  <2>6. pc \in {"read", "cleanup"} => Running = {}
    BY <2>2, <2>4 DEF AtPlace
  <2>7. ASSUME pc = "raised"
        PROVE  "exchange" \notin Running /\ (client_procs # << >> => Running = {})
    <3>1. Down(client_procs, status, Targets(client_procs))
      BY <2>2, <2>7 DEF AtPlace
    <3>2. CASE client_procs = << >>
      BY <3>1, <3>2, <2>3, <2>5
    <3>3. CASE client_procs = Clients
      BY <3>1, <3>3, <2>3, <2>4
    <3> QED
      BY <2>2, <3>2, <3>3
  <2>8. ASSUME Ended
        PROVE  \/ Running = {}
               \/ Running = {"a"} /\ status["b"] = "none"
               \/ interrupts > 0
               \/ \E p \in Proc : "SIGKILL" \in received[p]
    <3>1. Excused \/ AtMostA(status)
      BY <2>1, <2>8 DEF LeftInv, Ended
    <3>2. CASE Excused
      BY <3>2 DEF Excused
    <3>3. CASE AtMostA(status)
      <4>1. Running \subseteq {"a"} /\ ("a" \in Running => status["b"] = "none")
        BY <3>3 DEF AtMostA, Running
      <4> QED
        BY <4>1
    <3> QED
      BY <3>1, <3>2, <3>3
  <2> QED
    BY <2>6, <2>7, <2>8 DEF NoneLeftRunning
<1>2. RunnerSpec => []RunnerInv
  BY RunnerInvInit, RunnerInvNext, PTL DEF RunnerSpec
<1>3. RunnerSpec => []LeftInv
  BY <1>2, LeftInit, LeftNext, PTL DEF RunnerSpec
<1> QED
  BY <1>1, <1>2, <1>3, PTL

\* When terminate_process works on the exchange, the clients it waits for are down.
LEMMA ExchangeLast ==
    ASSUME RunnerInv, pc \in Calls, proc = "exchange", NEW c \in 1 .. Len(client_procs)
    PROVE  status[client_procs[c]] # "running"
<1>1. InCall(pc, client_procs, client, status, after, proc)
  BY Parts
<1>2. client_procs \in {<< >>, Clients} /\ client \in Int
  BY IndexTypes
<1>3. client_procs = Clients /\ c \in 1 .. 2
  <2>1. Len(<< >>) = 0 /\ Len(Clients) = 2
    BY ListIs
  <2>2. CASE client_procs = << >>
    BY <2>1, <2>2
  <2>3. CASE client_procs = Clients
    BY <2>1, <2>3
  <2> QED
    BY <1>2, <2>2, <2>3
<1>4. /\ client_procs[c] = TargetAt(client_procs, c)
      /\ client_procs # << >> /\ Targets(client_procs) = 3
  BY <1>2, <1>3, ListIs
<1>5. Down(client_procs, status, 2)
  <2>1. CASE after = "finally, then read"
    BY <2>1, <1>1 DEF InCall
  <2>2. CASE after # "finally, then read"
    <3>1. /\ client \in 2 .. 4 /\ proc = TargetAt(client_procs, client - 1)
          /\ Down(client_procs, status, client - 2)
      <4>1. client \in 2 .. 3 + 1
        BY <2>2, <1>1, <1>4 DEF InCall
      <4>2. client \in 2 .. 4
        BY <4>1
      <4> QED
        BY <4>2, <2>2, <1>1 DEF InCall
    <3>2. TargetAt(client_procs, 1) = "a" /\ TargetAt(client_procs, 2) = "b"
      BY <1>4, TargetIs
    <3>3. client - 1 # 1 /\ client - 1 # 2
      BY <3>1, <3>2
    <3>4. client - 2 = 2
      BY <3>1, <3>3
    <3> QED
      BY <3>1, <3>4
  <2> QED
    BY <2>1, <2>2
<1> QED
  BY <1>3, <1>4, <1>5 DEF Down

\* No process that was waited for is signalled, SIGKILL comes last, and the exchange gets
\* no signal while a client that the runner waits for still runs: in every run of the
\* runner, with any number of interruptions.
THEOREM SignalsInOrder == RunnerSpec => SignalDiscipline
<1> DEFINE Disciplined ==
               tries' > tries =>
                   /\ status[proc] \in {"running", "zombie"}
                   /\ "SIGKILL" \in received'[proc] => {"SIGINT", "SIGTERM"} \subseteq received[proc]
                   /\ proc = "exchange" =>
                        \A c \in 1 .. Len(client_procs) : status[client_procs[c]] # "running"
<1>1. ASSUME RunnerInv, [RunnerNext]_runnerVars, tries' > tries
      PROVE  Disciplined
  <2>0. tries \in 0 .. 3 /\ ~ (tries > tries) /\ ~ (0 > tries)
    <3>1. tries \in 0 .. 3
      BY <1>1 DEF RunnerInv, RunnerTypes
    <3> QED
      BY <3>1
  <2>1. SendSignal /\ tries' # tries
    <3>1. tries' # tries /\ tries' # 0
      BY <1>1, <2>0
    <3> QED
      BY <1>1, <3>1 DEF RunnerNext, Proceed, runnerVars, procs, call, Call, Build, CheckBinaries, Cleanup,
                StartExchange, EnterTry, StartA, StartB, AssignClients, WaitClient, StopExchange,
                EnterFinally, Finally, ReadReports, Poll, Grace, Interrupt, Exit
  <2>2. /\ pc = "signal" /\ received' = [received EXCEPT ![proc] = @ \cup {Signal[tries + 1]}]
    BY <2>1 DEF SendSignal
  <2>3. /\ proc \in Proc /\ received \in [Proc -> SUBSET {"SIGINT", "SIGTERM", "SIGKILL"}]
    BY <1>1 DEF RunnerInv, RunnerTypes
  <2>4. received'[proc] = received[proc] \cup {Signal[tries + 1]}
    BY <2>2, <2>3
  <2>5. status[proc] \in {"running", "zombie"}
    BY <1>1, <2>2, Parts DEF Escalates
  <2>6. ASSUME "SIGKILL" \in received'[proc] PROVE {"SIGINT", "SIGTERM"} \subseteq received[proc]
    <3>1. CASE "SIGKILL" \in received[proc]
      BY <1>1, <2>3, <3>1, Parts DEF Escalates
    <3>2. CASE "SIGKILL" = Signal[tries + 1]
      <4>1. tries # 0
        <5>1. ASSUME tries = 0 PROVE FALSE
          <6>1. tries + 1 = 1
            BY <5>1
          <6> QED
            BY <6>1, <3>2, SignalIs
        <5> QED
          BY <5>1
      <4>2. tries # 1
        <5>1. ASSUME tries = 1 PROVE FALSE
          <6>1. tries + 1 = 2
            BY <5>1
          <6> QED
            BY <6>1, <3>2, SignalIs
        <5> QED
          BY <5>1
      <4> QED
        BY <1>1, <2>2, <4>1, <4>2, SignalsSent
    <3> QED
      BY <2>4, <2>6, <3>1, <3>2
  <2>7. pc \in Calls
    BY <2>2 DEF Calls
  <2>8. proc = "exchange" => \A c \in 1 .. Len(client_procs) : status[client_procs[c]] # "running"
    BY <1>1, <2>7, ExchangeLast
  <2> QED
    BY <2>5, <2>6, <2>8
<1>2. RunnerInv /\ [RunnerNext]_runnerVars => [Disciplined]_runnerVars
  BY <1>1
<1> QED
  BY <1>2, RunnerInvInit, RunnerInvNext, PTL DEF RunnerSpec, SignalDiscipline

=============================================================================
