------------------------------ MODULE TscCheck ------------------------------
(***************************************************************************)
(* The whole clock-skew tool: main of tools/tsc_sync_check.cpp checks its  *)
(* arguments, measures one core of the list after the other against the    *)
(* reference core and sums the verdicts up in its exit code.  TscSync is   *)
(* the measurement of one pair.                                            *)
(*                                                                         *)
(* The listed cores share one skew, as those of the other socket do; their *)
(* verdicts still differ, because the fastest exchange does.  A pair is    *)
(* measured from time Start again: nothing depends on earlier times.       *)
(***************************************************************************)
EXTENDS TscSync, Sequences, FiniteSets

CONSTANTS
    online_cores,       \* how many cores the system reports
    CoreLists,          \* what --cores may list, duplicates and the reference included
    ReferenceCores      \* what --reference-core may name

ASSUME CheckAssumption ==
    /\ online_cores \in Nat \ {0}
    /\ CoreLists \subseteq Seq(Int) /\ ReferenceCores \subseteq Int

VARIABLES
    main_pc,            \* "parse", "loop", "measure", "exited" or "aborted"
    reference_core, cores,      \* Config
    visited,            \* how many cores of the list main is done with
    all_pass,
    exit_code,          \* meaningful once exited
    verdicts            \* history: <<core, pass>> of every pair measured

mainVars == <<main_pc, reference_core, cores, visited, all_pass, exit_code, verdicts>>
checkVars == <<vars, mainVars>>

CheckInit ==
    /\ Init
    /\ main_pc = "parse" /\ reference_core \in ReferenceCores /\ cores \in CoreLists
    /\ visited = 0 /\ all_pass = TRUE /\ exit_code = 0 /\ verdicts = << >>

-----------------------------------------------------------------------------
\* parse_args: every core named has to exist.  Counts out of range end the program in the
\* same way, and --help without a measurement; the assumptions of TscSync exclude them.
Valid == /\ reference_core \in 0 .. online_cores - 1
         /\ \A k \in DOMAIN cores : cores[k] \in 0 .. online_cores - 1

Parse ==
    /\ main_pc = "parse"
    /\ main_pc' = IF Valid THEN "loop" ELSE "exited"
    /\ exit_code' = IF Valid THEN 0 ELSE 1
    /\ UNCHANGED <<vars, reference_core, cores, visited, all_pass, verdicts>>

core == cores[visited + 1]

\* The reference core is not measured against itself.
SkipReference ==
    /\ main_pc = "loop" /\ visited < Len(cores) /\ core = reference_core
    /\ visited' = visited + 1
    /\ UNCHANGED <<vars, main_pc, reference_core, cores, all_pass, exit_code, verdicts>>

StartPair ==
    /\ main_pc = "loop" /\ visited < Len(cores) /\ core # reference_core
    /\ main_pc' = "measure"
    /\ UNCHANGED <<vars, reference_core, cores, visited, all_pass, exit_code, verdicts>>

Measuring(A) == main_pc = "measure" /\ A /\ UNCHANGED mainVars

\* pin_current_thread fails.  On the target's thread nobody catches the exception; on
\* the reference's the unjoined thread object is destroyed on the way to main's catch.
\* Either ends the process.
PinFails ==
    /\ main_pc = "measure"
    /\ target_pc = "pin" \/ (ref_pc = "sample" /\ i = 0)
    /\ main_pc' = "aborted"
    /\ UNCHANGED <<vars, reference_core, cores, visited, all_pass, exit_code, verdicts>>

MutAllPass(p) == p                          \* mutant: the last pair decides
AllPass(p) == all_pass /\ p

\* measure_pair returned; the next one begins with a new Shared and a new thread.
FinishPair ==
    /\ main_pc = "measure" /\ ref_pc = "done"
    /\ main_pc' = "loop"
    /\ all_pass' = AllPass(pass)
    /\ verdicts' = Append(verdicts, <<core, pass>>)
    /\ visited' = visited + 1
    /\ now' = Start
    /\ request' = 0 /\ ack' = 0 /\ ready' = FALSE /\ stop' = FALSE /\ target_tsc' = 0
    /\ ref_pc' = "wait" /\ i' = 0 /\ start' = 0 /\ end' = 0
    /\ best' = [taken |-> FALSE, roundtrip |-> 0, offset |-> 0]
    /\ target_pc' = "pin" /\ seen' = 0 /\ tsc' = 0
    /\ UNCHANGED <<reference_core, cores, exit_code>>

Return ==
    /\ main_pc = "loop" /\ visited = Len(cores)
    /\ main_pc' = "exited"
    /\ exit_code' = IF all_pass THEN 0 ELSE 2
    /\ UNCHANGED <<vars, reference_core, cores, visited, all_pass, verdicts>>

-----------------------------------------------------------------------------
Main == Parse \/ SkipReference \/ StartPair \/ FinishPair \/ Return

CheckNext ==
    \/ Main \/ PinFails
    \/ Measuring(Tick) \/ Measuring(Target) \/ Measuring(Reference)

\* Both threads keep running: after the first pair the new thread shares the
\* reference's core until it has pinned itself, and the scheduler preempts.
CheckSpec ==
    /\ CheckInit /\ [][CheckNext]_checkVars
    /\ WF_checkVars(Main) /\ WF_checkVars(Measuring(Target)) /\ WF_checkVars(Measuring(Reference))

-----------------------------------------------------------------------------
(* Properties *)

\* 1: the arguments were wrong and nothing was measured; 0: each pair measured passed;
\* 2: the skew is really above the threshold.
CodeMeans ==
    main_pc = "exited" =>
        IF ~ Valid THEN exit_code = 1 /\ verdicts = << >>
        ELSE \/ exit_code = 0 /\ \A k \in DOMAIN verdicts : verdicts[k][2]
             \/ exit_code = 2 /\ (Skew > threshold_cycles \/ -Skew > threshold_cycles)

\* How many of the first k entries of a list are cores other than the reference.
Others(list, reference, k) == Cardinality({j \in 1 .. k : list[j] # reference})

\* Every entry done with, the reference core excepted, was measured once, in the order
\* of the list.
AllMeasured ==
    /\ Len(verdicts) = Others(cores, reference_core, visited)
    /\ \A k \in 1 .. visited :
            cores[k] # reference_core => verdicts[Others(cores, reference_core, k)][1] = cores[k]

\* The exit code sums the run up, and nothing is left out of the sum: every core listed
\* was measured once per mention, in order, the reference core excepted.
ExitCodeSound ==
    /\ CodeMeans
    /\ main_pc = "exited" /\ Valid => visited = Len(cores) /\ AllMeasured

\* The tool ends: with an exit code, or aborted because a thread could not be pinned.
\* Neither thread waits for ever on the other in any pair, not even when stop races
\* with the last request, and each verdict rests on a sample.
ToolEnds == /\ <>(main_pc \in {"exited", "aborted"})
            /\ [](ref_pc = "done" => best.taken)
=============================================================================
