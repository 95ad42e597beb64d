---------------------------- MODULE BenchRunner ----------------------------
(***************************************************************************)
(* The benchmark runner (tools/bench_runner.py) starts the exchange and    *)
(* two clients as processes of their own sessions, waits for the clients,  *)
(* stops what is left, and reads the reports.                              *)
(*                                                                         *)
(* Processes may end at any time and may ignore SIGINT and SIGTERM.  The   *)
(* runner itself may be interrupted (KeyboardInterrupt) at any step; the   *)
(* children do not see that, because they are in other sessions.  What a   *)
(* report says is left out.                                                *)
(***************************************************************************)
EXTENDS Naturals, Sequences

CONSTANTS
    keep_logs,          \* --keep-logs
    MaxInterrupts       \* bound: how often the user presses Ctrl-C

ASSUME RunnerAssumption == keep_logs \in BOOLEAN /\ MaxInterrupts \in Nat

Proc == {"exchange", "a", "b"}
Signal == <<"SIGINT", "SIGTERM", "SIGKILL">>     \* in the order terminate_process uses them

VARIABLES
    status,             \* Proc -> none, running, zombie (ended) or reaped (waited for)
    received,           \* Proc -> the signals sent to it
    pc,                 \* where the runner is
    client_procs,       \* the clients that the finally block knows of
    client,             \* the index of the loop over client_procs
    proc, tries, after, \* terminate_process: its argument, the signals it has sent,
                        \* and where it returns to
    out_dir,            \* none, temp, kept, removed, or left behind half removed
    interrupts

procs == <<status, received>>
call == <<proc, tries, after>>
runnerVars == <<procs, pc, client_procs, client, call, out_dir, interrupts>>

RunnerInit ==
    /\ status = [p \in Proc |-> "none"]
    /\ received = [p \in Proc |-> {}]
    /\ pc = "build"
    /\ client_procs = << >> /\ client = 1
    /\ proc = "exchange" /\ tries = 0 /\ after = "wait"
    /\ out_dir = "none"
    /\ interrupts = 0

Goto(l) == pc' = l

-----------------------------------------------------------------------------
(* The child processes (external) *)

Exit(p) ==
    /\ status[p] = "running"
    /\ status' = [status EXCEPT ![p] = "zombie"]
    /\ UNCHANGED <<received, pc, client_procs, client, call, out_dir, interrupts>>

-----------------------------------------------------------------------------
(* main *)

\* cargo build, which may take as long as it likes and may fail.
Build ==
    /\ pc = "build"
    /\ Goto("check") \/ Goto("exit")
    /\ UNCHANGED <<procs, client_procs, client, call, out_dir, interrupts>>

\* check_binary for each of the three, then the directory for the logs.
CheckBinaries ==
    /\ pc = "check"
    /\ \/ Goto("start") /\ out_dir' = IF keep_logs THEN "kept" ELSE "temp"
       \/ Goto("exit") /\ UNCHANGED out_dir
    /\ UNCHANGED <<procs, client_procs, client, call, interrupts>>

\* The finally block of main, whether run_once returned or raised.
Cleanup ==
    /\ pc \in {"cleanup", "raised", "broken"}
    /\ out_dir' = IF out_dir = "temp" THEN "removed" ELSE out_dir
    /\ Goto(IF pc = "cleanup" THEN "exit" ELSE "exit with error")
    /\ UNCHANGED <<procs, client_procs, client, call, interrupts>>

-----------------------------------------------------------------------------
(* run_once *)

Started(p) == status' = [status EXCEPT ![p] = "running"]

\* The exchange is started before the try block: a failure just leaves run_once.
StartExchange ==
    /\ pc = "start"
    /\ \/ Started("exchange") /\ Goto("try")
       \/ Goto("broken") /\ UNCHANGED status
    /\ UNCHANGED <<received, client_procs, client, call, out_dir, interrupts>>

EnterTry ==
    /\ pc = "try"
    /\ Goto("start a")
    /\ UNCHANGED <<procs, client_procs, client, call, out_dir, interrupts>>

StartA ==
    /\ pc = "start a"
    /\ \/ Started("a") /\ Goto("start b")
       \/ Goto("finally") /\ UNCHANGED status
    /\ UNCHANGED <<received, client_procs, client, call, out_dir, interrupts>>

StartB ==
    /\ pc = "start b"
    /\ \/ Started("b") /\ Goto("assign")
       \/ Goto("finally") /\ UNCHANGED status
    /\ UNCHANGED <<received, client_procs, client, call, out_dir, interrupts>>

\* client_procs is assigned once both clients run.
AssignClients ==
    /\ pc = "assign"
    /\ client_procs' = <<"a", "b">>
    /\ Goto("wait")
    /\ UNCHANGED <<procs, client, call, out_dir, interrupts>>

Call(p, return) ==
    /\ proc' = p /\ tries' = 0 /\ after' = return
    /\ Goto("poll")

\* proc.wait: the client has ended, or the time is up and it is terminated.
WaitClient ==
    /\ pc = "wait" /\ client <= Len(client_procs)
    /\ client' = client + 1
    /\ \/ /\ status[client_procs[client]] \in {"zombie", "reaped"}
          /\ status' = [status EXCEPT ![client_procs[client]] = "reaped"]
          /\ UNCHANGED <<pc, call>>
       \/ /\ status[client_procs[client]] = "running"
          /\ Call(client_procs[client], "wait")
          /\ UNCHANGED status
    /\ UNCHANGED <<received, client_procs, out_dir, interrupts>>

\* Both clients are done: the exchange is stopped, then the finally block runs.
StopExchange ==
    /\ pc = "wait" /\ client > Len(client_procs)
    /\ Call("exchange", "finally, then read")
    /\ client' = 1
    /\ UNCHANGED <<procs, client_procs, out_dir, interrupts>>

EnterFinally ==
    /\ pc \in {"finally", "finally, then read"}
    /\ after' = IF pc = "finally" THEN "unwind" ELSE "return"
    /\ client' = 1
    /\ Goto("clean")
    /\ UNCHANGED <<procs, client_procs, proc, tries, out_dir, interrupts>>

\* The finally block terminates the clients it knows of, then the exchange.  after
\* tells whether run_once returns or the exception goes on.
MutFinally ==                                  \* mutant: the exchange is forgotten
    /\ pc = "clean"
    /\ IF client <= Len(client_procs)
       THEN Call(client_procs[client], after)
       ELSE Goto(IF after = "return" THEN "read" ELSE "raised") /\ UNCHANGED call
    /\ client' = client + 1
    /\ UNCHANGED <<procs, client_procs, out_dir, interrupts>>

Finally ==
    /\ pc = "clean"
    /\ IF client <= Len(client_procs) + 1
       THEN Call((client_procs \o <<"exchange">>)[client], after)
       ELSE Goto(IF after = "return" THEN "read" ELSE "raised") /\ UNCHANGED call
    /\ client' = client + 1
    /\ UNCHANGED <<procs, client_procs, out_dir, interrupts>>

\* The logs are read, parsed and printed; any of it may raise.
ReadReports ==
    /\ pc = "read"
    /\ Goto("cleanup") \/ Goto("broken")
    /\ UNCHANGED <<procs, client_procs, client, call, out_dir, interrupts>>

-----------------------------------------------------------------------------
(* terminate_process *)

\* Where the caller goes on, after a return and after an exception.
ReturnTo == IF after \in {"unwind", "return"} THEN "clean" ELSE after
Raise == IF after \in {"unwind", "return"} THEN "broken" ELSE "finally"

MutPoll == pc = "poll" /\ Goto("signal")       \* mutant: no test before the signal
           /\ UNCHANGED <<procs, client_procs, client, call, out_dir, interrupts>>

\* "if proc.poll() is not None: return", which also reaps the process.
Poll ==
    /\ pc = "poll"
    /\ \/ /\ status[proc] = "running"
          /\ Goto("signal")
          /\ UNCHANGED status
       \/ /\ status[proc] # "running"
          /\ Goto(ReturnTo)
          /\ status' = [status EXCEPT ![proc] = "reaped"]
    /\ UNCHANGED <<received, client_procs, client, call, out_dir, interrupts>>

\* killpg with the next signal, or ProcessLookupError when the process has just ended.
SendSignal ==
    /\ pc = "signal"
    /\ \/ /\ received' = [received EXCEPT ![proc] = @ \cup {Signal[tries + 1]}]
          /\ tries' = tries + 1
          /\ Goto("grace")
       \/ /\ status[proc] # "running"
          /\ Goto(ReturnTo)
          /\ UNCHANGED <<received, tries>>
    /\ UNCHANGED <<status, client_procs, client, proc, after, out_dir, interrupts>>

MutGrace ==                                    \* mutant: the loop never gives up
    /\ pc = "grace"
    /\ \/ /\ status[proc] = "zombie"
          /\ status' = [status EXCEPT ![proc] = "reaped"]
          /\ Goto(ReturnTo)
       \/ /\ status[proc] = "running"
          /\ UNCHANGED <<status, pc>>
    /\ UNCHANGED <<received, client_procs, client, call, out_dir, interrupts>>

\* proc.wait(timeout): the process has ended, or the time is up and the next signal
\* is sent.  After SIGKILL the exception leaves terminate_process.
Grace ==
    /\ pc = "grace"
    /\ \/ /\ status[proc] = "zombie"
          /\ status' = [status EXCEPT ![proc] = "reaped"]
          /\ Goto(ReturnTo)
       \/ /\ status[proc] = "running"
          /\ Goto(IF tries < 3 THEN "signal" ELSE Raise)
          /\ UNCHANGED status
    /\ UNCHANGED <<received, client_procs, client, call, out_dir, interrupts>>

-----------------------------------------------------------------------------
\* KeyboardInterrupt.  In the try block it leads to the finally block; in the finally
\* block, and elsewhere in run_once, it leaves run_once at once.
InTry ==
    \/ pc \in {"start a", "start b", "assign", "wait", "finally, then read"}
    \/ pc \in {"poll", "signal", "grace"} /\ after \notin {"unwind", "return"}

InRunOnce == pc \in {"start", "try", "finally", "clean", "poll", "signal", "grace", "read"}

\* Outside run_once it ends the program.  A TemporaryDirectory that was made but not yet
\* cleaned up is removed when the interpreter exits; cleanup itself, once it has begun,
\* is not taken up again and leaves the rest of the directory behind.
Abandoned ==
    CASE pc = "build" -> {"none"}
      [] pc = "check" -> {"none", IF keep_logs THEN "kept" ELSE "removed"}
      [] OTHER -> IF out_dir = "temp" THEN {"removed", "left"} ELSE {out_dir}

Interrupt ==
    /\ interrupts < MaxInterrupts
    /\ \/ InTry /\ Goto("finally") /\ UNCHANGED out_dir
       \/ ~ InTry /\ InRunOnce /\ Goto("broken") /\ UNCHANGED out_dir
       \/ /\ pc \in {"build", "check", "cleanup", "raised", "broken"}
          /\ Goto("exit with error")
          /\ out_dir' \in Abandoned
    /\ interrupts' = interrupts + 1
    /\ UNCHANGED <<procs, client_procs, client, call>>

Ended == pc \in {"exit", "exit with error"}

\* Every step of the runner but the build.
Proceed ==
    \/ CheckBinaries \/ Cleanup
    \/ StartExchange \/ EnterTry \/ StartA \/ StartB \/ AssignClients \/ WaitClient \/ StopExchange
    \/ EnterFinally \/ Finally \/ ReadReports
    \/ Poll \/ SendSignal \/ Grace

RunnerNext == Build \/ Proceed \/ Interrupt \/ \E p \in Proc : Exit(p)

\* After the build the runner goes on: every wait for a process has a timeout.  run_cmd
\* waits for cargo without one, so nothing is assumed of the build; and nothing of the
\* processes, not even that SIGKILL ends them in time.
RunnerSpec == RunnerInit /\ [][RunnerNext]_runnerVars /\ WF_runnerVars(Proceed)

-----------------------------------------------------------------------------
(* Properties *)

Running == {p \in Proc : status[p] = "running"}

\* When the reports are read, every process that writes one has ended.  When run_once
\* raises with its finally block complete, no process still runs but the clients
\* started before client_procs was assigned, which only happens after both starts.
\* And a child outlives the runner in three cases only: somebody pressed Ctrl-C;
\* client b could not be started, and client a runs on; or a process was still there
\* after SIGKILL and its wait.
NoneLeftRunning ==
    /\ pc \in {"read", "cleanup"} => Running = {}
    /\ pc = "raised" => /\ "exchange" \notin Running
                        /\ client_procs # << >> => Running = {}
    /\ Ended => \/ Running = {}
                \/ Running = {"a"} /\ status["b"] = "none"
                \/ interrupts > 0
                \/ \E p \in Proc : "SIGKILL" \in received[p]

\* The runner signals in order.  No process that was waited for is signalled, whose
\* number may belong to another one by then; none gets SIGKILL before the gentler
\* signals; and the exchange, whose report covers all orders, gets none while a
\* client that the runner waits for still runs.  A signal is sent when tries grows.
SignalDiscipline ==
    [][tries' > tries =>
            /\ status[proc] \in {"running", "zombie"}
            /\ "SIGKILL" \in received'[proc] => {"SIGINT", "SIGTERM"} \subseteq received[proc]
            /\ proc = "exchange" =>
                    \A c \in 1 .. Len(client_procs) : status[client_procs[c]] # "running"]_runnerVars

\* Once the build is over the runner ends, however the processes behave and whenever it
\* is interrupted, and has removed its temporary directory or was interrupted doing so.
RunnerEnds == (pc # "build") ~> (Ended /\ out_dir # "temp")
=============================================================================
