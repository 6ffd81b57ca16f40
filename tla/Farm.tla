--------------------------------- MODULE Farm ---------------------------------
(***************************************************************************)
(* farm.cc: a manager hands numbers to self-halting workers (factor.py).   *)
(* A worker stops itself when it wants a number; the manager learns of it  *)
(* through SIGCHLD, writes a number into the worker's pipe and continues   *)
(* it.  The signal handler interrupts the manager between any two machine  *)
(* instructions while SIGCHLD is not blocked, so the manager's steps are   *)
(* those the -O0 build of the Makefile makes: workers[i] = worker(...)     *)
(* is two stores (pid first, available last), numWorkersAvailable-- is a   *)
(* load and a store.  The kernel's part (signals, pipes, waitpid) and      *)
(* factor.py are modelled from how farm.cc uses them.                      *)
(***************************************************************************)
EXTENDS Integers, Sequences, FiniteSets

CONSTANTS NumCPUs,   \* kNumCPUs
          MaxLines   \* bound: lines of input

ASSUME NumCPUsAssumption == NumCPUs \in Nat \ {0}
ASSUME MaxLinesAssumption == MaxLines \in Nat

\* The three unprotected instruction pairs, by the second instruction: between
\* fork and the store of the pid, between the two stores of the table entry,
\* between the load and the store of the count.
Windows == {"pid", "available", "store"}

Workers == 0 .. NumCPUs - 1
TheManager == NumCPUs

VARIABLES
    available,            \* workers[i].available
    known,                \* workers[i].pid has been stored
    numWorkersAvailable,
    mpc, i, tmp,          \* manager: next step, worker it deals with, register
    blocked,              \* is SIGCHLD blocked
    pending,              \* is a SIGCHLD pending
    line,                 \* numbers read so far; the last one is being handled
    wpc,                  \* wpc[w]: what worker process w does
    report,               \* report[w]: w has stopped and waitpid has not said so
    pipe,                 \* pipe[w]: numbers written and not yet read by w
    writers,              \* writers[w]: processes that hold pipe w's write end
    factored,             \* numbers factored, in completion order
    raced                 \* history: the windows SIGCHLD has been handled in

managerVars == <<mpc, i, tmp, line>>
tableVars == <<available, known, numWorkersAvailable>>
signalVars == <<blocked, pending>>
workerVars == <<wpc, report, pipe, writers, factored>>
vars == <<managerVars, tableVars, signalVars, workerVars, raced>>

\* Manager steps.  In "suspend1" and "suspendAll" it sleeps in sigsuspend.
ManagerPC == {"fork", "pid", "available", "getline", "block1", "test1",
              "sigsuspend1", "suspend1", "unblock1", "scan", "claim", "load", "store", "write",
              "cont", "blockAll", "testAll", "sigsuspendAll", "suspendAll", "unblockAll",
              "default", "close", "contLast", "waitpid", "ended", "threw",
              "assertFailed"}
WorkerPC == {"unborn", "running", "stopped", "reading", "exited"}

TypeOK ==
    /\ available \in [Workers -> BOOLEAN]
    /\ known \in [Workers -> BOOLEAN]
    /\ numWorkersAvailable \in Nat
    /\ mpc \in ManagerPC
    /\ i \in 0 .. NumCPUs
    /\ tmp \in Nat
    /\ blocked \in BOOLEAN
    /\ pending \in BOOLEAN
    /\ line \in 0 .. MaxLines
    /\ wpc \in [Workers -> WorkerPC]
    /\ report \in [Workers -> BOOLEAN]
    /\ pipe \in [Workers -> Seq(1 .. MaxLines)]
    /\ writers \in [Workers -> SUBSET (0 .. NumCPUs)]
    /\ factored \in Seq(1 .. MaxLines)
    /\ raced \subseteq Windows

\* main() has installed the handler; nothing has been forked.
Init ==
    /\ available = [w \in Workers |-> FALSE]
    /\ known = [w \in Workers |-> FALSE]
    /\ numWorkersAvailable = 0
    /\ mpc = "fork" /\ i = 0 /\ tmp = 0 /\ line = 0
    /\ blocked = FALSE /\ pending = FALSE
    /\ wpc = [w \in Workers |-> "unborn"]
    /\ report = [w \in Workers |-> FALSE]
    /\ pipe = [w \in Workers |-> <<>>]
    /\ writers = [w \in Workers |-> {}]
    /\ factored = <<>>
    /\ raced = {}

-------------------------------------------------------------------------------
(* The SIGCHLD handler                                                     *)

\* The loop of waitpid collects every stop not yet reported.  A stop of a worker
\* whose pid is not in the table yet is taken from the kernel and matches nothing.
Collected == {w \in Workers : report[w] /\ known[w] /\ ~available[w]}

\* The manager can be interrupted here.  sigsuspend unblocks SIGCHLD; between
\* "default" and the end the handler is no longer installed.
Interruptible ==
    /\ mpc \notin {"close", "contLast", "waitpid", "ended", "threw", "assertFailed"}
    /\ ~blocked \/ mpc \in {"suspend1", "suspendAll"}

\* Mutant: one waitpid per signal, although stops coalesce.
markOneWorkerAsAvailable ==
    /\ pending
    /\ Interruptible
    /\ pending' = FALSE
    /\ \E w \in Workers :
          /\ report[w]
          /\ report' = [report EXCEPT ![w] = FALSE]
          /\ available' = [available EXCEPT ![w] = TRUE]
          /\ numWorkersAvailable' = numWorkersAvailable + 1
    /\ mpc' = CASE mpc = "suspend1" -> "test1"
                [] mpc = "suspendAll" -> "testAll"
                [] OTHER -> mpc
    /\ raced' = raced \cup ({mpc} \cap Windows)
    /\ UNCHANGED <<i, tmp, line, known, blocked, wpc, pipe, writers, factored>>

markWorkersAsAvailable ==
    /\ pending
    /\ Interruptible
    /\ pending' = FALSE
    /\ report' = [w \in Workers |-> FALSE]
    /\ available' = [w \in Workers |-> available[w] \/ w \in Collected]
    /\ numWorkersAvailable' = numWorkersAvailable + Cardinality(Collected)
    /\ mpc' = CASE mpc = "suspend1" -> "test1"
                [] mpc = "suspendAll" -> "testAll"
                [] OTHER -> mpc
    /\ raced' = raced \cup ({mpc} \cap Windows)
    /\ UNCHANGED <<i, tmp, line, known, blocked, wpc, pipe, writers, factored>>

-------------------------------------------------------------------------------
(* The manager                                                             *)

Goto(from, to) == mpc = from /\ mpc' = to

\* The loops over the workers; the next loop begins with the first one again.
NextWorker == IF i + 1 < NumCPUs THEN i + 1 ELSE 0

\* The child closes its own write end but keeps the earlier workers' (no
\* close-on-exec), which it got from the manager.
SpawnFork ==
    /\ Goto("fork", "pid")
    /\ wpc' = [wpc EXCEPT ![i] = "running"]
    /\ writers' = [w \in Workers |->
                     CASE w = i -> {TheManager}
                       [] w < i -> writers[w] \cup {i}
                       [] OTHER -> writers[w]]
    /\ UNCHANGED <<i, tmp, line, tableVars, signalVars, report, pipe, factored, raced>>

SpawnStorePid ==
    /\ Goto("pid", "available")
    /\ known' = [known EXCEPT ![i] = TRUE]
    /\ UNCHANGED <<i, tmp, line, available, numWorkersAvailable, signalVars,
                   workerVars, raced>>

SpawnStoreAvailable ==
    /\ Goto("available", IF i + 1 < NumCPUs THEN "fork" ELSE "getline")
    /\ available' = [available EXCEPT ![i] = FALSE]
    /\ i' = NextWorker
    /\ UNCHANGED <<tmp, line, known, numWorkersAvailable, signalVars, workerVars, raced>>

\* Mutant: a line may be read and dropped.
ReadNumberDrops ==
    /\ Goto("getline", "block1") \/ Goto("getline", "getline")
    /\ line < MaxLines
    /\ line' = line + 1
    /\ UNCHANGED <<i, tmp, tableVars, signalVars, workerVars, raced>>

\* getline and stoll: a number, a number with something after it or the end of
\* the input, or a line stoll throws at, which nobody catches.
ReadNumber ==
    /\ Goto("getline", "block1")
    /\ line < MaxLines
    /\ line' = line + 1
    /\ UNCHANGED <<i, tmp, tableVars, signalVars, workerVars, raced>>

ReadEnd ==
    /\ Goto("getline", "blockAll")
    /\ UNCHANGED <<i, tmp, line, tableVars, signalVars, workerVars, raced>>

ReadThrows ==
    /\ Goto("getline", "threw")
    /\ line < MaxLines
    /\ UNCHANGED <<i, tmp, line, tableVars, signalVars, workerVars, raced>>

\* Mutant: SIGCHLD may come between the test and sigsuspend.
BlockNothing ==
    /\ Goto("block1", "test1") \/ Goto("blockAll", "testAll")
    /\ UNCHANGED <<i, tmp, line, tableVars, signalVars, workerVars, raced>>

Block ==
    /\ Goto("block1", "test1") \/ Goto("blockAll", "testAll")
    /\ blocked' = TRUE
    /\ UNCHANGED <<i, tmp, line, tableVars, pending, workerVars, raced>>

\* Mutant: getAvailableWorker does not wait for a worker.
TestDoesNotWait ==
    /\ \/ Goto("test1", "unblock1")
       \/ Goto("testAll", IF numWorkersAvailable < NumCPUs THEN "sigsuspendAll"
                                                           ELSE "unblockAll")
    /\ UNCHANGED <<i, tmp, line, tableVars, signalVars, workerVars, raced>>

\* The loops around sigsuspend, in getAvailableWorker and waitForAllWorkers.
Test ==
    /\ \/ Goto("test1", IF numWorkersAvailable = 0 THEN "sigsuspend1"
                                                   ELSE "unblock1")
       \/ Goto("testAll", IF numWorkersAvailable < NumCPUs THEN "sigsuspendAll"
                                                           ELSE "unblockAll")
    /\ UNCHANGED <<i, tmp, line, tableVars, signalVars, workerVars, raced>>

\* sigsuspend unblocks SIGCHLD and sleeps in one step; see Interruptible.
Suspend ==
    /\ Goto("sigsuspend1", "suspend1") \/ Goto("sigsuspendAll", "suspendAll")
    /\ UNCHANGED <<i, tmp, line, tableVars, signalVars, workerVars, raced>>

Unblock ==
    /\ Goto("unblock1", "scan") \/ Goto("unblockAll", "default")
    /\ blocked' = FALSE
    /\ UNCHANGED <<i, tmp, line, tableVars, pending, workerVars, raced>>

\* The two assertions and the scan between them: the first available worker.
Scan ==
    /\ \/ \E w \in Workers :
            /\ numWorkersAvailable > 0
            /\ Goto("scan", "claim")
            /\ available[w] /\ \A v \in Workers : available[v] => w =< v
            /\ i' = w
       \/ /\ numWorkersAvailable = 0 \/ \A w \in Workers : ~available[w]
          /\ Goto("scan", "assertFailed")
          /\ UNCHANGED i
    /\ UNCHANGED <<tmp, line, tableVars, signalVars, workerVars, raced>>

Claim ==
    /\ Goto("claim", "load")
    /\ available' = [available EXCEPT ![i] = FALSE]
    /\ UNCHANGED <<i, tmp, line, known, numWorkersAvailable, signalVars, workerVars, raced>>

DecrementLoad ==
    /\ Goto("load", "store")
    /\ tmp' = numWorkersAvailable
    /\ UNCHANGED <<i, line, tableVars, signalVars, workerVars, raced>>

\* Mutant: the new count is not stored.
DecrementStoreForgotten ==
    /\ Goto("store", "write")
    /\ tmp' = 0
    /\ UNCHANGED <<i, line, tableVars, signalVars, workerVars, raced>>

DecrementStore ==
    /\ Goto("store", "write")
    /\ numWorkersAvailable' = tmp - 1
    /\ tmp' = 0
    /\ UNCHANGED <<i, line, available, known, signalVars, workerVars, raced>>

Write ==
    /\ Goto("write", "cont")
    /\ pipe' = [pipe EXCEPT ![i] = Append(@, line)]
    /\ UNCHANGED <<i, tmp, line, tableVars, signalVars, wpc, report, writers,
                   factored, raced>>

\* SIGCONT: a stopped worker goes on, and its parent is told with a SIGCHLD.
Continue(w) ==
    IF wpc[w] = "stopped"
    THEN /\ wpc' = [wpc EXCEPT ![w] = "reading"]
         /\ report' = [report EXCEPT ![w] = FALSE]
         /\ pending' = (mpc = "cont")
    ELSE UNCHANGED <<wpc, report, pending>>

ContinueOne ==
    /\ Goto("cont", "getline")
    /\ Continue(i)
    /\ i' = 0
    /\ UNCHANGED <<tmp, line, tableVars, blocked, pipe, writers, factored, raced>>

RestoreDefault ==
    /\ Goto("default", "close")
    /\ pending' = FALSE
    /\ i' = 0
    /\ UNCHANGED <<tmp, line, tableVars, blocked, workerVars, raced>>

Close ==
    /\ Goto("close", "contLast")
    /\ writers' = [writers EXCEPT ![i] = @ \ {TheManager}]
    /\ UNCHANGED <<i, tmp, line, tableVars, signalVars, wpc, report, pipe, factored, raced>>

ContinueLast ==
    /\ Goto("contLast", IF i + 1 < NumCPUs THEN "close" ELSE "waitpid")
    /\ Continue(i)
    /\ i' = NextWorker
    /\ UNCHANGED <<tmp, line, tableVars, blocked, pipe, writers, factored, raced>>

Reap ==
    /\ Goto("waitpid", IF i + 1 < NumCPUs THEN "waitpid" ELSE "ended")
    /\ wpc[i] = "exited"
    /\ i' = i + 1
    /\ UNCHANGED <<tmp, line, tableVars, signalVars, workerVars, raced>>

-------------------------------------------------------------------------------
(* A worker: stop, read a line, factor it, stop again; exit at end of file *)

Stop(w) ==
    /\ wpc[w] = "running"
    /\ wpc' = [wpc EXCEPT ![w] = "stopped"]
    /\ report' = [report EXCEPT ![w] = TRUE]
    /\ pending' = (pending \/ mpc \notin {"close", "contLast", "waitpid", "ended"})
    /\ UNCHANGED <<managerVars, tableVars, blocked, pipe, writers, factored, raced>>

ReadAndFactor(w) ==
    /\ wpc[w] = "reading"
    /\ pipe[w] # <<>>
    /\ wpc' = [wpc EXCEPT ![w] = "running"]
    /\ factored' = Append(factored, Head(pipe[w]))
    /\ pipe' = [pipe EXCEPT ![w] = Tail(@)]
    /\ UNCHANGED <<managerVars, tableVars, signalVars, report, writers, raced>>

\* End of file: the pipe is empty and nobody holds its write end any more.
\* Exiting closes the write ends the worker inherited.
Exit(w) ==
    /\ wpc[w] = "reading"
    /\ pipe[w] = <<>>
    /\ writers[w] = {}
    /\ wpc' = [wpc EXCEPT ![w] = "exited"]
    /\ writers' = [v \in Workers |-> writers[v] \ {w}]
    /\ UNCHANGED <<managerVars, tableVars, signalVars, report, pipe, factored, raced>>

-------------------------------------------------------------------------------
Manager ==
    \/ SpawnFork \/ SpawnStorePid \/ SpawnStoreAvailable
    \/ ReadNumber \/ ReadEnd \/ ReadThrows
    \/ Block \/ Test \/ Suspend \/ Unblock
    \/ Scan \/ Claim \/ DecrementLoad \/ DecrementStore \/ Write \/ ContinueOne
    \/ RestoreDefault \/ Close \/ ContinueLast \/ Reap

Worker(w) == Stop(w) \/ ReadAndFactor(w) \/ Exit(w)

\* The manager is gone: what is left of the workers is no deadlock of the farm.
Over == mpc \in {"ended", "threw", "assertFailed"} /\ UNCHANGED vars

Next ==
    \/ markWorkersAsAvailable
    \/ Manager
    \/ \E w \in Workers : Worker(w)
    \/ Over

Spec == Init /\ [][Next]_vars

\* Pending unblocked signals are delivered, processes run, numbers are factored
\* in finite time.
FairSpec ==
    /\ Spec
    /\ WF_vars(markWorkersAsAvailable)
    /\ WF_vars(Manager)
    /\ \A w \in Workers : WF_vars(Worker(w))

-------------------------------------------------------------------------------
(* Properties                                                              *)

\* When the farm ends normally each number read was factored exactly once.
EachNumberFactoredOnce ==
    mpc = "ended" =>
        /\ Len(factored) = line
        /\ {factored[k] : k \in DOMAIN factored} = 1 .. line

\* numWorkersAvailable is the number of workers marked available, up to the one
\* being taken (lines 111 and 112), unless a SIGCHLD was handled between the
\* stores of a table entry or inside the decrement.
CountIsExact ==
    /\ TypeOK
    /\ raced \subseteq {"pid"} =>
          numWorkersAvailable = Cardinality({w \in Workers : available[w]})
                                + (IF mpc \in {"load", "store"} THEN 1 ELSE 0)

\* The manager sleeps in getAvailableWorker with no SIGCHLD to come only while
\* no worker is stopped: "sigsuspend is used to block race-free until a worker
\* is available" (README.md of multiprocessing/).
SleepsOnlyIfNoneIdle ==
    mpc = "suspend1" /\ ~pending => \A w \in Workers : wpc[w] # "stopped"

\* The same of both loops around sigsuspend, in a farm that has met none of the
\* three races: the signal mask closes every other gap.
NoOtherLostWakeup ==
    raced = {} /\ mpc \in {"suspend1", "suspendAll"} /\ ~pending =>
        /\ \A w \in Workers : wpc[w] = "stopped" => available[w]
        /\ \E w \in Workers : wpc[w] # "stopped"
        /\ SleepsOnlyIfNoneIdle

\* The assertions of getAvailableWorker (lines 95 and 98) hold unless a SIGCHLD
\* was handled between the stores of a table entry.
AssertionsHold == "available" \notin raced => mpc # "assertFailed"

\* The farm comes to an end whatever it reads, if SIGCHLD never falls into one of
\* the windows: no number is left waiting for a worker, and end of file reaches
\* every worker although later workers hold the write ends of the earlier ones'
\* pipes.
FarmEnds == <>(mpc \in {"ended", "threw"} \/ raced # {})
===============================================================================
