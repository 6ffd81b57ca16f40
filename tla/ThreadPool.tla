------------------------------ MODULE ThreadPool ------------------------------
(***************************************************************************)
(* thread-pool.{h,cc}: one dispatcher thread, N worker threads, any number *)
(* of client threads calling schedule() and wait(), and the owner, which   *)
(* runs the destructor once no client uses the pool any more.              *)
(*                                                                         *)
(* A step of a thread is one access to shared state: an operation on a     *)
(* semaphore (atomic by the refinement of module Semaphore), one critical  *)
(* section of queueLock, availLock or outstandingLock, one read of the     *)
(* atomic done, or the assignment of a worker's thunk slot, which no lock  *)
(* protects.                                                               *)
(***************************************************************************)
EXTENDS Integers, Sequences, FiniteSets

CONSTANTS N,        \* numThreads
          Tasks,    \* the thunks clients may schedule, each at most once
          Clients,  \* the threads that use the pool
          NoTask    \* an empty std::function

ASSUME NAssumption == N \in Nat \ {0}
ASSUME NoTaskAssumption == NoTask \notin Tasks
ASSUME FiniteAssumption == IsFiniteSet(Tasks) /\ IsFiniteSet(Clients)

Workers == 0 .. N - 1

VARIABLES
    tasks,             \* the queue of thunks not yet dispatched
    queued,            \* semaphore: counts entries in tasks
    availableWorkers,  \* semaphore: counts idle workers
    ready,             \* ready[w]: semaphore, signalled when w has a thunk
    available,         \* available[w]: may the dispatcher claim w
    thunk,             \* thunk[w]: the slot the dispatcher hands a thunk in
    outstanding,       \* scheduled but not yet completed
    done,              \* the shutdown flag
    dpc, id, hand,     \* dispatcher: next step, claimed worker, popped thunk
    wpc,               \* wpc[w]: next step of worker w
    cpc, arg,          \* cpc[c], arg[c]: next step of a client, its argument
    opc, next,         \* owner: next step of the destructor, loop index
    status             \* history: how far each thunk has come

queueVars == <<tasks, queued>>
idleVars == <<available, availableWorkers>>
slotVars == <<thunk, ready>>
poolVars == <<queueVars, idleVars, slotVars, outstanding, done>>
dispatcherVars == <<dpc, id, hand>>
clientVars == <<cpc, arg>>
ownerVars == <<opc, next>>
vars == <<poolVars, dispatcherVars, wpc, clientVars, ownerVars, status>>

-------------------------------------------------------------------------------
(* Program counters, named for the step the thread takes next.  "parked"   *)
(* is inside allDone.wait, until a notify_all.                             *)

DispatcherPC == {"queued.wait", "done?1", "availableWorkers.wait", "done?2",
                 "claim", "pop", "assign", "ready.signal", "exited"}
WorkerPC == {"ready.wait", "done?", "running", "setAvailable",
             "availableWorkers.signal", "decrement", "exited"}
ClientPC == {"idle", "push", "queued.signal", "wait", "parked", "gone"}
OwnerPC == {"alive", "wait", "parked", "setDone", "queued.signal",
            "availableWorkers.signal", "dt.join", "ready.signal", "ts.join",
            "destroyed"}

TypeOK ==
    /\ tasks \in Seq(Tasks)
    /\ queued \in Nat
    /\ availableWorkers \in Nat
    /\ ready \in [Workers -> Nat]
    /\ available \in [Workers -> BOOLEAN]
    /\ thunk \in [Workers -> Tasks \cup {NoTask}]
    /\ outstanding \in Nat
    /\ done \in BOOLEAN
    /\ dpc \in DispatcherPC
    /\ id \in Workers
    /\ hand \in Tasks \cup {NoTask}
    /\ wpc \in [Workers -> WorkerPC]
    /\ cpc \in [Clients -> ClientPC]
    /\ arg \in [Clients -> Tasks \cup {NoTask}]
    /\ opc \in OwnerPC
    /\ next \in 0 .. N
    /\ status \in [Tasks -> {"new", "pending", "running", "finished"}]

\* The constructor has returned: every worker is idle and was signalled once.
Init ==
    /\ tasks = <<>>
    /\ queued = 0
    /\ availableWorkers = N
    /\ ready = [w \in Workers |-> 0]
    /\ available = [w \in Workers |-> TRUE]
    /\ thunk = [w \in Workers |-> NoTask]
    /\ outstanding = 0
    /\ done = FALSE
    /\ dpc = "queued.wait"
    /\ id = 0
    /\ hand = NoTask
    /\ wpc = [w \in Workers |-> "ready.wait"]
    /\ cpc = [c \in Clients |-> "idle"]
    /\ arg = [c \in Clients |-> NoTask]
    /\ opc = "alive"
    /\ next = 0
    /\ status = [t \in Tasks |-> "new"]

-------------------------------------------------------------------------------
(* schedule(thunk), three critical sections                                *)

ClientAt(c, from, to) ==
    /\ cpc[c] = from
    /\ cpc' = [cpc EXCEPT ![c] = to]

\* Mutant: schedule() does not count the thunk.
ScheduleUncounted(c, t) ==
    /\ ClientAt(c, "idle", "push")
    /\ status[t] = "new"
    /\ arg' = [arg EXCEPT ![c] = t]
    /\ status' = [status EXCEPT ![t] = "pending"]
    /\ UNCHANGED <<poolVars, dispatcherVars, wpc, ownerVars>>

ScheduleCount(c, t) ==
    /\ ClientAt(c, "idle", "push")
    /\ status[t] = "new"
    /\ outstanding' = outstanding + 1
    /\ arg' = [arg EXCEPT ![c] = t]
    /\ status' = [status EXCEPT ![t] = "pending"]
    /\ UNCHANGED <<queueVars, idleVars, slotVars, done, dispatcherVars, wpc,
                   ownerVars>>

SchedulePush(c) ==
    /\ ClientAt(c, "push", "queued.signal")
    /\ tasks' = Append(tasks, arg[c])
    /\ arg' = [arg EXCEPT ![c] = NoTask]
    /\ UNCHANGED <<queued, idleVars, slotVars, outstanding, done,
                   dispatcherVars, wpc, ownerVars, status>>

ScheduleSignal(c) ==
    /\ ClientAt(c, "queued.signal", "idle")
    /\ queued' = queued + 1
    /\ UNCHANGED <<tasks, idleVars, slotVars, outstanding, done,
                   dispatcherVars, wpc, arg, ownerVars, status>>

-------------------------------------------------------------------------------
(* wait(): the predicate is tested with outstandingLock held; a thread     *)
(* that finds it false parks and releases the lock in one step             *)

WaitCall(c) ==
    /\ ClientAt(c, "idle", "wait")
    /\ UNCHANGED <<poolVars, dispatcherVars, wpc, arg, ownerVars, status>>

WaitTest(c) ==
    /\ ClientAt(c, "wait", IF outstanding = 0 THEN "idle" ELSE "parked")
    /\ UNCHANGED <<poolVars, dispatcherVars, wpc, arg, ownerVars, status>>

\* A condition variable may wake a thread that nobody notified.
SpuriousWakeup(c) ==
    /\ ClientAt(c, "parked", "wait")
    /\ UNCHANGED <<poolVars, dispatcherVars, wpc, arg, ownerVars, status>>

\* The client will not use the pool again.
Leave(c) ==
    /\ ClientAt(c, "idle", "gone")
    /\ UNCHANGED <<poolVars, dispatcherVars, wpc, arg, ownerVars, status>>

-------------------------------------------------------------------------------
(* dispatcher()                                                            *)

DispatcherAt(from, to) ==
    /\ dpc = from
    /\ dpc' = to

DispatchWaitQueued ==
    /\ DispatcherAt("queued.wait", "done?1")
    /\ queued > 0
    /\ queued' = queued - 1
    /\ UNCHANGED <<tasks, idleVars, slotVars, outstanding, done, id, hand, wpc,
                   clientVars, ownerVars, status>>

DispatchCheckQueued ==
    /\ DispatcherAt("done?1", IF done THEN "exited"
                                      ELSE "availableWorkers.wait")
    /\ UNCHANGED <<poolVars, id, hand, wpc, clientVars, ownerVars, status>>

DispatchWaitAvailable ==
    /\ DispatcherAt("availableWorkers.wait", "done?2")
    /\ availableWorkers > 0
    /\ availableWorkers' = availableWorkers - 1
    /\ UNCHANGED <<queueVars, available, slotVars, outstanding, done, id, hand,
                   wpc, clientVars, ownerVars, status>>

DispatchCheckAvailable ==
    /\ DispatcherAt("done?2", IF done THEN "exited" ELSE "claim")
    /\ UNCHANGED <<poolVars, id, hand, wpc, clientVars, ownerVars, status>>

Idle == {w \in Workers : available[w]}

\* The scan stops at the first idle worker; id keeps its initial 0 if there is none.
ScanFinds(w) ==
    IF Idle = {} THEN w = 0
                 ELSE w \in Idle /\ \A v \in Idle : w =< v

DispatchClaim ==
    \E w \in Workers :
        /\ DispatcherAt("claim", "pop")
        /\ ScanFinds(w)
        /\ id' = w
        /\ available' = [available EXCEPT ![w] = FALSE]
        /\ UNCHANGED <<queueVars, availableWorkers, slotVars, outstanding, done,
                       hand, wpc, clientVars, ownerVars, status>>

\* Mutant: front() without pop().
DispatchPopKeepsFront ==
    /\ DispatcherAt("pop", "assign")
    /\ tasks # <<>>
    /\ hand' = Head(tasks)
    /\ UNCHANGED <<queueVars, idleVars, slotVars, outstanding, done, id, wpc,
                   clientVars, ownerVars, status>>

\* front() of an empty queue is undefined: ClaimIsBacked shows it never happens.
DispatchPop ==
    /\ DispatcherAt("pop", "assign")
    /\ tasks # <<>>
    /\ hand' = Head(tasks)
    /\ tasks' = Tail(tasks)
    /\ UNCHANGED <<queued, idleVars, slotVars, outstanding, done, id, wpc,
                   clientVars, ownerVars, status>>

DispatchAssign ==
    /\ DispatcherAt("assign", "ready.signal")
    /\ thunk' = [thunk EXCEPT ![id] = hand]
    /\ hand' = NoTask
    /\ UNCHANGED <<queueVars, idleVars, ready, outstanding, done, id, wpc,
                   clientVars, ownerVars, status>>

DispatchReady ==
    /\ DispatcherAt("ready.signal", "queued.wait")
    /\ ready' = [ready EXCEPT ![id] = @ + 1]
    /\ UNCHANGED <<queueVars, idleVars, thunk, outstanding, done, id, hand,
                   wpc, clientVars, ownerVars, status>>

-------------------------------------------------------------------------------
(* worker(id)                                                              *)

WorkerAt(w, from, to) ==
    /\ wpc[w] = from
    /\ wpc' = [wpc EXCEPT ![w] = to]

WorkWait(w) ==
    /\ WorkerAt(w, "ready.wait", "done?")
    /\ ready[w] > 0
    /\ ready' = [ready EXCEPT ![w] = @ - 1]
    /\ UNCHANGED <<queueVars, idleVars, thunk, outstanding, done,
                   dispatcherVars, clientVars, ownerVars, status>>

WorkExit(w) ==
    /\ WorkerAt(w, "done?", "exited")
    /\ done
    /\ UNCHANGED <<poolVars, dispatcherVars, clientVars, ownerVars, status>>

\* Mutant: the worker declares itself available before it runs its thunk.
WorkStartAvailable(w) ==
    /\ WorkerAt(w, "done?", "running")
    /\ ~done
    /\ status' = [status EXCEPT ![thunk[w]] = "running"]
    /\ available' = [available EXCEPT ![w] = TRUE]
    /\ UNCHANGED <<queueVars, availableWorkers, slotVars, outstanding, done,
                   dispatcherVars, clientVars, ownerVars>>

WorkStart(w) ==
    /\ WorkerAt(w, "done?", "running")
    /\ ~done
    /\ status' = [status EXCEPT ![thunk[w]] = "running"]
    /\ UNCHANGED <<poolVars, dispatcherVars, clientVars, ownerVars>>

\* The thunk returns; the slot keeps it until the next assignment.
WorkReturn(w) ==
    /\ WorkerAt(w, "running", "setAvailable")
    /\ status' = [status EXCEPT ![thunk[w]] = "finished"]
    /\ UNCHANGED <<poolVars, dispatcherVars, clientVars, ownerVars>>

\* Mutant: the worker signals that it is idle without being marked so.
WorkStaysUnavailable(w) ==
    /\ WorkerAt(w, "setAvailable", "availableWorkers.signal")
    /\ UNCHANGED <<poolVars, dispatcherVars, clientVars, ownerVars, status>>

WorkSetAvailable(w) ==
    /\ WorkerAt(w, "setAvailable", "availableWorkers.signal")
    /\ available' = [available EXCEPT ![w] = TRUE]
    /\ UNCHANGED <<queueVars, availableWorkers, slotVars, outstanding, done,
                   dispatcherVars, clientVars, ownerVars, status>>

WorkSignalAvailable(w) ==
    /\ WorkerAt(w, "availableWorkers.signal", "decrement")
    /\ availableWorkers' = availableWorkers + 1
    /\ UNCHANGED <<queueVars, available, slotVars, outstanding, done,
                   dispatcherVars, clientVars, ownerVars, status>>

\* Mutant: no notify_all.
WorkDecrementSilently(w) ==
    /\ WorkerAt(w, "decrement", "ready.wait")
    /\ outstanding' = outstanding - 1
    /\ UNCHANGED <<queueVars, idleVars, slotVars, done, dispatcherVars,
                   clientVars, ownerVars, status>>

\* The last one notifies every thread parked in wait(), the owner included.
WorkDecrement(w) ==
    /\ WorkerAt(w, "decrement", "ready.wait")
    /\ outstanding' = outstanding - 1
    /\ cpc' = [c \in Clients |->
                 IF outstanding' = 0 /\ cpc[c] = "parked" THEN "wait"
                                                          ELSE cpc[c]]
    /\ opc' = IF outstanding' = 0 /\ opc = "parked" THEN "wait" ELSE opc
    /\ UNCHANGED <<queueVars, idleVars, slotVars, done, dispatcherVars, arg,
                   next, status>>

-------------------------------------------------------------------------------
(* ~ThreadPool()                                                           *)

OwnerAt(from, to) ==
    /\ opc = from
    /\ opc' = to

DestroyCall ==
    /\ OwnerAt("alive", "wait")
    /\ \A c \in Clients : cpc[c] = "gone"
    /\ UNCHANGED <<poolVars, dispatcherVars, wpc, clientVars, next, status>>

DestroyTest ==
    /\ OwnerAt("wait", IF outstanding = 0 THEN "setDone" ELSE "parked")
    /\ UNCHANGED <<poolVars, dispatcherVars, wpc, clientVars, next, status>>

DestroySpuriousWakeup ==
    /\ OwnerAt("parked", "wait")
    /\ UNCHANGED <<poolVars, dispatcherVars, wpc, clientVars, next, status>>

DestroySetDone ==
    /\ OwnerAt("setDone", "queued.signal")
    /\ done' = TRUE
    /\ UNCHANGED <<queueVars, idleVars, slotVars, outstanding, dispatcherVars,
                   wpc, clientVars, next, status>>

\* Mutant: the destructor does not wake the dispatcher.
DestroySilently ==
    /\ OwnerAt("queued.signal", "availableWorkers.signal")
    /\ UNCHANGED <<poolVars, dispatcherVars, wpc, clientVars, next, status>>

DestroySignalQueued ==
    /\ OwnerAt("queued.signal", "availableWorkers.signal")
    /\ queued' = queued + 1
    /\ UNCHANGED <<tasks, idleVars, slotVars, outstanding, done,
                   dispatcherVars, wpc, clientVars, next, status>>

DestroySignalAvailable ==
    /\ OwnerAt("availableWorkers.signal", "dt.join")
    /\ availableWorkers' = availableWorkers + 1
    /\ UNCHANGED <<queueVars, available, slotVars, outstanding, done,
                   dispatcherVars, wpc, clientVars, next, status>>

DestroyJoinDispatcher ==
    /\ OwnerAt("dt.join", "ready.signal")
    /\ dpc = "exited"
    /\ UNCHANGED <<poolVars, dispatcherVars, wpc, clientVars, next, status>>

DestroySignalReady ==
    /\ next < N
    /\ OwnerAt("ready.signal", "ts.join")
    /\ ready' = [ready EXCEPT ![next] = @ + 1]
    /\ UNCHANGED <<queueVars, idleVars, thunk, outstanding, done,
                   dispatcherVars, wpc, clientVars, next, status>>

DestroyJoinWorker ==
    /\ OwnerAt("ts.join", "ready.signal")
    /\ wpc[next] = "exited"
    /\ next' = next + 1
    /\ UNCHANGED <<poolVars, dispatcherVars, wpc, clientVars, status>>

DestroyReturn ==
    /\ next = N
    /\ OwnerAt("ready.signal", "destroyed")
    /\ UNCHANGED <<poolVars, dispatcherVars, wpc, clientVars, next, status>>

-------------------------------------------------------------------------------
ClientStep(c) ==
    \/ \E t \in Tasks : ScheduleCount(c, t)
    \/ SchedulePush(c)
    \/ ScheduleSignal(c)
    \/ WaitCall(c)
    \/ WaitTest(c)
    \/ Leave(c)

Dispatcher ==
    \/ DispatchWaitQueued
    \/ DispatchCheckQueued
    \/ DispatchWaitAvailable
    \/ DispatchCheckAvailable
    \/ DispatchClaim
    \/ DispatchPop
    \/ DispatchAssign
    \/ DispatchReady

Worker(w) ==
    \/ WorkWait(w)
    \/ WorkExit(w)
    \/ WorkStart(w)
    \/ WorkReturn(w)
    \/ WorkSetAvailable(w)
    \/ WorkSignalAvailable(w)
    \/ WorkDecrement(w)

Owner ==
    \/ DestroyCall
    \/ DestroyTest
    \/ DestroySetDone
    \/ DestroySignalQueued
    \/ DestroySignalAvailable
    \/ DestroyJoinDispatcher
    \/ DestroySignalReady
    \/ DestroyJoinWorker
    \/ DestroyReturn

\* The destructor has returned: nothing more happens, and that is not a deadlock.
Destroyed == opc = "destroyed" /\ UNCHANGED vars

Next ==
    \/ \E c \in Clients : ClientStep(c) \/ SpuriousWakeup(c)
    \/ Dispatcher
    \/ \E w \in Workers : Worker(w)
    \/ Owner
    \/ DestroySpuriousWakeup
    \/ Destroyed

Spec == Init /\ [][Next]_vars

(***************************************************************************)
(* Every thread that can run does run, every thunk returns, and a client   *)
(* that is inside schedule() or wait() goes on.  What a client does while  *)
(* it is idle is its own affair: it need not ever leave.                   *)
(***************************************************************************)
Fairness ==
    /\ WF_vars(Dispatcher)
    /\ \A w \in Workers : WF_vars(Worker(w))
    /\ WF_vars(opc # "alive" /\ Owner)
    /\ \A c \in Clients : WF_vars(cpc[c] # "idle" /\ ClientStep(c))

FairSpec == Spec /\ Fairness

-------------------------------------------------------------------------------
(* Safety                                                                  *)

\* The semaphores never promise what is not there: when the dispatcher scans
\* for an idle worker it finds one (thread-pool.cc:52, where id would stay 0),
\* and when it takes front() of the queue the queue is not empty (line 60).
ClaimIsBacked ==
    /\ dpc = "claim" => Idle # {}
    /\ dpc = "pop" => tasks # <<>>

\* No lock protects worker_t::thunk.  From the claim to ready.signal() the
\* claimed worker neither reads its slot nor holds a thunk it has not yet run,
\* so the assignment (line 64) races with nothing and overwrites nothing.
SlotIsFree ==
    dpc \in {"pop", "assign", "ready.signal"} =>
        /\ wpc[id] \in {"ready.wait", "availableWorkers.signal", "decrement"}
        /\ ready[id] = 0

\* A thread parked in allDone.wait (line 91) has something to wait for: the
\* worker that takes outstanding to 0 leaves nobody behind.
ParkedOnlyWhileOutstanding ==
    (opc = "parked" \/ \E c \in Clients : cpc[c] = "parked") => outstanding > 0

\* Whenever nothing is outstanding the pool is as its constructor left it, each
\* semaphore at its initial count, whatever happened before: it can be reused
\* after wait() (tptest.cc, "reuse same pool").
Reusable ==
    outstanding = 0 /\ opc \in {"alive", "wait"} =>
        /\ tasks = <<>>
        /\ queued = 0
        /\ availableWorkers = N
        /\ Idle = Workers
        /\ \A w \in Workers : ready[w] = 0 /\ wpc[w] = "ready.wait"
        /\ dpc = "queued.wait"

\* When the destructor raises done no thunk is left behind, neither in the
\* queue nor with a thread, so no thread that sees done drops work (lines 45,
\* 47 and 72), and the dispatcher cannot be parked on availableWorkers.
ShutdownIsQuiet ==
    done =>
        /\ tasks = <<>>
        /\ \A t \in Tasks : status[t] \in {"new", "finished"}
        /\ dpc \in {"queued.wait", "done?1", "exited"}
        /\ \A w \in Workers : wpc[w] \in {"ready.wait", "done?", "exited"}

\* The pool implements TaskPool: every thunk runs exactly once and in one
\* worker, wait() returns only when all that was scheduled has finished, and so
\* does the destructor.
TP == INSTANCE TaskPool WITH
        slot <- [w \in Workers |-> IF wpc[w] = "running" THEN thunk[w]
                                                         ELSE NoTask],
        waiting <- {c \in Clients : cpc[c] \in {"wait", "parked"}},
        open <- opc # "destroyed"

Implements == TP!Spec

-------------------------------------------------------------------------------
(***************************************************************************)
(* The inductive invariant.  Until done is raised, three counts are kept   *)
(* in step with the sets they stand for, every worker is in exactly one of *)
(* four conditions, and every thunk is held in at most one place.          *)
(***************************************************************************)
Live == {t \in Tasks : status[t] \in {"pending", "running"}}
Settling == {w \in Workers : wpc[w] \in {"setAvailable",
                                        "availableWorkers.signal", "decrement"}}
Announcing == {w \in Workers : wpc[w] = "availableWorkers.signal"}
Signalling == {c \in Clients : cpc[c] = "queued.signal"}

\* The permits the dispatcher has taken and not yet turned into a thunk, a worker.
QueuedPermit ==
    IF dpc \in {"done?1", "availableWorkers.wait", "done?2", "claim", "pop"}
    THEN 1 ELSE 0
AvailablePermit == IF dpc \in {"done?2", "claim"} THEN 1 ELSE 0

CountInv == outstanding = Cardinality(Live) + Cardinality(Settling)
QueueInv == Len(tasks) = queued + QueuedPermit + Cardinality(Signalling)
IdleInv ==
    Cardinality(Idle) = availableWorkers + AvailablePermit + Cardinality(Announcing)

Claimed(w) == id = w /\ dpc \in {"pop", "assign", "ready.signal"}
Busy(w) == wpc[w] \in {"done?", "running", "setAvailable"}

WorkerInv(w) ==
    /\ wpc[w] # "exited"
    /\ ready[w] \in {0, 1}
    /\ available[w] => ~Claimed(w) /\ ready[w] = 0 /\ ~Busy(w)
    /\ Claimed(w) => ready[w] = 0 /\ ~Busy(w)
    /\ ready[w] = 1 => ~Busy(w)
    /\ available[w] \/ Claimed(w) \/ ready[w] = 1 \/ Busy(w)

\* Worker w's slot holds a thunk that has not returned yet.
Holds(w) ==
    \/ id = w /\ dpc = "ready.signal"
    \/ ready[w] = 1
    \/ wpc[w] \in {"done?", "running"}

PlaceInv ==
    /\ \A c \in Clients : cpc[c] = "push" =>
          /\ arg[c] \in Tasks
          /\ status[arg[c]] = "pending"
    /\ \A i \in DOMAIN tasks : status[tasks[i]] = "pending"
    /\ dpc = "assign" => hand \in Tasks /\ status[hand] = "pending"
    /\ \A w \in Workers : Holds(w) =>
          /\ thunk[w] \in Tasks
          /\ status[thunk[w]] = IF wpc[w] = "running" THEN "running" ELSE "pending"

UniqueInv ==
    /\ \A c \in Clients : cpc[c] = "push" =>
          /\ \A d \in Clients : cpc[d] = "push" /\ arg[d] = arg[c] => c = d
          /\ \A i \in DOMAIN tasks : tasks[i] # arg[c]
          /\ dpc = "assign" => hand # arg[c]
          /\ \A w \in Workers : Holds(w) => thunk[w] # arg[c]
    /\ \A i \in DOMAIN tasks :
          /\ \A j \in DOMAIN tasks : tasks[i] = tasks[j] => i = j
          /\ dpc = "assign" => hand # tasks[i]
          /\ \A w \in Workers : Holds(w) => thunk[w] # tasks[i]
    /\ \A w \in Workers : Holds(w) =>
          /\ dpc = "assign" => hand # thunk[w]
          /\ \A v \in Workers : Holds(v) /\ thunk[v] = thunk[w] => v = w

OwnerInv ==
    /\ opc # "alive" => \A c \in Clients : cpc[c] = "gone"
    /\ opc \in {"alive", "wait", "parked", "setDone"} <=> ~done
    /\ opc \in {"setDone"} \/ done => outstanding = 0
    /\ opc = "ts.join" => next < N
    /\ ~done => dpc # "exited"

IInv ==
    /\ TypeOK
    /\ OwnerInv
    /\ ParkedOnlyWhileOutstanding
    /\ ShutdownIsQuiet
    /\ ~done => /\ CountInv
                /\ QueueInv
                /\ IdleInv
                /\ \A w \in Workers : WorkerInv(w)
                /\ PlaceInv
                /\ UniqueInv

-------------------------------------------------------------------------------
(* Liveness, under FairSpec                                                *)

\* Every call of wait() returns (clients schedule finitely many thunks here).
WaitReturns ==
    \A c \in Clients : cpc[c] = "wait" ~> cpc[c] = "idle"

\* The destructor terminates: no join blocks for ever on a thread that missed
\* its shutdown signal.
DestructorReturns == opc = "wait" ~> opc = "destroyed"
===============================================================================
