------------------------------ MODULE Semaphore -------------------------------
(***************************************************************************)
(* semaphore.h: a counting semaphore built on a mutex m and a condition    *)
(* variable cv.  A thread that finds value = 0 parks on cv and releases m  *)
(* in one step; once notified, or woken for no reason, it has to get m     *)
(* back before it tests value again, and another thread may have taken the *)
(* permit meanwhile.                                                       *)
(***************************************************************************)
EXTENDS Integers, FiniteSets

CONSTANTS Threads,       \* the threads that use the semaphore
          InitialValue,  \* the constructor's argument
          MaxValue,      \* bound: no signal() is started at this many permits
          None           \* m is free

ASSUME ThreadsAssumption == IsFiniteSet(Threads) /\ None \notin Threads
ASSUME ValueAssumption == InitialValue \in Nat /\ MaxValue \in Nat

VARIABLES value,         \* permits left
          m,             \* the thread that holds the mutex, or None
          pc             \* pc[t]: the next step of thread t

vars == <<value, m, pc>>

\* "parked" is inside cv.wait with m released, "relock" is woken and after m again.
PC == {"idle", "lock", "test", "parked", "relock", "signal.lock", "increment",
       "notify", "unlock"}

Parked == {t \in Threads : pc[t] = "parked"}

TypeOK ==
    /\ value \in Nat
    /\ m \in Threads \cup {None}
    /\ pc \in [Threads -> PC]

Init ==
    /\ value = InitialValue
    /\ m = None
    /\ pc = [t \in Threads |-> "idle"]

Acquire(t, from, to) ==
    /\ pc[t] = from
    /\ m = None
    /\ m' = t
    /\ pc' = [pc EXCEPT ![t] = to]
    /\ UNCHANGED value

-------------------------------------------------------------------------------
(* wait()                                                                  *)

WaitCall(t) ==
    /\ pc[t] = "idle"
    /\ pc' = [pc EXCEPT ![t] = "lock"]
    /\ UNCHANGED <<value, m>>

WaitLock(t) == Acquire(t, "lock", "test")

\* Mutant: value is not tested again after a wakeup.
WaitTakeUntested(t) ==
    /\ pc[t] = "test"
    /\ value' = value - 1
    /\ pc' = [pc EXCEPT ![t] = "unlock"]
    /\ UNCHANGED m

WaitTake(t) ==
    /\ pc[t] = "test"
    /\ value > 0
    /\ value' = value - 1
    /\ pc' = [pc EXCEPT ![t] = "unlock"]
    /\ UNCHANGED m

WaitPark(t) ==
    /\ pc[t] = "test"
    /\ ~(value > 0)
    /\ pc' = [pc EXCEPT ![t] = "parked"]
    /\ m' = None
    /\ UNCHANGED value

SpuriousWakeup(t) ==
    /\ pc[t] = "parked"
    /\ pc' = [pc EXCEPT ![t] = "relock"]
    /\ UNCHANGED <<value, m>>

WaitRelock(t) == Acquire(t, "relock", "test")

-------------------------------------------------------------------------------
(* signal(): notify_one wakes any one parked thread, or nobody             *)

SignalCall(t) ==
    /\ pc[t] = "idle"
    /\ value < MaxValue
    /\ pc' = [pc EXCEPT ![t] = "signal.lock"]
    /\ UNCHANGED <<value, m>>

SignalLock(t) == Acquire(t, "signal.lock", "increment")

SignalIncrement(t) ==
    /\ pc[t] = "increment"
    /\ value' = value + 1
    /\ pc' = [pc EXCEPT ![t] = "notify"]
    /\ UNCHANGED m

\* Mutant: the notification is missing.
SignalNotifyNobody(t) ==
    /\ pc[t] = "notify"
    /\ pc' = [pc EXCEPT ![t] = "unlock"]
    /\ UNCHANGED <<value, m>>

SignalNotify(t) ==
    /\ pc[t] = "notify"
    /\ \/ /\ Parked = {}
          /\ pc' = [pc EXCEPT ![t] = "unlock"]
       \/ \E u \in Parked : pc' = [pc EXCEPT ![t] = "unlock", ![u] = "relock"]
    /\ UNCHANGED <<value, m>>

\* The lock_guard or unique_lock goes out of scope.
Unlock(t) ==
    /\ pc[t] = "unlock"
    /\ m' = None
    /\ pc' = [pc EXCEPT ![t] = "idle"]
    /\ UNCHANGED value

-------------------------------------------------------------------------------
\* What a thread does inside wait() and signal().
Step(t) ==
    \/ WaitLock(t)
    \/ WaitTake(t)
    \/ WaitPark(t)
    \/ WaitRelock(t)
    \/ SignalLock(t)
    \/ SignalIncrement(t)
    \/ SignalNotify(t)
    \/ Unlock(t)

\* Everyone may be parked: whether anybody signals is up to the callers.
Next == \E t \in Threads :
            Step(t) \/ WaitCall(t) \/ SignalCall(t) \/ SpuriousWakeup(t)

Spec == Init /\ [][Next]_vars

-------------------------------------------------------------------------------
\* Only the thread that holds m is inside a critical section of semaphore.h.
MutualExclusion ==
    \A t \in Threads :
        pc[t] \in {"test", "increment", "notify", "unlock"} <=> m = t

\* The threads that will test value before they can park again.
Takers == {t \in Threads : pc[t] \in {"lock", "test", "relock"}}

\* No wakeup is lost: while a thread is parked, every permit has a thread on its
\* way to take it, or is the one its signaller is just about to announce.
\* notify_one suffices although a newcomer may take the permit first.
NoLostWakeup ==
    Parked # {} =>
        value =< Cardinality(Takers)
                 + (IF \E t \in Threads : pc[t] = "notify" THEN 1 ELSE 0)

\* The mutex and condition variable implement the atomic semaphore.
AS == INSTANCE AtomicSemaphore WITH
        waiting <- {t \in Threads : pc[t] \in {"lock", "test", "parked", "relock"}}

Implements == AS!Spec
===============================================================================
