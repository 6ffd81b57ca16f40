---------------------------- MODULE SemaphoreProofs ----------------------------
(***************************************************************************)
(* Proofs about module Semaphore, for every number of threads and permits. *)
(***************************************************************************)
EXTENDS Semaphore, FiniteSetTheorems, TLAPS

USE ThreadsAssumption, ValueAssumption
USE DEF vars, Acquire

Notifying == IF \E t \in Threads : pc[t] = "notify" THEN 1 ELSE 0

SInv == TypeOK /\ MutualExclusion /\ NoLostWakeup

\* The threads that will test value again can be counted.
LEMMA TakersFinite == IsFiniteSet(Takers) /\ Cardinality(Takers) \in Nat
<1>1. Takers \subseteq Threads
  BY DEF Takers
<1> QED BY <1>1, FS_Subset, FS_CardinalityType

\* Types and the discipline of the mutex.
LEMMA MutexStep ==
  ASSUME TypeOK, MutualExclusion, [Next]_vars
  PROVE  TypeOK' /\ MutualExclusion'
<1> USE DEF TypeOK, MutualExclusion
<1>1. ASSUME NEW t \in Threads, WaitLock(t) \/ WaitRelock(t) \/ SignalLock(t)
      PROVE  TypeOK' /\ MutualExclusion'
  BY <1>1 DEF WaitLock, WaitRelock, SignalLock, PC
<1>2. ASSUME NEW t \in Threads,
             WaitCall(t) \/ SpuriousWakeup(t) \/ SignalCall(t)
      PROVE  TypeOK' /\ MutualExclusion'
  BY <1>2 DEF WaitCall, SpuriousWakeup, SignalCall, PC
<1>3. ASSUME NEW t \in Threads, WaitTake(t) \/ SignalIncrement(t)
      PROVE  TypeOK' /\ MutualExclusion'
  BY <1>3 DEF WaitTake, SignalIncrement, PC
<1>4. ASSUME NEW t \in Threads, WaitPark(t) \/ Unlock(t)
      PROVE  TypeOK' /\ MutualExclusion'
  BY <1>4 DEF WaitPark, Unlock, PC
<1>5. ASSUME NEW t \in Threads, SignalNotify(t)
      PROVE  TypeOK' /\ MutualExclusion'
  <2>1. CASE pc' = [pc EXCEPT ![t] = "unlock"]
    BY <1>5, <2>1 DEF SignalNotify, PC
  <2>2. ASSUME NEW u \in Parked, pc' = [pc EXCEPT ![t] = "unlock", ![u] = "relock"]
        PROVE  TypeOK' /\ MutualExclusion'
    <3>1. u \in Threads /\ pc[u] = "parked" /\ u # t
      BY <1>5, <2>2 DEF Parked, SignalNotify
    <3> QED BY <1>5, <2>2, <3>1 DEF SignalNotify, PC
  <2> QED BY <1>5, <2>1, <2>2 DEF SignalNotify
<1>6. CASE UNCHANGED vars
  BY <1>6
<1> QED BY <1>1, <1>2, <1>3, <1>4, <1>5, <1>6 DEF Next, Step

\* Every step of wait() and signal() keeps a taker for every permit while a
\* thread is parked.
LEMMA WakeupStep ==
  ASSUME SInv, [Next]_vars
  PROVE  NoLostWakeup'
<1>0. TypeOK /\ MutualExclusion /\ NoLostWakeup
  BY DEF SInv
<1> USE TakersFinite
\* A step that parks nobody and takes no permit only has to keep the takers.
<1>1. ASSUME Parked' \subseteq Parked, value' =< value, value' \in Nat,
             Cardinality(Takers') >= Cardinality(Takers),
             Cardinality(Takers') \in Nat,
             Notifying' = Notifying
      PROVE  NoLostWakeup'
  BY <1>0, <1>1 DEF NoLostWakeup, Notifying, TypeOK
<1>2. ASSUME NEW t \in Threads,
             WaitLock(t) \/ WaitRelock(t) \/ SignalLock(t) \/ SignalCall(t) \/ Unlock(t)
      PROVE  NoLostWakeup'
  <2>1. Parked' = Parked /\ Takers' = Takers
    BY <1>0, <1>2 DEF WaitLock, WaitRelock, SignalLock, SignalCall, Unlock, Parked,
         Takers, TypeOK
  <2>2. Notifying' = Notifying
    BY <1>0, <1>2 DEF WaitLock, WaitRelock, SignalLock, SignalCall, Unlock,
         Notifying, TypeOK
  <2>3. value' = value
    BY <1>2 DEF WaitLock, WaitRelock, SignalLock, SignalCall, Unlock
  <2> QED BY <1>0, <2>1, <2>2, <2>3 DEF NoLostWakeup, Notifying
<1>3. ASSUME NEW t \in Threads, WaitCall(t) \/ SpuriousWakeup(t)
      PROVE  NoLostWakeup'
  <2>1. Parked' \subseteq Parked /\ Takers' = Takers \cup {t} /\ t \notin Takers
    BY <1>0, <1>3 DEF WaitCall, SpuriousWakeup, Parked, Takers, TypeOK
  <2>2. Cardinality(Takers') = Cardinality(Takers) + 1
    BY <2>1, FS_AddElement
  <2>3. Notifying' = Notifying
    BY <1>0, <1>3 DEF WaitCall, SpuriousWakeup, Notifying, TypeOK
  <2>4. value' = value /\ value \in Nat
    BY <1>0, <1>3 DEF WaitCall, SpuriousWakeup, TypeOK
  <2> QED BY <1>1, <2>1, <2>2, <2>3, <2>4
<1>4. ASSUME NEW t \in Threads, WaitTake(t) PROVE NoLostWakeup'
  <2>1. Parked' = Parked /\ Takers' = Takers \ {t} /\ t \in Takers
    BY <1>0, <1>4 DEF WaitTake, Parked, Takers, TypeOK
  <2>2. Cardinality(Takers') = Cardinality(Takers) - 1
    BY <2>1, FS_RemoveElement
  <2>3. Notifying' = Notifying
    BY <1>0, <1>4 DEF WaitTake, Notifying, TypeOK
  <2> QED BY <1>0, <1>4, <2>1, <2>2, <2>3 DEF NoLostWakeup, Notifying, WaitTake, TypeOK
<1>5. ASSUME NEW t \in Threads, WaitPark(t) PROVE NoLostWakeup'
  <2>1. value' = 0
    BY <1>0, <1>5 DEF WaitPark, TypeOK
  <2>2. Takers' \subseteq Takers
    BY <1>0, <1>5 DEF WaitPark, Takers, TypeOK
  <2>3. Cardinality(Takers') \in Nat
    BY <2>2, FS_Subset, FS_CardinalityType
  <2> QED BY <2>1, <2>3 DEF NoLostWakeup
<1>6. ASSUME NEW t \in Threads, SignalIncrement(t) PROVE NoLostWakeup'
  <2>1. Parked' = Parked /\ Takers' = Takers
    BY <1>0, <1>6 DEF SignalIncrement, Parked, Takers, TypeOK
  <2>2. Notifying = 0 /\ Notifying' = 1
    BY <1>0, <1>6 DEF SignalIncrement, MutualExclusion, Notifying, TypeOK
  <2> QED BY <1>0, <1>6, <2>1, <2>2
        DEF NoLostWakeup, Notifying, SignalIncrement, TypeOK
<1>7. ASSUME NEW t \in Threads, SignalNotify(t) PROVE NoLostWakeup'
  <2>1. CASE Parked = {} /\ pc' = [pc EXCEPT ![t] = "unlock"]
    <3>1. Parked' = {}
      BY <1>0, <2>1 DEF Parked, TypeOK
    <3> QED BY <3>1 DEF NoLostWakeup
  <2>2. ASSUME NEW u \in Parked, pc' = [pc EXCEPT ![t] = "unlock", ![u] = "relock"]
        PROVE  NoLostWakeup'
    <3>1. u \in Threads /\ pc[u] = "parked" /\ u # t /\ pc[t] = "notify"
      BY <1>7, <2>2 DEF Parked, SignalNotify
    <3>2. Takers' = Takers \cup {u} /\ u \notin Takers
      BY <1>0, <2>2, <3>1 DEF Takers, TypeOK
    <3>3. Cardinality(Takers') = Cardinality(Takers) + 1
      BY <3>2, FS_AddElement
    <3>4. value =< Cardinality(Takers) + 1
      BY <1>0, <3>1 DEF NoLostWakeup
    <3>5. Notifying' \in {0, 1}
      BY DEF Notifying
    <3>6. value' = value /\ value \in Nat
      BY <1>0, <1>7 DEF SignalNotify, TypeOK
    <3> QED BY <3>3, <3>4, <3>5, <3>6 DEF NoLostWakeup, Notifying
  <2> QED BY <1>7, <2>1, <2>2 DEF SignalNotify
<1>8. CASE UNCHANGED vars
  <2>1. Takers' = Takers /\ Parked' = Parked /\ Notifying' = Notifying
    BY <1>8 DEF Takers, Parked, Notifying
  <2> QED BY <1>0, <1>8, <2>1 DEF NoLostWakeup, Notifying
<1> QED BY <1>2, <1>3, <1>4, <1>5, <1>6, <1>7, <1>8 DEF Next, Step

\* Types, mutual exclusion and the absence of lost wakeups are invariant together.
LEMMA Invariance == Spec => []SInv
<1>1. Init => SInv
  BY DEF Init, SInv, TypeOK, PC, MutualExclusion, NoLostWakeup, Parked
<1>2. SInv /\ [Next]_vars => SInv'
  BY MutexStep, WakeupStep DEF SInv
<1> QED BY <1>1, <1>2, PTL DEF Spec

\* No permit is ever left without a thread on its way to it while another
\* thread sleeps on the condition variable of semaphore.h.
THEOREM WakeupsAreNotLost == Spec => []NoLostWakeup
<1>1. SInv => NoLostWakeup
  BY DEF SInv
<1> QED BY <1>1, Invariance, PTL

\* Only the holder of the mutex is inside a critical section.
THEOREM MutexHolds == Spec => []MutualExclusion
<1>1. SInv => MutualExclusion
  BY DEF SInv
<1> QED BY <1>1, Invariance, PTL

\* semaphore.h implements the atomic semaphore that ThreadPool is modelled with.
THEOREM Refinement == Spec => Implements
<1> DEFINE waitingBar == {t \in Threads : pc[t] \in {"lock", "test", "parked", "relock"}}
<1>1. Init => AS!Init
  BY DEF Init, AS!Init
<1>2. SInv /\ [Next]_vars => [AS!Next]_AS!vars
  <2> SUFFICES ASSUME SInv, [Next]_vars
               PROVE  AS!Next \/ (value' = value /\ waitingBar' = waitingBar)
    BY DEF AS!vars
  <2>0. TypeOK
    BY DEF SInv
  <2>1. ASSUME NEW t \in Threads, WaitCall(t) PROVE AS!Next
    <3>1. waitingBar' = waitingBar \cup {t} /\ t \notin waitingBar /\ value' = value
      BY <2>0, <2>1 DEF WaitCall, TypeOK
    <3>2. AS!Call(t)
      BY <3>1 DEF AS!Call
    <3> QED BY <3>2 DEF AS!Next
  <2>2. ASSUME NEW t \in Threads, WaitTake(t) PROVE AS!Next
    <3>1. waitingBar' = waitingBar \ {t} /\ t \in waitingBar
      BY <2>0, <2>2 DEF WaitTake, TypeOK
    <3>2. AS!P(t)
      BY <2>2, <3>1 DEF WaitTake, AS!P
    <3> QED BY <3>2 DEF AS!Next
  <2>3. ASSUME NEW t \in Threads, SignalIncrement(t) PROVE AS!Next
    <3>1. waitingBar' = waitingBar
      BY <2>0, <2>3 DEF SignalIncrement, TypeOK
    <3>2. AS!V
      BY <2>3, <3>1 DEF SignalIncrement, AS!V
    <3> QED BY <3>2 DEF AS!Next
  <2>4. ASSUME NEW t \in Threads,
               \/ WaitLock(t) \/ WaitRelock(t) \/ SignalLock(t) \/ SignalCall(t)
               \/ Unlock(t) \/ WaitPark(t) \/ SpuriousWakeup(t) \/ SignalNotify(t)
        PROVE  value' = value /\ waitingBar' = waitingBar
    BY <2>0, <2>4 DEF WaitLock, WaitRelock, SignalLock, SignalCall, Unlock, WaitPark,
         SpuriousWakeup, SignalNotify, Parked, TypeOK
  <2> QED BY <2>1, <2>2, <2>3, <2>4 DEF Next, Step
<1> QED BY <1>1, <1>2, Invariance, PTL DEF Spec, Implements, AS!Spec
===============================================================================
