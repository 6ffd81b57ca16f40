--------------------------- MODULE AtomicSemaphore ----------------------------
(***************************************************************************)
(* The counting semaphore that semaphore.h stands in for: P takes a permit *)
(* when there is one, V adds one, each in a single step.                   *)
(***************************************************************************)
EXTENDS Naturals

CONSTANTS Threads,       \* the threads that use the semaphore
          InitialValue   \* the constructor's argument

VARIABLES value,         \* permits left
          waiting        \* threads that have called wait() and not taken one

vars == <<value, waiting>>

Init == value = InitialValue /\ waiting = {}

Call(t) ==
    /\ t \notin waiting
    /\ waiting' = waiting \cup {t}
    /\ UNCHANGED value

P(t) ==
    /\ t \in waiting
    /\ value > 0
    /\ value' = value - 1
    /\ waiting' = waiting \ {t}

V ==
    /\ value' = value + 1
    /\ UNCHANGED waiting

Next == V \/ \E t \in Threads : Call(t) \/ P(t)

Spec == Init /\ [][Next]_vars
===============================================================================
