------------------------------- MODULE TaskPool -------------------------------
(***************************************************************************)
(* What ThreadPool promises its callers (thread-pool.h, header comment and *)
(* README.md of thread-pool/): every scheduled thunk runs exactly once, at *)
(* most one thunk at a time in each of the pool's slots, wait() returns    *)
(* only when nothing that was scheduled is left, and the destructor drains *)
(* the pool before it returns.  There is no queue, no dispatcher, no       *)
(* semaphore and no counter here.                                          *)
(***************************************************************************)
CONSTANTS Tasks,    \* the thunks that may be scheduled
          Clients,  \* the threads that call schedule() and wait()
          Workers,  \* the slots thunks run in
          NoTask    \* what an idle slot holds

VARIABLES status,   \* status[t]: how far thunk t has come
          slot,     \* slot[w]: the thunk running in slot w, or NoTask
          waiting,  \* the clients inside wait()
          open      \* FALSE once the destructor has returned

vars == <<status, slot, waiting, open>>

Status == {"new", "pending", "running", "finished"}

TypeOK ==
    /\ status \in [Tasks -> Status]
    /\ slot \in [Workers -> Tasks \cup {NoTask}]
    /\ waiting \subseteq Clients
    /\ open \in BOOLEAN

\* Nothing that was scheduled is still to run or running.
Quiet == \A t \in Tasks : status[t] \notin {"pending", "running"}

Init ==
    /\ status = [t \in Tasks |-> "new"]
    /\ slot = [w \in Workers |-> NoTask]
    /\ waiting = {}
    /\ open = TRUE

Schedule(t) ==
    /\ open
    /\ status[t] = "new"
    /\ status' = [status EXCEPT ![t] = "pending"]
    /\ UNCHANGED <<slot, waiting, open>>

Start(w, t) ==
    /\ slot[w] = NoTask
    /\ status[t] = "pending"
    /\ status' = [status EXCEPT ![t] = "running"]
    /\ slot' = [slot EXCEPT ![w] = t]
    /\ UNCHANGED <<waiting, open>>

Finish(w) ==
    /\ slot[w] # NoTask
    /\ status' = [status EXCEPT ![slot[w]] = "finished"]
    /\ slot' = [slot EXCEPT ![w] = NoTask]
    /\ UNCHANGED <<waiting, open>>

CallWait(c) ==
    /\ open
    /\ waiting' = waiting \cup {c}
    /\ UNCHANGED <<status, slot, open>>

ReturnFromWait(c) ==
    /\ c \in waiting
    /\ Quiet
    /\ waiting' = waiting \ {c}
    /\ UNCHANGED <<status, slot, open>>

Close ==
    /\ open
    /\ Quiet
    /\ waiting = {}
    /\ open' = FALSE
    /\ UNCHANGED <<status, slot, waiting>>

Next ==
    \/ \E t \in Tasks : Schedule(t)
    \/ \E w \in Workers, t \in Tasks : Start(w, t)
    \/ \E w \in Workers : Finish(w)
    \/ \E c \in Clients : CallWait(c) \/ ReturnFromWait(c)
    \/ Close

Spec == Init /\ [][Next]_vars
===============================================================================
