------------------------------ MODULE FarmProofs ------------------------------
(***************************************************************************)
(* Proofs about module Farm, for every number of workers and of lines.     *)
(***************************************************************************)
EXTENDS Farm, FiniteSetTheorems, TLAPS

USE NumCPUsAssumption, MaxLinesAssumption
USE DEF managerVars, tableVars, signalVars, workerVars, vars

-------------------------------------------------------------------------------
(* The inductive invariant                                                 *)

Late == {"close", "contLast", "waitpid", "ended"}     \* the handler is not installed
Taking == {"load", "store", "write", "cont"}          \* worker i is no longer available
Masked == {"test1", "sigsuspend1", "suspend1", "unblock1",
           "testAll", "sigsuspendAll", "suspendAll", "unblockAll"}
Carrying == {"block1", "test1", "sigsuspend1", "suspend1", "unblock1", "scan", "claim",
             "load", "store", "write", "assertFailed"} \* a number is read and not written
Free == {w \in Workers : available[w]}

\* How far the loop that forks the workers has come.
ForkInv ==
  /\ mpc # "ended" => i \in Workers
  /\ \A w \in Workers :
       wpc[w] = "unborn" <=> \/ mpc = "fork" /\ w >= i
                             \/ mpc \in {"pid", "available"} /\ w > i
  /\ \A w \in Workers :
       known[w] <=> /\ mpc \in {"fork", "pid"} => w < i
                    /\ mpc = "available" => w =< i

\* What the table says of the workers is true, if not complete.
StopInv ==
  /\ \A w \in Workers : available[w] => known[w]
  /\ mpc = "available" /\ available[i] => "available" \in raced
  /\ mpc = "claim" => available[i]
  /\ mpc \in Taking => wpc[i] = "stopped" /\ ~available[i] /\ ~report[i]
  /\ mpc \notin Late => \A w \in Workers :
       /\ available[w] \/ report[w] => wpc[w] = "stopped"
       /\ ~(available[w] /\ report[w])
       /\ report[w] => pending

MaskInv == blocked <=> mpc \in Masked

\* The count is what the last test has seen of it, or more.
TestInv ==
  /\ mpc \in {"unblock1", "scan", "claim", "load"} => numWorkersAvailable > 0
  /\ mpc = "store" => tmp > 0 /\ tmp =< numWorkersAvailable
  /\ mpc \in {"sigsuspend1", "suspend1"} => numWorkersAvailable = 0
  /\ mpc \in {"sigsuspendAll", "suspendAll"} => numWorkersAvailable < NumCPUs
  /\ mpc \in Carrying => line > 0

\* A decrement that loses an increment leaves the count too low, never too high.
CountInv ==
  LET taken == IF mpc \in {"load", "store"} THEN 1 ELSE 0
  IN  /\ "available" \notin raced => numWorkersAvailable =< Cardinality(Free) + taken
      /\ raced \subseteq {"pid"} => numWorkersAvailable = Cardinality(Free) + taken
      /\ mpc = "store" /\ "store" \notin raced => tmp = numWorkersAvailable

\* No stop is forgotten.
WakeInv ==
  raced = {} /\ mpc \notin Late =>
    \A w \in Workers : wpc[w] = "stopped" =>
       available[w] \/ report[w] \/ (mpc \in Taking /\ w = i)

TableInv == TypeOK /\ ForkInv /\ StopInv /\ MaskInv /\ TestInv

\* The manager keeps its end of a pipe until it writes no more, and a worker that has
\* exited has read everything.
PipeInv ==
  /\ mpc \notin Late => \A w \in Workers : wpc[w] # "unborn" => TheManager \in writers[w]
  /\ \A w \in Workers : wpc[w] = "exited" => pipe[w] = <<>> /\ TheManager \notin writers[w]
  /\ mpc = "waitpid" => \A w \in Workers : w < i => wpc[w] = "exited"
  /\ mpc = "ended" => \A w \in Workers : wpc[w] = "exited"

Written == IF mpc \in Carrying THEN line - 1 ELSE line

\* A number that has been written is in one place: in a pipe, or factored.
NumberInv ==
  /\ \A k, l \in DOMAIN factored : factored[k] = factored[l] => k = l
  /\ \A v, w \in Workers : \A k \in DOMAIN pipe[v], l \in DOMAIN pipe[w] :
       pipe[v][k] = pipe[w][l] => v = w /\ k = l
  /\ \A w \in Workers : \A k \in DOMAIN factored, l \in DOMAIN pipe[w] :
       factored[k] # pipe[w][l]
  /\ \A k \in DOMAIN factored : factored[k] \in 1 .. Written
  /\ \A w \in Workers : \A l \in DOMAIN pipe[w] : pipe[w][l] \in 1 .. Written
  /\ \A n \in 1 .. Written :
       \/ \E k \in DOMAIN factored : factored[k] = n
       \/ \E w \in Workers : \E l \in DOMAIN pipe[w] : pipe[w][l] = n

-------------------------------------------------------------------------------
(* The table                                                               *)

\* Sets of workers are finite.
LEMMA Finite ==
  /\ IsFiniteSet(Workers) /\ Cardinality(Workers) = NumCPUs
  /\ \A S : S \subseteq Workers => IsFiniteSet(S) /\ Cardinality(S) \in Nat
<1>1. IsFiniteSet(Workers) /\ Cardinality(Workers) = NumCPUs
  BY FS_Interval DEF Workers
<1> QED BY <1>1, FS_Subset, FS_CardinalityType

\* One more is the next one.
LEMMA Below == \A a, b \in Int : a < b + 1 <=> (a < b \/ a = b)
OBVIOUS

\* What is left of a pipe when a number has been read.
LEMMA TailOf ==
  ASSUME NEW S, NEW s \in Seq(S), s # <<>>
  PROVE  /\ Len(s) \in Nat \ {0} /\ DOMAIN s = 1 .. Len(s) /\ DOMAIN Tail(s) = 1 .. Len(s) - 1
         /\ \A l \in 1 .. Len(s) - 1 : Tail(s)[l] = s[l + 1]
         /\ Head(s) = s[1]
OBVIOUS

\* The handler counts finitely many stops.
LEMMA CollectedCount == Cardinality(Collected) \in Nat
BY Finite DEF Collected

\* Types: a decrement never takes the count below zero.
LEMMA TypeStep ==
  ASSUME TypeOK, ForkInv, TestInv, [Next]_vars
  PROVE  TypeOK'
<1> USE DEF TypeOK, ForkInv, TestInv, Workers, ManagerPC, WorkerPC, Carrying
<1>1. CASE markWorkersAsAvailable
  <2>1. available' \in [Workers -> BOOLEAN] /\ report' \in [Workers -> BOOLEAN]
    BY <1>1 DEF markWorkersAsAvailable
  <2>2. pending' \in BOOLEAN
    BY <1>1, Zenon DEF markWorkersAsAvailable
  <2>3. mpc' \in ManagerPC
    BY <1>1 DEF markWorkersAsAvailable
  <2>4. numWorkersAvailable' \in Nat
    BY <1>1, CollectedCount DEF markWorkersAsAvailable
  <2>5. UNCHANGED <<i, tmp, line, known, blocked, wpc, pipe, writers, factored>> /\ raced' \subseteq Windows
    BY <1>1 DEF markWorkersAsAvailable
  <2> QED BY <2>1, <2>2, <2>3, <2>4, <2>5
<1>2. CASE SpawnFork
  <2>1. writers' \in [Workers -> SUBSET (0 .. NumCPUs)]
    BY <1>2 DEF SpawnFork, TheManager, Goto
  <2> QED BY <1>2, <2>1 DEF SpawnFork, Goto
<1>3. CASE SpawnStorePid
  BY <1>3 DEF SpawnStorePid, Goto
<1>4. CASE SpawnStoreAvailable
  BY <1>4 DEF SpawnStoreAvailable, Goto, NextWorker
<1>5. CASE ReadNumber
  BY <1>5 DEF ReadNumber, Goto
<1>6. CASE ReadEnd
  BY <1>6 DEF ReadEnd, Goto
<1>7. CASE ReadThrows
  BY <1>7 DEF ReadThrows, Goto
<1>8. CASE Block
  BY <1>8 DEF Block, Goto
<1>9. CASE Test
  BY <1>9 DEF Test, Goto
<1>10. CASE Suspend
  BY <1>10 DEF Suspend, Goto
<1>11. CASE Unblock
  BY <1>11 DEF Unblock, Goto
<1>12. CASE Scan
  <2>1. i' \in 0 .. NumCPUs /\ mpc' \in ManagerPC
    BY <1>12 DEF Scan, Goto
  <2> QED BY <1>12, <2>1 DEF Scan
<1>13. CASE Claim
  BY <1>13 DEF Claim, Goto
<1>14. CASE DecrementLoad
  BY <1>14 DEF DecrementLoad, Goto
<1>15. CASE DecrementStore
  BY <1>15 DEF DecrementStore, Goto
<1>16. CASE Write
  <2>1. line \in 1 .. MaxLines /\ i \in Workers
    BY <1>16 DEF Write, Goto
  <2>2. pipe' \in [Workers -> Seq(1 .. MaxLines)]
    BY <1>16, <2>1 DEF Write
  <2> QED BY <1>16, <2>2 DEF Write, Goto
<1>17. CASE ContinueOne
  <2>1. pending' \in BOOLEAN
    BY <1>17, Zenon DEF ContinueOne, Continue
  <2>2. wpc' \in [Workers -> WorkerPC] /\ report' \in [Workers -> BOOLEAN]
    BY <1>17 DEF ContinueOne, Goto, Continue
  <2> QED BY <1>17, <2>1, <2>2 DEF ContinueOne, Goto
<1>18. CASE RestoreDefault
  <2>1. pending' \in BOOLEAN
    BY <1>18, Zenon DEF RestoreDefault
  <2> QED BY <1>18, <2>1 DEF RestoreDefault, Goto
<1>19. CASE Close
  BY <1>19 DEF Close, Goto
<1>20. CASE ContinueLast
  <2>1. pending' \in BOOLEAN
    BY <1>20, Zenon DEF ContinueLast, Continue
  <2>2. wpc' \in [Workers -> WorkerPC] /\ report' \in [Workers -> BOOLEAN]
    BY <1>20 DEF ContinueLast, Goto, Continue
  <2> QED BY <1>20, <2>1, <2>2 DEF ContinueLast, Goto, NextWorker
<1>21. CASE Reap
  BY <1>21 DEF Reap, Goto
<1>22. ASSUME NEW w \in Workers, Stop(w)
      PROVE  TypeOK'
  BY <1>22 DEF Stop
<1>23. ASSUME NEW w \in Workers, ReadAndFactor(w)
      PROVE  TypeOK'
  BY <1>23 DEF ReadAndFactor
<1>24. ASSUME NEW w \in Workers, Exit(w)
      PROVE  TypeOK'
  BY <1>24 DEF Exit
<1>25. CASE UNCHANGED vars
  BY <1>25
<1> QED BY <1>1, <1>2, <1>3, <1>4, <1>5, <1>6, <1>7, <1>8, <1>9, <1>10, <1>11, <1>12,
       <1>13, <1>14, <1>15, <1>16, <1>17, <1>18, <1>19, <1>20, <1>21, <1>22, <1>23, <1>24,
       <1>25 DEF Next, Manager, Worker, Over

\* The workers that exist are those the loop has forked, and the table knows them one
\* store later.
LEMMA ForkStep ==
  ASSUME TypeOK, ForkInv, StopInv, [Next]_vars
  PROVE  ForkInv'
<1> USE DEF TypeOK, ForkInv, StopInv, Workers, ManagerPC, Late, Taking
<1>1. CASE markWorkersAsAvailable
  BY <1>1 DEF markWorkersAsAvailable, Interruptible, Collected, Windows
<1>2. CASE SpawnFork
  BY <1>2 DEF SpawnFork, Goto
<1>3. CASE SpawnStorePid
  BY <1>3 DEF SpawnStorePid, Goto
<1>4. CASE SpawnStoreAvailable
  BY <1>4 DEF SpawnStoreAvailable, Goto, NextWorker
<1>5. CASE ReadNumber
  BY <1>5 DEF ReadNumber, Goto
<1>6. CASE ReadEnd
  BY <1>6 DEF ReadEnd, Goto
<1>7. CASE ReadThrows
  BY <1>7 DEF ReadThrows, Goto
<1>8. CASE Block
  BY <1>8 DEF Block, Goto
<1>9. CASE Test
  BY <1>9 DEF Test, Goto
<1>10. CASE Suspend
  BY <1>10 DEF Suspend, Goto
<1>11. CASE Unblock
  BY <1>11 DEF Unblock, Goto
<1>12. CASE Scan
  BY <1>12 DEF Scan, Goto
<1>13. CASE Claim
  BY <1>13 DEF Claim, Goto
<1>14. CASE DecrementLoad
  BY <1>14 DEF DecrementLoad, Goto
<1>15. CASE DecrementStore
  BY <1>15 DEF DecrementStore, Goto
<1>16. CASE Write
  BY <1>16 DEF Write, Goto
<1>17. CASE ContinueOne
  BY <1>17 DEF ContinueOne, Goto, Continue
<1>18. CASE RestoreDefault
  BY <1>18 DEF RestoreDefault, Goto
<1>19. CASE Close
  BY <1>19 DEF Close, Goto
<1>20. CASE ContinueLast
  BY <1>20 DEF ContinueLast, Goto, NextWorker, Continue
<1>21. CASE Reap
  BY <1>21 DEF Reap, Goto
<1>22. ASSUME NEW w \in Workers, Stop(w)
      PROVE  ForkInv'
  BY <1>22 DEF Stop
<1>23. ASSUME NEW w \in Workers, ReadAndFactor(w)
      PROVE  ForkInv'
  BY <1>23 DEF ReadAndFactor
<1>24. ASSUME NEW w \in Workers, Exit(w)
      PROVE  ForkInv'
  BY <1>24 DEF Exit
<1>25. CASE UNCHANGED vars
  BY <1>25
<1> QED BY <1>1, <1>2, <1>3, <1>4, <1>5, <1>6, <1>7, <1>8, <1>9, <1>10, <1>11, <1>12,
       <1>13, <1>14, <1>15, <1>16, <1>17, <1>18, <1>19, <1>20, <1>21, <1>22, <1>23, <1>24,
       <1>25 DEF Next, Manager, Worker, Over

\* A worker the table calls available is stopped, and its stop has been collected.
LEMMA StopStep ==
  ASSUME TypeOK, ForkInv, StopInv, MaskInv, [Next]_vars
  PROVE  StopInv'
<1> USE DEF TypeOK, ForkInv, StopInv, MaskInv, Masked, Workers, ManagerPC, Late, Taking
<1>1. CASE markWorkersAsAvailable
  BY <1>1 DEF markWorkersAsAvailable, Interruptible, Collected, Windows
<1>2. CASE SpawnFork
  BY <1>2 DEF SpawnFork, Goto
<1>3. CASE SpawnStorePid
  BY <1>3 DEF SpawnStorePid, Goto
<1>4. CASE SpawnStoreAvailable
  BY <1>4 DEF SpawnStoreAvailable, Goto, NextWorker
<1>5. CASE ReadNumber
  BY <1>5 DEF ReadNumber, Goto
<1>6. CASE ReadEnd
  BY <1>6 DEF ReadEnd, Goto
<1>7. CASE ReadThrows
  BY <1>7 DEF ReadThrows, Goto
<1>8. CASE Block
  BY <1>8 DEF Block, Goto
<1>9. CASE Test
  BY <1>9 DEF Test, Goto
<1>10. CASE Suspend
  BY <1>10 DEF Suspend, Goto
<1>11. CASE Unblock
  BY <1>11 DEF Unblock, Goto
<1>12. CASE Scan
  BY <1>12 DEF Scan, Goto
<1>13. CASE Claim
  BY <1>13 DEF Claim, Goto
<1>14. CASE DecrementLoad
  BY <1>14 DEF DecrementLoad, Goto
<1>15. CASE DecrementStore
  BY <1>15 DEF DecrementStore, Goto
<1>16. CASE Write
  BY <1>16 DEF Write, Goto
<1>17. CASE ContinueOne
  <2>1. wpc[i] = "stopped" /\ ~available[i] /\ i \in Workers
    BY <1>17 DEF ContinueOne, Goto
  <2>2. pending' /\ report' = [report EXCEPT ![i] = FALSE] /\ wpc' = [wpc EXCEPT ![i] = "reading"]
    BY <1>17, <2>1, Zenon DEF ContinueOne, Goto, Continue
  <2>3. UNCHANGED tableVars /\ mpc' = "getline" /\ mpc \notin Late
    BY <1>17 DEF ContinueOne, Goto
  <2> QED BY <2>1, <2>2, <2>3
<1>18. CASE RestoreDefault
  BY <1>18 DEF RestoreDefault, Goto
<1>19. CASE Close
  BY <1>19 DEF Close, Goto
<1>20. CASE ContinueLast
  BY <1>20 DEF ContinueLast, Goto, NextWorker, Continue
<1>21. CASE Reap
  BY <1>21 DEF Reap, Goto
<1>22. ASSUME NEW w \in Workers, Stop(w)
      PROVE  StopInv'
  BY <1>22 DEF Stop
<1>23. ASSUME NEW w \in Workers, ReadAndFactor(w)
      PROVE  StopInv'
  BY <1>23 DEF ReadAndFactor
<1>24. ASSUME NEW w \in Workers, Exit(w)
      PROVE  StopInv'
  BY <1>24 DEF Exit
<1>25. CASE UNCHANGED vars
  BY <1>25
<1> QED BY <1>1, <1>2, <1>3, <1>4, <1>5, <1>6, <1>7, <1>8, <1>9, <1>10, <1>11, <1>12,
       <1>13, <1>14, <1>15, <1>16, <1>17, <1>18, <1>19, <1>20, <1>21, <1>22, <1>23, <1>24,
       <1>25 DEF Next, Manager, Worker, Over

\* Only the manager itself lowers the count: what a test has seen lasts.
LEMMA TestStep ==
  ASSUME TypeOK, StopInv, TestInv, MaskInv, [Next]_vars
  PROVE  TestInv'
<1> USE DEF TypeOK, StopInv, TestInv, Workers, MaskInv, Masked, ManagerPC, Carrying
<1>1. CASE markWorkersAsAvailable
  <2>1. /\ numWorkersAvailable' \in Nat /\ numWorkersAvailable' >= numWorkersAvailable
        /\ UNCHANGED <<i, tmp, line>>
        /\ mpc \in {"suspend1", "suspendAll"} \/ (mpc' = mpc /\ mpc \notin Masked)
    BY <1>1, CollectedCount DEF markWorkersAsAvailable, Interruptible
  <2>2. (mpc = "suspend1" => mpc' = "test1") /\ (mpc = "suspendAll" => mpc' = "testAll")
    BY <1>1 DEF markWorkersAsAvailable
  <2> QED BY <2>1, <2>2
<1>2. CASE SpawnFork
  BY <1>2 DEF SpawnFork, Goto
<1>3. CASE SpawnStorePid
  BY <1>3 DEF SpawnStorePid, Goto
<1>4. CASE SpawnStoreAvailable
  BY <1>4 DEF SpawnStoreAvailable, Goto, NextWorker
<1>5. CASE ReadNumber
  BY <1>5 DEF ReadNumber, Goto
<1>6. CASE ReadEnd
  BY <1>6 DEF ReadEnd, Goto
<1>7. CASE ReadThrows
  BY <1>7 DEF ReadThrows, Goto
<1>8. CASE Block
  BY <1>8 DEF Block, Goto
<1>9. CASE Test
  BY <1>9 DEF Test, Goto
<1>10. CASE Suspend
  BY <1>10 DEF Suspend, Goto
<1>11. CASE Unblock
  BY <1>11 DEF Unblock, Goto
<1>12. CASE Scan
  BY <1>12 DEF Scan, Goto
<1>13. CASE Claim
  BY <1>13 DEF Claim, Goto
<1>14. CASE DecrementLoad
  BY <1>14 DEF DecrementLoad, Goto
<1>15. CASE DecrementStore
  BY <1>15 DEF DecrementStore, Goto
<1>16. CASE Write
  BY <1>16 DEF Write, Goto
<1>17. CASE ContinueOne
  BY <1>17 DEF ContinueOne, Goto, Continue
<1>18. CASE RestoreDefault
  BY <1>18 DEF RestoreDefault, Goto
<1>19. CASE Close
  BY <1>19 DEF Close, Goto
<1>20. CASE ContinueLast
  BY <1>20 DEF ContinueLast, Goto, NextWorker, Continue
<1>21. CASE Reap
  BY <1>21 DEF Reap, Goto
<1>22. ASSUME NEW w \in Workers, Stop(w)
      PROVE  TestInv'
  BY <1>22 DEF Stop
<1>23. ASSUME NEW w \in Workers, ReadAndFactor(w)
      PROVE  TestInv'
  BY <1>23 DEF ReadAndFactor
<1>24. ASSUME NEW w \in Workers, Exit(w)
      PROVE  TestInv'
  BY <1>24 DEF Exit
<1>25. CASE UNCHANGED vars
  BY <1>25
<1> QED BY <1>1, <1>2, <1>3, <1>4, <1>5, <1>6, <1>7, <1>8, <1>9, <1>10, <1>11, <1>12,
       <1>13, <1>14, <1>15, <1>16, <1>17, <1>18, <1>19, <1>20, <1>21, <1>22, <1>23, <1>24,
       <1>25 DEF Next, Manager, Worker, Over

\* SIGCHLD is blocked from the test to the end of the wait.
LEMMA MaskStep ==
  ASSUME MaskInv, [Next]_vars
  PROVE  MaskInv'
<1> USE DEF MaskInv, Masked
<1>1. CASE markWorkersAsAvailable
  BY <1>1 DEF markWorkersAsAvailable, Interruptible, Collected, Windows
<1>2. CASE SpawnFork
  BY <1>2 DEF SpawnFork, Goto
<1>3. CASE SpawnStorePid
  BY <1>3 DEF SpawnStorePid, Goto
<1>4. CASE SpawnStoreAvailable
  BY <1>4 DEF SpawnStoreAvailable, Goto, NextWorker
<1>5. CASE ReadNumber
  BY <1>5 DEF ReadNumber, Goto
<1>6. CASE ReadEnd
  BY <1>6 DEF ReadEnd, Goto
<1>7. CASE ReadThrows
  BY <1>7 DEF ReadThrows, Goto
<1>8. CASE Block
  BY <1>8 DEF Block, Goto
<1>9. CASE Test
  BY <1>9 DEF Test, Goto
<1>10. CASE Suspend
  BY <1>10 DEF Suspend, Goto
<1>11. CASE Unblock
  BY <1>11 DEF Unblock, Goto
<1>12. CASE Scan
  BY <1>12 DEF Scan, Goto
<1>13. CASE Claim
  BY <1>13 DEF Claim, Goto
<1>14. CASE DecrementLoad
  BY <1>14 DEF DecrementLoad, Goto
<1>15. CASE DecrementStore
  BY <1>15 DEF DecrementStore, Goto
<1>16. CASE Write
  BY <1>16 DEF Write, Goto
<1>17. CASE ContinueOne
  BY <1>17 DEF ContinueOne, Goto, Continue
<1>18. CASE RestoreDefault
  BY <1>18 DEF RestoreDefault, Goto
<1>19. CASE Close
  BY <1>19 DEF Close, Goto
<1>20. CASE ContinueLast
  BY <1>20 DEF ContinueLast, Goto, NextWorker, Continue
<1>21. CASE Reap
  BY <1>21 DEF Reap, Goto
<1>22. ASSUME NEW w \in Workers, Stop(w)
      PROVE  MaskInv'
  BY <1>22 DEF Stop
<1>23. ASSUME NEW w \in Workers, ReadAndFactor(w)
      PROVE  MaskInv'
  BY <1>23 DEF ReadAndFactor
<1>24. ASSUME NEW w \in Workers, Exit(w)
      PROVE  MaskInv'
  BY <1>24 DEF Exit
<1>25. CASE UNCHANGED vars
  BY <1>25
<1> QED BY <1>1, <1>2, <1>3, <1>4, <1>5, <1>6, <1>7, <1>8, <1>9, <1>10, <1>11, <1>12,
       <1>13, <1>14, <1>15, <1>16, <1>17, <1>18, <1>19, <1>20, <1>21, <1>22, <1>23, <1>24,
       <1>25 DEF Next, Manager, Worker, Over

\* The count follows the table; see CountInv.
LEMMA CountStep ==
  ASSUME TableInv, CountInv, [Next]_vars
  PROVE  CountInv'
<1> USE DEF CountInv
<1>0. available' = available => Free' = Free
  BY DEF Free
<1>00. Cardinality(Free) \in Nat /\ numWorkersAvailable \in Nat
  BY Finite DEF Free, TableInv, TypeOK
<1>1. CASE markWorkersAsAvailable
  <2>1. Free' = Free \cup Collected /\ Free \cap Collected = {}
    BY <1>1 DEF markWorkersAsAvailable, Free, Collected
  <2>2. Cardinality(Free') = Cardinality(Free) + Cardinality(Collected)
    <3>1. IsFiniteSet(Free) /\ IsFiniteSet(Collected)
      BY Finite DEF Free, Collected
    <3> QED BY <2>1, <3>1, FS_Union, FS_EmptySet, <1>00, CollectedCount
  <2>3. /\ numWorkersAvailable' = numWorkersAvailable + Cardinality(Collected)
        /\ raced' = raced \cup ({mpc} \cap Windows) /\ tmp' = tmp
        /\ mpc \in {"suspend1", "suspendAll"} \/ mpc' = mpc
        /\ mpc \in {"suspend1", "suspendAll"} => mpc' \in {"test1", "testAll"}
    BY <1>1 DEF markWorkersAsAvailable
  <2>4. raced \subseteq raced' /\ (mpc = "store" => "store" \in raced')
    BY <2>3 DEF Windows
  <2>5. mpc' \in {"load", "store"} <=> mpc \in {"load", "store"}
    BY <2>3
  <2>6. mpc' = "store" => mpc = "store"
    BY <2>3
  <2> QED BY <1>00, <2>2, <2>3, <2>4, <2>5, <2>6, CollectedCount
<1>2. CASE SpawnFork
  BY <1>2, <1>0, <1>00 DEF SpawnFork, Goto
<1>3. CASE SpawnStorePid
  BY <1>3, <1>0, <1>00 DEF SpawnStorePid, Goto
<1>4. CASE SpawnStoreAvailable
  <2>1. "available" \notin raced => available' = available
    BY <1>4 DEF SpawnStoreAvailable, Goto, TableInv, StopInv, ForkInv, TypeOK
  <2>2. mpc = "available" /\ mpc' \in {"fork", "getline"} /\ UNCHANGED <<numWorkersAvailable, raced>>
    BY <1>4 DEF SpawnStoreAvailable, Goto
  <2> QED BY <1>0, <1>00, <2>1, <2>2
<1>5. CASE ReadNumber
  BY <1>5, <1>0, <1>00 DEF ReadNumber, Goto
<1>6. CASE ReadEnd
  BY <1>6, <1>0, <1>00 DEF ReadEnd, Goto
<1>7. CASE ReadThrows
  BY <1>7, <1>0, <1>00 DEF ReadThrows, Goto
<1>8. CASE Block
  BY <1>8, <1>0, <1>00 DEF Block, Goto
<1>9. CASE Test
  BY <1>9, <1>0, <1>00 DEF Test, Goto
<1>10. CASE Suspend
  BY <1>10, <1>0, <1>00 DEF Suspend, Goto
<1>11. CASE Unblock
  BY <1>11, <1>0, <1>00 DEF Unblock, Goto
<1>12. CASE Scan
  BY <1>12, <1>0, <1>00 DEF Scan, Goto
<1>13. CASE Claim
  <2>1. Free' = Free \ {i} /\ i \in Free
    BY <1>13 DEF Claim, Goto, Free, TableInv, StopInv, ForkInv, TypeOK
  <2>2. Cardinality(Free') = Cardinality(Free) - 1
    <3>1. IsFiniteSet(Free)
      BY Finite DEF Free
    <3> QED BY <2>1, <3>1, FS_RemoveElement
  <2> QED BY <1>13, <1>00, <2>2 DEF Claim, Goto
<1>14. CASE DecrementLoad
  BY <1>14, <1>0, <1>00 DEF DecrementLoad, Goto
<1>15. CASE DecrementStore
  <2>1. tmp \in Nat /\ tmp > 0 /\ tmp =< numWorkersAvailable
    BY <1>15 DEF DecrementStore, Goto, TableInv, TestInv, TypeOK
  <2> QED BY <1>15, <1>0, <1>00, <2>1 DEF DecrementStore, Goto
<1>16. CASE Write
  BY <1>16, <1>0, <1>00 DEF Write, Goto
<1>17. CASE ContinueOne
  BY <1>17, <1>0, <1>00 DEF ContinueOne, Goto, Continue
<1>18. CASE RestoreDefault
  BY <1>18, <1>0, <1>00 DEF RestoreDefault, Goto
<1>19. CASE Close
  BY <1>19, <1>0, <1>00 DEF Close, Goto
<1>20. CASE ContinueLast
  BY <1>20, <1>0, <1>00 DEF ContinueLast, Goto, NextWorker, Continue
<1>21. CASE Reap
  BY <1>21, <1>0, <1>00 DEF Reap, Goto
<1>22. ASSUME NEW w \in Workers, Stop(w)
      PROVE  CountInv'
  BY <1>22, <1>0, <1>00 DEF Stop
<1>23. ASSUME NEW w \in Workers, ReadAndFactor(w)
      PROVE  CountInv'
  BY <1>23, <1>0, <1>00 DEF ReadAndFactor
<1>24. ASSUME NEW w \in Workers, Exit(w)
      PROVE  CountInv'
  BY <1>24, <1>0, <1>00 DEF Exit
<1>25. CASE UNCHANGED vars
  BY <1>25, <1>0, <1>00
<1> QED BY <1>1, <1>2, <1>3, <1>4, <1>5, <1>6, <1>7, <1>8, <1>9, <1>10, <1>11, <1>12,
       <1>13, <1>14, <1>15, <1>16, <1>17, <1>18, <1>19, <1>20, <1>21, <1>22, <1>23, <1>24,
       <1>25 DEF Next, Manager, Worker, Over

\* Without a race no stop is forgotten.
LEMMA WakeStep ==
  ASSUME TableInv, WakeInv, [Next]_vars
  PROVE  WakeInv'
<1> USE DEF TableInv, TypeOK, ForkInv, StopInv, WakeInv, ManagerPC, Late, Taking, Workers
<1>1. CASE markWorkersAsAvailable
  <2> SUFFICES ASSUME raced' = {}, mpc' \notin Late, NEW w \in Workers, wpc'[w] = "stopped"
               PROVE  available'[w] \/ report'[w] \/ (mpc' \in Taking /\ w = i')
    OBVIOUS
  <2>1. UNCHANGED <<wpc, i>> /\ raced = {} /\ mpc \notin Windows
    BY <1>1 DEF markWorkersAsAvailable
  <2>2. mpc \notin Late /\ (mpc' = mpc \/ mpc \in {"suspend1", "suspendAll"})
    BY <1>1 DEF markWorkersAsAvailable, Interruptible
  <2>3. available[w] \/ report[w] \/ (mpc \in Taking /\ w = i)
    BY <2>1, <2>2
  <2>4. wpc[w] # "unborn" => known[w]
    BY <2>1 DEF Windows
  <2>5. available[w] \/ report[w] => available'[w]
    BY <1>1, <2>1, <2>2, <2>4 DEF markWorkersAsAvailable, Collected
  <2> QED BY <2>1, <2>2, <2>3, <2>5
<1>2. CASE SpawnFork
  BY <1>2 DEF SpawnFork, Goto
<1>3. CASE SpawnStorePid
  BY <1>3 DEF SpawnStorePid, Goto
<1>4. CASE SpawnStoreAvailable
  BY <1>4 DEF SpawnStoreAvailable, Goto, NextWorker
<1>5. CASE ReadNumber
  BY <1>5 DEF ReadNumber, Goto
<1>6. CASE ReadEnd
  BY <1>6 DEF ReadEnd, Goto
<1>7. CASE ReadThrows
  BY <1>7 DEF ReadThrows, Goto
<1>8. CASE Block
  BY <1>8 DEF Block, Goto
<1>9. CASE Test
  BY <1>9 DEF Test, Goto
<1>10. CASE Suspend
  BY <1>10 DEF Suspend, Goto
<1>11. CASE Unblock
  BY <1>11 DEF Unblock, Goto
<1>12. CASE Scan
  BY <1>12 DEF Scan, Goto
<1>13. CASE Claim
  BY <1>13 DEF Claim, Goto
<1>14. CASE DecrementLoad
  BY <1>14 DEF DecrementLoad, Goto
<1>15. CASE DecrementStore
  BY <1>15 DEF DecrementStore, Goto
<1>16. CASE Write
  BY <1>16 DEF Write, Goto
<1>17. CASE ContinueOne
  BY <1>17 DEF ContinueOne, Goto, Continue
<1>18. CASE RestoreDefault
  BY <1>18 DEF RestoreDefault, Goto
<1>19. CASE Close
  BY <1>19 DEF Close, Goto
<1>20. CASE ContinueLast
  BY <1>20 DEF ContinueLast, Goto, NextWorker, Continue
<1>21. CASE Reap
  BY <1>21 DEF Reap, Goto
<1>22. ASSUME NEW w \in Workers, Stop(w)
      PROVE  WakeInv'
  BY <1>22 DEF Stop
<1>23. ASSUME NEW w \in Workers, ReadAndFactor(w)
      PROVE  WakeInv'
  BY <1>23 DEF ReadAndFactor
<1>24. ASSUME NEW w \in Workers, Exit(w)
      PROVE  WakeInv'
  BY <1>24 DEF Exit
<1>25. CASE UNCHANGED vars
  BY <1>25
<1> QED BY <1>1, <1>2, <1>3, <1>4, <1>5, <1>6, <1>7, <1>8, <1>9, <1>10, <1>11, <1>12,
       <1>13, <1>14, <1>15, <1>16, <1>17, <1>18, <1>19, <1>20, <1>21, <1>22, <1>23, <1>24,
       <1>25 DEF Next, Manager, Worker, Over

\* No worker sees the end of its input before the manager has closed the pipe.
LEMMA PipeStep ==
  ASSUME TableInv, PipeInv, [Next]_vars
  PROVE  PipeInv'
<1> USE DEF TableInv, TypeOK, ForkInv, StopInv, PipeInv, Late, Taking, Workers, TheManager, ManagerPC
<1>1. CASE markWorkersAsAvailable
  BY <1>1 DEF markWorkersAsAvailable, Interruptible, Collected, Windows
<1>2. CASE SpawnFork
  BY <1>2 DEF SpawnFork, Goto
<1>3. CASE SpawnStorePid
  BY <1>3 DEF SpawnStorePid, Goto
<1>4. CASE SpawnStoreAvailable
  BY <1>4 DEF SpawnStoreAvailable, Goto, NextWorker
<1>5. CASE ReadNumber
  BY <1>5 DEF ReadNumber, Goto
<1>6. CASE ReadEnd
  BY <1>6 DEF ReadEnd, Goto
<1>7. CASE ReadThrows
  BY <1>7 DEF ReadThrows, Goto
<1>8. CASE Block
  BY <1>8 DEF Block, Goto
<1>9. CASE Test
  BY <1>9 DEF Test, Goto
<1>10. CASE Suspend
  BY <1>10 DEF Suspend, Goto
<1>11. CASE Unblock
  BY <1>11 DEF Unblock, Goto
<1>12. CASE Scan
  BY <1>12 DEF Scan, Goto
<1>13. CASE Claim
  BY <1>13 DEF Claim, Goto
<1>14. CASE DecrementLoad
  BY <1>14 DEF DecrementLoad, Goto
<1>15. CASE DecrementStore
  BY <1>15 DEF DecrementStore, Goto
<1>16. CASE Write
  BY <1>16 DEF Write, Goto
<1>17. CASE ContinueOne
  BY <1>17 DEF ContinueOne, Goto, Continue
<1>18. CASE RestoreDefault
  BY <1>18 DEF RestoreDefault, Goto
<1>19. CASE Close
  BY <1>19 DEF Close, Goto
<1>20. CASE ContinueLast
  BY <1>20 DEF ContinueLast, Goto, NextWorker, Continue
<1>21. CASE Reap
  <2>1. /\ mpc = "waitpid" /\ i \in Workers /\ wpc[i] = "exited" /\ i' = i + 1
        /\ mpc' = (IF i + 1 < NumCPUs THEN "waitpid" ELSE "ended")
    BY <1>21 DEF Reap, Goto
  <2>2. \A w \in Workers : w < i' <=> (w < i \/ w = i)
    <3>1. i \in Int /\ (\A w \in Workers : w \in Int) /\ i' = i + 1
      BY <2>1
    <3> HIDE DEF TableInv, PipeInv, Workers
    <3> QED BY <3>1, Below
  <2>3. \A w \in Workers : w < i' => wpc[w] = "exited"
    BY <2>1, <2>2
  <2>4. mpc' = "ended" => \A w \in Workers : w < i'
    BY <2>1
  <2> QED BY <1>21, <2>1, <2>3, <2>4 DEF Reap
<1>22. ASSUME NEW w \in Workers, Stop(w)
      PROVE  PipeInv'
  BY <1>22 DEF Stop
<1>23. ASSUME NEW w \in Workers, ReadAndFactor(w)
      PROVE  PipeInv'
  BY <1>23 DEF ReadAndFactor
<1>24. ASSUME NEW w \in Workers, Exit(w)
      PROVE  PipeInv'
  BY <1>24 DEF Exit
<1>25. CASE UNCHANGED vars
  BY <1>25
<1> QED BY <1>1, <1>2, <1>3, <1>4, <1>5, <1>6, <1>7, <1>8, <1>9, <1>10, <1>11, <1>12,
       <1>13, <1>14, <1>15, <1>16, <1>17, <1>18, <1>19, <1>20, <1>21, <1>22, <1>23, <1>24,
       <1>25 DEF Next, Manager, Worker, Over

\* Numbers move from the manager to a pipe to the results, and are in one of them.
LEMMA NumberStep ==
  ASSUME TableInv, NumberInv, [Next]_vars
  PROVE  NumberInv'
<1> USE DEF TableInv
<1>0. ASSUME Written' = Written, UNCHANGED <<pipe, factored>>
      PROVE  NumberInv'
  BY <1>0 DEF NumberInv
<1>1. CASE markWorkersAsAvailable
  <2>1. Written' = Written /\ UNCHANGED <<pipe, factored>>
    BY <1>1 DEF markWorkersAsAvailable, Interruptible, Written, Carrying
  <2> QED BY <1>0, <2>1
<1>2. CASE SpawnFork
  <2>1. Written' = Written /\ UNCHANGED <<pipe, factored>>
    BY <1>2 DEF SpawnFork, Goto, Written, Carrying
  <2> QED BY <1>0, <2>1
<1>3. CASE SpawnStorePid
  <2>1. Written' = Written /\ UNCHANGED <<pipe, factored>>
    BY <1>3 DEF SpawnStorePid, Goto, Written, Carrying
  <2> QED BY <1>0, <2>1
<1>4. CASE SpawnStoreAvailable
  <2>1. Written' = Written /\ UNCHANGED <<pipe, factored>>
    BY <1>4 DEF SpawnStoreAvailable, Goto, Written, Carrying
  <2> QED BY <1>0, <2>1
<1>5. CASE ReadNumber
  <2>1. Written' = Written /\ UNCHANGED <<pipe, factored>>
    BY <1>5 DEF ReadNumber, Goto, Written, Carrying, TypeOK
  <2> QED BY <1>0, <2>1
<1>6. CASE ReadEnd
  <2>1. Written' = Written /\ UNCHANGED <<pipe, factored>>
    BY <1>6 DEF ReadEnd, Goto, Written, Carrying
  <2> QED BY <1>0, <2>1
<1>7. CASE ReadThrows
  <2>1. Written' = Written /\ UNCHANGED <<pipe, factored>>
    BY <1>7 DEF ReadThrows, Goto, Written, Carrying
  <2> QED BY <1>0, <2>1
<1>8. CASE Block
  <2>1. Written' = Written /\ UNCHANGED <<pipe, factored>>
    BY <1>8 DEF Block, Goto, Written, Carrying
  <2> QED BY <1>0, <2>1
<1>9. CASE Test
  <2>1. Written' = Written /\ UNCHANGED <<pipe, factored>>
    BY <1>9 DEF Test, Goto, Written, Carrying
  <2> QED BY <1>0, <2>1
<1>10. CASE Suspend
  <2>1. Written' = Written /\ UNCHANGED <<pipe, factored>>
    BY <1>10 DEF Suspend, Goto, Written, Carrying
  <2> QED BY <1>0, <2>1
<1>11. CASE Unblock
  <2>1. Written' = Written /\ UNCHANGED <<pipe, factored>>
    BY <1>11 DEF Unblock, Goto, Written, Carrying
  <2> QED BY <1>0, <2>1
<1>12. CASE Scan
  <2>1. Written' = Written /\ UNCHANGED <<pipe, factored>>
    BY <1>12 DEF Scan, Goto, Written, Carrying
  <2> QED BY <1>0, <2>1
<1>13. CASE Claim
  <2>1. Written' = Written /\ UNCHANGED <<pipe, factored>>
    BY <1>13 DEF Claim, Goto, Written, Carrying
  <2> QED BY <1>0, <2>1
<1>14. CASE DecrementLoad
  <2>1. Written' = Written /\ UNCHANGED <<pipe, factored>>
    BY <1>14 DEF DecrementLoad, Goto, Written, Carrying
  <2> QED BY <1>0, <2>1
<1>15. CASE DecrementStore
  <2>1. Written' = Written /\ UNCHANGED <<pipe, factored>>
    BY <1>15 DEF DecrementStore, Goto, Written, Carrying
  <2> QED BY <1>0, <2>1
<1>16. CASE Write
  <2>1. /\ i \in Workers /\ line \in 1 .. MaxLines /\ factored' = factored
        /\ Written = line - 1 /\ Written' = line
        /\ pipe' = [pipe EXCEPT ![i] = Append(pipe[i], line)]
    BY <1>16 DEF Write, Goto, Written, Carrying, TypeOK, ForkInv, TestInv
  <2>2. /\ DOMAIN pipe'[i] = DOMAIN pipe[i] \cup {Len(pipe[i]) + 1}
        /\ Len(pipe[i]) + 1 \notin DOMAIN pipe[i]
        /\ pipe'[i][Len(pipe[i]) + 1] = line
        /\ \A k \in DOMAIN pipe[i] : pipe'[i][k] = pipe[i][k]
    <3>1. pipe[i] \in Seq(1 .. MaxLines) /\ pipe'[i] = Append(pipe[i], line)
      BY <2>1 DEF TypeOK
    <3> QED BY <3>1, <2>1
  <2>3. \A v \in Workers : v # i => pipe'[v] = pipe[v]
    BY <2>1 DEF TypeOK
  <2>4. \A n \in Int : n \in 1 .. Written => n \in 1 .. Written' /\ n # line
    BY <2>1
  <2>5. \A n \in 1 .. Written' : n = line \/ n \in 1 .. Written
    BY <2>1
  <2>6. \A v \in Workers : \A l \in DOMAIN pipe'[v] :
          \/ l \in DOMAIN pipe[v] /\ pipe'[v][l] = pipe[v][l] /\ pipe[v][l] \in 1 .. Written
          \/ v = i /\ l = Len(pipe[i]) + 1 /\ pipe'[v][l] = line
    BY <2>2, <2>3 DEF NumberInv
  <2>7. \A v \in Workers : \A l \in DOMAIN pipe[v] : l \in DOMAIN pipe'[v] /\ pipe'[v][l] = pipe[v][l]
    BY <2>2, <2>3
  <2>8. line \in 1 .. Written' /\ line \notin 1 .. Written
    BY <2>1
  <2>9. \A v, u \in Workers : \A k \in DOMAIN pipe'[v], l \in DOMAIN pipe'[u] :
          pipe'[v][k] = pipe'[u][l] => v = u /\ k = l
    BY <2>6, <2>8 DEF NumberInv
  <2>10. \A v \in Workers : \A k \in DOMAIN factored, l \in DOMAIN pipe'[v] : factored[k] # pipe'[v][l]
    BY <2>6, <2>8 DEF NumberInv
  <2>11. \A k \in DOMAIN factored : factored[k] \in 1 .. Written'
    BY <2>1 DEF NumberInv
  <2>12. \A v \in Workers : \A l \in DOMAIN pipe'[v] : pipe'[v][l] \in 1 .. Written'
    BY <2>4, <2>6, <2>8
  <2>13. \A n \in 1 .. Written' : \/ \E k \in DOMAIN factored : factored[k] = n
                                \/ \E v \in Workers : \E l \in DOMAIN pipe'[v] : pipe'[v][l] = n
    <3> TAKE n \in 1 .. Written'
    <3>1. CASE n = line
      BY <2>1, <2>2, <3>1
    <3>2. CASE n \in 1 .. Written
      BY <2>7, <3>2 DEF NumberInv
    <3> QED BY <2>5, <3>1, <3>2
  <2>14. \A k, l \in DOMAIN factored : factored[k] = factored[l] => k = l
    BY DEF NumberInv
  <2>15. factored' = factored
    BY <2>1
  <2> HIDE DEF TableInv
  <2> QED BY <2>9, <2>10, <2>11, <2>12, <2>13, <2>14, <2>15 DEF NumberInv
<1>17. CASE ContinueOne
  <2>1. Written' = Written /\ UNCHANGED <<pipe, factored>>
    BY <1>17 DEF ContinueOne, Goto, Written, Carrying
  <2> QED BY <1>0, <2>1
<1>18. CASE RestoreDefault
  <2>1. Written' = Written /\ UNCHANGED <<pipe, factored>>
    BY <1>18 DEF RestoreDefault, Goto, Written, Carrying
  <2> QED BY <1>0, <2>1
<1>19. CASE Close
  <2>1. Written' = Written /\ UNCHANGED <<pipe, factored>>
    BY <1>19 DEF Close, Goto, Written, Carrying
  <2> QED BY <1>0, <2>1
<1>20. CASE ContinueLast
  <2>1. Written' = Written /\ UNCHANGED <<pipe, factored>>
    BY <1>20 DEF ContinueLast, Goto, Written, Carrying
  <2> QED BY <1>0, <2>1
<1>21. CASE Reap
  <2>1. Written' = Written /\ UNCHANGED <<pipe, factored>>
    BY <1>21 DEF Reap, Goto, Written, Carrying
  <2> QED BY <1>0, <2>1
<1>22. ASSUME NEW w \in Workers, Stop(w)
      PROVE  NumberInv'
  <2>1. Written' = Written /\ UNCHANGED <<pipe, factored>>
    BY <1>22 DEF Stop, Written
  <2> QED BY <1>0, <2>1
<1>23. ASSUME NEW w \in Workers, ReadAndFactor(w)
      PROVE  NumberInv'
  <2>1. /\ pipe[w] \in Seq(1 .. MaxLines) /\ pipe[w] # <<>> /\ factored \in Seq(1 .. MaxLines)
        /\ factored' = Append(factored, Head(pipe[w])) /\ pipe' = [pipe EXCEPT ![w] = Tail(pipe[w])]
        /\ Written' = Written
    BY <1>23 DEF ReadAndFactor, TypeOK, Written
  <2>2. /\ 1 \in DOMAIN pipe[w]
        /\ \A l \in DOMAIN Tail(pipe[w]) : l + 1 \in DOMAIN pipe[w] /\ Tail(pipe[w])[l] = pipe[w][l + 1]
        /\ \A l \in DOMAIN pipe[w] : l # 1 => l - 1 \in DOMAIN Tail(pipe[w])
        /\ \A l \in DOMAIN Tail(pipe[w]) : l \in Nat \ {0}
        /\ \A l \in DOMAIN pipe[w] : l \in Nat \ {0}
    <3>1. /\ Len(pipe[w]) \in Nat \ {0} /\ DOMAIN pipe[w] = 1 .. Len(pipe[w])
          /\ DOMAIN Tail(pipe[w]) = 1 .. Len(pipe[w]) - 1
          /\ \A l \in 1 .. Len(pipe[w]) - 1 : Tail(pipe[w])[l] = pipe[w][l + 1]
      BY <2>1, TailOf
    <3> QED BY <3>1
  <2>3. \A v \in Workers : v # w => pipe'[v] = pipe[v]
    BY <2>1 DEF TypeOK
  <2>4. pipe'[w] = Tail(pipe[w])
    BY <2>1 DEF TypeOK
  <2>5. /\ DOMAIN factored' = DOMAIN factored \cup {Len(factored) + 1}
        /\ Len(factored) + 1 \notin DOMAIN factored
        /\ factored'[Len(factored) + 1] = pipe[w][1]
        /\ \A k \in DOMAIN factored : factored'[k] = factored[k]
    BY <2>1
  <2> DEFINE From(v, l) == IF v = w THEN l + 1 ELSE l
  <2>6. ASSUME NEW v \in Workers, NEW l \in DOMAIN pipe'[v]
        PROVE  /\ From(v, l) \in DOMAIN pipe[v] /\ pipe'[v][l] = pipe[v][From(v, l)]
               /\ v = w => From(v, l) # 1
    <3>1. CASE v = w
      <4>1. l \in DOMAIN Tail(pipe[w])
        BY <2>4, <2>6, <3>1
      <4>2. l \in Nat \ {0} /\ l + 1 \in DOMAIN pipe[w] /\ Tail(pipe[w])[l] = pipe[w][l + 1]
        BY <2>2, <4>1
      <4>3. l + 1 # 1
        BY <4>2
      <4> QED BY <2>4, <3>1, <4>2, <4>3
    <3>2. CASE v # w
      BY <2>3, <2>6, <3>2
    <3> QED BY <3>1, <3>2
  <2>7. ASSUME NEW v \in Workers, NEW k \in DOMAIN pipe'[v], NEW l \in DOMAIN pipe'[v],
               From(v, k) = From(v, l)
        PROVE  k = l
    <3>1. CASE v = w
      <4>1. k \in Nat /\ l \in Nat /\ k + 1 = l + 1
        BY <2>2, <2>4, <2>7, <3>1
      <4> QED BY <4>1
    <3>2. CASE v # w
      BY <2>7, <3>2
    <3> QED BY <3>1, <3>2
  <2> HIDE DEF From
  <2>8. ASSUME NEW v \in Workers, NEW u \in Workers, NEW k \in DOMAIN pipe'[v],
               NEW l \in DOMAIN pipe'[u], pipe'[v][k] = pipe'[u][l]
        PROVE  v = u /\ k = l
    <3>1. v = u /\ From(v, k) = From(u, l)
      BY <2>6, <2>8 DEF NumberInv
    <3> QED BY <2>7, <3>1
  <2>9. ASSUME NEW v \in Workers, NEW k \in DOMAIN factored', NEW l \in DOMAIN pipe'[v]
        PROVE  factored'[k] # pipe'[v][l]
    <3>1. CASE k \in DOMAIN factored
      BY <2>5, <2>6, <3>1 DEF NumberInv
    <3>2. CASE k = Len(factored) + 1
      BY <2>2, <2>5, <2>6, <3>2 DEF NumberInv
    <3> QED BY <2>5, <3>1, <3>2
  <2>10. ASSUME NEW k \in DOMAIN factored', NEW l \in DOMAIN factored', factored'[k] = factored'[l]
        PROVE  k = l
    <3>1. \A m \in DOMAIN factored : factored[m] # pipe[w][1]
      BY <2>2 DEF NumberInv
    <3> QED BY <2>5, <2>10, <3>1 DEF NumberInv
  <2>11. \A k \in DOMAIN factored' : factored'[k] \in 1 .. Written
    BY <2>2, <2>5 DEF NumberInv
  <2>12. \A v \in Workers : \A l \in DOMAIN pipe'[v] : pipe'[v][l] \in 1 .. Written
    BY <2>6 DEF NumberInv
  <2>13. ASSUME NEW n \in 1 .. Written
         PROVE  \/ \E k \in DOMAIN factored' : factored'[k] = n
                \/ \E v \in Workers : \E l \in DOMAIN pipe'[v] : pipe'[v][l] = n
    <3>1. CASE \E k \in DOMAIN factored : factored[k] = n
      BY <2>5, <3>1
    <3>2. ASSUME NEW v \in Workers, NEW l \in DOMAIN pipe[v], pipe[v][l] = n
          PROVE  \/ \E k \in DOMAIN factored' : factored'[k] = n
                 \/ \E u \in Workers : \E m \in DOMAIN pipe'[u] : pipe'[u][m] = n
      <4>1. CASE v # w
        BY <2>3, <3>2, <4>1
      <4>2. CASE v = w /\ l = 1
        BY <2>5, <3>2, <4>2
      <4>3. CASE v = w /\ l # 1
        <5>1. l - 1 \in DOMAIN pipe'[w] /\ (l - 1) + 1 = l
          BY <2>2, <2>4, <4>3
        <5>2. pipe'[w][l - 1] = n
          BY <2>2, <2>4, <3>2, <4>3, <5>1
        <5> QED BY <5>1, <5>2
      <4> QED BY <4>1, <4>2, <4>3
    <3> QED BY <3>1, <3>2 DEF NumberInv
  <2> QED BY <2>1, <2>8, <2>9, <2>10, <2>11, <2>12, <2>13 DEF NumberInv
<1>24. ASSUME NEW w \in Workers, Exit(w)
      PROVE  NumberInv'
  <2>1. Written' = Written /\ UNCHANGED <<pipe, factored>>
    BY <1>24 DEF Exit, Written
  <2> QED BY <1>0, <2>1
<1>25. CASE UNCHANGED vars
  BY <1>0, <1>25 DEF Written
<1> QED BY <1>1, <1>2, <1>3, <1>4, <1>5, <1>6, <1>7, <1>8, <1>9, <1>10, <1>11, <1>12,
       <1>13, <1>14, <1>15, <1>16, <1>17, <1>18, <1>19, <1>20, <1>21, <1>22, <1>23, <1>24,
       <1>25 DEF Next, Manager, Worker, Over

-------------------------------------------------------------------------------
(* The theorems                                                            *)

FInv == TableInv /\ CountInv /\ WakeInv /\ PipeInv /\ NumberInv

\* A sequence in which each of 1 .. n occurs exactly once has length n.
LEMMA OnceEach ==
  ASSUME NEW T, NEW s \in Seq(T), NEW n \in Nat,
         \A k \in DOMAIN s : s[k] \in 1 .. n,
         \A x \in 1 .. n : \E k \in DOMAIN s : s[k] = x,
         \A k, l \in DOMAIN s : s[k] = s[l] => k = l
  PROVE  Len(s) = n
<1>1. DOMAIN s = 1 .. Len(s) /\ Len(s) \in Nat /\ s = [k \in 1 .. Len(s) |-> s[k]]
  OBVIOUS
<1>2. s \in Bijection(1 .. Len(s), 1 .. n)
  BY <1>1 DEF Bijection, Injection, IsInjective, Surjection
<1>3. \A m \in Nat : IsFiniteSet(1 .. m) /\ Cardinality(1 .. m) = m
  BY FS_Interval
<1> QED BY <1>1, <1>2, <1>3, FS_Bijection DEF ExistsBijection

LEMMA InitInv == Init => FInv
<1> SUFFICES ASSUME Init PROVE FInv
  OBVIOUS
<1> USE DEF Init
<1>1. TypeOK
  <2>1. blocked \in BOOLEAN /\ pending \in BOOLEAN
    BY Zenon
  <2> QED BY <2>1 DEF TypeOK, Workers, ManagerPC, WorkerPC
<1>2. ForkInv /\ StopInv /\ MaskInv /\ TestInv
  BY DEF ForkInv, StopInv, MaskInv, TestInv, Workers, Late, Taking, Masked, Carrying
<1>3. CountInv
  <2>1. Free = {}
    BY DEF Free
  <2> QED BY <2>1, FS_EmptySet DEF CountInv
<1>4. WakeInv /\ PipeInv
  BY DEF WakeInv, PipeInv, Late
<1>5. NumberInv
  BY DEF NumberInv, Written, Carrying
<1> QED BY <1>1, <1>2, <1>3, <1>4, <1>5 DEF FInv, TableInv

LEMMA NextInv ==
  ASSUME FInv, [Next]_vars
  PROVE  FInv'
<1>1. TableInv'
  BY TypeStep, ForkStep, StopStep, MaskStep, TestStep DEF FInv, TableInv
<1> QED BY <1>1, CountStep, WakeStep, PipeStep, NumberStep DEF FInv

LEMMA AlwaysInv == Spec => []FInv
BY InitInv, NextInv, PTL DEF Spec

\* The count of idle workers is exact (up to the one being taken) in every farm whose
\* SIGCHLD handler never ran between the stores of a table entry or between the load
\* and the store of numWorkersAvailable--: no other interleaving of handler, manager
\* and workers spoils it.
THEOREM CountExact == Spec => []CountIsExact
<1>1. FInv => CountIsExact
  BY DEF FInv, TableInv, CountInv, CountIsExact, Free
<1> QED BY <1>1, AlwaysInv, PTL

\* The two assertions of getAvailableWorker hold unless the handler ran between the
\* stores of a table entry: an increment lost by the decrement leaves the count too
\* low, which makes nobody scan in vain.
THEOREM AssertionsAlwaysHold == Spec => []AssertionsHold
<1> DEFINE AInv == FInv /\ AssertionsHold
<1>1. Init => AInv
  BY InitInv DEF Init, AssertionsHold
<1>2. AInv /\ [Next]_vars => AInv'
  <2> SUFFICES ASSUME AInv, [Next]_vars PROVE AssertionsHold'
    BY NextInv
  <2>1. raced \subseteq raced'
    BY DEF Next, markWorkersAsAvailable, Manager, Worker, Over, SpawnFork, SpawnStorePid,
           SpawnStoreAvailable, ReadNumber, ReadEnd, ReadThrows, Block, Test, Suspend, Unblock,
           Scan, Claim, DecrementLoad, DecrementStore, Write, ContinueOne, RestoreDefault,
           Close, ContinueLast, Reap, Stop, ReadAndFactor, Exit
  <2>2. CASE Scan
    <3>1. mpc = "scan" /\ raced' = raced
      BY <2>2 DEF Scan, Goto
    <3>2. numWorkersAvailable \in Nat /\ numWorkersAvailable > 0 /\ Cardinality(Free) \in Nat
      BY <3>1, Finite DEF FInv, TableInv, TypeOK, TestInv, Free
    <3>3. "available" \notin raced => Cardinality(Free) > 0
      BY <3>1, <3>2 DEF FInv, CountInv
    <3>4. "available" \notin raced => \E w \in Workers : available[w]
      BY <3>3, FS_EmptySet DEF Free
    <3>5. "available" \notin raced => mpc' # "assertFailed"
      BY <2>2, <3>1, <3>2, <3>4 DEF Scan, Goto
    <3> QED BY <3>1, <3>5 DEF AssertionsHold
  <2>3. CASE ~Scan
    <3>1. mpc' = "assertFailed" => mpc = "assertFailed"
      BY <2>3 DEF Next, markWorkersAsAvailable, Manager, Worker, Over, SpawnFork, SpawnStorePid,
           SpawnStoreAvailable, ReadNumber, ReadEnd, ReadThrows, Block, Test, Suspend, Unblock,
           Claim, DecrementLoad, DecrementStore, Write, ContinueOne, RestoreDefault,
           Close, ContinueLast, Reap, Stop, ReadAndFactor, Exit, Goto
    <3> QED BY <2>1, <3>1 DEF AssertionsHold
  <2> QED BY <2>2, <2>3
<1> QED BY <1>1, <1>2, PTL DEF Spec

\* In a farm that has met none of the three races the manager never sleeps in sigsuspend
\* while a stopped worker is unknown to it and no SIGCHLD is to come: testing the count
\* and going to sleep with SIGCHLD blocked loses no wakeup.
THEOREM NoWakeupLost == Spec => []NoOtherLostWakeup
<1>1. FInv => NoOtherLostWakeup
  <2> SUFFICES ASSUME FInv, raced = {}, mpc \in {"suspend1", "suspendAll"}, ~pending
               PROVE  /\ \A w \in Workers : wpc[w] = "stopped" => available[w]
                      /\ \E w \in Workers : wpc[w] # "stopped"
                      /\ mpc = "suspend1" => \A w \in Workers : wpc[w] # "stopped"
    BY DEF NoOtherLostWakeup, SleepsOnlyIfNoneIdle
  <2>1. \A w \in Workers : wpc[w] = "stopped" => available[w]
    BY DEF FInv, TableInv, StopInv, WakeInv, Late, Taking
  <2>2. numWorkersAvailable = Cardinality(Free) /\ IsFiniteSet(Free)
    BY Finite DEF FInv, CountInv, Free, TableInv, TypeOK
  <2>3. mpc = "suspend1" => \A w \in Workers : wpc[w] # "stopped"
    <3>1. mpc = "suspend1" => Cardinality(Free) = 0
      BY <2>2 DEF FInv, TableInv, TestInv
    <3>2. mpc = "suspend1" => Free = {}
      BY <2>2, <3>1, FS_EmptySet
    <3> QED BY <2>1, <3>2 DEF Free
  <2>4. \E w \in Workers : wpc[w] # "stopped"
    <3>1. CASE mpc = "suspend1"
      BY <2>3, <3>1 DEF Workers
    <3>2. CASE mpc = "suspendAll"
      <4>1. Cardinality(Free) < NumCPUs
        BY <2>2, <3>2 DEF FInv, TableInv, TestInv
      <4>2. Free # Workers
        BY <4>1, Finite
      <4> QED BY <2>1, <4>2 DEF Free
    <3> QED BY <3>1, <3>2
  <2> QED BY <2>1, <2>3, <2>4
<1> QED BY <1>1, AlwaysInv, PTL

\* A farm that ends has factored every number it has read, each exactly once, races or
\* not: a number is in one place from getline to a worker's answer, and end of file
\* reaches no worker whose pipe still holds one.
THEOREM NumbersFactoredOnce == Spec => []EachNumberFactoredOnce
<1>1. FInv => EachNumberFactoredOnce
  <2> SUFFICES ASSUME FInv, mpc = "ended"
               PROVE  Len(factored) = line /\ {factored[k] : k \in DOMAIN factored} = 1 .. line
    BY DEF EachNumberFactoredOnce
  <2>1. \A w \in Workers : pipe[w] = <<>>
    BY DEF FInv, PipeInv
  <2>2. Written = line /\ line \in Nat
    BY DEF Written, Carrying, FInv, TableInv, TypeOK
  <2>3. factored \in Seq(1 .. MaxLines)
    BY DEF FInv, TableInv, TypeOK
  <2>4. /\ \A k \in DOMAIN factored : factored[k] \in 1 .. line
        /\ \A n \in 1 .. line : \E k \in DOMAIN factored : factored[k] = n
        /\ \A k, l \in DOMAIN factored : factored[k] = factored[l] => k = l
    BY <2>1, <2>2 DEF FInv, NumberInv
  <2>5. Len(factored) = line
    BY <2>2, <2>3, <2>4, OnceEach
  <2> QED BY <2>4, <2>5
<1> QED BY <1>1, AlwaysInv, PTL

===============================================================================
