--------------------------- MODULE ThreadPoolProofs ---------------------------
(***************************************************************************)
(* Proofs about module ThreadPool, for every number of workers, clients    *)
(* and thunks.                                                             *)
(***************************************************************************)
EXTENDS ThreadPool, FiniteSetTheorems, TLAPS

USE NAssumption, NoTaskAssumption, FiniteAssumption
USE DEF vars, poolVars, queueVars, idleVars, slotVars, dispatcherVars,
        clientVars, ownerVars, ClientAt, DispatcherAt, WorkerAt, OwnerAt

-------------------------------------------------------------------------------
(* Facts about single states                                               *)

\* The sets the invariant counts are finite.
LEMMA FiniteSets ==
  /\ IsFiniteSet(Workers) /\ Cardinality(Workers) = N
  /\ IsFiniteSet(Live) /\ Cardinality(Live) \in Nat
  /\ IsFiniteSet(Settling) /\ Cardinality(Settling) \in Nat
  /\ IsFiniteSet(Announcing) /\ Cardinality(Announcing) \in Nat
  /\ IsFiniteSet(Idle) /\ Cardinality(Idle) \in Nat
  /\ IsFiniteSet(Signalling) /\ Cardinality(Signalling) \in Nat
<1>1. IsFiniteSet(Workers) /\ Cardinality(Workers) = N
  BY FS_Interval DEF Workers
<1>2. Live \subseteq Tasks /\ Signalling \subseteq Clients
  BY DEF Live, Signalling
<1>3. /\ Settling \subseteq Workers
      /\ Announcing \subseteq Workers
      /\ Idle \subseteq Workers
  BY DEF Settling, Announcing, Idle
<1>4. /\ IsFiniteSet(Live)
      /\ IsFiniteSet(Settling)
      /\ IsFiniteSet(Announcing)
      /\ IsFiniteSet(Idle)
      /\ IsFiniteSet(Signalling)
  BY <1>1, <1>2, <1>3, FS_Subset
<1> QED BY <1>1, <1>4, FS_CardinalityType

\* A client that has not left keeps the owner from starting the destructor.
LEMMA ClientKeepsOpen ==
  ASSUME IInv, NEW c \in Clients, cpc[c] # "gone"
  PROVE  ~done /\ opc = "alive"
BY DEF IInv, TypeOK, OwnerInv, OwnerPC

\* A worker on its way through lines 76 to 85 is still counted in outstanding.
LEMMA SettlingIsCounted ==
  ASSUME IInv, NEW w \in Workers,
         wpc[w] \in {"setAvailable", "availableWorkers.signal", "decrement"}
  PROVE  ~done /\ outstanding >= 1
<1>1. ~done /\ outstanding = Cardinality(Live) + Cardinality(Settling)
  BY DEF IInv, ShutdownIsQuiet, CountInv
<1>2. w \in Settling
  BY DEF Settling
<1>3. Cardinality(Settling) # 0
  BY <1>2, FiniteSets, FS_EmptySet
<1> QED BY <1>1, <1>3, FiniteSets

\* With nothing outstanding, no thunk is live and no worker is settling.
LEMMA NothingOutstanding ==
  ASSUME IInv, ~done, outstanding = 0
  PROVE  Live = {} /\ Settling = {}
<1>1. Cardinality(Live) + Cardinality(Settling) = 0
  BY DEF IInv, CountInv
<1>2. Cardinality(Live) = 0 /\ Cardinality(Settling) = 0
  BY <1>1, FiniteSets
<1> QED BY <1>2, FiniteSets, FS_EmptySet

\* The permits are backed (the first half of what follows from the counts).
LEMMA PermitsAreBacked ==
  ASSUME IInv
  PROVE  ClaimIsBacked
<1>1. ASSUME dpc = "claim" PROVE Idle # {}
  <2>1. ~done
    BY <1>1 DEF IInv, ShutdownIsQuiet
  <2>2. Cardinality(Idle) = availableWorkers + 1 + Cardinality(Announcing)
    BY <1>1, <2>1 DEF IInv, IdleInv, AvailablePermit
  <2>3. Cardinality(Idle) # 0
    BY <2>2, FiniteSets DEF IInv, TypeOK
  <2> QED BY <2>3, FS_EmptySet
<1>2. ASSUME dpc = "pop" PROVE tasks # <<>>
  <2>1. ~done
    BY <1>2 DEF IInv, ShutdownIsQuiet
  <2>2. Len(tasks) = queued + 1 + Cardinality(Signalling)
    BY <1>2, <2>1 DEF IInv, QueueInv, QueuedPermit
  <2>3. Len(tasks) # 0
    BY <2>2, FiniteSets DEF IInv, TypeOK
  <2> QED BY <2>3
<1> QED BY <1>1, <1>2 DEF ClaimIsBacked

\* With nothing outstanding and done not raised, every thread of the pool is
\* where the constructor left it.
LEMMA QuietPool ==
  ASSUME IInv, ~done, outstanding = 0
  PROVE  /\ tasks = <<>>
         /\ queued = 0
         /\ availableWorkers = N
         /\ Idle = Workers
         /\ \A w \in Workers : ready[w] = 0 /\ wpc[w] = "ready.wait"
         /\ dpc = "queued.wait"
         /\ \A t \in Tasks : status[t] \in {"new", "finished"}
<1>1. Live = {} /\ Settling = {}
  BY NothingOutstanding
<1>2. \A t \in Tasks : status[t] \in {"new", "finished"}
  BY <1>1 DEF Live, IInv, TypeOK
<1>3. tasks = <<>>
  <2>1. ASSUME tasks # <<>> PROVE FALSE
    <3>1. 1 \in DOMAIN tasks /\ tasks[1] \in Tasks
      BY <2>1 DEF IInv, TypeOK
    <3> QED BY <3>1, <1>2 DEF IInv, PlaceInv
  <2> QED BY <2>1
<1>4. \A w \in Workers : ~Holds(w)
  BY <1>2 DEF IInv, PlaceInv
<1>5. queued = 0 /\ QueuedPermit = 0
  <2>1. 0 = queued + QueuedPermit + Cardinality(Signalling)
    BY <1>3 DEF IInv, QueueInv
  <2> QED BY <2>1, FiniteSets DEF IInv, TypeOK, QueuedPermit
<1>6. dpc = "queued.wait"
  <2>1. dpc # "assign"
    BY <1>2 DEF IInv, PlaceInv
  <2>2. dpc # "ready.signal"
    BY <1>4 DEF Holds, IInv, TypeOK
  <2> QED BY <1>5, <2>1, <2>2 DEF QueuedPermit, IInv, TypeOK, OwnerInv, DispatcherPC
<1>7. \A w \in Workers : wpc[w] = "ready.wait"
  BY <1>1, <1>4 DEF Settling, Holds, IInv, TypeOK, WorkerPC, WorkerInv
<1>8. \A w \in Workers : ready[w] = 0 /\ available[w]
  BY <1>4, <1>6, <1>7 DEF Holds, IInv, WorkerInv, Claimed, Busy
<1>9. Idle = Workers
  BY <1>8 DEF Idle
<1>10. availableWorkers = N
  <2>1. Announcing = {}
    BY <1>7 DEF Announcing
  <2>2. Cardinality(Idle) = availableWorkers + 0 + Cardinality(Announcing)
    BY <1>6 DEF IInv, IdleInv, AvailablePermit
  <2> QED BY <1>9, <2>1, <2>2, FiniteSets, FS_EmptySet DEF IInv, TypeOK
<1> QED BY <1>2, <1>3, <1>5, <1>6, <1>7, <1>8, <1>9, <1>10

-------------------------------------------------------------------------------
(* The initial state                                                       *)

\* What the constructor (lines 20 to 28) leaves behind satisfies the invariant.
LEMMA InitIInv == Init => IInv
<1> SUFFICES ASSUME Init PROVE IInv
  OBVIOUS
<1>1. TypeOK
  <2>1. 0 \in Workers
    BY DEF Workers
  <2> QED BY <2>1 DEF Init, TypeOK, DispatcherPC, WorkerPC, ClientPC, OwnerPC
<1>2. OwnerInv /\ ParkedOnlyWhileOutstanding /\ ShutdownIsQuiet
  BY DEF Init, OwnerInv, ParkedOnlyWhileOutstanding, ShutdownIsQuiet
<1>3. CountInv
  <2>1. Live = {} /\ Settling = {}
    BY DEF Init, Live, Settling
  <2> QED BY <2>1, FS_EmptySet DEF Init, CountInv
<1>4. QueueInv
  <2>1. Signalling = {}
    BY DEF Init, Signalling
  <2> QED BY <2>1, FS_EmptySet DEF Init, QueueInv, QueuedPermit
<1>5. IdleInv
  <2>1. Announcing = {} /\ Idle = Workers
    BY DEF Init, Announcing, Idle
  <2> QED BY <2>1, FiniteSets, FS_EmptySet DEF Init, IdleInv, AvailablePermit
<1>6. \A w \in Workers : WorkerInv(w)
  BY DEF Init, WorkerInv, Claimed, Busy
<1>7. PlaceInv /\ UniqueInv
  BY DEF Init, PlaceInv, UniqueInv, Holds
<1> QED BY <1>1, <1>2, <1>3, <1>4, <1>5, <1>6, <1>7 DEF IInv

-------------------------------------------------------------------------------
(* The steps, one lemma per conjunct of the invariant                      *)

\* Every step of every thread keeps the types: no wait() takes a count below 0,
\* and --outstanding (line 84) happens only when something is outstanding.
LEMMA TypeStep == IInv /\ [Next]_vars => TypeOK'
<1> SUFFICES ASSUME IInv, [Next]_vars PROVE TypeOK'
  OBVIOUS
<1> USE DEF IInv, TypeOK
<1>1. ASSUME NEW c \in Clients, ClientStep(c) \/ SpuriousWakeup(c) PROVE TypeOK'
  <2>1. ASSUME NEW t \in Tasks, ScheduleCount(c, t) PROVE TypeOK'
    BY <2>1 DEF ScheduleCount, ClientPC
  <2>2. CASE SchedulePush(c)
    <3>1. arg[c] \in Tasks
      BY <2>2, ClientKeepsOpen DEF SchedulePush, PlaceInv
    <3> QED BY <2>2, <3>1 DEF SchedulePush, ClientPC
  <2>3. CASE ScheduleSignal(c)
    BY <2>3 DEF ScheduleSignal, ClientPC
  <2>4. CASE WaitCall(c) \/ WaitTest(c) \/ Leave(c) \/ SpuriousWakeup(c)
    BY <2>4 DEF WaitCall, WaitTest, Leave, SpuriousWakeup, ClientPC
  <2> QED BY <1>1, <2>1, <2>2, <2>3, <2>4 DEF ClientStep
<1>2. CASE Dispatcher
  <2> USE DEF DispatcherPC
  <2>1. CASE DispatchWaitQueued \/ DispatchCheckQueued
    BY <2>1 DEF DispatchWaitQueued, DispatchCheckQueued
  <2>2. CASE DispatchWaitAvailable \/ DispatchCheckAvailable
    BY <2>2 DEF DispatchWaitAvailable, DispatchCheckAvailable
  <2>3. CASE DispatchClaim
    BY <2>3 DEF DispatchClaim
  <2>4. CASE DispatchPop
    BY <2>4 DEF DispatchPop
  <2>5. CASE DispatchAssign
    BY <2>5 DEF DispatchAssign
  <2>6. CASE DispatchReady
    BY <2>6 DEF DispatchReady
  <2> QED BY <1>2, <2>1, <2>2, <2>3, <2>4, <2>5, <2>6 DEF Dispatcher
<1>3. ASSUME NEW w \in Workers, Worker(w) PROVE TypeOK'
  <2> USE DEF WorkerPC
  <2>1. CASE WorkWait(w)
    BY <2>1 DEF WorkWait
  <2>2. CASE WorkExit(w) \/ WorkStart(w) \/ WorkReturn(w)
    BY <2>2 DEF WorkExit, WorkStart, WorkReturn
  <2>3. CASE WorkSetAvailable(w)
    BY <2>3 DEF WorkSetAvailable
  <2>4. CASE WorkSignalAvailable(w)
    BY <2>4 DEF WorkSignalAvailable
  <2>5. CASE WorkDecrement(w)
    <3>1. outstanding >= 1
      BY <2>5, SettlingIsCounted DEF WorkDecrement
    <3>2. cpc' \in [Clients -> ClientPC] /\ opc' \in OwnerPC
      BY <2>5 DEF WorkDecrement, ClientPC, OwnerPC
    <3> QED BY <2>5, <3>1, <3>2 DEF WorkDecrement
  <2> QED BY <1>3, <2>1, <2>2, <2>3, <2>4, <2>5 DEF Worker
<1>4. CASE Owner \/ DestroySpuriousWakeup
  <2> USE DEF OwnerPC
  <2>1. CASE DestroyCall \/ DestroyTest \/ DestroySpuriousWakeup \/ DestroyReturn
    BY <2>1 DEF DestroyCall, DestroyTest, DestroySpuriousWakeup, DestroyReturn
  <2>2. CASE DestroySetDone \/ DestroyJoinDispatcher
    BY <2>2 DEF DestroySetDone, DestroyJoinDispatcher
  <2>3. CASE DestroySignalQueued
    BY <2>3 DEF DestroySignalQueued
  <2>4. CASE DestroySignalAvailable
    BY <2>4 DEF DestroySignalAvailable
  <2>5. CASE DestroySignalReady
    <3>1. next \in Workers
      BY <2>5 DEF DestroySignalReady, Workers
    <3> QED BY <2>5, <3>1 DEF DestroySignalReady
  <2>6. CASE DestroyJoinWorker
    BY <2>6 DEF DestroyJoinWorker, OwnerInv
  <2> QED BY <1>4, <2>1, <2>2, <2>3, <2>4, <2>5, <2>6 DEF Owner
<1>5. CASE UNCHANGED vars
  BY <1>5
<1> QED BY <1>1, <1>2, <1>3, <1>4, <1>5 DEF Next, Destroyed

\* Every step keeps what the destructor relies on: no client is left when it
\* runs, and from line 96 on nothing is outstanding.
LEMMA OwnerStep == IInv /\ [Next]_vars => OwnerInv'
<1> SUFFICES ASSUME IInv, [Next]_vars PROVE OwnerInv'
  OBVIOUS
<1> USE DEF IInv, OwnerInv
<1>1. ASSUME NEW c \in Clients, ClientStep(c) \/ SpuriousWakeup(c) PROVE OwnerInv'
  <2>1. cpc[c] # "gone"
    BY <1>1 DEF ClientStep, ScheduleCount, SchedulePush, ScheduleSignal, WaitCall,
         WaitTest, Leave, SpuriousWakeup
  <2>2. UNCHANGED <<done, dispatcherVars, ownerVars>>
    BY <1>1 DEF ClientStep, ScheduleCount, SchedulePush, ScheduleSignal, WaitCall,
         WaitTest, Leave, SpuriousWakeup
  <2> QED BY <2>1, <2>2, ClientKeepsOpen
<1>2. CASE Dispatcher
  <2>1. UNCHANGED <<cpc, opc, done, outstanding, next>>
    BY <1>2 DEF Dispatcher, DispatchWaitQueued, DispatchCheckQueued,
         DispatchWaitAvailable, DispatchCheckAvailable, DispatchClaim,
         DispatchPop, DispatchAssign, DispatchReady
  <2>2. ~done => dpc' # "exited"
    BY <1>2 DEF Dispatcher, DispatchWaitQueued, DispatchCheckQueued,
         DispatchWaitAvailable, DispatchCheckAvailable, DispatchClaim,
         DispatchPop, DispatchAssign, DispatchReady
  <2> QED BY <2>1, <2>2
<1>3. ASSUME NEW w \in Workers, Worker(w) PROVE OwnerInv'
  <2>1. CASE WorkDecrement(w)
    <3>1. ~done /\ outstanding >= 1
      BY <2>1, SettlingIsCounted DEF WorkDecrement
    <3>2. opc \in {"alive", "wait", "parked"}
      BY <3>1 DEF TypeOK
    <3> QED BY <2>1, <3>1, <3>2 DEF WorkDecrement, TypeOK
  <2>2. CASE ~WorkDecrement(w)
    BY <1>3, <2>2 DEF Worker, WorkWait, WorkExit, WorkStart, WorkReturn,
         WorkSetAvailable, WorkSignalAvailable
  <2> QED BY <2>1, <2>2
<1>4. CASE Owner \/ DestroySpuriousWakeup
  <2>1. CASE DestroyCall \/ DestroyTest \/ DestroySpuriousWakeup \/ DestroyReturn
    BY <2>1 DEF DestroyCall, DestroyTest, DestroySpuriousWakeup, DestroyReturn
  <2>2. CASE DestroySetDone \/ DestroySignalQueued \/ DestroySignalAvailable
    BY <2>2 DEF DestroySetDone, DestroySignalQueued, DestroySignalAvailable
  <2>3. CASE DestroyJoinDispatcher \/ DestroySignalReady \/ DestroyJoinWorker
    BY <2>3 DEF DestroyJoinDispatcher, DestroySignalReady, DestroyJoinWorker
  <2> QED BY <1>4, <2>1, <2>2, <2>3 DEF Owner
<1>5. CASE UNCHANGED vars
  BY <1>5
<1> QED BY <1>1, <1>2, <1>3, <1>4, <1>5 DEF Next, Destroyed

\* Every step leaves nobody parked in allDone.wait without something outstanding:
\* a thread parks only after a test that found some, and line 84 wakes them all.
LEMMA ParkedStep == IInv /\ [Next]_vars => ParkedOnlyWhileOutstanding'
<1> SUFFICES ASSUME IInv, [Next]_vars PROVE ParkedOnlyWhileOutstanding'
  OBVIOUS
<1> USE DEF IInv, ParkedOnlyWhileOutstanding
<1>1. ASSUME NEW c \in Clients, ClientStep(c) \/ SpuriousWakeup(c)
      PROVE  ParkedOnlyWhileOutstanding'
  <2>1. CASE WaitTest(c)
    BY <2>1 DEF WaitTest, TypeOK
  <2>2. CASE ~WaitTest(c)
    BY <1>1, <2>2 DEF ClientStep, ScheduleCount, SchedulePush, ScheduleSignal,
         WaitCall, Leave, SpuriousWakeup, TypeOK
  <2> QED BY <2>1, <2>2
<1>2. CASE Dispatcher
  BY <1>2 DEF Dispatcher, DispatchWaitQueued, DispatchCheckQueued,
       DispatchWaitAvailable, DispatchCheckAvailable, DispatchClaim,
       DispatchPop, DispatchAssign, DispatchReady
<1>3. ASSUME NEW w \in Workers, Worker(w) PROVE ParkedOnlyWhileOutstanding'
  <2>1. CASE WorkDecrement(w)
    <3>1. outstanding >= 1
      BY <2>1, SettlingIsCounted DEF WorkDecrement
    <3>2. CASE outstanding' = 0
      BY <2>1, <3>2 DEF WorkDecrement
    <3>3. CASE outstanding' # 0
      BY <2>1, <3>1, <3>3 DEF WorkDecrement, TypeOK
    <3> QED BY <3>2, <3>3
  <2>2. CASE ~WorkDecrement(w)
    BY <1>3, <2>2 DEF Worker, WorkWait, WorkExit, WorkStart, WorkReturn,
         WorkSetAvailable, WorkSignalAvailable
  <2> QED BY <2>1, <2>2
<1>4. CASE Owner \/ DestroySpuriousWakeup
  BY <1>4 DEF Owner, DestroyCall, DestroyTest, DestroySpuriousWakeup,
       DestroyReturn, DestroySetDone, DestroySignalQueued,
       DestroySignalAvailable, DestroyJoinDispatcher, DestroySignalReady,
       DestroyJoinWorker, TypeOK
<1>5. CASE UNCHANGED vars
  BY <1>5
<1> QED BY <1>1, <1>2, <1>3, <1>4, <1>5 DEF Next, Destroyed

\* Every step keeps a pool whose done is raised free of thunks: the destructor
\* raises it only on a quiet pool (QuietPool), and nobody schedules any more.
LEMMA ShutdownStep == IInv /\ [Next]_vars => ShutdownIsQuiet'
<1> SUFFICES ASSUME IInv, [Next]_vars, done' PROVE ShutdownIsQuiet'
  BY DEF ShutdownIsQuiet
<1>1. ASSUME NEW c \in Clients, ClientStep(c) \/ SpuriousWakeup(c) PROVE FALSE
  <2>1. cpc[c] # "gone" /\ done' = done
    BY <1>1 DEF ClientStep, ScheduleCount, SchedulePush, ScheduleSignal, WaitCall,
         WaitTest, Leave, SpuriousWakeup
  <2> QED BY <2>1, ClientKeepsOpen
<1>2. CASE Dispatcher
  BY <1>2 DEF IInv, ShutdownIsQuiet, Dispatcher, DispatchWaitQueued,
       DispatchCheckQueued, DispatchWaitAvailable, DispatchCheckAvailable,
       DispatchClaim, DispatchPop, DispatchAssign, DispatchReady
<1>3. ASSUME NEW w \in Workers, Worker(w) PROVE ShutdownIsQuiet'
  BY <1>3 DEF IInv, ShutdownIsQuiet, TypeOK, Worker, WorkWait, WorkExit,
       WorkStart, WorkReturn, WorkSetAvailable, WorkSignalAvailable, WorkDecrement
<1>4. CASE DestroySetDone
  <2>1. ~done /\ outstanding = 0
    BY <1>4 DEF IInv, OwnerInv, DestroySetDone
  <2> QED BY <1>4, <2>1, QuietPool DEF DestroySetDone, ShutdownIsQuiet
<1>5. CASE (Owner /\ ~DestroySetDone) \/ DestroySpuriousWakeup
  BY <1>5 DEF IInv, ShutdownIsQuiet, Owner, DestroyCall, DestroyTest,
       DestroySpuriousWakeup, DestroyReturn, DestroySignalQueued,
       DestroySignalAvailable, DestroyJoinDispatcher, DestroySignalReady,
       DestroyJoinWorker
<1>6. CASE UNCHANGED vars
  BY <1>6 DEF IInv, ShutdownIsQuiet
<1> QED BY <1>1, <1>2, <1>3, <1>4, <1>5, <1>6 DEF Next, Destroyed

\* done is never taken back.
LEMMA DoneIsStable == ASSUME [Next]_vars, ~done' PROVE ~done
BY DEF Next, ClientStep, ScheduleCount, SchedulePush, ScheduleSignal, WaitCall,
     WaitTest, Leave, SpuriousWakeup, Dispatcher, DispatchWaitQueued,
     DispatchCheckQueued, DispatchWaitAvailable, DispatchCheckAvailable,
     DispatchClaim, DispatchPop, DispatchAssign, DispatchReady, Worker, WorkWait,
     WorkExit, WorkStart, WorkReturn, WorkSetAvailable, WorkSignalAvailable,
     WorkDecrement, Owner, DestroyCall, DestroyTest, DestroySpuriousWakeup,
     DestroyReturn, DestroySetDone, DestroySignalQueued, DestroySignalAvailable,
     DestroyJoinDispatcher, DestroySignalReady, DestroyJoinWorker, Destroyed

\* Every step keeps outstanding equal to the thunks not finished plus the workers
\* that have run one and not counted it out yet (lines 33 and 84).
LEMMA CountStep == ASSUME IInv, [Next]_vars, ~done' PROVE CountInv'
<1>0. ~done /\ TypeOK /\ CountInv /\ PlaceInv
  BY DoneIsStable DEF IInv
<1> USE FiniteSets
<1>1. ASSUME UNCHANGED <<outstanding, status, wpc>> PROVE CountInv'
  BY <1>0, <1>1 DEF CountInv, Live, Settling
<1>2. ASSUME NEW c \in Clients, NEW t \in Tasks, ScheduleCount(c, t)
      PROVE  CountInv'
  <2>1. Live' = Live \cup {t} /\ t \notin Live /\ Settling' = Settling
    BY <1>0, <1>2 DEF ScheduleCount, Live, Settling, TypeOK
  <2>2. Cardinality(Live') = Cardinality(Live) + 1
    BY <2>1, FS_AddElement
  <2> QED BY <1>0, <1>2, <2>1, <2>2 DEF CountInv, ScheduleCount
<1>3. ASSUME NEW w \in Workers, Worker(w) PROVE CountInv'
  <2>1. CASE WorkWait(w) \/ WorkSetAvailable(w) \/ WorkSignalAvailable(w)
    <3>1. Live' = Live /\ Settling' = Settling /\ outstanding' = outstanding
      BY <1>0, <2>1 DEF WorkWait, WorkSetAvailable, WorkSignalAvailable, Live,
           Settling, TypeOK
    <3> QED BY <1>0, <3>1 DEF CountInv
  <2>2. CASE WorkExit(w)
    BY <1>0, <2>2 DEF WorkExit
  <2>3. CASE WorkStart(w)
    <3>1. thunk[w] \in Tasks /\ status[thunk[w]] = "pending"
      BY <1>0, <2>3 DEF WorkStart, PlaceInv, Holds
    <3>2. Live' = Live /\ Settling' = Settling
      BY <1>0, <2>3, <3>1 DEF WorkStart, Live, Settling, TypeOK
    <3> QED BY <1>0, <2>3, <3>2 DEF CountInv, WorkStart
  <2>4. CASE WorkReturn(w)
    <3>1. thunk[w] \in Tasks /\ status[thunk[w]] = "running"
      BY <1>0, <2>4 DEF WorkReturn, PlaceInv, Holds
    <3>2. Live' = Live \ {thunk[w]} /\ thunk[w] \in Live
      BY <1>0, <2>4, <3>1 DEF WorkReturn, Live, TypeOK
    <3>3. Settling' = Settling \cup {w} /\ w \notin Settling
      BY <1>0, <2>4 DEF WorkReturn, Settling, TypeOK
    <3>4. Cardinality(Live') = Cardinality(Live) - 1
      BY <3>2, FS_RemoveElement
    <3>5. Cardinality(Settling') = Cardinality(Settling) + 1
      BY <3>3, FS_AddElement
    <3> QED BY <1>0, <2>4, <3>4, <3>5 DEF CountInv, WorkReturn
  <2>5. CASE WorkDecrement(w)
    <3>1. Settling' = Settling \ {w} /\ w \in Settling /\ Live' = Live
      BY <1>0, <2>5 DEF WorkDecrement, Settling, Live, TypeOK
    <3>2. Cardinality(Settling') = Cardinality(Settling) - 1
      BY <3>1, FS_RemoveElement
    <3> QED BY <1>0, <2>5, <3>1, <3>2
          DEF CountInv, WorkDecrement
  <2> QED BY <1>3, <2>1, <2>2, <2>3, <2>4, <2>5 DEF Worker
<1>4. ASSUME NEW c \in Clients,
             \/ SchedulePush(c) \/ ScheduleSignal(c) \/ WaitCall(c)
             \/ WaitTest(c) \/ Leave(c) \/ SpuriousWakeup(c)
      PROVE  CountInv'
  BY <1>1, <1>4 DEF SchedulePush, ScheduleSignal, WaitCall, WaitTest, Leave,
       SpuriousWakeup
<1>5. CASE Dispatcher
  BY <1>1, <1>5 DEF Dispatcher, DispatchWaitQueued, DispatchCheckQueued,
       DispatchWaitAvailable, DispatchCheckAvailable, DispatchClaim, DispatchPop,
       DispatchAssign, DispatchReady
<1>6. CASE Owner \/ DestroySpuriousWakeup \/ UNCHANGED vars
  BY <1>1, <1>6 DEF Owner, DestroyCall, DestroyTest, DestroySpuriousWakeup,
       DestroyReturn, DestroySetDone, DestroySignalQueued,
       DestroySignalAvailable, DestroyJoinDispatcher, DestroySignalReady,
       DestroyJoinWorker
<1> QED BY <1>2, <1>3, <1>4, <1>5, <1>6 DEF Next, ClientStep, Destroyed

\* Every step keeps the queue as long as the permits of queued, in the semaphore,
\* in the dispatcher's hands or about to be signalled (lines 37, 39, 44 and 61).
LEMMA QueueStep == ASSUME IInv, [Next]_vars, ~done' PROVE QueueInv'
<1>0. ~done /\ TypeOK /\ QueueInv
  BY DoneIsStable DEF IInv
<1> USE FiniteSets
<1>1. ASSUME UNCHANGED <<tasks, queued, dpc>>, Signalling' = Signalling
      PROVE  QueueInv'
  BY <1>0, <1>1 DEF QueueInv, QueuedPermit
<1>2. ASSUME NEW c \in Clients, ClientStep(c) \/ SpuriousWakeup(c) PROVE QueueInv'
  <2>1. CASE SchedulePush(c)
    <3>1. Signalling' = Signalling \cup {c} /\ c \notin Signalling
      BY <1>0, <2>1 DEF SchedulePush, Signalling, TypeOK
    <3>2. Cardinality(Signalling') = Cardinality(Signalling) + 1
      BY <3>1, FS_AddElement
    <3>3. Len(tasks') = Len(tasks) + 1
      BY <2>1, ClientKeepsOpen DEF SchedulePush, IInv, TypeOK, PlaceInv
    <3>4. queued' = queued /\ QueuedPermit' = QueuedPermit
      BY <2>1 DEF SchedulePush, QueuedPermit
    <3>5. queued \in Nat /\ QueuedPermit \in Nat
      BY <1>0 DEF QueuedPermit, TypeOK
    <3> QED BY <1>0, <3>2, <3>3, <3>4, <3>5 DEF QueueInv
  <2>2. CASE ScheduleSignal(c)
    <3>1. Signalling' = Signalling \ {c} /\ c \in Signalling
      BY <1>0, <2>2 DEF ScheduleSignal, Signalling, TypeOK
    <3>2. Cardinality(Signalling') = Cardinality(Signalling) - 1
      BY <3>1, FS_RemoveElement
    <3>3. UNCHANGED <<tasks, QueuedPermit>> /\ queued' = queued + 1
      BY <2>2 DEF ScheduleSignal, QueuedPermit
    <3> QED BY <1>0, <3>2, <3>3 DEF QueueInv, QueuedPermit, TypeOK
  <2>3. CASE ~SchedulePush(c) /\ ~ScheduleSignal(c)
    <3>1. Signalling' = Signalling
      BY <1>0, <1>2, <2>3 DEF ClientStep, ScheduleCount, WaitCall, WaitTest,
           Leave, SpuriousWakeup, Signalling, TypeOK
    <3> QED BY <1>1, <1>2, <2>3, <3>1 DEF ClientStep, ScheduleCount, WaitCall,
              WaitTest, Leave, SpuriousWakeup
  <2> QED BY <2>1, <2>2, <2>3
<1>3. CASE Dispatcher
  <2>1. Signalling' = Signalling
    BY <1>3 DEF Dispatcher, DispatchWaitQueued, DispatchCheckQueued,
         DispatchWaitAvailable, DispatchCheckAvailable, DispatchClaim,
         DispatchPop, DispatchAssign, DispatchReady, Signalling
  <2>2. CASE DispatchPop
    <3>1. Len(tasks') = Len(tasks) - 1
      BY <1>0, <2>2 DEF DispatchPop, TypeOK
    <3> QED BY <1>0, <2>1, <2>2, <3>1
          DEF DispatchPop, QueueInv, QueuedPermit, TypeOK
  <2>3. CASE DispatchWaitQueued
    BY <1>0, <2>1, <2>3 DEF DispatchWaitQueued, QueueInv, QueuedPermit, TypeOK
  <2>4. CASE ~DispatchPop /\ ~DispatchWaitQueued
    <3>1. UNCHANGED <<tasks, queued, QueuedPermit>>
      BY <1>0, <1>3, <2>4 DEF Dispatcher, DispatchCheckQueued,
           DispatchWaitAvailable, DispatchCheckAvailable, DispatchClaim,
           DispatchAssign, DispatchReady, QueuedPermit
    <3> QED BY <1>0, <2>1, <3>1 DEF QueueInv
  <2> QED BY <2>2, <2>3, <2>4
<1>4. ASSUME NEW w \in Workers, Worker(w) PROVE QueueInv'
  <2>1. Signalling' = Signalling
    BY <1>0, <1>4 DEF Worker, WorkWait, WorkExit, WorkStart, WorkReturn,
         WorkSetAvailable, WorkSignalAvailable, WorkDecrement, Signalling, TypeOK
  <2> QED BY <1>1, <1>4, <2>1 DEF Worker, WorkWait, WorkExit, WorkStart,
            WorkReturn, WorkSetAvailable, WorkSignalAvailable, WorkDecrement
<1>5. CASE Owner \/ DestroySpuriousWakeup \/ UNCHANGED vars
  <2>1. ~DestroySignalQueued /\ Signalling' = Signalling
    BY <1>0, <1>5 DEF IInv, OwnerInv, Owner, DestroyCall, DestroyTest,
         DestroySpuriousWakeup, DestroyReturn, DestroySetDone,
         DestroySignalQueued, DestroySignalAvailable, DestroyJoinDispatcher,
         DestroySignalReady, DestroyJoinWorker, Signalling
  <2> QED BY <1>1, <1>5, <2>1 DEF Owner, DestroyCall, DestroyTest,
            DestroySpuriousWakeup, DestroyReturn, DestroySetDone,
            DestroySignalAvailable, DestroyJoinDispatcher, DestroySignalReady,
            DestroyJoinWorker
<1> QED BY <1>2, <1>3, <1>4, <1>5 DEF Next, Destroyed

\* Every step keeps as many workers marked available as there are permits of
\* availableWorkers (lines 46, 53, 78 and 80).
LEMMA IdleStep == ASSUME IInv, [Next]_vars, ~done' PROVE IdleInv'
<1>0. ~done /\ TypeOK /\ IdleInv
  BY DoneIsStable DEF IInv
<1> USE FiniteSets
<1>1. ASSUME UNCHANGED <<available, availableWorkers, dpc>>,
             Announcing' = Announcing
      PROVE  IdleInv'
  BY <1>0, <1>1 DEF IdleInv, Idle, AvailablePermit
<1>2. ASSUME NEW c \in Clients, ClientStep(c) \/ SpuriousWakeup(c) PROVE IdleInv'
  BY <1>1, <1>2 DEF ClientStep, ScheduleCount, SchedulePush, ScheduleSignal,
       WaitCall, WaitTest, Leave, SpuriousWakeup, Announcing
<1>3. CASE Dispatcher
  <2>1. Announcing' = Announcing
    BY <1>3 DEF Dispatcher, DispatchWaitQueued, DispatchCheckQueued,
         DispatchWaitAvailable, DispatchCheckAvailable, DispatchClaim,
         DispatchPop, DispatchAssign, DispatchReady, Announcing
  <2>2. CASE DispatchClaim
    <3>1. PICK w \in Workers : w \in Idle /\ available' = [available EXCEPT ![w] = FALSE]
      BY <2>2, PermitsAreBacked DEF DispatchClaim, ScanFinds, ClaimIsBacked
    <3>2. Idle' = Idle \ {w}
      BY <1>0, <3>1 DEF Idle, TypeOK
    <3>3. Cardinality(Idle') = Cardinality(Idle) - 1
      BY <3>1, <3>2, FS_RemoveElement
    <3>4. AvailablePermit = 1 /\ AvailablePermit' = 0
      BY <2>2 DEF DispatchClaim, AvailablePermit
    <3>5. availableWorkers' = availableWorkers /\ availableWorkers \in Nat
      BY <1>0, <2>2 DEF DispatchClaim, TypeOK
    <3> QED BY <1>0, <2>1, <3>3, <3>4, <3>5 DEF IdleInv
  <2>3. CASE DispatchWaitAvailable
    <3>1. Idle' = Idle /\ AvailablePermit = 0 /\ AvailablePermit' = 1
      BY <2>3 DEF DispatchWaitAvailable, Idle, AvailablePermit
    <3> QED BY <1>0, <2>1, <2>3, <3>1 DEF DispatchWaitAvailable, IdleInv, TypeOK
  <2>4. CASE ~DispatchClaim /\ ~DispatchWaitAvailable
    <3>1. /\ Idle' = Idle
          /\ AvailablePermit' = AvailablePermit
          /\ availableWorkers' = availableWorkers
      BY <1>0, <1>3, <2>4 DEF Dispatcher, DispatchWaitQueued,
           DispatchCheckQueued, DispatchCheckAvailable, DispatchPop,
           DispatchAssign, DispatchReady, Idle, AvailablePermit
    <3> QED BY <1>0, <2>1, <3>1 DEF IdleInv
  <2> QED BY <2>2, <2>3, <2>4
<1>4. ASSUME NEW w \in Workers, Worker(w) PROVE IdleInv'
  <2>1. AvailablePermit' = AvailablePermit /\ AvailablePermit \in Nat
    BY <1>4 DEF Worker, WorkWait, WorkExit, WorkStart, WorkReturn,
         WorkSetAvailable, WorkSignalAvailable, WorkDecrement, AvailablePermit
  <2>2. CASE WorkSetAvailable(w)
    <3>1. Idle' = Idle \cup {w} /\ w \notin Idle
      BY <1>0, <2>2 DEF WorkSetAvailable, Idle, IInv, TypeOK, WorkerInv, Busy
    <3>2. Announcing' = Announcing \cup {w} /\ w \notin Announcing
      BY <1>0, <2>2 DEF WorkSetAvailable, Announcing, TypeOK
    <3>3. /\ Cardinality(Idle') = Cardinality(Idle) + 1
          /\ Cardinality(Announcing') = Cardinality(Announcing) + 1
      BY <3>1, <3>2, FS_AddElement
    <3>4. availableWorkers' = availableWorkers /\ availableWorkers \in Nat
      BY <1>0, <2>2 DEF WorkSetAvailable, TypeOK
    <3> QED BY <1>0, <2>1, <3>3, <3>4 DEF IdleInv
  <2>3. CASE WorkSignalAvailable(w)
    <3>1. Announcing' = Announcing \ {w} /\ w \in Announcing
      BY <1>0, <2>3 DEF WorkSignalAvailable, Announcing, TypeOK
    <3>2. Cardinality(Announcing') = Cardinality(Announcing) - 1
      BY <3>1, FS_RemoveElement
    <3>3. Idle' = Idle
      BY <2>3 DEF WorkSignalAvailable, Idle
    <3>4. availableWorkers' = availableWorkers + 1 /\ availableWorkers \in Nat
      BY <1>0, <2>3 DEF WorkSignalAvailable, TypeOK
    <3> QED BY <1>0, <2>1, <3>2, <3>3, <3>4 DEF IdleInv
  <2>4. CASE ~WorkSetAvailable(w) /\ ~WorkSignalAvailable(w)
    <3>1. Announcing' = Announcing
      BY <1>0, <1>4, <2>4 DEF Worker, WorkWait, WorkExit, WorkStart, WorkReturn,
           WorkDecrement, Announcing, TypeOK
    <3> QED BY <1>1, <1>4, <2>4, <3>1 DEF Worker, WorkWait, WorkExit, WorkStart,
              WorkReturn, WorkDecrement
  <2> QED BY <2>2, <2>3, <2>4
<1>5. CASE Owner \/ DestroySpuriousWakeup \/ UNCHANGED vars
  <2>1. ~DestroySignalAvailable /\ Announcing' = Announcing
    BY <1>0, <1>5 DEF IInv, OwnerInv, Owner, DestroyCall, DestroyTest,
         DestroySpuriousWakeup, DestroyReturn, DestroySetDone,
         DestroySignalQueued, DestroySignalAvailable, DestroyJoinDispatcher,
         DestroySignalReady, DestroyJoinWorker, Announcing
  <2> QED BY <1>1, <1>5, <2>1 DEF Owner, DestroyCall, DestroyTest,
            DestroySpuriousWakeup, DestroyReturn, DestroySetDone,
            DestroySignalQueued, DestroyJoinDispatcher, DestroySignalReady,
            DestroyJoinWorker
<1> QED BY <1>2, <1>3, <1>4, <1>5 DEF Next, Destroyed

\* What clients do does not concern the workers.
LEMMA ClientFrame ==
  ASSUME NEW c \in Clients, ClientStep(c) \/ SpuriousWakeup(c)
  PROVE  UNCHANGED <<idleVars, slotVars, done, dispatcherVars, wpc, ownerVars>>
BY DEF ClientStep, ScheduleCount, SchedulePush, ScheduleSignal, WaitCall,
     WaitTest, Leave, SpuriousWakeup

\* Before done is raised, the destructor only waits.
LEMMA OwnerFrame ==
  ASSUME IInv, ~done, Owner \/ DestroySpuriousWakeup
  PROVE  UNCHANGED <<queueVars, idleVars, slotVars, outstanding, dispatcherVars,
                     wpc, clientVars, status>>
BY DEF IInv, OwnerInv, Owner, DestroyCall, DestroyTest, DestroySpuriousWakeup,
     DestroyReturn, DestroySetDone, DestroySignalQueued, DestroySignalAvailable,
     DestroyJoinDispatcher, DestroySignalReady, DestroyJoinWorker

\* Every step keeps each worker in exactly one of four conditions: available,
\* claimed by the dispatcher, signalled, or busy with its thunk.
LEMMA WorkerStep ==
  ASSUME IInv, [Next]_vars, ~done', NEW v \in Workers
  PROVE  WorkerInv(v)'
<1>0. ~done /\ TypeOK /\ WorkerInv(v)
  BY DoneIsStable DEF IInv
<1> USE DEF WorkerInv, Claimed, Busy
<1>1. ASSUME UNCHANGED <<ready, available, id, dpc, wpc>> PROVE WorkerInv(v)'
  BY <1>0, <1>1
<1>2. ASSUME NEW c \in Clients, ClientStep(c) \/ SpuriousWakeup(c)
      PROVE  WorkerInv(v)'
  BY <1>1, <1>2, ClientFrame
<1>3. CASE Dispatcher
  <2>1. CASE DispatchClaim
    <3>1. PICK w \in Workers :
            /\ w \in Idle /\ id' = w
            /\ available' = [available EXCEPT ![w] = FALSE]
      BY <2>1, PermitsAreBacked DEF DispatchClaim, ScanFinds, ClaimIsBacked
    <3> QED BY <1>0, <2>1, <3>1 DEF DispatchClaim, Idle, TypeOK
  <2>2. CASE DispatchReady
    BY <1>0, <2>2 DEF DispatchReady, TypeOK
  <2>3. CASE ~DispatchClaim /\ ~DispatchReady
    BY <1>0, <1>3, <2>3 DEF Dispatcher, DispatchWaitQueued, DispatchCheckQueued,
         DispatchWaitAvailable, DispatchCheckAvailable, DispatchPop, DispatchAssign
  <2> QED BY <2>1, <2>2, <2>3
<1>4. ASSUME NEW w \in Workers, Worker(w) PROVE WorkerInv(v)'
  <2>1. CASE WorkWait(w)
    BY <1>0, <2>1 DEF WorkWait, TypeOK
  <2>2. CASE WorkSetAvailable(w)
    BY <1>0, <2>2 DEF WorkSetAvailable, TypeOK
  <2>3. CASE ~WorkWait(w) /\ ~WorkSetAvailable(w)
    BY <1>0, <1>4, <2>3 DEF Worker, WorkExit, WorkStart, WorkReturn,
         WorkSignalAvailable, WorkDecrement, TypeOK
  <2> QED BY <2>1, <2>2, <2>3
<1>5. CASE Owner \/ DestroySpuriousWakeup \/ UNCHANGED vars
  BY <1>0, <1>1, <1>5, OwnerFrame
<1> QED BY <1>2, <1>3, <1>4, <1>5 DEF Next, Destroyed

\* A worker that starts or finishes a thunk holds it.
LEMMA RunningIsHeld ==
  ASSUME IInv, ~done, NEW w \in Workers, wpc[w] \in {"done?", "running"}
  PROVE  /\ Holds(w)
         /\ thunk[w] \in Tasks
         /\ status[thunk[w]] = IF wpc[w] = "running" THEN "running" ELSE "pending"
BY DEF IInv, PlaceInv, Holds

\* Every step keeps each thunk's status in agreement with the place that holds it:
\* a caller of schedule(), the queue, the dispatcher or a worker's slot.
LEMMA PlaceStep == ASSUME IInv, [Next]_vars, ~done' PROVE PlaceInv'
<1>0. ~done /\ TypeOK /\ PlaceInv /\ UniqueInv /\ \A w \in Workers : WorkerInv(w)
  BY DoneIsStable DEF IInv
<1>1. ASSUME NEW c \in Clients, ClientStep(c) \/ SpuriousWakeup(c) PROVE PlaceInv'
  <2>1. ASSUME NEW t \in Tasks, ScheduleCount(c, t) PROVE PlaceInv'
    <3>1. status[t] = "new" /\ \A u \in Tasks : u # t => status'[u] = status[u]
      BY <1>0, <2>1 DEF ScheduleCount, TypeOK
    <3> QED BY <1>0, <2>1, <3>1 DEF ScheduleCount, PlaceInv, Holds, TypeOK
  <2>2. CASE SchedulePush(c)
    <3>1. arg[c] \in Tasks /\ status[arg[c]] = "pending"
      BY <1>0, <2>2 DEF SchedulePush, PlaceInv
    <3>2. \A i \in DOMAIN tasks' : \/ i \in DOMAIN tasks /\ tasks'[i] = tasks[i]
                                 \/ tasks'[i] = arg[c]
      BY <1>0, <2>2, <3>1 DEF SchedulePush, TypeOK
    <3> QED BY <1>0, <2>2, <3>1, <3>2 DEF SchedulePush, PlaceInv, Holds, TypeOK
  <2>3. CASE ScheduleSignal(c) \/ WaitCall(c) \/ WaitTest(c) \/ Leave(c)
               \/ SpuriousWakeup(c)
    BY <1>0, <2>3 DEF ScheduleSignal, WaitCall, WaitTest, Leave, SpuriousWakeup,
         PlaceInv, Holds, TypeOK
  <2> QED BY <1>1, <2>1, <2>2, <2>3 DEF ClientStep
<1>2. CASE Dispatcher
  <2>1. CASE DispatchPop
    <3>1. Head(tasks) = tasks[1] /\ 1 \in DOMAIN tasks /\ tasks[1] \in Tasks
      BY <1>0, <2>1 DEF DispatchPop, TypeOK
    <3>2. \A i \in DOMAIN tasks' : i + 1 \in DOMAIN tasks /\ tasks'[i] = tasks[i + 1]
      BY <1>0, <2>1 DEF DispatchPop, TypeOK
    <3> QED BY <1>0, <2>1, <3>1, <3>2 DEF DispatchPop, PlaceInv, Holds
  <2>2. CASE DispatchAssign
    <3>1. wpc[id] # "running" /\ hand \in Tasks /\ status[hand] = "pending"
      BY <1>0, <2>2 DEF DispatchAssign, TypeOK, WorkerInv, Claimed, Busy, PlaceInv
    <3>2. \A w \in Workers : thunk'[w] = IF w = id THEN hand ELSE thunk[w]
      BY <1>0, <2>2 DEF DispatchAssign, TypeOK
    <3> QED BY <1>0, <2>2, <3>1, <3>2 DEF DispatchAssign, PlaceInv, Holds
  <2>3. CASE DispatchReady
    BY <1>0, <2>3 DEF DispatchReady, PlaceInv, Holds, TypeOK
  <2>4. CASE ~DispatchPop /\ ~DispatchAssign /\ ~DispatchReady
    BY <1>0, <1>2, <2>4 DEF Dispatcher, DispatchWaitQueued, DispatchCheckQueued,
         DispatchWaitAvailable, DispatchCheckAvailable, DispatchClaim, PlaceInv,
         Holds, TypeOK
  <2> QED BY <2>1, <2>2, <2>3, <2>4
<1>3. ASSUME NEW w \in Workers, Worker(w) PROVE PlaceInv'
  <2>1. CASE WorkWait(w)
    BY <1>0, <2>1 DEF WorkWait, PlaceInv, Holds, TypeOK, WorkerInv
  <2>2. CASE WorkExit(w)
    BY <1>0, <2>2 DEF WorkExit
  <2>3. CASE WorkStart(w) \/ WorkReturn(w)
    <3>1. Holds(w) /\ thunk[w] \in Tasks
      BY <1>0, <2>3, RunningIsHeld DEF WorkStart, WorkReturn
    <3>2. \A u \in Tasks : u # thunk[w] => status'[u] = status[u]
      BY <1>0, <2>3 DEF WorkStart, WorkReturn, TypeOK
    <3>3. \A v \in Workers : Holds(v)' => Holds(v) /\ (v = w => wpc'[v] = "running")
      BY <1>0, <2>3 DEF WorkStart, WorkReturn, Holds, TypeOK, WorkerInv, Claimed, Busy
    <3>4. \A c \in Clients : cpc[c] = "push" => arg[c] # thunk[w]
      BY <1>0, <3>1 DEF UniqueInv
    <3>5. \A i \in DOMAIN tasks : tasks[i] \in Tasks /\ tasks[i] # thunk[w]
      BY <1>0, <3>1 DEF UniqueInv, TypeOK
    <3>6. dpc = "assign" => hand # thunk[w]
      BY <1>0, <3>1 DEF UniqueInv
    <3>7. \A v \in Workers : Holds(v)' =>
            /\ thunk'[v] \in Tasks
            /\ status'[thunk'[v]] = IF wpc'[v] = "running" THEN "running" ELSE "pending"
      <4> SUFFICES ASSUME NEW v \in Workers, Holds(v)'
                   PROVE  /\ thunk'[v] \in Tasks
                          /\ status'[thunk'[v]] =
                               IF wpc'[v] = "running" THEN "running" ELSE "pending"
        OBVIOUS
      <4>1. Holds(v) /\ thunk'[v] = thunk[v] /\ thunk[v] \in Tasks
        BY <1>0, <2>3, <3>3 DEF WorkStart, WorkReturn, PlaceInv
      <4>2. CASE v = w
        BY <1>0, <2>3, <3>3, <4>1, <4>2 DEF WorkStart, WorkReturn, TypeOK
      <4>3. CASE v # w
        <5>1. thunk[v] # thunk[w] /\ wpc'[v] = wpc[v]
          BY <1>0, <2>3, <3>1, <4>1, <4>3 DEF WorkStart, WorkReturn, UniqueInv, TypeOK
        <5> QED BY <1>0, <3>2, <4>1, <5>1 DEF PlaceInv
      <4> QED BY <4>2, <4>3
    <3> QED BY <1>0, <2>3, <3>2, <3>4, <3>5, <3>6, <3>7
          DEF WorkStart, WorkReturn, PlaceInv
  <2>4. CASE WorkSetAvailable(w) \/ WorkSignalAvailable(w)
    BY <1>0, <2>4 DEF WorkSetAvailable, WorkSignalAvailable, PlaceInv, Holds, TypeOK
  <2>5. CASE WorkDecrement(w)
    BY <1>0, <2>5 DEF WorkDecrement, PlaceInv, Holds, TypeOK
  <2> QED BY <1>3, <2>1, <2>2, <2>3, <2>4, <2>5 DEF Worker
<1>4. CASE Owner \/ DestroySpuriousWakeup \/ UNCHANGED vars
  <2>1. UNCHANGED <<queueVars, slotVars, dispatcherVars, wpc, clientVars, status>>
    BY <1>0, <1>4, OwnerFrame
  <2> QED BY <1>0, <2>1 DEF PlaceInv, Holds
<1> QED BY <1>1, <1>2, <1>3, <1>4 DEF Next, Destroyed

\* Every step keeps each thunk in at most one of those places, so none is run twice.
LEMMA UniqueStep == ASSUME IInv, [Next]_vars, ~done' PROVE UniqueInv'
<1>0. ~done /\ TypeOK /\ PlaceInv /\ UniqueInv /\ \A w \in Workers : WorkerInv(w)
  BY DoneIsStable DEF IInv
<1>1. ASSUME NEW c \in Clients, ClientStep(c) \/ SpuriousWakeup(c) PROVE UniqueInv'
  <2>0. \A w \in Workers : Holds(w)' <=> Holds(w)
    BY <1>1, ClientFrame DEF Holds
  <2>1. ASSUME NEW t \in Tasks, ScheduleCount(c, t) PROVE UniqueInv'
    <3>1. status[t] = "new"
      BY <2>1 DEF ScheduleCount
    <3> QED BY <1>0, <2>0, <2>1, <3>1 DEF ScheduleCount, PlaceInv, UniqueInv, TypeOK
  <2>2. CASE SchedulePush(c)
    <3>1. arg[c] \in Tasks
      BY <1>0, <2>2 DEF SchedulePush, PlaceInv
    <3>2. \A i \in DOMAIN tasks' :
             \/ i \in DOMAIN tasks /\ tasks'[i] = tasks[i]
             \/ i = Len(tasks) + 1 /\ tasks'[i] = arg[c]
      BY <1>0, <2>2, <3>1 DEF SchedulePush, TypeOK
    <3>3. \A d \in Clients : cpc'[d] = "push" => d # c /\ cpc[d] = "push" /\ arg'[d] = arg[d]
      BY <1>0, <2>2 DEF SchedulePush, TypeOK
    <3> QED BY <1>0, <2>0, <2>2, <3>1, <3>2, <3>3 DEF SchedulePush, UniqueInv
  <2>3. CASE ScheduleSignal(c) \/ WaitCall(c) \/ WaitTest(c) \/ Leave(c)
               \/ SpuriousWakeup(c)
    <3>1. \A d \in Clients : cpc'[d] = "push" => cpc[d] = "push"
      BY <1>0, <2>3 DEF ScheduleSignal, WaitCall, WaitTest, Leave, SpuriousWakeup, TypeOK
    <3>2. UNCHANGED <<tasks, thunk, dpc, hand, arg>>
      BY <2>3 DEF ScheduleSignal, WaitCall, WaitTest, Leave, SpuriousWakeup
    <3> QED BY <1>0, <2>0, <3>1, <3>2 DEF UniqueInv
  <2> QED BY <1>1, <2>1, <2>2, <2>3 DEF ClientStep
<1>2. CASE Dispatcher
  <2>1. CASE DispatchPop
    <3>1. hand' = tasks[1] /\ 1 \in DOMAIN tasks
      BY <1>0, <2>1 DEF DispatchPop, TypeOK
    <3>2. \A i \in DOMAIN tasks' :
            i + 1 \in DOMAIN tasks /\ i + 1 # 1 /\ tasks'[i] = tasks[i + 1]
      BY <1>0, <2>1 DEF DispatchPop, TypeOK
    <3>3. \A i, j \in DOMAIN tasks' : i + 1 = j + 1 => i = j
      BY <1>0, <2>1 DEF DispatchPop, TypeOK
    <3>4. \A w \in Workers : Holds(w)' <=> Holds(w)
      BY <2>1 DEF DispatchPop, Holds
    <3> QED BY <1>0, <2>1, <3>1, <3>2, <3>3, <3>4 DEF DispatchPop, UniqueInv
  <2>2. CASE DispatchAssign
    <3>1. \A w \in Workers : thunk'[w] = IF w = id THEN hand ELSE thunk[w]
      BY <1>0, <2>2 DEF DispatchAssign, TypeOK
    <3>2. \A w \in Workers : Holds(w)' <=> Holds(w) \/ w = id
      BY <1>0, <2>2 DEF DispatchAssign, Holds, TypeOK
    <3>3. \A w \in Workers : w = id => ~Holds(w)
      BY <1>0, <2>2 DEF DispatchAssign, Holds, WorkerInv, Claimed, Busy
    <3> QED BY <1>0, <2>2, <3>1, <3>2, <3>3 DEF DispatchAssign, UniqueInv
  <2>3. CASE ~DispatchPop /\ ~DispatchAssign
    <3>1. \A w \in Workers : Holds(w)' => Holds(w)
      BY <1>0, <1>2, <2>3 DEF Dispatcher, DispatchWaitQueued, DispatchCheckQueued,
           DispatchWaitAvailable, DispatchCheckAvailable, DispatchClaim,
           DispatchReady, Holds, TypeOK
    <3>2. UNCHANGED <<tasks, thunk, cpc, arg>> /\ dpc' # "assign"
      BY <1>2, <2>3 DEF Dispatcher, DispatchWaitQueued, DispatchCheckQueued,
           DispatchWaitAvailable, DispatchCheckAvailable, DispatchClaim, DispatchReady
    <3> QED BY <1>0, <3>1, <3>2 DEF UniqueInv
  <2> QED BY <2>1, <2>2, <2>3
<1>3. ASSUME NEW w \in Workers, Worker(w) PROVE UniqueInv'
  <2>1. \A v \in Workers : Holds(v)' => Holds(v)
    BY <1>0, <1>3 DEF Worker, WorkWait, WorkExit, WorkStart, WorkReturn,
         WorkSetAvailable, WorkSignalAvailable, WorkDecrement, Holds, TypeOK, WorkerInv
  <2>2. UNCHANGED <<tasks, thunk, dpc, hand, arg>>
    BY <1>3 DEF Worker, WorkWait, WorkExit, WorkStart, WorkReturn,
         WorkSetAvailable, WorkSignalAvailable, WorkDecrement
  <2>3. \A c \in Clients : cpc'[c] = "push" => cpc[c] = "push"
    BY <1>0, <1>3 DEF Worker, WorkWait, WorkExit, WorkStart, WorkReturn,
         WorkSetAvailable, WorkSignalAvailable, WorkDecrement, TypeOK
  <2> QED BY <1>0, <2>1, <2>2, <2>3 DEF UniqueInv
<1>4. CASE Owner \/ DestroySpuriousWakeup \/ UNCHANGED vars
  <2>1. UNCHANGED <<queueVars, slotVars, dispatcherVars, wpc, clientVars, status>>
    BY <1>0, <1>4, OwnerFrame
  <2> QED BY <1>0, <2>1 DEF UniqueInv, Holds
<1> QED BY <1>1, <1>2, <1>3, <1>4 DEF Next, Destroyed

-------------------------------------------------------------------------------
(* The theorems                                                            *)

\* IInv is an inductive invariant of the pool: the counts, the four conditions
\* of a worker and the places of the thunks are kept by every step of
\* thread-pool.cc, for any number of workers, clients and thunks.
THEOREM Invariance == Spec => []IInv
<1>1. IInv /\ [Next]_vars => IInv'
  <2> SUFFICES ASSUME IInv, [Next]_vars PROVE IInv'
    OBVIOUS
  <2>1. TypeOK' /\ OwnerInv' /\ ParkedOnlyWhileOutstanding' /\ ShutdownIsQuiet'
    BY TypeStep, OwnerStep, ParkedStep, ShutdownStep
  <2>2. ASSUME ~done'
        PROVE  /\ CountInv' /\ QueueInv' /\ IdleInv'
               /\ \A w \in Workers : WorkerInv(w)'
               /\ PlaceInv' /\ UniqueInv'
    BY <2>2, CountStep, QueueStep, IdleStep, WorkerStep, PlaceStep, UniqueStep
  <2> QED BY <2>1, <2>2 DEF IInv
<1> QED BY <1>1, InitIInv, PTL DEF Spec

\* Every variable of the pool keeps its type; in particular no semaphore and
\* not the unsigned counter outstanding ever goes below zero.
THEOREM TypeCorrect == Spec => []TypeOK
<1>1. IInv => TypeOK
  BY DEF IInv
<1> QED BY <1>1, Invariance, PTL

\* The dispatcher's scan always finds an idle worker and its queue is never
\* empty when it pops.
THEOREM ClaimsAreBacked == Spec => []ClaimIsBacked
<1>1. IInv => ClaimIsBacked
  BY PermitsAreBacked
<1> QED BY <1>1, Invariance, PTL

\* The unprotected assignment of a worker's thunk races with nothing.
THEOREM SlotsAreFree == Spec => []SlotIsFree
<1>1. IInv => SlotIsFree
  <2> SUFFICES ASSUME IInv, dpc \in {"pop", "assign", "ready.signal"}
               PROVE  /\ wpc[id] \in {"ready.wait", "availableWorkers.signal", "decrement"}
                      /\ ready[id] = 0
    BY DEF SlotIsFree
  <2>1. ~done /\ id \in Workers
    BY DEF IInv, TypeOK, ShutdownIsQuiet
  <2>2. WorkerInv(id) /\ wpc[id] \in WorkerPC
    BY <2>1 DEF IInv, TypeOK
  <2> QED BY <2>2 DEF WorkerInv, Claimed, Busy, WorkerPC
<1> QED BY <1>1, Invariance, PTL

\* Nobody stays parked in wait() or in the destructor with nothing outstanding.
THEOREM NoLostNotification == Spec => []ParkedOnlyWhileOutstanding
<1>1. IInv => ParkedOnlyWhileOutstanding
  BY DEF IInv
<1> QED BY <1>1, Invariance, PTL

\* With nothing outstanding the pool is as good as new.
THEOREM PoolIsReusable == Spec => []Reusable
<1>1. IInv => Reusable
  BY QuietPool DEF IInv, OwnerInv, Reusable
<1> QED BY <1>1, Invariance, PTL

\* Shutting down drops no thunk.
THEOREM ShutdownDropsNothing == Spec => []ShutdownIsQuiet
<1>1. IInv => ShutdownIsQuiet
  BY DEF IInv
<1> QED BY <1>1, Invariance, PTL

-------------------------------------------------------------------------------
(* Refinement                                                              *)

slotBar == [w \in Workers |-> IF wpc[w] = "running" THEN thunk[w] ELSE NoTask]
waitingBar == {c \in Clients : cpc[c] \in {"wait", "parked"}}
openBar == opc # "destroyed"
varsBar == <<status, slotBar, waitingBar, openBar>>

\* A step of schedule() or wait() is a step of TaskPool or changes nothing there;
\* wait() returns only when the abstract pool is quiet.
LEMMA ClientRefines ==
  ASSUME IInv, NEW c \in Clients, ClientStep(c) \/ SpuriousWakeup(c)
  PROVE  TP!Next \/ UNCHANGED varsBar
<1> USE DEF varsBar, slotBar, waitingBar, openBar
<1>1. TypeOK /\ cpc[c] # "gone" /\ ~done /\ opc = "alive" /\ opc' = "alive"
  <2>1. cpc[c] # "gone"
    BY DEF ClientStep, ScheduleCount, SchedulePush, ScheduleSignal, WaitCall,
         WaitTest, Leave, SpuriousWakeup
  <2> QED BY <2>1, ClientKeepsOpen, ClientFrame DEF IInv
<1>2. UNCHANGED <<slotBar, openBar>>
  BY <1>1, ClientFrame
<1>3. ASSUME NEW t \in Tasks, ScheduleCount(c, t) PROVE TP!Schedule(t)
  <2>1. waitingBar' = waitingBar
    BY <1>1, <1>3 DEF ScheduleCount, TypeOK
  <2> QED BY <1>1, <1>2, <1>3, <2>1 DEF ScheduleCount, TP!Schedule
<1>4. CASE SchedulePush(c) \/ ScheduleSignal(c) \/ Leave(c) \/ SpuriousWakeup(c)
  <2>1. waitingBar' = waitingBar /\ status' = status
    BY <1>1, <1>4 DEF SchedulePush, ScheduleSignal, Leave, SpuriousWakeup, TypeOK
  <2> QED BY <1>2, <2>1
<1>5. CASE WaitCall(c)
  <2>1. waitingBar' = waitingBar \cup {c} /\ status' = status
    BY <1>1, <1>5 DEF WaitCall, TypeOK
  <2>2. TP!CallWait(c)
    BY <1>1, <1>2, <2>1 DEF TP!CallWait
  <2> QED BY <2>2 DEF TP!Next
<1>6. CASE WaitTest(c)
  <2>1. status' = status
    BY <1>6 DEF WaitTest
  <2>2. CASE outstanding = 0
    <3>1. c \in waitingBar /\ waitingBar' = waitingBar \ {c}
      BY <1>1, <1>6, <2>2 DEF WaitTest, TypeOK
    <3>2. TP!Quiet
      BY <1>1, <2>2, QuietPool DEF TP!Quiet
    <3>3. TP!ReturnFromWait(c)
      BY <1>2, <2>1, <3>1, <3>2 DEF TP!ReturnFromWait
    <3> QED BY <3>3 DEF TP!Next
  <2>3. CASE outstanding # 0
    <3>1. waitingBar' = waitingBar
      BY <1>1, <1>6, <2>3 DEF WaitTest, TypeOK
    <3> QED BY <1>2, <2>1, <3>1
  <2> QED BY <2>2, <2>3
<1> QED BY <1>3, <1>4, <1>5, <1>6 DEF ClientStep, TP!Next

\* A worker starts a thunk that is pending and has an idle slot, and finishes it;
\* its other steps change nothing in TaskPool.
LEMMA WorkerRefines ==
  ASSUME IInv, NEW w \in Workers, Worker(w)
  PROVE  TP!Next \/ UNCHANGED varsBar
<1> USE DEF varsBar, slotBar, waitingBar, openBar
<1>1. TypeOK
  BY DEF IInv
<1>2. CASE WorkStart(w)
  <2>1. thunk[w] \in Tasks /\ status[thunk[w]] = "pending"
    BY <1>2, RunningIsHeld DEF WorkStart
  <2>2. slotBar[w] = NoTask /\ slotBar' = [slotBar EXCEPT ![w] = thunk[w]]
    BY <1>1, <1>2 DEF WorkStart, TypeOK
  <2>3. UNCHANGED <<waitingBar, openBar>>
    BY <1>2 DEF WorkStart
  <2>4. ASSUME NEW t \in Tasks, t = thunk[w] PROVE TP!Next
    <3>1. TP!Start(w, t)
      BY <1>2, <2>1, <2>2, <2>3, <2>4 DEF WorkStart, TP!Start
    <3> QED BY <3>1 DEF TP!Next
  <2> QED BY <2>1, <2>4
<1>3. CASE WorkReturn(w)
  <2>1. thunk[w] \in Tasks
    BY <1>3, RunningIsHeld DEF WorkReturn, IInv, ShutdownIsQuiet
  <2>2. slotBar[w] = thunk[w] /\ slotBar' = [slotBar EXCEPT ![w] = NoTask]
    BY <1>1, <1>3 DEF WorkReturn, TypeOK
  <2>3. UNCHANGED <<waitingBar, openBar>>
    BY <1>3 DEF WorkReturn
  <2>4. TP!Finish(w)
    BY <1>3, <2>1, <2>2, <2>3 DEF WorkReturn, TP!Finish
  <2> QED BY <2>4 DEF TP!Next
<1>4. CASE WorkWait(w) \/ WorkExit(w) \/ WorkSetAvailable(w)
             \/ WorkSignalAvailable(w)
  BY <1>1, <1>4 DEF WorkWait, WorkExit, WorkSetAvailable, WorkSignalAvailable, TypeOK
<1>5. CASE WorkDecrement(w)
  <2>1. slotBar' = slotBar /\ status' = status
    BY <1>1, <1>5 DEF WorkDecrement, TypeOK
  <2>2. waitingBar' = waitingBar /\ openBar' = openBar
    BY <1>1, <1>5 DEF WorkDecrement, TypeOK
  <2> QED BY <2>1, <2>2
<1> QED BY <1>2, <1>3, <1>4, <1>5 DEF Worker

\* The destructor's last step closes a quiet TaskPool; its others change nothing.
LEMMA OwnerRefines ==
  ASSUME IInv, Owner \/ DestroySpuriousWakeup
  PROVE  TP!Next \/ UNCHANGED varsBar
<1> USE DEF varsBar, slotBar, waitingBar, openBar
<1>1. CASE DestroyReturn
  <2>1. done /\ \A c \in Clients : cpc[c] = "gone"
    BY <1>1 DEF DestroyReturn, IInv, OwnerInv
  <2>2. TP!Quiet /\ waitingBar = {}
    BY <2>1 DEF IInv, ShutdownIsQuiet, TP!Quiet
  <2>3. TP!Close
    BY <1>1, <2>2 DEF DestroyReturn, TP!Close
  <2> QED BY <2>3 DEF TP!Next
<1>2. CASE ~DestroyReturn
  BY <1>2 DEF Owner, DestroyCall, DestroyTest, DestroySpuriousWakeup,
       DestroySetDone, DestroySignalQueued, DestroySignalAvailable,
       DestroyJoinDispatcher, DestroySignalReady, DestroyJoinWorker
<1> QED BY <1>1, <1>2

\* The pool implements TaskPool: each scheduled thunk is run exactly once, in one
\* worker, wait() and the destructor return only when all that was scheduled
\* before has finished, for any number of workers, clients and thunks.
THEOREM Refinement == Spec => Implements
<1>1. Init => TP!Init
  BY DEF Init, TP!Init
<1>2. IInv /\ [Next]_vars => [TP!Next]_TP!vars
  <2> SUFFICES ASSUME IInv, [Next]_vars PROVE TP!Next \/ UNCHANGED varsBar
    BY DEF TP!vars, varsBar, slotBar, waitingBar, openBar
  <2>1. CASE Dispatcher
    BY <2>1 DEF Dispatcher, DispatchWaitQueued, DispatchCheckQueued,
         DispatchWaitAvailable, DispatchCheckAvailable, DispatchClaim,
         DispatchPop, DispatchAssign, DispatchReady, varsBar, slotBar,
         waitingBar, openBar, IInv, TypeOK, WorkerInv, Claimed, Busy,
         ShutdownIsQuiet
  <2>2. CASE UNCHANGED vars
    BY <2>2 DEF varsBar, slotBar, waitingBar, openBar
  <2> QED BY <2>1, <2>2, ClientRefines, WorkerRefines, OwnerRefines
        DEF Next, Destroyed
<1> QED BY <1>1, <1>2, Invariance, PTL DEF Spec, Implements, TP!Spec
===============================================================================
