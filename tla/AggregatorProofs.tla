--------------------------- MODULE AggregatorProofs ---------------------------
(***************************************************************************)
(* Proofs about module Aggregator, for every site, every number of threads *)
(* in both pools and every limit of connections.                           *)
(***************************************************************************)
EXTENDS Aggregator, FiniteSetTheorems, TLAPS

USE AggregatorAssumption, NoneAssumption
USE DEF vars, feedPool, articlePool, shared

Threads == FeedThreads \cup ArticleThreads
ServerOf(w) == server(parseHttpURL(LinkOf(w)))

-------------------------------------------------------------------------------
(* The inductive invariant                                                 *)

FeedPC == {"idle", "limit", "fetch", "items", "return"}
ArticlePC == {"idle", "seen", "limit", "fetch", "append", "index", "return"}

\* The shape of what the threads keep.
CallInv ==
  /\ call = [w \in Threads |-> call[w]]
  /\ \A w \in Threads :
       call[w] = [at |-> call[w].at, next |-> call[w].next, words |-> call[w].words]
  /\ \A w \in FeedThreads : call[w].at \in FeedPC
  /\ \A w \in ArticleThreads : call[w].at \in ArticlePC
  /\ items = [f \in FeedTasks |-> items[f]]

\* A thread that is not idle has its own running task.
PoolInv ==
  /\ fstatus \in [FeedTasks -> FP!Status] /\ fslot \in [FeedThreads -> FeedTasks \cup {None}]
  /\ astatus \in [ArticleTasks -> AP!Status]
  /\ aslot \in [ArticleThreads -> ArticleTasks \cup {None}]
  /\ \A w \in FeedThreads :
       /\ call[w].at = "idle" <=> fslot[w] = None
       /\ fslot[w] # None => fstatus[fslot[w]] = "running"
       /\ \A v \in FeedThreads : fslot[v] = fslot[w] /\ fslot[w] # None => v = w
  /\ \A w \in ArticleThreads :
       /\ call[w].at = "idle" <=> aslot[w] = None
       /\ aslot[w] # None => astatus[aslot[w]] = "running"
       /\ \A v \in ArticleThreads : aslot[v] = aslot[w] /\ aslot[w] # None => v = w

\* Nothing has begun while main downloads the list.
MainInv ==
  mpc = "list" =>
    /\ \A w \in Threads : call[w].at = "idle"
    /\ \A f \in FeedTasks : fstatus[f] = "new"
    /\ \A t \in ArticleTasks : astatus[t] = "new"

\* No article of a feed is scheduled before the feed has been read.
UnreadInv ==
  \A f \in FeedTasks :
    \/ fstatus[f] \in {"new", "pending"}
    \/ \E w \in FeedThreads : fslot[w] = f /\ call[w].at \in {"limit", "fetch"}
    => \A i \in ItemNumbers : astatus[<<f, i>>] = "new"

TasksInv == CallInv /\ PoolInv /\ MainInv /\ UnreadInv

\* The rest of the types of the pools.
WaitsInv ==
  /\ fwaiting \subseteq {"main"} /\ fopen \in BOOLEAN
  /\ awaiting \subseteq {"main"} /\ aopen \in BOOLEAN

\* A download is counted by the semaphore of its server, which exists.
PermitInv ==
  /\ serverLimits = [s \in DOMAIN serverLimits |-> serverLimits[s]]
  /\ \A w \in Threads : call[w].at = "fetch" => ServerOf(w) \in DOMAIN serverLimits
  /\ \A s \in DOMAIN serverLimits :
       /\ serverLimits[s] \in 0 .. kMaxConnectionsPerServer
       /\ serverLimits[s] + Cardinality(Fetching(s)) = kMaxConnectionsPerServer

\* The tasks that have recorded their link as seen and go on to download it.
Claimed == fetched \cup {aslot[w] : w \in {v \in ArticleThreads : call[v].at = "limit"}}

\* Each of them is the only one with its link.
ClaimInv ==
  /\ \A t \in Claimed :
       t \in ArticleTasks /\ astatus[t] # "new" /\ ItemOfTask(t).link \in seenURLs
  /\ \A t, u \in Claimed : ItemOfTask(t).link = ItemOfTask(u).link => t = u

\* What main has waited for is over: no feed is left that could schedule an article, and
\* then no article.
QuietInv ==
  /\ mpc \in {"articleWait", "close", "queries"} => FP!Quiet
  /\ mpc \in {"close", "queries"} => AP!Quiet

AInv ==
  /\ TasksInv /\ WaitsInv /\ PermitInv /\ ClaimInv /\ QuietInv
  /\ mpc \in {"list", "failed", "schedule", "feedWait", "articleWait", "close", "queries"}
  /\ DOMAIN invertedIndex = Tokens

-------------------------------------------------------------------------------
(* What each step does to the threads                                      *)

Thread(w) == FeedThread(w) \/ ArticleThread(w)

Moved(w, a) ==
  /\ call'[w].at = a
  /\ \A v \in Threads \ {w} : call'[v] = call[v]
  /\ call' = [v \in Threads |-> call'[v]]
  /\ \A v \in Threads :
       call'[v] = [at |-> call'[v].at, next |-> call'[v].next, words |-> call'[v].words]

\* The ways in which a step changes what its thread keeps.
LEMMA OwnCall ==
  ASSUME CallInv, NEW w \in Threads, NEW a, NEW n, NEW x,
         \/ call' = [call EXCEPT ![w].at = a]
         \/ call' = [call EXCEPT ![w] = At(a, n, x)]
         \/ call' = [call EXCEPT ![w].next = n] /\ call[w].at = a
  PROVE  Moved(w, a)
<1> USE DEF CallInv, Moved
<1>1. CASE call' = [call EXCEPT ![w].at = a]
  BY <1>1
<1>2. CASE call' = [call EXCEPT ![w] = At(a, n, x)]
  BY <1>2 DEF At
<1>3. CASE call' = [call EXCEPT ![w].next = n] /\ call[w].at = a
  BY <1>3
<1> QED BY <1>1, <1>2, <1>3

\* Where each step takes its thread.
LEMMA FeedMoves ==
  ASSUME CallInv, NEW w \in FeedThreads
  PROVE  /\ \A f : FeedStart(w, f) => call[w].at = "idle" /\ Moved(w, "limit")
         /\ FeedLimit(w) => call[w].at = "limit" /\ Moved(w, "fetch")
         /\ FeedFetch(w) => call[w].at = "fetch" /\ (Moved(w, "return") \/ Moved(w, "items"))
         /\ FeedSchedule(w) => call[w].at = "items" /\ Moved(w, "items")
         /\ FeedReturn(w) => call[w].at \in {"items", "return"} /\ Moved(w, "idle")
<1>0. w \in Threads
  BY DEF Threads
<1>1. \A f : FeedStart(w, f) => call[w].at = "idle" /\ Moved(w, "limit")
  BY <1>0, OwnCall DEF FeedStart, Goes
<1>2. FeedLimit(w) => call[w].at = "limit" /\ Moved(w, "fetch")
  BY <1>0, OwnCall DEF FeedLimit, Goes
<1>3. FeedFetch(w) => call[w].at = "fetch" /\ (Moved(w, "return") \/ Moved(w, "items"))
  BY <1>0, OwnCall DEF FeedFetch, Goes
<1>4. FeedSchedule(w) => call[w].at = "items" /\ Moved(w, "items")
  BY <1>0, OwnCall DEF FeedSchedule
<1>5. FeedReturn(w) => call[w].at \in {"items", "return"} /\ Moved(w, "idle")
  BY <1>0, OwnCall DEF FeedReturn, Idle
<1> QED BY <1>1, <1>2, <1>3, <1>4, <1>5

LEMMA TaskMoves ==
  ASSUME CallInv, NEW w \in ArticleThreads
  PROVE  /\ \A t : TaskStart(w, t) => call[w].at = "idle" /\ Moved(w, "seen")
         /\ TaskSeen(w) => call[w].at = "seen" /\ (Moved(w, "return") \/ Moved(w, "limit"))
         /\ TaskLimit(w) => call[w].at = "limit" /\ Moved(w, "fetch")
         /\ TaskFetch(w) => call[w].at = "fetch" /\ (Moved(w, "return") \/ Moved(w, "append"))
         /\ TaskAppend(w) => call[w].at = "append" /\ Moved(w, "index")
         /\ TaskIndex(w) => call[w].at = "index" /\ Moved(w, "return")
         /\ TaskReturn(w) => call[w].at = "return" /\ Moved(w, "idle")
<1>0. w \in Threads
  BY DEF Threads
<1>1. \A t : TaskStart(w, t) => call[w].at = "idle" /\ Moved(w, "seen")
  BY <1>0, OwnCall DEF TaskStart, Goes
<1>2. TaskSeen(w) => call[w].at = "seen" /\ (Moved(w, "return") \/ Moved(w, "limit"))
  BY <1>0, OwnCall DEF TaskSeen, Goes
<1>3. TaskLimit(w) => call[w].at = "limit" /\ Moved(w, "fetch")
  BY <1>0, OwnCall DEF TaskLimit, Goes
<1>4. TaskFetch(w) => call[w].at = "fetch" /\ (Moved(w, "return") \/ Moved(w, "append"))
  BY <1>0, OwnCall DEF TaskFetch, Goes
<1>5. TaskAppend(w) => call[w].at = "append" /\ Moved(w, "index")
  BY <1>0, OwnCall DEF TaskAppend
<1>6. TaskIndex(w) => call[w].at = "index" /\ Moved(w, "return")
  BY <1>0, OwnCall DEF TaskIndex, Goes
<1>7. TaskReturn(w) => call[w].at = "return" /\ Moved(w, "idle")
  BY <1>0, OwnCall DEF TaskReturn, Idle
<1> QED BY <1>1, <1>2, <1>3, <1>4, <1>5, <1>6, <1>7

\* main and the queries move no thread of the pools.
MainMoves == MainStep \/ Failed \/ UNCHANGED vars \/ \E word \in Typed : Query(word)

LEMMA MainMovesNobody == MainMoves => UNCHANGED <<call, items, fslot, aslot, serverLimits,
                                                  seenURLs, fetched, invertedIndex>>
BY DEF MainMoves, MainStep, MainList, MainSchedule, MainFeedWait, MainArticleWait,
     MainWaited, MainClose, Failed, Query, FP!Schedule, FP!CallWait, FP!ReturnFromWait,
     FP!Close, AP!CallWait, AP!ReturnFromWait, AP!Close

\* Every step is one of those.
LEMMA Cases ==
  ASSUME [Next]_vars
  PROVE  \/ MainMoves
         \/ \E w \in FeedThreads :
              \/ \E f \in FeedTasks : FeedStart(w, f)
              \/ FeedLimit(w) \/ FeedFetch(w) \/ FeedSchedule(w) \/ FeedReturn(w)
         \/ \E w \in ArticleThreads :
              \/ \E t \in ArticleTasks : TaskStart(w, t)
              \/ TaskSeen(w) \/ TaskLimit(w) \/ TaskFetch(w) \/ TaskAppend(w)
              \/ TaskIndex(w) \/ TaskReturn(w)
BY DEF Next, Progress, Dispatch, FeedThread, ArticleThread, MainMoves

\* The shape is kept, and every thread stays within its function.
LEMMA CallStep ==
  ASSUME CallInv, [Next]_vars
  PROVE  CallInv'
<1>1. ASSUME NEW w \in FeedThreads, NEW a \in FeedPC, Moved(w, a),
             items' = [f \in FeedTasks |-> items'[f]]
      PROVE  CallInv'
  BY <1>1 DEF CallInv, Moved, Threads
<1>2. ASSUME NEW w \in ArticleThreads, NEW a \in ArticlePC, Moved(w, a), items' = items
      PROVE  CallInv'
  BY <1>2 DEF CallInv, Moved, Threads
<1>3. ASSUME NEW w \in FeedThreads,
             \/ \E f \in FeedTasks : FeedStart(w, f)
             \/ FeedLimit(w) \/ FeedFetch(w) \/ FeedSchedule(w) \/ FeedReturn(w)
      PROVE  CallInv'
  <2>1. items' = [f \in FeedTasks |-> items'[f]]
    BY <1>3 DEF CallInv, FeedStart, FeedLimit, FeedFetch, FeedSchedule, FeedReturn
  <2>2. \E a \in FeedPC : Moved(w, a)
    BY <1>3, FeedMoves DEF FeedPC
  <2> QED BY <1>1, <2>1, <2>2
<1>4. ASSUME NEW w \in ArticleThreads,
             \/ \E t \in ArticleTasks : TaskStart(w, t)
             \/ TaskSeen(w) \/ TaskLimit(w) \/ TaskFetch(w) \/ TaskAppend(w)
             \/ TaskIndex(w) \/ TaskReturn(w)
      PROVE  CallInv'
  <2>1. items' = items
    BY <1>4 DEF TaskStart, TaskSeen, TaskLimit, TaskFetch, TaskAppend, TaskIndex, TaskReturn
  <2>2. \E a \in ArticlePC : Moved(w, a)
    BY <1>4, TaskMoves DEF ArticlePC
  <2> QED BY <1>2, <2>1, <2>2
<1>5. CASE MainMoves
  BY <1>5, MainMovesNobody DEF CallInv
<1> QED BY <1>3, <1>4, <1>5, Cases

-------------------------------------------------------------------------------
(* The tasks                                                               *)

FeedStep(w) ==
  \/ \E f \in FeedTasks : FeedStart(w, f)
  \/ FeedLimit(w) \/ FeedFetch(w) \/ FeedSchedule(w) \/ FeedReturn(w)
ArticleStep(w) ==
  \/ \E t \in ArticleTasks : TaskStart(w, t)
  \/ TaskSeen(w) \/ TaskLimit(w) \/ TaskFetch(w) \/ TaskAppend(w)
  \/ TaskIndex(w) \/ TaskReturn(w)

\* What the steps of main do to the pools.
LEMMA MainPools ==
  ASSUME MainMoves, fstatus \in [FeedTasks -> FP!Status]
  PROVE  /\ fstatus' \in [FeedTasks -> FP!Status] /\ astatus' = astatus
         /\ \A f \in FeedTasks :
              fstatus'[f] = fstatus[f] \/ (fstatus[f] = "new" /\ fstatus'[f] = "pending")
         /\ mpc' = "list" => mpc = "list" /\ fstatus' = fstatus
         /\ feeds' = feeds \/ mpc = "list"
<1> USE DEF FP!Status, AP!Status
<1>1. CASE MainList
  BY <1>1 DEF MainList
<1>2. CASE MainSchedule
  BY <1>2 DEF MainSchedule, FP!Schedule
<1>3. CASE MainFeedWait
  BY <1>3 DEF MainFeedWait, FP!CallWait
<1>4. CASE MainArticleWait
  BY <1>4 DEF MainArticleWait, FP!ReturnFromWait, AP!CallWait
<1>5. CASE MainWaited
  BY <1>5 DEF MainWaited, AP!ReturnFromWait
<1>6. CASE MainClose
  BY <1>6 DEF MainClose, AP!Close, FP!Close
<1>7. CASE Failed \/ UNCHANGED vars
  BY <1>7 DEF Failed
<1>8. CASE \E word \in Typed : Query(word)
  BY <1>8 DEF Query
<1> QED BY <1>1, <1>2, <1>3, <1>4, <1>5, <1>6, <1>7, <1>8 DEF MainMoves, MainStep

\* A thread of a pool has its own task as long as it is not idle.
LEMMA PoolStep ==
  ASSUME CallInv, PoolInv, [Next]_vars
  PROVE  PoolInv'
<1> USE DEF FP!Status, AP!Status
<1>1. CASE MainMoves
  BY <1>1, MainPools, MainMovesNobody DEF PoolInv
<1>2. ASSUME NEW w \in Threads, NEW a, Moved(w, a), a # "idle", call[w].at # "idle",
             UNCHANGED <<fstatus, fslot, astatus, aslot>>
      PROVE  PoolInv'
  BY <1>2 DEF PoolInv, Moved, Threads
<1>3. ASSUME NEW w \in FeedThreads, FeedStep(w)
      PROVE  PoolInv'
  <2>0. w \in Threads
    BY DEF Threads
  <2>1. ASSUME NEW f \in FeedTasks, FeedStart(w, f)
        PROVE  PoolInv'
    <3>1. Moved(w, "limit")
      BY <2>1, FeedMoves
    <3>2. fstatus[f] = "pending" /\ fstatus' = [fstatus EXCEPT ![f] = "running"]
          /\ fslot' = [fslot EXCEPT ![w] = f] /\ UNCHANGED <<astatus, aslot>>
      BY <2>1 DEF FeedStart, FP!Start
    <3> QED BY <3>1, <3>2 DEF PoolInv, Moved, Threads
  <2>2. CASE FeedLimit(w) \/ FeedFetch(w)
    <3>1. UNCHANGED <<fstatus, fslot, astatus, aslot>>
      BY <2>2 DEF FeedLimit, FeedFetch
    <3> QED BY <1>2, <2>0, <2>2, <3>1, FeedMoves
  <2>3. CASE FeedSchedule(w)
    <3>1. Moved(w, "items") /\ call[w].at = "items"
      BY <2>3, FeedMoves
    <3>2. \E t : astatus[t] = "new" /\ astatus' = [astatus EXCEPT ![t] = "pending"]
      BY <2>3 DEF FeedSchedule, AP!Schedule
    <3>3. UNCHANGED <<fstatus, fslot, aslot>>
      BY <2>3 DEF FeedSchedule, AP!Schedule
    <3>4. /\ astatus' \in [ArticleTasks -> AP!Status]
          /\ \A u \in ArticleTasks : astatus[u] = "running" => astatus'[u] = "running"
      BY <3>2 DEF PoolInv
    <3> QED BY <3>1, <3>3, <3>4 DEF PoolInv, Moved, Threads
  <2>4. CASE FeedReturn(w)
    <3>1. Moved(w, "idle")
      BY <2>4, FeedMoves
    <3>2. fslot[w] # None /\ fstatus' = [fstatus EXCEPT ![fslot[w]] = "finished"]
          /\ fslot' = [fslot EXCEPT ![w] = None] /\ UNCHANGED <<astatus, aslot>>
      BY <2>4 DEF FeedReturn, FP!Finish
    <3> QED BY <3>1, <3>2 DEF PoolInv, Moved, Threads
  <2> QED BY <1>3, <2>1, <2>2, <2>3, <2>4 DEF FeedStep
<1>4. ASSUME NEW w \in ArticleThreads, ArticleStep(w)
      PROVE  PoolInv'
  <2>0. w \in Threads
    BY DEF Threads
  <2>1. ASSUME NEW t \in ArticleTasks, TaskStart(w, t)
        PROVE  PoolInv'
    <3>1. Moved(w, "seen")
      BY <2>1, TaskMoves
    <3>2. astatus[t] = "pending" /\ astatus' = [astatus EXCEPT ![t] = "running"]
          /\ aslot' = [aslot EXCEPT ![w] = t] /\ UNCHANGED <<fstatus, fslot>>
      BY <2>1 DEF TaskStart, AP!Start
    <3> QED BY <3>1, <3>2 DEF PoolInv, Moved, Threads
  <2>2. CASE TaskSeen(w) \/ TaskLimit(w) \/ TaskFetch(w) \/ TaskAppend(w) \/ TaskIndex(w)
    <3>1. UNCHANGED <<fstatus, fslot, astatus, aslot>>
      BY <2>2 DEF TaskSeen, TaskLimit, TaskFetch, TaskAppend, TaskIndex
    <3> QED BY <1>2, <2>0, <2>2, <3>1, TaskMoves
  <2>3. CASE TaskReturn(w)
    <3>1. Moved(w, "idle")
      BY <2>3, TaskMoves
    <3>2. aslot[w] # None /\ astatus' = [astatus EXCEPT ![aslot[w]] = "finished"]
          /\ aslot' = [aslot EXCEPT ![w] = None] /\ UNCHANGED <<fstatus, fslot>>
      BY <2>3 DEF TaskReturn, AP!Finish
    <3> QED BY <3>1, <3>2 DEF PoolInv, Moved, Threads
  <2> QED BY <1>4, <2>1, <2>2, <2>3 DEF ArticleStep
<1> QED BY <1>1, <1>3, <1>4, Cases DEF FeedStep, ArticleStep

\* What the steps of the threads do to the tasks: only FeedSchedule makes an article
\* pending, one of the feed of its thread.
LEMMA TaskStatuses ==
  ASSUME CallInv, PoolInv, [Next]_vars, NEW t \in ArticleTasks, astatus'[t] # astatus[t]
  PROVE  \/ astatus[t] # "new" /\ astatus'[t] # "new"
         \/ \E w \in FeedThreads : FeedSchedule(w) /\ t[1] = fslot[w]
<1>1. CASE MainMoves
  BY <1>1, MainPools DEF PoolInv
<1>2. ASSUME NEW w \in FeedThreads, FeedStep(w)
      PROVE  \E v \in FeedThreads : FeedSchedule(v) /\ t[1] = fslot[v]
  <2>1. FeedSchedule(w)
    BY <1>2 DEF FeedStep, FeedStart, FeedLimit, FeedFetch, FeedReturn
  <2>2. astatus' = [astatus EXCEPT ![<<fslot[w], call[w].next>>] = "pending"]
    BY <2>1 DEF FeedSchedule, AP!Schedule, FeedOf
  <2>3. t = <<fslot[w], call[w].next>>
    BY <2>2 DEF PoolInv
  <2> QED BY <2>1, <2>3
<1>3. ASSUME NEW w \in ArticleThreads, ArticleStep(w)
      PROVE  astatus[t] # "new" /\ astatus'[t] # "new"
  <2>1. ASSUME NEW u \in ArticleTasks, TaskStart(w, u)
        PROVE  astatus[t] # "new" /\ astatus'[t] # "new"
    BY <2>1 DEF TaskStart, AP!Start, PoolInv
  <2>2. CASE TaskReturn(w)
    BY <2>2 DEF TaskReturn, AP!Finish, PoolInv
  <2> QED BY <1>3, <2>1, <2>2 DEF ArticleStep, TaskSeen, TaskLimit, TaskFetch, TaskAppend,
                                  TaskIndex
<1> QED BY <1>1, <1>2, <1>3, Cases DEF FeedStep, ArticleStep

\* A feed that is not read yet was not read before the step.
LEMMA UnreadStays ==
  ASSUME CallInv, PoolInv, [Next]_vars, NEW f \in FeedTasks,
         \/ fstatus'[f] \in {"new", "pending"}
         \/ \E w \in FeedThreads : fslot'[w] = f /\ call'[w].at \in {"limit", "fetch"}
  PROVE  \/ fstatus[f] \in {"new", "pending"}
         \/ \E w \in FeedThreads : fslot[w] = f /\ call[w].at \in {"limit", "fetch"}
<1>1. CASE MainMoves
  BY <1>1, MainPools, MainMovesNobody DEF PoolInv
<1>2. ASSUME NEW w \in FeedThreads, FeedStep(w)
      PROVE  \/ fstatus[f] \in {"new", "pending"}
             \/ \E v \in FeedThreads : fslot[v] = f /\ call[v].at \in {"limit", "fetch"}
  <2>0. w \in Threads
    BY DEF Threads
  <2>1. ASSUME NEW g \in FeedTasks, FeedStart(w, g)
        PROVE  \/ fstatus[f] \in {"new", "pending"}
               \/ \E v \in FeedThreads : fslot[v] = f /\ call[v].at \in {"limit", "fetch"}
    <3>1. Moved(w, "limit")
      BY <2>1, FeedMoves
    <3>2. fstatus[g] = "pending" /\ fstatus' = [fstatus EXCEPT ![g] = "running"]
          /\ fslot' = [fslot EXCEPT ![w] = g]
      BY <2>1 DEF FeedStart, FP!Start
    <3> QED BY <3>1, <3>2 DEF PoolInv, Moved, Threads
  <2>2. CASE FeedLimit(w) \/ FeedFetch(w) \/ FeedSchedule(w)
    <3>1. UNCHANGED <<fstatus, fslot>>
      BY <2>2 DEF FeedLimit, FeedFetch, FeedSchedule
    <3>2. \E a : Moved(w, a) /\ (a \in {"limit", "fetch"} => call[w].at \in {"limit", "fetch"})
      BY <2>2, FeedMoves
    <3> QED BY <3>1, <3>2 DEF Moved, Threads
  <2>3. CASE FeedReturn(w)
    <3>1. Moved(w, "idle")
      BY <2>3, FeedMoves
    <3>2. fslot[w] # None /\ fstatus' = [fstatus EXCEPT ![fslot[w]] = "finished"]
          /\ fslot' = [fslot EXCEPT ![w] = None]
      BY <2>3 DEF FeedReturn, FP!Finish
    <3> QED BY <3>1, <3>2 DEF PoolInv, Moved, Threads
  <2> QED BY <1>2, <2>1, <2>2, <2>3 DEF FeedStep
<1>3. ASSUME NEW w \in ArticleThreads, ArticleStep(w)
      PROVE  \/ fstatus[f] \in {"new", "pending"}
             \/ \E v \in FeedThreads : fslot[v] = f /\ call[v].at \in {"limit", "fetch"}
  <2>1. UNCHANGED <<fstatus, fslot>>
    BY <1>3 DEF ArticleStep, TaskStart, TaskSeen, TaskLimit, TaskFetch, TaskAppend, TaskIndex,
                TaskReturn
  <2>2. \E a : Moved(w, a)
    BY <1>3, TaskMoves DEF ArticleStep
  <2> QED BY <2>1, <2>2 DEF Moved, Threads
<1> QED BY <1>1, <1>2, <1>3, Cases DEF FeedStep, ArticleStep

LEMMA UnreadStep ==
  ASSUME CallInv, PoolInv, UnreadInv, [Next]_vars
  PROVE  UnreadInv'
<1> SUFFICES ASSUME NEW f \in FeedTasks, NEW i \in ItemNumbers,
                    \/ fstatus'[f] \in {"new", "pending"}
                    \/ \E w \in FeedThreads : fslot'[w] = f /\ call'[w].at \in {"limit", "fetch"}
             PROVE  astatus'[<<f, i>>] = "new"
  BY DEF UnreadInv
<1>1. /\ \/ fstatus[f] \in {"new", "pending"}
         \/ \E w \in FeedThreads : fslot[w] = f /\ call[w].at \in {"limit", "fetch"}
      /\ astatus[<<f, i>>] = "new"
  BY UnreadStays DEF UnreadInv
<1>2. ASSUME NEW w \in FeedThreads, FeedSchedule(w), f = fslot[w]
      PROVE  FALSE
  <2>1. call[w].at = "items" /\ f # None
    BY <1>2 DEF FeedSchedule
  <2> QED BY <1>1, <1>2, <2>1 DEF PoolInv
<1>3. <<f, i>> \in ArticleTasks /\ <<f, i>>[1] = f
  BY DEF ArticleTasks
<1> QED BY <1>1, <1>2, <1>3, TaskStatuses

LEMMA MainInvStep ==
  ASSUME CallInv, PoolInv, MainInv, [Next]_vars
  PROVE  MainInv'
<1> SUFFICES ASSUME mpc' = "list" PROVE MainInv'
  BY DEF MainInv
<1>1. CASE MainMoves
  BY <1>1, MainPools, MainMovesNobody DEF MainInv, PoolInv
<1>2. ASSUME NEW w \in FeedThreads, FeedStep(w)
      PROVE  FALSE
  <2>1. mpc = "list"
    BY <1>2 DEF FeedStep, FeedStart, FeedLimit, FeedFetch, FeedSchedule, FeedReturn
  <2>2. call[w].at = "idle" /\ \A f \in FeedTasks : fstatus[f] = "new"
    BY <2>1 DEF MainInv, Threads
  <2>3. ASSUME NEW f \in FeedTasks, FeedStart(w, f) PROVE FALSE
    BY <2>2, <2>3 DEF FeedStart, FP!Start
  <2> QED BY <1>2, <2>2, <2>3, FeedMoves DEF FeedStep
<1>3. ASSUME NEW w \in ArticleThreads, ArticleStep(w)
      PROVE  FALSE
  <2>1. mpc = "list"
    BY <1>3 DEF ArticleStep, TaskStart, TaskSeen, TaskLimit, TaskFetch, TaskAppend, TaskIndex,
                TaskReturn
  <2>2. call[w].at = "idle" /\ \A t \in ArticleTasks : astatus[t] = "new"
    BY <2>1 DEF MainInv, Threads
  <2>3. ASSUME NEW t \in ArticleTasks, TaskStart(w, t) PROVE FALSE
    BY <2>2, <2>3 DEF TaskStart, AP!Start
  <2> QED BY <1>3, <2>2, <2>3, TaskMoves DEF ArticleStep
<1> QED BY <1>1, <1>2, <1>3, Cases DEF FeedStep, ArticleStep

-------------------------------------------------------------------------------
(* A link does not change while it is used                                 *)

\* The item of an article task that has been scheduled stays what it is.
LEMMA ItemsStay ==
  ASSUME TasksInv, [Next]_vars, NEW t \in ArticleTasks, astatus[t] # "new"
  PROVE  items'[t[1]][t[2]] = items[t[1]][t[2]] /\ astatus'[t] # "new"
<1> USE DEF TasksInv
<1>1. astatus'[t] # "new"
  <2>1. ASSUME NEW w \in FeedThreads, FeedSchedule(w), astatus'[t] # astatus[t]
        PROVE  astatus'[t] = "pending"
    BY <2>1 DEF FeedSchedule, AP!Schedule, PoolInv
  <2> QED BY <2>1, TaskStatuses
<1>2. ASSUME NEW w \in FeedThreads, FeedFetch(w)
      PROVE  items'[t[1]] = items[t[1]]
  <2>1. items' = items \/ \E x : items' = [items EXCEPT ![fslot[w]] = x]
    BY <1>2 DEF FeedFetch, FeedOf
  <2>2. call[w].at = "fetch" /\ fslot[w] \in FeedTasks
    BY <1>2 DEF FeedFetch, PoolInv
  <2>3. \A i \in ItemNumbers : astatus[<<fslot[w], i>>] = "new"
    BY <2>2 DEF UnreadInv
  <2>4. t[1] \in FeedTasks /\ t[2] \in ItemNumbers /\ t = <<t[1], t[2]>>
    BY DEF ArticleTasks
  <2>5. t[1] # fslot[w]
    BY <2>3, <2>4
  <2> QED BY <2>1, <2>4, <2>5 DEF CallInv
<1>3. CASE \A w \in FeedThreads : ~FeedFetch(w)
  <2>1. items' = items
    BY <1>3, Cases, MainMovesNobody
       DEF FeedStart, FeedLimit, FeedSchedule, FeedReturn, TaskStart, TaskSeen,
           TaskLimit, TaskFetch, TaskAppend, TaskIndex, TaskReturn
  <2> QED BY <1>1, <2>1
<1> QED BY <1>1, <1>2, <1>3

\* A thread that is in the middle of a task keeps it.
LEMMA SlotsStay ==
  ASSUME TasksInv, [Next]_vars
  PROVE  /\ \A w \in FeedThreads :
              call[w].at # "idle" /\ call'[w].at # "idle" => fslot'[w] = fslot[w]
         /\ \A w \in ArticleThreads :
              call[w].at # "idle" /\ call'[w].at # "idle" => aslot'[w] = aslot[w]
<1> USE DEF TasksInv
<1>1. CASE MainMoves
  BY <1>1, MainMovesNobody
<1>2. ASSUME NEW v \in FeedThreads, FeedStep(v)
      PROVE  /\ aslot' = aslot
             /\ \A w \in FeedThreads :
                  call[w].at # "idle" /\ call'[w].at # "idle" => fslot'[w] = fslot[w]
  <2>1. aslot' = aslot
    BY <1>2 DEF FeedStep, FeedStart, FeedLimit, FeedFetch, FeedSchedule, FeedReturn, AP!Schedule
  <2>2. \/ fslot' = fslot
        \/ /\ \E x : fslot' = [fslot EXCEPT ![v] = x]
           /\ call[v].at = "idle" \/ call'[v].at = "idle"
    <3>1. ASSUME NEW f \in FeedTasks, FeedStart(v, f)
          PROVE  call[v].at = "idle" /\ \E x : fslot' = [fslot EXCEPT ![v] = x]
      BY <3>1 DEF FeedStart, FP!Start, Goes
    <3>2. CASE FeedReturn(v)
      <4>1. \E x : fslot' = [fslot EXCEPT ![v] = x]
        BY <3>2 DEF FeedReturn, FP!Finish
      <4> QED BY <3>2, <4>1, FeedMoves DEF Moved
    <3> QED BY <1>2, <3>1, <3>2 DEF FeedStep, FeedLimit, FeedFetch, FeedSchedule
  <2> QED BY <2>1, <2>2 DEF PoolInv
<1>3. ASSUME NEW v \in ArticleThreads, ArticleStep(v)
      PROVE  /\ fslot' = fslot
             /\ \A w \in ArticleThreads :
                  call[w].at # "idle" /\ call'[w].at # "idle" => aslot'[w] = aslot[w]
  <2>1. fslot' = fslot
    BY <1>3 DEF ArticleStep, TaskStart, TaskSeen, TaskLimit, TaskFetch, TaskAppend, TaskIndex,
                TaskReturn
  <2>2. \/ aslot' = aslot
        \/ /\ \E x : aslot' = [aslot EXCEPT ![v] = x]
           /\ call[v].at = "idle" \/ call'[v].at = "idle"
    <3>1. ASSUME NEW t \in ArticleTasks, TaskStart(v, t)
          PROVE  call[v].at = "idle" /\ \E x : aslot' = [aslot EXCEPT ![v] = x]
      BY <3>1 DEF TaskStart, AP!Start, Goes
    <3>2. CASE TaskReturn(v)
      <4>1. \E x : aslot' = [aslot EXCEPT ![v] = x]
        BY <3>2 DEF TaskReturn, AP!Finish
      <4> QED BY <3>2, <4>1, TaskMoves DEF Moved
    <3> QED BY <1>3, <3>1, <3>2 DEF ArticleStep, TaskSeen, TaskLimit, TaskFetch, TaskAppend,
                                    TaskIndex
  <2> QED BY <2>1, <2>2 DEF PoolInv
<1> QED BY <1>1, <1>2, <1>3, Cases DEF FeedStep, ArticleStep

\* So the server a thread downloads from is the one whose permit it has taken.
LEMMA ServerStays ==
  ASSUME TasksInv, [Next]_vars, NEW w \in Threads,
         call[w].at # "idle", call'[w].at # "idle"
  PROVE  ServerOf(w)' = ServerOf(w)
<1> USE DEF TasksInv
<1>1. feeds' = feeds
  <2>1. CASE MainMoves
    BY <2>1, MainPools DEF MainInv, PoolInv
  <2> QED BY <2>1, Cases DEF FeedStart, FeedLimit, FeedFetch, FeedSchedule, FeedReturn, TaskStart,
                    TaskSeen, TaskLimit, TaskFetch, TaskAppend, TaskIndex, TaskReturn
<1>2. CASE w \in FeedThreads
  <2>1. fslot'[w] = fslot[w]
    BY <1>2, SlotsStay
  <2> QED BY <1>1, <1>2, <2>1 DEF ServerOf, LinkOf
<1>3. CASE w \notin FeedThreads
  <2>1. w \in ArticleThreads
    BY <1>3 DEF Threads
  <2>2. aslot'[w] = aslot[w] /\ aslot[w] \in ArticleTasks /\ astatus[aslot[w]] # "new"
    BY <2>1, SlotsStay DEF PoolInv
  <2>3. items'[aslot[w][1]][aslot[w][2]] = items[aslot[w][1]][aslot[w][2]]
    BY <2>2, ItemsStay
  <2> QED BY <1>3, <2>2, <2>3 DEF ServerOf, LinkOf, ItemOf, ItemOfTask
<1> QED BY <1>2, <1>3

-------------------------------------------------------------------------------
(* The permits                                                             *)

LEMMA FetchingIsFinite ==
  ASSUME CallInv, NEW s
  PROVE  IsFiniteSet(Fetching(s)) /\ Cardinality(Fetching(s)) \in Nat
<1>1. IsFiniteSet(Threads)
  BY FS_Union DEF Threads
<1>2. Fetching(s) \subseteq Threads
  BY DEF Fetching, CallInv
<1> QED BY <1>1, <1>2, FS_Subset, FS_CardinalityType

\* Who downloads, after a step that moves w.
LEMMA FetchingMoves ==
  ASSUME TasksInv, CallInv', [Next]_vars, NEW w \in Threads, NEW a, Moved(w, a)
  PROVE  \A s : \A v \in Threads \ {w} : v \in Fetching(s)' <=> v \in Fetching(s)
<1> SUFFICES ASSUME NEW s, NEW v \in Threads \ {w}
             PROVE  v \in Fetching(s)' <=> v \in Fetching(s)
  OBVIOUS
<1>1. call'[v] = call[v]
  BY DEF Moved
<1>2. call[v].at = "fetch" => ServerOf(v)' = ServerOf(v)
  BY <1>1, ServerStays
<1>3. v \in DOMAIN call /\ v \in DOMAIN call'
  BY DEF TasksInv, CallInv
<1> QED BY <1>1, <1>2, <1>3 DEF Fetching, ServerOf

\* A step that takes w to its download takes a permit of the server.
LEMMA Takes ==
  ASSUME TasksInv, CallInv', PermitInv, [Next]_vars, NEW w \in Threads,
         call[w].at = "limit", Moved(w, "fetch"), TakePermit(LinkOf(w))
  PROVE  PermitInv'
<1>0. PICK s : s = ServerOf(w)
  OBVIOUS
<1>1. /\ serverSemaphore(s) > 0
      /\ serverLimits' = [x \in DOMAIN serverLimits \cup {s} |->
                             IF x = s THEN serverSemaphore(s) - 1 ELSE serverLimits[x]]
  BY <1>0 DEF TakePermit, ServerOf
<1>2. ServerOf(w)' = s
  BY <1>0, ServerStays DEF Moved
<1>3. w \notin Fetching(s) /\ \A x : w \in Fetching(x)' <=> x = s
  BY <1>0, <1>2 DEF Fetching, Moved, ServerOf, TasksInv, CallInv
<1>4. /\ Fetching(s)' = Fetching(s) \cup {w}
      /\ \A x : x # s => Fetching(x)' = Fetching(x)
  <2>1. \A x : Fetching(x) \subseteq Threads /\ Fetching(x)' \subseteq Threads
    BY DEF Fetching, CallInv, TasksInv
  <2>2. \A x : x # s => w \notin Fetching(x)
    BY <1>0 DEF Fetching, ServerOf
  <2>3. \A x : \A v \in Threads \ {w} : v \in Fetching(x)' <=> v \in Fetching(x)
    BY FetchingMoves
  <2>4. ASSUME NEW x, x # s
        PROVE  Fetching(x)' = Fetching(x)
    BY <1>3, <2>1, <2>2, <2>3, <2>4
  <2> QED BY <1>3, <2>1, <2>3, <2>4
<1>5. Cardinality(Fetching(s)') = Cardinality(Fetching(s)) + 1
  BY <1>3, <1>4, FetchingIsFinite, FS_AddElement DEF TasksInv
<1>6. serverSemaphore(s) \in Nat /\ serverSemaphore(s) + Cardinality(Fetching(s)) =
        kMaxConnectionsPerServer
  <2>1. CASE s \in DOMAIN serverLimits
    BY <2>1 DEF PermitInv, serverSemaphore
  <2>2. CASE s \notin DOMAIN serverLimits
    <3>1. Fetching(s) = {}
      BY <2>2 DEF Fetching, PermitInv, ServerOf, TasksInv, CallInv
    <3> QED BY <2>2, <3>1, FS_EmptySet DEF serverSemaphore
  <2> QED BY <2>1, <2>2
<1>7. ASSUME NEW x \in DOMAIN serverLimits'
      PROVE  /\ serverLimits'[x] \in 0 .. kMaxConnectionsPerServer
             /\ serverLimits'[x] + Cardinality(Fetching(x)') = kMaxConnectionsPerServer
  <2>1. CASE x = s
    <3>1. serverLimits'[x] = serverSemaphore(s) - 1
      BY <1>1, <2>1
    <3>2. Cardinality(Fetching(s)) \in Nat
      BY FetchingIsFinite DEF TasksInv
    <3> QED BY <1>1, <1>5, <1>6, <2>1, <3>1, <3>2
  <2>2. CASE x # s
    BY <1>1, <1>4, <2>2 DEF PermitInv
  <2> QED BY <2>1, <2>2
<1>8. ASSUME NEW v \in Threads, call'[v].at = "fetch"
      PROVE  ServerOf(v)' \in DOMAIN serverLimits'
  <2>1. CASE v = w
    BY <1>1, <1>2, <2>1
  <2>2. CASE v # w
    BY <1>1, <1>8, <2>2, ServerStays DEF Moved, PermitInv
  <2> QED BY <2>1, <2>2
<1>9. serverLimits' = [x \in DOMAIN serverLimits' |-> serverLimits'[x]]
  BY <1>1
<1> QED BY <1>7, <1>8, <1>9 DEF PermitInv

\* A step that ends the download of w gives the permit back.
LEMMA Returns ==
  ASSUME TasksInv, CallInv', PermitInv, [Next]_vars, NEW w \in Threads, NEW a,
         call[w].at = "fetch", Moved(w, a), a # "fetch", ReturnPermit(LinkOf(w))
  PROVE  PermitInv'
<1>0. PICK s : s = ServerOf(w)
  OBVIOUS
<1>1. serverLimits' = [serverLimits EXCEPT ![s] = @ + 1]
  BY <1>0 DEF ReturnPermit, ServerOf
<1>2. s \in DOMAIN serverLimits
  BY <1>0 DEF PermitInv
<1>3. w \in Fetching(s) /\ \A x : w \notin Fetching(x)'
  BY <1>0 DEF Fetching, Moved, ServerOf, TasksInv, CallInv
<1>4. /\ Fetching(s)' = Fetching(s) \ {w}
      /\ \A x : x # s => Fetching(x)' = Fetching(x)
  <2>1. \A x : Fetching(x) \subseteq Threads /\ Fetching(x)' \subseteq Threads
    BY DEF Fetching, CallInv, TasksInv
  <2>2. \A x : x # s => w \notin Fetching(x)
    BY <1>0 DEF Fetching, ServerOf
  <2>3. \A x : \A v \in Threads \ {w} : v \in Fetching(x)' <=> v \in Fetching(x)
    BY FetchingMoves
  <2>4. ASSUME NEW x, x # s
        PROVE  Fetching(x)' = Fetching(x)
    BY <1>3, <2>1, <2>2, <2>3, <2>4
  <2> QED BY <1>3, <2>1, <2>3, <2>4
<1>5. Cardinality(Fetching(s)') = Cardinality(Fetching(s)) - 1
  BY <1>3, <1>4, FetchingIsFinite, FS_RemoveElement DEF TasksInv
<1>6. Cardinality(Fetching(s)) \in Nat /\ Cardinality(Fetching(s)') \in Nat
  BY FetchingIsFinite, <1>3, <1>4, FS_RemoveElement, FS_CardinalityType DEF TasksInv
<1>7. ASSUME NEW x \in DOMAIN serverLimits'
      PROVE  /\ serverLimits'[x] \in 0 .. kMaxConnectionsPerServer
             /\ serverLimits'[x] + Cardinality(Fetching(x)') = kMaxConnectionsPerServer
  <2>1. CASE x = s
    <3>1. serverLimits'[x] = serverLimits[s] + 1
      BY <1>1, <1>2, <2>1
    <3>2. serverLimits[s] \in Nat
          /\ serverLimits[s] + Cardinality(Fetching(s)) = kMaxConnectionsPerServer
      BY <1>2 DEF PermitInv
    <3> QED BY <1>5, <1>6, <2>1, <3>1, <3>2
  <2>2. CASE x # s
    BY <1>1, <1>4, <2>2 DEF PermitInv
  <2> QED BY <2>1, <2>2
<1>8. ASSUME NEW v \in Threads, call'[v].at = "fetch"
      PROVE  ServerOf(v)' \in DOMAIN serverLimits'
  <2>1. v # w
    BY <1>8 DEF Moved
  <2> QED BY <1>1, <1>8, <2>1, ServerStays DEF Moved, PermitInv
<1>9. serverLimits' = [x \in DOMAIN serverLimits' |-> serverLimits'[x]]
  BY <1>1 DEF PermitInv
<1> QED BY <1>7, <1>8, <1>9 DEF PermitInv

\* Every other step leaves the permits and the downloads alone.
LEMMA NeitherTakesNorReturns ==
  ASSUME TasksInv, CallInv', PermitInv, [Next]_vars, NEW w \in Threads, NEW a,
         call[w].at # "fetch", Moved(w, a), a # "fetch", serverLimits' = serverLimits
  PROVE  PermitInv'
<1>1. \A x : w \notin Fetching(x) /\ w \notin Fetching(x)'
  BY DEF Fetching, Moved
<1>2. \A x : Fetching(x) \subseteq Threads /\ Fetching(x)' \subseteq Threads
  BY DEF Fetching, CallInv, TasksInv
<1>3. \A x : Fetching(x)' = Fetching(x)
  BY <1>1, <1>2, FetchingMoves
<1>4. ASSUME NEW v \in Threads, call'[v].at = "fetch"
      PROVE  ServerOf(v)' \in DOMAIN serverLimits'
  <2>1. v # w
    BY <1>4 DEF Moved
  <2> QED BY <1>4, <2>1, ServerStays DEF Moved, PermitInv
<1> QED BY <1>3, <1>4 DEF PermitInv

LEMMA PermitStep ==
  ASSUME TasksInv, CallInv', PermitInv, [Next]_vars
  PROVE  PermitInv'
<1> USE DEF TasksInv
<1>1. CASE MainMoves
  <2>1. UNCHANGED <<call, serverLimits>>
    BY <1>1, MainMovesNobody
  <2>2. \A w \in Threads : call[w].at = "fetch" => ServerOf(w)' = ServerOf(w)
    BY <2>1, ServerStays
  <2>3. \A x : Fetching(x)' = Fetching(x)
    BY <2>1, <2>2 DEF Fetching, ServerOf, CallInv
  <2> QED BY <2>1, <2>2, <2>3 DEF PermitInv
<1>2. ASSUME NEW w \in FeedThreads, FeedStep(w)
      PROVE  PermitInv'
  <2>0. w \in Threads
    BY DEF Threads
  <2>1. CASE FeedLimit(w)
    <3>1. TakePermit(LinkOf(w))
      BY <2>1 DEF FeedLimit, LinkOf, FeedOf
    <3> QED BY <2>0, <2>1, <3>1, FeedMoves, Takes
  <2>2. CASE FeedFetch(w)
    <3>1. ReturnPermit(LinkOf(w))
      BY <2>2 DEF FeedFetch, LinkOf, FeedOf
    <3> QED BY <2>0, <2>2, <3>1, FeedMoves, Returns
  <2>3. CASE (\E f \in FeedTasks : FeedStart(w, f)) \/ FeedSchedule(w) \/ FeedReturn(w)
    <3>1. serverLimits' = serverLimits
      BY <2>3 DEF FeedStart, FeedSchedule, FeedReturn
    <3> QED BY <2>0, <2>3, <3>1, FeedMoves, NeitherTakesNorReturns
  <2> QED BY <1>2, <2>1, <2>2, <2>3 DEF FeedStep
<1>3. ASSUME NEW w \in ArticleThreads, ArticleStep(w)
      PROVE  PermitInv'
  <2>0. w \in Threads /\ w \notin FeedThreads
    BY DEF Threads
  <2>1. CASE TaskLimit(w)
    <3>1. TakePermit(LinkOf(w))
      BY <2>0, <2>1 DEF TaskLimit, LinkOf
    <3> QED BY <2>0, <2>1, <3>1, TaskMoves, Takes
  <2>2. CASE TaskFetch(w)
    <3>1. ReturnPermit(LinkOf(w))
      BY <2>0, <2>2 DEF TaskFetch, LinkOf
    <3> QED BY <2>0, <2>2, <3>1, TaskMoves, Returns
  <2>3. CASE \/ \E t \in ArticleTasks : TaskStart(w, t)
             \/ TaskSeen(w) \/ TaskAppend(w) \/ TaskIndex(w) \/ TaskReturn(w)
    <3>1. serverLimits' = serverLimits
      BY <2>3 DEF TaskStart, TaskSeen, TaskAppend, TaskIndex, TaskReturn
    <3> QED BY <2>0, <2>3, <3>1, TaskMoves, NeitherTakesNorReturns
  <2> QED BY <1>3, <2>1, <2>2, <2>3 DEF ArticleStep
<1> QED BY <1>1, <1>2, <1>3, Cases DEF FeedStep, ArticleStep

-------------------------------------------------------------------------------
(* The claims                                                              *)

\* Where the claims come from: only TaskSeen adds one, for a link it had not seen.
LEMMA ClaimedMoves ==
  ASSUME TasksInv, [Next]_vars, NEW t \in Claimed'
  PROVE  \/ t \in Claimed
         \/ \E w \in ArticleThreads :
              /\ TaskSeen(w) /\ t = aslot[w] /\ aslot[w] # None
              /\ ItemOf(w).link \notin seenURLs
              /\ seenURLs' = seenURLs \cup {ItemOf(w).link}
<1> USE DEF TasksInv
<1>1. CASE t \in fetched'
  <2>1. ASSUME NEW w \in ArticleThreads, TaskLimit(w)
        PROVE  t \in Claimed
    <3>1. call[w].at = "limit" /\ fetched' = fetched \cup {aslot[w]}
      BY <2>1 DEF TaskLimit, Goes
    <3> QED BY <1>1, <3>1 DEF Claimed
  <2>2. CASE \A w \in ArticleThreads : ~TaskLimit(w)
    <3>1. fetched' = fetched
      BY <2>2, Cases, MainMovesNobody
         DEF FeedStart, FeedLimit, FeedFetch, FeedSchedule, FeedReturn, TaskStart, TaskSeen,
             TaskFetch, TaskAppend, TaskIndex, TaskReturn
    <3> QED BY <1>1, <3>1 DEF Claimed
  <2> QED BY <2>1, <2>2
<1>2. ASSUME NEW w \in ArticleThreads, t = aslot'[w], call'[w].at = "limit"
      PROVE  \/ t \in Claimed
             \/ /\ TaskSeen(w) /\ t = aslot[w] /\ aslot[w] # None
                /\ ItemOf(w).link \notin seenURLs
                /\ seenURLs' = seenURLs \cup {ItemOf(w).link}
  <2>1. CASE call[w].at = "limit"
    <3>1. aslot'[w] = aslot[w]
      BY <1>2, <2>1, SlotsStay
    <3> QED BY <1>2, <2>1, <3>1 DEF Claimed
  <2>2. CASE call[w].at # "limit"
    <3>1. w \in Threads /\ w \notin FeedThreads
      BY DEF Threads
    <3>2. ~MainMoves
      BY <1>2, <2>2, MainMovesNobody
    <3>3. ASSUME NEW v \in FeedThreads, FeedStep(v)
          PROVE  FALSE
      <4>1. \E a : Moved(v, a)
        BY <3>3, FeedMoves DEF FeedStep
      <4>2. call'[w] = call[w]
        BY <3>1, <4>1 DEF Moved
      <4> QED BY <1>2, <2>2, <4>2
    <3>4. ASSUME NEW v \in ArticleThreads, ArticleStep(v)
          PROVE  v = w /\ TaskSeen(w)
      <4>1. ASSUME NEW a, Moved(v, a)
            PROVE  v = w /\ a = "limit"
        BY <1>2, <2>2, <3>1, <4>1 DEF Moved
      <4>2. (\E a : Moved(v, a)) /\ (Moved(v, "limit") => ~Moved(v, "seen") /\ ~Moved(v, "fetch")
              /\ ~Moved(v, "return") /\ ~Moved(v, "append") /\ ~Moved(v, "index")
              /\ ~Moved(v, "idle"))
        <5>1. \E a : Moved(v, a)
          BY <3>4, TaskMoves DEF ArticleStep
        <5> QED BY <5>1 DEF Moved
      <4> QED BY <3>4, <4>1, <4>2, TaskMoves DEF ArticleStep
    <3>5. TaskSeen(w)
      BY <3>2, <3>3, <3>4, Cases DEF FeedStep, ArticleStep
    <3>6. /\ call[w].at = "seen" /\ aslot' = aslot
          /\ call' = [call EXCEPT ![w].at = IF ItemOf(w).link \in seenURLs THEN "return" ELSE "limit"]
          /\ seenURLs' = seenURLs \cup {ItemOf(w).link}
      BY <3>5 DEF TaskSeen, Goes
    <3>7. ItemOf(w).link \notin seenURLs
      BY <1>2, <3>1, <3>6 DEF CallInv
    <3> QED BY <1>2, <3>5, <3>6, <3>7 DEF PoolInv
  <2> QED BY <2>1, <2>2
<1> QED BY <1>1, <1>2 DEF Claimed

LEMMA OneSees ==
  ASSUME CallInv, NEW v \in ArticleThreads, NEW w \in ArticleThreads, TaskSeen(v), TaskSeen(w)
  PROVE  v = w
<1>1. call[w].at = "seen" /\ call'[w].at \in {"return", "limit"}
  BY TaskMoves DEF Moved
<1>2. w # v => call'[w] = call[w]
  BY TaskMoves DEF Moved, Threads
<1> QED BY <1>1, <1>2

LEMMA SeenGrows ==
  ASSUME [Next]_vars
  PROVE  seenURLs \subseteq seenURLs'
BY Cases, MainMovesNobody
   DEF FeedStart, FeedLimit, FeedFetch, FeedSchedule, FeedReturn, TaskStart, TaskSeen, TaskLimit,
       TaskFetch, TaskAppend, TaskIndex, TaskReturn

LEMMA ClaimStep ==
  ASSUME TasksInv, ClaimInv, [Next]_vars
  PROVE  ClaimInv'
<1> DEFINE LinkNow(t) == items[t[1]][t[2]].link
           LinkThen(t) == items'[t[1]][t[2]].link
           New(t) == /\ t \in ArticleTasks /\ astatus[t] # "new"
                     /\ LinkNow(t) \notin seenURLs
                     /\ seenURLs' = seenURLs \cup {LinkNow(t)}
                     /\ \E w \in ArticleThreads : TaskSeen(w) /\ t = aslot[w]
<1>1. ASSUME NEW t \in Claimed'
      PROVE  t \in Claimed \/ New(t)
  BY ClaimedMoves DEF TasksInv, PoolInv, ItemOf, ItemOfTask
<1>2. ASSUME NEW t \in Claimed
      PROVE  t \in ArticleTasks /\ astatus[t] # "new" /\ LinkNow(t) \in seenURLs
  BY DEF ClaimInv, ItemOfTask
<1>3. ASSUME NEW t \in ArticleTasks, astatus[t] # "new"
      PROVE  LinkThen(t) = LinkNow(t) /\ astatus'[t] # "new"
  BY <1>3, ItemsStay
<1>4. ASSUME NEW t \in Claimed'
      PROVE  t \in ArticleTasks /\ astatus'[t] # "new" /\ LinkThen(t) \in seenURLs'
  BY <1>1, <1>2, <1>3, SeenGrows
<1>5. ASSUME NEW t \in Claimed', NEW u \in Claimed', LinkThen(t) = LinkThen(u)
      PROVE  t = u
  <2>1. LinkNow(t) = LinkNow(u)
    BY <1>1, <1>2, <1>3, <1>5
  <2>2. CASE t \in Claimed /\ u \in Claimed
    BY <2>1, <2>2 DEF ClaimInv, ItemOfTask
  <2>3. CASE ~(t \in Claimed /\ u \in Claimed)
    <3>1. ~(New(t) /\ u \in Claimed) /\ ~(New(u) /\ t \in Claimed)
      BY <1>2, <2>1
    <3>2. New(t) /\ New(u)
      BY <1>1, <2>3, <3>1
    <3> QED BY <3>2, OneSees DEF TasksInv
  <2> QED BY <2>2, <2>3
<1> QED BY <1>4, <1>5 DEF ClaimInv, ItemOfTask

-------------------------------------------------------------------------------
(* The theorems                                                            *)

LEMMA WaitsStep ==
  ASSUME WaitsInv, [Next]_vars
  PROVE  WaitsInv'
<1> USE DEF WaitsInv
<1>1. ASSUME UNCHANGED <<fwaiting, fopen, awaiting, aopen>>
      PROVE  WaitsInv'
  BY <1>1, Zenon
<1>2. CASE MainSchedule
  BY <1>1, <1>2 DEF MainSchedule, FP!Schedule
<1>3. CASE MainFeedWait
  <2>1. fwaiting' = fwaiting \cup {"main"} /\ UNCHANGED <<fopen, awaiting, aopen>>
    BY <1>3 DEF MainFeedWait, FP!CallWait
  <2> QED BY <2>1, Zenon
<1>4. CASE MainArticleWait
  <2>1. /\ fwaiting' = fwaiting \ {"main"} /\ awaiting' = awaiting \cup {"main"}
        /\ UNCHANGED <<fopen, aopen>>
    BY <1>4 DEF MainArticleWait, FP!ReturnFromWait, AP!CallWait
  <2> QED BY <2>1, Zenon
<1>5. CASE MainWaited
  <2>1. awaiting' = awaiting \ {"main"} /\ UNCHANGED <<fwaiting, fopen, aopen>>
    BY <1>5 DEF MainWaited, AP!ReturnFromWait
  <2> QED BY <2>1, Zenon
<1>6. CASE MainClose
  <2>1. fopen' = FALSE /\ aopen' = FALSE /\ UNCHANGED <<fwaiting, awaiting>>
    BY <1>6 DEF MainClose, FP!Close, AP!Close
  <2> QED BY <2>1, Zenon
<1>7. CASE MainList \/ Failed \/ UNCHANGED vars \/ \E word \in Typed : Query(word)
  BY <1>1, <1>7 DEF MainList, Failed, Query
<1>8. ASSUME NEW w \in FeedThreads, FeedStep(w)
      PROVE  WaitsInv'
  BY <1>1, <1>8 DEF FeedStep, FeedStart, FeedLimit, FeedFetch, FeedSchedule, FeedReturn,
                    FP!Start, FP!Finish, AP!Schedule
<1>9. ASSUME NEW w \in ArticleThreads, ArticleStep(w)
      PROVE  WaitsInv'
  BY <1>1, <1>9 DEF ArticleStep, TaskStart, TaskSeen, TaskLimit, TaskFetch, TaskAppend, TaskIndex,
                    TaskReturn, AP!Start, AP!Finish
<1> QED BY <1>2, <1>3, <1>4, <1>5, <1>6, <1>7, <1>8, <1>9, Cases
        DEF MainMoves, MainStep, FeedStep, ArticleStep

\* A thread of a quiet pool has nothing to do.
LEMMA QuietIsIdle ==
  ASSUME CallInv, PoolInv
  PROVE  /\ FP!Quiet => \A w \in FeedThreads : ~FeedStep(w)
         /\ AP!Quiet => \A w \in ArticleThreads : ~ArticleStep(w)
<1>1. ASSUME FP!Quiet, NEW w \in FeedThreads, FeedStep(w)
      PROVE  FALSE
  <2>1. fslot[w] = None /\ call[w].at = "idle"
    BY <1>1 DEF PoolInv, FP!Quiet
  <2>2. \A f \in FeedTasks : ~FeedStart(w, f)
    BY <1>1 DEF FeedStart, FP!Start, FP!Quiet
  <2> QED BY <1>1, <2>1, <2>2, FeedMoves DEF FeedStep
<1>2. ASSUME AP!Quiet, NEW w \in ArticleThreads, ArticleStep(w)
      PROVE  FALSE
  <2>1. aslot[w] = None /\ call[w].at = "idle"
    BY <1>2 DEF PoolInv, AP!Quiet
  <2>2. \A t \in ArticleTasks : ~TaskStart(w, t)
    BY <1>2 DEF TaskStart, AP!Start, AP!Quiet
  <2> QED BY <1>2, <2>1, <2>2, TaskMoves DEF ArticleStep
<1> QED BY <1>1, <1>2

LEMMA QuietStep ==
  ASSUME CallInv, PoolInv, QuietInv, [Next]_vars
  PROVE  QuietInv'
<1> USE DEF QuietInv, FP!Quiet, AP!Quiet
<1>1. CASE MainList \/ MainSchedule \/ MainFeedWait
  BY <1>1 DEF MainList, MainSchedule, MainFeedWait
<1>2. CASE MainArticleWait
  BY <1>2 DEF MainArticleWait, FP!ReturnFromWait
<1>3. CASE MainWaited
  BY <1>3 DEF MainWaited, AP!ReturnFromWait
<1>4. CASE MainClose
  BY <1>4 DEF MainClose, FP!Close, AP!Close
<1>5. CASE Failed \/ UNCHANGED vars \/ \E word \in Typed : Query(word)
  BY <1>5 DEF Failed, Query
<1>6. ASSUME NEW w \in FeedThreads, FeedStep(w)
      PROVE  QuietInv'
  <2>1. mpc' = mpc
    BY <1>6 DEF FeedStep, FeedStart, FeedLimit, FeedFetch, FeedSchedule, FeedReturn
  <2>2. ~FP!Quiet
    BY <1>6, QuietIsIdle
  <2> QED BY <2>1, <2>2
<1>7. ASSUME NEW w \in ArticleThreads, ArticleStep(w)
      PROVE  QuietInv'
  <2>1. mpc' = mpc /\ fstatus' = fstatus
    BY <1>7 DEF ArticleStep, TaskStart, TaskSeen, TaskLimit, TaskFetch, TaskAppend, TaskIndex,
                TaskReturn
  <2>2. ~AP!Quiet
    BY <1>7, QuietIsIdle
  <2> QED BY <2>1, <2>2
<1> QED BY <1>1, <1>2, <1>3, <1>4, <1>5, <1>6, <1>7, Cases
        DEF MainMoves, MainStep, FeedStep, ArticleStep

LEMMA InitInv == Init => AInv
<1> SUFFICES ASSUME Init PROVE AInv
  OBVIOUS
<1> USE DEF Init
<1>1. CallInv
  BY DEF CallInv, Threads, Idle, At, FeedPC, ArticlePC
<1>2. PoolInv
  BY DEF FP!Init, AP!Init, PoolInv, FP!Status, AP!Status, Idle, At
<1>3. MainInv /\ UnreadInv
  BY DEF FP!Init, AP!Init, MainInv, UnreadInv, Threads, Idle, At, ArticleTasks
<1>4. WaitsInv
  BY Zenon DEF FP!Init, AP!Init, WaitsInv
<1>5. PermitInv
  BY DEF PermitInv, Threads, Idle, At
<1>6. ClaimInv
  <2>1. Claimed = {}
    BY DEF Claimed, Threads, Idle, At
  <2> QED BY <2>1 DEF ClaimInv
<1>7. QuietInv
  BY DEF QuietInv
<1> QED BY <1>1, <1>2, <1>3, <1>4, <1>5, <1>6, <1>7 DEF AInv, TasksInv

LEMMA NextInv ==
  ASSUME AInv, [Next]_vars
  PROVE  AInv'
<1> USE DEF AInv
<1>1. CallInv'
  BY CallStep DEF TasksInv
<1>2. PoolInv' /\ MainInv' /\ UnreadInv'
  BY PoolStep, MainInvStep, UnreadStep DEF TasksInv
<1>3. WaitsInv' /\ PermitInv' /\ ClaimInv' /\ QuietInv'
  BY <1>1, WaitsStep, PermitStep, ClaimStep, QuietStep DEF TasksInv
<1>4. mpc' \in {"list", "failed", "schedule", "feedWait", "articleWait", "close", "queries"}
  <2>1. CASE MainMoves
    BY <2>1 DEF MainMoves, MainStep, MainList, MainSchedule, MainFeedWait, MainArticleWait,
                MainWaited, MainClose, Failed, Query
  <2> QED BY <2>1, Cases DEF FeedStart, FeedLimit, FeedFetch, FeedSchedule, FeedReturn, TaskStart,
                    TaskSeen, TaskLimit, TaskFetch, TaskAppend, TaskIndex, TaskReturn
<1>5. DOMAIN invertedIndex' = Tokens
  <2>1. CASE MainMoves
    BY <2>1, MainMovesNobody
  <2> QED BY <2>1, Cases DEF FeedStart, FeedLimit, FeedFetch, FeedSchedule, FeedReturn, TaskStart,
                    TaskSeen, TaskLimit, TaskFetch, TaskAppend, TaskIndex, TaskReturn, WithCounts
<1> QED BY <1>1, <1>2, <1>3, <1>4, <1>5 DEF TasksInv

LEMMA AlwaysInv == Spec => []AInv
BY InitInv, NextInv, PTL DEF Spec

\* No server ever has more downloads under way than its limit, from either pool, and no
\* permit is lost: what is not with a download is with the semaphore (serverSemaphore
\* and the signal() after fetchURL in aggregate.cc), whichever downloads fail.
THEOREM Throttled == Spec => []ThrottleHolds
<1>1. AInv => ThrottleHolds
  <2> SUFFICES ASSUME AInv PROVE ThrottleHolds
    OBVIOUS
  <2> USE DEF AInv, TasksInv
  <2>1. FP!TypeOK /\ AP!TypeOK
    BY DEF PoolInv, WaitsInv, FP!TypeOK, AP!TypeOK
  <2>2. \A w \in DOMAIN call :
          call[w].at \in {"idle", "seen", "limit", "fetch", "items", "append", "index", "return"}
    BY DEF CallInv, Threads, FeedPC, ArticlePC
  <2>3. fetched \subseteq ArticleTasks
    BY DEF ClaimInv, Claimed
  <2> QED BY <2>1, <2>2, <2>3 DEF ThrottleHolds, TypeOK, PermitInv
<1> QED BY <1>1, AlwaysInv, PTL

\* Of all the tasks of all feeds with one link at most one downloads it: the look into
\* seenURLs and the entry are one critical section (processArticle in aggregate.cc),
\* and a link does not change once its task has been scheduled.
THEOREM LinksFetchedOnce == Spec => []FetchedOnce
<1>1. AInv => FetchedOnce
  BY DEF AInv, ClaimInv, Claimed, FetchedOnce
<1> QED BY <1>1, AlwaysInv, PTL

\* When queries are answered nothing that was scheduled is left, and the index does not
\* change any more: main waits for the feeds first and for the articles they have scheduled
\* then (main in aggregate.cc), although each pool is quiet now and then before that.
IndexIsFinal ==
  [][mpc = "queries" => AP!Quiet /\ UNCHANGED <<articles, invertedIndex, seenURLs>>]_vars

\* runQueries reads the index without its lock (aggregate.cc), and may.
THEOREM QueriesReadFinalIndex == Spec => IndexIsFinal
<1>1. ASSUME AInv, [Next]_vars, mpc = "queries"
      PROVE  AP!Quiet /\ UNCHANGED <<articles, invertedIndex, seenURLs>>
  <2>1. FP!Quiet /\ AP!Quiet
    BY <1>1 DEF AInv, QuietInv
  <2>2. MainMoves
    BY <1>1, <2>1, QuietIsIdle, Cases DEF AInv, TasksInv, FeedStep, ArticleStep
  <2>3. UNCHANGED <<articles, invertedIndex, seenURLs>>
    BY <2>2 DEF MainMoves, MainStep, MainList, MainSchedule, MainFeedWait, MainArticleWait,
                MainWaited, MainClose, Failed, Query, shared
  <2> QED BY <2>1, <2>3
<1> QED BY <1>1, AlwaysInv, PTL DEF Spec, IndexIsFinal

-------------------------------------------------------------------------------
(* The data: what is read, appended and indexed.  What a page says is      *)
(* given by SiteAssumption; here, that the threads lose and mix up nothing *)

Whole(u) == Len(Site[u].doc)
LinkTo(t) == ItemOfTask(t).link
FromSite(list) ==
  \/ list = <<>>
  \/ \E u \in DOMAIN Site : \E n \in 0 .. Whole(u) : list = parseRSSItems(Cut(u, n), u)
Meant(list) == {parseHttpURL(list[i].link) : i \in DOMAIN list}

\* The feeds that main schedules.
FeedsInv ==
  /\ DOMAIN feeds \subseteq FeedTasks
  /\ \A f \in DOMAIN feeds : Reachable(feeds[f].link)
  /\ \A f \in FeedTasks : fstatus[f] # "new" => f \in DOMAIN feeds
  /\ mpc \in {"feedWait", "articleWait", "close", "queries"} =>
       \A f \in DOMAIN feeds : fstatus[f] # "new"

\* A feed that has not been read, or could not be, has no items; a steady one has all of
\* them once it is read; those before the next one are scheduled, in the end all.
Blank(f) ==
  \/ fstatus[f] \in {"new", "pending"}
  \/ \E w \in FeedThreads : fslot[w] = f /\ call[w].at \in {"limit", "fetch", "return"}
Read(f) ==
  \/ fstatus[f] = "finished"
  \/ \E w \in FeedThreads : fslot[w] = f /\ call[w].at \in {"items", "return"}
ItemsInv ==
  /\ \A f \in FeedTasks :
       /\ FromSite(items[f])
       /\ Blank(f) => items[f] = <<>>
       /\ Read(f) /\ Steady(parseHttpURL(feeds[f].link)) =>
            Meant(items[f]) = Site[parseHttpURL(feeds[f].link)].meant
       /\ fstatus[f] = "finished" => \A i \in DOMAIN items[f] : astatus[<<f, i>>] # "new"
  /\ \A t \in ArticleTasks : astatus[t] # "new" => t[2] \in DOMAIN items[t[1]]
  /\ \A w \in FeedThreads : call[w].at = "items" =>
       /\ call[w].next \in Nat \ {0}
       /\ \A i \in DOMAIN items[fslot[w]] : i < call[w].next => astatus[<<fslot[w], i>>] # "new"

\* Words that page u has, all of them if its server is steady.
GoodWords(words, u) ==
  /\ u \in DOMAIN Site
  /\ \A w \in Tokens : Count(words, w) \in 0 .. Shows(u, w)
  /\ Steady(u) => \A w \in Tokens : Count(words, w) = Shows(u, w)
HitsOf(w, k) == {h \in invertedIndex[w] : h[1] = k}
Indexed(k) ==
  \E words :
    /\ GoodWords(words, Page(k))
    /\ \A w \in Tokens : HitsOf(w, k) = {<<k, Count(words, w)>>} \ {<<k, 0>>}

\* An article was downloaded by one task, which is past the table; a thread that is about
\* to index has the number of its own article.
IsList(s) == \E S : s \in Seq(S)
ArticlesInv ==
  /\ IsList(articles)
  /\ \A t \in fetched : astatus[t] \in {"running", "finished"}
  /\ \A w \in ArticleThreads :
       /\ call[w].at \in {"fetch", "append", "index"} => aslot[w] \in fetched
       /\ call[w].at = "append" => GoodWords(call[w].words, parseHttpURL(LinkTo(aslot[w])))
       /\ call[w].at = "index" =>
            /\ call[w].next \in DOMAIN articles
            /\ articles[call[w].next].url = LinkTo(aslot[w])
            /\ GoodWords(call[w].words, Page(call[w].next))
            /\ \A x \in Tokens : HitsOf(x, call[w].next) = {}
  /\ \A k \in DOMAIN articles :
       \E t \in fetched :
         /\ articles[k].url = LinkTo(t)
         /\ \A w \in ArticleThreads : aslot[w] = t => call[w].at \in {"index", "return"}
  /\ \A j, k \in DOMAIN articles : articles[j].url = articles[k].url => j = k

IndexInv ==
  /\ \A w \in Tokens :
       /\ IsFiniteSet(invertedIndex[w])
       /\ \A h \in invertedIndex[w] : h[1] \in DOMAIN articles
  /\ \A k \in DOMAIN articles :
       Indexed(k) \/ \E v \in ArticleThreads : call[v].at = "index" /\ call[v].next = k

\* A link that was seen is in somebody's hands, or has been dealt with.
Dealt(link) ==
  Steady(parseHttpURL(link)) /\ Site[parseHttpURL(link)].shows # <<>> =>
    \E k \in DOMAIN articles : articles[k].url = link
SeenInv ==
  /\ \A t \in ArticleTasks :
       \/ astatus[t] = "finished"
       \/ \E w \in ArticleThreads : aslot[w] = t /\ call[w].at # "seen"
       => LinkTo(t) \in seenURLs
  /\ \A link \in seenURLs :
       \/ Dealt(link)
       \/ \E w \in ArticleThreads :
            call[w].at \in {"limit", "fetch", "append"} /\ LinkTo(aslot[w]) = link

DataInv == FeedsInv /\ ItemsInv /\ ArticlesInv /\ IndexInv /\ SeenInv

-------------------------------------------------------------------------------
(* What a download gives                                                   *)

\* Links are resolved against the server and the path of a URL, however it is written.
LEMMA BaseMatters ==
  ASSUME NEW doc, NEW a, NEW b, parseHttpURL(a) = parseHttpURL(b)
  PROVE  parseRSSItems(doc, a) = parseRSSItems(doc, b)
<1>1. \A link : resolve(a, link) = resolve(b, link)
  BY DEF resolve
<1> DEFINE Item(base, i) ==
             LET t == childNamed(doc, i, "title")
                 l == childNamed(doc, i, "link")
             IN  IF doc[i].name \in {"item", "entry"} /\ l # 0
                 THEN <<[title |-> IF t = 0 THEN 0 ELSE doc[t].text,
                         link |-> resolve(base, linkText(doc[l]))]>>
                 ELSE <<>>
<1>2. \A i : Item(a, i) = Item(b, i)
  BY <1>1
<1>3. parseRSSItems(doc, a) = FlattenSeq([i \in DOMAIN doc |-> Item(a, i)])
  BY DEF parseRSSItems
<1>4. parseRSSItems(doc, b) = FlattenSeq([i \in DOMAIN doc |-> Item(b, i)])
  BY DEF parseRSSItems
<1> HIDE DEF Item
<1>5. [i \in DOMAIN doc |-> Item(a, i)] = [i \in DOMAIN doc |-> Item(b, i)]
  BY <1>2
<1> QED BY <1>3, <1>4, <1>5

\* A download that succeeds gives a part of the page, the whole of it from a steady server.
LEMMA DownloadIs ==
  ASSUME NEW url, NEW x \in Downloads(url), x # None, NEW u, u = parseHttpURL(url)
  PROVE  /\ u \in DOMAIN Site
         /\ \E n \in 0 .. Whole(u) : x = Cut(u, n)
         /\ Steady(u) => x = Site[u].doc
<1>1. PICK a \in Answers(url) : fetchURL(url, a) # None /\ x = SubSeq(Document(url), 1, fetchURL(url, a))
  BY DEF Downloads
<1>2. a # NoConnection /\ ingestFrom(a).code = 200 /\ fetchURL(url, a) = ingestFrom(a).body
  BY <1>1 DEF fetchURL
<1>3. u \in DOMAIN Site
  <2>1. ASSUME a = [first |-> 404, lines |-> <<>>, body |-> 0] PROVE FALSE
    BY <1>2, <2>1 DEF ingestFrom
  <2> QED BY <1>1, <2>1 DEF Answers
<1>4. a.first # NoLine
  BY <1>2 DEF ingestFrom
<1>5. PICK n \in 0 .. Whole(u) : a = Sending(u, n) /\ (Steady(u) => n = Whole(u))
  <2>1. Len(Site[u].doc) \in Nat
    BY <1>3, SiteAssumption
  <2>2. a # [first |-> NoLine, lines |-> <<>>, body |-> 0]
    BY <1>4
  <2> QED BY <1>1, <1>2, <1>3, <2>1, <2>2 DEF Answers, Whole, Steady
<1>6. Document(url) = Site[u].doc
  BY DEF Document
<1>7. ingestFrom(a).body \in 0 .. n /\ (n = Whole(u) => ingestFrom(a).body = n)
  BY <1>3, <1>5, SiteAssumption DEF Whole
<1>8. PICK m : m = ingestFrom(a).body
  OBVIOUS
<1>9. x = Cut(u, m) /\ m \in 0 .. Whole(u) /\ (Steady(u) => m = Whole(u))
  <2>1. Whole(u) \in Nat
    BY <1>3, SiteAssumption DEF Whole
  <2> QED BY <1>1, <1>2, <1>5, <1>6, <1>7, <1>8, <2>1 DEF Cut
<1>10. Cut(u, Whole(u)) = Site[u].doc
  BY <1>3, SiteAssumption DEF Whole
<1> QED BY <1>3, <1>9, <1>10

\* A download from a steady server succeeds.
LEMMA DownloadWorks ==
  ASSUME NEW url, Reachable(url), Steady(parseHttpURL(url))
  PROVE  None \notin Downloads(url)
<1>0. PICK u \in DOMAIN Site : u = parseHttpURL(url) /\ u \notin Unsteady
  BY DEF Steady
<1>1. Answers(url) = {Sending(u, Whole(u))}
  BY <1>0 DEF Answers, Whole
<1>2. /\ Sending(u, Whole(u)) # NoConnection /\ Cut(u, Whole(u)) # None
      /\ ingestFrom(Sending(u, Whole(u))).body = Whole(u) /\ Whole(u) \in Nat
  <2>1. Whole(u) \in Nat /\ Whole(u) \in 0 .. Whole(u)
    BY SiteAssumption DEF Whole
  <2> QED BY <2>1, SiteAssumption DEF Whole
<1>3. ingestFrom(Sending(u, Whole(u))).code = 200
  <2>1. Sending(u, Whole(u)).first = 200
    BY DEF Sending
  <2> QED BY <2>1, SiteAssumption DEF ingestFrom
<1>4. fetchURL(url, Sending(u, Whole(u))) = Whole(u)
  BY <1>2, <1>3 DEF fetchURL, Reachable
<1>5. Whole(u) # None
  BY <1>2, SiteAssumption
<1>6. ASSUME None \in Downloads(url) PROVE FALSE
  <2>1. PICK a \in Answers(url) :
          None = IF fetchURL(url, a) = None THEN None ELSE SubSeq(Document(url), 1, fetchURL(url, a))
    BY <1>6 DEF Downloads
  <2>2. fetchURL(url, a) = Whole(u)
    BY <1>1, <1>4
  <2>3. None = SubSeq(Document(url), 1, Whole(u))
    BY <1>5, <2>1, <2>2
  <2> QED BY <1>0, <1>2, <2>3 DEF Cut, Document
<1> QED BY <1>6

\* What a list of items from the site is like.
LEMMA ListIs ==
  ASSUME NEW list, FromSite(list)
  PROVE  /\ \E k \in Nat : DOMAIN list = 1 .. k
         /\ DOMAIN list \subseteq ItemNumbers
         /\ \A i \in DOMAIN list :
              /\ Reachable(list[i].link)
              /\ \E u \in DOMAIN Site : parseHttpURL(list[i].link) \in Site[u].meant
<1>1. CASE list = <<>>
  <2>1. DOMAIN list = 1 .. 0
    BY <1>1
  <2> QED BY <2>1
<1>2. CASE list # <<>>
  <2>1. PICK u \in DOMAIN Site : \E n \in 0 .. Whole(u) : list = parseRSSItems(Cut(u, n), u)
    BY <1>2 DEF FromSite
  <2>2. PICK n \in 0 .. Whole(u) : list = parseRSSItems(Cut(u, n), u)
    BY <2>1
  <2>3. Whole(u) \in Nat
    BY SiteAssumption DEF Whole
  <2>4. PICK k \in 0 .. n :
          /\ DOMAIN list = 1 .. k
          /\ 1 .. k \subseteq DOMAIN parseRSSItems(Site[u].doc, ListURL)
    BY <2>2, SiteAssumption DEF Whole
  <2>5. DOMAIN list \subseteq ItemNumbers
    BY <2>4 DEF ItemNumbers
  <2>6. \A link \in LinksIn(u, n) : Reachable(link) /\ parseHttpURL(link) \in Site[u].meant
    BY SiteAssumption DEF Whole
  <2>7. \A i \in DOMAIN list : list[i].link \in LinksIn(u, n)
    BY <2>2 DEF LinksIn, Range
  <2> QED BY <2>3, <2>4, <2>5, <2>6, <2>7
<1> QED BY <1>1, <1>2

LEMMA WholeList ==
  ASSUME NEW u \in DOMAIN Site
  PROVE  Meant(parseRSSItems(Site[u].doc, u)) = Site[u].meant
<1> DEFINE list == parseRSSItems(Site[u].doc, u)
<1>1. Cut(u, Len(Site[u].doc)) = Site[u].doc
  BY SiteAssumption
<1>2. LinksIn(u, Len(Site[u].doc)) = {list[i].link : i \in DOMAIN list}
  BY <1>1 DEF LinksIn, Range
<1>3. Site[u].meant = {parseHttpURL(link) : link \in LinksIn(u, Len(Site[u].doc))}
  BY SiteAssumption
<1> HIDE DEF list
<1>4. Meant(list) = {parseHttpURL(link) : link \in {list[i].link : i \in DOMAIN list}}
  BY DEF Meant
<1> QED BY <1>2, <1>3, <1>4 DEF list

\* What a feed that was downloaded lists.
LEMMA FeedIs ==
  ASSUME NEW url, NEW x \in Downloads(url), x # None, NEW u, u = parseHttpURL(url)
  PROVE  /\ FromSite(parseRSSItems(x, url))
         /\ DOMAIN parseRSSItems(x, url) \subseteq DOMAIN parseRSSItems(Site[u].doc, ListURL)
         /\ Steady(u) => Meant(parseRSSItems(x, url)) = Site[u].meant
<1>1. /\ u \in DOMAIN Site
      /\ \E n \in 0 .. Whole(u) : x = Cut(u, n)
      /\ Steady(u) => x = Site[u].doc
  BY DownloadIs
<1>2. parseHttpURL(u) = parseHttpURL(url)
  BY <1>1, SiteAssumption
<1>3. parseRSSItems(x, url) = parseRSSItems(x, u)
  BY <1>2, BaseMatters
<1>4. FromSite(parseRSSItems(x, u))
  BY <1>1 DEF FromSite
<1>5. Steady(u) => Meant(parseRSSItems(x, u)) = Site[u].meant
  BY <1>1, WholeList
<1>6. DOMAIN parseRSSItems(x, u) \subseteq DOMAIN parseRSSItems(Site[u].doc, ListURL)
  <2>1. PICK n \in 0 .. Whole(u) : x = Cut(u, n)
    BY <1>1
  <2>2. \E k \in 0 .. n :
          /\ DOMAIN parseRSSItems(Cut(u, n), u) = 1 .. k
          /\ 1 .. k \subseteq DOMAIN parseRSSItems(Site[u].doc, ListURL)
    BY <1>1, <2>1, SiteAssumption DEF Whole
  <2> QED BY <2>1, <2>2
<1> QED BY <1>3, <1>4, <1>5, <1>6

\* The words of a page that was downloaded.
LEMMA WordsAreGood ==
  ASSUME NEW url, NEW x \in Downloads(url), x # None, NEW u, u = parseHttpURL(url)
  PROVE  /\ GoodWords(tokenizeHTML(x), u)
         /\ Steady(u) /\ Site[u].shows # <<>> => tokenizeHTML(x) # <<>>
<1>1. /\ u \in DOMAIN Site
      /\ \E n \in 0 .. Whole(u) : x = Cut(u, n)
      /\ Steady(u) => x = Site[u].doc
  BY DownloadIs
<1>2. PICK n \in 0 .. Whole(u) : x = Cut(u, n)
  BY <1>1
<1>3. \A w \in Tokens : Count(tokenizeHTML(x), w) \in 0 .. Shows(u, w)
  BY <1>1, <1>2, SiteAssumption DEF Whole
<1>4. Steady(u) => \A w \in Tokens : Count(tokenizeHTML(x), w) = Shows(u, w)
  BY <1>1, SiteAssumption
<1>5. Steady(u) /\ Site[u].shows # <<>> => tokenizeHTML(x) # <<>>
  BY <1>1, SiteAssumption
<1> QED BY <1>1, <1>3, <1>4, <1>5 DEF GoodWords

LEMMA Appending ==
  ASSUME NEW S, NEW s \in Seq(S), NEW e \in S
  PROVE  /\ Append(s, e) \in Seq(S) /\ Len(s) \in Nat /\ DOMAIN s = 1 .. Len(s)
         /\ DOMAIN Append(s, e) = 1 .. Len(s) + 1
         /\ \A i \in DOMAIN s : Append(s, e)[i] = s[i]
         /\ Append(s, e)[Len(s) + 1] = e
OBVIOUS

-------------------------------------------------------------------------------
(* Feeds and their items                                                   *)

\* The threads leave main's list alone, and no feed becomes new or is new no longer.
LEMMA ThreadsAndFeeds ==
  ASSUME CallInv, PoolInv,
         (\E w \in FeedThreads : FeedStep(w)) \/ \E w \in ArticleThreads : ArticleStep(w)
  PROVE  /\ feeds' = feeds /\ mpc' = mpc
         /\ \A f \in FeedTasks : fstatus'[f] = "new" <=> fstatus[f] = "new"
<1>1. ASSUME NEW w \in FeedThreads, FeedStep(w)
      PROVE  \A f \in FeedTasks : fstatus'[f] = "new" <=> fstatus[f] = "new"
  <2>1. ASSUME NEW g \in FeedTasks, FeedStart(w, g)
        PROVE  \A f \in FeedTasks : fstatus'[f] = "new" <=> fstatus[f] = "new"
    BY <2>1 DEF FeedStart, FP!Start, PoolInv
  <2>2. CASE FeedReturn(w)
    <3>1. fslot[w] # None /\ fstatus' = [fstatus EXCEPT ![fslot[w]] = "finished"]
      BY <2>2 DEF FeedReturn, FP!Finish
    <3> QED BY <3>1 DEF PoolInv
  <2>3. CASE FeedLimit(w) \/ FeedFetch(w) \/ FeedSchedule(w)
    BY <2>3 DEF FeedLimit, FeedFetch, FeedSchedule
  <2> QED BY <1>1, <2>1, <2>2, <2>3 DEF FeedStep
<1>2. ASSUME NEW w \in FeedThreads, FeedStep(w)
      PROVE  feeds' = feeds /\ mpc' = mpc
  BY <1>2 DEF FeedStep, FeedStart, FeedLimit, FeedFetch, FeedSchedule, FeedReturn
<1>3. ASSUME NEW w \in ArticleThreads, ArticleStep(w)
      PROVE  feeds' = feeds /\ mpc' = mpc /\ fstatus' = fstatus
  BY <1>3 DEF ArticleStep, TaskStart, TaskSeen, TaskLimit, TaskFetch, TaskAppend, TaskIndex,
              TaskReturn
<1> QED BY <1>1, <1>2, <1>3

LEMMA FeedsStep ==
  ASSUME TasksInv, FeedsInv, [Next]_vars
  PROVE  FeedsInv'
<1> USE DEF TasksInv
<1>1. CASE MainList
  <2>1. PICK x \in Downloads(ListURL) :
          IF x = None THEN mpc' = "failed" /\ UNCHANGED feeds
          ELSE mpc' = "schedule" /\ feeds' = parseRSSItems(x, ListURL)
    BY <1>1 DEF MainList
  <2>2. mpc = "list" /\ fstatus' = fstatus /\ mpc' \in {"failed", "schedule"}
    BY <1>1, <2>1 DEF MainList
  <2>3. CASE x = None
    BY <2>1, <2>2, <2>3 DEF FeedsInv
  <2>4. CASE x # None
    <3>1. feeds' = parseRSSItems(x, ListURL)
      BY <2>1, <2>4
    <3>2. /\ FromSite(feeds')
          /\ DOMAIN feeds' \subseteq DOMAIN parseRSSItems(Site[parseHttpURL(ListURL)].doc, ListURL)
      BY <2>4, <3>1, FeedIs
    <3>3. DOMAIN feeds' \subseteq FeedTasks
      BY <3>2 DEF FeedTasks, Document
    <3>4. \A f \in DOMAIN feeds' : Reachable(feeds'[f].link)
      BY <3>2, ListIs
    <3>5. \A f \in FeedTasks : fstatus'[f] = "new"
      BY <2>2 DEF MainInv
    <3> QED BY <2>2, <3>3, <3>4, <3>5 DEF FeedsInv
  <2> QED BY <2>3, <2>4
<1>2. CASE MainSchedule
  <2>1. PICK f \in DOMAIN feeds : fstatus' = [fstatus EXCEPT ![f] = "pending"]
    BY <1>2 DEF MainSchedule, FP!Schedule
  <2>2. mpc = "schedule" /\ mpc' = mpc /\ feeds' = feeds
    BY <1>2 DEF MainSchedule
  <2> QED BY <2>1, <2>2 DEF FeedsInv, PoolInv
<1>3. CASE MainFeedWait
  <2>1. feeds' = feeds /\ fstatus' = fstatus /\ \A f \in DOMAIN feeds : fstatus[f] # "new"
    BY <1>3 DEF MainFeedWait, FP!CallWait
  <2> QED BY <2>1 DEF FeedsInv
<1>4. ASSUME feeds' = feeds, fstatus' = fstatus,
             mpc' = mpc \/ mpc \in {"feedWait", "articleWait", "close", "queries"}
      PROVE  FeedsInv'
  BY <1>4 DEF FeedsInv
<1>5. CASE MainArticleWait
  BY <1>4, <1>5 DEF MainArticleWait, FP!ReturnFromWait
<1>6. CASE MainWaited
  BY <1>4, <1>6 DEF MainWaited
<1>7. CASE MainClose
  BY <1>4, <1>7 DEF MainClose, FP!Close
<1>8. CASE Failed \/ UNCHANGED vars \/ \E word \in Typed : Query(word)
  BY <1>4, <1>8 DEF Failed, Query
<1>9. CASE (\E w \in FeedThreads : FeedStep(w)) \/ \E w \in ArticleThreads : ArticleStep(w)
  BY <1>9, ThreadsAndFeeds DEF FeedsInv
<1> QED BY <1>1, <1>2, <1>3, <1>5, <1>6, <1>7, <1>8, <1>9, Cases
        DEF MainMoves, MainStep, FeedStep, ArticleStep

\* A step of an article's thread schedules nothing.
LEMMA ArticlesAndStatuses ==
  ASSUME CallInv, PoolInv, NEW w \in ArticleThreads, ArticleStep(w)
  PROVE  /\ UNCHANGED <<feeds, items, fstatus, fslot>>
         /\ \A v \in FeedThreads : call'[v] = call[v]
         /\ \A t \in ArticleTasks : astatus'[t] = "new" <=> astatus[t] = "new"
<1>1. UNCHANGED <<feeds, items, fstatus, fslot>>
  BY DEF ArticleStep, TaskStart, TaskSeen, TaskLimit, TaskFetch, TaskAppend, TaskIndex, TaskReturn
<1>2. \E a : Moved(w, a)
  BY TaskMoves DEF ArticleStep
<1>3. \A v \in FeedThreads : call'[v] = call[v]
  <2>1. \A v \in FeedThreads : v \in Threads /\ v # w
    BY DEF Threads
  <2> QED BY <1>2, <2>1 DEF Moved
<1>4. \A t \in ArticleTasks : astatus'[t] = "new" <=> astatus[t] = "new"
  <2>1. ASSUME NEW u \in ArticleTasks, TaskStart(w, u)
        PROVE  \A t \in ArticleTasks : astatus'[t] = "new" <=> astatus[t] = "new"
    BY <2>1 DEF TaskStart, AP!Start, PoolInv
  <2>2. CASE TaskReturn(w)
    <3>1. aslot[w] # None /\ astatus' = [astatus EXCEPT ![aslot[w]] = "finished"]
      BY <2>2 DEF TaskReturn, AP!Finish
    <3> QED BY <3>1 DEF PoolInv
  <2>3. CASE TaskSeen(w) \/ TaskLimit(w) \/ TaskFetch(w) \/ TaskAppend(w) \/ TaskIndex(w)
    BY <2>3 DEF TaskSeen, TaskLimit, TaskFetch, TaskAppend, TaskIndex
  <2> QED BY <2>1, <2>2, <2>3 DEF ArticleStep
<1> QED BY <1>1, <1>3, <1>4

\* Nothing changes that the items depend on, or feeds do before anything has begun.
LEMMA ItemsFrame ==
  ASSUME TasksInv, ItemsInv, UNCHANGED <<items, fslot>>,
         \A f \in FeedTasks : \/ fstatus'[f] = fstatus[f]
                              \/ fstatus[f] = "new" /\ fstatus'[f] = "pending",
         \A v \in FeedThreads : call'[v] = call[v],
         \A t \in ArticleTasks : astatus'[t] = "new" <=> astatus[t] = "new",
         feeds' = feeds \/ mpc = "list"
  PROVE  ItemsInv'
<1> USE DEF TasksInv
<1>1. ASSUME NEW f \in FeedTasks
      PROVE  /\ Blank(f)' => Blank(f)
             /\ Read(f)' => Read(f) /\ feeds' = feeds
             /\ fstatus'[f] = "finished" => fstatus[f] = "finished"
  <2>1. Blank(f)' => Blank(f)
    BY DEF Blank
  <2>2. Read(f)' => Read(f)
    BY DEF Read
  <2>3. mpc = "list" => ~Read(f)
    BY DEF MainInv, Read, Threads
  <2> QED BY <2>1, <2>2, <2>3
<1>2. ASSUME NEW f \in FeedTasks, NEW i \in DOMAIN items[f]
      PROVE  <<f, i>> \in ArticleTasks
  BY <1>2, ListIs DEF ItemsInv, ArticleTasks
<1>3. \A f \in FeedTasks :
        /\ FromSite(items[f])
        /\ Blank(f)' => items[f] = <<>>
        /\ Read(f)' /\ Steady(parseHttpURL(feeds'[f].link)) =>
             Meant(items[f]) = Site[parseHttpURL(feeds'[f].link)].meant
        /\ fstatus'[f] = "finished" => \A i \in DOMAIN items[f] : astatus'[<<f, i>>] # "new"
  BY <1>1, <1>2 DEF ItemsInv
<1>4. \A t \in ArticleTasks : astatus'[t] # "new" => t[2] \in DOMAIN items[t[1]]
  BY DEF ItemsInv
<1>5. ASSUME NEW w \in FeedThreads, call'[w].at = "items"
      PROVE  /\ call'[w].next \in Nat \ {0}
             /\ \A i \in DOMAIN items[fslot[w]] :
                  i < call'[w].next => astatus'[<<fslot[w], i>>] # "new"
  <2>1. call'[w] = call[w] /\ call[w].at = "items"
    BY <1>5
  <2>2. fslot[w] \in FeedTasks
    BY <2>1 DEF PoolInv
  <2>3. /\ call[w].next \in Nat \ {0}
        /\ \A i \in DOMAIN items[fslot[w]] : i < call[w].next => astatus[<<fslot[w], i>>] # "new"
    BY <2>1 DEF ItemsInv
  <2> QED BY <1>2, <2>1, <2>2, <2>3
<1>6. \A f \in FeedTasks : FromSite(items[f])' <=> FromSite(items[f])
  BY DEF FromSite, Whole
<1> QED BY <1>3, <1>4, <1>5, SMTT(30) DEF ItemsInv, Meant, Steady

\* What a thread of a feed may do to a list of items that is there.
LEMMA ItemsKept ==
  ASSUME TasksInv, ItemsInv, UNCHANGED <<items, feeds>>,
         \A f \in FeedTasks :
           /\ Blank(f)' => items[f] = <<>>
           /\ Read(f)' => Read(f) \/ ~Steady(parseHttpURL(feeds[f].link))
           /\ fstatus'[f] = "finished" =>
                fstatus[f] = "finished" \/ \A i \in DOMAIN items[f] : astatus[<<f, i>>] # "new",
         \A t \in ArticleTasks :
           /\ astatus[t] # "new" => astatus'[t] # "new"
           /\ astatus'[t] # "new" => astatus[t] # "new" \/ t[2] \in DOMAIN items[t[1]],
         \A v \in FeedThreads : call'[v].at = "items" =>
           /\ call[v].at = "items" /\ fslot'[v] = fslot[v] /\ fslot[v] \in FeedTasks
           /\ \/ call'[v].next = call[v].next
              \/ /\ call'[v].next = call[v].next + 1
                 /\ astatus'[<<fslot[v], call[v].next>>] # "new"
  PROVE  ItemsInv'
<1>1. ASSUME NEW f \in FeedTasks, NEW i \in DOMAIN items[f]
      PROVE  <<f, i>> \in ArticleTasks /\ i \in Nat
  BY <1>1, ListIs DEF ItemsInv, ArticleTasks
<1>2. ASSUME NEW f \in FeedTasks
      PROVE  /\ FromSite(items[f])
             /\ Blank(f)' => items[f] = <<>>
             /\ Read(f)' /\ Steady(parseHttpURL(feeds[f].link)) =>
                  Meant(items[f]) = Site[parseHttpURL(feeds[f].link)].meant
  BY <1>2 DEF ItemsInv
<1>3. ASSUME NEW f \in FeedTasks, fstatus'[f] = "finished", NEW i \in DOMAIN items[f]
      PROVE  astatus'[<<f, i>>] # "new"
  <2>1. astatus[<<f, i>>] # "new"
    BY <1>3 DEF ItemsInv
  <2> QED BY <1>1, <2>1
<1>4. ASSUME NEW t \in ArticleTasks, astatus'[t] # "new"
      PROVE  t[2] \in DOMAIN items[t[1]]
  BY <1>4 DEF ItemsInv
<1>5. ASSUME NEW v \in FeedThreads, call'[v].at = "items"
      PROVE  /\ call'[v].next \in Nat \ {0}
             /\ \A i \in DOMAIN items[fslot'[v]] :
                  i < call'[v].next => astatus'[<<fslot'[v], i>>] # "new"
  <2>1. call[v].at = "items" /\ fslot'[v] = fslot[v] /\ fslot[v] \in FeedTasks
    BY <1>5
  <2>2. /\ call[v].next \in Nat \ {0}
        /\ \A i \in DOMAIN items[fslot[v]] : i < call[v].next => astatus[<<fslot[v], i>>] # "new"
    BY <2>1 DEF ItemsInv
  <2>3. \A i \in DOMAIN items[fslot[v]] : i < call[v].next => astatus'[<<fslot[v], i>>] # "new"
    BY <1>1, <2>1, <2>2
  <2>4. PICK n : n = call[v].next
    OBVIOUS
  <2>5. PICK m : m = call'[v].next
    OBVIOUS
  <2>6. m = n \/ (m = n + 1 /\ astatus'[<<fslot[v], n>>] # "new")
    BY <1>5, <2>4, <2>5
  <2>7. \A i \in DOMAIN items[fslot[v]] : i \in Nat
    BY <1>1, <2>1
  <2>8. m \in Nat \ {0} /\ \A i \in DOMAIN items[fslot[v]] : i < m => i < n \/ i = n
    BY <2>2, <2>4, <2>6, <2>7
  <2>9. \A i \in DOMAIN items[fslot[v]] : i < m => astatus'[<<fslot[v], i>>] # "new"
    BY <2>3, <2>4, <2>6, <2>8
  <2> QED BY <2>1, <2>5, <2>8, <2>9
<1>6. items' = items /\ feeds' = feeds
  OBVIOUS
<1>7. \A f \in FeedTasks :
        /\ FromSite(items'[f])
        /\ Blank(f)' => items'[f] = <<>>
        /\ Read(f)' /\ Steady(parseHttpURL(feeds'[f].link)) =>
             Meant(items'[f]) = Site[parseHttpURL(feeds'[f].link)].meant
        /\ fstatus'[f] = "finished" => \A i \in DOMAIN items'[f] : astatus'[<<f, i>>] # "new"
  BY <1>2, <1>3, <1>6
<1>8. \A t \in ArticleTasks : astatus'[t] # "new" => t[2] \in DOMAIN items'[t[1]]
  BY <1>4, <1>6
<1>9. \A v \in FeedThreads : call'[v].at = "items" =>
        /\ call'[v].next \in Nat \ {0}
        /\ \A i \in DOMAIN items'[fslot'[v]] :
             i < call'[v].next => astatus'[<<fslot'[v], i>>] # "new"
  BY <1>5, <1>6
<1> QED BY <1>7, <1>8, <1>9 DEF ItemsInv

\* A feed that is downloaded gets its items; none of them has been scheduled.
LEMMA ItemsRead ==
  ASSUME TasksInv, FeedsInv, ItemsInv, NEW w \in FeedThreads, FeedFetch(w)
  PROVE  ItemsInv'
<1> USE DEF TasksInv
<1>0. PICK f : f = fslot[w]
  OBVIOUS
<1>1. call[w].at = "fetch" /\ f \in FeedTasks /\ fstatus[f] = "running" /\ f # None
  BY <1>0 DEF FeedFetch, PoolInv
<1>2. f \in DOMAIN feeds /\ Reachable(feeds[f].link)
  BY <1>1 DEF FeedsInv
<1>3. \A i \in ItemNumbers : astatus[<<f, i>>] = "new"
  BY <1>0, <1>1 DEF UnreadInv
<1>4. UNCHANGED <<feeds, fstatus, fslot, astatus>>
  BY DEF FeedFetch
<1>5. PICK x \in Downloads(feeds[f].link) :
        IF x = None
        THEN Goes(w, "fetch", "return") /\ UNCHANGED items
        ELSE /\ call' = [call EXCEPT ![w] = At("items", 1, <<>>)]
             /\ items' = [items EXCEPT ![f] = parseRSSItems(x, feeds[f].link)]
  BY <1>0 DEF FeedFetch, FeedOf
<1>6. w \in Threads /\ \A v \in FeedThreads : v \in Threads
  BY DEF Threads
<1>7. PICK a : Moved(w, a) /\ a \in {"return", "items"} /\ a = call'[w].at
  BY <1>1, FeedMoves DEF Moved
<1>8. \A v \in FeedThreads : v # w => call'[v] = call[v] /\ (fslot[v] = f => FALSE)
  BY <1>0, <1>1, <1>6, <1>7 DEF Moved, PoolInv
<1>9. \A g \in FeedTasks : g # f => (Blank(g)' => Blank(g)) /\ (Read(g)' => Read(g))
  BY <1>0, <1>4, <1>8 DEF Blank, Read
<1>10. CASE x = None
  <2>1. UNCHANGED items /\ a = "return"
    BY <1>5, <1>6, <1>7, <1>10 DEF Goes, CallInv
  <2>2. ~Steady(parseHttpURL(feeds[f].link))
    BY <1>2, <1>5, <1>10, DownloadWorks
  <2>3. items[f] = <<>>
    BY <1>0, <1>1 DEF ItemsInv, Blank
  <2>4. ASSUME NEW g \in FeedTasks
        PROVE  /\ Blank(g)' => items[g] = <<>>
               /\ Read(g)' => Read(g) \/ ~Steady(parseHttpURL(feeds[g].link))
               /\ fstatus'[g] = "finished" => fstatus[g] = "finished"
    BY <1>4, <1>9, <2>2, <2>3 DEF ItemsInv
  <2>5. ASSUME NEW v \in FeedThreads, call'[v].at = "items"
        PROVE  /\ call[v].at = "items" /\ fslot'[v] = fslot[v] /\ fslot[v] \in FeedTasks
               /\ call'[v].next = call[v].next
    BY <1>4, <1>7, <1>8, <2>1, <2>5 DEF PoolInv
  <2> QED BY <1>4, <2>1, <2>4, <2>5, ItemsKept
<1>11. CASE x # None
  <2>0. PICK list : list = parseRSSItems(x, feeds[f].link)
    OBVIOUS
  <2>1. call' = [call EXCEPT ![w] = At("items", 1, <<>>)] /\ items' = [items EXCEPT ![f] = list]
    BY <1>5, <1>11, <2>0
  <2>2. call'[w].at = "items" /\ call'[w].next = 1
    BY <1>6, <2>1 DEF At, CallInv
  <2>3. items'[f] = list /\ \A g \in FeedTasks : g # f => items'[g] = items[g]
    BY <1>1, <2>1 DEF CallInv
  <2>4. /\ FromSite(list)
        /\ Steady(parseHttpURL(feeds[f].link)) =>
             Meant(list) = Site[parseHttpURL(feeds[f].link)].meant
    BY <1>11, <2>0, FeedIs
  <2>5. DOMAIN list \subseteq Nat /\ \A i \in DOMAIN list : ~(i < 1)
    BY <2>4, ListIs
  <2>6. ~Blank(f)'
    <3>1. \A v \in FeedThreads : fslot'[v] = f => call'[v].at = "items"
      BY <1>4, <1>8, <2>2
    <3> QED BY <1>1, <1>4, <3>1 DEF Blank
  <2>7. ASSUME NEW g \in FeedTasks
        PROVE  /\ FromSite(items'[g])
               /\ Blank(g)' => items'[g] = <<>>
               /\ Read(g)' /\ Steady(parseHttpURL(feeds'[g].link)) =>
                    Meant(items'[g]) = Site[parseHttpURL(feeds'[g].link)].meant
               /\ fstatus'[g] = "finished" => \A i \in DOMAIN items'[g] : astatus'[<<g, i>>] # "new"
    <3>1. CASE g = f
      BY <1>1, <1>4, <2>3, <2>4, <2>6, <3>1
    <3>2. CASE g # f
      BY <1>4, <1>9, <2>3, <3>2 DEF ItemsInv
    <3> QED BY <3>1, <3>2
  <2>8. ASSUME NEW t \in ArticleTasks, astatus'[t] # "new"
        PROVE  t[2] \in DOMAIN items'[t[1]]
    <3>1. t = <<t[1], t[2]>> /\ t[1] \in FeedTasks /\ t[2] \in ItemNumbers
      BY DEF ArticleTasks
    <3>2. t[1] # f
      BY <1>3, <1>4, <2>8, <3>1
    <3> QED BY <1>4, <2>3, <2>8, <3>1, <3>2 DEF ItemsInv
  <2>9. ASSUME NEW v \in FeedThreads, call'[v].at = "items"
        PROVE  /\ call'[v].next \in Nat \ {0}
               /\ \A i \in DOMAIN items'[fslot'[v]] :
                    i < call'[v].next => astatus'[<<fslot'[v], i>>] # "new"
    <3>1. CASE v = w
      BY <1>0, <1>4, <2>2, <2>3, <2>5, <3>1
    <3>2. CASE v # w
      <4>1. call'[v] = call[v] /\ call[v].at = "items" /\ fslot[v] # f
        BY <1>8, <2>9, <3>2
      <4>2. fslot[v] \in FeedTasks
        BY <4>1 DEF PoolInv
      <4>3. items'[fslot'[v]] = items[fslot[v]]
        BY <1>4, <2>3, <4>1, <4>2
      <4> QED BY <1>4, <4>1, <4>3 DEF ItemsInv
    <3> QED BY <3>1, <3>2
  <2> QED BY <2>7, <2>8, <2>9 DEF ItemsInv
<1> QED BY <1>10, <1>11

LEMMA ItemsStep ==
  ASSUME TasksInv, FeedsInv, ItemsInv, [Next]_vars
  PROVE  ItemsInv'
<1> USE DEF TasksInv
<1>1. CASE MainMoves
  <2>1. UNCHANGED <<items, fslot, call>>
    BY <1>1, MainMovesNobody
  <2>2. /\ astatus' = astatus
        /\ \A f \in FeedTasks :
             fstatus'[f] = fstatus[f] \/ (fstatus[f] = "new" /\ fstatus'[f] = "pending")
        /\ feeds' = feeds \/ mpc = "list"
    BY <1>1, MainPools DEF PoolInv
  <2> QED BY <2>1, <2>2, ItemsFrame
<1>2. ASSUME NEW w \in ArticleThreads, ArticleStep(w)
      PROVE  ItemsInv'
  <2>1. /\ UNCHANGED <<feeds, items, fstatus, fslot>>
        /\ \A v \in FeedThreads : call'[v] = call[v]
        /\ \A t \in ArticleTasks : astatus'[t] = "new" <=> astatus[t] = "new"
    BY <1>2, ArticlesAndStatuses
  <2> QED BY <2>1, ItemsFrame
<1>3. ASSUME NEW w \in FeedThreads, FeedStep(w)
      PROVE  ItemsInv'
  <2>0. w \in Threads /\ \A v \in FeedThreads : v \in Threads
    BY DEF Threads
  <2>1. ASSUME NEW g \in FeedTasks, FeedStart(w, g)
        PROVE  ItemsInv'
    <3>1. Moved(w, "limit")
      BY <2>1, FeedMoves
    <3>2. /\ fslot[w] = None /\ fstatus[g] = "pending"
          /\ fstatus' = [fstatus EXCEPT ![g] = "running"] /\ fslot' = [fslot EXCEPT ![w] = g]
          /\ UNCHANGED <<items, feeds, astatus>>
      BY <2>1 DEF FeedStart, FP!Start
    <3>3. \A v \in FeedThreads : v # w => call'[v] = call[v] /\ fslot'[v] = fslot[v] /\ fslot[v] # g
      BY <2>0, <3>1, <3>2 DEF Moved, PoolInv
    <3>4. call'[w].at = "limit" /\ fslot'[w] = g
      BY <3>1, <3>2 DEF Moved, PoolInv
    <3>5. ASSUME NEW f \in FeedTasks
          PROVE  /\ Blank(f)' => items[f] = <<>>
                 /\ Read(f)' => Read(f)
                 /\ fstatus'[f] = "finished" => fstatus[f] = "finished"
      <4>1. fstatus'[f] = IF f = g THEN "running" ELSE fstatus[f]
        BY <3>2 DEF PoolInv
      <4>2. Blank(f)' => Blank(f)
        BY <3>2, <3>3, <3>4, <4>1 DEF Blank
      <4>3. Read(f)' => Read(f)
        BY <3>2, <3>3, <3>4, <4>1 DEF Read
      <4> QED BY <4>1, <4>2, <4>3 DEF ItemsInv
    <3>6. ASSUME NEW v \in FeedThreads, call'[v].at = "items"
          PROVE  /\ call[v].at = "items" /\ fslot'[v] = fslot[v] /\ fslot[v] \in FeedTasks
                 /\ call'[v].next = call[v].next
      BY <3>3, <3>4, <3>6 DEF PoolInv
    <3> QED BY <3>2, <3>5, <3>6, ItemsKept
  <2>2. CASE FeedLimit(w)
    <3>1. Moved(w, "fetch") /\ call[w].at = "limit"
      BY <2>2, FeedMoves
    <3>2. UNCHANGED <<items, feeds, astatus, fstatus, fslot>>
      BY <2>2 DEF FeedLimit
    <3>3. call'[w].at = "fetch" /\ \A v \in FeedThreads : v # w => call'[v] = call[v]
      BY <2>0, <3>1 DEF Moved
    <3>5. ASSUME NEW f \in FeedTasks
          PROVE  /\ Blank(f)' => items[f] = <<>>
                 /\ Read(f)' => Read(f)
                 /\ fstatus'[f] = "finished" => fstatus[f] = "finished"
      <4>2. Blank(f)' => Blank(f)
        BY <3>1, <3>2, <3>3 DEF Blank
      <4>3. Read(f)' => Read(f)
        BY <3>2, <3>3 DEF Read
      <4> QED BY <3>2, <4>2, <4>3 DEF ItemsInv
    <3>6. ASSUME NEW v \in FeedThreads, call'[v].at = "items"
          PROVE  /\ call[v].at = "items" /\ fslot'[v] = fslot[v] /\ fslot[v] \in FeedTasks
                 /\ call'[v].next = call[v].next
      BY <3>2, <3>3, <3>6 DEF PoolInv
    <3> QED BY <3>2, <3>5, <3>6, ItemsKept
  <2>3. CASE FeedFetch(w)
    BY <2>3, ItemsRead
  <2>4. CASE FeedSchedule(w)
    <3>0. PICK n : n = call[w].next
      OBVIOUS
    <3>1. call[w].at = "items" /\ call' = [call EXCEPT ![w].next = n + 1]
          /\ n \in DOMAIN items[fslot[w]] /\ astatus' = [astatus EXCEPT ![<<fslot[w], n>>] = "pending"]
          /\ UNCHANGED <<items, feeds, fstatus, fslot>>
      BY <2>4, <3>0 DEF FeedSchedule, FeedOf, AP!Schedule
    <3>2. call'[w].at = "items" /\ call'[w].next = n + 1
          /\ \A v \in FeedThreads : v # w => call'[v] = call[v]
      BY <2>0, <3>1 DEF CallInv
    <3>3. fslot[w] \in FeedTasks
      BY <3>1 DEF PoolInv
    <3>4. PICK t : t = <<fslot[w], n>>
      OBVIOUS
    <3>5. t \in ArticleTasks /\ t[1] = fslot[w] /\ t[2] = n
      BY <3>1, <3>3, <3>4, ListIs DEF ItemsInv, ArticleTasks
    <3>6. /\ astatus'[t] = "pending"
          /\ \A u \in ArticleTasks : u # t => astatus'[u] = astatus[u]
      BY <3>1, <3>4, <3>5 DEF PoolInv
    <3>7. ASSUME NEW f \in FeedTasks
          PROVE  /\ Blank(f)' => items[f] = <<>>
                 /\ Read(f)' => Read(f)
                 /\ fstatus'[f] = "finished" => fstatus[f] = "finished"
      <4>2. Blank(f)' => Blank(f)
        BY <3>1, <3>2 DEF Blank
      <4>3. Read(f)' => Read(f)
        BY <3>1, <3>2 DEF Read
      <4> QED BY <3>1, <4>2, <4>3 DEF ItemsInv
    <3>8. ASSUME NEW u \in ArticleTasks
          PROVE  /\ astatus[u] # "new" => astatus'[u] # "new"
                 /\ astatus'[u] # "new" => astatus[u] # "new" \/ u[2] \in DOMAIN items[u[1]]
      BY <3>1, <3>5, <3>6
    <3>9. ASSUME NEW v \in FeedThreads, call'[v].at = "items"
          PROVE  /\ call[v].at = "items" /\ fslot'[v] = fslot[v] /\ fslot[v] \in FeedTasks
                 /\ \/ call'[v].next = call[v].next
                    \/ /\ call'[v].next = call[v].next + 1
                       /\ astatus'[<<fslot[v], call[v].next>>] # "new"
      <4>1. CASE v = w
        BY <3>0, <3>1, <3>2, <3>3, <3>4, <3>6, <4>1
      <4>2. CASE v # w
        BY <3>1, <3>2, <3>9, <4>2 DEF PoolInv
      <4> QED BY <4>1, <4>2
    <3> QED BY <3>1, <3>7, <3>8, <3>9, ItemsKept
  <2>5. CASE FeedReturn(w)
    <3>0. PICK g : g = fslot[w]
      OBVIOUS
    <3>1. g # None /\ fstatus' = [fstatus EXCEPT ![g] = "finished"]
          /\ fslot' = [fslot EXCEPT ![w] = None] /\ UNCHANGED <<items, feeds, astatus>>
      BY <2>5, <3>0 DEF FeedReturn, FP!Finish
    <3>2. Moved(w, "idle")
      BY <2>5, FeedMoves
    <3>3. /\ g \in FeedTasks /\ fstatus[g] = "running"
          /\ \A v \in FeedThreads : v # w => call'[v] = call[v] /\ fslot'[v] = fslot[v] /\ fslot[v] # g
      BY <2>0, <3>0, <3>1, <3>2 DEF Moved, PoolInv
    <3>4. call'[w].at = "idle" /\ fslot'[w] = None
      BY <3>1, <3>2 DEF Moved, PoolInv
    <3>5. call[w].at = "return" \/ (call[w].at = "items" /\ call[w].next \notin DOMAIN items[g])
      BY <2>5, <3>0 DEF FeedReturn, FeedOf
    <3>6. \A i \in DOMAIN items[g] : astatus[<<g, i>>] # "new"
      <4>1. CASE call[w].at = "return"
        <5>1. items[g] = <<>>
          BY <3>0, <3>3, <4>1 DEF ItemsInv, Blank
        <5> QED BY <5>1
      <4>2. CASE call[w].at = "items"
        <5>1. PICK k \in Nat : DOMAIN items[g] = 1 .. k
          BY <3>3, ListIs DEF ItemsInv
        <5>2. PICK n \in Nat \ {0} : n = call[w].next
          BY <4>2 DEF ItemsInv
        <5>3. \A i \in DOMAIN items[g] : i < n => astatus[<<g, i>>] # "new"
          BY <3>0, <4>2, <5>2 DEF ItemsInv
        <5>4. n \notin 1 .. k
          BY <3>5, <4>2, <5>1, <5>2
        <5> QED BY <5>1, <5>3, <5>4
      <4> QED BY <3>5, <4>1, <4>2
    <3>7. ASSUME NEW f \in FeedTasks
          PROVE  /\ Blank(f)' => items[f] = <<>>
                 /\ Read(f)' => Read(f)
                 /\ fstatus'[f] = "finished" =>
                      fstatus[f] = "finished" \/ \A i \in DOMAIN items[f] : astatus[<<f, i>>] # "new"
      <4>1. fstatus'[f] = IF f = g THEN "finished" ELSE fstatus[f]
        BY <3>1 DEF PoolInv
      <4>2. Blank(f)' => Blank(f)
        BY <3>1, <3>3, <3>4, <4>1 DEF Blank
      <4>3. f # g => (Read(f)' => Read(f))
        BY <3>1, <3>3, <3>4, <4>1 DEF Read
      <4>4. Read(g)
        BY <3>0, <3>5 DEF Read
      <4> QED BY <3>6, <4>1, <4>2, <4>3, <4>4 DEF ItemsInv
    <3>8. ASSUME NEW v \in FeedThreads, call'[v].at = "items"
          PROVE  /\ call[v].at = "items" /\ fslot'[v] = fslot[v] /\ fslot[v] \in FeedTasks
                 /\ call'[v].next = call[v].next
      BY <3>3, <3>4, <3>8 DEF PoolInv
    <3> QED BY <3>1, <3>7, <3>8, ItemsKept
  <2> QED BY <1>3, <2>1, <2>2, <2>3, <2>4, <2>5 DEF FeedStep
<1> QED BY <1>1, <1>2, <1>3, Cases DEF FeedStep, ArticleStep

-------------------------------------------------------------------------------
(* The table of articles and the index                                     *)

LEMMA LinksStay ==
  ASSUME TasksInv, [Next]_vars, NEW t \in ArticleTasks, astatus[t] # "new"
  PROVE  LinkTo(t)' = LinkTo(t) /\ astatus'[t] # "new"
BY ItemsStay DEF LinkTo, ItemOfTask

\* The tasks that went to download have been scheduled.
LEMMA FetchedAre ==
  ASSUME ClaimInv, NEW t \in fetched
  PROVE  t \in ArticleTasks /\ astatus[t] # "new"
BY DEF ClaimInv, Claimed

\* A step that leaves the table and the index alone, and what it may do to the threads.
LEMMA TableKept ==
  ASSUME TasksInv, ClaimInv, ArticlesInv, IndexInv, [Next]_vars,
         UNCHANGED <<articles, invertedIndex>>, fetched \subseteq fetched',
         \A t \in fetched' : astatus'[t] \in {"running", "finished"},
         \A v \in ArticleThreads :
           /\ call'[v].at \in {"fetch", "append", "index"} => aslot'[v] \in fetched'
           /\ call'[v].at = "append" => GoodWords(call'[v].words, parseHttpURL(LinkTo(aslot[v])'))
           /\ call'[v].at = "index" \/ call[v].at = "index" =>
                call'[v] = call[v] /\ aslot'[v] = aslot[v]
           /\ aslot'[v] \in fetched =>
                aslot'[v] = aslot[v] /\ (call[v].at = "return" => call'[v].at = "return")
  PROVE  ArticlesInv' /\ IndexInv'
<1>1. ASSUME NEW t \in fetched
      PROVE  LinkTo(t)' = LinkTo(t)
  BY FetchedAre, LinksStay
<1>2. articles' = articles /\ invertedIndex' = invertedIndex
  OBVIOUS
<1>3. \A k : Page(k)' = Page(k) /\ \A x : HitsOf(x, k)' = HitsOf(x, k)
  BY <1>2 DEF Page, HitsOf
<1>4. ASSUME NEW v \in ArticleThreads, call'[v].at = "index"
      PROVE  /\ call'[v].next \in DOMAIN articles'
             /\ articles'[call'[v].next].url = LinkTo(aslot[v])'
             /\ GoodWords(call'[v].words, Page(call[v].next)')
             /\ \A x \in Tokens : HitsOf(x, call[v].next)' = {}
  <2>1. call'[v] = call[v] /\ aslot'[v] = aslot[v] /\ call[v].at = "index"
    BY <1>4
  <2>2. /\ call[v].next \in DOMAIN articles
        /\ articles[call[v].next].url = LinkTo(aslot[v])
        /\ GoodWords(call[v].words, Page(call[v].next))
        /\ \A x \in Tokens : HitsOf(x, call[v].next) = {}
        /\ aslot[v] \in fetched
    BY <2>1 DEF ArticlesInv
  <2>3. PICK n, t : n = call[v].next /\ t = aslot[v]
    OBVIOUS
  <2>4. n = call'[v].next /\ t = aslot'[v]
    BY <2>1, <2>3
  <2>5. LinkTo(aslot[v])' = LinkTo(t)' /\ LinkTo(t)' = LinkTo(t) /\ LinkTo(t) = LinkTo(aslot[v])
    BY <1>1, <2>2, <2>3, <2>4 DEF LinkTo, ItemOfTask
  <2>6. Page(call[v].next)' = Page(n) /\ Page(n) = Page(call[v].next)
    BY <1>2, <2>3, <2>4 DEF Page
  <2>7. \A x \in Tokens : HitsOf(x, call[v].next)' = HitsOf(x, n) /\ HitsOf(x, n) = {}
    BY <1>2, <2>2, <2>3, <2>4 DEF HitsOf
  <2> QED BY <1>2, <2>1, <2>2, <2>5, <2>6, <2>7
<1>5. ASSUME NEW k \in DOMAIN articles
      PROVE  \E t \in fetched' :
               /\ articles[k].url = LinkTo(t)'
               /\ \A v \in ArticleThreads : aslot'[v] = t => call'[v].at \in {"index", "return"}
  <2>1. PICK t \in fetched :
          /\ articles[k].url = LinkTo(t)
          /\ \A v \in ArticleThreads : aslot[v] = t => call[v].at \in {"index", "return"}
    BY DEF ArticlesInv
  <2>2. \A v \in ArticleThreads : aslot'[v] = t => call'[v].at \in {"index", "return"}
    BY <2>1
  <2>3. t \in fetched' /\ LinkTo(t)' = LinkTo(t)
    BY <1>1
  <2> QED BY <2>1, <2>2, <2>3
<1>6. ArticlesInv'
  <2>1. IsList(articles)' /\ \A j, k \in DOMAIN articles' : articles'[j].url = articles'[k].url => j = k
    BY <1>2 DEF ArticlesInv, IsList
  <2>2. \A k \in DOMAIN articles' :
          \E t \in fetched' :
            /\ articles'[k].url = LinkTo(t)'
            /\ \A v \in ArticleThreads : aslot'[v] = t => call'[v].at \in {"index", "return"}
    BY <1>2, <1>5
  <2> QED BY <1>4, <2>1, <2>2 DEF ArticlesInv
<1>7. ASSUME NEW k \in DOMAIN articles
      PROVE  \/ Indexed(k)'
             \/ \E v \in ArticleThreads : call'[v].at = "index" /\ call'[v].next = k
  <2>1. Indexed(k) => Indexed(k)'
    BY <1>3 DEF Indexed
  <2> QED BY <2>1 DEF IndexInv
<1>8. IndexInv'
  BY <1>2, <1>7 DEF IndexInv
<1> QED BY <1>6, <1>8

\* What a step may do to the links that were seen.
LEMMA SeenKept ==
  ASSUME TasksInv, SeenInv, [Next]_vars, seenURLs \subseteq seenURLs',
         \A k \in DOMAIN articles : k \in DOMAIN articles' /\ articles'[k] = articles[k],
         \A t \in ArticleTasks :
           \/ astatus'[t] = "finished"
           \/ \E w \in ArticleThreads : aslot'[w] = t /\ call'[w].at # "seen"
           => /\ astatus[t] # "new"
              /\ \/ LinkTo(t) \in seenURLs'
                 \/ astatus[t] = "finished"
                 \/ \E w \in ArticleThreads : aslot[w] = t /\ call[w].at # "seen",
         \A link \in seenURLs' :
           \/ link \in seenURLs
           \/ \E v \in ArticleThreads : call'[v].at = "limit" /\ LinkTo(aslot[v])' = link,
         \A v \in ArticleThreads : call[v].at \in {"limit", "fetch", "append"} =>
           \/ call'[v].at \in {"limit", "fetch", "append"} /\ aslot'[v] = aslot[v]
           \/ \A link : link = LinkTo(aslot[v]) => Dealt(link)'
  PROVE  SeenInv'
<1>1. ASSUME NEW t \in ArticleTasks,
             \/ astatus'[t] = "finished"
             \/ \E w \in ArticleThreads : aslot'[w] = t /\ call'[w].at # "seen"
      PROVE  LinkTo(t)' \in seenURLs'
  <2>1. LinkTo(t) \in seenURLs'
    BY <1>1 DEF SeenInv
  <2> QED BY <1>1, <2>1, LinksStay
<1>2. ASSUME NEW link, Dealt(link)
      PROVE  Dealt(link)'
  BY <1>2 DEF Dealt, Steady
<1>3. ASSUME NEW v \in ArticleThreads, call[v].at \in {"limit", "fetch", "append"}, 
             call'[v].at \in {"limit", "fetch", "append"}, aslot'[v] = aslot[v]
      PROVE  LinkTo(aslot[v])' = LinkTo(aslot[v])
  <2>1. PICK t : t = aslot[v]
    OBVIOUS
  <2>2. t \in ArticleTasks /\ astatus[t] # "new" /\ t = aslot'[v]
    BY <1>3, <2>1 DEF TasksInv, PoolInv
  <2>3. LinkTo(t)' = LinkTo(t)
    BY <2>2, LinksStay
  <2>4. LinkTo(aslot[v])' = LinkTo(t)' /\ LinkTo(aslot[v]) = LinkTo(t)
    BY <2>1, <2>2 DEF LinkTo, ItemOfTask
  <2> QED BY <2>3, <2>4
<1>4. ASSUME NEW link \in seenURLs'
      PROVE  \/ Dealt(link)'
             \/ \E w \in ArticleThreads :
                  call'[w].at \in {"limit", "fetch", "append"} /\ LinkTo(aslot[w])' = link
  <2>1. CASE link \in seenURLs
    <3>1. CASE Dealt(link)
      BY <1>2, <3>1
    <3>2. CASE ~Dealt(link)
      <4>1. PICK v \in ArticleThreads :
              call[v].at \in {"limit", "fetch", "append"} /\ LinkTo(aslot[v]) = link
        BY <2>1, <3>2 DEF SeenInv
      <4> QED BY <1>3, <4>1
    <3> QED BY <3>1, <3>2
  <2>2. CASE link \notin seenURLs
    BY <2>2
  <2> QED BY <2>1, <2>2
<1> QED BY <1>1, <1>4 DEF SeenInv

\* The other threads of articles are left alone.
LEMMA OthersStay ==
  ASSUME TasksInv, [Next]_vars, NEW w \in ArticleThreads, ArticleStep(w)
  PROVE  \A v \in ArticleThreads : v # w => call'[v] = call[v] /\ aslot'[v] = aslot[v]
<1> USE DEF TasksInv
<1>1. \E a : Moved(w, a)
  BY TaskMoves DEF ArticleStep
<1>2. \A v \in ArticleThreads : v # w => call'[v] = call[v]
  BY <1>1 DEF Moved, Threads
<1>3. aslot' = aslot \/ \E x : aslot' = [aslot EXCEPT ![w] = x]
  <2>1. ASSUME NEW t \in ArticleTasks, TaskStart(w, t)
        PROVE  \E x : aslot' = [aslot EXCEPT ![w] = x]
    BY <2>1 DEF TaskStart, AP!Start
  <2>2. CASE TaskReturn(w)
    BY <2>2 DEF TaskReturn, AP!Finish
  <2> QED BY <2>1, <2>2 DEF ArticleStep, TaskSeen, TaskLimit, TaskFetch, TaskAppend, TaskIndex
<1> QED BY <1>2, <1>3 DEF PoolInv

TableInv == ArticlesInv /\ IndexInv /\ SeenInv

\* main and the threads of feeds.
LEMMA TableOthers ==
  ASSUME TasksInv, ClaimInv, TableInv, [Next]_vars,
         MainMoves \/ \E w \in FeedThreads : FeedStep(w)
  PROVE  TableInv'
<1> USE DEF TasksInv
<1>1. UNCHANGED <<articles, invertedIndex, fetched, seenURLs, aslot>>
  <2>1. CASE MainMoves
    <3>1. articles' = articles
      BY <2>1 DEF MainMoves, MainStep, MainList, MainSchedule, MainFeedWait, MainArticleWait,
                  MainWaited, MainClose, Failed, Query, shared
    <3> QED BY <2>1, <3>1, MainMovesNobody
  <2>2. CASE \E w \in FeedThreads : FeedStep(w)
    BY <2>2 DEF FeedStep, FeedStart, FeedLimit, FeedFetch, FeedSchedule, FeedReturn, AP!Schedule
  <2> QED BY <2>1, <2>2
<1>2. \A v \in ArticleThreads : call'[v] = call[v]
  <2>1. ASSUME NEW w \in FeedThreads, FeedStep(w)
        PROVE  \A v \in ArticleThreads : call'[v] = call[v]
    <3>1. \E a : Moved(w, a)
      BY <2>1, FeedMoves DEF FeedStep
    <3>2. \A v \in ArticleThreads : v \in Threads /\ v # w
      BY DEF Threads
    <3> QED BY <3>1, <3>2 DEF Moved
  <2> QED BY <2>1, MainMovesNobody
<1>3. \A t \in ArticleTasks : astatus'[t] = astatus[t] \/ (astatus[t] = "new" /\ astatus'[t] = "pending")
  <2>1. ASSUME NEW w \in FeedThreads, FeedStep(w), NEW t \in ArticleTasks
        PROVE  astatus'[t] = astatus[t] \/ (astatus[t] = "new" /\ astatus'[t] = "pending")
    <3>1. CASE FeedSchedule(w)
      BY <3>1 DEF FeedSchedule, AP!Schedule, PoolInv
    <3> QED BY <2>1, <3>1 DEF FeedStep, FeedStart, FeedLimit, FeedFetch, FeedReturn
  <2> QED BY <2>1, MainPools DEF PoolInv
<1>4. ArticlesInv' /\ IndexInv'
  <2>1. \A t \in fetched' : astatus'[t] \in {"running", "finished"}
    BY <1>1, <1>3, FetchedAre DEF TableInv, ArticlesInv
  <2>2. ASSUME NEW v \in ArticleThreads, call'[v].at = "append"
        PROVE  GoodWords(call'[v].words, parseHttpURL(LinkTo(aslot[v])'))
    <3>1. PICK t : t = aslot[v]
      OBVIOUS
    <3>2. t \in ArticleTasks /\ astatus[t] # "new" /\ t = aslot'[v] /\ call[v].at = "append"
      BY <1>1, <1>2, <2>2, <3>1 DEF PoolInv
    <3>3. LinkTo(t)' = LinkTo(t)
      BY <3>2, LinksStay
    <3>4. LinkTo(aslot[v])' = LinkTo(t)' /\ LinkTo(aslot[v]) = LinkTo(t)
      BY <3>1, <3>2 DEF LinkTo, ItemOfTask
    <3> QED BY <1>2, <3>2, <3>3, <3>4 DEF TableInv, ArticlesInv
  <2>3. \A v \in ArticleThreads :
          /\ call'[v].at \in {"fetch", "append", "index"} => aslot'[v] \in fetched'
          /\ call'[v] = call[v] /\ aslot'[v] = aslot[v]
    BY <1>1, <1>2 DEF TableInv, ArticlesInv
  <2> QED BY <1>1, <2>1, <2>2, <2>3, TableKept DEF TableInv
<1>5. SeenInv'
  <2>1. ASSUME NEW t \in ArticleTasks,
               \/ astatus'[t] = "finished"
               \/ \E w \in ArticleThreads : aslot'[w] = t /\ call'[w].at # "seen"
        PROVE  /\ astatus[t] # "new"
               /\ \/ astatus[t] = "finished"
                  \/ \E w \in ArticleThreads : aslot[w] = t /\ call[w].at # "seen"
    BY <1>1, <1>2, <1>3, <2>1 DEF PoolInv
  <2> QED BY <1>1, <1>2, <2>1, SeenKept DEF TableInv
<1> QED BY <1>4, <1>5 DEF TableInv

\* The steps of an article before the table and after the index.
LEMMA TableTasks ==
  ASSUME TasksInv, ClaimInv, ItemsInv, TableInv, [Next]_vars, NEW w \in ArticleThreads,
         \/ \E t \in ArticleTasks : TaskStart(w, t)
         \/ TaskSeen(w) \/ TaskLimit(w) \/ TaskFetch(w) \/ TaskReturn(w)
  PROVE  TableInv'
<1> USE DEF TasksInv
<1>0. w \in Threads /\ ArticleStep(w)
  BY DEF Threads, ArticleStep
<1>1. \A v \in ArticleThreads : v # w => call'[v] = call[v] /\ aslot'[v] = aslot[v]
  BY <1>0, OthersStay
<1>2. UNCHANGED <<articles, invertedIndex>>
  BY DEF TaskStart, TaskSeen, TaskLimit, TaskFetch, TaskReturn
<1>3. \A v \in ArticleThreads : aslot[v] # None =>
        aslot[v] \in ArticleTasks /\ astatus[aslot[v]] # "new" /\ astatus[aslot[v]] = "running"
  BY DEF PoolInv
<1>4. ASSUME NEW v \in ArticleThreads, v # w, call'[v].at = "append"
      PROVE  GoodWords(call'[v].words, parseHttpURL(LinkTo(aslot[v])'))
  <2>1. PICK t : t = aslot[v]
    OBVIOUS
  <2>2. t \in ArticleTasks /\ astatus[t] # "new" /\ t = aslot'[v] /\ call[v].at = "append"
    BY <1>1, <1>4, <2>1 DEF PoolInv
  <2>3. LinkTo(t)' = LinkTo(t)
    BY <2>2, LinksStay
  <2>4. LinkTo(aslot[v])' = LinkTo(t)' /\ LinkTo(aslot[v]) = LinkTo(t)
    BY <2>1, <2>2 DEF LinkTo, ItemOfTask
  <2> QED BY <1>1, <1>4, <2>2, <2>3, <2>4 DEF TableInv, ArticlesInv
\* What is left to show about the thread itself.
<1>5. ASSUME fetched \subseteq fetched',
             \A t \in fetched' : astatus'[t] \in {"running", "finished"},
             call'[w].at \in {"fetch", "append"} => aslot'[w] \in fetched',
             call'[w].at = "append" => GoodWords(call'[w].words, parseHttpURL(LinkTo(aslot[w])')),
             call'[w].at # "index", call[w].at # "index",
             aslot'[w] \in fetched => aslot'[w] = aslot[w] /\ call[w].at # "return"
      PROVE  ArticlesInv' /\ IndexInv'
  <2>1. \A v \in ArticleThreads :
          /\ call'[v].at \in {"fetch", "append", "index"} => aslot'[v] \in fetched'
          /\ call'[v].at = "append" => GoodWords(call'[v].words, parseHttpURL(LinkTo(aslot[v])'))
          /\ call'[v].at = "index" \/ call[v].at = "index" =>
               call'[v] = call[v] /\ aslot'[v] = aslot[v]
          /\ aslot'[v] \in fetched =>
               aslot'[v] = aslot[v] /\ (call[v].at = "return" => call'[v].at = "return")
    <3>1. SUFFICES ASSUME NEW v \in ArticleThreads, v # w
                   PROVE  /\ call'[v].at \in {"fetch", "append", "index"} => aslot'[v] \in fetched'
                          /\ call'[v] = call[v] /\ aslot'[v] = aslot[v]
      BY <1>4, <1>5
    <3>2. call'[v] = call[v] /\ aslot'[v] = aslot[v]
      BY <1>1, <3>1
    <3>3. call[v].at \in {"fetch", "append", "index"} => aslot[v] \in fetched
      BY DEF TableInv, ArticlesInv
    <3>4. fetched \subseteq fetched'
      BY <1>5
    <3> QED BY <3>2, <3>3, <3>4
  <2> QED BY <1>2, <1>5, <2>1, TableKept DEF TableInv
<1>6. ASSUME seenURLs \subseteq seenURLs',
             \A t \in ArticleTasks : astatus'[t] = "finished" =>
               astatus[t] = "finished" \/ (t = aslot[w] /\ call[w].at = "return"),
             call'[w].at # "seen" /\ aslot'[w] # None =>
               /\ aslot'[w] = aslot[w]
               /\ call[w].at # "seen" \/ LinkTo(aslot[w]) \in seenURLs',
             \A link \in seenURLs' :
               link \in seenURLs \/ (call'[w].at = "limit" /\ LinkTo(aslot[w])' = link),
             call[w].at \in {"limit", "fetch", "append"} =>
               \/ call'[w].at \in {"limit", "fetch", "append"} /\ aslot'[w] = aslot[w]
               \/ \A link : link = LinkTo(aslot[w]) => Dealt(link)'
      PROVE  SeenInv'
  <2>1. ASSUME NEW t \in ArticleTasks,
               \/ astatus'[t] = "finished"
               \/ \E v \in ArticleThreads : aslot'[v] = t /\ call'[v].at # "seen"
        PROVE  /\ astatus[t] # "new"
               /\ \/ LinkTo(t) \in seenURLs'
                  \/ astatus[t] = "finished"
                  \/ \E v \in ArticleThreads : aslot[v] = t /\ call[v].at # "seen"
    <3>1. CASE astatus'[t] = "finished"
      BY <1>3, <1>6, <3>1
    <3>2. ASSUME NEW v \in ArticleThreads, aslot'[v] = t, call'[v].at # "seen"
          PROVE  /\ aslot[v] = t /\ astatus[t] # "new"
                 /\ call[v].at # "seen" \/ LinkTo(t) \in seenURLs'
      <4>1. CASE v = w
        BY <1>3, <1>6, <3>2, <4>1
      <4>2. CASE v # w
        BY <1>1, <1>3, <3>2, <4>2
      <4> QED BY <4>1, <4>2
    <3> QED BY <2>1, <3>1, <3>2
  <2>2. \A k \in DOMAIN articles : k \in DOMAIN articles' /\ articles'[k] = articles[k]
    BY <1>2
  <2>3. \A link \in seenURLs' :
           \/ link \in seenURLs
           \/ \E v \in ArticleThreads : call'[v].at = "limit" /\ LinkTo(aslot[v])' = link
    BY <1>6
  <2>4. \A v \in ArticleThreads : call[v].at \in {"limit", "fetch", "append"} =>
           \/ call'[v].at \in {"limit", "fetch", "append"} /\ aslot'[v] = aslot[v]
           \/ \A link : link = LinkTo(aslot[v]) => Dealt(link)'
    BY <1>1, <1>6
  <2> QED BY <1>6, <2>1, <2>2, <2>3, <2>4, SeenKept DEF TableInv
<1>7. \A t \in fetched : astatus[t] \in {"running", "finished"}
  BY DEF TableInv, ArticlesInv
<1>8. ASSUME NEW t \in ArticleTasks, TaskStart(w, t)
      PROVE  TableInv'
  <2>1. Moved(w, "seen") /\ call[w].at = "idle"
    BY <1>8, TaskMoves
  <2>2. astatus[t] = "pending" /\ astatus' = [astatus EXCEPT ![t] = "running"]
        /\ aslot' = [aslot EXCEPT ![w] = t] /\ UNCHANGED <<fetched, seenURLs>>
    BY <1>8 DEF TaskStart, AP!Start
  <2>3. call'[w].at = "seen" /\ aslot'[w] = t /\ t \notin fetched
    BY <1>7, <2>1, <2>2 DEF Moved, PoolInv
  <2>4. \A u \in ArticleTasks : astatus'[u] = IF u = t THEN "running" ELSE astatus[u]
    BY <2>2 DEF PoolInv
  <2>5. \A u \in fetched' : astatus'[u] \in {"running", "finished"}
    BY <1>7, <2>2, <2>4, FetchedAre
  <2>6. ArticlesInv' /\ IndexInv'
    BY <1>5, <2>1, <2>2, <2>3, <2>5
  <2>7. SeenInv'
    BY <1>6, <2>1, <2>2, <2>3, <2>4
  <2> QED BY <2>6, <2>7 DEF TableInv
<1>9. CASE TaskReturn(w)
  <2>1. Moved(w, "idle") /\ call[w].at = "return"
    BY <1>9, TaskMoves
  <2>2. aslot[w] # None /\ astatus' = [astatus EXCEPT ![aslot[w]] = "finished"]
        /\ aslot' = [aslot EXCEPT ![w] = None] /\ UNCHANGED <<fetched, seenURLs>>
    BY <1>9 DEF TaskReturn, AP!Finish
  <2>3. call'[w].at = "idle" /\ aslot'[w] = None
    BY <2>1, <2>2 DEF Moved, PoolInv
  <2>4. \A u \in ArticleTasks : astatus'[u] = IF u = aslot[w] THEN "finished" ELSE astatus[u]
    BY <2>2 DEF PoolInv
  <2>5. \A u \in fetched' : astatus'[u] \in {"running", "finished"} /\ u # None
    BY <1>7, <2>2, <2>4, FetchedAre
  <2>6. ArticlesInv' /\ IndexInv'
    BY <1>5, <2>1, <2>2, <2>3, <2>5
  <2>7. SeenInv'
    BY <1>6, <2>1, <2>2, <2>3, <2>4
  <2> QED BY <2>6, <2>7 DEF TableInv
<1>10. PICK t : t = aslot[w]
  OBVIOUS
<1>11. ASSUME call[w].at # "idle", aslot' = aslot
       PROVE  /\ t \in ArticleTasks /\ astatus[t] = "running" /\ LinkTo(t)' = LinkTo(t)
              /\ LinkTo(aslot[w])' = LinkTo(t) /\ LinkTo(aslot[w]) = LinkTo(t)
  <2>1. t \in ArticleTasks /\ astatus[t] = "running" /\ t = aslot'[w]
    BY <1>3, <1>10, <1>11 DEF PoolInv
  <2>2. LinkTo(t)' = LinkTo(t)
    BY <2>1, LinksStay
  <2>3. LinkTo(aslot[w])' = LinkTo(t)' /\ LinkTo(aslot[w]) = LinkTo(t)
    BY <1>10, <2>1 DEF LinkTo, ItemOfTask
  <2> QED BY <2>1, <2>2, <2>3
<1>12. CASE TaskSeen(w)
  <2>1. call[w].at = "seen" /\ UNCHANGED <<aslot, astatus, fetched>>
        /\ seenURLs' = seenURLs \cup {LinkTo(t)}
        /\ call' = [call EXCEPT ![w].at = IF LinkTo(t) \in seenURLs THEN "return" ELSE "limit"]
    BY <1>10, <1>12 DEF TaskSeen, Goes, LinkTo, ItemOf
  <2>2. call'[w].at = IF LinkTo(t) \in seenURLs THEN "return" ELSE "limit"
    BY <1>0, <2>1 DEF CallInv
  <2>3. /\ t \in ArticleTasks /\ astatus[t] = "running" /\ LinkTo(t)' = LinkTo(t)
        /\ LinkTo(aslot[w])' = LinkTo(t) /\ LinkTo(aslot[w]) = LinkTo(t)
    BY <1>11, <2>1
  <2>4. ArticlesInv' /\ IndexInv'
    BY <1>5, <1>7, <2>1, <2>2
  <2>5. \A link \in seenURLs' :
          link \in seenURLs \/ (call'[w].at = "limit" /\ LinkTo(aslot[w])' = link)
    BY <2>1, <2>2, <2>3
  <2>6. seenURLs \subseteq seenURLs' /\ LinkTo(aslot[w]) \in seenURLs'
    BY <2>1, <2>3
  <2>7. SeenInv'
    BY <1>6, <2>1, <2>5, <2>6
  <2> QED BY <2>4, <2>7 DEF TableInv
<1>13. CASE TaskLimit(w)
  <2>1. call[w].at = "limit" /\ UNCHANGED <<aslot, astatus, seenURLs>> /\ fetched' = fetched \cup {t}
    BY <1>10, <1>13 DEF TaskLimit, Goes
  <2>2. call'[w].at = "fetch"
    BY <1>13, TaskMoves DEF Moved
  <2>3. t \in ArticleTasks /\ astatus[t] = "running"
    BY <1>11, <2>1
  <2>4. \A u \in fetched' : astatus'[u] \in {"running", "finished"}
    BY <1>7, <2>1, <2>3
  <2>5. ArticlesInv' /\ IndexInv'
    BY <1>5, <1>10, <2>1, <2>2, <2>4
  <2>6. SeenInv'
    BY <1>6, <2>1, <2>2
  <2> QED BY <2>5, <2>6 DEF TableInv
<1>14. CASE TaskFetch(w)
  <2>1. call[w].at = "fetch" /\ UNCHANGED <<aslot, astatus, seenURLs, fetched>>
    BY <1>14 DEF TaskFetch
  <2>2. PICK link : link = LinkTo(t)
    OBVIOUS
  <2>3. /\ t \in ArticleTasks /\ astatus[t] = "running" /\ LinkTo(t)' = link
        /\ LinkTo(aslot[w])' = link /\ LinkTo(aslot[w]) = link
    BY <1>11, <2>1, <2>2
  <2>4. PICK html \in Downloads(link) :
          IF html = None \/ tokenizeHTML(html) = <<>>
          THEN Goes(w, "fetch", "return")
          ELSE call' = [call EXCEPT ![w] = At("append", 0, tokenizeHTML(html))]
    BY <1>10, <1>14, <2>2 DEF TaskFetch, ItemOf, LinkTo
  <2>5. t \in fetched
    BY <1>10, <2>1 DEF TableInv, ArticlesInv
  <2>6. CASE html = None \/ tokenizeHTML(html) = <<>>
    <3>1. call'[w].at = "return"
      BY <1>0, <2>4, <2>6 DEF Goes, CallInv
    <3>2. Reachable(link)
      <4>1. t[1] \in FeedTasks /\ t[2] \in DOMAIN items[t[1]]
        BY <2>3 DEF ItemsInv, ArticleTasks
      <4>2. Reachable(items[t[1]][t[2]].link)
        BY <4>1, ListIs DEF ItemsInv
      <4> QED BY <2>2, <4>2 DEF LinkTo, ItemOfTask
    <3>3. ~(Steady(parseHttpURL(link)) /\ Site[parseHttpURL(link)].shows # <<>>)
      <4>1. CASE html = None
        BY <3>2, <4>1, DownloadWorks
      <4>2. CASE html # None
        BY <2>6, <4>2, WordsAreGood
      <4> QED BY <4>1, <4>2
    <3>4. Dealt(link)'
      BY <3>3 DEF Dealt, Steady
    <3>5. ArticlesInv' /\ IndexInv'
      BY <1>5, <1>7, <2>1, <3>1
    <3>6. SeenInv'
      BY <1>6, <2>1, <2>3, <3>1, <3>4
    <3> QED BY <3>5, <3>6 DEF TableInv
  <2>7. CASE ~(html = None \/ tokenizeHTML(html) = <<>>)
    <3>1. call'[w].at = "append" /\ call'[w].words = tokenizeHTML(html)
      BY <1>0, <2>4, <2>7 DEF At, CallInv
    <3>2. GoodWords(call'[w].words, parseHttpURL(LinkTo(aslot[w])'))
      BY <2>3, <2>7, <3>1, WordsAreGood
    <3>3. ArticlesInv' /\ IndexInv'
      BY <1>5, <1>7, <1>10, <2>1, <2>5, <3>1, <3>2
    <3>4. SeenInv'
      BY <1>6, <2>1, <3>1
    <3> QED BY <3>3, <3>4 DEF TableInv
  <2> QED BY <2>6, <2>7
<1> QED BY <1>8, <1>9, <1>12, <1>13, <1>14

\* A thread that is between the download and the index, and what it has in its hands.
LEMMA Holds ==
  ASSUME TasksInv, TasksInv', ClaimInv, TableInv, [Next]_vars, NEW v \in ArticleThreads,
         call[v].at \in {"fetch", "append", "index"}, aslot'[v] = aslot[v], NEW t, t = aslot[v]
  PROVE  /\ t \in fetched /\ t \in ArticleTasks /\ LinkTo(t)' = LinkTo(t)
         /\ LinkTo(aslot[v])' = LinkTo(t) /\ LinkTo(aslot[v]) = LinkTo(t)
<1>1. t \in fetched /\ t = aslot'[v]
  BY DEF TableInv, ArticlesInv
<1>2. t \in ArticleTasks /\ astatus[t] # "new"
  BY <1>1, FetchedAre
<1>3. LinkTo(t)' = LinkTo(t)
  BY <1>2, LinksStay
<1>4. LinkTo(aslot[v])' = LinkTo(t)' /\ LinkTo(aslot[v]) = LinkTo(t)
  BY <1>1 DEF LinkTo, ItemOfTask
<1> QED BY <1>1, <1>2, <1>3, <1>4

\* The new article has a number of its own, no hits, and a link that no other has.
LEMMA TableAppend ==
  ASSUME TasksInv, TasksInv', ClaimInv, TableInv, [Next]_vars, NEW w \in ArticleThreads,
         TaskAppend(w)
  PROVE  TableInv'
<1> USE DEF TasksInv
<1>0. w \in Threads /\ ArticleStep(w)
  BY DEF Threads, ArticleStep
<1>1. \A v \in ArticleThreads : v # w => call'[v] = call[v] /\ aslot'[v] = aslot[v]
  BY <1>0, OthersStay
<1>2. /\ call[w].at = "append" /\ call' = [call EXCEPT ![w] = At("index", Len(articles) + 1, call[w].words)]
      /\ articles' = Append(articles, [title |-> ItemOf(w).title, url |-> ItemOf(w).link])
      /\ UNCHANGED <<astatus, aslot, seenURLs, invertedIndex, fetched>>
  BY DEF TaskAppend
<1>3. PICK t, n, e : /\ t = aslot[w] /\ n = Len(articles) + 1
                     /\ e = [title |-> ItemOf(w).title, url |-> ItemOf(w).link]
  OBVIOUS
<1>4. /\ IsList(articles') /\ DOMAIN articles' = DOMAIN articles \cup {n} /\ n \notin DOMAIN articles
      /\ \A k \in DOMAIN articles : articles'[k] = articles[k]
      /\ articles'[n] = e
  <2>1. IsList(articles) /\ articles' = Append(articles, e)
    BY <1>2, <1>3 DEF TableInv, ArticlesInv
  <2>2. PICK S : articles \in Seq(S)
    BY <2>1 DEF IsList
  <2>3. articles \in Seq(S \cup {e}) /\ e \in S \cup {e}
    BY <2>2
  <2>4. /\ articles' \in Seq(S \cup {e}) /\ Len(articles) \in Nat /\ DOMAIN articles = 1 .. Len(articles)
        /\ DOMAIN articles' = 1 .. Len(articles) + 1
        /\ \A i \in DOMAIN articles : articles'[i] = articles[i]
        /\ articles'[Len(articles) + 1] = e
    BY <2>1, <2>3, Appending
  <2>5. IsList(articles')
    BY <2>4 DEF IsList
  <2> QED BY <1>3, <2>4, <2>5
<1>5. call'[w].at = "index" /\ call'[w].next = n /\ call'[w].words = call[w].words
  BY <1>0, <1>2, <1>3 DEF At, CallInv
<1>6. /\ t \in fetched /\ t \in ArticleTasks /\ LinkTo(t)' = LinkTo(t)
      /\ LinkTo(aslot[w])' = LinkTo(t) /\ LinkTo(aslot[w]) = LinkTo(t)
  BY <1>2, <1>3, Holds
<1>7. e.url = LinkTo(t)
  BY <1>3, <1>6 DEF ItemOf, LinkTo
<1>8. /\ Page(n)' = parseHttpURL(LinkTo(t))
      /\ \A k \in DOMAIN articles : Page(k)' = Page(k)
  BY <1>4, <1>7 DEF Page
<1>9. \A x \in Tokens : \A k : HitsOf(x, k)' = HitsOf(x, k)
  BY <1>2 DEF HitsOf
<1>10. \A x \in Tokens : HitsOf(x, n) = {}
  BY <1>4 DEF HitsOf, TableInv, IndexInv
<1>11. \A j \in DOMAIN articles : articles[j].url # LinkTo(t)
  <2> SUFFICES ASSUME NEW j \in DOMAIN articles, articles[j].url = LinkTo(t) PROVE FALSE
    OBVIOUS
  <2>1. PICK u \in fetched :
          /\ articles[j].url = LinkTo(u)
          /\ \A v \in ArticleThreads : aslot[v] = u => call[v].at \in {"index", "return"}
    BY DEF TableInv, ArticlesInv
  <2>2. u = t
    BY <1>6, <2>1 DEF ClaimInv, Claimed, LinkTo
  <2> QED BY <1>2, <1>3, <2>1, <2>2
<1>12. ASSUME NEW v \in ArticleThreads, call'[v].at = "index"
       PROVE  /\ call'[v].next \in DOMAIN articles'
              /\ articles'[call'[v].next].url = LinkTo(aslot[v])'
              /\ GoodWords(call'[v].words, Page(call[v].next)')
              /\ \A x \in Tokens : HitsOf(x, call[v].next)' = {}
  <2>1. CASE v = w
    <3>1. Page(call[w].next)' = Page(n)' /\ \A x \in Tokens : HitsOf(x, call[w].next)' = HitsOf(x, n)'
      BY <1>5 DEF Page, HitsOf
    <3>2. GoodWords(call[w].words, parseHttpURL(LinkTo(t)))
      BY <1>2, <1>6 DEF TableInv, ArticlesInv
    <3>3. /\ call'[w].next \in DOMAIN articles'
          /\ articles'[call'[w].next].url = LinkTo(aslot[w])'
      BY <1>4, <1>5, <1>6, <1>7
    <3>4. GoodWords(call'[w].words, Page(call[w].next)')
      BY <1>5, <1>8, <3>1, <3>2
    <3>5. \A x \in Tokens : HitsOf(x, call[w].next)' = {}
      BY <1>9, <1>10, <3>1
    <3> QED BY <2>1, <3>3, <3>4, <3>5
  <2>2. CASE v # w
    <3>1. call'[v] = call[v] /\ aslot'[v] = aslot[v] /\ call[v].at = "index"
      BY <1>1, <1>12, <2>2
    <3>2. PICK m : m = call[v].next
      OBVIOUS
    <3>3. /\ m \in DOMAIN articles
          /\ articles[m].url = LinkTo(aslot[v])
          /\ GoodWords(call[v].words, Page(m))
          /\ \A x \in Tokens : HitsOf(x, m) = {}
      BY <3>1, <3>2 DEF TableInv, ArticlesInv
    <3>4. Page(call[v].next)' = Page(m)' /\ \A x \in Tokens : HitsOf(x, call[v].next)' = HitsOf(x, m)'
      BY <3>1, <3>2 DEF Page, HitsOf
    <3>5. LinkTo(aslot[v])' = LinkTo(aslot[v])
      BY <3>1, Holds
    <3>6. /\ call'[v].next \in DOMAIN articles'
          /\ articles'[call'[v].next].url = LinkTo(aslot[v])'
      BY <1>4, <3>1, <3>2, <3>3, <3>5
    <3>7. GoodWords(call'[v].words, Page(call[v].next)')
      BY <1>8, <3>1, <3>3, <3>4
    <3>8. \A x \in Tokens : HitsOf(x, call[v].next)' = {}
      BY <1>9, <3>3, <3>4
    <3> QED BY <3>6, <3>7, <3>8
  <2> QED BY <2>1, <2>2
<1>13. ASSUME NEW v \in ArticleThreads, call'[v].at = "append"
       PROVE  GoodWords(call'[v].words, parseHttpURL(LinkTo(aslot[v])'))
  <2>1. v # w /\ call'[v] = call[v] /\ aslot'[v] = aslot[v] /\ call[v].at = "append"
    BY <1>1, <1>5, <1>13
  <2>2. LinkTo(aslot[v])' = LinkTo(aslot[v])
    BY <2>1, Holds
  <2> QED BY <2>1, <2>2 DEF TableInv, ArticlesInv
<1>14. ASSUME NEW k \in DOMAIN articles'
       PROVE  \E u \in fetched' :
                /\ articles'[k].url = LinkTo(u)'
                /\ \A v \in ArticleThreads : aslot'[v] = u => call'[v].at \in {"index", "return"}
  <2>1. CASE k = n
    <3>1. \A v \in ArticleThreads : aslot'[v] = t => v = w
      BY <1>2, <1>3, <1>6 DEF PoolInv
    <3> QED BY <1>2, <1>4, <1>5, <1>6, <1>7, <2>1, <3>1
  <2>2. CASE k # n
    <3>0. k \in DOMAIN articles
      BY <1>4, <2>2
    <3>1. PICK u \in fetched :
            /\ articles[k].url = LinkTo(u)
            /\ \A v \in ArticleThreads : aslot[v] = u => call[v].at \in {"index", "return"}
      BY <3>0 DEF TableInv, ArticlesInv
    <3>2. LinkTo(u)' = LinkTo(u)
      BY FetchedAre, LinksStay
    <3>3. \A v \in ArticleThreads : aslot'[v] = u => call'[v].at \in {"index", "return"}
      BY <1>1, <1>2, <1>5, <3>1
    <3> QED BY <1>2, <1>4, <3>0, <3>1, <3>2, <3>3
  <2> QED BY <2>1, <2>2
<1>15. ArticlesInv'
  <2>1. \A j, k \in DOMAIN articles' : articles'[j].url = articles'[k].url => j = k
    BY <1>4, <1>7, <1>11 DEF TableInv, ArticlesInv
  <2>2. \A u \in fetched' : astatus'[u] \in {"running", "finished"}
    BY <1>2 DEF TableInv, ArticlesInv
  <2>3. ASSUME NEW v \in ArticleThreads, call'[v].at \in {"fetch", "append", "index"}
        PROVE  aslot'[v] \in fetched'
    <3>1. CASE v = w
      BY <1>2, <1>3, <1>6, <3>1
    <3>2. CASE v # w
      BY <1>1, <1>2, <2>3, <3>2 DEF TableInv, ArticlesInv
    <3> QED BY <3>1, <3>2
  <2>4. IsList(articles)'
    BY <1>4 DEF IsList
  <2> QED BY <1>12, <1>13, <1>14, <2>1, <2>2, <2>3, <2>4 DEF ArticlesInv
<1>16. IndexInv'
  <2>1. ASSUME NEW x \in Tokens
        PROVE  /\ IsFiniteSet(invertedIndex'[x])
               /\ \A h \in invertedIndex'[x] : h[1] \in DOMAIN articles'
    BY <1>2, <1>4 DEF TableInv, IndexInv
  <2>2. ASSUME NEW k \in DOMAIN articles'
        PROVE  \/ Indexed(k)'
               \/ \E v \in ArticleThreads : call'[v].at = "index" /\ call'[v].next = k
    <3>1. CASE k = n
      BY <1>5, <3>1
    <3>2. CASE k # n
      <4>0. k \in DOMAIN articles
        BY <1>4, <3>2
      <4>1. Indexed(k) => Indexed(k)'
        BY <1>8, <1>9, <4>0 DEF Indexed
      <4>2. ASSUME NEW v \in ArticleThreads, call[v].at = "index", call[v].next = k
            PROVE  call'[v].at = "index" /\ call'[v].next = k
        BY <1>1, <1>2, <4>2
      <4> QED BY <4>0, <4>1, <4>2 DEF TableInv, IndexInv
    <3> QED BY <3>1, <3>2
  <2> QED BY <2>1, <2>2 DEF IndexInv
<1>17. SeenInv'
  <2>1. \A link : link = LinkTo(aslot[w]) => Dealt(link)'
    BY <1>4, <1>6, <1>7 DEF Dealt
  <2>2. \A v \in ArticleThreads : call[v].at \in {"limit", "fetch", "append"} =>
           \/ call'[v].at \in {"limit", "fetch", "append"} /\ aslot'[v] = aslot[v]
           \/ \A link : link = LinkTo(aslot[v]) => Dealt(link)'
    BY <1>1, <2>1
  <2>3. ASSUME NEW u \in ArticleTasks,
               \/ astatus'[u] = "finished"
               \/ \E v \in ArticleThreads : aslot'[v] = u /\ call'[v].at # "seen"
        PROVE  /\ astatus[u] # "new"
               /\ \/ astatus[u] = "finished"
                  \/ \E v \in ArticleThreads : aslot[v] = u /\ call[v].at # "seen"
    BY <1>1, <1>2, <2>3 DEF PoolInv
  <2>4. \A k \in DOMAIN articles : k \in DOMAIN articles' /\ articles'[k] = articles[k]
    BY <1>4
  <2> QED BY <1>2, <2>2, <2>3, <2>4, SeenKept DEF TableInv
<1> QED BY <1>15, <1>16, <1>17 DEF TableInv

\* The hits of an article are entered at once, by the thread that appended it.
LEMMA TableIndex ==
  ASSUME TasksInv, TasksInv', ClaimInv, TableInv, [Next]_vars, NEW w \in ArticleThreads,
         TaskIndex(w)
  PROVE  TableInv'
<1> USE DEF TasksInv
<1>0. w \in Threads /\ ArticleStep(w)
  BY DEF Threads, ArticleStep
<1>1. \A v \in ArticleThreads : v # w => call'[v] = call[v] /\ aslot'[v] = aslot[v]
  BY <1>0, OthersStay
<1>2. PICK n, words : n = call[w].next /\ words = call[w].words
  OBVIOUS
<1>3. /\ call[w].at = "index" /\ UNCHANGED <<astatus, aslot, seenURLs, articles, fetched>>
      /\ invertedIndex' = [x \in Tokens |-> IF Count(words, x) = 0 THEN invertedIndex[x]
                                            ELSE invertedIndex[x] \cup {<<n, Count(words, x)>>}]
  BY <1>2 DEF TaskIndex, Goes, WithCounts
<1>4. call'[w].at = "return"
  BY TaskMoves DEF Moved
<1>5. PICK t : t = aslot[w]
  OBVIOUS
<1>6. /\ t \in fetched /\ LinkTo(t) = LinkTo(aslot[w])
  BY <1>3, <1>5, Holds
<1>7. /\ n \in DOMAIN articles /\ articles[n].url = LinkTo(t) /\ GoodWords(words, Page(n))
      /\ \A x \in Tokens : HitsOf(x, n) = {}
  BY <1>2, <1>3, <1>6 DEF TableInv, ArticlesInv
<1>8. \A k : Page(k)' = Page(k)
  BY <1>3 DEF Page
<1>9. ASSUME NEW x \in Tokens
      PROVE  /\ HitsOf(x, n)' = {<<n, Count(words, x)>>} \ {<<n, 0>>}
             /\ \A k : k # n => HitsOf(x, k)' = HitsOf(x, k)
             /\ IsFiniteSet(invertedIndex'[x])
             /\ \A h \in invertedIndex'[x] : h[1] \in DOMAIN articles
  <2>1. HitsOf(x, n) = {} /\ IsFiniteSet(invertedIndex[x])
        /\ \A h \in invertedIndex[x] : h[1] \in DOMAIN articles
    BY <1>7 DEF TableInv, IndexInv
  <2>2. PICK c : c = Count(words, x)
    OBVIOUS
  <2>3. CASE c = 0
    <3>1. invertedIndex'[x] = invertedIndex[x]
      BY <1>3, <2>2, <2>3
    <3>2. \A k : HitsOf(x, k)' = HitsOf(x, k)
      BY <3>1 DEF HitsOf
    <3> QED BY <2>1, <2>2, <2>3, <3>1, <3>2
  <2>4. CASE c # 0
    <3>1. invertedIndex'[x] = invertedIndex[x] \cup {<<n, c>>}
      BY <1>3, <2>2, <2>4
    <3>2. \A k : HitsOf(x, k)' = {h \in invertedIndex[x] \cup {<<n, c>>} : h[1] = k}
      BY <3>1 DEF HitsOf
    <3>3. HitsOf(x, n)' = {<<n, c>>}
      BY <2>1, <3>2 DEF HitsOf
    <3>4. \A k : k # n => HitsOf(x, k)' = HitsOf(x, k)
      BY <3>2 DEF HitsOf
    <3>5. <<n, c>> # <<n, 0>> /\ <<n, c>>[1] = n
      BY <2>4
    <3>6. {<<n, c>>} \ {<<n, 0>>} = {<<n, c>>}
      BY <3>5
    <3>7. IsFiniteSet(invertedIndex[x] \cup {<<n, c>>})
      BY <2>1, FS_AddElement
    <3>8. \A h \in invertedIndex'[x] : h[1] \in DOMAIN articles
      BY <1>7, <2>1, <3>1, <3>5
    <3> QED BY <2>2, <3>1, <3>3, <3>4, <3>6, <3>7, <3>8
  <2> QED BY <2>3, <2>4
<1>10. ASSUME NEW v \in ArticleThreads, call'[v].at = "index"
       PROVE  /\ call'[v].next \in DOMAIN articles'
              /\ articles'[call'[v].next].url = LinkTo(aslot[v])'
              /\ GoodWords(call'[v].words, Page(call[v].next)')
              /\ \A x \in Tokens : HitsOf(x, call[v].next)' = {}
  <2>1. v # w /\ call'[v] = call[v] /\ aslot'[v] = aslot[v] /\ call[v].at = "index"
    BY <1>1, <1>4, <1>10
  <2>2. PICK m, u : m = call[v].next /\ u = aslot[v]
    OBVIOUS
  <2>3. /\ u \in fetched /\ LinkTo(aslot[v])' = LinkTo(u) /\ LinkTo(aslot[v]) = LinkTo(u)
    BY <2>1, <2>2, Holds
  <2>4. /\ m \in DOMAIN articles
        /\ articles[m].url = LinkTo(u)
        /\ GoodWords(call[v].words, Page(m))
        /\ \A x \in Tokens : HitsOf(x, m) = {}
    BY <2>1, <2>2, <2>3 DEF TableInv, ArticlesInv
  <2>5. m # n
    <3> SUFFICES ASSUME m = n PROVE FALSE
      OBVIOUS
    <3>1. LinkTo(u) = LinkTo(t)
      BY <1>7, <2>4
    <3>2. u = t
      BY <1>6, <2>3, <3>1 DEF ClaimInv, Claimed, LinkTo
    <3>3. aslot[v] = aslot[w] /\ aslot[w] # None
      BY <1>3, <1>5, <2>2, <3>2 DEF PoolInv
    <3> QED BY <2>1, <3>3 DEF PoolInv
  <2>6. Page(call[v].next)' = Page(m)' /\ \A x \in Tokens : HitsOf(x, call[v].next)' = HitsOf(x, m)'
    BY <2>1, <2>2 DEF Page, HitsOf
  <2>7. GoodWords(call'[v].words, Page(call[v].next)')
    BY <1>8, <2>1, <2>4, <2>6
  <2>8. \A x \in Tokens : HitsOf(x, call[v].next)' = {}
    BY <1>9, <2>4, <2>5, <2>6
  <2>9. call'[v].next \in DOMAIN articles' /\ articles'[call'[v].next].url = LinkTo(aslot[v])'
    BY <1>3, <2>1, <2>2, <2>3, <2>4
  <2> QED BY <2>7, <2>8, <2>9
<1>11. ASSUME NEW v \in ArticleThreads, call'[v].at = "append"
       PROVE  GoodWords(call'[v].words, parseHttpURL(LinkTo(aslot[v])'))
  <2>1. v # w /\ call'[v] = call[v] /\ aslot'[v] = aslot[v] /\ call[v].at = "append"
    BY <1>1, <1>4, <1>11
  <2>2. LinkTo(aslot[v])' = LinkTo(aslot[v])
    BY <2>1, Holds
  <2> QED BY <2>1, <2>2 DEF TableInv, ArticlesInv
<1>12. ASSUME NEW k \in DOMAIN articles'
       PROVE  \E u \in fetched' :
                /\ articles'[k].url = LinkTo(u)'
                /\ \A v \in ArticleThreads : aslot'[v] = u => call'[v].at \in {"index", "return"}
  <2>1. PICK u \in fetched :
          /\ articles[k].url = LinkTo(u)
          /\ \A v \in ArticleThreads : aslot[v] = u => call[v].at \in {"index", "return"}
    BY <1>3 DEF TableInv, ArticlesInv
  <2>2. LinkTo(u)' = LinkTo(u)
    BY FetchedAre, LinksStay
  <2>3. \A v \in ArticleThreads : aslot'[v] = u => call'[v].at \in {"index", "return"}
    BY <1>1, <1>3, <1>4, <2>1
  <2> QED BY <1>3, <2>1, <2>2, <2>3
<1>13. ArticlesInv'
  <2>1. \A j, k \in DOMAIN articles' : articles'[j].url = articles'[k].url => j = k
    BY <1>3 DEF TableInv, ArticlesInv
  <2>2. \A u \in fetched' : astatus'[u] \in {"running", "finished"}
    BY <1>3 DEF TableInv, ArticlesInv
  <2>3. ASSUME NEW v \in ArticleThreads, call'[v].at \in {"fetch", "append", "index"}
        PROVE  aslot'[v] \in fetched'
    BY <1>1, <1>3, <1>4, <2>3 DEF TableInv, ArticlesInv
  <2>4. IsList(articles)'
    BY <1>3 DEF TableInv, ArticlesInv, IsList
  <2> QED BY <1>10, <1>11, <1>12, <2>1, <2>2, <2>3, <2>4 DEF ArticlesInv
<1>14. IndexInv'
  <2>1. ASSUME NEW k \in DOMAIN articles'
        PROVE  \/ Indexed(k)'
               \/ \E v \in ArticleThreads : call'[v].at = "index" /\ call'[v].next = k
    <3>1. CASE k = n
      <4>1. GoodWords(words, Page(k)') /\ \A x \in Tokens :
              HitsOf(x, k)' = {<<k, Count(words, x)>>} \ {<<k, 0>>}
        BY <1>7, <1>8, <1>9, <3>1
      <4> QED BY <4>1 DEF Indexed
    <3>2. CASE k # n
      <4>1. Indexed(k) => Indexed(k)'
        BY <1>8, <1>9, <3>2 DEF Indexed
      <4>2. ASSUME NEW v \in ArticleThreads, call[v].at = "index", call[v].next = k
            PROVE  call'[v].at = "index" /\ call'[v].next = k
        BY <1>1, <1>2, <3>2, <4>2
      <4>3. k \in DOMAIN articles
        BY <1>3
      <4> QED BY <4>1, <4>2, <4>3 DEF TableInv, IndexInv
    <3> QED BY <3>1, <3>2
  <2>2. articles' = articles
    BY <1>3
  <2> QED BY <1>9, <2>1, <2>2 DEF IndexInv
<1>15. SeenInv'
  <2>1. \A v \in ArticleThreads : call[v].at \in {"limit", "fetch", "append"} =>
          call'[v].at \in {"limit", "fetch", "append"} /\ aslot'[v] = aslot[v]
    BY <1>1, <1>3
  <2>2. ASSUME NEW u \in ArticleTasks,
               \/ astatus'[u] = "finished"
               \/ \E v \in ArticleThreads : aslot'[v] = u /\ call'[v].at # "seen"
        PROVE  /\ astatus[u] # "new"
               /\ \/ astatus[u] = "finished"
                  \/ \E v \in ArticleThreads : aslot[v] = u /\ call[v].at # "seen"
    BY <1>1, <1>3, <2>2 DEF PoolInv
  <2>3. articles' = articles /\ seenURLs' = seenURLs
    BY <1>3
  <2> QED BY <2>1, <2>2, <2>3, SeenKept DEF TableInv
<1> QED BY <1>13, <1>14, <1>15 DEF TableInv

LEMMA InitData == Init => DataInv
<1> SUFFICES ASSUME Init PROVE DataInv
  OBVIOUS
<1> USE DEF Init, FP!Init, AP!Init, Threads, Idle, At
<1>1. FeedsInv
  BY DEF FeedsInv
<1>2. ItemsInv
  <2>1. FromSite(<<>>)
    BY DEF FromSite
  <2>2. \A f \in FeedTasks : ~Read(f)
    BY DEF Read
  <2>3. \A w \in FeedThreads : call[w].at # "items"
    OBVIOUS
  <2> QED BY <2>1, <2>2, <2>3 DEF ItemsInv
<1>3. ArticlesInv
  <2>1. IsList(articles)
    <3>1. articles \in Seq({})
      OBVIOUS
    <3> QED BY <3>1 DEF IsList
  <2> QED BY <2>1 DEF ArticlesInv
<1>4. IndexInv
  BY FS_EmptySet DEF IndexInv
<1>5. SeenInv
  <2>1. \A t \in ArticleTasks : astatus[t] # "finished" /\ \A w \in ArticleThreads : aslot[w] # t
    OBVIOUS
  <2> QED BY <2>1 DEF SeenInv
<1> QED BY <1>1, <1>2, <1>3, <1>4, <1>5 DEF DataInv

LEMMA DataStep ==
  ASSUME AInv, DataInv, [Next]_vars
  PROVE  DataInv'
<1>1. TasksInv /\ TasksInv' /\ ClaimInv /\ FeedsInv /\ ItemsInv /\ TableInv
  BY NextInv DEF AInv, DataInv, TableInv
<1>2. FeedsInv' /\ ItemsInv'
  BY <1>1, FeedsStep, ItemsStep
<1>3. ASSUME MainMoves \/ \E w \in FeedThreads : FeedStep(w)
      PROVE  TableInv'
  BY <1>1, <1>3, TableOthers
<1>4. ASSUME NEW w \in ArticleThreads, ArticleStep(w)
      PROVE  TableInv'
  <2>1. CASE TaskAppend(w)
    BY <1>1, <2>1, TableAppend
  <2>2. CASE TaskIndex(w)
    BY <1>1, <2>2, TableIndex
  <2>3. CASE \/ \E t \in ArticleTasks : TaskStart(w, t)
             \/ TaskSeen(w) \/ TaskLimit(w) \/ TaskFetch(w) \/ TaskReturn(w)
    BY <1>1, <2>3, TableTasks
  <2> QED BY <1>4, <2>1, <2>2, <2>3 DEF ArticleStep
<1>5. TableInv'
  BY <1>3, <1>4, Cases DEF FeedStep, ArticleStep
<1> QED BY <1>2, <1>5 DEF DataInv, TableInv

LEMMA AlwaysData == Spec => [](AInv /\ DataInv)
BY InitInv, InitData, NextInv, DataStep, PTL DEF Spec

-------------------------------------------------------------------------------
(* What queries find                                                       *)

\* Once main has waited, every feed in the list and every item it gave is over.
LEMMA AllDone ==
  ASSUME AInv, DataInv, mpc = "queries"
  PROVE  /\ \A f \in DOMAIN feeds : f \in FeedTasks /\ fstatus[f] = "finished"
         /\ \A f \in DOMAIN feeds : \A i \in DOMAIN items[f] :
              <<f, i>> \in ArticleTasks /\ astatus[<<f, i>>] = "finished"
         /\ \A w \in ArticleThreads : call[w].at = "idle"
<1>1. FP!Quiet /\ AP!Quiet
  BY DEF AInv, QuietInv
<1>2. PoolInv /\ FeedsInv /\ ItemsInv
  BY DEF AInv, TasksInv, DataInv
<1>3. ASSUME NEW f \in DOMAIN feeds
      PROVE  f \in FeedTasks /\ fstatus[f] = "finished"
  <2>1. f \in FeedTasks /\ fstatus[f] # "new"
    BY <1>2 DEF FeedsInv
  <2>2. fstatus[f] \notin {"pending", "running"} /\ fstatus[f] \in FP!Status
    BY <1>1, <1>2, <2>1 DEF FP!Quiet, PoolInv
  <2> QED BY <2>1, <2>2 DEF FP!Status
<1>4. ASSUME NEW f \in DOMAIN feeds, NEW i \in DOMAIN items[f]
      PROVE  <<f, i>> \in ArticleTasks /\ astatus[<<f, i>>] = "finished"
  <2>1. <<f, i>> \in ArticleTasks
    BY <1>2, <1>3, <1>4, ListIs DEF ItemsInv, ArticleTasks
  <2>2. astatus[<<f, i>>] # "new"
    BY <1>2, <1>3, <1>4 DEF ItemsInv
  <2>3. astatus[<<f, i>>] \notin {"pending", "running"} /\ astatus[<<f, i>>] \in AP!Status
    BY <1>1, <1>2, <2>1 DEF AP!Quiet, PoolInv
  <2> QED BY <2>1, <2>2, <2>3 DEF AP!Status
<1>5. ASSUME NEW w \in ArticleThreads
      PROVE  call[w].at = "idle"
  BY <1>1, <1>2 DEF AP!Quiet, PoolInv
<1> QED BY <1>3, <1>4, <1>5

\* The hits of an article then, each with the count of its word.
LEMMA CountsAre ==
  ASSUME AInv, DataInv, mpc = "queries", NEW i \in DOMAIN articles
  PROVE  \E words :
           /\ GoodWords(words, Page(i))
           /\ \A w \in Tokens : HitsOf(w, i) = {<<i, Count(words, w)>>} \ {<<i, 0>>}
<1>1. \A v \in ArticleThreads : call[v].at # "index"
  BY AllDone
<1> QED BY <1>1 DEF DataInv, IndexInv, Indexed

LEMMA Exact ==
  ASSUME AInv, DataInv, mpc = "queries"
  PROVE  IndexIsExact
<1>0. FeedsInv /\ ItemsInv /\ ArticlesInv /\ IndexInv /\ SeenInv /\ ClaimInv
  BY DEF AInv, DataInv
<1>1. ASSUME NEW f \in DOMAIN feeds, NEW u, u = parseHttpURL(feeds[f].link), Steady(u),
             NEW p \in Site[u].meant, Steady(p), Site[p].shows # <<>>
      PROVE  \E i \in DOMAIN articles : Page(i) = p
  <2>1. f \in FeedTasks /\ fstatus[f] = "finished"
    BY AllDone
  <2>2. Meant(items[f]) = Site[u].meant
    BY <1>0, <1>1, <2>1 DEF ItemsInv, Read
  <2>3. PICK j \in DOMAIN items[f] : p = parseHttpURL(items[f][j].link)
    BY <2>2 DEF Meant
  <2>4. PICK t : t = <<f, j>>
    OBVIOUS
  <2>5. t \in ArticleTasks /\ astatus[t] = "finished"
    BY <2>4, AllDone
  <2>6. p = parseHttpURL(LinkTo(t))
    BY <2>3, <2>4 DEF LinkTo, ItemOfTask
  <2>7. LinkTo(t) \in seenURLs
    BY <1>0, <2>5 DEF SeenInv
  <2>8. \A w \in ArticleThreads : call[w].at \notin {"limit", "fetch", "append"}
    BY AllDone
  <2>9. Dealt(LinkTo(t))
    BY <1>0, <2>7, <2>8 DEF SeenInv
  <2>10. PICK k \in DOMAIN articles : articles[k].url = LinkTo(t)
    BY <1>1, <2>6, <2>9 DEF Dealt
  <2> QED BY <2>6, <2>10 DEF Page
<1>2. ASSUME NEW i \in DOMAIN articles
      PROVE  \E u \in DOMAIN Site : Page(i) \in Site[u].meant
  <2>1. PICK t \in fetched : articles[i].url = LinkTo(t)
    BY <1>0 DEF ArticlesInv
  <2>2. t \in ArticleTasks /\ astatus[t] # "new"
    BY <1>0, FetchedAre
  <2>3. t[1] \in FeedTasks /\ t[2] \in DOMAIN items[t[1]] /\ FromSite(items[t[1]])
    BY <1>0, <2>2 DEF ItemsInv, ArticleTasks
  <2>4. \E u \in DOMAIN Site : parseHttpURL(items[t[1]][t[2]].link) \in Site[u].meant
    BY <2>3, ListIs
  <2> QED BY <2>1, <2>4 DEF Page, LinkTo, ItemOfTask
<1>3. \A i, j \in DOMAIN articles : articles[i].url = articles[j].url => i = j
  BY <1>0 DEF ArticlesInv
<1>4. ASSUME NEW w \in Tokens, NEW i \in DOMAIN articles
      PROVE  LET counts == {h[2] : h \in {g \in invertedIndex[w] : g[1] = i}}
             IN  IF Steady(Page(i))
                 THEN counts = {Shows(Page(i), w)} \ {0}
                 ELSE \A n \in counts : n =< Shows(Page(i), w)
  <2>1. PICK words :
          /\ GoodWords(words, Page(i))
          /\ \A x \in Tokens : HitsOf(x, i) = {<<i, Count(words, x)>>} \ {<<i, 0>>}
    BY CountsAre
  <2>2. PICK c : c = Count(words, w)
    OBVIOUS
  <2>3. c \in 0 .. Shows(Page(i), w) /\ (Steady(Page(i)) => c = Shows(Page(i), w))
    BY <2>1, <2>2 DEF GoodWords
  <2>4. PICK hits : hits = {g \in invertedIndex[w] : g[1] = i}
    OBVIOUS
  <2>5. hits = {<<i, c>>} \ {<<i, 0>>}
    BY <2>1, <2>2, <2>4 DEF HitsOf
  <2>6. {h[2] : h \in hits} = {c} \ {0}
    <3>1. CASE c = 0
      BY <2>5, <3>1
    <3>2. CASE c # 0
      <4>1. <<i, c>> # <<i, 0>> /\ <<i, c>>[2] = c
        BY <3>2
      <4>2. hits = {<<i, c>>}
        BY <2>5, <4>1
      <4> QED BY <3>2, <4>1, <4>2
    <3> QED BY <3>1, <3>2
  <2>7. \A n \in {h[2] : h \in hits} : n =< Shows(Page(i), w)
    BY <2>3, <2>6
  <2> QED BY <2>3, <2>4, <2>6, <2>7
<1> QED BY <1>1, <1>2, <1>3, <1>4 DEF IndexIsExact

\* However the threads of the two pools interleave, and whichever downloads fail or are cut
\* short: when main comes to its queries, every article that could be downloaded is in
\* the table, nothing is there twice, and the index has the counts of its page under its
\* number (processFeed, processArticle and main in aggregate.cc, which read the number of
\* an article under one lock and enter its words under the next).
THEOREM IndexTheorem == Spec => []IndexIsExact
<1>1. AInv /\ DataInv => IndexIsExact
  BY Exact DEF IndexIsExact
<1> QED BY <1>1, AlwaysData, PTL

-------------------------------------------------------------------------------
(* The answers                                                             *)

\* A word that was typed as it stands is put into lower case.
LEMMA OneWord ==
  ASSUME NEW word, Len(word) = 1
  PROVE  normalize(word) = tolower(word[1])
<1> DEFINE Eqn(g) == g = [i \in 1 .. Len(word) |-> IF i = 1 THEN word[i] ELSE g[i - 1] \o word[i]]
           flatten == CHOOSE g : Eqn(g)
           f == [i \in 1 .. Len(word) |-> word[1]]
<1>1. FlattenSeq(word) = flatten[Len(word)]
  BY DEF FlattenSeq
<1>2. \A i \in 1 .. Len(word) : i = 1
  OBVIOUS
<1>3. Eqn(f)
  BY <1>2
<1>4. Eqn(flatten)
  <2> HIDE DEF Eqn, f
  <2> QED BY <1>3
<1>5. flatten = [i \in 1 .. Len(word) |-> IF i = 1 THEN word[i] ELSE flatten[i - 1] \o word[i]]
  BY <1>4
<1> HIDE DEF flatten, Eqn, f
<1>6. flatten[1] = word[1]
  BY <1>2, <1>5
<1>7. FlattenSeq(word) = word[1]
  BY <1>1, <1>6
<1> QED BY <1>7 DEF normalize

\* The hits in any order are all of them.
LEMMA AllHits ==
  ASSUME NEW found, IsFiniteSet(found), NEW hits \in SetToSeqs(found)
  PROVE  /\ Cardinality(found) \in Nat /\ hits \in Seq(found) /\ Len(hits) = Cardinality(found)
         /\ \A h \in found : \E j \in 1 .. Len(hits) : hits[j] = h
<1>0. PICK n \in Nat : n = Cardinality(found)
  BY FS_CardinalityType
<1>1. hits \in [1 .. n -> found] /\ \A i, j \in 1 .. n : i # j => hits[i] # hits[j]
  BY <1>0 DEF SetToSeqs
<1>2. hits \in Injection(1 .. n, found)
  BY <1>1 DEF Injection, IsInjective
<1>3. IsFiniteSet(1 .. n) /\ Cardinality(1 .. n) = n
  BY FS_Interval
<1>4. hits \in Surjection(1 .. n, found)
  BY <1>0, <1>2, <1>3, FS_Injection
<1>5. \A h \in found : \E j \in 1 .. n : hits[j] = h
  BY <1>4 DEF Surjection
<1>6. hits \in Seq(found) /\ Len(hits) = n
  BY <1>1
<1> QED BY <1>0, <1>5, <1>6

LEMMA Lesser ==
  ASSUME NEW m \in Nat, NEW n \in Nat
  PROVE  Min({m, n}) \in Nat /\ Min({m, n}) \in {m, n} /\ Min({m, n}) =< m /\ Min({m, n}) =< n
<1>1. \E x \in {m, n} : \A y \in {m, n} : x =< y
  <2>1. CASE m =< n
    BY <2>1
  <2>2. CASE ~(m =< n)
    BY <2>2
  <2> QED BY <2>1, <2>2
<1>2. Min({m, n}) \in {m, n} /\ \A y \in {m, n} : Min({m, n}) =< y
  BY <1>1 DEF Min
<1> QED BY <1>2

\* Every hit is of an article, and counts its word in the page.
LEMMA HitsAre ==
  ASSUME AInv, DataInv, mpc = "queries", NEW w \in Tokens
  PROVE  /\ \A h \in invertedIndex[w] :
              h[1] \in DOMAIN articles /\ h[2] \in Nat /\ h[2] =< Shows(Page(h[1]), w)
         /\ \A i \in DOMAIN articles :
              Steady(Page(i)) /\ Shows(Page(i), w) > 0 =>
                /\ Shows(Page(i), w) \in Nat
                /\ <<i, Shows(Page(i), w)>> \in invertedIndex[w]
<1>1. ASSUME NEW i \in DOMAIN articles
      PROVE  \E c \in 0 .. Shows(Page(i), w) :
               /\ Steady(Page(i)) => c = Shows(Page(i), w)
               /\ HitsOf(w, i) = {<<i, c>>} \ {<<i, 0>>}
  <2>1. PICK words :
          /\ GoodWords(words, Page(i))
          /\ \A x \in Tokens : HitsOf(x, i) = {<<i, Count(words, x)>>} \ {<<i, 0>>}
    BY CountsAre
  <2> QED BY <2>1 DEF GoodWords
<1>2. ASSUME NEW h \in invertedIndex[w]
      PROVE  h[1] \in DOMAIN articles /\ h[2] \in Nat /\ h[2] =< Shows(Page(h[1]), w)
  <2>1. PICK i : i = h[1] /\ i \in DOMAIN articles
    BY DEF DataInv, IndexInv
  <2>2. PICK c \in 0 .. Shows(Page(i), w) : HitsOf(w, i) = {<<i, c>>} \ {<<i, 0>>}
    BY <1>1, <2>1
  <2>3. h \in HitsOf(w, i)
    BY <2>1 DEF HitsOf
  <2>4. h = <<i, c>>
    BY <2>2, <2>3
  <2>5. h[2] = c /\ c \in Nat /\ c =< Shows(Page(i), w)
    BY <2>4
  <2> QED BY <2>1, <2>5
<1>3. ASSUME NEW i \in DOMAIN articles, Steady(Page(i)), Shows(Page(i), w) > 0
      PROVE  Shows(Page(i), w) \in Nat /\ <<i, Shows(Page(i), w)>> \in invertedIndex[w]
  <2>1. PICK c \in 0 .. Shows(Page(i), w) :
          c = Shows(Page(i), w) /\ HitsOf(w, i) = {<<i, c>>} \ {<<i, 0>>}
    BY <1>1, <1>3
  <2>2. c \in Nat /\ c # 0
    BY <1>3, <2>1
  <2>3. <<i, c>> # <<i, 0>>
    BY <2>2
  <2>4. <<i, c>> \in HitsOf(w, i)
    BY <2>1, <2>3
  <2> QED BY <2>1, <2>2, <2>4 DEF HitsOf
<1> QED BY <1>2, <1>3

\* A word that a page shows is a token.
LEMMA ShownAreTokens ==
  ASSUME AInv, DataInv, mpc = "queries", NEW i \in DOMAIN articles, NEW w, Shows(Page(i), w) > 0
  PROVE  w \in Tokens
<1>1. Page(i) \in DOMAIN Site
  BY CountsAre DEF GoodWords
<1>2. w \in DOMAIN Site[Page(i)].shows
  BY DEF Shows
<1> QED BY <1>1, <1>2, SiteAssumption

LEMMA QueryRanks ==
  ASSUME AInv, DataInv, NEW word \in Typed, Query(word)
  PROVE  AnswersAreRanked' /\ mpc = "queries" /\ mpc' = mpc
<1>1. mpc = "queries" /\ mpc' = mpc /\ articles' = articles
  BY DEF Query
<1> SUFFICES ASSUME Len(answer'.word) = 1 PROVE AnswersAreRanked'
  BY <1>1 DEF AnswersAreRanked
<1>2. PICK q, found : q = normalize(word) /\ found = (IF q \in Tokens THEN invertedIndex[q] ELSE {})
  OBVIOUS
<1>3. PICK hits \in SetToSeqs(found) :
        /\ \A i, j \in DOMAIN hits : i < j => ~Before(hits[j], hits[i])
        /\ answer' = [word |-> word, found |-> Len(hits),
                      shown |-> SubSeq(hits, 1, Min({Len(hits), MaxShown}))]
  BY <1>2 DEF Query
<1>4. q = tolower(answer'.word[1])
  BY <1>2, <1>3, OneWord
<1>5. IsFiniteSet(found)
  BY <1>2, FS_EmptySet DEF DataInv, IndexInv
<1>6. \A h \in found : q \in Tokens /\ h \in invertedIndex[q]
  BY <1>2
<1>7. PICK n \in Nat : n = Len(hits) /\ hits \in Seq(found)
                       /\ \A h \in found : \E j \in 1 .. n : hits[j] = h
  BY <1>5, AllHits
<1>8. DOMAIN hits = 1 .. n /\ \A j \in 1 .. n : hits[j] \in found
  BY <1>7
<1>9. PICK m \in Nat : m = Min({n, MaxShown}) /\ m \in {n, MaxShown} /\ m =< n
  BY Lesser
<1>10. PICK shown : shown = SubSeq(hits, 1, m)
  OBVIOUS
<1>11. answer'.shown = shown /\ answer'.found = n
  BY <1>3, <1>7, <1>9, <1>10
<1>12. Len(shown) = m /\ DOMAIN shown = 1 .. m /\ \A j \in 1 .. m : shown[j] = hits[j]
  <2>1. shown = [j \in 1 .. m |-> hits[j]]
    <3>1. \A j \in 1 .. m : (1 + j) - 1 = j
      OBVIOUS
    <3>2. SubSeq(hits, 1, m) = [j \in 1 .. (1 + m) - 1 |-> hits[(1 + j) - 1]]
      BY <1>7, <1>9
    <3>3. (1 + m) - 1 = m
      OBVIOUS
    <3> QED BY <1>10, <3>1, <3>2, <3>3
  <2>2. \A j \in 1 .. m : hits[j] \in found
    BY <1>8, <1>9
  <2>3. shown \in [1 .. m -> found]
    BY <2>1, <2>2
  <2> QED BY <2>1, <2>3
<1>13. Range(shown) = {hits[j] : j \in 1 .. m}
  BY <1>12 DEF Range
<1>14. \A j \in 1 .. m : j \in 1 .. n
  BY <1>9
<1>15. \A h \in found : h[1] \in DOMAIN articles /\ h[2] \in Nat /\ h[2] =< Shows(Page(h[1]), q)
  BY <1>1, <1>6, HitsAre
<1>16. \A h \in Range(shown) : h \in found
  BY <1>8, <1>13, <1>14
<1>17. ASSUME NEW i \in DOMAIN articles, i \notin {h[1] : h \in Range(shown)},
              Steady(Page(i)), Shows(Page(i), q) > 0
       PROVE  Len(shown) = MaxShown /\ \A h \in Range(shown) : h[2] >= Shows(Page(i), q)
  <2>1. q \in Tokens
    BY <1>1, <1>17, ShownAreTokens
  <2>2. PICK c \in Nat : c = Shows(Page(i), q) /\ <<i, c>> \in found
    BY <1>1, <1>2, <1>17, <2>1, HitsAre
  <2>3. PICK j \in 1 .. n : hits[j] = <<i, c>>
    BY <1>7, <2>2
  <2>4. j \notin 1 .. m
    <3>1. j \in 1 .. m => <<i, c>> \in Range(shown)
      BY <1>13, <2>3
    <3>2. <<i, c>>[1] = i
      OBVIOUS
    <3> QED BY <1>17, <3>1, <3>2
  <2>5. j > m /\ m = MaxShown
    BY <1>9, <2>4
  <2>6. ASSUME NEW k \in 1 .. m
        PROVE  hits[k][2] >= c
    <3>1. k < j /\ k \in DOMAIN hits /\ j \in DOMAIN hits
      BY <1>8, <1>14, <2>5
    <3>2. ~Before(hits[j], hits[k])
      BY <1>3, <3>1
    <3>3. hits[j][2] = c /\ hits[k][2] \in Nat
      BY <1>8, <1>15, <2>3, <3>1
    <3>4. hits[k][2] # c => ~(c > hits[k][2])
      BY <3>2, <3>3 DEF Before
    <3> QED BY <3>3, <3>4
  <2> QED BY <1>12, <1>13, <2>2, <2>5, <2>6
<1>18. \A h \in Range(shown) : h[2] =< Shows(Page(h[1]), q)
  BY <1>15, <1>16
<1>19. n >= Len(shown)
  BY <1>9, <1>12
<1>20. \A k : Page(k)' = Page(k)
  BY <1>1 DEF Page
<1> QED BY <1>1, <1>4, <1>11, <1>17, <1>18, <1>19, <1>20 DEF AnswersAreRanked

\* The table does not change once there is an answer.
AnswerInv == (answer # None => mpc = "queries") /\ AnswersAreRanked

LEMMA AnswerStep ==
  ASSUME AInv, DataInv, AnswerInv, [Next]_vars
  PROVE  AnswerInv'
<1>1. ASSUME NEW word \in Typed, Query(word)
      PROVE  AnswerInv'
  BY <1>1, QueryRanks DEF AnswerInv
<1>2. CASE ~\E word \in Typed : Query(word)
  <2>1. answer' = answer
    BY <1>2, Cases DEF MainMoves, MainStep, MainList, MainSchedule, MainFeedWait, MainArticleWait,
         MainWaited, MainClose, Failed, FeedStart, FeedLimit, FeedFetch, FeedSchedule,
         FeedReturn, TaskStart, TaskSeen, TaskLimit, TaskFetch, TaskAppend, TaskIndex, TaskReturn
  <2>2. CASE answer = None
    BY <2>1, <2>2 DEF AnswerInv, AnswersAreRanked
  <2>3. CASE answer # None
    <3>1. mpc = "queries" /\ FP!Quiet /\ AP!Quiet
      BY <2>3 DEF AnswerInv, AInv, QuietInv
    <3>2. MainMoves
      BY <3>1, QuietIsIdle, Cases DEF AInv, TasksInv, FeedStep, ArticleStep
    <3>3. mpc' = mpc /\ articles' = articles
      BY <1>2, <3>1, <3>2 DEF MainMoves, MainStep, MainList, MainSchedule, MainFeedWait,
           MainArticleWait, MainWaited, MainClose, Failed
    <3>4. \A k : Page(k)' = Page(k)
      BY <3>3 DEF Page
    <3> QED BY <2>1, <3>1, <3>3, <3>4 DEF AnswerInv, AnswersAreRanked
  <2> QED BY <2>2, <2>3
<1> QED BY <1>1, <1>2

\* A word that is typed as it stands in an article finds it: what runQueries prints are
\* the articles that have it most often, and never more than the page shows (the sort of
\* runQueries in aggregate.cc, the index as the threads have left it, and normalize).
THEOREM RankingTheorem == Spec => []AnswersAreRanked
<1>1. Init => AnswerInv
  BY DEF Init, AnswerInv, AnswersAreRanked
<1>2. AnswerInv => AnswersAreRanked
  BY DEF AnswerInv
<1> QED BY <1>1, <1>2, AnswerStep, AlwaysData, PTL DEF Spec
===============================================================================
