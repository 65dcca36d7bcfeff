------------------------ MODULE ConnectionPoolProofs ------------------------
(***************************************************************************)
(* The pool accounts for every connection, loses no wake-up and implements *)
(* ResourcePool, for any number of threads and connections and any sizes.  *)
(* All of this holds in the running process too, which is a pool whose     *)
(* threads come one by one, and whose main function outlives them all.     *)
(***************************************************************************)
EXTENDS Process, FiniteSetTheorems, TLAPS

\* All connections there are, in the queue or with a thread.
Open == pool \cup Held

\* The inductive invariant: a thread that is opening a connection has room for
\* it, because nobody else can open one before it gives up the mutex.
PoolInv ==
    /\ TypeOK
    /\ \A t \in Threads : conn[t] # NoConnection =>
           /\ conn[t] \notin pool
           /\ \A u \in Threads \ {t} : conn[u] # conn[t]
    /\ IsFiniteSet(Open)
    /\ currentSize = Cardinality(Open)
    /\ \A t \in Threads : pc[t] = "creating" => currentSize < MaxSize

USE PoolAssumption

-----------------------------------------------------------------------------
\* The initial pool holds what the constructor opened.
LEMMA PoolInit ==
    ASSUME Init
    PROVE  PoolInv
<1>1. Held = {}
  BY DEF Init, Held
<1>2. Open = pool
  BY <1>1 DEF Open
<1>3. Cardinality(pool) \in Nat
  BY FS_CardinalityType DEF Init
<1> QED BY <1>2, <1>3 DEF Init, PoolInv, TypeOK, PoolSteps

\* Taking a connection moves it from the queue to the thread.
LEMMA TakeKeeps ==
    ASSUME PoolInv, NEW t \in Threads, TakeFree(t)
    PROVE  PoolInv' /\ Open' = Open
<1>1. PICK c \in pool : /\ pool' = pool \ {c}
                        /\ conn' = [conn EXCEPT ![t] = c]
  BY DEF TakeFree
<1>2. conn[t] = NoConnection
  BY DEF PoolInv, TypeOK, TakeFree
<1>3. Held' = Held \cup {c}
  BY <1>1, <1>2 DEF PoolInv, TypeOK, Held
<1>4. Open' = Open
  BY <1>1, <1>3 DEF Open
<1>5. TypeOK'
  BY <1>1, <1>2 DEF PoolInv, TypeOK, TakeFree, Goto, PoolSteps
<1>6. ASSUME NEW u \in Threads, conn'[u] # NoConnection
      PROVE  /\ conn'[u] \notin pool'
             /\ \A v \in Threads \ {u} : conn'[v] # conn'[u]
  BY <1>1, <1>6 DEF PoolInv, TypeOK
<1>7. \A u \in Threads : pc'[u] = "creating" => currentSize' < MaxSize
  BY DEF PoolInv, TypeOK, TakeFree, Goto
<1>8. UNCHANGED currentSize
  BY DEF TakeFree
<1> QED BY <1>4, <1>5, <1>6, <1>7, <1>8 DEF PoolInv

\* Giving a connection back moves it from the thread to the queue.
LEMMA PushKeeps ==
    ASSUME PoolInv, NEW t \in Threads, Push(t)
    PROVE  PoolInv' /\ Open' = Open
<1>1. /\ conn[t] \in Connections /\ conn[t] # NoConnection
      /\ pool' = pool \cup {conn[t]}
      /\ conn' = [conn EXCEPT ![t] = NoConnection]
      /\ UNCHANGED currentSize
  BY DEF PoolInv, TypeOK, Push
<1>2. Held' = Held \ {conn[t]}
  BY <1>1 DEF PoolInv, TypeOK, Held
<1>3. Open' = Open
  BY <1>1, <1>2 DEF Open, Held
<1>4. TypeOK'
  BY <1>1 DEF PoolInv, TypeOK, Push, Goto, PoolSteps
<1>5. ASSUME NEW u \in Threads, conn'[u] # NoConnection
      PROVE  /\ conn'[u] \notin pool'
             /\ \A v \in Threads \ {u} : conn'[v] # conn'[u]
  BY <1>1, <1>5 DEF PoolInv, TypeOK
<1>6. \A u \in Threads : pc'[u] = "creating" => currentSize' < MaxSize
  BY DEF PoolInv, TypeOK, Push, Goto
<1> QED BY <1>1, <1>3, <1>4, <1>5, <1>6 DEF PoolInv

\* A new connection is counted while the mutex is still held.
LEMMA CreateKeeps ==
    ASSUME PoolInv, NEW t \in Threads, CreateSucceeds(t)
    PROVE  PoolInv'
<1>1. PICK c \in Connections \ Open : conn' = [conn EXCEPT ![t] = c]
  BY DEF CreateSucceeds, Open
<1>2. /\ conn[t] = NoConnection /\ mutex = t /\ currentSize < MaxSize
      /\ UNCHANGED pool /\ currentSize' = currentSize + 1
  BY DEF PoolInv, TypeOK, CreateSucceeds
<1>3. Held' = Held \cup {c}
  BY <1>1, <1>2 DEF PoolInv, TypeOK, Held
<1>4. Open' = Open \cup {c} /\ c \notin Open
  BY <1>1, <1>2, <1>3 DEF Open
<1>5. IsFiniteSet(Open') /\ currentSize' = Cardinality(Open')
  BY <1>2, <1>4, FS_AddElement DEF PoolInv
<1>6. TypeOK'
  BY <1>1, <1>2 DEF PoolInv, TypeOK, CreateSucceeds, Goto, PoolSteps
<1>7. ASSUME NEW u \in Threads, conn'[u] # NoConnection
      PROVE  /\ conn'[u] \notin pool'
             /\ \A v \in Threads \ {u} : conn'[v] # conn'[u]
  <2>1. \A v \in Threads : conn[v] # NoConnection => conn[v] \in Open
    BY DEF Open, Held
  <2> QED BY <1>1, <1>2, <1>4, <1>7, <2>1 DEF PoolInv, TypeOK, Open
<1>8. \A u \in Threads : pc'[u] # "creating"
  BY <1>2 DEF PoolInv, TypeOK, CreateSucceeds, Goto
<1> QED BY <1>5, <1>6, <1>7, <1>8 DEF PoolInv

\* The other steps move no connection.
LEMMA RestKeeps ==
    ASSUME PoolInv, NEW t \in Threads,
           \/ Acquire(t) \/ Wait(t) \/ TimesOut(t) \/ WakesSpuriously(t)
           \/ GiveUp(t) \/ BeginCreate(t) \/ CreateFails(t) \/ Release(t)
           \/ NotifyOne(t)
    PROVE  PoolInv' /\ UNCHANGED <<pool, conn>>
<1>1. UNCHANGED <<pool, conn, currentSize>>
  BY DEF Acquire, Wait, TimesOut, WakesSpuriously, GiveUp, BeginCreate, CreateFails,
         Release, NotifyOne
<1>2. TypeOK'
  BY <1>1
  DEF PoolInv, TypeOK, PoolSteps, Goto, At, Acquire, Wait, TimesOut, WakesSpuriously,
      GiveUp, BeginCreate, CreateFails, Release, NotifyOne
<1>3. \A u \in Threads : pc'[u] = "creating" => currentSize' < MaxSize
  BY <1>1
  DEF PoolInv, TypeOK, Goto, At, Acquire, Wait, TimesOut, WakesSpuriously, GiveUp,
      BeginCreate, CreateFails, Release, NotifyOne
<1>4. Open' = Open
  BY <1>1 DEF Open, Held
<1> QED BY <1>1, <1>2, <1>3, <1>4 DEF PoolInv

\* Every step keeps the invariant.
LEMMA PoolStep ==
    ASSUME PoolInv, [Next]_vars
    PROVE  PoolInv'
<1>1. CASE UNCHANGED vars
  <2>1. Open' = Open
    BY <1>1 DEF vars, Open, Held
  <2> QED BY <1>1, <2>1 DEF vars, PoolInv, TypeOK
<1>2. ASSUME NEW t \in Threads, TakeFree(t)
      PROVE  PoolInv'
  BY <1>2, TakeKeeps
<1>3. ASSUME NEW t \in Threads, Push(t)
      PROVE  PoolInv'
  BY <1>3, PushKeeps
<1>4. ASSUME NEW t \in Threads, CreateSucceeds(t)
      PROVE  PoolInv'
  BY <1>4, CreateKeeps
<1>5. ASSUME NEW t \in Threads,
             \/ Acquire(t) \/ Wait(t) \/ TimesOut(t) \/ WakesSpuriously(t)
             \/ GiveUp(t) \/ BeginCreate(t) \/ CreateFails(t) \/ Release(t)
             \/ NotifyOne(t)
      PROVE  PoolInv'
  BY <1>5, RestKeeps
<1> QED BY <1>1, <1>2, <1>3, <1>4, <1>5 DEF Next

\* No two threads share a connection and none is lost or uncounted (Accounted);
\* every variable keeps its type, with at most maxSize_ connections (TypeOK).
THEOREM PoolAccounts == Spec => [](TypeOK /\ Accounted)
<1>1. Init => PoolInv
  BY PoolInit
<1>2. PoolInv /\ [Next]_vars => PoolInv'
  BY PoolStep
<1>3. PoolInv => TypeOK /\ Accounted
  BY DEF PoolInv, Accounted, Open
<1> QED BY <1>1, <1>2, <1>3, PTL DEF Spec

-----------------------------------------------------------------------------
\* The threads that will look at the queue, or make another do so.
Alert == {t \in Threads : pc[t] \in {"woken", "expired", "notifying"}}

\* The sizes of the queue and of the alert threads are natural numbers.
LEMMA Sizes ==
    ASSUME PoolInv
    PROVE  /\ IsFiniteSet(pool) /\ Cardinality(pool) \in Nat
           /\ IsFiniteSet(Alert) /\ Cardinality(Alert) \in Nat
<1>1. IsFiniteSet(pool)
  BY FS_Subset DEF PoolInv, Open
<1>2. IsFiniteSet(Alert)
  BY FS_Subset DEF Alert
<1> QED BY <1>1, <1>2, FS_CardinalityType

\* A thread that takes a connection shortens the queue by one and is at most
\* one alert thread.
LEMMA TakeWakes ==
    ASSUME PoolInv, NoLostWakeup, NEW t \in Threads, TakeFree(t)
    PROVE  NoLostWakeup'
<1>1. PICK c \in pool : pool' = pool \ {c}
  BY DEF TakeFree
<1>2. Cardinality(pool') = Cardinality(pool) - 1
  BY <1>1, Sizes, FS_RemoveElement
<1>3. At("waiting")' = At("waiting") /\ Alert' = Alert \ {t}
  BY DEF TakeFree, At, Alert, Goto, PoolInv, TypeOK
<1>4. Cardinality(Alert') \in Nat /\ Cardinality(Alert') >= Cardinality(Alert) - 1
  <2>1. Cardinality(Alert \ {t}) = IF t \in Alert THEN Cardinality(Alert) - 1
                                                 ELSE Cardinality(Alert)
    BY Sizes, FS_RemoveElement
  <2>2. Cardinality(Alert \ {t}) \in Nat
    BY Sizes, FS_RemoveElement, FS_CardinalityType
  <2> QED BY <1>3, <2>1, <2>2, Sizes
<1> QED BY <1>2, <1>3, <1>4, Sizes DEF NoLostWakeup, Alert

\* A thread that gives a connection back becomes alert itself.
LEMMA PushWakes ==
    ASSUME PoolInv, NoLostWakeup, NEW t \in Threads, Push(t)
    PROVE  NoLostWakeup'
<1>1. pool' = pool \cup {conn[t]} /\ conn[t] \notin pool
  BY DEF Push, PoolInv, TypeOK
<1>2. Cardinality(pool') = Cardinality(pool) + 1
  BY <1>1, Sizes, FS_AddElement
<1>3. At("waiting")' = At("waiting") /\ Alert' = Alert \cup {t} /\ t \notin Alert
  BY DEF Push, At, Alert, Goto, PoolInv, TypeOK
<1>4. Cardinality(Alert') = Cardinality(Alert) + 1
  BY <1>3, Sizes, FS_AddElement
<1> QED BY <1>2, <1>3, <1>4, Sizes DEF NoLostWakeup, Alert

\* A notification hands the alertness over to a thread that sleeps.
LEMMA NotifyWakes ==
    ASSUME PoolInv, NoLostWakeup, NEW t \in Threads, NotifyOne(t)
    PROVE  NoLostWakeup'
<1>1. UNCHANGED pool
  BY DEF NotifyOne
<1>2. CASE At("waiting") = {} /\ Goto(t, "idle")
  <2>1. At("waiting")' = {}
    BY <1>2 DEF At, Goto, PoolInv, TypeOK
  <2> QED BY <2>1 DEF NoLostWakeup
<1>3. ASSUME NEW w \in At("waiting"), pc' = [pc EXCEPT ![t] = "idle", ![w] = "woken"]
      PROVE  NoLostWakeup'
  <2>1. pc[t] = "notifying" /\ pc[w] = "waiting" /\ w \in Threads
    BY DEF NotifyOne, At
  <2>2. Alert' = (Alert \ {t}) \cup {w} /\ t \in Alert /\ w \notin Alert
    BY <1>3, <2>1 DEF Alert, PoolInv, TypeOK
  <2>3. /\ IsFiniteSet(Alert \ {t})
        /\ Cardinality(Alert \ {t}) = Cardinality(Alert) - 1
    BY <2>2, Sizes, FS_RemoveElement
  <2>4. Cardinality(Alert') = (Cardinality(Alert) - 1) + 1
    BY <2>2, <2>3, FS_AddElement
  <2>5. At("waiting") # {}
    BY <1>3
  <2> QED BY <1>1, <2>4, <2>5, Sizes DEF NoLostWakeup, Alert
<1> QED BY <1>2, <1>3 DEF NotifyOne

\* A thread that goes to sleep, gives up or opens a connection saw an empty
\* queue.
LEMMA EmptyQueueWakes ==
    ASSUME PoolInv', pool' = {}
    PROVE  NoLostWakeup'
<1>1. Cardinality(pool') = 0
  BY FS_EmptySet
<1>2. IsFiniteSet(Alert') /\ Cardinality(Alert') \in Nat
  BY FS_Subset, FS_CardinalityType DEF Alert
<1> QED BY <1>1, <1>2 DEF NoLostWakeup, Alert

\* The other steps neither fill the queue nor make a thread less alert.
LEMMA RestWakes ==
    ASSUME PoolInv, NoLostWakeup, NEW t \in Threads,
           \/ Acquire(t) \/ TimesOut(t) \/ WakesSpuriously(t)
           \/ CreateSucceeds(t) \/ CreateFails(t) \/ Release(t)
    PROVE  NoLostWakeup'
<1>1. UNCHANGED pool /\ At("waiting")' \subseteq At("waiting")
  BY DEF At, Acquire, TimesOut, WakesSpuriously, CreateSucceeds, CreateFails,
         Release, Goto, PoolInv, TypeOK
<1>2. Alert' = Alert \/ (Alert' = Alert \cup {t} /\ t \notin Alert)
  BY DEF Alert, Acquire, TimesOut, WakesSpuriously, CreateSucceeds, CreateFails,
         Release, Goto, PoolInv, TypeOK
<1>3. Cardinality(Alert') \in Nat /\ Cardinality(Alert') >= Cardinality(Alert)
  <2>1. CASE Alert' = Alert
    BY <2>1, Sizes
  <2>2. CASE Alert' = Alert \cup {t} /\ t \notin Alert
    <3>1. Cardinality(Alert') = Cardinality(Alert) + 1
      BY <2>2, Sizes, FS_AddElement
    <3> QED BY <3>1, Sizes
  <2> QED BY <1>2, <2>1, <2>2
<1> QED BY <1>1, <1>3, Sizes DEF NoLostWakeup, Alert

\* No thread sleeps while a connection is free and nobody is about to take it
\* or to wake one (NoLostWakeup): the queue and notify_one() stay in step
\* although the notification comes after the mutex is unlocked.
THEOREM NoWakeupIsLost == Spec => []NoLostWakeup
<1>1. Init => PoolInv /\ NoLostWakeup
  BY PoolInit DEF Init, NoLostWakeup, At
<1>2. PoolInv /\ NoLostWakeup /\ [Next]_vars => PoolInv' /\ NoLostWakeup'
  <2> SUFFICES ASSUME PoolInv, NoLostWakeup, [Next]_vars
               PROVE  PoolInv' /\ NoLostWakeup'
    OBVIOUS
  <2>1. PoolInv'
    BY PoolStep
  <2>2. CASE UNCHANGED vars
    BY <2>1, <2>2 DEF vars, NoLostWakeup, At
  <2>3. ASSUME NEW t \in Threads, TakeFree(t) PROVE NoLostWakeup'
    BY <2>3, TakeWakes
  <2>4. ASSUME NEW t \in Threads, Push(t) PROVE NoLostWakeup'
    BY <2>4, PushWakes
  <2>5. ASSUME NEW t \in Threads, NotifyOne(t) PROVE NoLostWakeup'
    BY <2>5, NotifyWakes
  <2>6. ASSUME NEW t \in Threads, Wait(t) \/ GiveUp(t) \/ BeginCreate(t)
        PROVE  NoLostWakeup'
    BY <2>1, <2>6, EmptyQueueWakes DEF Wait, GiveUp, BeginCreate
  <2>7. ASSUME NEW t \in Threads,
               \/ Acquire(t) \/ TimesOut(t) \/ WakesSpuriously(t)
               \/ CreateSucceeds(t) \/ CreateFails(t) \/ Release(t)
        PROVE  NoLostWakeup'
    BY <2>7, RestWakes
  <2> QED BY <2>1, <2>2, <2>3, <2>4, <2>5, <2>6, <2>7 DEF Next
<1> QED BY <1>1, <1>2, PTL DEF Spec

-----------------------------------------------------------------------------
\* Cardinality is the same operator on both sides of the refinement.
LEMMA SameCardinality ==
    ASSUME NEW S
    PROVE  Abstract!Cardinality(S) = Cardinality(S)
  BY DEF Abstract!Cardinality, Cardinality

\* The pool of connections implements the pool of resources: taking, opening
\* and giving back are its operations, and waiting for a connection, with its
\* wake-ups, deadlines and failures, is invisible to it.
THEOREM PoolImplementsResourcePool == Spec => ImplementsResourcePool
<1> USE DEF Abstract!Owned, Abstract!Taken
<1>1. Init => Abstract!Init
  <2> SUFFICES ASSUME Init PROVE Abstract!Init
    OBVIOUS
  <2>1. Cardinality(pool) \in Nat
    BY FS_CardinalityType DEF Init
  <2> QED BY <2>1, SameCardinality, PoolAssumption DEF Init, Abstract!Init
<1>2. PoolInv /\ [Next]_vars => [Abstract!Next]_<<pool, conn>>
  <2> SUFFICES ASSUME PoolInv, [Next]_vars
               PROVE  [Abstract!Next]_<<pool, conn>>
    OBVIOUS
  <2>1. CASE UNCHANGED vars
    BY <2>1 DEF vars
  <2>2. ASSUME NEW t \in Threads, TakeFree(t)
        PROVE  Abstract!Take(t)
    BY <2>2 DEF TakeFree, Abstract!Take, PoolInv, TypeOK
  <2>3. ASSUME NEW t \in Threads, Push(t)
        PROVE  Abstract!Return(t)
    BY <2>3 DEF Push, Abstract!Return, PoolInv, TypeOK
  <2>4. ASSUME NEW t \in Threads, CreateSucceeds(t)
        PROVE  Abstract!Add(t)
    <3>1. conn[t] = NoConnection /\ currentSize < MaxSize
      BY <2>4 DEF CreateSucceeds, PoolInv, TypeOK
    <3>2. Abstract!Owned = Open
      BY DEF Open, Held
    <3> QED BY <2>4, <3>1, <3>2, SameCardinality DEF CreateSucceeds, Abstract!Add, PoolInv, Open, Held
  <2>5. ASSUME NEW t \in Threads,
               \/ Acquire(t) \/ Wait(t) \/ TimesOut(t) \/ WakesSpuriously(t)
               \/ GiveUp(t) \/ BeginCreate(t) \/ CreateFails(t) \/ Release(t)
               \/ NotifyOne(t)
        PROVE  UNCHANGED <<pool, conn>>
    BY <2>5, RestKeeps
  <2> QED BY <2>1, <2>2, <2>3, <2>4, <2>5 DEF Next, Abstract!Next
<1>3. Init => PoolInv
  BY PoolInit
<1>4. PoolInv /\ [Next]_vars => PoolInv'
  BY PoolStep
<1> QED BY <1>1, <1>2, <1>3, <1>4, PTL
    DEF Spec, ImplementsResourcePool, Abstract!Spec

-----------------------------------------------------------------------------
\* The types of the pool (connectionpool.cpp:43-71).
THEOREM PoolTypes == Spec => []TypeOK
<1> QED BY PoolAccounts, PTL

-----------------------------------------------------------------------------
(* The process.                                                            *)

\* A step of the process is a step of one thread in the pool, or leaves the pool
\* alone.
LEMMA ProcessStepsInPool ==
    ASSUME [ProcessNext]_processVars
    PROVE  [Next]_vars
<1>1. CASE UNCHANGED processVars
  BY <1>1 DEF processVars
<1>2. CASE MainStep
  BY <1>2 DEF MainStep, loadConfig, initializeLog, connect, initializeWorld, startMonitor,
     startServer, startThread, StartFails, StartThreadAborts, joinThreads, ThreadsEnd,
     stop, StopReturns
<1>3. CASE HandlerThrows \/ Monitor \/ do_accept
  BY <1>3 DEF HandlerThrows, Monitor, do_accept
<1>4. CASE \E t \in Threads : InPool(t)
  BY <1>4 DEF InPool, Runs, Next
<1> QED BY <1>1, <1>2, <1>3, <1>4 DEF ProcessNext

\* The pool of the process is the pool of ConnectionPool (main.cpp:26-64): what is
\* proved of it there holds in the process.
THEOREM ProcessHasThePool == ProcessSpec => Spec
<1>1. ProcessInit => Init
  BY DEF ProcessInit
<1>2. [ProcessNext]_processVars => [Next]_vars
  BY ProcessStepsInPool
<1> QED BY <1>1, <1>2, PTL DEF ProcessSpec, Spec

\* The steps of main keep the types.
LEMMA MainKeepsTypes ==
    ASSUME ProcessTypeOK, MainStep
    PROVE  ProcessTypeOK'
<1>0. Concurrency \subseteq Nat
  BY ProcessAssumption
<1> USE DEF ProcessTypeOK, vars
<1>1. CASE loadConfig
  BY <1>1 DEF loadConfig, loaded
<1>2. CASE initializeLog
  BY <1>2 DEF initializeLog
<1>3. CASE connect
  BY <1>3 DEF connect
<1>4. CASE initializeWorld
  BY <1>4 DEF initializeWorld
<1>5. CASE startMonitor
  BY <1>5 DEF startMonitor
<1>6. CASE startServer
  <2>1. threadCount' \in 0 .. 3
    BY <1>0, <1>6 DEF startServer
  <2> QED BY <1>6, <2>1 DEF startServer
<1>7. CASE startThread
  BY <1>7 DEF startThread
<1>8. CASE StartFails
  BY <1>8 DEF StartFails
<1>9. CASE StartThreadAborts
  BY <1>9 DEF StartThreadAborts
<1>10. CASE joinThreads
  BY <1>10 DEF joinThreads
<1>11. CASE ThreadsEnd
  BY <1>11 DEF ThreadsEnd
<1>12. CASE stop
  BY <1>12 DEF stop
<1>13. CASE StopReturns
  BY <1>13 DEF StopReturns
<1> QED BY <1>1, <1>2, <1>3, <1>4, <1>5, <1>6, <1>7, <1>8, <1>9, <1>10, <1>11, <1>12,
           <1>13 DEF MainStep

\* At most three io threads are counted (main.cpp:53-56), and the other variables
\* of main have their types.
THEOREM ProcessTypes == ProcessSpec => []ProcessTypeOK
<1>1. ASSUME ProcessInit
      PROVE  ProcessTypeOK
  <2>1. running \in BOOLEAN
    BY <1>1, Zenon DEF ProcessInit
  <2>2. threadCount \in 0 .. 3 /\ threads \subseteq Threads /\ DOMAIN config = Settings
    BY <1>1 DEF ProcessInit
  <2>3. /\ main = "config" /\ monitor = "none" /\ accept = "none"
        /\ exitStatus \in {Unset, 0, 1}
    BY <1>1 DEF ProcessInit
  <2> QED BY <2>1, <2>2, <2>3, Zenon DEF ProcessTypeOK
<1>2. ASSUME ProcessTypeOK, [ProcessNext]_processVars
      PROVE  ProcessTypeOK'
  <2>1. CASE UNCHANGED processVars
    BY <1>2, <2>1 DEF processVars, mainVars, ProcessTypeOK
  <2>2. CASE MainStep
    BY <1>2, <2>2, MainKeepsTypes
  <2>3. CASE HandlerThrows
    BY <1>2, <2>3 DEF HandlerThrows, ProcessTypeOK
  <2>4. CASE Monitor
    BY <1>2, <2>4 DEF Monitor, ProcessTypeOK
  <2>5. CASE do_accept
    BY <1>2, <2>5 DEF do_accept, ProcessTypeOK
  <2>6. CASE \E t \in Threads : InPool(t)
    BY <1>2, <2>6 DEF InPool, Runs, mainVars, ProcessTypeOK
  <2> QED BY <1>2, <2>1, <2>2, <2>3, <2>4, <2>5, <2>6 DEF ProcessNext
<1> QED BY <1>1, <1>2, PTL DEF ProcessSpec

\* Where main and its threads are, and who may be in the pool.
ProcessInv ==
    /\ threads \subseteq Threads
    /\ threads # {} => main \in {"threads", "joining", "aborted"}
    /\ main = "joining" => accept = "pending"
    /\ main = "threads" => accept = "pending"
    /\ main \in {"config", "logging", "database", "world", "monitor"} => monitor = "none"
    /\ main = "ended" => monitor \in {"none", "over"}
    /\ \A t \in Threads : pc[t] # "idle" => t \in threads

\* The steps of main keep the invariant.
LEMMA MainKeeps ==
    ASSUME ProcessInv, MainStep
    PROVE  ProcessInv'
<1> USE DEF ProcessInv, vars
<1>1. CASE loadConfig
  BY <1>1 DEF loadConfig
<1>2. CASE initializeLog
  BY <1>2 DEF initializeLog
<1>3. CASE connect
  BY <1>3 DEF connect
<1>4. CASE initializeWorld
  BY <1>4 DEF initializeWorld
<1>5. CASE startMonitor
  BY <1>5 DEF startMonitor
<1>6. CASE startServer
  BY <1>6 DEF startServer
<1>7. CASE startThread
  BY <1>7 DEF startThread
<1>8. CASE StartFails
  BY <1>8 DEF StartFails
<1>9. CASE StartThreadAborts
  BY <1>9 DEF StartThreadAborts
<1>10. CASE joinThreads
  BY <1>10 DEF joinThreads
<1>11. CASE ThreadsEnd
  BY <1>11 DEF ThreadsEnd
<1>12. CASE stop
  BY <1>12 DEF stop
<1>13. CASE StopReturns
  BY <1>13 DEF StopReturns
<1> QED BY <1>1, <1>2, <1>3, <1>4, <1>5, <1>6, <1>7, <1>8, <1>9, <1>10, <1>11, <1>12,
           <1>13 DEF MainStep

\* A thread enters the pool from a handler, and is woken only when it waits there.
LEMMA ThreadKeeps ==
    ASSUME TypeOK, ProcessInv, NEW t \in Threads, InPool(t)
    PROVE  ProcessInv'
<1>1. t \in threads /\ UNCHANGED mainVars
  BY DEF InPool, Runs
<1>2. pc' \in [Threads -> PoolSteps]
      /\ \A w \in Threads \ {t} : pc'[w] # pc[w] => pc[w] = "waiting"
  BY DEF InPool, Runs, TypeOK, PoolSteps, Goto, At, Acquire, TakeFree, Wait, TimesOut,
     WakesSpuriously, GiveUp, BeginCreate, CreateSucceeds, CreateFails, Release, Push, NotifyOne
<1> QED BY <1>1, <1>2 DEF ProcessInv, mainVars

\* The invariant is kept by every step.
LEMMA ProcessKeeps ==
    ASSUME TypeOK, ProcessInv, [ProcessNext]_processVars
    PROVE  ProcessInv'
<1>1. CASE UNCHANGED processVars
  BY <1>1 DEF processVars, mainVars, vars, ProcessInv
<1>2. CASE MainStep
  BY <1>2, MainKeeps
<1>3. CASE HandlerThrows
  BY <1>3 DEF HandlerThrows, ProcessInv, vars
<1>4. CASE Monitor
  BY <1>4 DEF Monitor, ProcessInv, vars, Alive
<1>5. CASE do_accept
  BY <1>5 DEF do_accept, ProcessInv, vars
<1>6. CASE \E t \in Threads : InPool(t)
  BY <1>6, ThreadKeeps
<1> QED BY <1>1, <1>2, <1>3, <1>4, <1>5, <1>6 DEF ProcessNext

\* When main returns, no other thread is left that could use its objects
\* (main.cpp:60-75, memorymonitor.cpp:29-37), for any number of threads.
THEOREM MainOutlivesThreads == ProcessSpec => []ObjectsOutliveThreads
<1>1. ProcessInit => ProcessInv
  BY DEF ProcessInit, Init, ProcessInv
<1>2. TypeOK /\ ProcessInv /\ [ProcessNext]_processVars => ProcessInv'
  BY ProcessKeeps
<1>3. ProcessInv => ObjectsOutliveThreads
  BY DEF ProcessInv, ObjectsOutliveThreads
<1> QED BY <1>1, <1>2, <1>3, ProcessHasThePool, PoolTypes, PTL DEF ProcessSpec

\* A server with threads serves on (server.cpp:13-27).
THEOREM ServerServesOn == ProcessSpec => []NeverStopsServing
<1>1. ProcessInit => ProcessInv
  BY DEF ProcessInit, Init, ProcessInv
<1>2. TypeOK /\ ProcessInv /\ [ProcessNext]_processVars => ProcessInv'
  BY ProcessKeeps
<1>3. ProcessInv => NeverStopsServing
  BY DEF ProcessInv, NeverStopsServing
<1> QED BY <1>1, <1>2, <1>3, ProcessHasThePool, PoolTypes, PTL DEF ProcessSpec
=============================================================================
