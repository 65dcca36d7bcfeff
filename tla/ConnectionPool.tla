--------------------------- MODULE ConnectionPool ---------------------------
(***************************************************************************)
(* database/connectionpool.cpp as its threads use it through               *)
(* ConnectionGuard (database/connectionguard.h): the pool of MySQL         *)
(* connections, its mutex and its condition variable.                      *)
(*                                                                         *)
(* A section under the mutex that cannot block is one step, taken when the *)
(* mutex is free; only acquire() keeps the mutex over a blocking call,     *)
(* createConnection().  The order of the queue is left out: any free       *)
(* connection may be the next.                                             *)
(***************************************************************************)
EXTENDS FiniteSets, Naturals

CONSTANTS
    Threads,        \* threads that run handlers
    Connections,    \* the connections the database would open
    NoConnection,   \* nullptr
    NoThread,       \* the mutex is free
    PoolSize,       \* connections opened by the constructor, 100
    MaxSize         \* maxSize_, 200

ASSUME PoolAssumption ==
    /\ NoConnection \notin Connections
    /\ NoThread \notin Threads
    /\ PoolSize \in Nat /\ MaxSize \in Nat
    /\ PoolSize <= MaxSize
    /\ IsFiniteSet(Threads)

VARIABLES
    pool,           \* pool_
    currentSize,    \* currentSize_
    mutex,          \* the holder of poolMutex_ over a blocking call
    pc,             \* where a thread is in acquire() or release()
    conn            \* conn_ of the thread's ConnectionGuard

vars == <<pool, currentSize, mutex, pc, conn>>

\* "idle":      without a ConnectionGuard
\* "entering":  in acquire(), wants the mutex
\* "waiting":   asleep on poolCond_
\* "woken":     notified, wants the mutex
\* "expired":   woken by its deadline, wants the mutex
\* "creating":  inside createConnection(), holds the mutex
\* "using":     runs its statement
\* "returning": in release(), wants the mutex
\* "notifying": in release(), before notify_one()
PoolSteps == {"idle", "entering", "waiting", "woken", "expired", "creating",
              "using", "returning", "notifying"}

Goto(t, step) == pc' = [pc EXCEPT ![t] = step]

At(step) == {t \in Threads : pc[t] = step}

\* A guard whose acquire() gave nullptr throws and its thread goes on without.
Acquire(t) ==
    /\ pc[t] = "idle"
    /\ Goto(t, "entering")
    /\ UNCHANGED <<pool, currentSize, mutex, conn>>

\* Faulty variant: the connection stays in the queue while it is used.
TakeFreeWithoutPop(t) ==
    /\ pc[t] \in {"entering", "woken", "expired"}
    /\ mutex = NoThread
    /\ \E c \in pool : conn' = [conn EXCEPT ![t] = c]
    /\ Goto(t, "using")
    /\ UNCHANGED <<pool, currentSize, mutex>>

\* The predicate of wait_for holds, whatever woke the thread.
TakeFree(t) ==
    /\ pc[t] \in {"entering", "woken", "expired"}
    /\ mutex = NoThread
    /\ \E c \in pool : /\ pool' = pool \ {c}
                       /\ conn' = [conn EXCEPT ![t] = c]
    /\ Goto(t, "using")
    /\ UNCHANGED <<currentSize, mutex>>

\* The predicate does not hold: sleep, again if a notification came too late.
Wait(t) ==
    /\ pc[t] \in {"entering", "woken"}
    /\ mutex = NoThread
    /\ pool = {}
    /\ Goto(t, "waiting")
    /\ UNCHANGED <<pool, currentSize, mutex, conn>>

\* The deadline of wait_for passes.
TimesOut(t) ==
    /\ pc[t] = "waiting"
    /\ Goto(t, "expired")
    /\ UNCHANGED <<pool, currentSize, mutex, conn>>

\* The condition variable wakes a thread without a notification.
WakesSpuriously(t) ==
    /\ pc[t] = "waiting"
    /\ Goto(t, "woken")
    /\ UNCHANGED <<pool, currentSize, mutex, conn>>

\* Faulty variant: acquire() waits again instead of giving up.
WaitAgain(t) ==
    /\ pc[t] = "expired"
    /\ mutex = NoThread
    /\ pool = {}
    /\ currentSize >= MaxSize
    /\ Goto(t, "waiting")
    /\ UNCHANGED <<pool, currentSize, mutex, conn>>

GiveUp(t) ==
    /\ pc[t] = "expired"
    /\ mutex = NoThread
    /\ pool = {}
    /\ currentSize >= MaxSize
    /\ Goto(t, "idle")
    /\ UNCHANGED <<pool, currentSize, mutex, conn>>

\* Faulty variant: the size is compared with <=.
BeginCreatePastMax(t) ==
    /\ pc[t] = "expired"
    /\ mutex = NoThread
    /\ pool = {}
    /\ currentSize <= MaxSize
    /\ mutex' = t
    /\ Goto(t, "creating")
    /\ UNCHANGED <<pool, currentSize, conn>>

BeginCreate(t) ==
    /\ pc[t] = "expired"
    /\ mutex = NoThread
    /\ pool = {}
    /\ currentSize < MaxSize
    /\ mutex' = t
    /\ Goto(t, "creating")
    /\ UNCHANGED <<pool, currentSize, conn>>

Held == {conn[t] : t \in Threads} \ {NoConnection}

\* Faulty variant: a new connection is not counted.
CreateUncounted(t) ==
    /\ pc[t] = "creating"
    /\ \E c \in Connections \ (pool \cup Held) : conn' = [conn EXCEPT ![t] = c]
    /\ mutex' = NoThread
    /\ Goto(t, "using")
    /\ UNCHANGED <<pool, currentSize>>

CreateSucceeds(t) ==
    /\ pc[t] = "creating"
    /\ \E c \in Connections \ (pool \cup Held) : conn' = [conn EXCEPT ![t] = c]
    /\ currentSize' = currentSize + 1
    /\ mutex' = NoThread
    /\ Goto(t, "using")
    /\ UNCHANGED pool

\* Faulty variant: the mutex is not unlocked after a failure.
CreateFailsLocked(t) ==
    /\ pc[t] = "creating"
    /\ Goto(t, "idle")
    /\ UNCHANGED <<pool, currentSize, mutex, conn>>

CreateFails(t) ==
    /\ pc[t] = "creating"
    /\ mutex' = NoThread
    /\ Goto(t, "idle")
    /\ UNCHANGED <<pool, currentSize, conn>>

\* ~ConnectionGuard, also when the statement failed.
Release(t) ==
    /\ pc[t] = "using"
    /\ Goto(t, "returning")
    /\ UNCHANGED <<pool, currentSize, mutex, conn>>

\* Faulty variant: nobody is notified of the connection.
PushSilently(t) ==
    /\ pc[t] = "returning"
    /\ mutex = NoThread
    /\ pool' = pool \cup {conn[t]}
    /\ conn' = [conn EXCEPT ![t] = NoConnection]
    /\ Goto(t, "idle")
    /\ UNCHANGED <<currentSize, mutex>>

Push(t) ==
    /\ pc[t] = "returning"
    /\ mutex = NoThread
    /\ pool' = pool \cup {conn[t]}
    /\ conn' = [conn EXCEPT ![t] = NoConnection]
    /\ Goto(t, "notifying")
    /\ UNCHANGED <<currentSize, mutex>>

\* poolCond_.notify_one(), after the mutex is unlocked.
NotifyOne(t) ==
    /\ pc[t] = "notifying"
    /\ \/ /\ At("waiting") = {}
          /\ Goto(t, "idle")
       \/ \E w \in At("waiting") :
              pc' = [pc EXCEPT ![t] = "idle", ![w] = "woken"]
    /\ UNCHANGED <<pool, currentSize, mutex, conn>>

-----------------------------------------------------------------------------
\* The constructor opens PoolSize connections; each attempt may fail.
Init ==
    /\ pool \in SUBSET Connections
    /\ IsFiniteSet(pool) /\ Cardinality(pool) <= PoolSize
    /\ currentSize = Cardinality(pool)
    /\ mutex = NoThread
    /\ pc = [t \in Threads |-> "idle"]
    /\ conn = [t \in Threads |-> NoConnection]

Next == \E t \in Threads :
    \/ Acquire(t) \/ TakeFree(t) \/ Wait(t) \/ TimesOut(t) \/ WakesSpuriously(t)
    \/ GiveUp(t) \/ BeginCreate(t) \/ CreateSucceeds(t) \/ CreateFails(t)
    \/ Release(t) \/ Push(t) \/ NotifyOne(t)

Spec == Init /\ [][Next]_vars

-----------------------------------------------------------------------------
\* Every variable has its type; a thread has a connection exactly while it uses
\* it or gives it back, and the mutex is held exactly over createConnection().
TypeOK ==
    /\ pool \subseteq Connections
    /\ currentSize \in 0..MaxSize
    /\ mutex \in Threads \cup {NoThread}
    /\ pc \in [Threads -> PoolSteps]
    /\ conn \in [Threads -> Connections \cup {NoConnection}]
    /\ \A t \in Threads : conn[t] # NoConnection <=> pc[t] \in {"using", "returning"}
    /\ \A t \in Threads : pc[t] = "creating" <=> mutex = t

\* No two threads use one connection, no connection in use is in the queue,
\* and currentSize_ counts exactly the connections there are: none is lost when
\* a wait times out, a creation fails or a guard is destroyed
\* (connectionpool.cpp:43-71, connectionguard.h:18-22).
Accounted ==
    /\ \A t \in Threads : conn[t] # NoConnection =>
           /\ conn[t] \notin pool
           /\ \A u \in Threads \ {t} : conn[u] # conn[t]
    /\ currentSize = Cardinality(pool \cup Held)

\* No wake-up is lost: while threads sleep, for every free connection a thread
\* is awake to take it or about to notify one (a notified thread may find its
\* connection taken by one that never slept).
NoLostWakeup ==
    At("waiting") # {} =>
        Cardinality(pool) <= Cardinality({t \in Threads :
            pc[t] \in {"woken", "expired", "notifying"}})

\* The pool of connections is a pool of resources.
Abstract == INSTANCE ResourcePool WITH
    Users <- Threads, Resources <- Connections, NoResource <- NoConnection,
    free <- pool, inUse <- conn

ImplementsResourcePool == Abstract!Spec
=============================================================================
