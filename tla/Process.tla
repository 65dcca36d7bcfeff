------------------------------- MODULE Process ------------------------------
(***************************************************************************)
(* main.cpp: the start of the server, its threads and its end, with what   *)
(* main creates: the settings of config.lua, the pool of database          *)
(* connections that the io threads share (ConnectionPool), the memory      *)
(* monitor's thread and the acceptor.  What the constructor of the pool    *)
(* will open is chosen beforehand, and no thread uses the pool before it   *)
(* has been started.                                                       *)
(***************************************************************************)
EXTENDS ConnectionPool, Integers

CONSTANTS
    ConfigFiles,    \* what config.lua may hold: functions from some settings to values
    NoFile,         \* config.lua cannot be run, or has no table config
    Unset,          \* the value of a field that nobody has assigned
    Concurrency     \* what hardware_concurrency() may return

Settings == {"log_level", "memory_threshold", "server_port", "mysql"}

ASSUME ProcessAssumption ==
    /\ Concurrency \subseteq Nat
    /\ \A file \in ConfigFiles \ {NoFile} :
          DOMAIN file \subseteq Settings /\ \A s \in DOMAIN file : file[s] # Unset

VARIABLES
    main,           \* where main() is
    config,         \* the fields of configManager
    logLevel,       \* of spdlog
    port,           \* the acceptor listens on
    running,        \* running_ of memoryMonitor
    monitor,        \* monitor_thread_
    threads,        \* the io threads
    threadCount,
    accept,         \* the acceptor's async_accept: "none" or "pending"
    exitStatus

mainVars == <<main, config, logLevel, port, running, monitor, threads, threadCount,
              accept, exitStatus>>
processVars == <<mainVars, vars>>

Alive == main \notin {"ended", "aborted"}

-----------------------------------------------------------------------------
(* The settings.                                                           *)

\* The table mysql stands for all its settings.  It is the only one without a
\* default: mysql_port_ is not initialised.
loaded(file) ==
    [s \in Settings |->
        IF s \in DOMAIN file THEN file[s]
        ELSE CASE s = "log_level" -> "info"
               [] s = "memory_threshold" -> 80
               [] s = "server_port" -> 7272
               [] s = "mysql" -> Unset]

loadConfig ==
    /\ main = "config"
    /\ \/ \E file \in ConfigFiles \ {NoFile} :
             config' = loaded(file) /\ main' = "logging" /\ UNCHANGED exitStatus
       \/ /\ NoFile \in ConfigFiles
          /\ main' = "ended" /\ exitStatus' = 1 /\ UNCHANGED config
    /\ UNCHANGED <<logLevel, port, running, monitor, threads, threadCount, accept, vars>>

initializeLog ==
    /\ main = "logging" /\ main' = "database"
    /\ logLevel' = IF config["log_level"] \in {"debug", "info", "warn", "error"}
                   THEN config["log_level"] ELSE "info"
    /\ UNCHANGED <<config, port, running, monitor, threads, threadCount, accept, exitStatus, vars>>

-----------------------------------------------------------------------------
(* Start and end of main.                                                  *)

\* connect() succeeds even when the pool is empty.
connect ==
    /\ main = "database" /\ main' = "world"
    /\ UNCHANGED <<config, logLevel, port, running, monitor, threads, threadCount, accept,
                   exitStatus, vars>>

initializeWorld ==
    /\ main = "world"
    /\ \/ main' = "monitor" /\ UNCHANGED exitStatus
       \/ main' = "ended" /\ exitStatus' = 1
    /\ UNCHANGED <<config, logLevel, port, running, monitor, threads, threadCount, accept, vars>>

\* When there is no thread to be had, running_ is set and main ends (stop).
startMonitor ==
    /\ main = "monitor"
    /\ running' = TRUE
    /\ \/ main' = "server" /\ monitor' = "running"
       \/ main' = "stop" /\ UNCHANGED monitor
    /\ UNCHANGED <<config, logLevel, port, threads, threadCount, accept, exitStatus, vars>>

\* The port is converted to a short and from that to an unsigned short.
ListeningPort(serverPort) == serverPort % 65536

\* Faulty variant: all the threads the hardware has.
startServerUncapped ==
    /\ main = "server" /\ main' = "threads"
    /\ port' = ListeningPort(config["server_port"]) /\ accept' = "pending"
    /\ threadCount' \in Concurrency
    /\ UNCHANGED <<config, logLevel, running, monitor, threads, exitStatus, vars>>

startServer ==
    /\ main = "server" /\ main' = "threads"
    /\ port' = ListeningPort(config["server_port"]) /\ accept' = "pending"
    /\ \E n \in Concurrency : threadCount' = IF n > 3 THEN 3 ELSE n
    /\ UNCHANGED <<config, logLevel, running, monitor, threads, exitStatus, vars>>

startThread ==
    /\ main = "threads" /\ Cardinality(threads) < threadCount
    /\ \E t \in Threads \ threads : threads' = threads \cup {t}
    /\ UNCHANGED <<main, config, logLevel, port, running, monitor, threadCount, accept,
                   exitStatus, vars>>

\* The port is in use, or there is no thread to be had: an exception, caught in
\* main after the objects are destroyed, the monitor (stop) among them.
StartFails ==
    /\ \/ main = "server"
       \/ main = "threads" /\ threads = {} /\ threadCount > 0
    /\ main' = "stop" /\ accept' = "none"
    /\ UNCHANGED <<config, logLevel, port, running, monitor, threads, threadCount, exitStatus, vars>>

\* A thread that was started cannot be destroyed: std::terminate.
StartThreadAborts ==
    /\ main = "threads" /\ threads # {} /\ Cardinality(threads) < threadCount
    /\ main' = "aborted" /\ monitor' = "over" /\ accept' = "none"
    /\ UNCHANGED <<config, logLevel, port, running, threads, threadCount, exitStatus, vars>>

\* An exception that a handler lets out ends the process as well.
HandlerThrows ==
    /\ Alive /\ threads # {}
    /\ main' = "aborted" /\ monitor' = "over" /\ accept' = "none"
    /\ UNCHANGED <<config, logLevel, port, running, threads, threadCount, exitStatus, vars>>

joinThreads ==
    /\ main = "threads" /\ Cardinality(threads) = threadCount
    /\ main' = "joining"
    /\ UNCHANGED <<config, logLevel, port, running, monitor, threads, threadCount, accept,
                   exitStatus, vars>>

\* io_context.run() returns in all threads when nothing is left to wait for.
ThreadsEnd ==
    /\ main = "joining"
    /\ accept = "pending" => threads = {}
    /\ main' = "stop"
    /\ UNCHANGED <<config, logLevel, port, running, monitor, threads, threadCount, accept,
                   exitStatus, vars>>

\* Faulty variant: stop() leaves running_ as it is.
stopOnlyJoins ==
    /\ main = "stop" /\ main' = "stopping"
    /\ UNCHANGED <<config, logLevel, port, running, monitor, threads, threadCount, accept,
                   exitStatus, vars>>

stop ==
    /\ main = "stop" /\ main' = "stopping"
    /\ running' = FALSE
    /\ UNCHANGED <<config, logLevel, port, monitor, threads, threadCount, accept, exitStatus, vars>>

\* Faulty variant: the thread is detached.
StopReturnsAtOnce ==
    /\ main = "stopping"
    /\ main' = "ended" /\ exitStatus' = 0 /\ accept' = "none"
    /\ UNCHANGED <<config, logLevel, port, running, monitor, threads, threadCount, vars>>

\* stop() has joined the monitor's thread, if there is one, and main returns 0 in any
\* case.
StopReturns ==
    /\ main = "stopping" /\ monitor \in {"none", "over"}
    /\ main' = "ended" /\ exitStatus' = 0 /\ accept' = "none"
    /\ UNCHANGED <<config, logLevel, port, running, monitor, threads, threadCount, vars>>

-----------------------------------------------------------------------------
(* The other threads.                                                      *)

\* The loop looks at running_, reports the memory in use and sleeps.
Monitor ==
    /\ Alive
    /\ monitor = "running" /\ ~running
    /\ monitor' = "over"
    /\ UNCHANGED <<main, config, logLevel, port, running, threads, threadCount, accept,
                   exitStatus, vars>>

\* Faulty variant: the acceptor stops after an error.
do_acceptUnlessError ==
    /\ Alive /\ threads # {} /\ accept = "pending"
    /\ accept' \in {"pending", "none"}
    /\ UNCHANGED <<main, config, logLevel, port, running, monitor, threads, threadCount,
                   exitStatus, vars>>

\* A client has come, for whom there is a session now, or there was an error.
do_accept ==
    /\ Alive /\ threads # {} /\ accept = "pending"
    /\ accept' = "pending"
    /\ UNCHANGED <<main, config, logLevel, port, running, monitor, threads, threadCount,
                   exitStatus, vars>>

\* An io thread goes on in the pool.
Runs(t, step) == Alive /\ t \in threads /\ step /\ UNCHANGED mainVars

InPool(t) ==
    \/ Runs(t, Acquire(t)) \/ Runs(t, TakeFree(t)) \/ Runs(t, Wait(t))
    \/ Runs(t, TimesOut(t)) \/ Runs(t, WakesSpuriously(t)) \/ Runs(t, GiveUp(t))
    \/ Runs(t, BeginCreate(t)) \/ Runs(t, CreateSucceeds(t)) \/ Runs(t, CreateFails(t))
    \/ Runs(t, Release(t)) \/ Runs(t, Push(t)) \/ Runs(t, NotifyOne(t))

ProcessInit ==
    /\ main = "config" /\ config = [s \in Settings |-> Unset]
    /\ logLevel = Unset /\ port = Unset
    /\ running = FALSE /\ monitor = "none"
    /\ threads = {} /\ threadCount = 0 /\ accept = "none" /\ exitStatus = Unset
    /\ Init

MainStep == \/ loadConfig \/ initializeLog \/ connect \/ initializeWorld \/ startMonitor
            \/ startServer \/ startThread \/ StartFails \/ StartThreadAborts \/ joinThreads
            \/ ThreadsEnd \/ stop \/ StopReturns

ProcessNext == \/ MainStep \/ HandlerThrows
               \/ Monitor \/ do_accept
               \/ \E t \in Threads : InPool(t)

\* The scheduler runs every thread.  A thread that wants the mutex gets it in the
\* end although others get it in between, and the deadline of a wait, which is not
\* moved by a wake-up, passes in the end: strong fairness for these.
ProcessFairness ==
    /\ WF_processVars(MainStep)
    /\ WF_processVars(Monitor)
    /\ \A t \in Threads :
        /\ SF_processVars(Runs(t, TakeFree(t) \/ Wait(t) \/ GiveUp(t) \/ BeginCreate(t)))
        /\ SF_processVars(Runs(t, TimesOut(t)))
        /\ SF_processVars(Runs(t, Push(t)))
        /\ WF_processVars(Runs(t, CreateSucceeds(t) \/ CreateFails(t)))
        /\ WF_processVars(Runs(t, Release(t)))
        /\ WF_processVars(Runs(t, NotifyOne(t)))

ProcessSpec == ProcessInit /\ [][ProcessNext]_processVars /\ ProcessFairness

-----------------------------------------------------------------------------
ProcessTypeOK ==
    /\ main \in {"config", "logging", "database", "world", "monitor", "server", "threads",
                 "joining", "stop", "stopping", "ended", "aborted"}
    /\ DOMAIN config = Settings
    /\ running \in BOOLEAN
    /\ monitor \in {"none", "running", "over"}
    /\ threads \subseteq Threads /\ threadCount \in 0 .. 3
    /\ accept \in {"none", "pending"}
    /\ exitStatus \in {Unset, 0, 1}

\* No thread outlives the objects of main it uses: when main returns, the monitor's
\* thread has ended, also when main returns because of an exception, and no io
\* thread is left in the pool, whose destructor closes the connections
\* (main.cpp:72-75, memorymonitor.cpp:29-37, connectionpool.cpp:18-24).
ObjectsOutliveThreads ==
    main = "ended" => /\ monitor \in {"none", "over"}
                      /\ \A t \in Threads : pc[t] = "idle"

\* A server that has threads to run it serves until it is killed: its acceptor goes
\* on after every error, so that run() never runs out of work (server.cpp:13-27).
NeverStopsServing == main \in {"stop", "stopping", "ended"} => threads = {}

\* main comes to serve for good or ends; in particular stop() returns, because the
\* monitor looks at running_ again when it has slept (memorymonitor.cpp:29-40).
MainSettles == <>[](main \in {"joining", "ended", "aborted"})

\* acquire() returns, with a connection or without, unless the process ends.
AcquireReturnsWhileAlive ==
    \A t \in Threads : pc[t] = "entering" ~> pc[t] \in {"using", "idle"} \/ ~Alive
=============================================================================
