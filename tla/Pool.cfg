SPECIFICATION ProcessSpec
CONSTANTS
    t1 = t1  t2 = t2  t3 = t3  c1 = c1  c2 = c2  c3 = c3
    Threads <- MCThreads
    Connections <- MCConnections
    NoConnection = NoConnection
    NoThread = NoThread
    PoolSize = 1
    MaxSize = 2
    ConfigFiles <- MCConfigFiles
    NoFile = NoFile
    Unset = Unset
    Concurrency = {0, 8}
INVARIANTS
    TypeOK
    Accounted
    NoLostWakeup
    ProcessTypeOK
    ObjectsOutliveThreads
    NeverStopsServing
PROPERTIES
    ImplementsResourcePool
    MainSettles
    AcquireReturnsWhileAlive
CHECK_DEADLOCK FALSE
