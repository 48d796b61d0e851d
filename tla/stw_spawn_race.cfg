\* A thread created during a handshake.
CONSTANTS
    main = main  t1 = t1  t2 = t2  Nobody = Nobody
    Threads <- MCThreads
    Main = main
    MaxThreads = 3
    HeapWords = 2
    MaxRequest = 1
    Running <- MainAndT1
    Spawners <- MainAndT1
    Dumpers <- NoThreads
    Loaders <- NoThreads
    RegWriters <- NoThreads
SPECIFICATION Spec
INVARIANT WorldStopped
