\* Three threads allocate, collect explicitly, dump and exit; none is created.
\* No symmetry: the liveness property speaks of single threads.
CONSTANTS
    main = main  t1 = t1  t2 = t2  Nobody = Nobody
    Threads <- MCThreads
    Main = main
    MaxThreads = 3
    HeapWords = 2
    MaxRequest = 1
    Running <- MCThreads
    Spawners <- NoThreads
    Dumpers <- JustMain
    Loaders <- NoThreads
    RegWriters <- NoThreads
SPECIFICATION MutatorSpec
INVARIANTS WorldStopped NoStaleRoots ScannedSlotsHaveStacks
PROPERTIES FreedOutsideCollection HeapShared HandshakeCompletes
