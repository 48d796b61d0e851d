\* Allocation exhausts the heap again and again; no thread executes GC.
CONSTANTS
    ThreadCount = 3
    HeapWords = 3
    TlabSize = 2
    Collectors = {}
SPECIFICATION FairSpec
INVARIANTS FallBackMovesAlone ReleasesOwnLock
PROPERTY CycleEnds
