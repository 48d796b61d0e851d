\* Two threads run out of memory in turn; no thread executes GC.
CONSTANTS
    ThreadCount = 2
    HeapWords = 2
    TlabSize = 1
    Collectors = {}
SPECIFICATION Spec
INVARIANT PausesStopWorld
