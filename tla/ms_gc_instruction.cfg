\* One of two threads also executes the GC instruction.
CONSTANTS
    ThreadCount = 2
    HeapWords = 2
    TlabSize = 1
    Collectors = {0}
SPECIFICATION Spec
INVARIANT WorldStopped
