\* Native threads: the boot thread creates threads, slots are recycled, creations fail, STORE-REG.
\* Green threads: semaphores and a future on two machines, a future on one with alarms.
CONSTANTS
    boot = boot  t1 = t1  t2 = t2  Nobody = Nobody
    MaxThreads = 3
    HeapWords = 2
    MaxRequest = 1
    Dumpers <- NoThreads
    Loaders <- NoThreads
    Parts <- EveryPart
    v1 = v1  v2 = v2  Nothing = Nothing
    main = main  busy = busy  A = A  B = B  F = F
    VMs <- Machines
    Procs <- Everyone
    Main = v1
    Boot = main
    Busy <- BusyWork
    Filler = F
    Worlds <- SafePrograms
    Idlers = {main, busy}
    MaxCalls <- MainTwice
    DrainMax = 1
SYMMETRY Others
SPECIFICATION EitherSpec
INVARIANTS
    NativeTypeOK SlotsExclusive RequestFits
    TypeOK RunsOnce RegisterFits SemaphoreBalanced WaitersSignalled FutureAnswersOnce NeverIdle NeverInterrupted
PROPERTY NobodySuspendsLate
