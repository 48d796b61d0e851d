\* Native threads: the handshake while threads are created, run, exit and are created again.
\* Green threads, one machine: a future with alarms, and one whose body blocks.
CONSTANTS
    boot = boot  t1 = t1  t2 = t2  Nobody = Nobody
    MaxThreads = 2
    HeapWords = 2
    MaxRequest = 1
    Dumpers <- NoThreads
    Loaders <- JustBoot
    Parts <- LivingParts
    v1 = v1  v2 = v2  Nothing = Nothing
    main = main  busy = busy  A = A  B = B  F = F
    VMs <- Machines
    Procs <- Everyone
    Main = v1
    Boot = main
    Busy <- BusyWork
    Filler = F
    Worlds <- LivePrograms
    Idlers = {main, busy}
    MaxCalls <- MainTwice
    DrainMax = 1
SPECIFICATION EitherFairSpec
INVARIANT RequestFits
PROPERTIES HandshakeCompletes ForceEnds EveryEntryRuns
