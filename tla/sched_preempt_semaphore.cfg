\* A waiter and a signaller on one machine with alarms.
CONSTANTS
    v1 = v1  v2 = v2  Nothing = Nothing
    main = main  busy = busy  A = A  B = B  F = F
    VMs <- Machines
    Procs <- Everyone
    Main = v1
    Boot = main
    Busy <- BusyWork
    Filler = F
    Worlds <- Preempted
    Idlers = {main, busy}
    MaxCalls <- MainTwice
    DrainMax = 1
CHECK_DEADLOCK FALSE
SPECIFICATION FairSpec
PROPERTIES SchedulerReleased
